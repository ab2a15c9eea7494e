----------------------------- MODULE MdbTxnProof -----------------------------
(***************************************************************************)
(* Proofs about MdbTxn, for every value of its constants and any number of *)
(* readers: the types, the writer's invariant, then the readers' and what   *)
(* both imply.                                                             *)
(***************************************************************************)
EXTENDS MdbTxnInv, LeastNat, FiniteSetTheorems, WellFoundedInduction, TLAPS

-----------------------------------------------------------------------------
(***************************************************************************)
(* The operators.                                                          *)
(***************************************************************************)

\* SetMin is the least element.
LEMMA SetMinFact ==
    ASSUME NEW S, S \subseteq Nat, S # {}
    PROVE  SetMin(S) \in S /\ \A y \in S : SetMin(S) <= y
BY NatHasMin DEF SetMin

\* A page map's pages and stamps are in range, and every such function is a
\* page map.
LEMMA PageMapFact ==
    /\ \A f \in PageMaps : DOMAIN f \subseteq Pages /\ \A p \in DOMAIN f : f[p] \in Stamps
    /\ \A S \in SUBSET Pages : \A f \in [S -> Stamps] : f \in PageMaps
BY DEF PageMaps

\* Adding a page to a page map, as when a tree takes a page.
LEMMA WithFact ==
    ASSUME NEW f \in PageMaps, NEW p \in Pages, NEW s \in Stamps
    PROVE  /\ With(f, p, s) \in PageMaps
           /\ DOMAIN With(f, p, s) = DOMAIN f \cup {p}
           /\ With(f, p, s)[p] = s
           /\ \A q \in DOMAIN f : q # p => With(f, p, s)[q] = f[q]
<1> DEFINE g == With(f, p, s)
           S == DOMAIN f \cup {p}
<1>1. S \in SUBSET Pages /\ \A q \in DOMAIN f : f[q] \in Stamps
  BY PageMapFact
<1>2. g = [q \in S |-> IF q = p THEN s ELSE f[q]]
  BY DEF With
<1>3. g \in [S -> Stamps]
  BY <1>1, <1>2
<1> QED BY <1>1, <1>2, <1>3, PageMapFact

\* Taking pages out of a page map, as when a tree gives pages up.
LEMMA WithoutFact ==
    ASSUME NEW f \in PageMaps, NEW T
    PROVE  /\ Without(f, T) \in PageMaps
           /\ DOMAIN Without(f, T) = DOMAIN f \ T
           /\ \A q \in DOMAIN f \ T : Without(f, T)[q] = f[q]
<1> DEFINE g == Without(f, T)
           S == DOMAIN f \ T
<1>1. S \in SUBSET Pages /\ \A q \in DOMAIN f : f[q] \in Stamps
  BY PageMapFact
<1>2. g = [q \in S |-> f[q]]
  BY DEF Without
<1>3. g \in [S -> Stamps]
  BY <1>1, <1>2
<1> QED BY <1>1, <1>2, <1>3, PageMapFact

\* The values at the start and at a transaction's end have their types.
LEMMA EmptyFact ==
    /\ EmptySnapshot \in Snapshots
    /\ IdleReader \in ReaderTxns
    /\ IdleWriter \in WriterTxns
<1>1. [p \in {} |-> 0] \in PageMaps
  <2>1. {} \in SUBSET Pages /\ [p \in {} |-> 0] \in [{} -> Stamps]
    OBVIOUS
  <2> QED BY <2>1, PageMapFact
<1>2. 0 \in Txnids /\ 0 \in Stamps /\ NumMetas \in NumMetas..MaxPg
  BY BoundsAssumption DEF Txnids, Stamps, NumMetas
<1>3. EmptySnapshot \in Snapshots
  BY <1>1, <1>2 DEF EmptySnapshot, Snapshots, Records, NoPage
<1>4. IdleReader \in ReaderTxns
  BY <1>2, <1>3 DEF IdleReader, ReaderTxns, ReaderPcs
<1>5. IdleWriter \in WriterTxns
  BY <1>1, <1>2, <1>3 DEF IdleWriter, WriterTxns, WriterPcs, EmptySnapshot, Snapshots, Records
<1> QED BY <1>3, <1>4, <1>5

\* The meta page that is picked (mdb_env_pick_meta) is a meta page.
LEMMA MetaFact ==
    ASSUME NEW m \in [0..1 -> Metas]
    PROVE  PickMeta(m) \in Metas /\ \A n \in Nat : m[n % 2] \in Metas
<1>1. \A n \in Nat : n % 2 \in 0..1
  OBVIOUS
<1> QED BY <1>1 DEF PickMeta

\* The fields of a meta page (MDB_meta) have their types.
LEMMA MetaFields ==
    ASSUME NEW m \in Metas
    PROVE  /\ m.txnid \in Txnids /\ m.last \in Nat /\ m.last + 1 \in NumMetas..MaxPg
           /\ m.dbs \in Snapshots
           /\ m.dbs.pg \in PageMaps /\ m.dbs.fdb \in Pages \cup {NoPage}
           /\ m.dbs.recs \in Records
BY BoundsAssumption DEF Metas, Snapshots, NumMetas

-----------------------------------------------------------------------------
(***************************************************************************)
(* mdb_page_alloc.                                                         *)
(***************************************************************************)

TypeInv == TypeOK /\ (w.pc # "idle" => w.txnid >= 1)

\* The oldest reader is an id, at most that of the last commit, and at most
\* the content of every reader's slot.
LEMMA OldestFact ==
    ASSUME TypeOK, w.txnid >= 1
    PROVE  /\ FindOldest \in Txnids /\ FindOldest <= w.txnid - 1
           /\ \A r \in Readers : FindOldest <= slot[r]
           /\ \A x : Oldest(x) \in {pgoldest, FindOldest}
<1> DEFINE S == {w.txnid - 1} \cup {slot[r] : r \in Readers}
<1>1. w.txnid \in Txnids /\ \A r \in Readers : slot[r] \in Nat
  BY BoundsAssumption DEF TypeOK, WriterTxns, Txnids, NoTxn
<1>2. S \subseteq Nat /\ S # {} /\ w.txnid - 1 \in S
  BY <1>1, BoundsAssumption DEF Txnids
<1>3. SetMin(S) \in S /\ \A y \in S : SetMin(S) <= y
  BY <1>2, SetMinFact
<1>4. FindOldest = SetMin(S)
  BY DEF FindOldest
<1>5. \A x : Oldest(x) \in {pgoldest, FindOldest}
  BY DEF Oldest
<1>6. FindOldest \in Nat /\ FindOldest <= w.txnid - 1
  <2> HIDE DEF S
  <2> QED BY <1>2, <1>3, <1>4
<1>7. \A r \in Readers : slot[r] \in S
  OBVIOUS
<1> HIDE DEF S
<1> QED BY <1>1, <1>3, <1>4, <1>5, <1>6, <1>7, BoundsAssumption DEF Txnids

\* What looking for free pages does: nothing, or it takes a usable record.
LEMMA RefillFact ==
    ASSUME TypeOK, NEW x \in WriterTxns
    PROVE  \/ Refill(x) = x
           \/ /\ x.pghead = {}
              /\ \E t \in Usable(x, Oldest(x)) :
                    Refill(x) = [x EXCEPT !.pghead = x.recs[t], !.pglast = t]
<1> DEFINE U == Usable(x, Oldest(x))
<1>1. U \subseteq Nat
  BY BoundsAssumption DEF Usable, Later
<1>2. U # {} => SetMin(U) \in U
  BY <1>1, SetMinFact
<1> QED BY <1>2 DEF Refill

\* Taking records of the freeDB (mdb_page_alloc) keeps the writer's type.
LEMMA RefillType ==
    ASSUME TypeOK, NEW x \in WriterTxns
    PROVE  Refill(x) \in WriterTxns
<1>1. \A t \in Usable(x, Oldest(x)) : t \in 1..MaxTxn /\ t \in Txnids
  BY BoundsAssumption DEF Usable, Later, Txnids
<1>2. \A t \in 1..MaxTxn : x.recs[t] \in SUBSET Pages
  BY DEF WriterTxns, Records
<1>3. \A t \in 1..MaxTxn : t \in Txnids =>
        [x EXCEPT !.pghead = x.recs[t], !.pglast = t] \in WriterTxns
  BY <1>2 DEF WriterTxns
<1> QED BY <1>1, <1>3, RefillFact

\* The page comes from the loose pages, from me_pghead, or from the end.
LEMMA AllocFact ==
    ASSUME TypeOK, NEW x \in WriterTxns, NEW a \in Alloc(x)
    PROVE  \/ /\ a.page \in x.loose
              /\ a.txn = [x EXCEPT !.loose = @ \ {a.page}]
           \/ /\ x.loose = {}
              /\ a.page \in Refill(x).pghead
              /\ a.txn = [Refill(x) EXCEPT !.pghead = @ \ {a.page},
                                           !.dirty = @ \cup {a.page}]
           \/ /\ x.loose = {}
              /\ a.page = Refill(x).next /\ a.page + 1 < MaxPg
              /\ a.txn = [Refill(x) EXCEPT !.next = @ + 1,
                                           !.dirty = @ \cup {a.page}]
<1>1. Refill(x).pghead \subseteq Nat
  BY RefillType, BoundsAssumption DEF WriterTxns, Pages, NumMetas
<1>2. Refill(x).pghead # {} => SetMin(Refill(x).pghead) \in Refill(x).pghead
  BY <1>1, SetMinFact
<1>3. CASE x.loose # {}
  BY <1>3 DEF Alloc
<1>4. CASE x.loose = {} /\ Refill(x).pghead # {}
  <2> DEFINE p == SetMin(Refill(x).pghead)
  <2>1. a = [page |-> p, txn |-> [Refill(x) EXCEPT !.pghead = @ \ {p},
                                                   !.dirty = @ \cup {p}]]
    BY <1>4 DEF Alloc
  <2> QED BY <1>2, <1>4, <2>1
<1>5. CASE x.loose = {} /\ Refill(x).pghead = {}
  <2> DEFINE p == Refill(x).next
  <2>1. a = [page |-> p, txn |-> [Refill(x) EXCEPT !.next = @ + 1,
                                                   !.dirty = @ \cup {p}]]
        /\ ~(p + 1 >= MaxPg)
    BY <1>5 DEF Alloc
  <2>2. p \in Nat
    BY RefillType, BoundsAssumption DEF WriterTxns, NumMetas
  <2> QED BY <1>5, <2>1, <2>2, BoundsAssumption
<1> QED BY <1>3, <1>4, <1>5

\* What mdb_page_alloc returns: a page, and a transaction in which only the
\* sources of free pages changed.
LEMMA AllocType ==
    ASSUME TypeOK, NEW x \in WriterTxns, NEW a \in Alloc(x)
    PROVE  /\ a.page \in Pages /\ a.txn \in WriterTxns
           /\ a.txn.pc = x.pc /\ a.txn.txnid = x.txnid /\ a.txn.stamp = x.stamp
           /\ a.txn.pg = x.pg /\ a.txn.fdb = x.fdb /\ a.txn.recs = x.recs
           /\ a.txn.free = x.free /\ a.txn.error = x.error
<1> DEFINE y == Refill(x)
<1>1. y \in WriterTxns
  BY RefillType
<1>2. /\ y.pc = x.pc /\ y.txnid = x.txnid /\ y.stamp = x.stamp
      /\ y.pg = x.pg /\ y.fdb = x.fdb /\ y.recs = x.recs
      /\ y.free = x.free /\ y.error = x.error
  BY RefillFact DEF WriterTxns
<1>3. CASE a.page \in x.loose /\ a.txn = [x EXCEPT !.loose = @ \ {a.page}]
  BY <1>3 DEF WriterTxns
<1>4. CASE a.page \in y.pghead
           /\ a.txn = [y EXCEPT !.pghead = @ \ {a.page}, !.dirty = @ \cup {a.page}]
  <2> HIDE DEF y
  <2>1. a.page \in Pages
    BY <1>1, <1>4 DEF WriterTxns
  <2>2. a.txn \in WriterTxns
    <3>1. y.pghead \ {a.page} \in SUBSET Pages /\ y.dirty \cup {a.page} \in SUBSET Pages
      BY <1>1, <2>1 DEF WriterTxns
    <3> QED BY <1>1, <1>4, <3>1 DEF WriterTxns
  <2>3. /\ a.txn.pc = y.pc /\ a.txn.txnid = y.txnid /\ a.txn.stamp = y.stamp
        /\ a.txn.pg = y.pg /\ a.txn.fdb = y.fdb /\ a.txn.recs = y.recs
        /\ a.txn.free = y.free /\ a.txn.error = y.error
    BY <1>1, <1>4 DEF WriterTxns
  <2> QED BY <1>2, <2>1, <2>2, <2>3
<1>5. CASE /\ a.page = y.next /\ a.page + 1 < MaxPg
           /\ a.txn = [y EXCEPT !.next = @ + 1, !.dirty = @ \cup {a.page}]
  <2> HIDE DEF y
  <2>1. y.next \in NumMetas..MaxPg
    BY <1>1 DEF WriterTxns
  <2>2. a.page \in Pages /\ y.next + 1 \in NumMetas..MaxPg
    BY <2>1, <1>5, BoundsAssumption DEF Pages, NumMetas
  <2>3. a.txn \in WriterTxns
    <3>1. y.dirty \cup {a.page} \in SUBSET Pages
      BY <1>1, <2>2 DEF WriterTxns
    <3> QED BY <1>1, <1>5, <2>2, <3>1 DEF WriterTxns
  <2>4. /\ a.txn.pc = y.pc /\ a.txn.txnid = y.txnid /\ a.txn.stamp = y.stamp
        /\ a.txn.pg = y.pg /\ a.txn.fdb = y.fdb /\ a.txn.recs = y.recs
        /\ a.txn.free = y.free /\ a.txn.error = y.error
    BY <1>1, <1>5 DEF WriterTxns
  <2> QED BY <1>2, <2>2, <2>3, <2>4
<1> QED BY <1>3, <1>4, <1>5, AllocFact

-----------------------------------------------------------------------------
(***************************************************************************)
(* Every variable keeps its type.                                          *)
(***************************************************************************)

\* The initial states are of the right type.
LEMMA TypeInit == Init => TypeInv
<1>1. /\ NumMetas - 1 \in (NumMetas - 1)..(MaxPg - 1)
      /\ 0 \in Txnids /\ 0 \in Stamps /\ NoTxn \in Txnids \cup {NoTxn}
  BY BoundsAssumption DEF Txnids, Stamps, NumMetas
<1>2. [txnid |-> 0, last |-> NumMetas - 1, dbs |-> EmptySnapshot] \in Metas
  BY <1>1, EmptyFact DEF Metas
<1>3. IdleWriter.pc = "idle"
  BY DEF IdleWriter
<1> SUFFICES ASSUME Init PROVE TypeInv
  OBVIOUS
<1>4. metas \in [0..1 -> Metas] /\ dmetas \in [0..1 -> Metas]
  BY <1>2 DEF Init
<1>5. file \in [Pages -> Stamps] /\ disk \in [Pages -> Stamps]
  BY <1>1 DEF Init
<1>6. slot \in [Readers -> Txnids \cup {NoTxn}] /\ rd \in [Readers -> ReaderTxns]
  BY <1>1, EmptyFact DEF Init
<1>7. mti \in Txnids /\ pgoldest \in Txnids /\ begins \in Stamps
      /\ fatal \in BOOLEAN /\ ownerdead \in BOOLEAN /\ w \in WriterTxns
      /\ w.pc = "idle"
  BY <1>1, <1>3, EmptyFact DEF Init
<1> QED BY <1>4, <1>5, <1>6, <1>7 DEF TypeInv, TypeOK

\* A step of a read transaction (mdb_txn_renew0, mdb_txn_end) keeps the types.
LEMMA TypeReader ==
    ASSUME TypeInv, NEW r \in Readers, ReaderStep(r)
    PROVE  TypeInv'
<1> USE DEF TypeInv, TypeOK, ReaderUnchanged, store
<1>1. \A n \in Txnids \cup {NoTxn} : metas[n % 2] \in Metas
  BY MetaFact, BoundsAssumption DEF Txnids, NoTxn
<1>2. /\ {"idle", "loaded", "stored", "verified", "copied", "live"} = ReaderPcs
      /\ slot[r] \in Txnids \cup {NoTxn} /\ rd[r] \in ReaderTxns
  BY DEF ReaderPcs
<1>3. CASE ReaderLoad(r)
  BY <1>2, <1>3 DEF ReaderLoad, ReaderTxns
<1>4. CASE ReaderStore(r)
  <2>1. rd[r].reg \in Txnids
    BY <1>2 DEF ReaderTxns
  <2> QED BY <1>2, <1>4, <2>1 DEF ReaderStore, ReaderTxns
<1>5. CASE ReaderVerify(r)
  BY <1>2, <1>5 DEF ReaderVerify, ReaderTxns
<1>6. CASE ReaderCopyDbs(r)
  <2>1. metas[slot[r] % 2].dbs \in Snapshots
    BY <1>1, <1>2, MetaFields
  <2> QED BY <1>2, <1>6, <2>1 DEF ReaderCopyDbs, ReaderTxns
<1>7. CASE ReaderCopyNext(r)
  <2>1. metas[slot[r] % 2].last + 1 \in Nat
    BY <1>1, <1>2, MetaFields
  <2> QED BY <1>2, <1>7, <2>1, EmptyFact DEF ReaderCopyNext, ReaderTxns
<1>8. CASE ReaderEnd(r)
  BY <1>2, <1>8, EmptyFact DEF ReaderEnd
<1> QED BY <1>3, <1>4, <1>5, <1>6, <1>7, <1>8 DEF ReaderStep

\* A step of the writer that leaves the rest alone keeps the types if the
\* new write transaction and the new me_pgoldest have theirs.
LEMMA TypeFrame ==
    ASSUME TypeInv, WriterUnchanged, w' \in WriterTxns, pgoldest' \in Txnids,
           w'.pc # "idle" => w'.txnid >= 1
    PROVE  TypeInv'
BY DEF TypeInv, TypeOK, WriterUnchanged, store

\* The fields of the write transaction (MDB_txn) have their types.
LEMMA WriterFields ==
    ASSUME NEW x \in WriterTxns
    PROVE  /\ x.pc \in WriterPcs /\ x.txnid \in Txnids /\ x.stamp \in Stamps
           /\ x.pg \in PageMaps /\ x.fdb \in Pages \cup {NoPage} /\ x.recs \in Records
           /\ x.next \in NumMetas..MaxPg /\ x.pghead \in SUBSET Pages
           /\ x.pglast \in Txnids /\ x.free \in SUBSET Pages
           /\ x.loose \in SUBSET Pages /\ x.dirty \in SUBSET Pages
           /\ x.error \in BOOLEAN
BY DEF WriterTxns

\* The begin of a write transaction (mdb_txn_renew0) keeps the types.
LEMMA TypeBegin == TypeInv /\ WriterBegin => TypeInv'
<1> SUFFICES ASSUME TypeInv, WriterBegin PROVE TypeInv'
  OBVIOUS
<1> DEFINE last == IF ownerdead THEN PickMeta(metas).txnid ELSE mti
           m    == metas[last % 2]
<1>1. last \in Txnids
  BY MetaFact, MetaFields DEF TypeInv, TypeOK
<1>2. m \in Metas
  BY <1>1, MetaFact, BoundsAssumption DEF TypeInv, TypeOK, Txnids
<1>3. /\ mti' = last /\ ownerdead' = FALSE /\ begins' = begins + 1
      /\ last < MaxTxn /\ begins < MaxBegins
      /\ w' = [IdleWriter EXCEPT !.pc = "open", !.txnid = last + 1,
                    !.stamp = begins + 1, !.pg = m.dbs.pg, !.fdb = m.dbs.fdb,
                    !.recs = m.dbs.recs, !.next = m.last + 1]
      /\ UNCHANGED <<store, slot, rd, pgoldest, fatal>>
  BY DEF WriterBegin, LastTxnid
<1> HIDE DEF last, m
<1>4. last + 1 \in Txnids /\ last + 1 >= 1 /\ begins + 1 \in Stamps
  BY <1>1, <1>3, BoundsAssumption DEF TypeInv, TypeOK, Txnids, Stamps
<1>5. /\ m.dbs.pg \in PageMaps /\ m.dbs.fdb \in Pages \cup {NoPage}
      /\ m.dbs.recs \in Records /\ m.last + 1 \in NumMetas..MaxPg
  BY <1>2, MetaFields
<1>6. w' \in WriterTxns /\ w'.txnid = last + 1
  BY <1>3, <1>4, <1>5, EmptyFact DEF WriterTxns, WriterPcs
<1> QED BY <1>1, <1>3, <1>4, <1>6 DEF TypeInv, TypeOK, store

\* Taking pages out of or into the working sets keeps the type.
LEMMA WriterUpdate ==
    ASSUME NEW x \in WriterTxns, NEW g \in PageMaps, NEW A \in SUBSET Pages,
           NEW B \in SUBSET Pages
    PROVE  /\ [x EXCEPT !.pg = g, !.free = A] \in WriterTxns
           /\ [x EXCEPT !.pg = g, !.loose = B, !.free = A] \in WriterTxns
           /\ [x EXCEPT !.pg = g, !.dirty = A, !.pghead = B] \in WriterTxns
           /\ \A f \in Pages : [x EXCEPT !.pg = g, !.free = A, !.fdb = f] \in WriterTxns
<1> USE DEF WriterTxns
<1>1. [x EXCEPT !.pg = g, !.free = A] \in WriterTxns
  OBVIOUS
<1>2. [x EXCEPT !.pg = g, !.loose = B, !.free = A] \in WriterTxns
  OBVIOUS
<1>3. [x EXCEPT !.pg = g, !.dirty = A, !.pghead = B] \in WriterTxns
  OBVIOUS
<1>4. \A f \in Pages : [x EXCEPT !.pg = g, !.free = A, !.fdb = f] \in WriterTxns
  OBVIOUS
<1> QED BY <1>1, <1>2, <1>3, <1>4

\* An operation of the write transaction on a page keeps the types.
LEMMA TypeWork ==
    ASSUME TypeInv,
           \/ PageNew \/ AllocFails
           \/ \E p \in Pages : PageTouch(p) \/ PageLoose(p) \/ OvpageFree(p) \/ DropPage(p)
    PROVE  TypeInv'
<1>1. /\ w \in WriterTxns /\ w.pc = "open" /\ w.txnid >= 1
      /\ w.stamp \in Stamps /\ TypeOK /\ pgoldest \in Txnids
  BY WriterFields
  DEF TypeInv, TypeOK, PageNew, AllocFails, PageTouch, PageLoose, OvpageFree, DropPage
<1>2. Oldest(w) \in Txnids
  BY <1>1, OldestFact
<1>3. WriterUnchanged
  BY DEF PageNew, AllocFails, PageTouch, PageLoose, OvpageFree, DropPage
<1>4. CASE PageNew
  <2>1. PICK a \in Alloc(w) : w' = [a.txn EXCEPT !.pg = With(@, a.page, w.stamp)]
    BY <1>4 DEF PageNew
  <2>2. a.page \in Pages /\ a.txn \in WriterTxns /\ a.txn.txnid = w.txnid
    BY <1>1, AllocType
  <2>3. With(a.txn.pg, a.page, w.stamp) \in PageMaps
    BY <1>1, <2>2, WithFact, WriterFields
  <2>4. w' \in WriterTxns /\ w'.txnid = w.txnid
    BY <2>1, <2>2, <2>3 DEF WriterTxns
  <2> QED BY <1>1, <1>2, <1>3, <1>4, <2>4, TypeFrame DEF PageNew
<1>5. CASE AllocFails
  <2>1. Refill(w) \in WriterTxns /\ Refill(w).txnid = w.txnid
    BY <1>1, RefillType, RefillFact DEF WriterTxns
  <2>2. w' \in WriterTxns /\ w'.txnid = w.txnid
    BY <1>5, <2>1 DEF AllocFails, WriterTxns
  <2> QED BY <1>1, <1>2, <1>3, <1>5, <2>2, TypeFrame DEF AllocFails
<1>6. ASSUME NEW p \in Pages, PageTouch(p) PROVE TypeInv'
  <2>1. PICK a \in Alloc(w) :
           w' = [a.txn EXCEPT !.pg = With(Without(@, {p}), a.page, w.stamp),
                              !.free = @ \cup {p}]
    BY <1>6 DEF PageTouch
  <2>2. a.page \in Pages /\ a.txn \in WriterTxns /\ a.txn.txnid = w.txnid
    BY <1>1, AllocType
  <2>3. With(Without(a.txn.pg, {p}), a.page, w.stamp) \in PageMaps
    BY <1>1, <2>2, WithFact, WithoutFact, WriterFields
  <2>4. a.txn.free \cup {p} \in SUBSET Pages
    BY <2>2, WriterFields
  <2>5. w' \in WriterTxns
    BY <2>1, <2>2, <2>3, <2>4, WriterUpdate
  <2>6. w'.txnid = w.txnid
    BY <2>1, <2>2 DEF WriterTxns
  <2> QED BY <1>1, <1>2, <1>3, <1>6, <2>5, <2>6, TypeFrame DEF PageTouch
<1>7. ASSUME NEW p \in Pages, PageLoose(p) \/ OvpageFree(p) \/ DropPage(p) PROVE TypeInv'
  <2> DEFINE g == Without(w.pg, {p})
             A == w.free \cup {p}
  <2>1. g \in PageMaps /\ A \in SUBSET Pages /\ w.free \in SUBSET Pages
        /\ w.dirty \ {p} \in SUBSET Pages /\ w.pghead \cup {p} \in SUBSET Pages
        /\ w.loose \cup {p} \in SUBSET Pages /\ w.loose \in SUBSET Pages
    BY <1>1, WithoutFact, WriterFields
  <2>2. \/ w' = [w EXCEPT !.pg = g, !.free = A]
        \/ w' = [w EXCEPT !.pg = g, !.loose = w.loose \cup {p}, !.free = w.free]
        \/ w' = [w EXCEPT !.pg = g, !.loose = w.loose, !.free = A]
        \/ w' = [w EXCEPT !.pg = g, !.dirty = w.dirty \ {p}, !.pghead = w.pghead \cup {p}]
    <3>1. CASE PageLoose(p)
      BY <3>1 DEF PageLoose
    <3>2. CASE OvpageFree(p)
      BY <3>2 DEF OvpageFree
    <3>3. CASE DropPage(p)
      BY <3>3 DEF DropPage
    <3> QED BY <1>7, <3>1, <3>2, <3>3
  <2> HIDE DEF g, A
  <2>3. w' \in WriterTxns
    <3>1. /\ [w EXCEPT !.pg = g, !.free = A] \in WriterTxns
          /\ [w EXCEPT !.pg = g, !.loose = w.loose, !.free = A] \in WriterTxns
      BY <1>1, <2>1, WriterUpdate
    <3>2. [w EXCEPT !.pg = g, !.loose = w.loose \cup {p}, !.free = w.free] \in WriterTxns
      BY <1>1, <2>1, WriterUpdate
    <3>3. [w EXCEPT !.pg = g, !.dirty = w.dirty \ {p}, !.pghead = w.pghead \cup {p}]
             \in WriterTxns
      BY <1>1, <2>1, WriterUpdate
    <3> QED BY <2>2, <3>1, <3>2, <3>3
  <2>4. w'.txnid = w.txnid
    BY <1>1, <2>2 DEF WriterTxns
  <2>5. pgoldest' = pgoldest
    BY <1>7 DEF PageLoose, OvpageFree, DropPage
  <2> QED BY <1>1, <1>3, <2>3, <2>4, <2>5, TypeFrame
<1> QED BY <1>4, <1>5, <1>6, <1>7

\* The freeDB that mdb_freelist_save leaves has its type.
LEMMA SavedRecordsType ==
    ASSUME NEW x \in WriterTxns
    PROVE  SavedRecords(x) \in Records
<1>1. \A t \in 1..MaxTxn : x.recs[t] \in SUBSET Pages
  BY WriterFields DEF Records
<1>2. x.free \in SUBSET Pages /\ x.pghead \cup x.loose \in SUBSET Pages
  BY WriterFields
<1> QED BY <1>1, <1>2 DEF SavedRecords, Records

\* Moving the loose pages (mdb_freelist_save) keeps the writer's type, its
\* place and its id.
LEMMA LooseToFreeType ==
    ASSUME NEW x \in WriterTxns
    PROVE  /\ LooseToFree(x) \in WriterTxns
           /\ LooseToFree(x).pc = x.pc /\ LooseToFree(x).txnid = x.txnid
           /\ LooseToFree(x).stamp = x.stamp
<1>1. x.free \cup x.loose \in SUBSET Pages /\ x.dirty \ x.loose \in SUBSET Pages
  BY WriterFields
<1> DEFINE y == [x EXCEPT !.free = x.free \cup x.loose, !.dirty = x.dirty \ x.loose,
                          !.loose = {}]
<1>2. y \in WriterTxns
  BY <1>1 DEF WriterTxns
<1>3. y.pc = x.pc /\ y.txnid = x.txnid /\ y.stamp = x.stamp
  BY DEF WriterTxns
<1>4. LooseToFree(x) = x \/ LooseToFree(x) = y
  BY DEF LooseToFree
<1> HIDE DEF y
<1> QED BY <1>2, <1>3, <1>4

\* mdb_freelist_save, with success or not, keeps the types.
LEMMA TypeSave ==
    ASSUME TypeInv, CommitSave \/ CommitSaveFails
    PROVE  TypeInv'
<1> DEFINE x == LooseToFree(w)
<1>1. /\ w \in WriterTxns /\ w.pc = "open" /\ w.txnid >= 1
      /\ w.stamp \in Stamps /\ TypeOK /\ pgoldest \in Txnids
  BY WriterFields DEF TypeInv, TypeOK, CommitSave, CommitSaveFails
<1>2. WriterUnchanged
  BY DEF CommitSave, CommitSaveFails
<1>3. x \in WriterTxns /\ x.txnid = w.txnid
  BY <1>1, LooseToFreeType
<1>4. Oldest(x) \in Txnids
  BY <1>1, OldestFact
<1>5. CASE CommitSaveFails
  <2>1. w' = IdleWriter /\ pgoldest' = Oldest(x) /\ IdleWriter.pc = "idle"
    BY <1>5 DEF CommitSaveFails, IdleWriter
  <2> QED BY <1>2, <1>4, <2>1, EmptyFact, TypeFrame
<1>6. CASE CommitSave /\ ~(x.pglast = 0 /\ x.free = {})
  <2> DEFINE Y(a) == [a.txn EXCEPT
                        !.pg = With(Without(@, {x.fdb}), a.page, w.stamp),
                        !.free = @ \cup ({x.fdb} \ {NoPage}),
                        !.fdb = a.page]
  <2>1. PICK a \in Alloc(x) :
          w' = [Y(a) EXCEPT !.recs = SavedRecords(Y(a)), !.pc = "saved"]
    BY <1>6 DEF CommitSave
  <2>2. pgoldest' = Oldest(x)
    BY <1>6 DEF CommitSave
  <2> HIDE DEF x
  <2>3. a.page \in Pages /\ a.txn \in WriterTxns /\ a.txn.txnid = x.txnid
    BY <1>1, <1>3, AllocType
  <2>4. With(Without(a.txn.pg, {x.fdb}), a.page, w.stamp) \in PageMaps
    BY <1>1, <2>3, WithFact, WithoutFact, WriterFields
  <2>5. a.txn.free \cup ({x.fdb} \ {NoPage}) \in SUBSET Pages
    BY <1>3, <2>3, WriterFields
  <2>6. Y(a) \in WriterTxns
    BY <2>3, <2>4, <2>5, WriterUpdate
  <2>7. Y(a).txnid = w.txnid
    BY <1>3, <2>3 DEF WriterTxns
  <2> HIDE DEF Y
  <2>8. w' \in WriterTxns /\ w'.txnid = w.txnid
    BY <2>1, <2>6, <2>7, SavedRecordsType DEF WriterTxns, WriterPcs
  <2> QED BY <1>1, <1>2, <1>4, <2>2, <2>8, TypeFrame
<1>7. CASE CommitSave /\ x.pglast = 0 /\ x.free = {}
  <2>1. w' = [x EXCEPT !.pc = "saved"] /\ pgoldest' = pgoldest
    BY <1>7 DEF CommitSave
  <2> HIDE DEF x
  <2>2. w' \in WriterTxns /\ w'.txnid = w.txnid
    BY <1>3, <2>1 DEF WriterTxns, WriterPcs
  <2> QED BY <1>1, <1>2, <2>1, <2>2, TypeFrame
<1> QED BY <1>5, <1>6, <1>7

\* Writing pages (mdb_page_flush) keeps the type of the file.
LEMMA FlushType ==
    ASSUME TypeOK, NEW S
    PROVE  FlushPages(S) \in [Pages -> Stamps]
<1>1. w.stamp \in Stamps
  BY WriterFields DEF TypeOK
<1> QED BY <1>1 DEF FlushPages, TypeOK

\* The steps of _mdb_txn_commit after the saving of the freeDB keep the types.
LEMMA TypeCommit ==
    ASSUME TypeInv, CommitStep, ~(CommitSave \/ CommitSaveFails)
    PROVE  TypeInv'
<1>1. /\ TypeOK /\ w \in WriterTxns /\ w.txnid \in Txnids /\ w.recs \in Records
      /\ w.pg \in PageMaps /\ w.fdb \in Pages \cup {NoPage}
      /\ w.next \in NumMetas..MaxPg
  BY WriterFields DEF TypeInv, TypeOK
<1>2. IdleWriter \in WriterTxns /\ IdleWriter.pc = "idle"
  BY EmptyFact DEF IdleWriter
<1>3. Toggle \in 0..1
  BY <1>1, BoundsAssumption DEF Toggle, Txnids
<1>4. \A p \in WriterPcs : [w EXCEPT !.pc = p] \in WriterTxns
                           /\ [w EXCEPT !.pc = p].txnid = w.txnid
  BY <1>1 DEF WriterTxns
<1>5. {"saved", "flushed", "synced", "dbs", "written"} \subseteq WriterPcs
  BY DEF WriterPcs
<1>6. CASE CommitNothing
  BY <1>2, <1>6 DEF CommitNothing, EndWriter, WriterUnchanged, TypeInv, TypeOK, store
<1>7. CASE CommitFlush
  BY <1>1, <1>4, <1>5, <1>7, FlushType DEF CommitFlush, TypeInv, TypeOK
<1>8. CASE CommitFlushFails
  BY <1>1, <1>2, <1>8, FlushType DEF CommitFlushFails, EndWriter, TypeInv, TypeOK
<1>9. CASE CommitSync
  BY <1>4, <1>5, <1>9 DEF CommitSync, TypeInv, TypeOK
<1>10. CASE CommitSyncFails
  BY <1>2, <1>10 DEF CommitSyncFails, EndWriter, WriterUnchanged, TypeInv, TypeOK, store
<1>11. CASE CommitMetaDbs
  <2>1. [of |-> w.txnid, pg |-> w.pg, fdb |-> w.fdb, recs |-> w.recs] \in Snapshots
    BY <1>1 DEF Snapshots
  <2>2. metas' \in [0..1 -> Metas]
    BY <1>3, <1>11, <2>1 DEF CommitMetaDbs, TypeInv, TypeOK, Metas
  <2> QED BY <1>4, <1>5, <1>11, <2>2 DEF CommitMetaDbs, TypeInv, TypeOK
<1>12. CASE CommitMetaTail
  <2>1. w.next - 1 \in (NumMetas - 1)..(MaxPg - 1)
    BY <1>1, BoundsAssumption DEF NumMetas
  <2>2. metas' \in [0..1 -> Metas]
    BY <1>1, <1>3, <1>12, <2>1 DEF CommitMetaTail, TypeInv, TypeOK, Metas
  <2>3. dmetas' \in [0..1 -> Metas]
    BY <1>3, <1>12, <2>2 DEF CommitMetaTail, TypeInv, TypeOK
  <2> QED BY <1>4, <1>5, <1>12, <2>2, <2>3 DEF CommitMetaTail, TypeInv, TypeOK
<1>13. CASE CommitMetaFails
  <2>1. w.next - 1 \in (NumMetas - 1)..(MaxPg - 1)
    BY <1>1, BoundsAssumption DEF NumMetas
  <2>2. [txnid |-> w.txnid, last |-> w.next - 1, dbs |-> metas[Toggle].dbs] \in Metas
    BY <1>1, <1>3, <2>1, MetaFields DEF TypeOK, Metas
  <2>3. dmetas' \in [0..1 -> Metas]
    BY <1>13, <2>2 DEF CommitMetaFails, TypeInv, TypeOK
  <2> QED BY <1>2, <1>13, <2>3 DEF CommitMetaFails, EndWriter, TypeInv, TypeOK
<1>14. CASE CommitPublish
  BY <1>1, <1>2, <1>14 DEF CommitPublish, EndWriter, TypeInv, TypeOK, store
<1> QED BY <1>6, <1>7, <1>8, <1>9, <1>10, <1>11, <1>12, <1>13, <1>14 DEF CommitStep

\* A power loss and the next opening keep the types.
LEMMA TypePowerLoss == TypeInv /\ PowerLoss => TypeInv'
<1> SUFFICES ASSUME TypeInv, PowerLoss PROVE TypeInv'
  OBVIOUS
<1> USE DEF TypeInv, TypeOK
<1>1. metas' \in [0..1 -> Metas] /\ file' \in [Pages -> Stamps]
  BY DEF PowerLoss
<1>2. PickMeta(metas').txnid \in Txnids
  BY <1>1, MetaFact, MetaFields
<1>3. IdleWriter.pc = "idle" /\ 0 \in Txnids /\ NoTxn \in Txnids \cup {NoTxn}
  BY BoundsAssumption DEF IdleWriter, Txnids
<1>4. dmetas' = metas' /\ disk' = file' /\ mti' = PickMeta(metas').txnid
      /\ w' = IdleWriter /\ pgoldest' = 0 /\ fatal' = FALSE /\ ownerdead' = FALSE
      /\ begins' = begins
  BY DEF PowerLoss
<1>5. slot' \in [Readers -> Txnids \cup {NoTxn}] /\ rd' \in [Readers -> ReaderTxns]
  BY <1>3, EmptyFact DEF PowerLoss
<1> QED BY <1>1, <1>2, <1>3, <1>4, <1>5, EmptyFact

\* Every step keeps the types.
LEMMA TypeStep == TypeInv /\ [Next]_vars => TypeInv'
<1> SUFFICES ASSUME TypeInv, [Next]_vars PROVE TypeInv'
  OBVIOUS
<1>1. IdleWriter.pc = "idle" /\ 0 \in Txnids
  BY BoundsAssumption DEF IdleWriter, Txnids
<1>2. ASSUME NEW r \in Readers, ReaderStep(r) PROVE TypeInv'
  BY <1>2, TypeReader
<1>3. CASE WriterStep
  <2>1. CASE WriterAbort
    BY <1>1, <2>1, EmptyFact
    DEF WriterAbort, EndWriter, WriterUnchanged, TypeInv, TypeOK, store
  <2> QED BY <1>3, <2>1, TypeBegin, TypeWork, TypeSave, TypeCommit DEF WriterStep
<1>4. CASE WriterDies
  BY <1>1, <1>4, EmptyFact DEF WriterDies, TypeInv, TypeOK, store
<1>5. CASE FatalShutdown
  BY <1>1, <1>5 DEF FatalShutdown, TypeInv, TypeOK, store
<1>6. CASE UNCHANGED vars
  BY <1>6 DEF vars, TypeInv, TypeOK, store
<1> QED BY <1>2, <1>3, <1>4, <1>5, <1>6, TypePowerLoss DEF Next

\* Every variable always has its type, whatever the faults: in particular
\* me_pgoldest is the id of a commit, every page handed out lies inside the
\* map, and mt_next_pgno never passes me_maxpg.
THEOREM TypeCorrect == Spec => []TypeOK
<1>1. TypeInv => TypeOK
  BY DEF TypeInv
<1> QED BY <1>1, TypeInit, TypeStep, PTL DEF Spec

-----------------------------------------------------------------------------
(***************************************************************************)
(* The meta pages.                                                         *)
(***************************************************************************)

\* Parity, which chooses the meta page of a transaction (txnid & 1).
LEMMA ParityFact ==
    ASSUME NEW n \in Nat
    PROVE  /\ n % 2 \in 0..1 /\ 1 - (n % 2) \in 0..1
           /\ (n + 1) % 2 = 1 - (n % 2) /\ 1 - ((n + 1) % 2) = n % 2
OBVIOUS

\* The meta pages the invariant speaks of are meta pages.
LEMMA PrevType ==
    ASSUME TypeOK
    PROVE  /\ mti \in Nat /\ mti % 2 \in 0..1 /\ 1 - (mti % 2) \in 0..1
           /\ Prev \in Metas /\ Other \in Metas /\ Top \in Metas
<1>1. mti \in Nat
  BY BoundsAssumption DEF TypeOK, Txnids
<1>2. mti % 2 \in 0..1 /\ 1 - (mti % 2) \in 0..1
  BY <1>1, ParityFact
<1>3. Prev \in Metas /\ Other \in Metas
  BY <1>2 DEF TypeOK, Prev, Other
<1> QED BY <1>1, <1>2, <1>3 DEF Top

\* The meta page that mdb_env_pick_meta chooses.
LEMMA PickIsTop ==
    ASSUME TypeOK, MetaInv
    PROVE  PickMeta(metas) = Top /\ Top.txnid \in {mti, mti + 1}
<1>1. /\ mti \in Nat /\ mti % 2 \in 0..1
      /\ Prev.txnid \in Nat /\ Other.txnid \in Nat
  BY PrevType, MetaFields, BoundsAssumption DEF Txnids
<1>2. Prev.txnid = mti
      /\ (Other.txnid < mti \/ (mti = 0 /\ Other.txnid = 0) \/ Other.txnid = mti + 1)
  BY DEF MetaInv
<1>3. Top.txnid \in {mti, mti + 1}
  BY <1>1, <1>2 DEF Top
<1>4. CASE mti % 2 = 0
  <2>1. Prev = metas[0] /\ Other = metas[1]
    BY <1>4 DEF Prev, Other
  <2> QED BY <1>1, <1>2, <1>3, <2>1 DEF PickMeta, Top
<1>5. CASE mti % 2 = 1
  <2>1. Prev = metas[1] /\ Other = metas[0] /\ mti # 0
    BY <1>5 DEF Prev, Other
  <2> QED BY <1>1, <1>2, <1>3, <2>1 DEF PickMeta, Top
<1> QED BY <1>1, <1>4, <1>5

\* A step that leaves the meta pages and mti_txnid alone leaves their roles.
LEMMA MetaFrame ==
    ASSUME mti' = mti, metas' = metas
    PROVE  Prev' = Prev /\ Other' = Other /\ Top' = Top
BY DEF Prev, Other, Top

\* Except between the write of its meta page and the publication, the last
\* published snapshot is the current one.
LEMMA TopIsPrev ==
    ASSUME TypeOK, MetaInv, w.pc # "written", ~ownerdead
    PROVE  Top = Prev /\ Other.txnid # mti + 1
<1>1. mti \in Nat /\ Other.txnid \in Nat
  BY PrevType, MetaFields, BoundsAssumption DEF Txnids
<1> QED BY <1>1 DEF MetaInv, Top

-----------------------------------------------------------------------------
(***************************************************************************)
(* The working sets of the write transaction.                              *)
(***************************************************************************)

GoodMeta(m) == m \in Metas /\ SnapInv(m.dbs.pg, m.dbs.fdb, m.dbs.recs, m.last)

\* A fresh page is not in the last snapshot.
LEMMA FreshUnused ==
    ASSUME NEW m, GoodMeta(m), NEW x, NEW p, Fresh(x, m, p)
    PROVE  p \notin DOMAIN m.dbs.pg
<1>1. m.last \in Nat /\ m.dbs.pg \in PageMaps
  BY MetaFields DEF GoodMeta
<1>2. \A q \in DOMAIN m.dbs.pg : q \in Nat
  BY <1>1, PageMapFact, BoundsAssumption DEF Pages, NumMetas
<1> QED BY <1>1, <1>2 DEF SnapInv, GoodMeta, Fresh

\* It is not in a record that is still to be consumed, either.
LEMMA FreshFact ==
    ASSUME NEW m, GoodMeta(m), NEW x \in WriterTxns, x.recs = m.dbs.recs,
           NEW p, Fresh(x, m, p)
    PROVE  \A t \in 1..MaxTxn : t > x.pglast => p \notin x.recs[t]
<1>1. m.last \in Nat /\ x.pglast \in Nat /\ MaxTxn \in Nat
  BY MetaFields, WriterFields, BoundsAssumption DEF GoodMeta, Txnids
<1>2. \A t \in 1..MaxTxn : \A q \in m.dbs.recs[t] : q \in Nat
  BY MetaFields, BoundsAssumption DEF GoodMeta, Records, Pages, NumMetas
<1>3. CASE p > m.last
  BY <1>1, <1>2, <1>3 DEF SnapInv, GoodMeta
<1>4. CASE \E t \in 1..MaxTxn : t <= x.pglast /\ p \in m.dbs.recs[t]
  BY <1>1, <1>4 DEF SnapInv, GoodMeta
<1> QED BY <1>3, <1>4 DEF Fresh

\* Consuming a record keeps the invariant of the working sets.
LEMMA RefillWork ==
    ASSUME TypeOK, NEW m, GoodMeta(m), NEW x \in WriterTxns, WorkInv(x, m),
           NEW t \in 1..MaxTxn, x.pglast < t, t < m.txnid, x.pghead = {},
           NEW y \in WriterTxns, y = [x EXCEPT !.pghead = x.recs[t], !.pglast = t]
    PROVE  WorkInv(y, m)
<1>1. /\ y.pghead = m.dbs.recs[t] /\ y.pglast = t /\ y.next = x.next /\ y.recs = x.recs
      /\ y.pg = x.pg /\ y.fdb = x.fdb /\ y.loose = x.loose /\ y.dirty = x.dirty
      /\ y.free = x.free /\ y.stamp = x.stamp
  BY DEF WriterTxns, WorkInv
<1>2. x.pglast \in Nat /\ t \in Nat /\ MaxTxn \in Nat /\ m.last \in Nat /\ x.next \in Nat
  BY MetaFields, WriterFields, BoundsAssumption DEF GoodMeta, Txnids, NumMetas
<1>3. \A p : Fresh(x, m, p) => Fresh(y, m, p)
  BY <1>1, <1>2 DEF Fresh
<1>4. \A p : Held(x, p) => Held(y, p) /\ p \notin y.pghead
  BY <1>1, <1>2 DEF Held, WorkInv
<1>5. \A p \in m.dbs.recs[t] : p \in Nat /\ p <= m.last
  BY MetaFields, BoundsAssumption DEF GoodMeta, Records, Pages, NumMetas, SnapInv
<1>6. \A p \in y.pghead : p < y.next /\ Fresh(y, m, p)
  BY <1>1, <1>2, <1>5 DEF Fresh, WorkInv
<1>7. \A p \in y.pghead : p \notin y.dirty /\ p \notin y.free
  <2> SUFFICES ASSUME NEW p \in m.dbs.recs[t] PROVE p \notin x.dirty /\ p \notin x.free
    BY <1>1
  <2>1. p \notin x.dirty
    BY FreshFact DEF WorkInv, ListInv
  <2>2. p \notin x.free
    BY <1>2 DEF WorkInv, ListInv, Held
  <2> QED BY <2>1, <2>2
<1>8. TreeInv(y, m)
  BY <1>1, <1>4 DEF WorkInv, TreeInv
<1>9. ListInv(y, m)
  BY <1>1, <1>3, <1>4, <1>6, <1>7 DEF WorkInv, ListInv
<1> QED BY <1>1, <1>2, <1>8, <1>9 DEF WorkInv

\* Taking records older than the oldest reader (mdb_page_alloc) keeps the
\* invariant of the write transaction.
LEMMA RefillInv ==
    ASSUME TypeOK, NEW m, GoodMeta(m), NEW x \in WriterTxns, WorkInv(x, m),
           Oldest(x) \in Nat, Oldest(x) <= m.txnid
    PROVE  /\ Refill(x) \in WriterTxns /\ WorkInv(Refill(x), m)
           /\ Refill(x).pglast = x.pglast \/ Refill(x).pglast < Oldest(x)
           /\ Refill(x).loose = x.loose
<1>1. Refill(x) \in WriterTxns
  BY RefillType
<1>2. CASE Refill(x) = x
  BY <1>1, <1>2
<1>3. CASE /\ x.pghead = {}
           /\ \E t \in Usable(x, Oldest(x)) :
                 Refill(x) = [x EXCEPT !.pghead = x.recs[t], !.pglast = t]
  <2>1. PICK t \in Usable(x, Oldest(x)) :
           Refill(x) = [x EXCEPT !.pghead = x.recs[t], !.pglast = t]
    BY <1>3
  <2>2. t \in 1..MaxTxn /\ x.pglast < t /\ t < Oldest(x)
    BY DEF Usable, Later
  <2>3. t < m.txnid
    BY <2>2, MetaFields, BoundsAssumption DEF GoodMeta, Txnids
  <2>4. WorkInv(Refill(x), m)
    BY <1>1, <1>3, <2>1, <2>2, <2>3, RefillWork
  <2>5. Refill(x).pglast = t /\ Refill(x).loose = x.loose
    BY <2>1 DEF WriterTxns
  <2> QED BY <1>1, <2>2, <2>4, <2>5
<1> QED BY <1>2, <1>3, RefillFact

\* A page that mdb_page_alloc has just handed out is in none of the sets.
NewPage(y, p) ==
    /\ p \in y.dirty /\ p \notin DOMAIN y.pg
    /\ p \notin y.pghead /\ p \notin y.loose /\ p \notin y.free
    /\ Held(y, p)

\* A page from mdb_page_alloc is in no snapshot that must be kept, and is
\* nowhere else in the transaction.
LEMMA AllocWork ==
    ASSUME TypeOK, NEW m, GoodMeta(m), NEW x \in WriterTxns, WorkInv(x, m),
           Oldest(x) \in Nat, Oldest(x) <= m.txnid, NEW a \in Alloc(x)
    PROVE  /\ WorkInv(a.txn, m) /\ NewPage(a.txn, a.page)
           /\ a.txn.pglast = x.pglast \/ a.txn.pglast < Oldest(x)
<1>1. CASE a.page \in x.loose /\ a.txn = [x EXCEPT !.loose = @ \ {a.page}]
  <2> DEFINE p == a.page
             z == a.txn
  <2>1. /\ z.pghead = x.pghead /\ z.pglast = x.pglast /\ z.next = x.next
        /\ z.recs = x.recs /\ z.pg = x.pg /\ z.fdb = x.fdb
        /\ z.loose = x.loose \ {p} /\ z.dirty = x.dirty
        /\ z.free = x.free /\ z.stamp = x.stamp
    BY <1>1 DEF WriterTxns
  <2> HIDE DEF p, z
  <2>2. \A q : (Fresh(x, m, q) <=> Fresh(z, m, q)) /\ (Held(x, q) <=> Held(z, q))
    BY <2>1 DEF Fresh, Held
  <2>3. p \in x.loose /\ p \in x.dirty /\ p < x.next /\ Fresh(x, m, p)
    BY <1>1 DEF p, WorkInv, ListInv
  <2>4. Held(x, p)
    BY <2>3, FreshFact DEF WorkInv, Held
  <2>5. NewPage(z, p)
    BY <2>1, <2>2, <2>3, <2>4 DEF NewPage, WorkInv, ListInv, TreeInv
  <2>6. TreeInv(z, m) /\ ListInv(z, m)
    BY <2>1, <2>2 DEF WorkInv, ListInv, TreeInv
  <2>7. WorkInv(z, m)
    BY <2>1, <2>6 DEF WorkInv
  <2> QED BY <2>1, <2>5, <2>7 DEF p, z
<1> DEFINE y == Refill(x)
<1>2. /\ y \in WriterTxns /\ WorkInv(y, m) /\ y.loose = x.loose
      /\ y.pglast = x.pglast \/ y.pglast < Oldest(x)
  BY RefillInv
<1>3. CASE a.page \in y.pghead
           /\ a.txn = [y EXCEPT !.pghead = @ \ {a.page}, !.dirty = @ \cup {a.page}]
  <2> HIDE DEF y
  <2> DEFINE p == a.page
             z == a.txn
  <2>1. /\ z.pghead = y.pghead \ {p} /\ z.pglast = y.pglast /\ z.next = y.next
        /\ z.recs = y.recs /\ z.pg = y.pg /\ z.fdb = y.fdb
        /\ z.loose = y.loose /\ z.dirty = y.dirty \cup {p}
        /\ z.free = y.free /\ z.stamp = y.stamp
    BY <1>2, <1>3 DEF WriterTxns
  <2>2. p \in y.pghead
    BY <1>3
  <2> HIDE DEF p, z
  <2>3. \A q : (Fresh(y, m, q) <=> Fresh(z, m, q)) /\ (Held(y, q) <=> Held(z, q))
    BY <2>1 DEF Fresh, Held
  <2>4. p \notin y.dirty /\ p \notin y.free /\ p < y.next /\ Fresh(y, m, p)
    BY <1>2, <2>2 DEF WorkInv, ListInv
  <2>5. Held(y, p) /\ p \notin y.loose /\ p \notin DOMAIN y.pg
    BY <1>2, <2>2, <2>4, FreshFact DEF WorkInv, Held, ListInv, TreeInv
  <2>6. NewPage(z, p)
    BY <2>1, <2>3, <2>4, <2>5 DEF NewPage
  <2>7. TreeInv(z, m)
    BY <1>2, <2>1, <2>3, <2>5 DEF WorkInv, TreeInv
  <2>8. ListInv(z, m)
    BY <1>2, <2>1, <2>3, <2>4, <2>5 DEF WorkInv, ListInv
  <2>9. WorkInv(z, m)
    BY <1>2, <2>1, <2>7, <2>8 DEF WorkInv
  <2> QED BY <1>2, <2>1, <2>6, <2>9 DEF p, z
<1>4. CASE /\ a.page = y.next /\ a.page + 1 < MaxPg
           /\ a.txn = [y EXCEPT !.next = @ + 1, !.dirty = @ \cup {a.page}]
  <2> HIDE DEF y
  <2> DEFINE p == a.page
             z == a.txn
  <2>1. /\ z.pghead = y.pghead /\ z.pglast = y.pglast /\ z.next = p + 1
        /\ z.recs = y.recs /\ z.pg = y.pg /\ z.fdb = y.fdb
        /\ z.loose = y.loose /\ z.dirty = y.dirty \cup {p}
        /\ z.free = y.free /\ z.stamp = y.stamp
    BY <1>2, <1>4 DEF WriterTxns
  <2>2. p = y.next /\ p \in Nat /\ m.last \in Nat
    BY <1>2, <1>4, WriterFields, MetaFields, BoundsAssumption DEF NumMetas, GoodMeta
  <2> HIDE DEF p, z
  <2>3. \A q : Fresh(y, m, q) <=> Fresh(z, m, q)
    BY <2>1 DEF Fresh
  <2>4. /\ \A q \in y.dirty \cup y.pghead \cup y.free : q \in Nat
        /\ \A q \in DOMAIN y.pg : q \in Nat
    BY <1>2, WriterFields, PageMapFact, BoundsAssumption DEF Pages, NumMetas
  <2>5. \A q \in Nat : Held(y, q) => Held(z, q)
    BY <2>1, <2>2 DEF Held
  <2>6. Fresh(y, m, p)
    BY <1>2, <2>2 DEF Fresh, WorkInv
  <2>7. Held(z, p)
    BY <1>2, <2>1, <2>2, <2>6, FreshFact DEF WorkInv, Held
  <2>8. p \notin y.dirty /\ p \notin y.pghead /\ p \notin y.free /\ p \notin DOMAIN y.pg
        /\ p \notin y.loose
    BY <1>2, <2>2, <2>4 DEF WorkInv, ListInv, TreeInv, Held
  <2>9. NewPage(z, p)
    BY <2>1, <2>7, <2>8 DEF NewPage
  <2>10. TreeInv(z, m)
    BY <1>2, <2>1, <2>4, <2>5, <2>8 DEF WorkInv, TreeInv
  <2>11. ListInv(z, m)
    BY <1>2, <2>1, <2>2, <2>3, <2>4, <2>5, <2>6, <2>8 DEF WorkInv, ListInv
  <2>12. WorkInv(z, m)
    BY <1>2, <2>1, <2>2, <2>10, <2>11 DEF WorkInv
  <2> QED BY <1>2, <2>1, <2>9, <2>12 DEF p, z
<1> QED BY <1>1, <1>3, <1>4, AllocFact

-----------------------------------------------------------------------------
(***************************************************************************)
(* The page operations on the working sets.                                *)
(***************************************************************************)

\* A new page p takes the place of the pages T, which are freed:
\* mdb_page_touch, mdb_page_new, and the copy of the freeDB's page.
LEMMA TouchWork ==
    ASSUME NEW m, NEW y \in WriterTxns, WorkInv(y, m), NEW p, NewPage(y, p),
           NEW T \in SUBSET DOMAIN y.pg, NEW z,
           z.next = y.next, z.recs = y.recs, z.pglast = y.pglast, z.stamp = y.stamp,
           z.pghead = y.pghead, z.loose = y.loose, z.dirty = y.dirty,
           z.free = y.free \cup T,
           DOMAIN z.pg = (DOMAIN y.pg \ T) \cup {p}, z.pg[p] = y.stamp,
           \A q \in DOMAIN y.pg \ T : z.pg[q] = y.pg[q],
           z.fdb = p \/ (z.fdb = y.fdb /\ y.fdb \notin T)
    PROVE  WorkInv(z, m)
<1>1. \A q : (Fresh(y, m, q) <=> Fresh(z, m, q)) /\ (Held(y, q) <=> Held(z, q))
  BY DEF Fresh, Held
<1>2. \A q \in T : Held(y, q) /\ q \notin y.pghead /\ q \notin y.loose
  BY DEF WorkInv, TreeInv
<1>3. TreeInv(z, m)
  BY <1>1 DEF TreeInv, WorkInv, NewPage
<1>4. ListInv(z, m)
  BY <1>1, <1>2 DEF ListInv, WorkInv
<1>5. z.fdb # NoPage => z.fdb \in DOMAIN z.pg
  BY DEF WorkInv
<1> QED BY <1>3, <1>4, <1>5 DEF WorkInv

\* A page p leaves its tree: mdb_page_loose, mdb_ovpage_free, mdb_drop0.
LEMMA RemoveWork ==
    ASSUME NEW m, NEW y \in WriterTxns, WorkInv(y, m), NEW p \in DOMAIN y.pg, p # y.fdb,
           NEW z, z.next = y.next, z.recs = y.recs, z.pglast = y.pglast,
           z.stamp = y.stamp, z.fdb = y.fdb, DOMAIN z.pg = DOMAIN y.pg \ {p},
           \A q \in DOMAIN y.pg \ {p} : z.pg[q] = y.pg[q],
           \/ /\ z.free = y.free \cup {p} /\ z.loose = y.loose
              /\ z.dirty = y.dirty /\ z.pghead = y.pghead
           \/ /\ p \in y.dirty /\ z.loose = y.loose \cup {p} /\ z.free = y.free
              /\ z.dirty = y.dirty /\ z.pghead = y.pghead
           \/ /\ p \in y.dirty /\ y.pglast # 0 /\ z.dirty = y.dirty \ {p}
              /\ z.pghead = y.pghead \cup {p} /\ z.free = y.free /\ z.loose = y.loose
    PROVE  WorkInv(z, m)
<1>1. \A q : (Fresh(y, m, q) <=> Fresh(z, m, q)) /\ (Held(y, q) <=> Held(z, q))
  BY DEF Fresh, Held
<1>2. Held(y, p) /\ p \notin y.pghead /\ p \notin y.loose /\ p \notin y.free
  BY DEF WorkInv, TreeInv
<1>3. p \in y.dirty => p < y.next /\ Fresh(y, m, p)
  BY DEF WorkInv, ListInv
<1>4. TreeInv(z, m)
  BY <1>1 DEF TreeInv, WorkInv
<1>5. ListInv(z, m)
  BY <1>1, <1>2, <1>3 DEF ListInv, WorkInv
<1> QED BY <1>4, <1>5 DEF WorkInv

-----------------------------------------------------------------------------
(***************************************************************************)
(* A step of the writer that touches neither the meta pages nor mti_txnid, *)
(* and in the file only fresh pages, and takes only records older than the *)
(* readers.                                                                *)
(***************************************************************************)

WriterLocal ==
    /\ mti' = mti /\ metas' = metas /\ ownerdead' = ownerdead
    /\ \A p \in Pages : ~Fresh(w, Prev, p) => file'[p] = file[p]
    /\ w.pc \notin {"idle", "dbs", "written"} /\ w'.pc \notin {"dbs", "written"}
    /\ w'.pc # "idle" => w'.txnid = w.txnid
    /\ pgoldest' \in {pgoldest, FindOldest}
    /\ \/ w'.pglast = 0 \/ w'.pglast = w.pglast
       \/ w'.pglast < pgoldest \/ w'.pglast < FindOldest
    /\ WriterInv'

\* What such a step starts from, and what it keeps.
LEMMA LocalFact ==
    ASSUME CoreInv, TypeOK', WriterLocal
    PROVE  /\ Prev' = Prev /\ Other' = Other /\ Top' = Top
           /\ Top = Prev /\ Other.txnid # mti + 1 /\ ~ownerdead /\ w.txnid = mti + 1
           /\ Prev \in Metas /\ mti \in Nat /\ GoodMeta(Prev)
           /\ FindOldest \in Nat /\ FindOldest <= mti /\ pgoldest \in Nat /\ pgoldest <= mti
           /\ \A r \in Readers : FindOldest <= slot[r] /\ slot[r] \in Nat
           /\ w.pglast \in Nat /\ w'.pglast \in Nat
<1>1. Prev' = Prev /\ Other' = Other /\ Top' = Top
  BY MetaFrame DEF WriterLocal
<1>2. /\ Top = Prev /\ Other.txnid # mti + 1 /\ ~ownerdead /\ w.txnid = mti + 1
      /\ Prev \in Metas /\ mti \in Nat
  BY TopIsPrev, PrevType DEF CoreInv, MetaInv, WriterLocal
<1>3. w.txnid >= 1 /\ w.txnid - 1 = mti /\ TypeOK
  BY <1>2 DEF CoreInv
<1>4. w.pglast \in Nat /\ w'.pglast \in Nat /\ \A r \in Readers : slot[r] \in Nat
  BY WriterFields, BoundsAssumption DEF CoreInv, TypeOK, Txnids, NoTxn
<1>5. pgoldest \in Nat /\ pgoldest <= mti
  BY BoundsAssumption DEF CoreInv, TypeOK, Txnids, MetaInv
<1>6. /\ FindOldest \in Nat /\ FindOldest <= mti
      /\ \A r \in Readers : FindOldest <= slot[r]
  BY <1>3, OldestFact, BoundsAssumption DEF Txnids
<1>7. GoodMeta(Prev)
  BY <1>2 DEF CoreInv, TopInv, GoodMeta
<1> QED BY <1>1, <1>2, <1>4, <1>5, <1>6, <1>7

\* It keeps the meta pages' and the writer's part of the invariant.
LEMMA LocalCore ==
    ASSUME CoreInv, TypeOK', WriterLocal
    PROVE  CoreInv'
<1>1. MetaInv'
  <2>1. /\ Prev' = Prev /\ Other' = Other /\ mti' = mti /\ ownerdead' = ownerdead
        /\ ~ownerdead /\ w.txnid = mti + 1 /\ Other.txnid # mti + 1
        /\ w'.pc # "written" /\ (w'.pc # "idle" => w'.txnid = w.txnid)
    BY LocalFact DEF WriterLocal
  <2>2. /\ w'.pglast = 0 \/ w'.pglast < mti
        /\ pgoldest' <= mti
    <3>1. w.pglast = 0 \/ w.pglast < mti
      BY DEF CoreInv, MetaInv
    <3> QED BY <3>1, LocalFact DEF WriterLocal
  <2> QED BY <2>1, <2>2 DEF CoreInv, MetaInv
<1>2. TopInv'
  <2>1. \A p \in DOMAIN Prev.dbs.pg : p \in Pages /\ ~Fresh(w, Prev, p)
    BY LocalFact, FreshUnused, MetaFields, PageMapFact
  <2>2. Readable(Prev.dbs, file')
    BY <2>1, LocalFact DEF CoreInv, TopInv, Readable, WriterLocal
  <2> QED BY <2>2, LocalFact DEF CoreInv, TopInv, WriterLocal
<1> QED BY <1>1, <1>2 DEF CoreInv, WriterLocal

\* What holds while a write transaction is open.
LEMMA OpenFact ==
    ASSUME CoreInv, w.pc = "open"
    PROVE  /\ TypeOK /\ TypeInv /\ w \in WriterTxns /\ w.txnid = mti + 1 /\ mti \in Nat
           /\ GoodMeta(Prev) /\ Prev.txnid = mti /\ WorkInv(w, Prev) /\ Top = Prev
           /\ \A x : /\ Oldest(x) \in Nat /\ Oldest(x) <= mti
                     /\ Oldest(x) \in {pgoldest, FindOldest}
<1>1. /\ Top = Prev /\ Prev.txnid = mti /\ Prev \in Metas /\ mti \in Nat
      /\ w.txnid = mti + 1 /\ w \in WriterTxns
  BY TopIsPrev, PrevType DEF CoreInv, MetaInv, TypeOK
<1>2. GoodMeta(Prev) /\ WorkInv(w, Prev)
  BY <1>1 DEF CoreInv, TopInv, GoodMeta, WriterInv
<1>3. w.txnid >= 1 /\ w.txnid - 1 = mti
  BY <1>1
<1>4. pgoldest \in Nat /\ pgoldest <= mti
  BY BoundsAssumption DEF CoreInv, TypeOK, Txnids, MetaInv
<1>5. FindOldest \in Nat /\ FindOldest <= mti
      /\ \A x : Oldest(x) \in {pgoldest, FindOldest}
  BY <1>3, OldestFact, BoundsAssumption DEF Txnids, CoreInv
<1>6. \A x : Oldest(x) \in Nat /\ Oldest(x) <= mti
  BY <1>4, <1>5
<1> QED BY <1>1, <1>2, <1>3, <1>5, <1>6 DEF CoreInv, TypeInv

\* A step inside an open transaction, which leaves the file alone as well.
LEMMA WorkStep ==
    ASSUME CoreInv, WriterUnchanged, w.pc = "open", w'.txnid = w.txnid,
           \/ w'.pc = "open" /\ WorkInv(w', Prev)
           \/ w'.pc = "saved" /\ CommitInv(w', Prev),
           NEW x, w'.pglast = w.pglast \/ w'.pglast < Oldest(x),
           pgoldest' \in {pgoldest, FindOldest}
    PROVE  WriterLocal
<1>1. mti' = mti /\ metas' = metas /\ ownerdead' = ownerdead /\ file' = file
  BY DEF WriterUnchanged, store
<1>2. Prev' = Prev
  BY <1>1, MetaFrame
<1>3. Oldest(x) \in {pgoldest, FindOldest}
  BY OpenFact
<1>4. WriterInv'
  BY <1>2 DEF WriterInv
<1> QED BY <1>1, <1>3, <1>4 DEF WriterLocal

\* The operations of the write transaction on pages are such steps.
LEMMA WorkLocal ==
    ASSUME CoreInv,
           \/ PageNew \/ AllocFails
           \/ \E p \in Pages : PageTouch(p) \/ PageLoose(p) \/ OvpageFree(p) \/ DropPage(p)
    PROVE  WriterLocal
<1>1. w.pc = "open" /\ WriterUnchanged
  BY DEF PageNew, AllocFails, PageTouch, PageLoose, OvpageFree, DropPage
<1>2. /\ TypeOK /\ w \in WriterTxns /\ GoodMeta(Prev) /\ WorkInv(w, Prev)
      /\ Oldest(w) \in Nat /\ Oldest(w) <= Prev.txnid
      /\ Oldest(w) \in {pgoldest, FindOldest}
  BY <1>1, OpenFact
<1>3. ASSUME NEW a \in Alloc(w)
      PROVE  /\ a.page \in Pages /\ a.txn \in WriterTxns /\ WorkInv(a.txn, Prev)
             /\ NewPage(a.txn, a.page)
             /\ a.txn.pglast = w.pglast \/ a.txn.pglast < Oldest(w)
             /\ a.txn.pc = "open" /\ a.txn.txnid = w.txnid /\ a.txn.stamp = w.stamp
             /\ a.txn.pg = w.pg /\ a.txn.fdb = w.fdb /\ a.txn.free = w.free
             /\ w.stamp \in Stamps /\ w.pg \in PageMaps
  BY <1>1, <1>2, AllocWork, AllocType, WriterFields
<1>4. CASE PageNew
  <2>1. PICK a \in Alloc(w) : w' = [a.txn EXCEPT !.pg = With(@, a.page, w.stamp)]
    BY <1>4 DEF PageNew
  <2> DEFINE n == a.page
             y == a.txn
             g == With(w.pg, n, w.stamp)
  <2> HIDE DEF n
  <2>2. /\ w'.pg = g /\ w'.next = y.next /\ w'.recs = y.recs /\ w'.pglast = y.pglast
        /\ w'.stamp = y.stamp /\ w'.pghead = y.pghead /\ w'.loose = y.loose
        /\ w'.dirty = y.dirty /\ w'.free = y.free /\ w'.fdb = y.fdb
        /\ w'.pc = y.pc /\ w'.txnid = y.txnid
    BY <1>3, <2>1 DEF WriterTxns, n
  <2>3. /\ DOMAIN g = DOMAIN w.pg \cup {n} /\ g[n] = w.stamp
        /\ \A q \in DOMAIN w.pg : q # n => g[q] = w.pg[q]
    <3>1. n \in Pages /\ w.stamp \in Stamps /\ w.pg \in PageMaps
      BY <1>3 DEF n
    <3>2. DOMAIN g = DOMAIN w.pg \cup {n}
      BY <3>1, WithFact
    <3>3. g[n] = w.stamp
      BY <3>1, WithFact
    <3>4. \A q \in DOMAIN w.pg : q # n => g[q] = w.pg[q]
      BY <3>1, WithFact
    <3> QED BY <3>2, <3>3, <3>4
  <2>4. n \notin DOMAIN y.pg
    BY <1>3 DEF NewPage, n
  <2> HIDE DEF g
  <2>5. WorkInv(w', Prev)
    <3>1. {} \in SUBSET DOMAIN y.pg /\ y.free = y.free \cup {}
          /\ DOMAIN y.pg \ {} = DOMAIN y.pg
      OBVIOUS
    <3>2. DOMAIN w'.pg = (DOMAIN y.pg \ {}) \cup {n} /\ w'.pg[n] = y.stamp
          /\ (\A q \in DOMAIN y.pg \ {} : w'.pg[q] = y.pg[q])
          /\ w'.free = y.free \cup {} /\ w'.fdb = y.fdb /\ y.fdb \notin {}
      BY <1>3, <2>2, <2>3, <2>4
    <3> HIDE DEF y
    <3> QED BY <1>3, <2>2, <3>1, <3>2, TouchWork DEF y, n
  <2>6. pgoldest' = Oldest(w)
    BY <1>4 DEF PageNew
  <2> QED BY <1>1, <1>2, <1>3, <2>2, <2>5, <2>6, WorkStep
<1>5. CASE AllocFails
  <2> DEFINE y == Refill(w)
  <2>1. /\ y \in WriterTxns /\ WorkInv(y, Prev)
        /\ y.pglast = w.pglast \/ y.pglast < Oldest(w)
    BY <1>2, RefillInv
  <2>2. y.pc = w.pc /\ y.txnid = w.txnid
    BY <1>2, RefillFact DEF WriterTxns
  <2>3. w' = [y EXCEPT !.error = TRUE] /\ pgoldest' = Oldest(w)
    BY <1>5 DEF AllocFails
  <2> HIDE DEF y
  <2>4. /\ w'.pg = y.pg /\ w'.next = y.next /\ w'.recs = y.recs /\ w'.pglast = y.pglast
        /\ w'.stamp = y.stamp /\ w'.pghead = y.pghead /\ w'.loose = y.loose
        /\ w'.dirty = y.dirty /\ w'.free = y.free /\ w'.fdb = y.fdb
        /\ w'.pc = y.pc /\ w'.txnid = y.txnid
    BY <2>1, <2>3 DEF WriterTxns
  <2>5. WorkInv(w', Prev)
    BY <2>1, <2>4 DEF WorkInv, TreeInv, ListInv, Held, Fresh
  <2> QED BY <1>1, <1>2, <2>1, <2>2, <2>3, <2>4, <2>5, WorkStep
<1>6. ASSUME NEW p \in Pages, PageTouch(p) PROVE WriterLocal
  <2>1. PICK a \in Alloc(w) :
           w' = [a.txn EXCEPT !.pg = With(Without(@, {p}), a.page, w.stamp),
                              !.free = @ \cup {p}]
    BY <1>6 DEF PageTouch
  <2> DEFINE n == a.page
             y == a.txn
             h == Without(w.pg, {p})
             g == With(h, n, w.stamp)
  <2> HIDE DEF n
  <2>2. /\ w'.pg = g /\ w'.next = y.next /\ w'.recs = y.recs /\ w'.pglast = y.pglast
        /\ w'.stamp = y.stamp /\ w'.pghead = y.pghead /\ w'.loose = y.loose
        /\ w'.dirty = y.dirty /\ w'.free = y.free \cup {p} /\ w'.fdb = y.fdb
        /\ w'.pc = y.pc /\ w'.txnid = y.txnid
    BY <1>3, <2>1 DEF WriterTxns, n
  <2>3. /\ h \in PageMaps /\ DOMAIN h = DOMAIN w.pg \ {p}
        /\ \A q \in DOMAIN w.pg \ {p} : h[q] = w.pg[q]
    BY <1>3, WithoutFact
  <2> HIDE DEF h
  <2>4. /\ DOMAIN g = DOMAIN h \cup {n} /\ g[n] = w.stamp
        /\ \A q \in DOMAIN h : q # n => g[q] = h[q]
    <3>1. n \in Pages /\ w.stamp \in Stamps
      BY <1>3 DEF n
    <3>2. DOMAIN g = DOMAIN h \cup {n}
      BY <2>3, <3>1, WithFact
    <3>3. g[n] = w.stamp
      BY <2>3, <3>1, WithFact
    <3>4. \A q \in DOMAIN h : q # n => g[q] = h[q]
      BY <2>3, <3>1, WithFact
    <3> QED BY <3>2, <3>3, <3>4
  <2>5. n \notin DOMAIN y.pg
    BY <1>3 DEF NewPage, n
  <2>6. p \in DOMAIN y.pg /\ p # y.fdb
    BY <1>3, <1>6 DEF PageTouch, MainPages
  <2> HIDE DEF g
  <2>7. WorkInv(w', Prev)
    <3>1. {p} \in SUBSET DOMAIN y.pg
      BY <2>6
    <3>2. DOMAIN w'.pg = (DOMAIN y.pg \ {p}) \cup {n} /\ w'.pg[n] = y.stamp
          /\ (\A q \in DOMAIN y.pg \ {p} : w'.pg[q] = y.pg[q])
          /\ w'.fdb = y.fdb /\ y.fdb \notin {p}
      BY <1>3, <2>2, <2>3, <2>4, <2>5, <2>6
    <3> HIDE DEF y
    <3> QED BY <1>3, <2>2, <3>1, <3>2, TouchWork DEF y, n
  <2>8. pgoldest' = Oldest(w)
    BY <1>6 DEF PageTouch
  <2> QED BY <1>1, <1>2, <1>3, <2>2, <2>7, <2>8, WorkStep
<1>7. ASSUME NEW p \in Pages, PageLoose(p) \/ OvpageFree(p) \/ DropPage(p) PROVE WriterLocal
  <2> DEFINE g == Without(w.pg, {p})
  <2>1. p \in DOMAIN w.pg /\ p # w.fdb /\ pgoldest' = pgoldest
    BY <1>7 DEF PageLoose, OvpageFree, DropPage, MainPages
  <2>2. /\ g \in PageMaps /\ DOMAIN g = DOMAIN w.pg \ {p}
        /\ \A q \in DOMAIN w.pg \ {p} : g[q] = w.pg[q]
    BY <1>2, WithoutFact, WriterFields
  <2>3. \/ w' = [w EXCEPT !.pg = g, !.free = @ \cup {p}]
        \/ p \in w.dirty /\ w' = [w EXCEPT !.pg = g, !.loose = @ \cup {p}]
        \/ /\ p \in w.dirty /\ w.pglast # 0
           /\ w' = [w EXCEPT !.pg = g, !.dirty = @ \ {p}, !.pghead = @ \cup {p}]
    <3>1. CASE PageLoose(p)
      BY <1>2, <3>1 DEF PageLoose, WriterTxns
    <3>2. CASE OvpageFree(p)
      BY <3>2 DEF OvpageFree
    <3>3. CASE DropPage(p)
      BY <3>3 DEF DropPage
    <3> QED BY <1>7, <3>1, <3>2, <3>3
  <2> HIDE DEF g
  <2>4. /\ w'.pg = g /\ w'.next = w.next /\ w'.recs = w.recs /\ w'.pglast = w.pglast
        /\ w'.stamp = w.stamp /\ w'.fdb = w.fdb /\ w'.pc = w.pc /\ w'.txnid = w.txnid
    BY <1>2, <2>3 DEF WriterTxns
  <2>5. \/ /\ w'.free = w.free \cup {p} /\ w'.loose = w.loose
           /\ w'.dirty = w.dirty /\ w'.pghead = w.pghead
        \/ /\ p \in w.dirty /\ w'.loose = w.loose \cup {p} /\ w'.free = w.free
           /\ w'.dirty = w.dirty /\ w'.pghead = w.pghead
        \/ /\ p \in w.dirty /\ w.pglast # 0 /\ w'.dirty = w.dirty \ {p}
           /\ w'.pghead = w.pghead \cup {p} /\ w'.free = w.free /\ w'.loose = w.loose
    BY <1>2, <2>3 DEF WriterTxns
  <2>6. DOMAIN w'.pg = DOMAIN w.pg \ {p} /\ \A q \in DOMAIN w.pg \ {p} : w'.pg[q] = w.pg[q]
    BY <2>2, <2>4
  <2>7. WorkInv(w', Prev)
    BY <1>2, <2>1, <2>4, <2>5, <2>6, RemoveWork
  <2> QED BY <1>1, <2>1, <2>4, <2>7, WorkStep
<1> QED BY <1>4, <1>5, <1>6, <1>7

-----------------------------------------------------------------------------
(***************************************************************************)
(* mdb_freelist_save.                                                      *)
(***************************************************************************)

\* Moving the loose pages at commit (mdb_freelist_save) keeps the invariant of
\* the write transaction.
LEMMA LooseWork ==
    ASSUME NEW m, GoodMeta(m), NEW x \in WriterTxns, WorkInv(x, m)
    PROVE  /\ WorkInv(LooseToFree(x), m) /\ LooseToFree(x).pglast = x.pglast
           /\ LooseToFree(x).pg = x.pg /\ LooseToFree(x).fdb = x.fdb
<1> DEFINE z == [x EXCEPT !.free = @ \cup x.loose, !.dirty = @ \ x.loose, !.loose = {}]
<1>1. /\ z.pghead = x.pghead /\ z.pglast = x.pglast /\ z.next = x.next
      /\ z.recs = x.recs /\ z.pg = x.pg /\ z.fdb = x.fdb /\ z.stamp = x.stamp
      /\ z.loose = {} /\ z.dirty = x.dirty \ x.loose /\ z.free = x.free \cup x.loose
  BY DEF WriterTxns
<1>2. LooseToFree(x) = x \/ LooseToFree(x) = z
  BY DEF LooseToFree
<1> HIDE DEF z
<1>3. \A q : (Fresh(x, m, q) <=> Fresh(z, m, q)) /\ (Held(x, q) <=> Held(z, q))
  BY <1>1 DEF Fresh, Held
<1>4. \A q \in x.loose : Held(x, q) /\ q \notin x.pghead
  <2> SUFFICES ASSUME NEW q \in x.loose PROVE Held(x, q) /\ q \notin x.pghead
    OBVIOUS
  <2>1. q \in x.dirty /\ q < x.next /\ Fresh(x, m, q) /\ q \notin x.pghead
    BY DEF WorkInv, ListInv
  <2> QED BY <2>1, FreshFact DEF Held, WorkInv
<1>5. TreeInv(z, m)
  BY <1>1, <1>3 DEF WorkInv, TreeInv
<1>6. ListInv(z, m)
  BY <1>1, <1>3, <1>4 DEF WorkInv, ListInv
<1>7. WorkInv(z, m)
  BY <1>1, <1>5, <1>6 DEF WorkInv
<1> QED BY <1>1, <1>2, <1>7

\* The records it leaves behind list no page twice, and none that is used.
LEMMA SaveFact ==
    ASSUME NEW m, GoodMeta(m), NEW y \in WriterTxns, WorkInv(y, m),
           y.txnid = m.txnid + 1, \A t \in 1..MaxTxn : t > m.txnid => m.dbs.recs[t] = {},
           NEW z, z.next = y.next, z.recs = SavedRecords(y), z.pglast = y.pglast,
           z.stamp = y.stamp, z.loose = y.loose, z.dirty = y.dirty, z.pg = y.pg,
           z.fdb = y.fdb, z.txnid = y.txnid
    PROVE  CommitInv(z, m)
<1> DEFINE R == SavedRecords(y)
<1>1. /\ m.txnid \in Nat /\ m.last \in Nat /\ y.txnid \in Nat /\ y.pglast \in Nat
      /\ y.next \in Nat /\ y.txnid > m.txnid /\ MaxTxn \in Nat
  BY MetaFields, WriterFields, BoundsAssumption DEF GoodMeta, Txnids, NumMetas
<1>2. \A t \in 1..MaxTxn :
         /\ t = y.txnid => R[t] = y.free
         /\ t # y.txnid /\ t < y.pglast => R[t] = {}
         /\ t # y.txnid /\ t = y.pglast => R[t] = y.pghead \cup y.loose
         /\ t # y.txnid /\ t > y.pglast => R[t] = y.recs[t]
  BY <1>1 DEF SavedRecords
<1> HIDE DEF R
<1>3. y.pglast < y.txnid
  BY <1>1 DEF WorkInv
<1>4. \A p \in y.pghead \cup y.loose : Fresh(y, m, p) /\ Held(y, p) /\ p \notin y.free
  <2> SUFFICES ASSUME NEW p \in y.pghead \cup y.loose
               PROVE  Fresh(y, m, p) /\ Held(y, p) /\ p \notin y.free
    OBVIOUS
  <2>1. Fresh(y, m, p) /\ p < y.next /\ p \notin y.free
    BY DEF WorkInv, ListInv
  <2> QED BY <2>1, FreshFact DEF Held, WorkInv
<1>5. \A p \in DOMAIN y.pg : p \in Nat
  BY WriterFields, PageMapFact, BoundsAssumption DEF Pages, NumMetas
<1>6. \A t \in 1..MaxTxn : \A p \in m.dbs.recs[t] : p \in Nat
  BY MetaFields, BoundsAssumption DEF GoodMeta, Records, Pages, NumMetas
<1>7. \A p \in y.free \cup y.pghead \cup y.loose : p \in Nat
  BY WriterFields, BoundsAssumption DEF Pages, NumMetas
<1>8. \A p \in DOMAIN y.pg : p <= y.next - 1 /\ \A t \in 1..MaxTxn : p \notin R[t]
  <2> SUFFICES ASSUME NEW p \in DOMAIN y.pg
               PROVE  p <= y.next - 1 /\ \A t \in 1..MaxTxn : p \notin R[t]
    OBVIOUS
  <2>1. Held(y, p) /\ p \notin y.pghead /\ p \notin y.loose /\ p \notin y.free
    BY DEF WorkInv, TreeInv
  <2>2. p <= y.next - 1
    BY <1>1, <1>5, <2>1 DEF Held
  <2>3. ASSUME NEW t \in 1..MaxTxn PROVE p \notin R[t]
    BY <1>1, <1>2, <2>1 DEF Held
  <2> QED BY <2>2, <2>3
<1>9. \A t \in 1..MaxTxn : \A p \in R[t] : p <= y.next - 1
  <2> SUFFICES ASSUME NEW t \in 1..MaxTxn, NEW p \in R[t] PROVE p <= y.next - 1
    OBVIOUS
  <2>1. CASE p \in y.free \cup y.pghead \cup y.loose
    BY <1>1, <1>4, <1>7, <2>1 DEF WorkInv, ListInv, Held
  <2>2. CASE p \in m.dbs.recs[t]
    BY <1>1, <1>6, <2>2 DEF WorkInv, GoodMeta, SnapInv
  <2> QED BY <1>1, <1>2, <2>1, <2>2 DEF WorkInv
<1>10. \A t, u \in 1..MaxTxn : \A p \in R[t] : p \in R[u] => u = t
  <2>1. ASSUME NEW t \in 1..MaxTxn, NEW u \in 1..MaxTxn, NEW p \in R[t], p \in R[u],
               t < u
        PROVE  FALSE
    <3>1. CASE t > y.pglast /\ t # y.txnid /\ u # y.txnid
      BY <1>1, <1>2, <2>1, <3>1 DEF WorkInv, GoodMeta, SnapInv
    <3>2. CASE t > y.pglast /\ t # y.txnid /\ u = y.txnid
      BY <1>1, <1>2, <2>1, <3>2 DEF WorkInv, ListInv, Held
    <3>3. CASE t = y.txnid
      <4>1. u > m.txnid /\ u # y.txnid /\ u > y.pglast
        BY <1>1, <1>3, <2>1, <3>3
      <4> QED BY <1>2, <2>1, <4>1 DEF WorkInv
    <3>4. CASE t = y.pglast
      BY <1>1, <1>2, <1>3, <1>4, <2>1, <3>4 DEF Held
    <3>5. CASE t < y.pglast
      BY <1>1, <1>2, <1>3, <2>1, <3>5
    <3> QED BY <1>1, <3>1, <3>2, <3>3, <3>4, <3>5
  <2> QED BY <1>1, <2>1
<1>11. SnapInv(y.pg, y.fdb, R, y.next - 1)
  BY <1>8, <1>9, <1>10 DEF SnapInv, WorkInv
<1>12. \A t \in 1..MaxTxn : t > y.txnid => R[t] = {}
  <2> SUFFICES ASSUME NEW t \in 1..MaxTxn, t > y.txnid PROVE R[t] = {}
    OBVIOUS
  <2>1. t > m.txnid /\ t # y.txnid /\ t > y.pglast
    BY <1>1, <1>3
  <2> QED BY <1>2, <2>1 DEF WorkInv
<1>13. \A t \in 1..MaxTxn : t <= m.txnid => \A p \in R[t] :
          p \in m.dbs.recs[t] \/ Fresh(y, m, p)
  <2> SUFFICES ASSUME NEW t \in 1..MaxTxn, t <= m.txnid, NEW p \in R[t]
               PROVE  p \in m.dbs.recs[t] \/ Fresh(y, m, p)
    OBVIOUS
  <2>1. t # y.txnid
    BY <1>1
  <2> QED BY <1>1, <1>2, <1>4, <2>1 DEF WorkInv
<1>14. \A p : Fresh(y, m, p) <=> Fresh(z, m, p)
  BY DEF Fresh
<1>15. \A p \in y.dirty : Fresh(y, m, p)
  BY DEF WorkInv, ListInv
<1>16. \A p \in DOMAIN y.pg :
         IF p \in y.dirty \ y.loose THEN y.pg[p] = y.stamp
         ELSE p \in DOMAIN m.dbs.pg /\ y.pg[p] = m.dbs.pg[p]
  BY DEF WorkInv, TreeInv
<1>17. z.recs = R /\ z.next > m.last
  BY DEF R, WorkInv
<1> QED BY <1>11, <1>12, <1>13, <1>14, <1>15, <1>16, <1>17 DEF CommitInv

\* So is mdb_freelist_save.
LEMMA SaveLocal ==
    ASSUME CoreInv, CommitSave
    PROVE  WriterLocal
<1> DEFINE x == LooseToFree(w)
<1>1. w.pc = "open" /\ WriterUnchanged
  BY DEF CommitSave
<1>2. /\ TypeOK /\ w \in WriterTxns /\ w.txnid = mti + 1 /\ GoodMeta(Prev)
      /\ Prev.txnid = mti /\ WorkInv(w, Prev) /\ Top = Prev
      /\ Oldest(x) \in Nat /\ Oldest(x) <= Prev.txnid
      /\ Oldest(x) \in {pgoldest, FindOldest}
  BY <1>1, OpenFact
<1>3. /\ x \in WriterTxns /\ WorkInv(x, Prev) /\ x.txnid = w.txnid /\ x.stamp = w.stamp
      /\ x.pglast = w.pglast /\ x.pg = w.pg /\ x.fdb = w.fdb
  BY <1>2, LooseWork, LooseToFreeType
<1>4. \A t \in 1..MaxTxn : t > Prev.txnid => Prev.dbs.recs[t] = {}
  BY <1>2 DEF CoreInv, TopInv
<1>5. CASE x.pglast = 0 /\ x.free = {}
  <2>1. w' = [x EXCEPT !.pc = "saved"] /\ pgoldest' = pgoldest
    BY <1>5 DEF CommitSave
  <2> HIDE DEF x
  <2>2. /\ w'.next = x.next /\ w'.recs = x.recs /\ w'.pglast = x.pglast
        /\ w'.stamp = x.stamp /\ w'.loose = x.loose /\ w'.dirty = x.dirty
        /\ w'.pg = x.pg /\ w'.fdb = x.fdb /\ w'.txnid = x.txnid /\ w'.pc = "saved"
    BY <1>3, <2>1 DEF WriterTxns
  <2>3. \A t \in 1..MaxTxn : x.recs[t] = SavedRecords(x)[t]
    <3> SUFFICES ASSUME NEW t \in 1..MaxTxn PROVE x.recs[t] = SavedRecords(x)[t]
      OBVIOUS
    <3>1. CASE t = x.txnid
      <4>1. t > Prev.txnid
        BY <1>2, <1>3, <3>1, PrevType
      <4> QED BY <1>3, <1>4, <1>5, <3>1, <4>1 DEF SavedRecords, WorkInv
    <3>2. CASE t # x.txnid
      BY <1>5, <3>2, BoundsAssumption DEF SavedRecords
    <3> QED BY <3>1, <3>2
  <2>4. x.recs \in [1..MaxTxn -> SUBSET Pages] /\ SavedRecords(x) \in [1..MaxTxn -> SUBSET Pages]
    BY <1>3, WriterFields, SavedRecordsType DEF Records
  <2>5. w'.recs = SavedRecords(x)
    <3> DEFINE f == x.recs
               g == SavedRecords(x)
               S == 1..MaxTxn
    <3>1. f \in [S -> SUBSET Pages] /\ g \in [S -> SUBSET Pages]
      BY <2>4
    <3>2. \A t \in S : f[t] = g[t]
      BY <2>3
    <3>3. f = x.recs /\ g = SavedRecords(x)
      OBVIOUS
    <3> HIDE DEF f, g, S
    <3>4. f = g
      BY <3>1, <3>2
    <3> QED BY <2>2, <3>3, <3>4
  <2>6. CommitInv(w', Prev)
    BY <1>2, <1>3, <1>4, <2>2, <2>5, SaveFact
  <2> QED BY <1>1, <1>3, <2>1, <2>2, <2>6, WorkStep
<1>6. CASE ~(x.pglast = 0 /\ x.free = {})
  <2> DEFINE Y(a) == [a.txn EXCEPT
                        !.pg = With(Without(@, {x.fdb}), a.page, w.stamp),
                        !.free = @ \cup ({x.fdb} \ {NoPage}),
                        !.fdb = a.page]
  <2>1. PICK a \in Alloc(x) :
          w' = [Y(a) EXCEPT !.recs = SavedRecords(Y(a)), !.pc = "saved"]
    BY <1>6 DEF CommitSave
  <2>2. pgoldest' = Oldest(x)
    BY <1>6 DEF CommitSave
  <2> DEFINE n == a.page
             z == a.txn
             T == {x.fdb} \ {NoPage}
             h == Without(z.pg, {x.fdb})
             g == With(h, n, w.stamp)
             y == [z EXCEPT !.pg = g, !.free = @ \cup T, !.fdb = n]
  <2>3. w' = [y EXCEPT !.recs = SavedRecords(y), !.pc = "saved"]
    BY <2>1
  <2> HIDE DEF x, n, z
  <2>4. /\ n \in Pages /\ z \in WriterTxns /\ WorkInv(z, Prev) /\ NewPage(z, n)
        /\ z.pglast = x.pglast \/ z.pglast < Oldest(x)
        /\ z.txnid = x.txnid /\ z.stamp = w.stamp /\ z.fdb = x.fdb
        /\ w.stamp \in Stamps
    BY <1>2, <1>3, AllocWork, AllocType, WriterFields DEF n, z
  <2>5. z.pg \in PageMaps /\ z.free \in SUBSET Pages /\ T \in SUBSET Pages
        /\ NoPage \notin DOMAIN z.pg /\ T \in SUBSET DOMAIN z.pg
    <3>1. NoPage \notin Pages
      BY DEF Pages, NoPage, NumMetas
    <3>2. z.fdb \in Pages \cup {NoPage} /\ z.pg \in PageMaps /\ z.free \in SUBSET Pages
      BY <2>4, WriterFields
    <3>3. z.fdb # NoPage => z.fdb \in DOMAIN z.pg
      BY <2>4 DEF WorkInv
    <3> QED BY <2>4, <3>1, <3>2, <3>3, PageMapFact
  <2>6. /\ h \in PageMaps /\ DOMAIN h = DOMAIN z.pg \ {x.fdb}
        /\ \A q \in DOMAIN z.pg \ {x.fdb} : h[q] = z.pg[q]
    BY <2>5, WithoutFact
  <2>7. DOMAIN h = DOMAIN z.pg \ T /\ \A q \in DOMAIN z.pg \ T : h[q] = z.pg[q]
    BY <2>5, <2>6
  <2> HIDE DEF h
  <2>8. /\ g \in PageMaps /\ DOMAIN g = DOMAIN h \cup {n} /\ g[n] = w.stamp
        /\ \A q \in DOMAIN h : q # n => g[q] = h[q]
    <3>1. n \in Pages /\ w.stamp \in Stamps /\ h \in PageMaps
      BY <2>4, <2>6
    <3>2. g \in PageMaps /\ DOMAIN g = DOMAIN h \cup {n}
      BY <3>1, WithFact
    <3>3. g[n] = w.stamp
      BY <3>1, WithFact
    <3>4. \A q \in DOMAIN h : q # n => g[q] = h[q]
      BY <3>1, WithFact
    <3> QED BY <3>2, <3>3, <3>4
  <2> HIDE DEF g
  <2>9. z.free \cup T \in SUBSET Pages
    BY <2>5
  <2>10. y \in WriterTxns
    BY <2>4, <2>8, <2>9, WriterUpdate
  <2>11. /\ y.pg = g /\ y.next = z.next /\ y.recs = z.recs /\ y.pglast = z.pglast
         /\ y.stamp = z.stamp /\ y.pghead = z.pghead /\ y.loose = z.loose
         /\ y.dirty = z.dirty /\ y.free = z.free \cup T /\ y.fdb = n /\ y.txnid = z.txnid
    BY <2>4 DEF WriterTxns
  <2> HIDE DEF y
  <2>12. WorkInv(y, Prev)
    <3>1. n \notin DOMAIN z.pg
      BY <2>4 DEF NewPage
    <3>2. DOMAIN y.pg = (DOMAIN z.pg \ T) \cup {n} /\ y.pg[n] = z.stamp
          /\ \A q \in DOMAIN z.pg \ T : y.pg[q] = z.pg[q]
      BY <2>4, <2>7, <2>8, <2>11, <3>1
    <3> HIDE DEF T
    <3> QED BY <2>4, <2>5, <2>11, <3>2, TouchWork
  <2>13. /\ w'.next = y.next /\ w'.recs = SavedRecords(y) /\ w'.pglast = y.pglast
         /\ w'.stamp = y.stamp /\ w'.loose = y.loose /\ w'.dirty = y.dirty
         /\ w'.pg = y.pg /\ w'.fdb = y.fdb /\ w'.txnid = y.txnid /\ w'.pc = "saved"
    BY <2>3, <2>10 DEF WriterTxns
  <2>14. y.txnid = Prev.txnid + 1
    BY <1>2, <1>3, <2>4, <2>11
  <2>15. CommitInv(w', Prev)
    BY <1>2, <1>4, <2>10, <2>12, <2>13, <2>14, SaveFact
  <2>16. w'.pglast = w.pglast \/ w'.pglast < Oldest(x)
    BY <1>3, <2>4, <2>11, <2>13
  <2>17. w'.txnid = w.txnid /\ pgoldest' \in {pgoldest, FindOldest}
    BY <1>2, <1>3, <2>2, <2>4, <2>11, <2>13
  <2> QED BY <1>1, <2>13, <2>15, <2>16, <2>17, WorkStep
<1> QED BY <1>5, <1>6

-----------------------------------------------------------------------------
(***************************************************************************)
(* The rest of the commit.                                                 *)
(***************************************************************************)

\* What holds while the commit is under way and not yet visible.
LEMMA CommitFact ==
    ASSUME CoreInv, w.pc \in {"saved", "flushed", "synced", "dbs"}
    PROVE  /\ TypeOK /\ w \in WriterTxns /\ w.txnid = mti + 1 /\ mti \in Nat
           /\ GoodMeta(Prev) /\ Prev.txnid = mti /\ CommitInv(w, Prev) /\ Top = Prev
           /\ ~ownerdead /\ Other.txnid # mti + 1
<1>1. /\ Top = Prev /\ Prev.txnid = mti /\ Prev \in Metas /\ mti \in Nat
      /\ w.txnid = mti + 1 /\ w \in WriterTxns /\ ~ownerdead /\ Other.txnid # mti + 1
  BY TopIsPrev, PrevType DEF CoreInv, MetaInv, TypeOK
<1>2. GoodMeta(Prev)
  BY <1>1 DEF CoreInv, TopInv, GoodMeta
<1> QED BY <1>1, <1>2 DEF CoreInv, WriterInv

\* What the writer holds between transactions: nothing.
LEMMA IdleFact ==
    /\ IdleWriter.pc = "idle" /\ IdleWriter.pglast = 0 /\ IdleWriter.txnid = 0
BY DEF IdleWriter

\* The end without a new snapshot, on failure or abort.
LEMMA EndLocal ==
    ASSUME CoreInv,
           \/ WriterAbort \/ CommitNothing \/ CommitSaveFails
           \/ CommitFlushFails \/ CommitSyncFails
    PROVE  WriterLocal
<1>1. /\ w.pc \in {"open", "saved", "flushed"} /\ w' = IdleWriter
      /\ mti' = mti /\ metas' = metas /\ ownerdead' = ownerdead
  BY DEF WriterAbort, CommitNothing, CommitSaveFails, CommitFlushFails, CommitSyncFails,
         EndWriter, WriterUnchanged, store
<1>2. pgoldest' \in {pgoldest, FindOldest}
  <2>1. CASE CommitSaveFails
    <3>1. pgoldest' = Oldest(LooseToFree(w)) /\ w.pc = "open"
      BY <2>1 DEF CommitSaveFails
    <3> QED BY <3>1, OpenFact
  <2>2. CASE ~CommitSaveFails
    BY <2>2 DEF WriterAbort, CommitNothing, CommitFlushFails, CommitSyncFails, EndWriter
  <2> QED BY <2>1, <2>2
<1>3. \A p \in Pages : ~Fresh(w, Prev, p) => file'[p] = file[p]
  <2>1. CASE CommitFlushFails
    <3>1. PICK S \in SUBSET (w.dirty \ w.loose) : file' = FlushPages(S)
      BY <2>1 DEF CommitFlushFails
    <3>2. \A p \in S : Fresh(w, Prev, p)
      BY <2>1, CommitFact DEF CommitFlushFails, CommitInv
    <3> QED BY <3>1, <3>2 DEF FlushPages
  <2>2. CASE ~CommitFlushFails
    <3>1. file' = file
      BY <2>2 DEF WriterAbort, CommitNothing, CommitSaveFails, CommitSyncFails,
                  WriterUnchanged, store
    <3> QED BY <3>1
  <2> QED BY <2>1, <2>2
<1>4. WriterInv' /\ w'.pglast = 0 /\ w'.pc = "idle"
  BY <1>1, IdleFact DEF WriterInv
<1> QED BY <1>1, <1>2, <1>3, <1>4 DEF WriterLocal

\* Writing the dirty pages (mdb_page_flush).
LEMMA FlushLocal ==
    ASSUME CoreInv, CommitFlush
    PROVE  WriterLocal
<1>1. /\ w.pc = "saved" /\ file' = FlushPages(w.dirty \ w.loose)
      /\ w' = [w EXCEPT !.pc = "flushed"]
      /\ mti' = mti /\ metas' = metas /\ ownerdead' = ownerdead
      /\ pgoldest' = pgoldest
  BY DEF CommitFlush
<1>2. /\ w \in WriterTxns /\ CommitInv(w, Prev) /\ GoodMeta(Prev) /\ Top = Prev
      /\ w.pg \in PageMaps
  BY <1>1, CommitFact, WriterFields
<1>3. /\ w'.next = w.next /\ w'.recs = w.recs /\ w'.pglast = w.pglast
      /\ w'.stamp = w.stamp /\ w'.loose = w.loose /\ w'.dirty = w.dirty
      /\ w'.pg = w.pg /\ w'.fdb = w.fdb /\ w'.txnid = w.txnid /\ w'.pc = "flushed"
  BY <1>1, <1>2 DEF WriterTxns
<1>4. CommitInv(w', Prev)
  BY <1>2, <1>3 DEF CommitInv, Fresh
<1>5. \A p \in Pages : ~Fresh(w, Prev, p) => file'[p] = file[p]
  BY <1>1, <1>2 DEF FlushPages, CommitInv
<1>6. ASSUME NEW p \in DOMAIN w.pg PROVE file'[p] = w.pg[p]
  <2>1. p \in Pages
    BY <1>2, PageMapFact
  <2>2. CASE p \in w.dirty \ w.loose
    BY <1>1, <1>2, <2>1, <2>2 DEF FlushPages, CommitInv
  <2>3. CASE p \notin w.dirty \ w.loose
    <3>1. p \in DOMAIN Prev.dbs.pg /\ w.pg[p] = Prev.dbs.pg[p]
      BY <1>2, <2>3 DEF CommitInv
    <3>2. file[p] = Prev.dbs.pg[p]
      BY <1>2, <3>1 DEF CoreInv, TopInv, Readable
    <3> QED BY <1>1, <2>1, <2>3, <3>1, <3>2 DEF FlushPages
  <2> QED BY <2>2, <2>3
<1>7. Prev' = Prev
  BY <1>1, MetaFrame
<1>8. WriterInv'
  BY <1>3, <1>4, <1>6, <1>7 DEF WriterInv
<1> QED BY <1>1, <1>3, <1>5, <1>8 DEF WriterLocal

\* Syncing the file (mdb_env_sync).
LEMMA SyncLocal ==
    ASSUME CoreInv, CommitSync
    PROVE  WriterLocal
<1>1. /\ w.pc = "flushed" /\ file' = file /\ w' = [w EXCEPT !.pc = "synced"]
      /\ mti' = mti /\ metas' = metas /\ ownerdead' = ownerdead
      /\ pgoldest' = pgoldest
  BY DEF CommitSync
<1>2. w \in WriterTxns /\ CommitInv(w, Prev) /\ \A p \in DOMAIN w.pg : file[p] = w.pg[p]
  BY <1>1, CommitFact DEF CoreInv, WriterInv
<1>3. /\ w'.next = w.next /\ w'.recs = w.recs /\ w'.pglast = w.pglast
      /\ w'.stamp = w.stamp /\ w'.loose = w.loose /\ w'.dirty = w.dirty
      /\ w'.pg = w.pg /\ w'.fdb = w.fdb /\ w'.txnid = w.txnid /\ w'.pc = "synced"
  BY <1>1, <1>2 DEF WriterTxns
<1>4. CommitInv(w', Prev)
  BY <1>2, <1>3 DEF CommitInv, Fresh
<1>5. Prev' = Prev
  BY <1>1, MetaFrame
<1>6. WriterInv'
  BY <1>1, <1>2, <1>3, <1>4, <1>5 DEF WriterInv
<1> QED BY <1>1, <1>3, <1>6 DEF WriterLocal

\* The write of mm_dbs (mdb_env_write_meta).
LEMMA MetaDbsFact ==
    ASSUME CoreInv, CommitMetaDbs
    PROVE  /\ w.pc = "synced" /\ mti' = mti /\ file' = file /\ ownerdead' = ownerdead
           /\ pgoldest' = pgoldest
           /\ Prev' = Prev /\ Other'.dbs = NewDbs(w) /\ Other'.txnid = Other.txnid /\ Top' = Top
           /\ Toggle \in 0..1 /\ metas'[Toggle].dbs = NewDbs(w)
           /\ \A i \in 0..1 : i # Toggle => metas'[i] = metas[i]
           /\ w'.next = w.next /\ w'.recs = w.recs /\ w'.pglast = w.pglast
           /\ w'.stamp = w.stamp /\ w'.loose = w.loose /\ w'.dirty = w.dirty
           /\ w'.pg = w.pg /\ w'.fdb = w.fdb /\ w'.txnid = w.txnid /\ w'.pc = "dbs"
<1>1. /\ w.pc = "synced" /\ w' = [w EXCEPT !.pc = "dbs"]
      /\ metas' = [metas EXCEPT ![Toggle].dbs = NewDbs(w)]
      /\ mti' = mti /\ file' = file /\ ownerdead' = ownerdead /\ pgoldest' = pgoldest
  BY DEF CommitMetaDbs, NewDbs
<1>2. /\ TypeOK /\ w \in WriterTxns /\ w.txnid = mti + 1 /\ mti \in Nat
      /\ Top = Prev /\ Other.txnid # mti + 1
  BY <1>1, CommitFact
<1>3. Toggle = 1 - (mti % 2) /\ mti % 2 \in 0..1 /\ Toggle \in 0..1 /\ Toggle # mti % 2
  BY <1>2, ParityFact DEF Toggle
<1>4. /\ Prev' = Prev /\ Other'.dbs = NewDbs(w) /\ Other'.txnid = Other.txnid
      /\ \A i \in 0..1 : i # Toggle => metas'[i] = metas[i]
      /\ metas'[Toggle].dbs = NewDbs(w)
  BY <1>1, <1>2, <1>3 DEF Prev, Other, TypeOK, Metas
<1>5. Top' = Top
  BY <1>1, <1>2, <1>4 DEF Top
<1>6. /\ w'.next = w.next /\ w'.recs = w.recs /\ w'.pglast = w.pglast
      /\ w'.stamp = w.stamp /\ w'.loose = w.loose /\ w'.dirty = w.dirty
      /\ w'.pg = w.pg /\ w'.fdb = w.fdb /\ w'.txnid = w.txnid /\ w'.pc = "dbs"
  BY <1>1, <1>2 DEF WriterTxns
<1> QED BY <1>1, <1>3, <1>4, <1>5, <1>6

\* It changes only the meta page that is not the current one.
LEMMA MetaDbsCore ==
    ASSUME CoreInv, TypeOK', CommitMetaDbs
    PROVE  CoreInv'
<1>1. MetaInv'
  BY MetaDbsFact DEF CoreInv, MetaInv
<1>2. TopInv'
  BY MetaDbsFact DEF CoreInv, TopInv
<1>3. WriterInv'
  <2>1. CommitInv(w, Prev)
    BY MetaDbsFact, CommitFact
  <2>2. CommitInv(w', Prev)
    BY <2>1, MetaDbsFact DEF CommitInv, Fresh
  <2>3. NewDbs(w') = NewDbs(w)
    BY MetaDbsFact DEF NewDbs
  <2>4. \A p \in DOMAIN w.pg : file[p] = w.pg[p]
    BY MetaDbsFact DEF CoreInv, WriterInv
  <2> QED BY <2>2, <2>3, <2>4, MetaDbsFact DEF WriterInv
<1> QED BY <1>1, <1>2, <1>3 DEF CoreInv

\* The completed write of the meta page (mdb_env_write_meta) makes the new
\* snapshot the current one.
LEMMA MetaTailFact ==
    ASSUME CoreInv, CommitMetaTail
    PROVE  /\ w.pc = "dbs" /\ mti' = mti /\ file' = file /\ ownerdead' = ownerdead
           /\ pgoldest' = pgoldest
           /\ Prev' = Prev /\ Other'.dbs = NewDbs(w) /\ Other.dbs = NewDbs(w)
           /\ Other'.txnid = mti + 1 /\ Other'.last = w.next - 1 /\ Top' = Other'
           /\ \A i \in 0..1 : metas'[i].dbs = metas[i].dbs
           /\ w'.pc = "written" /\ w'.txnid = w.txnid /\ w'.pglast = w.pglast
<1>1. /\ w.pc = "dbs" /\ w' = [w EXCEPT !.pc = "written"]
      /\ metas' = [metas EXCEPT ![Toggle].last = w.next - 1, ![Toggle].txnid = w.txnid]
      /\ mti' = mti /\ file' = file /\ ownerdead' = ownerdead /\ pgoldest' = pgoldest
  BY DEF CommitMetaTail
<1>2. TypeOK /\ w \in WriterTxns /\ w.txnid = mti + 1 /\ mti \in Nat
  BY <1>1, CommitFact
<1>3. Toggle = 1 - (mti % 2) /\ mti % 2 \in 0..1 /\ Toggle \in 0..1 /\ Toggle # mti % 2
  BY <1>2, ParityFact DEF Toggle
<1>4. metas' = [metas EXCEPT ![Toggle] =
                  [@ EXCEPT !.last = w.next - 1, !.txnid = w.txnid]]
  BY <1>1, <1>2, <1>3 DEF TypeOK, Metas
<1>5. /\ Prev' = Prev /\ Other'.dbs = Other.dbs /\ Other'.txnid = mti + 1
      /\ Other'.last = w.next - 1
      /\ \A i \in 0..1 : metas'[i].dbs = metas[i].dbs
  BY <1>1, <1>2, <1>3, <1>4 DEF Prev, Other, TypeOK, Metas
<1>6. Top' = Other' /\ Other.dbs = NewDbs(w)
  BY <1>1, <1>5 DEF Top, CoreInv, WriterInv
<1>7. /\ w'.pc = "written" /\ w'.txnid = w.txnid /\ w'.pglast = w.pglast
  BY <1>1, <1>2 DEF WriterTxns
<1> QED BY <1>1, <1>5, <1>6, <1>7

\* The new snapshot is whole: CommitInv and WriterInv say so of the writer.
LEMMA MetaTailCore ==
    ASSUME CoreInv, TypeOK', CommitMetaTail
    PROVE  CoreInv'
<1>1. w.txnid = mti + 1 /\ mti \in Nat /\ Prev.txnid = mti /\ CommitInv(w, Prev) /\ ~ownerdead
  BY MetaTailFact, CommitFact
<1>2. MetaInv'
  BY <1>1, MetaTailFact DEF CoreInv, MetaInv
<1>3. TopInv'
  <2>1. /\ NewDbs(w).pg = w.pg /\ NewDbs(w).fdb = w.fdb /\ NewDbs(w).recs = w.recs
        /\ NewDbs(w).of = mti + 1
    BY <1>1 DEF NewDbs
  <2>2. SnapInv(w.pg, w.fdb, w.recs, w.next - 1)
        /\ \A t \in 1..MaxTxn : t > mti + 1 => w.recs[t] = {}
    BY <1>1 DEF CommitInv
  <2>3. \A p \in DOMAIN w.pg : file[p] = w.pg[p]
    BY MetaTailFact DEF CoreInv, WriterInv
  <2> QED BY <2>1, <2>2, <2>3, MetaTailFact DEF CoreInv, TopInv, Readable
<1>4. WriterInv'
  BY MetaTailFact DEF WriterInv
<1> QED BY <1>2, <1>3, <1>4 DEF CoreInv

\* Setting mti_txnid (mdb_env_write_meta) swaps the roles of the meta pages.
LEMMA PublishFact ==
    ASSUME CoreInv, CommitPublish
    PROVE  /\ w.pc = "written" /\ w' = IdleWriter /\ mti' = mti + 1 /\ mti \in Nat
           /\ metas' = metas /\ file' = file /\ ownerdead' = ownerdead /\ pgoldest' = pgoldest
           /\ Prev.txnid = mti /\ Other.txnid = mti + 1 /\ Top = Other
           /\ Prev' = Other /\ Other' = Prev /\ Top' = Other
<1>1. /\ w.pc = "written" /\ w' = IdleWriter /\ mti' = w.txnid /\ metas' = metas
      /\ file' = file /\ ownerdead' = ownerdead /\ pgoldest' = pgoldest
  BY DEF CommitPublish, EndWriter, store
<1>2. /\ w.txnid = mti + 1 /\ mti \in Nat /\ Prev.txnid = mti /\ Other.txnid = mti + 1
      /\ Top = Other
  BY <1>1, PrevType DEF CoreInv, MetaInv, Top
<1>3. mti' % 2 = 1 - (mti % 2) /\ 1 - (mti' % 2) = mti % 2
  BY <1>1, <1>2, ParityFact
<1>4. Prev' = Other /\ Other' = Prev
  BY <1>1, <1>3 DEF Prev, Other
<1>5. Top' = Other
  BY <1>1, <1>2, <1>4 DEF Top
<1> QED BY <1>1, <1>2, <1>4, <1>5

\* The publication keeps the meta pages' and the writer's part.
LEMMA PublishCore ==
    ASSUME CoreInv, TypeOK', CommitPublish
    PROVE  CoreInv'
<1>1. w'.pc = "idle" /\ w'.pglast = 0 /\ pgoldest \in Nat /\ pgoldest <= mti
  BY PublishFact, IdleFact, BoundsAssumption DEF CoreInv, MetaInv, TypeOK, Txnids
<1>2. MetaInv'
  BY <1>1, PublishFact DEF MetaInv
<1>3. TopInv'
  BY PublishFact DEF CoreInv, TopInv
<1>4. WriterInv'
  BY <1>1 DEF WriterInv
<1> QED BY <1>2, <1>3, <1>4 DEF CoreInv

\* A write transaction begins: from the published snapshot, or, when the
\* last writer died before the publication, from the written one.
LEMMA BeginFact ==
    ASSUME CoreInv, WriterBegin
    PROVE  /\ w.pc = "idle" /\ mti' = Top.txnid /\ mti' \in {mti, mti + 1} /\ mti \in Nat
           /\ ownerdead' = FALSE /\ metas' = metas /\ file' = file /\ pgoldest' = pgoldest
           /\ Prev' = Top /\ Top' = Top
           /\ \/ mti' = mti /\ Prev' = Prev /\ Other' = Other /\ Top = Prev
                 /\ Other.txnid # mti + 1
              \/ mti' = mti + 1 /\ Prev' = Other /\ Other' = Prev /\ Top = Other
                 /\ Other.txnid = mti + 1
           /\ w'.pc = "open" /\ w'.txnid = mti' + 1 /\ w'.pg = Top.dbs.pg
           /\ w'.fdb = Top.dbs.fdb /\ w'.recs = Top.dbs.recs /\ w'.next = Top.last + 1
           /\ w'.pghead = {} /\ w'.pglast = 0 /\ w'.free = {} /\ w'.loose = {}
           /\ w'.dirty = {}
<1> DEFINE last == IF ownerdead THEN PickMeta(metas).txnid ELSE mti
           m    == metas[last % 2]
<1>1. /\ w.pc = "idle" /\ mti' = last /\ ownerdead' = FALSE
      /\ w' = [IdleWriter EXCEPT !.pc = "open", !.txnid = last + 1,
                    !.stamp = begins + 1, !.pg = m.dbs.pg, !.fdb = m.dbs.fdb,
                    !.recs = m.dbs.recs, !.next = m.last + 1]
      /\ metas' = metas /\ file' = file /\ pgoldest' = pgoldest
  BY DEF WriterBegin, LastTxnid, store
<1>2. TypeOK /\ mti \in Nat /\ Prev.txnid = mti
  BY PrevType DEF CoreInv, MetaInv
<1>3. last = Top.txnid /\ last \in {mti, mti + 1}
  <2>1. CASE ownerdead
    BY <2>1, PickIsTop DEF CoreInv
  <2>2. CASE ~ownerdead
    BY <1>1, <1>2, <2>2, TopIsPrev DEF CoreInv
  <2> QED BY <2>1, <2>2
<1> HIDE DEF last
<1>4. /\ Prev' = Top /\ Top' = Top /\ m = Top
      /\ \/ mti' = mti /\ Prev' = Prev /\ Other' = Other /\ Top = Prev
            /\ Other.txnid # mti + 1
         \/ mti' = mti + 1 /\ Prev' = Other /\ Other' = Prev /\ Top = Other
            /\ Other.txnid = mti + 1
  <2>1. CASE last = mti
    <3>1. Prev' = Prev /\ Other' = Other /\ m = Prev
      BY <1>1, <2>1 DEF Prev, Other
    <3>2. Other.txnid # mti + 1
      BY <1>2, <1>3, <2>1 DEF Top
    <3>3. Top = Prev
      BY <3>2 DEF Top
    <3>4. Top' = Prev'
      BY <1>1, <2>1, <3>1, <3>2 DEF Top
    <3> QED BY <1>1, <2>1, <3>1, <3>2, <3>3, <3>4
  <2>2. CASE last = mti + 1
    <3>1. mti' % 2 = 1 - (mti % 2) /\ 1 - (mti' % 2) = mti % 2
      BY <1>1, <1>2, <2>2, ParityFact
    <3>2. Prev' = Other /\ Other' = Prev /\ m = Other
      BY <1>1, <3>1 DEF Prev, Other
    <3>3. Top = Other /\ Other.txnid = mti + 1
      BY <1>2, <1>3, <2>2 DEF Top
    <3>4. Top' = Prev'
      BY <1>1, <1>2, <2>2, <3>2 DEF Top
    <3> QED BY <1>1, <2>2, <3>2, <3>3, <3>4
  <2> QED BY <1>3, <2>1, <2>2
<1> HIDE DEF m
<1>5. /\ w'.pc = "open" /\ w'.txnid = last + 1 /\ w'.pg = Top.dbs.pg
      /\ w'.fdb = Top.dbs.fdb /\ w'.recs = Top.dbs.recs /\ w'.next = Top.last + 1
      /\ w'.pghead = {} /\ w'.pglast = 0 /\ w'.free = {} /\ w'.loose = {} /\ w'.dirty = {}
  BY <1>1, <1>4 DEF IdleWriter
<1>6. mti' = Top.txnid /\ mti' \in {mti, mti + 1} /\ w'.txnid = mti' + 1
  BY <1>1, <1>3, <1>5
<1> QED BY <1>1, <1>2, <1>4, <1>5, <1>6

\* The new transaction's working sets satisfy their invariant.
LEMMA BeginCore ==
    ASSUME CoreInv, TypeOK', WriterBegin
    PROVE  CoreInv'
<1>1. Top \in Metas /\ pgoldest \in Nat /\ pgoldest <= mti /\ mti \in Nat /\ Prev.txnid = mti
  BY PrevType, BoundsAssumption DEF CoreInv, MetaInv, TypeOK, Txnids
<1>2. MetaInv'
  <2>1. Prev'.txnid = mti' /\ pgoldest' <= mti'
    BY <1>1, BeginFact
  <2>2. Other'.txnid < mti' \/ (mti' = 0 /\ Other'.txnid = 0)
    <3>1. \/ Other.txnid < mti \/ (mti = 0 /\ Other.txnid = 0)
          \/ Other.txnid = mti + 1
      BY DEF CoreInv, MetaInv
    <3>2. \/ mti' = mti /\ Other' = Other /\ Other.txnid # mti + 1
          \/ mti' = mti + 1 /\ Other' = Prev
      BY BeginFact
    <3> QED BY <1>1, <3>1, <3>2
  <2> QED BY <2>1, <2>2, BeginFact DEF MetaInv
<1>3. TopInv'
  BY BeginFact DEF CoreInv, TopInv
<1>4. WorkInv(w', Top)
  <2>1. SnapInv(Top.dbs.pg, Top.dbs.fdb, Top.dbs.recs, Top.last) /\ Top.last \in Nat
    BY <1>1, MetaFields DEF CoreInv, TopInv
  <2>2. \A p \in DOMAIN Top.dbs.pg : p \in Nat
    BY <1>1, MetaFields, PageMapFact, BoundsAssumption DEF Pages, NumMetas
  <2>3. TreeInv(w', Top)
    BY <2>1, <2>2, BeginFact DEF TreeInv, Held, SnapInv
  <2>4. ListInv(w', Top)
    BY BeginFact DEF ListInv
  <2> QED BY <2>1, <2>3, <2>4, BeginFact DEF WorkInv, SnapInv
<1>5. WriterInv'
  BY <1>4, BeginFact DEF WriterInv
<1> QED BY <1>2, <1>3, <1>5 DEF CoreInv

-----------------------------------------------------------------------------
(***************************************************************************)
(* Failures, and the steps of others.                                      *)
(***************************************************************************)

\* Between the write of the meta page and its publication the process may
\* die (WriterDies); the write of the meta page may fail (CommitMetaFails);
\* a reader's step or a shutdown leaves the writer alone.
LEMMA OtherCore ==
    ASSUME CoreInv, TypeOK', mti' = mti, metas' = metas, file' = file,
           pgoldest' \in {pgoldest, 0},
           \/ w' = w /\ ownerdead' = ownerdead
           \/ w' = IdleWriter /\ ownerdead' = TRUE /\ w.pc # "idle"
           \/ w' = IdleWriter /\ ownerdead' = ownerdead /\ w.pc # "written"
    PROVE  CoreInv'
<1>1. Prev' = Prev /\ Other' = Other /\ Top' = Top
  BY MetaFrame
<1>2. mti \in Nat /\ pgoldest \in Nat
  BY BoundsAssumption DEF CoreInv, TypeOK, Txnids
<1>3. MetaInv'
  BY <1>1, <1>2, IdleFact DEF CoreInv, MetaInv
<1>4. TopInv' /\ WriterInv'
  BY <1>1, IdleFact DEF CoreInv, TopInv, WriterInv
<1> QED BY <1>3, <1>4 DEF CoreInv

\* The initial states satisfy it.
LEMMA CoreInit == Init => CoreInv
<1> SUFFICES ASSUME Init PROVE CoreInv
  OBVIOUS
<1>1. TypeOK
  BY TypeInit DEF TypeInv
<1>2. /\ mti = 0 /\ w = IdleWriter /\ pgoldest = 0 /\ ownerdead = FALSE
      /\ \A i \in 0..1 : metas[i] = [txnid |-> 0, last |-> NumMetas - 1, dbs |-> EmptySnapshot]
  BY DEF Init
<1>3. mti % 2 \in 0..1 /\ 1 - (mti % 2) \in 0..1
  BY <1>2, ParityFact
<1>4. Prev.txnid = 0 /\ Other.txnid = 0 /\ Top = Prev
      /\ Prev.dbs = EmptySnapshot /\ Prev.last = NumMetas - 1
  BY <1>2, <1>3 DEF Prev, Other, Top
<1>5. /\ DOMAIN EmptySnapshot.pg = {} /\ EmptySnapshot.fdb = NoPage /\ EmptySnapshot.of = 0
      /\ \A t \in 1..MaxTxn : EmptySnapshot.recs[t] = {}
  BY DEF EmptySnapshot
<1>6. MetaInv /\ WriterInv
  BY <1>2, <1>4, IdleFact DEF MetaInv, WriterInv
<1>7. TopInv
  BY <1>2, <1>4, <1>5 DEF TopInv, SnapInv, Readable
<1> QED BY <1>1, <1>6, <1>7 DEF CoreInv

\* The steps within an open transaction and up to the write of the meta page.
LocalOps ==
    \/ PageNew \/ AllocFails
    \/ \E p \in Pages : PageTouch(p) \/ PageLoose(p) \/ OvpageFree(p) \/ DropPage(p)
    \/ CommitSave \/ CommitFlush \/ CommitSync
    \/ WriterAbort \/ CommitNothing \/ CommitSaveFails \/ CommitFlushFails \/ CommitSyncFails

\* They are all local.
LEMMA OpsLocal ==
    ASSUME CoreInv, LocalOps
    PROVE  WriterLocal /\ slot' = slot /\ rd' = rd /\ dmetas' \in {dmetas, metas}
<1>1. WriterLocal
  BY WorkLocal, SaveLocal, EndLocal, FlushLocal, SyncLocal DEF LocalOps
<1>2. slot' = slot /\ rd' = rd /\ dmetas' \in {dmetas, metas}
  BY DEF LocalOps, WriterUnchanged, store, PageNew, AllocFails, PageTouch, PageLoose,
     OvpageFree, DropPage, CommitSave, CommitFlush, CommitSync, WriterAbort, CommitNothing,
     CommitSaveFails, CommitFlushFails, CommitSyncFails
<1> QED BY <1>1, <1>2

\* Every step but a power loss preserves the meta pages' and the writer's part.
LEMMA CoreStep ==
    ASSUME TypeInv, CoreInv, [Next]_vars, ~PowerLoss
    PROVE  CoreInv'
<1>1. TypeOK'
  BY TypeStep DEF TypeInv
<1>2. ASSUME NEW r \in Readers, ReaderStep(r) PROVE CoreInv'
  <2>1. /\ mti' = mti /\ metas' = metas /\ file' = file /\ w' = w /\ pgoldest' = pgoldest
        /\ ownerdead' = ownerdead
    BY <1>2 DEF ReaderStep, ReaderLoad, ReaderStore, ReaderVerify, ReaderCopyDbs,
                ReaderCopyNext, ReaderEnd, ReaderUnchanged, store
  <2> QED BY <1>1, <2>1, OtherCore
<1>3. CASE WriterStep
  <2>1. CASE LocalOps
    BY <1>1, <2>1, OpsLocal, LocalCore
  <2>2. CASE CommitMetaFails
    <3>1. /\ mti' = mti /\ metas' = metas /\ file' = file /\ w' = IdleWriter
          /\ pgoldest' = pgoldest /\ ownerdead' = ownerdead /\ w.pc = "dbs"
      BY <2>2 DEF CommitMetaFails, EndWriter
    <3> QED BY <1>1, <3>1, OtherCore
  <2> QED BY <1>1, <1>3, <2>1, <2>2, BeginCore, MetaDbsCore, MetaTailCore, PublishCore
          DEF WriterStep, CommitStep, LocalOps
<1>4. CASE WriterDies \/ FatalShutdown \/ UNCHANGED vars
  <2>1. /\ mti' = mti /\ metas' = metas /\ file' = file /\ pgoldest' \in {pgoldest, 0}
        /\ \/ w' = w /\ ownerdead' = ownerdead
           \/ w' = IdleWriter /\ ownerdead' = TRUE /\ w.pc # "idle"
    BY <1>4 DEF WriterDies, FatalShutdown, vars, store
  <2> QED BY <1>1, <2>1, OtherCore
<1> QED BY <1>2, <1>3, <1>4 DEF Next

-----------------------------------------------------------------------------
(***************************************************************************)
(* Proofs, for every value of the constants and any number of readers,     *)
(* that CrashInv is inductive, whatever fails, unless the disk keeps a     *)
(* meta page whose write failed and then the power is lost; that IInv is,  *)
(* if no write of a meta page fails; and of the properties they imply.     *)
(***************************************************************************)
-----------------------------------------------------------------------------
(***************************************************************************)
(* The readers' part of IInv.                                              *)
(***************************************************************************)

\* A reader's snapshot stays safe when the writer changes only pages that are
\* fresh for it, from records older than the reader.
LEMMA SafeStep ==
    ASSUME NEW m \in Metas, NEW x \in WriterTxns, NEW dbs \in Snapshots, NEW s \in Nat,
           NEW f, NEW g, Safe(dbs, s, f, m.dbs.recs, m.last),
           x.pglast = 0 \/ x.pglast < s,
           \A p \in Pages : ~Fresh(x, m, p) => g[p] = f[p]
    PROVE  Safe(dbs, s, g, m.dbs.recs, m.last)
<1>1. x.pglast \in Nat /\ m.last \in Nat /\ MaxTxn \in Nat
  BY MetaFields, WriterFields, BoundsAssumption DEF Txnids
<1>2. \A p \in DOMAIN dbs.pg : p \in Pages /\ p \in Nat
  BY PageMapFact, BoundsAssumption DEF Snapshots, Pages, NumMetas
<1>3. ASSUME NEW p \in DOMAIN dbs.pg PROVE ~Fresh(x, m, p)
  BY <1>1, <1>2 DEF Safe, Fresh
<1> QED BY <1>2, <1>3 DEF Safe

\* A local step of the writer keeps what the readers are protected by.
LEMMA LocalReaders ==
    ASSUME IInv, TypeOK', WriterLocal, slot' = slot, rd' = rd
    PROVE  ReaderInv'
<1>1. /\ mti' = mti /\ metas' = metas /\ w.pc \notin {"dbs", "written"}
      /\ w'.pc \notin {"dbs", "written"}
      /\ \A p \in Pages : ~Fresh(w, Prev, p) => file'[p] = file[p]
  BY DEF WriterLocal
<1>2. /\ Prev' = Prev /\ Top' = Top /\ Top = Prev /\ Prev \in Metas /\ mti \in Nat
      /\ \A r \in Readers : slot[r] \in Nat
  BY LocalFact DEF IInv
<1>3. /\ NextRecs = Prev.dbs.recs /\ NextRecs' = Prev.dbs.recs
      /\ NextLast = Prev.last /\ NextLast' = Prev.last
  BY <1>1, <1>2 DEF NextRecs, NextLast
<1>4. ASSUME NEW dbs \in Snapshots, NEW s \in Nat, w.pglast = 0 \/ w.pglast < s,
             Safe(dbs, s, file, Prev.dbs.recs, Prev.last)
      PROVE  Safe(dbs, s, file', Prev.dbs.recs, Prev.last)
  BY <1>1, <1>2, <1>4, SafeStep DEF IInv, CoreInv, TypeOK
<1>5. Protected(Prev.dbs, mti)'
  <2>1. Safe(Prev.dbs, mti, file, Prev.dbs.recs, Prev.last)
    BY <1>3 DEF IInv, ReaderInv, Protected
  <2>2. Prev.dbs \in Snapshots /\ (w.pglast = 0 \/ w.pglast < mti)
    BY <1>2, MetaFields DEF IInv, CoreInv, MetaInv
  <2> QED BY <1>1, <1>2, <1>3, <1>4, <2>1, <2>2 DEF Protected
<1>6. ASSUME NEW r \in Readers PROVE OneReaderInv(r)'
  <2>1. OneReaderInv(r) /\ rd[r] \in ReaderTxns
    BY DEF IInv, CoreInv, ReaderInv, TypeOK
  <2>2. rd[r].pc \in {"verified", "copied", "live"} =>
           pgoldest' <= slot[r] /\ (w'.pglast = 0 \/ w'.pglast < slot[r])
    <3>1. /\ FindOldest <= slot[r] /\ FindOldest \in Nat /\ pgoldest \in Nat /\ w'.pglast \in Nat
          /\ slot[r] \in Nat /\ w.pglast \in Nat
      BY LocalFact DEF IInv
    <3>2. /\ pgoldest' \in {pgoldest, FindOldest}
          /\ \/ w'.pglast = 0 \/ w'.pglast = w.pglast
             \/ w'.pglast < pgoldest \/ w'.pglast < FindOldest
      BY DEF WriterLocal
    <3> QED BY <2>1, <3>1, <3>2 DEF OneReaderInv
  <2>3. rd[r].pc = "verified" =>
           Safe(metas[slot[r] % 2].dbs, slot[r], file', Prev.dbs.recs, Prev.last)
    <3>1. metas[slot[r] % 2].dbs \in Snapshots
      BY <1>2, MetaFact, MetaFields DEF IInv, CoreInv, TypeOK
    <3> QED BY <1>2, <1>3, <1>4, <2>1, <3>1 DEF OneReaderInv, Protected
  <2>4. rd[r].pc \in {"copied", "live"} =>
           Safe(rd[r].dbs, slot[r], file', Prev.dbs.recs, Prev.last)
    <3>1. rd[r].dbs \in Snapshots
      BY <2>1 DEF ReaderTxns
    <3> QED BY <1>2, <1>3, <1>4, <2>1, <3>1 DEF OneReaderInv, Protected
  <2> QED BY <1>1, <1>3, <2>1, <2>2, <2>3, <2>4 DEF OneReaderInv, Protected
<1> QED BY <1>5, <1>6 DEF ReaderInv

\* The new snapshot protects what the last one protected.
LEMMA SafeForward ==
    ASSUME NEW m, GoodMeta(m), NEW x \in WriterTxns, CommitInv(x, m),
           NEW dbs \in Snapshots, NEW s \in Nat, NEW f, s <= m.txnid,
           Safe(dbs, s, f, m.dbs.recs, m.last), x.pglast = 0 \/ x.pglast < s
    PROVE  Safe(dbs, s, f, x.recs, x.next - 1)
<1>1. /\ x.pglast \in Nat /\ m.last \in Nat /\ MaxTxn \in Nat /\ x.next \in Nat
      /\ m.txnid \in Nat
  BY MetaFields, WriterFields, BoundsAssumption DEF Txnids, GoodMeta, NumMetas
<1>2. \A p \in DOMAIN dbs.pg : p \in Nat
  BY PageMapFact, BoundsAssumption DEF Snapshots, Pages, NumMetas
<1>3. \A p \in DOMAIN dbs.pg : p <= x.next - 1
  BY <1>1, <1>2 DEF Safe, CommitInv
<1>4. ASSUME NEW p \in DOMAIN dbs.pg, NEW t \in 1..MaxTxn, t < s PROVE p \notin x.recs[t]
  <2>1. p \notin m.dbs.recs[t]
    BY <1>4 DEF Safe
  <2>2. ~Fresh(x, m, p)
    BY <1>1, <1>2 DEF Safe, Fresh
  <2>3. t <= m.txnid
    BY <1>1, <1>4
  <2> QED BY <2>1, <2>2, <2>3 DEF CommitInv
<1> QED BY <1>3, <1>4 DEF Safe

\* A reader that copies the meta page while it is being overwritten gets the
\* new trees, which are in the file already.
LEMMA MetaDbsReaders ==
    ASSUME IInv, TypeOK', CommitMetaDbs
    PROVE  ReaderInv'
<1>1. /\ w.pc = "synced" /\ mti' = mti /\ file' = file /\ slot' = slot /\ rd' = rd
      /\ pgoldest' = pgoldest
  BY DEF CommitMetaDbs
<1>2. /\ TypeOK /\ w \in WriterTxns /\ w.txnid = mti + 1 /\ mti \in Nat
      /\ GoodMeta(Prev) /\ Prev.txnid = mti /\ CommitInv(w, Prev) /\ Top = Prev
  BY <1>1, CommitFact DEF IInv
<1>3. /\ Prev' = Prev /\ Toggle \in 0..1 /\ metas'[Toggle].dbs = NewDbs(w)
      /\ \A i \in 0..1 : i # Toggle => metas'[i] = metas[i]
  BY MetaDbsFact DEF IInv
<1>4. w'.pglast = w.pglast /\ w'.pc = "dbs" /\ w'.recs = w.recs /\ w'.next = w.next
  BY MetaDbsFact DEF IInv
<1>5. /\ NextRecs = Prev.dbs.recs /\ NextLast = Prev.last
       /\ NextRecs' = w.recs /\ NextLast' = w.next - 1
  BY <1>1, <1>2, <1>4 DEF NextRecs, NextLast
<1>6. ASSUME NEW dbs \in Snapshots, NEW s \in Nat, s <= mti,
              w.pglast = 0 \/ w.pglast < s,
              Safe(dbs, s, file, Prev.dbs.recs, Prev.last)
       PROVE  Safe(dbs, s, file, w.recs, w.next - 1)
  BY <1>2, <1>6, SafeForward
<1>7. Protected(Prev.dbs, mti)'
  <2>1. Safe(Prev.dbs, mti, file, Prev.dbs.recs, Prev.last)
    BY <1>5 DEF IInv, ReaderInv, Protected
  <2>2. Prev.dbs \in Snapshots /\ (w.pglast = 0 \/ w.pglast < mti)
    BY <1>2, MetaFields DEF IInv, CoreInv, MetaInv, GoodMeta
  <2> QED BY <1>1, <1>2, <1>3, <1>5, <1>6, <2>1, <2>2 DEF Protected
<1>8. \A s : Safe(NewDbs(w), s, file, w.recs, w.next - 1)
  <2>1. \A p \in DOMAIN w.pg : /\ p <= w.next - 1
                               /\ \A t \in 1..MaxTxn : p \notin w.recs[t]
    BY <1>2 DEF CommitInv, SnapInv
  <2>2. \A p \in DOMAIN w.pg : file[p] = w.pg[p]
    BY <1>1 DEF IInv, CoreInv, WriterInv
  <2>3. NewDbs(w).pg = w.pg
    BY DEF NewDbs
  <2> QED BY <2>1, <2>2, <2>3 DEF Safe
<1>9. ASSUME NEW r \in Readers PROVE OneReaderInv(r)'
  <2>1. OneReaderInv(r) /\ rd[r] \in ReaderTxns
    BY DEF IInv, CoreInv, ReaderInv, TypeOK
  <2>2. slot[r] \in Nat /\ slot[r] % 2 \in 0..1
    <3>1. slot[r] \in Nat
      BY BoundsAssumption DEF IInv, CoreInv, TypeOK, Txnids, NoTxn
    <3> QED BY <3>1, ParityFact
  <2>3. CASE rd[r].pc = "verified" /\ slot[r] % 2 = Toggle
    <3>1. Safe(metas'[slot[r] % 2].dbs, slot[r], file, w.recs, w.next - 1)
      BY <1>3, <1>8, <2>3
    <3>2. metas'[slot[r] % 2].dbs.of >= slot[r]
      <4>1. NewDbs(w).of = mti + 1
        BY <1>2 DEF NewDbs
      <4> QED BY <1>2, <1>3, <2>1, <2>2, <2>3, <4>1 DEF OneReaderInv
    <3> QED BY <1>1, <1>4, <1>5, <2>1, <2>3, <3>1, <3>2 DEF OneReaderInv, Protected
  <2>4. CASE rd[r].pc = "verified" /\ slot[r] % 2 # Toggle
    <3>1. metas'[slot[r] % 2] = metas[slot[r] % 2] /\ metas[slot[r] % 2].dbs \in Snapshots
      BY <1>2, <1>3, <2>2, <2>4, MetaFields DEF TypeOK
    <3>2. Safe(metas[slot[r] % 2].dbs, slot[r], file, w.recs, w.next - 1)
      BY <1>5, <1>6, <2>1, <2>2, <2>4, <3>1 DEF OneReaderInv, Protected
    <3> QED BY <1>1, <1>4, <1>5, <2>1, <2>4, <3>1, <3>2 DEF OneReaderInv, Protected
  <2>5. CASE rd[r].pc # "verified"
    <3>1. rd[r].dbs \in Snapshots
      BY <2>1 DEF ReaderTxns
    <3>2. rd[r].pc \in {"copied", "live"} => Safe(rd[r].dbs, slot[r], file, w.recs, w.next - 1)
      BY <1>5, <1>6, <2>1, <2>2, <3>1 DEF OneReaderInv, Protected
    <3> QED BY <1>1, <1>4, <1>5, <2>1, <2>5, <3>2 DEF OneReaderInv, Protected
  <2> QED BY <2>3, <2>4, <2>5
<1> QED BY <1>7, <1>9 DEF ReaderInv

\* A step that leaves alone what readers are protected by.
LEMMA ReaderFrame ==
    ASSUME IInv, slot' = slot, rd' = rd, file' = file, mti' \in Nat, mti \in Nat, mti' >= mti,
           \A i \in 0..1 : metas'[i].dbs = metas[i].dbs,
           NextRecs' = NextRecs, NextLast' = NextLast,
           pgoldest' = pgoldest \/ pgoldest' = 0, w'.pglast = w.pglast \/ w'.pglast = 0,
           NEW r \in Readers
    PROVE  OneReaderInv(r)'
<1>1. OneReaderInv(r) /\ rd[r] \in ReaderTxns
  BY DEF IInv, CoreInv, ReaderInv, TypeOK
<1>2. slot[r] \in Nat /\ slot[r] % 2 \in 0..1 /\ pgoldest \in Nat /\ w.pglast \in Nat
      /\ rd[r].reg \in Nat
  <2>1. slot[r] \in Nat
    BY BoundsAssumption DEF IInv, CoreInv, TypeOK, Txnids, NoTxn
  <2>2. pgoldest \in Nat /\ w.pglast \in Nat /\ rd[r].reg \in Nat
    BY <1>1, WriterFields, BoundsAssumption DEF IInv, CoreInv, TypeOK, Txnids, ReaderTxns
  <2> QED BY <2>1, <2>2, ParityFact
<1>3. metas'[slot[r] % 2].dbs = metas[slot[r] % 2].dbs
  BY <1>2
<1>4. rd[r].pc \in {"loaded", "stored"} => rd[r].reg <= mti'
  BY <1>1, <1>2 DEF OneReaderInv
<1>5. rd[r].pc \in {"verified", "copied", "live"} =>
        slot[r] <= mti' /\ pgoldest' <= slot[r] /\ (w'.pglast = 0 \/ w'.pglast < slot[r])
  BY <1>1, <1>2 DEF OneReaderInv
<1> QED BY <1>1, <1>3, <1>4, <1>5 DEF OneReaderInv, Protected

\* The current snapshot protects its own pages from every id.
LEMMA TopSafe ==
    ASSUME TopInv
    PROVE  \A s : Safe(Top.dbs, s, file, Top.dbs.recs, Top.last)
BY DEF TopInv, SnapInv, Readable, Safe

\* The completed write of the meta page changes nothing for the readers.
LEMMA MetaTailReaders ==
    ASSUME IInv, TypeOK', CommitMetaTail
    PROVE  ReaderInv'
<1>1. /\ w.pc = "dbs" /\ mti' = mti /\ file' = file /\ slot' = slot /\ rd' = rd
      /\ pgoldest' = pgoldest
  BY DEF CommitMetaTail
<1>2. /\ Prev' = Prev /\ Top'.dbs = NewDbs(w) /\ Top'.last = w.next - 1 /\ w'.pc = "written"
      /\ w'.pglast = w.pglast /\ \A i \in 0..1 : metas'[i].dbs = metas[i].dbs
  BY MetaTailFact DEF IInv
<1>3. /\ NextRecs' = NextRecs /\ NextLast' = NextLast
  BY <1>1, <1>2 DEF NextRecs, NextLast, NewDbs
<1>4. mti \in Nat
  BY PrevType DEF IInv, CoreInv
<1>5. \A r \in Readers : OneReaderInv(r)'
  BY <1>1, <1>2, <1>3, <1>4, ReaderFrame
<1>6. Protected(Prev.dbs, mti)'
  BY <1>1, <1>2, <1>3 DEF IInv, ReaderInv, Protected
<1> QED BY <1>5, <1>6 DEF ReaderInv

\* From its publication on the new snapshot is protected.
LEMMA PublishReaders ==
    ASSUME IInv, TypeOK', CommitPublish
    PROVE  ReaderInv'
<1>1. slot' = slot /\ rd' = rd
  BY DEF CommitPublish
<1>2. /\ w.pc = "written" /\ w' = IdleWriter /\ mti' = mti + 1 /\ mti \in Nat
      /\ metas' = metas /\ file' = file /\ pgoldest' = pgoldest
      /\ Top = Other /\ Prev' = Other /\ Top' = Other
  BY PublishFact DEF IInv
<1>3. NextRecs' = NextRecs /\ NextLast' = NextLast
      /\ NextRecs' = Top'.dbs.recs /\ NextLast' = Top'.last
  BY <1>2, IdleFact DEF NextRecs, NextLast
<1>4. \A r \in Readers : OneReaderInv(r)'
  BY <1>1, <1>2, <1>3, IdleFact, ReaderFrame
<1>5. Protected(Prev.dbs, mti)'
  <2>1. Safe(Top.dbs, mti', file, Top.dbs.recs, Top.last)
    BY TopSafe DEF IInv, CoreInv
  <2> QED BY <1>2, <1>3, <2>1 DEF Protected
<1> QED BY <1>4, <1>5 DEF ReaderInv

\* A write transaction begins (mdb_txn_renew0) from the protected snapshot.
LEMMA BeginReaders ==
    ASSUME IInv, TypeOK', WriterBegin
    PROVE  ReaderInv'
<1>1. slot' = slot /\ rd' = rd
  BY DEF WriterBegin
<1>2. /\ w.pc = "idle" /\ mti' \in {mti, mti + 1} /\ mti \in Nat
      /\ metas' = metas /\ file' = file /\ pgoldest' = pgoldest
      /\ Prev' = Top /\ Top' = Top /\ w'.pc = "open" /\ w'.pglast = 0
  BY BeginFact DEF IInv
<1>3. NextRecs' = NextRecs /\ NextLast' = NextLast
      /\ NextRecs' = Top.dbs.recs /\ NextLast' = Top.last
  BY <1>2 DEF NextRecs, NextLast
<1>4. \A r \in Readers : OneReaderInv(r)'
  BY <1>1, <1>2, <1>3, ReaderFrame
<1>5. Protected(Prev.dbs, mti)'
  <2>1. Safe(Top.dbs, mti', file, Top.dbs.recs, Top.last)
    BY TopSafe DEF IInv, CoreInv
  <2> QED BY <1>2, <1>3, <2>1 DEF Protected
<1> QED BY <1>4, <1>5 DEF ReaderInv

\* A step of a read transaction (mdb_txn_renew0, mdb_txn_end) preserves the
\* invariant: a reader gets what its slot protects.
LEMMA ReaderReaders ==
    ASSUME IInv, NEW r \in Readers, ReaderStep(r)
    PROVE  ReaderInv'
<1>1. ReaderUnchanged
  BY DEF ReaderStep, ReaderLoad, ReaderStore, ReaderVerify, ReaderCopyDbs,
         ReaderCopyNext, ReaderEnd
<1>2. /\ mti' = mti /\ metas' = metas /\ file' = file /\ w' = w /\ pgoldest' = pgoldest
      /\ ownerdead' = ownerdead
  BY <1>1 DEF ReaderUnchanged, store
<1>3. Prev' = Prev /\ Other' = Other /\ Top' = Top
  BY <1>2, MetaFrame
<1>4. NextRecs' = NextRecs /\ NextLast' = NextLast
  BY <1>2, <1>3 DEF NextRecs, NextLast
<1>5. Protected(Prev.dbs, mti)'
  BY <1>2, <1>3, <1>4 DEF IInv, ReaderInv, Protected
<1>6. ASSUME NEW q \in Readers, q # r PROVE OneReaderInv(q)'
  <2>1. slot'[q] = slot[q] /\ rd'[q] = rd[q]
    BY <1>6 DEF IInv, CoreInv, TypeOK, ReaderStep, ReaderLoad, ReaderStore, ReaderVerify,
                ReaderCopyDbs, ReaderCopyNext, ReaderEnd
  <2> QED BY <1>2, <1>4, <2>1 DEF IInv, ReaderInv, OneReaderInv, Protected
<1>7. OneReaderInv(r)'
  <2>1. OneReaderInv(r) /\ rd[r] \in ReaderTxns /\ mti \in Nat /\ pgoldest \in Nat
        /\ slot[r] \in Nat
    BY BoundsAssumption DEF IInv, CoreInv, ReaderInv, TypeOK, Txnids, NoTxn
  <2>2. CASE ReaderLoad(r)
    <3>1. rd'[r].pc = "loaded" /\ rd'[r].reg = mti
      BY <2>2 DEF ReaderLoad, IInv, CoreInv, TypeOK, ReaderTxns
    <3> QED BY <1>2, <2>1, <3>1 DEF OneReaderInv
  <2>3. CASE ReaderStore(r)
    <3>1. rd'[r].pc = "stored" /\ rd'[r].reg = rd[r].reg /\ slot'[r] = rd[r].reg
          /\ rd[r].pc = "loaded"
      BY <2>3 DEF ReaderStore, IInv, CoreInv, TypeOK, ReaderTxns
    <3> QED BY <1>2, <2>1, <3>1 DEF OneReaderInv
  <2>4. CASE ReaderVerify(r) /\ slot[r] # mti
    <3>1. rd'[r].pc = "loaded" /\ rd'[r].reg = mti
      BY <2>4 DEF ReaderVerify, IInv, CoreInv, TypeOK, ReaderTxns
    <3> QED BY <1>2, <2>1, <3>1 DEF OneReaderInv
  <2>5. CASE ReaderVerify(r) /\ slot[r] = mti
    <3>1. rd'[r].pc = "verified" /\ slot'[r] = mti
      BY <2>5 DEF ReaderVerify, IInv, CoreInv, TypeOK, ReaderTxns
    <3>2. /\ pgoldest <= mti /\ (w.pglast = 0 \/ w.pglast < mti)
          /\ Prev.dbs.of = mti /\ Protected(Prev.dbs, mti)
      BY DEF IInv, CoreInv, MetaInv, TopInv, ReaderInv
    <3>3. Prev = metas[mti % 2]
      BY DEF Prev
    <3> QED BY <1>2, <1>4, <2>1, <3>1, <3>2, <3>3 DEF OneReaderInv, Protected
  <2>6. CASE ReaderCopyDbs(r)
    <3>1. /\ rd[r].pc = "verified" /\ rd'[r].pc = "copied" /\ slot'[r] = slot[r]
          /\ rd'[r].dbs = metas[slot[r] % 2].dbs
      BY <2>6 DEF ReaderCopyDbs, IInv, CoreInv, TypeOK, ReaderTxns
    <3> QED BY <1>2, <1>4, <2>1, <3>1 DEF OneReaderInv, Protected
  <2>7. CASE ReaderCopyNext(r) /\ ~fatal
    <3>1. /\ rd[r].pc = "copied" /\ rd'[r].pc = "live" /\ slot'[r] = slot[r]
          /\ rd'[r].dbs = rd[r].dbs
      BY <2>7 DEF ReaderCopyNext, IInv, CoreInv, TypeOK, ReaderTxns
    <3> QED BY <1>2, <1>4, <2>1, <3>1 DEF OneReaderInv, Protected
  <2>8. CASE ReaderEnd(r) \/ (ReaderCopyNext(r) /\ fatal)
    <3>1. rd'[r] = IdleReader /\ IdleReader.pc = "idle"
      BY <2>8 DEF ReaderEnd, ReaderCopyNext, IInv, CoreInv, TypeOK, IdleReader
    <3> QED BY <3>1 DEF OneReaderInv
  <2> QED BY <2>2, <2>3, <2>4, <2>5, <2>6, <2>7, <2>8 DEF ReaderStep
<1> QED BY <1>5, <1>6, <1>7 DEF ReaderInv

\* The process of the writer dies, or one closes an environment with
\* MDB_FATAL_ERROR: the snapshots stay, and me_pgoldest starts again.
LEMMA FailureReaders ==
    ASSUME IInv, TypeOK', WriterDies \/ FatalShutdown
    PROVE  ReaderInv'
<1>1. /\ mti' = mti /\ metas' = metas /\ file' = file /\ slot' = slot /\ rd' = rd
      /\ pgoldest' = 0
      /\ \/ w' = w /\ ownerdead' = ownerdead
         \/ w' = IdleWriter /\ ownerdead' = TRUE /\ w.pc \notin {"idle", "dbs"}
  BY DEF WriterDies, FatalShutdown, store
<1>2. Prev' = Prev /\ Other' = Other /\ Top' = Top
  BY <1>1, MetaFrame
<1>3. mti \in Nat /\ pgoldest \in Nat
  BY BoundsAssumption DEF IInv, CoreInv, TypeOK, Txnids
<1>4. NextRecs' = NextRecs /\ NextLast' = NextLast
  BY <1>1, <1>2, IdleFact DEF NextRecs, NextLast
<1>5. \A r \in Readers : OneReaderInv(r)'
  BY <1>1, <1>3, <1>4, IdleFact, ReaderFrame
<1>6. Protected(Prev.dbs, mti)'
  BY <1>1, <1>2, <1>4 DEF IInv, ReaderInv, Protected
<1> QED BY <1>5, <1>6 DEF ReaderInv

-----------------------------------------------------------------------------
(***************************************************************************)
(* No page is lost: LeakInv.                                               *)
(***************************************************************************)

\* Consuming the oldest record that can be used (mdb_page_alloc) loses no
\* page: the records before it are empty.
LEMMA RefillCover ==
    ASSUME TypeOK, NEW x \in WriterTxns, WorkCover(x), Oldest(x) \in Nat
    PROVE  /\ WorkCover(Refill(x)) /\ Refill(x) \in WriterTxns
           /\ Refill(x).pglast = 0 => x.pglast = 0
           /\ Refill(x).loose = x.loose
<1> DEFINE U == Usable(x, Oldest(x))
           t == SetMin(U)
           y == Refill(x)
<1>1. y \in WriterTxns
  BY RefillType
<1>2. CASE y = x
  BY <1>2
<1>3. CASE y # x
  <2>1. x.pghead = {} /\ U # {} /\ y = [x EXCEPT !.pghead = x.recs[t], !.pglast = t]
    BY <1>3 DEF Refill
  <2>2. U \subseteq Nat
    BY BoundsAssumption DEF Usable, Later
  <2>3. t \in U /\ \A u \in U : t <= u
    BY <2>1, <2>2, SetMinFact
  <2> HIDE DEF t
  <2>4. x.pglast \in Nat /\ MaxTxn \in Nat
    BY WriterFields, BoundsAssumption DEF Txnids
  <2>5. t \in 1..MaxTxn /\ x.pglast < t /\ t < Oldest(x)
    BY <2>3 DEF Usable, Later
  <2>6. ASSUME NEW u \in 1..MaxTxn, u > x.pglast, u < t PROVE x.recs[u] = {}
    <3>1. SUFFICES ASSUME x.recs[u] # {} PROVE FALSE
      OBVIOUS
    <3>2. u < Oldest(x)
      BY <2>4, <2>5, <2>6
    <3>3. u \in U
      BY <2>6, <3>1, <3>2 DEF Usable, Later
    <3> QED BY <2>3, <2>4, <2>5, <2>6, <3>3
  <2> HIDE DEF U, y
  <2>7. /\ y.pg = x.pg /\ y.next = x.next /\ y.recs = x.recs /\ y.pghead = x.recs[t]
        /\ y.pglast = t /\ y.loose = x.loose /\ y.free = x.free
    BY <2>1 DEF WriterTxns
  <2>8. ASSUME NEW p \in Pages, p < y.next PROVE Kept(y, p)
    <3>1. Kept(x, p)
      BY <2>7, <2>8 DEF WorkCover
    <3>2. CASE \E u \in 1..MaxTxn : u > x.pglast /\ p \in x.recs[u]
      <4>1. PICK u \in 1..MaxTxn : u > x.pglast /\ p \in x.recs[u]
        BY <3>2
      <4>2. u = t \/ u > t
        BY <2>4, <2>5, <2>6, <4>1
      <4> QED BY <2>7, <4>1, <4>2 DEF Kept
    <3> QED BY <2>1, <2>7, <3>1, <3>2 DEF Kept
  <2>9. y.pglast # 0
    BY <2>4, <2>5, <2>7
  <2> QED BY <1>1, <2>7, <2>8, <2>9 DEF WorkCover, y
<1> QED BY <1>2, <1>3

\* mdb_page_alloc loses no page but the one it hands out.
LEMMA AllocCover ==
    ASSUME TypeOK, NEW x \in WriterTxns, WorkCover(x), Oldest(x) \in Nat, NEW a \in Alloc(x)
    PROVE  /\ \A p \in Pages : p < a.txn.next => p = a.page \/ Kept(a.txn, p)
           /\ a.txn.pglast = 0 => x.pglast = 0
           /\ a.txn.loose \subseteq x.loose
<1> DEFINE y == Refill(x)
           z == a.txn
           n == a.page
<1>1. /\ WorkCover(y) /\ y \in WriterTxns /\ y.loose = x.loose
      /\ y.pglast = 0 => x.pglast = 0
  BY RefillCover
<1>2. CASE n \in x.loose /\ z = [x EXCEPT !.loose = @ \ {n}]
  <2> HIDE DEF n
  <2>1. /\ z.pg = x.pg /\ z.next = x.next /\ z.recs = x.recs /\ z.pghead = x.pghead
        /\ z.pglast = x.pglast /\ z.loose = x.loose \ {n} /\ z.free = x.free
    BY <1>2 DEF WriterTxns
  <2> HIDE DEF z
  <2>2. \A p \in Pages : p < z.next => p = n \/ Kept(z, p)
    BY <2>1 DEF WorkCover, Kept
  <2> QED BY <2>1, <2>2 DEF n, z
<1>3. CASE n \in y.pghead /\ z = [y EXCEPT !.pghead = @ \ {n}, !.dirty = @ \cup {n}]
  <2> HIDE DEF n, y
  <2>1. /\ z.pg = y.pg /\ z.next = y.next /\ z.recs = y.recs /\ z.pghead = y.pghead \ {n}
        /\ z.pglast = y.pglast /\ z.loose = y.loose /\ z.free = y.free
    BY <1>1, <1>3 DEF WriterTxns
  <2> HIDE DEF z
  <2>2. \A p \in Pages : p < z.next => p = n \/ Kept(z, p)
    BY <1>1, <2>1 DEF WorkCover, Kept
  <2> QED BY <1>1, <2>1, <2>2 DEF n, z
<1>4. CASE n = y.next /\ z = [y EXCEPT !.next = @ + 1, !.dirty = @ \cup {n}]
  <2>1. y.next \in Nat
    BY <1>1, WriterFields, BoundsAssumption DEF NumMetas
  <2> HIDE DEF n, y
  <2>2. /\ z.pg = y.pg /\ z.next = n + 1 /\ z.recs = y.recs /\ z.pghead = y.pghead
        /\ z.pglast = y.pglast /\ z.loose = y.loose /\ z.free = y.free
    BY <1>1, <1>4 DEF WriterTxns
  <2> HIDE DEF z
  <2>3. ASSUME NEW p \in Pages, p < z.next PROVE p = n \/ Kept(z, p)
    <3>1. p = n \/ p < y.next
      BY <1>4, <2>1, <2>2, <2>3, BoundsAssumption DEF Pages, NumMetas
    <3> QED BY <1>1, <2>2, <3>1 DEF WorkCover, Kept
  <2> QED BY <1>1, <2>2, <2>3 DEF n, z
<1> QED BY <1>2, <1>3, <1>4, AllocFact

\* A new page n takes the place of the pages T, which are freed.
LEMMA TouchCover ==
    ASSUME NEW y, NEW n, \A p \in Pages : p < y.next => p = n \/ Kept(y, p),
           NEW T, NEW z, z.next = y.next, z.recs = y.recs, z.pglast = y.pglast,
           z.pghead = y.pghead, z.loose = y.loose, z.free = y.free \cup T,
           DOMAIN z.pg = (DOMAIN y.pg \ T) \cup {n}
    PROVE  WorkCover(z)
BY DEF WorkCover, Kept

\* The operations of the write transaction on pages lose none.
LEMMA WorkLeak ==
    ASSUME CoreInv, w.pc = "open", WorkCover(w),
           \/ PageNew \/ AllocFails
           \/ \E p \in Pages : PageTouch(p) \/ PageLoose(p) \/ OvpageFree(p) \/ DropPage(p)
    PROVE  WorkCover(w') /\ w'.pc = "open"
<1>1. w \in WriterTxns /\ TypeOK /\ Oldest(w) \in Nat
  BY OpenFact
<1>2. ASSUME NEW a \in Alloc(w)
      PROVE  /\ \A p \in Pages : p < a.txn.next => p = a.page \/ Kept(a.txn, p)
             /\ a.txn \in WriterTxns /\ a.txn.pc = "open" /\ a.txn.pg = w.pg
  BY <1>1, AllocCover, AllocType
<1>3. CASE PageNew
  <2>1. PICK a \in Alloc(w) : w' = [a.txn EXCEPT !.pg = With(@, a.page, w.stamp)]
    BY <1>3 DEF PageNew
  <2> DEFINE n == a.page
             y == a.txn
             g == With(y.pg, n, w.stamp)
  <2>2. DOMAIN g = (DOMAIN y.pg \ {}) \cup {n}
    BY DEF With, Without
  <2>3. w' = [y EXCEPT !.pg = g] /\ y \in WriterTxns /\ y.pc = "open"
        /\ \A p \in Pages : p < y.next => p = n \/ Kept(y, p)
    BY <1>2, <2>1
  <2> HIDE DEF g, y, n
  <2>4. /\ w'.pg = g /\ w'.next = y.next /\ w'.recs = y.recs /\ w'.pglast = y.pglast
        /\ w'.pghead = y.pghead /\ w'.loose = y.loose /\ w'.free = y.free \cup {}
        /\ w'.pc = y.pc
    BY <2>3 DEF WriterTxns
  <2>5. WorkCover(w')
    BY <2>2, <2>3, <2>4, TouchCover
  <2> QED BY <2>3, <2>4, <2>5
<1>4. CASE AllocFails
  <2> DEFINE y == Refill(w)
  <2>1. y \in WriterTxns /\ WorkCover(y) /\ y.pc = "open"
    <3>1. y.pc = "open"
      BY <1>1, RefillFact DEF WriterTxns
    <3> QED BY <1>1, <3>1, RefillCover
  <2>2. w' = [y EXCEPT !.error = TRUE]
    BY <1>4 DEF AllocFails
  <2> HIDE DEF y
  <2>3. /\ w'.pg = y.pg /\ w'.next = y.next /\ w'.recs = y.recs /\ w'.pglast = y.pglast
        /\ w'.pghead = y.pghead /\ w'.loose = y.loose /\ w'.free = y.free
        /\ w'.pc = y.pc
    BY <2>1, <2>2 DEF WriterTxns
  <2> QED BY <2>1, <2>3 DEF WorkCover, Kept
<1>5. ASSUME NEW p \in Pages, PageTouch(p) PROVE WorkCover(w') /\ w'.pc = "open"
  <2>1. PICK a \in Alloc(w) :
           w' = [a.txn EXCEPT !.pg = With(Without(@, {p}), a.page, w.stamp),
                              !.free = @ \cup {p}]
    BY <1>5 DEF PageTouch
  <2> DEFINE n == a.page
             y == a.txn
             g == With(Without(y.pg, {p}), n, w.stamp)
  <2>2. DOMAIN g = (DOMAIN y.pg \ {p}) \cup {n}
    BY DEF With, Without
  <2>3. w' = [y EXCEPT !.pg = g, !.free = @ \cup {p}] /\ y \in WriterTxns /\ y.pc = "open"
        /\ \A q \in Pages : q < y.next => q = n \/ Kept(y, q)
    BY <1>2, <2>1
  <2> HIDE DEF g, y, n
  <2>4. /\ w'.pg = g /\ w'.next = y.next /\ w'.recs = y.recs /\ w'.pglast = y.pglast
        /\ w'.pghead = y.pghead /\ w'.loose = y.loose /\ w'.free = y.free \cup {p}
        /\ w'.pc = y.pc
    BY <2>3 DEF WriterTxns
  <2>5. WorkCover(w')
    BY <2>2, <2>3, <2>4, TouchCover
  <2> QED BY <2>3, <2>4, <2>5
<1>6. ASSUME NEW p \in Pages, PageLoose(p) \/ OvpageFree(p) \/ DropPage(p)
      PROVE  WorkCover(w') /\ w'.pc = "open"
  <2> DEFINE g == Without(w.pg, {p})
  <2>1. DOMAIN g = DOMAIN w.pg \ {p}
    BY DEF With, Without
  <2>2. \/ w' = [w EXCEPT !.pg = g, !.free = @ \cup {p}]
        \/ w' = [w EXCEPT !.pg = g, !.loose = @ \cup {p}]
        \/ w' = [w EXCEPT !.pg = g, !.dirty = @ \ {p}, !.pghead = @ \cup {p}]
    <3>1. CASE PageLoose(p)
      BY <1>1, <3>1 DEF PageLoose, WriterTxns
    <3>2. CASE OvpageFree(p)
      BY <3>2 DEF OvpageFree
    <3>3. CASE DropPage(p)
      BY <3>3 DEF DropPage
    <3> QED BY <1>6, <3>1, <3>2, <3>3
  <2> HIDE DEF g
  <2>3. /\ w'.pg = g /\ w'.next = w.next /\ w'.recs = w.recs /\ w'.pglast = w.pglast
        /\ w'.pc = w.pc
    BY <1>1, <2>2 DEF WriterTxns
  <2>4. /\ w.pghead \subseteq w'.pghead /\ w.loose \subseteq w'.loose
        /\ w.free \subseteq w'.free
        /\ p \in w'.pghead \cup w'.loose \cup w'.free
    <3>1. \/ /\ w'.free = w.free \cup {p} /\ w'.loose = w.loose /\ w'.pghead = w.pghead
          \/ /\ w'.free = w.free /\ w'.loose = w.loose \cup {p} /\ w'.pghead = w.pghead
          \/ /\ w'.free = w.free /\ w'.loose = w.loose /\ w'.pghead = w.pghead \cup {p}
      BY <1>1, <2>2 DEF WriterTxns
    <3> QED BY <3>1
  <2>5. WorkCover(w')
    BY <2>1, <2>3, <2>4 DEF WorkCover, Kept
  <2> QED BY <2>3, <2>5
<1> QED BY <1>3, <1>4, <1>5, <1>6

\* mdb_freelist_save loses no page: the freed ones, the loose ones and those
\* left of me_pghead are in the records it writes.
LEMMA SaveCover ==
    ASSUME NEW y \in WriterTxns, WorkCover(y), y.txnid \in 1..MaxTxn,
           y.pglast < y.txnid, y.pglast = 0 => y.pghead = {} /\ y.loose = {},
           y.recs[y.txnid] = {}
    PROVE  SnapCover(y.pg, SavedRecords(y), y.next - 1)
<1> DEFINE R == SavedRecords(y)
<1>1. /\ y.txnid \in Nat /\ y.pglast \in Nat /\ MaxTxn \in Nat /\ y.next \in Nat
  BY WriterFields, BoundsAssumption DEF Txnids, NumMetas
<1>2. /\ R[y.txnid] = y.free
      /\ \A t \in 1..MaxTxn : t # y.txnid /\ t = y.pglast => R[t] = y.pghead \cup y.loose
      /\ \A t \in 1..MaxTxn : t # y.txnid /\ t > y.pglast => R[t] = y.recs[t]
  BY <1>1 DEF SavedRecords
<1> HIDE DEF R
<1>3. SUFFICES ASSUME NEW p \in Pages, p <= y.next - 1
               PROVE  p \in DOMAIN y.pg \/ \E t \in 1..MaxTxn : p \in R[t]
  BY DEF SnapCover, R
<1>4. Kept(y, p)
  <2>1. p < y.next
    BY <1>1, <1>3, BoundsAssumption DEF Pages, NumMetas
  <2> QED BY <2>1 DEF WorkCover
<1>5. CASE p \in y.free
  BY <1>2, <1>5
<1>6. CASE p \in y.pghead \cup y.loose
  <2>1. y.pglast \in 1..MaxTxn /\ y.pglast # y.txnid
    BY <1>1, <1>6
  <2>2. R[y.pglast] = y.pghead \cup y.loose
    BY <1>2, <2>1
  <2> QED BY <1>6, <2>1, <2>2
<1>7. CASE \E t \in 1..MaxTxn : t > y.pglast /\ p \in y.recs[t]
  <2>1. PICK t \in 1..MaxTxn : t > y.pglast /\ p \in y.recs[t]
    BY <1>7
  <2>2. t # y.txnid
    BY <2>1
  <2> QED BY <1>2, <2>1, <2>2
<1> QED BY <1>4, <1>5, <1>6, <1>7 DEF Kept

\* Moving the loose pages (mdb_freelist_save) loses none.
LEMMA LooseCover ==
    ASSUME NEW x \in WriterTxns, WorkCover(x)
    PROVE  /\ WorkCover(LooseToFree(x))
           /\ LooseToFree(x).pglast = 0 => LooseToFree(x).loose = {}
<1> DEFINE z == [x EXCEPT !.free = @ \cup x.loose, !.dirty = @ \ x.loose, !.loose = {}]
<1>1. /\ z.pghead = x.pghead /\ z.pglast = x.pglast /\ z.next = x.next
      /\ z.recs = x.recs /\ z.pg = x.pg /\ z.loose = {} /\ z.free = x.free \cup x.loose
  BY DEF WriterTxns
<1>2. IF x.pglast # 0 THEN LooseToFree(x) = x ELSE LooseToFree(x) = z
  BY DEF LooseToFree
<1> HIDE DEF z
<1>3. WorkCover(z)
  BY <1>1 DEF WorkCover, Kept
<1> QED BY <1>1, <1>2, <1>3

\* mdb_freelist_save as a whole.
LEMMA SaveLeak ==
    ASSUME CoreInv, CommitSave, WorkCover(w)
    PROVE  SnapCover(w'.pg, w'.recs, w'.next - 1) /\ w'.pc = "saved"
<1> DEFINE x == LooseToFree(w)
<1>1. w.pc = "open"
  BY DEF CommitSave
<1>2. /\ TypeOK /\ w \in WriterTxns /\ w.txnid = mti + 1 /\ GoodMeta(Prev) /\ mti \in Nat
      /\ Prev.txnid = mti /\ WorkInv(w, Prev) /\ Top = Prev
      /\ Oldest(x) \in Nat /\ Oldest(x) <= Prev.txnid
  BY <1>1, OpenFact
<1>3. /\ x \in WriterTxns /\ WorkInv(x, Prev) /\ x.txnid = w.txnid
      /\ WorkCover(x) /\ (x.pglast = 0 => x.loose = {})
  BY <1>2, LooseWork, LooseToFreeType, LooseCover
<1>4. w.txnid \in 1..MaxTxn
  BY <1>2, WriterFields, BoundsAssumption DEF Txnids
<1>5. Prev.dbs.recs[w.txnid] = {}
  BY <1>2, <1>4 DEF CoreInv, TopInv
<1>6. CASE x.pglast = 0 /\ x.free = {}
  <2>1. w' = [x EXCEPT !.pc = "saved"]
    BY <1>6 DEF CommitSave
  <2> HIDE DEF x
  <2>2. w'.next = x.next /\ w'.recs = x.recs /\ w'.pg = x.pg /\ w'.pc = "saved"
    BY <1>3, <2>1 DEF WriterTxns
  <2>3. x.pghead = {} /\ x.loose = {} /\ x.next \in Nat
    BY <1>3, <1>6, WriterFields, BoundsAssumption DEF WorkInv, NumMetas
  <2>4. ASSUME NEW p \in Pages, p <= x.next - 1
        PROVE  p \in DOMAIN x.pg \/ \E t \in 1..MaxTxn : p \in x.recs[t]
    <3>1. p < x.next
      BY <2>3, <2>4, BoundsAssumption DEF Pages, NumMetas
    <3> QED BY <1>3, <1>6, <2>3, <3>1 DEF WorkCover, Kept
  <2> QED BY <2>2, <2>4 DEF SnapCover
<1>7. CASE ~(x.pglast = 0 /\ x.free = {})
  <2> DEFINE Y(a) == [a.txn EXCEPT
                        !.pg = With(Without(@, {x.fdb}), a.page, w.stamp),
                        !.free = @ \cup ({x.fdb} \ {NoPage}),
                        !.fdb = a.page]
  <2>1. PICK a \in Alloc(x) :
          w' = [Y(a) EXCEPT !.recs = SavedRecords(Y(a)), !.pc = "saved"]
    BY <1>7 DEF CommitSave
  <2> DEFINE n == a.page
             z == a.txn
             T == {x.fdb} \ {NoPage}
             g == With(Without(z.pg, {x.fdb}), n, w.stamp)
             y == [z EXCEPT !.pg = g, !.free = @ \cup T, !.fdb = n]
  <2>2. w' = [y EXCEPT !.recs = SavedRecords(y), !.pc = "saved"]
    BY <2>1
  <2>3. DOMAIN g = (DOMAIN z.pg \ {x.fdb}) \cup {n}
    BY DEF With, Without
  <2> HIDE DEF x, n, z
  <2>4. /\ n \in Pages /\ z \in WriterTxns /\ WorkInv(z, Prev)
        /\ z.txnid = x.txnid /\ z.fdb = x.fdb
        /\ \A p \in Pages : p < z.next => p = n \/ Kept(z, p)
        /\ z.pglast = 0 => x.pglast = 0
        /\ z.loose \subseteq x.loose
    BY <1>2, <1>3, AllocWork, AllocType, AllocCover DEF n, z
  <2>5. /\ z.pg \in PageMaps /\ z.free \cup T \in SUBSET Pages /\ w.stamp \in Stamps
        /\ NoPage \notin DOMAIN z.pg
    <3>1. NoPage \notin Pages
      BY DEF Pages, NoPage, NumMetas
    <3>2. z.fdb \in Pages \cup {NoPage} /\ z.pg \in PageMaps /\ z.free \in SUBSET Pages
          /\ w.stamp \in Stamps
      BY <1>2, <2>4, WriterFields
    <3> QED BY <2>4, <3>1, <3>2, PageMapFact
  <2>6. DOMAIN z.pg \ {x.fdb} = DOMAIN z.pg \ T
    BY <2>5
  <2>7. g \in PageMaps
    <3>1. Without(z.pg, {x.fdb}) \in PageMaps
      BY <2>5, WithoutFact
    <3> QED BY <2>4, <2>5, <3>1, WithFact
  <2> HIDE DEF g
  <2>8. y \in WriterTxns
    BY <2>4, <2>5, <2>7, WriterUpdate
  <2>9. /\ y.pg = g /\ y.next = z.next /\ y.recs = z.recs /\ y.pglast = z.pglast
        /\ y.pghead = z.pghead /\ y.loose = z.loose
        /\ y.free = z.free \cup T /\ y.txnid = z.txnid
    BY <2>4 DEF WriterTxns
  <2> HIDE DEF y
  <2>10. WorkCover(y)
    <3>1. DOMAIN y.pg = (DOMAIN z.pg \ T) \cup {n}
      BY <2>3, <2>6, <2>9
    <3> HIDE DEF T
    <3> QED BY <2>4, <2>9, <3>1, TouchCover
  <2>11. /\ y.txnid = w.txnid /\ y.recs[w.txnid] = {}
    BY <1>3, <1>5, <2>4, <2>9 DEF WorkInv
  <2>12. y.pglast < y.txnid
    <3>1. y.pglast \in Nat
      BY <2>8, WriterFields, BoundsAssumption DEF Txnids
    <3>2. y.pglast = 0 \/ y.pglast < mti
      BY <1>2, <2>4, <2>9 DEF WorkInv
    <3> QED BY <1>2, <2>11, <3>1, <3>2
  <2>13. y.pglast = 0 => y.pghead = {} /\ y.loose = {}
    BY <1>3, <2>4, <2>9 DEF WorkInv
  <2>14. w'.next = y.next /\ w'.recs = SavedRecords(y) /\ w'.pg = y.pg /\ w'.pc = "saved"
    BY <2>2, <2>8 DEF WriterTxns
  <2>15. SnapCover(y.pg, SavedRecords(y), y.next - 1)
    BY <1>4, <2>8, <2>10, <2>11, <2>12, <2>13, SaveCover
  <2> QED BY <2>14, <2>15
<1> QED BY <1>6, <1>7

\* A step that leaves the meta pages and mti_txnid alone.
LEMMA LeakFrame ==
    ASSUME LeakInv, mti' = mti, metas' = metas,
           \/ w' = w \/ w'.pc \in {"idle", "written"}
           \/ w'.pc = "open" /\ WorkCover(w')
           \/ w'.pc \notin {"open"} /\ SnapCover(w'.pg, w'.recs, w'.next - 1)
    PROVE  LeakInv'
<1>1. Top' = Top
  BY MetaFrame
<1> QED BY <1>1 DEF LeakInv

\* The initial states satisfy LeakInv: there is no page but the meta pages.
LEMMA LeakInit == Init => LeakInv
<1> SUFFICES ASSUME Init PROVE LeakInv
  OBVIOUS
<1>1. /\ mti = 0 /\ w = IdleWriter
      /\ \A i \in 0..1 : metas[i] = [txnid |-> 0, last |-> NumMetas - 1, dbs |-> EmptySnapshot]
  BY DEF Init
<1>2. mti % 2 \in 0..1 /\ 1 - (mti % 2) \in 0..1
  BY <1>1, ParityFact
<1>3. Top.last = NumMetas - 1
  BY <1>1, <1>2 DEF Prev, Other, Top
<1>4. \A p \in Pages : ~(p <= NumMetas - 1)
  BY BoundsAssumption DEF Pages, NumMetas
<1> QED BY <1>1, <1>3, <1>4, IdleFact DEF LeakInv, SnapCover

\* The rest of the commit (mdb_page_flush, mdb_env_sync, mdb_env_write_meta).
LEMMA CommitLeak ==
    ASSUME CoreInv, LeakInv,
           CommitFlush \/ CommitSync \/ CommitMetaDbs \/ CommitMetaTail \/ CommitPublish
    PROVE  LeakInv'
<1>1. CASE CommitFlush \/ CommitSync
  <2>1. /\ w.pc \in {"saved", "flushed"} /\ mti' = mti /\ metas' = metas
        /\ w' = [w EXCEPT !.pc = "flushed"] \/ w' = [w EXCEPT !.pc = "synced"]
    BY <1>1 DEF CommitFlush, CommitSync
  <2>2. w \in WriterTxns
    BY DEF CoreInv, TypeOK
  <2>3. /\ w'.pg = w.pg /\ w'.recs = w.recs /\ w'.next = w.next
        /\ w'.pc \in {"flushed", "synced"}
    BY <2>1, <2>2 DEF WriterTxns
  <2> QED BY <2>1, <2>3, LeakFrame DEF LeakInv
<1>2. CASE CommitMetaDbs
  BY <1>2, MetaDbsFact DEF LeakInv
<1>3. CASE CommitMetaTail
  <2>1. /\ Top'.dbs = NewDbs(w) /\ Top'.last = w.next - 1 /\ w'.pc = "written"
        /\ w.pc = "dbs"
    BY <1>3, MetaTailFact
  <2>2. Top'.dbs.pg = w.pg /\ Top'.dbs.recs = w.recs
    BY <2>1 DEF NewDbs
  <2> QED BY <2>1, <2>2 DEF LeakInv
<1>4. CASE CommitPublish
  BY <1>4, PublishFact, IdleFact DEF LeakInv
<1> QED BY <1>1, <1>2, <1>3, <1>4

\* A write transaction begins (mdb_txn_renew0) from the current snapshot.
LEMMA BeginLeak ==
    ASSUME CoreInv, LeakInv, WriterBegin
    PROVE  LeakInv'
<1>1. Top.last \in Nat
  BY PrevType, MetaFields DEF CoreInv
<1>2. /\ Top' = Top /\ w'.pc = "open" /\ w'.pg = Top.dbs.pg /\ w'.recs = Top.dbs.recs
      /\ w'.next = Top.last + 1 /\ w'.pglast = 0
  BY BeginFact
<1>3. WorkCover(w')
  <2>1. SUFFICES ASSUME NEW p \in Pages, p < w'.next PROVE Kept(w', p)
    BY DEF WorkCover
  <2>2. p <= Top.last
    BY <1>1, <1>2, <2>1, BoundsAssumption DEF Pages, NumMetas
  <2>3. p \in DOMAIN Top.dbs.pg \/ \E t \in 1..MaxTxn : p \in Top.dbs.recs[t]
    BY <2>2 DEF LeakInv, SnapCover
  <2>4. \A t \in 1..MaxTxn : t > 0
    BY BoundsAssumption
  <2> QED BY <1>2, <2>3, <2>4 DEF Kept
<1> QED BY <1>2, <1>3 DEF LeakInv

\* Every step but a power loss preserves LeakInv.
LEMMA LeakStep ==
    ASSUME CoreInv, LeakInv, [Next]_vars, ~PowerLoss
    PROVE  LeakInv'
<1>1. CASE CommitMetaFails
  <2>1. mti' = mti /\ metas' = metas /\ w' = IdleWriter
    BY <1>1 DEF CommitMetaFails, EndWriter
  <2> QED BY <2>1, LeakFrame, IdleFact
<1>2. ASSUME NEW r \in Readers, ReaderStep(r) PROVE LeakInv'
  <2>1. mti' = mti /\ metas' = metas /\ w' = w
    BY <1>2 DEF ReaderStep, ReaderLoad, ReaderStore, ReaderVerify, ReaderCopyDbs,
                ReaderCopyNext, ReaderEnd, ReaderUnchanged, store
  <2> QED BY <2>1, LeakFrame
<1>3. CASE \/ WriterAbort \/ CommitNothing \/ CommitSaveFails
           \/ CommitFlushFails \/ CommitSyncFails
  <2>1. mti' = mti /\ metas' = metas /\ w' = IdleWriter
    BY <1>3 DEF WriterAbort, CommitNothing, CommitSaveFails, CommitFlushFails,
                CommitSyncFails, EndWriter, WriterUnchanged, store
  <2> QED BY <2>1, LeakFrame, IdleFact
<1>4. CASE \/ PageNew \/ AllocFails
           \/ \E p \in Pages : PageTouch(p) \/ PageLoose(p) \/ OvpageFree(p) \/ DropPage(p)
  <2>1. w.pc = "open" /\ WriterUnchanged
    BY <1>4 DEF PageNew, AllocFails, PageTouch, PageLoose, OvpageFree, DropPage
  <2>2. WorkCover(w') /\ w'.pc = "open"
    BY <1>4, <2>1, WorkLeak DEF LeakInv
  <2> QED BY <2>1, <2>2, LeakFrame DEF WriterUnchanged, store
<1>5. CASE CommitSave
  <2>1. w.pc = "open" /\ WriterUnchanged
    BY <1>5 DEF CommitSave
  <2>2. SnapCover(w'.pg, w'.recs, w'.next - 1) /\ w'.pc = "saved"
    BY <1>5, <2>1, SaveLeak DEF LeakInv
  <2> QED BY <2>1, <2>2, LeakFrame DEF WriterUnchanged, store
<1>6. CASE CommitFlush \/ CommitSync \/ CommitMetaDbs \/ CommitMetaTail \/ CommitPublish
  BY <1>6, CommitLeak
<1>7. CASE WriterStep
  BY <1>1, <1>3, <1>4, <1>5, <1>6, <1>7, BeginLeak DEF WriterStep, CommitStep
<1>8. CASE WriterDies \/ FatalShutdown \/ UNCHANGED vars
  <2>1. mti' = mti /\ metas' = metas /\ (w' = w \/ w' = IdleWriter)
    BY <1>8 DEF WriterDies, FatalShutdown, vars, store
  <2> QED BY <2>1, LeakFrame, IdleFact
<1> QED BY <1>2, <1>7, <1>8 DEF Next

-----------------------------------------------------------------------------
(***************************************************************************)
(* Power loss: DiskInv.                                                    *)
(***************************************************************************)

\* Whole speaks of the pages of its file that the snapshot has, and no other.
LEMMA WholeFrame ==
    ASSUME NEW m, NEW f, NEW g, Whole(m, f), \A p \in DOMAIN m.dbs.pg : g[p] = f[p]
    PROVE  Whole(m, g)
BY DEF Whole, Readable

\* A step that changes neither the meta pages nor the files.
LEMMA DiskFrame ==
    ASSUME DiskInv, mti' = mti, metas' = metas, dmetas' = dmetas, file' = file,
           disk' = disk, w' = w \/ w'.pc \notin {"synced", "dbs", "written"}
    PROVE  DiskInv'
<1>1. /\ Prev' = Prev /\ Other' = Other /\ Top' = Top
      /\ DPrev' = DPrev /\ DOther' = DOther
  BY MetaFrame DEF DPrev, DOther
<1> QED BY <1>1 DEF DiskInv, Level, Behind

\* The steps up to the sync write only pages that no snapshot on the disk
\* needs, not even the one a power loss may fall back to.
LEMMA DiskLocal ==
    ASSUME CoreInv, LeakInv, DiskInv, TypeOK', LocalOps
    PROVE  DiskInv'
<1>1. WriterLocal
  BY OpsLocal
<1>2. /\ Prev' = Prev /\ Other' = Other /\ Top' = Top /\ Top = Prev
      /\ Other.txnid # mti + 1 /\ mti' = mti /\ metas' = metas
      /\ mti \in Nat /\ GoodMeta(Prev) /\ w.pglast \in Nat
      /\ Prev \in Metas /\ Other \in Metas /\ MaxTxn \in Nat
  BY <1>1, LocalFact, PrevType, BoundsAssumption DEF WriterLocal, CoreInv
<1>3. \A p \in Pages : ~Fresh(w, Prev, p) => file'[p] = file[p]
  BY <1>1 DEF WriterLocal
<1>4. \A p \in DOMAIN Prev.dbs.pg : p \in Pages /\ ~Fresh(w, Prev, p)
  BY <1>2, FreshUnused, MetaFields, PageMapFact
<1>5. Whole(Prev, file) /\ Whole(Prev, disk) /\ Whole(Prev, file')
  <2>1. Whole(Prev, file) /\ Whole(Prev, disk)
    BY DEF DiskInv
  <2>2. \A p \in DOMAIN Prev.dbs.pg : file'[p] = file[p]
    BY <1>3, <1>4
  <2> QED BY <2>1, <2>2, WholeFrame
<1>6. CASE CommitSync
  <2>1. /\ disk' = file /\ dmetas' = metas /\ file' = file /\ w' = [w EXCEPT !.pc = "synced"]
        /\ w.pc = "flushed"
    BY <1>6 DEF CommitSync
  <2>2. w'.pg = w.pg /\ w'.pc = "synced"
    BY <2>1 DEF CoreInv, TypeOK, WriterTxns
  <2>3. DPrev' = Prev /\ DOther' = Other
    BY <1>2, <2>1 DEF DPrev, DOther, Prev, Other
  <2>4. Older(Other, mti)
    BY <1>2 DEF CoreInv, MetaInv, Older
  <2>5. Level'
    BY <1>2, <2>3, <2>4 DEF Level, Older
  <2>6. \A p \in DOMAIN w.pg : file[p] = w.pg[p]
    BY <2>1 DEF CoreInv, WriterInv
  <2> QED BY <1>2, <1>5, <2>1, <2>2, <2>5, <2>6 DEF DiskInv
<1>7. CASE ~CommitSync
  <2>1. disk' = disk /\ dmetas' = dmetas /\ w'.pc \notin {"synced", "dbs", "written"}
    <3>1. disk' = disk /\ dmetas' = dmetas
      BY <1>7 DEF LocalOps, WriterUnchanged, store, PageNew, AllocFails, PageTouch,
         PageLoose, OvpageFree, DropPage, CommitSave, CommitFlush, WriterAbort,
         CommitNothing, CommitSaveFails, CommitFlushFails, CommitSyncFails
    <3>2. w'.pc # "synced"
      <4>1. CASE \/ PageNew \/ AllocFails
                 \/ \E p \in Pages : PageTouch(p) \/ PageLoose(p) \/ OvpageFree(p) \/ DropPage(p)
        <5>1. w.pc = "open"
          BY <4>1 DEF PageNew, AllocFails, PageTouch, PageLoose, OvpageFree, DropPage
        <5>2. w'.pc = "open"
          BY <4>1, <5>1, WorkLeak DEF LeakInv
        <5> QED BY <5>2
      <4>2. CASE CommitSave
        <5>1. w.pc = "open"
          BY <4>2 DEF CommitSave
        <5>2. w'.pc = "saved"
          BY <4>2, <5>1, SaveLeak DEF LeakInv
        <5> QED BY <5>2
      <4>3. CASE CommitFlush
        BY <4>3 DEF CommitFlush, CoreInv, TypeOK, WriterTxns
      <4>4. CASE \/ WriterAbort \/ CommitNothing \/ CommitSaveFails
                 \/ CommitFlushFails \/ CommitSyncFails
        BY <4>4, IdleFact DEF WriterAbort, CommitNothing, CommitSaveFails,
           CommitFlushFails, CommitSyncFails, EndWriter
      <4> QED BY <1>7, <4>1, <4>2, <4>3, <4>4 DEF LocalOps
    <3> QED BY <1>1, <3>1, <3>2 DEF WriterLocal
  <2>2. DPrev' = DPrev /\ DOther' = DOther
    BY <1>2, <2>1 DEF DPrev, DOther
  <2>3. CASE Level
    <3>1. Level'
      BY <1>2, <2>2, <2>3 DEF Level, Older
    <3> QED BY <1>2, <1>5, <2>1, <3>1 DEF DiskInv
  <2>4. CASE Behind
    <3>1. ASSUME NEW p \in DOMAIN Other.dbs.pg PROVE file'[p] = file[p]
      <4>1. p \in Pages
        BY <1>2, MetaFields, PageMapFact
      <4>2. Prev.last \in Nat /\ p \in Nat
        BY <1>2, <4>1, MetaFields, BoundsAssumption DEF Pages, NumMetas
      <4>3. /\ p <= Prev.last
            /\ \A t \in 1..MaxTxn : t <= mti - 1 => p \notin Prev.dbs.recs[t]
        BY <2>4 DEF Behind, KeptBy
      <4>4. w.pglast = 0 \/ w.pglast < mti
        BY DEF CoreInv, MetaInv
      <4>5. \A t \in 1..MaxTxn : t <= w.pglast => t <= mti - 1
        BY <1>2, <4>4
      <4>6. ~Fresh(w, Prev, p)
        BY <4>2, <4>3, <4>5 DEF Fresh
      <4> QED BY <1>3, <4>1, <4>6
    <3>2. Whole(Other, file')
      BY <2>4, <3>1, WholeFrame DEF Behind
    <3>3. Behind'
      BY <1>2, <2>1, <2>2, <2>4, <3>2 DEF Behind, Older, KeptBy, Whole
    <3> QED BY <1>2, <1>5, <2>1, <3>3 DEF DiskInv
  <2> QED BY <2>3, <2>4 DEF DiskInv
<1> QED BY <1>6, <1>7

\* The write of mm_dbs (mdb_env_write_meta): both meta pages that a power
\* loss can bring back are still the old ones or not chosen.
LEMMA DiskMetaDbs ==
    ASSUME CoreInv, DiskInv, CommitMetaDbs
    PROVE  DiskInv'
<1>1. /\ w.pc = "synced" /\ mti' = mti /\ file' = file /\ Prev' = Prev /\ Top' = Top
      /\ Other'.txnid = Other.txnid /\ w'.pg = w.pg
  BY MetaDbsFact
<1>2. disk' = disk /\ dmetas' = dmetas
  BY DEF CommitMetaDbs
<1>3. Other.txnid # mti + 1
  BY <1>1, CommitFact
<1>4. DPrev' = DPrev /\ DOther' = DOther
  BY <1>1, <1>2 DEF DPrev, DOther
<1>5. DPrev = Prev /\ Older(DOther, mti)
  BY <1>1, <1>3 DEF DiskInv, Level, Behind
<1>6. Level'
  BY <1>1, <1>3, <1>4, <1>5 DEF Level, Older
<1> QED BY <1>1, <1>2, <1>6 DEF DiskInv

\* The completed write of the meta page: its snapshot was synced before, and
\* overwrites nothing of the one before.
LEMMA DiskMetaTail ==
    ASSUME CoreInv, LeakInv, DiskInv, CommitMetaTail
    PROVE  DiskInv'
<1>1. /\ w.pc = "dbs" /\ mti' = mti /\ file' = file /\ Prev' = Prev /\ Top' = Other'
      /\ Other'.dbs = NewDbs(w) /\ Other'.txnid = mti + 1 /\ Other'.last = w.next - 1
      /\ w'.pc = "written"
  BY MetaTailFact
<1>2. /\ w.txnid = mti + 1 /\ mti \in Nat /\ GoodMeta(Prev) /\ CommitInv(w, Prev)
      /\ Prev.txnid = mti /\ Other.txnid # mti + 1 /\ w \in WriterTxns /\ TypeOK
  BY <1>1, CommitFact
<1>3. /\ NewDbs(w).pg = w.pg /\ NewDbs(w).fdb = w.fdb /\ NewDbs(w).recs = w.recs
      /\ NewDbs(w).of = mti + 1
  BY <1>2 DEF NewDbs
<1>4. /\ disk' = disk
      /\ dmetas' = IF NoMetaSync THEN dmetas ELSE [dmetas EXCEPT ![Toggle] = metas'[Toggle]]
  BY DEF CommitMetaTail
<1>5. Toggle = 1 - (mti % 2) /\ mti % 2 \in 0..1 /\ Toggle \in 0..1 /\ Toggle # mti % 2
  BY <1>2, ParityFact DEF Toggle
<1>6. /\ DPrev' = DPrev
      /\ DOther' = IF NoMetaSync THEN DOther ELSE Other'
  BY <1>1, <1>2, <1>4, <1>5 DEF TypeOK, DPrev, DOther, Other
<1>7. DPrev = Prev /\ Older(DOther, mti)
  BY <1>1, <1>2 DEF DiskInv, Level, Behind
<1>8. \A f \in {file, disk} : Whole(Other', f)
  <2>1. SnapInv(w.pg, w.fdb, w.recs, w.next - 1)
        /\ \A t \in 1..MaxTxn : t > mti + 1 => w.recs[t] = {}
    BY <1>2 DEF CommitInv
  <2>2. SnapCover(w.pg, w.recs, w.next - 1)
    BY <1>1 DEF LeakInv
  <2>3. \A f \in {file, disk} : \A p \in DOMAIN w.pg : f[p] = w.pg[p]
    BY <1>1 DEF CoreInv, WriterInv, DiskInv
  <2> QED BY <1>1, <1>3, <2>1, <2>2, <2>3 DEF Whole, Readable
<1>9. KeptBy(Prev, Other')
  <2>1. SUFFICES ASSUME NEW p \in DOMAIN Prev.dbs.pg
                 PROVE  /\ p <= w.next - 1
                        /\ \A t \in 1..MaxTxn : t <= mti => p \notin w.recs[t]
    <3>1. \/ Prev.dbs.of = mti
      BY DEF CoreInv, TopInv
    <3> QED BY <1>1, <1>2, <1>3, <3>1 DEF KeptBy
  <2>2. p \in Nat /\ Prev.last \in Nat /\ w.next \in Nat
    BY <1>2, MetaFields, PageMapFact, WriterFields, BoundsAssumption
    DEF GoodMeta, Pages, NumMetas
  <2>3. p <= Prev.last /\ \A t \in 1..MaxTxn : p \notin Prev.dbs.recs[t]
    BY <1>2 DEF GoodMeta, SnapInv
  <2>4. ~Fresh(w, Prev, p)
    BY <1>2, FreshUnused
  <2>5. w.next > Prev.last
    BY <1>2 DEF CommitInv
  <2>6. \A t \in 1..MaxTxn : t <= mti => p \notin w.recs[t]
    BY <1>2, <2>3, <2>4 DEF CommitInv
  <2> QED BY <2>2, <2>3, <2>5, <2>6
<1>10. Level'
  BY <1>1, <1>6, <1>7, <1>9 DEF Level, Older, KeptBy
<1>11. \A f \in {file, disk} : Whole(Prev, f)
  BY DEF DiskInv
<1> QED BY <1>1, <1>4, <1>8, <1>10, <1>11 DEF DiskInv

\* The publication of a meta page that was written: by the writer itself, or,
\* when it died before, by the one that takes its mutex.
LEMMA DiskSwap ==
    ASSUME CoreInv, DiskInv, Other.txnid = mti + 1, mti' = mti + 1, metas' = metas,
           dmetas' = dmetas, file' = file, disk' = disk, w'.pc \in {"idle", "open"},
           Prev' = Other, Other' = Prev, Top' = Other, Top = Other
    PROVE  DiskInv'
<1>1. mti \in Nat /\ Prev.txnid = mti
  BY PrevType DEF CoreInv, MetaInv
<1>2. mti' % 2 = 1 - (mti % 2) /\ 1 - (mti' % 2) = mti % 2
  BY <1>1, ParityFact
<1>3. DPrev' = DOther /\ DOther' = DPrev
  BY <1>2 DEF DPrev, DOther
<1>4. Level
  <2>1. Other.txnid # mti - 1
    BY <1>1
  <2> QED BY <2>1 DEF DiskInv, Behind
<1>5. \A f \in {file, disk} : Whole(Prev, f) /\ Whole(Other, f)
  BY DEF DiskInv
<1>6. CASE DOther = Other
  <2>1. DPrev' = Prev' /\ Older(DOther', mti') /\ Other'.txnid # mti' + 1
    BY <1>1, <1>3, <1>4, <1>6 DEF Level, Older
  <2>2. Level'
    BY <2>1 DEF Level, Older
  <2> QED BY <1>5, <2>2 DEF DiskInv
<1>7. CASE DOther # Other
  <2>1. NoMetaSync /\ DPrev = Prev /\ Older(DOther, mti) /\ KeptBy(Prev, Other)
    BY <1>4, <1>7 DEF Level
  <2>2. mti' > 0 /\ Other'.txnid = mti' - 1 /\ mti' - 1 = mti
    BY <1>1
  <2>3. Behind'
    BY <1>3, <1>5, <2>1, <2>2 DEF Behind, Older, KeptBy, Whole
  <2> QED BY <1>5, <2>3 DEF DiskInv
<1> QED BY <1>6, <1>7

\* Every step but a power loss preserves DiskInv.
LEMMA DiskStep ==
    ASSUME TypeInv, CoreInv, LeakInv, DiskInv, ~MetaMayPersist, [Next]_vars, ~PowerLoss
    PROVE  DiskInv'
<1>1. TypeOK'
  BY TypeStep DEF TypeInv
<1>2. ASSUME NEW r \in Readers, ReaderStep(r) PROVE DiskInv'
  <2>1. /\ mti' = mti /\ metas' = metas /\ dmetas' = dmetas /\ file' = file /\ disk' = disk
        /\ w' = w
    BY <1>2 DEF ReaderStep, ReaderLoad, ReaderStore, ReaderVerify, ReaderCopyDbs,
                ReaderCopyNext, ReaderEnd, ReaderUnchanged, store
  <2> QED BY <2>1, DiskFrame
<1>3. CASE CommitMetaFails \/ WriterDies \/ FatalShutdown \/ UNCHANGED vars
  <2>1. /\ mti' = mti /\ metas' = metas /\ dmetas' = dmetas /\ file' = file /\ disk' = disk
        /\ w' = w \/ w' = IdleWriter
    BY <1>3 DEF MetaMayPersist, CommitMetaFails, EndWriter, WriterDies, FatalShutdown, vars, store
  <2> QED BY <2>1, DiskFrame, IdleFact
<1>4. CASE CommitPublish
  <2>1. dmetas' = dmetas /\ disk' = disk
    BY <1>4 DEF CommitPublish, store
  <2> QED BY <1>4, <2>1, PublishFact, IdleFact, DiskSwap
<1>5. CASE WriterBegin
  <2>1. dmetas' = dmetas /\ disk' = disk
    BY <1>5 DEF WriterBegin, store
  <2>2. /\ metas' = metas /\ file' = file /\ Top' = Top /\ w'.pc = "open"
    BY <1>5, BeginFact
  <2>3. CASE mti' = mti
    BY <2>1, <2>2, <2>3, DiskFrame
  <2>4. CASE mti' # mti
    <3>1. mti' = mti + 1 /\ Prev' = Other /\ Other' = Prev /\ Top = Other
          /\ Other.txnid = mti + 1
      BY <1>5, <2>4, BeginFact
    <3> QED BY <2>1, <2>2, <3>1, DiskSwap
  <2> QED BY <2>3, <2>4
<1>6. CASE LocalOps
  BY <1>1, <1>6, DiskLocal
<1>7. CASE WriterStep
  BY <1>3, <1>4, <1>5, <1>6, <1>7, DiskMetaDbs, DiskMetaTail
  DEF WriterStep, CommitStep, LocalOps
<1> QED BY <1>2, <1>3, <1>7 DEF Next

\* What a power loss leaves in the file of a snapshot that was whole in the
\* file and on the disk.
LEMMA WholeAfter ==
    ASSUME PowerLoss, NEW m \in Metas, Whole(m, file), Whole(m, disk)
    PROVE  Whole(m, file')
<1>1. \A p \in Pages : file'[p] \in {file[p], disk[p]}
  BY DEF PowerLoss
<1>2. DOMAIN m.dbs.pg \subseteq Pages
  BY MetaFields, PageMapFact
<1>3. Readable(m.dbs, file')
  BY <1>1, <1>2 DEF Whole, Readable
<1> QED BY <1>3 DEF Whole

\* The newest meta page after a power loss: the last published one, the one
\* written after it, or, with MDB_NOMETASYNC, the one published before it.
LEMMA Survivor ==
    ASSUME CoreInv, DiskInv, PowerLoss
    PROVE  \E k \in 0..1 :
              /\ metas'[k].txnid % 2 = k
              /\ Older(metas'[1 - k], metas'[k].txnid)
              /\ Whole(metas'[k], file')
              /\ \/ metas'[k].txnid = mti /\ k = mti % 2 /\ metas'[k] = metas[k]
                 \/ metas'[k].txnid = mti + 1
                 \/ NoMetaSync /\ metas'[k].txnid = mti - 1
<1> DEFINE a == mti % 2
           b == 1 - (mti % 2)
<1>1. /\ mti \in Nat /\ a \in 0..1 /\ b \in 0..1 /\ 1 - b = a
      /\ Prev \in Metas /\ Other \in Metas /\ Prev.txnid = mti
      /\ (mti + 1) % 2 = b
  BY PrevType, ParityFact DEF CoreInv, MetaInv
<1>2. \A i \in 0..1 : metas'[i] \in {metas[i], dmetas[i]}
  BY DEF PowerLoss
<1>3. metas'[a] \in {Prev, DPrev} /\ metas'[b] \in {Other, DOther} /\ metas[a] = Prev
  BY <1>1, <1>2 DEF Prev, Other, DPrev, DOther
<1> HIDE DEF a, b
<1>4. Whole(Prev, file')
  BY <1>1, WholeAfter DEF DiskInv
<1>5. CASE Level
  <2>1. metas'[a] = Prev
    BY <1>3, <1>5 DEF Level
  <2>2. CASE metas'[b] = Other /\ Other.txnid = mti + 1
    <3>1. Top = Other
      BY <2>2 DEF Top
    <3>2. Whole(Other, file')
      BY <1>1, <3>1, WholeAfter DEF DiskInv
    <3>3. Older(Prev, mti + 1)
      BY <1>1 DEF Older
    <3> QED BY <1>1, <2>1, <2>2, <3>2, <3>3
  <2>3. CASE ~(metas'[b] = Other /\ Other.txnid = mti + 1)
    <3>1. Older(metas'[b], mti)
      BY <1>3, <1>5, <2>3 DEF Level, Older, CoreInv, MetaInv
    <3>2. 1 - a = b
      BY DEF a, b
    <3> QED BY <1>1, <1>3, <1>4, <2>1, <3>1, <3>2 DEF a
  <2> QED BY <2>2, <2>3
<1>6. CASE Behind
  <2>1. /\ NoMetaSync /\ mti > 0 /\ metas'[b] = Other /\ Other.txnid = mti - 1
        /\ Older(DPrev, mti - 1) /\ Whole(Other, file')
    BY <1>1, <1>3, <1>6, WholeAfter DEF Behind
  <2>2. (mti - 1) % 2 = b
    BY <1>1, <2>1 DEF b
  <2>3. CASE metas'[a] = Prev
    <3>1. Older(Other, mti) /\ 1 - a = b
      BY <1>1, <2>1 DEF Older, a, b
    <3> QED BY <1>1, <1>3, <1>4, <2>1, <2>3, <3>1 DEF a
  <2>4. CASE metas'[a] = DPrev
    BY <1>1, <2>1, <2>2, <2>4
  <2> QED BY <1>3, <2>3, <2>4
<1> QED BY <1>5, <1>6 DEF DiskInv

\* A power loss leaves a whole snapshot, and the environment as after its
\* creation around it; at most the last commit is lost.
LEMMA PowerStep ==
    ASSUME TypeInv, CoreInv, DiskInv, PowerLoss
    PROVE  /\ CoreInv' /\ LeakInv' /\ DiskInv' /\ Top' = Prev'
           /\ metas'[mti % 2] = metas[mti % 2] \/ mti' # mti
           /\ mti' >= IF NoMetaSync THEN mti - 1 ELSE mti
<1>1. PICK k \in 0..1 :
              /\ metas'[k].txnid % 2 = k
              /\ Older(metas'[1 - k], metas'[k].txnid)
              /\ Whole(metas'[k], file')
              /\ \/ metas'[k].txnid = mti /\ k = mti % 2 /\ metas'[k] = metas[k]
                 \/ metas'[k].txnid = mti + 1
                 \/ NoMetaSync /\ metas'[k].txnid = mti - 1
  BY Survivor
<1>2. TypeOK'
  BY TypePowerLoss DEF TypeInv
<1>3. metas'[0].txnid \in Nat /\ metas'[1].txnid \in Nat /\ metas'[k].txnid \in Nat
      /\ metas'[1 - k].txnid \in Nat /\ mti \in Nat
  BY <1>2, MetaFields, BoundsAssumption DEF TypeOK, Txnids, CoreInv
<1>4. PickMeta(metas').txnid = metas'[k].txnid
  <2>1. CASE k = 0
    <3>1. ~(metas'[0].txnid < metas'[1].txnid)
      BY <1>1, <1>3, <2>1 DEF Older
    <3> QED BY <2>1, <3>1 DEF PickMeta
  <2>2. CASE k = 1
    <3>1. metas'[1].txnid # 0
      BY <1>1, <2>2
    <3>2. metas'[0].txnid < metas'[1].txnid
      BY <1>1, <1>3, <2>2, <3>1 DEF Older
    <3> QED BY <2>2, <3>2 DEF PickMeta
  <2> QED BY <2>1, <2>2
<1>5. /\ mti' = metas'[k].txnid /\ disk' = file' /\ dmetas' = metas' /\ w' = IdleWriter
      /\ pgoldest' = 0
  BY <1>4 DEF PowerLoss
<1>6. mti' % 2 = k /\ 1 - (mti' % 2) = 1 - k
  BY <1>1, <1>5
<1>7. /\ Prev' = metas'[k] /\ Other' = metas'[1 - k]
      /\ DPrev' = Prev' /\ DOther' = Other'
  BY <1>5, <1>6 DEF Prev, Other, DPrev, DOther
<1>8. /\ mti' \in Nat /\ Prev'.txnid = mti' /\ Older(Other', mti') /\ Whole(Prev', file')
      /\ Other'.txnid # mti' + 1
  BY <1>1, <1>3, <1>5, <1>7 DEF Older
<1>9. Top' = Prev'
  BY <1>8 DEF Top
<1>10. MetaInv'
  BY <1>5, <1>8, IdleFact DEF MetaInv, Older
<1>11. TopInv'
  BY <1>8, <1>9 DEF TopInv, Whole
<1>12. CoreInv'
  BY <1>2, <1>5, <1>10, <1>11, IdleFact DEF CoreInv, WriterInv
<1>13. LeakInv'
  BY <1>5, <1>8, <1>9, IdleFact DEF LeakInv, Whole
<1>14. DiskInv'
  <2>1. Level'
    BY <1>7, <1>8 DEF Level, Older
  <2> QED BY <1>5, <1>8, <1>9, <2>1, IdleFact DEF DiskInv
<1>15. /\ metas'[mti % 2] = metas[mti % 2] \/ mti' # mti
       /\ mti' >= IF NoMetaSync THEN mti - 1 ELSE mti
  BY <1>1, <1>3, <1>5
<1> QED BY <1>9, <1>12, <1>13, <1>14, <1>15

-----------------------------------------------------------------------------
(***************************************************************************)
(* CrashInv, and what it implies.                                          *)
(***************************************************************************)

\* The initial states satisfy it: nothing is written yet.
LEMMA CrashInit == Init => CrashInv
<1> SUFFICES ASSUME Init PROVE DiskInv
  BY CoreInit, LeakInit DEF CrashInv
<1>1. CoreInv /\ LeakInv
  BY CoreInit, LeakInit
<1>2. /\ mti = 0 /\ w = IdleWriter /\ dmetas = metas /\ disk = file
      /\ \A i \in 0..1 : metas[i] = [txnid |-> 0, last |-> NumMetas - 1, dbs |-> EmptySnapshot]
  BY DEF Init
<1>3. mti % 2 \in 0..1 /\ 1 - (mti % 2) \in 0..1
  BY <1>2, ParityFact
<1>4. Prev.txnid = 0 /\ Other.txnid = 0 /\ Top = Prev /\ DPrev = Prev /\ DOther = Other
  BY <1>2, <1>3 DEF Prev, Other, Top, DPrev, DOther
<1>5. Level
  BY <1>2, <1>4 DEF Level, Older
<1>6. Whole(Prev, file)
  BY <1>1, <1>4 DEF CoreInv, TopInv, LeakInv, Whole
<1> QED BY <1>2, <1>4, <1>5, <1>6, IdleFact DEF DiskInv

\* Every step preserves it.
LEMMA CrashStep ==
    ASSUME RecoverableFaults, TypeInv, CrashInv, [Next]_vars
    PROVE  CrashInv'
<1>1. CoreInv /\ LeakInv
  BY DEF CrashInv
<1>2. CASE PowerLoss
  <2>1. DiskInv
    BY <1>2 DEF CrashInv, RecoverableFaults, PowerLoss
  <2> QED BY <1>1, <1>2, <2>1, PowerStep DEF CrashInv
<1>3. CASE ~PowerLoss
  <2>1. CoreInv' /\ LeakInv'
    BY <1>1, <1>3, CoreStep, LeakStep
  <2>2. ~MetaMayPersist => DiskInv'
    BY <1>1, <1>3, DiskStep DEF CrashInv
  <2> QED BY <2>1, <2>2 DEF CrashInv
<1> QED BY <1>2, <1>3

\* Whatever fails, the current meta page describes a whole snapshot, and so
\* does every meta page that a power loss can make the current one.
THEOREM CrashHolds ==
    ASSUME RecoverableFaults
    PROVE  Spec => [](TypeInv /\ CrashInv)
<1>1. Init => TypeInv /\ CrashInv
  BY TypeInit, CrashInit
<1>2. TypeInv /\ CrashInv /\ [Next]_vars => (TypeInv /\ CrashInv)'
  BY TypeStep, CrashStep
<1> QED BY <1>1, <1>2, PTL DEF Spec

\* The snapshot that mdb_env_pick_meta chooses is whole in the file, also
\* after the death of a writer or a power loss at any point of its commit.
THEOREM CurrentReadableHolds ==
    ASSUME RecoverableFaults
    PROVE  Spec => []CurrentReadable
<1>1. CrashInv => CurrentReadable
  BY PickIsTop DEF CrashInv, CoreInv, TopInv, CurrentReadable
<1> QED BY <1>1, CrashHolds, PTL

\* "Each non-metapage up to #MDB_meta.mm_last_pg is reachable exactly once":
\* no page is lost or listed twice, whatever commits, aborts, fails or dies.
THEOREM NoPageLeakHolds ==
    ASSUME RecoverableFaults
    PROVE  Spec => []NoPageLeak
<1>1. CrashInv => NoPageLeak
  <2> SUFFICES ASSUME CoreInv, LeakInv PROVE ReachableOnce(Top)
    BY PickIsTop DEF NoPageLeak, CrashInv, CoreInv
  <2> DEFINE used == DOMAIN Top.dbs.pg
             free == FreePages(Top.dbs)
  <2>1. /\ SnapInv(Top.dbs.pg, Top.dbs.fdb, Top.dbs.recs, Top.last) /\ Top \in Metas
        /\ SnapCover(Top.dbs.pg, Top.dbs.recs, Top.last)
    BY PrevType DEF CoreInv, TopInv, LeakInv
  <2>2. /\ Top.last \in (NumMetas - 1)..(MaxPg - 1) /\ used \subseteq Pages
        /\ \A t \in 1..MaxTxn : Top.dbs.recs[t] \subseteq Pages
    BY <2>1, MetaFields, PageMapFact DEF Records, Metas
  <2>3. /\ \A p : p \in free <=> \E t \in 1..MaxTxn : p \in Top.dbs.recs[t]
        /\ free \subseteq Pages
    BY <2>2 DEF FreePages
  <2> HIDE DEF free, used
  <2>4. /\ \A p \in used : p <= Top.last /\ p \notin free
        /\ \A p \in free : p <= Top.last
        /\ \A p \in Pages : p <= Top.last => p \in used \/ p \in free
    BY <2>1, <2>3 DEF SnapInv, SnapCover, used
  <2>5. \A p : p \in Pages /\ p <= Top.last <=> p \in NumMetas..Top.last
    BY <2>2, BoundsAssumption DEF Pages, NumMetas
  <2>6. used \cup free = NumMetas..Top.last /\ used \cap free = {}
    BY <2>2, <2>3, <2>4, <2>5
  <2>7. \A t, u \in 1..MaxTxn : t # u => Top.dbs.recs[t] \cap Top.dbs.recs[u] = {}
    BY <2>1 DEF SnapInv
  <2> QED BY <2>6, <2>7 DEF ReachableOnce, used, free
<1> QED BY <1>1, CrashHolds, PTL

\* A step and the published id: only a power loss takes it back.
LEMMA PublishedStep ==
    ASSUME CoreInv, [Next]_vars, ~PowerLoss
    PROVE  mti' \in {mti, mti + 1} /\ mti \in Nat
<1>1. mti \in Nat
  BY PrevType DEF CoreInv
<1>2. CASE WriterBegin \/ CommitPublish
  BY <1>2, BeginFact, PublishFact
<1>3. CASE ~(WriterBegin \/ CommitPublish)
  <2>1. mti' = mti
    BY <1>3 DEF Next, vars, store, ReaderStep, ReaderLoad, ReaderStore,
     ReaderVerify, ReaderCopyDbs, ReaderCopyNext, ReaderEnd, ReaderUnchanged,
     WriterStep, WriterAbort, PageNew, AllocFails, PageTouch, PageLoose,
     OvpageFree, DropPage, WriterUnchanged, CommitStep, CommitNothing, CommitSave,
     CommitSaveFails, CommitFlush, CommitFlushFails, CommitSync, CommitSyncFails,
     CommitMetaDbs, CommitMetaTail, CommitMetaFails, WriterDies, FatalShutdown
  <2> QED BY <1>1, <2>1
<1> QED BY <1>2, <1>3

\* Once a commit has returned it survives everything, or with MDB_NOMETASYNC
\* at most the last one is undone.
THEOREM DurableHolds ==
    ASSUME RecoverableFaults
    PROVE  Spec => Durable
<1>1. ASSUME TypeInv, CrashInv, [Next]_vars
      PROVE  mti' >= IF NoMetaSync THEN mti - 1 ELSE mti
  <2>1. CoreInv
    BY <1>1 DEF CrashInv
  <2>2. CASE PowerLoss
    <3>1. DiskInv
      BY <1>1, <2>2 DEF CrashInv, RecoverableFaults, PowerLoss
    <3> QED BY <1>1, <2>1, <2>2, <3>1, PowerStep
  <2>3. CASE ~PowerLoss
    <3>1. mti' \in {mti, mti + 1} /\ mti \in Nat
      BY <1>1, <2>1, <2>3, PublishedStep
    <3> QED BY <3>1
  <2> QED BY <2>2, <2>3
<1>2. TypeInv /\ CrashInv /\ [Next]_vars =>
        [mti' >= IF NoMetaSync THEN mti - 1 ELSE mti]_vars
  BY <1>1
<1> QED BY <1>2, CrashHolds, PTL DEF Spec, Durable

\* Only the write of the meta page changes one, and never the current one.
LEMMA MetaStep ==
    ASSUME CoreInv, [Next]_vars, ~PowerLoss
    PROVE  metas' = metas \/ (mti' = mti /\ metas'[mti % 2] = metas[mti % 2])
<1>1. CASE CommitMetaDbs \/ CommitMetaTail
  BY <1>1, MetaDbsFact, MetaTailFact DEF Prev
<1>2. CASE ~(CommitMetaDbs \/ CommitMetaTail)
  BY <1>2 DEF Next, vars, store, ReaderStep, ReaderLoad, ReaderStore,
     ReaderVerify, ReaderCopyDbs, ReaderCopyNext, ReaderEnd, ReaderUnchanged,
     WriterStep, WriterBegin, WriterAbort, PageNew, AllocFails, PageTouch, PageLoose,
     OvpageFree, DropPage, WriterUnchanged, CommitStep, CommitNothing, CommitSave,
     CommitSaveFails, CommitFlush, CommitFlushFails, CommitSync, CommitSyncFails,
     CommitMetaFails, CommitPublish, WriterDies, FatalShutdown
<1> QED BY <1>1, <1>2

\* A commit never writes the meta page of the current snapshot, nor does a
\* power loss change it but by choosing another one.
THEOREM CurrentMetaKeptHolds ==
    ASSUME RecoverableFaults
    PROVE  Spec => CurrentMetaKept
<1>1. ASSUME TypeInv, CrashInv, [Next]_vars
      PROVE  metas'[mti % 2] = metas[mti % 2] \/ mti' # mti
  <2>1. CoreInv
    BY <1>1 DEF CrashInv
  <2>2. CASE PowerLoss
    <3>1. DiskInv
      BY <1>1, <2>2 DEF CrashInv, RecoverableFaults, PowerLoss
    <3> QED BY <1>1, <2>1, <2>2, <3>1, PowerStep
  <2>3. CASE ~PowerLoss
    BY <1>1, <2>1, <2>3, MetaStep
  <2> QED BY <2>2, <2>3
<1>2. TypeInv /\ CrashInv /\ [Next]_vars =>
        [metas'[mti % 2] = metas[mti % 2] \/ mti' # mti \/ ownerdead]_vars
  BY <1>1
<1> QED BY <1>2, CrashHolds, PTL DEF Spec, CurrentMetaKept

-----------------------------------------------------------------------------
(***************************************************************************)
(* IInv, and the theorems about readers.                                   *)
(***************************************************************************)

\* The initial states satisfy the inductive invariant.
LEMMA InvInit == Init => IInv
<1> SUFFICES ASSUME Init PROVE ReaderInv
  BY CoreInit DEF IInv
<1>1. /\ mti = 0 /\ w = IdleWriter
      /\ \A i \in 0..1 : metas[i] = [txnid |-> 0, last |-> NumMetas - 1, dbs |-> EmptySnapshot]
      /\ \A r \in Readers : rd[r] = IdleReader
  BY DEF Init
<1>2. mti % 2 \in 0..1
  BY <1>1, ParityFact
<1>3. Prev.dbs = EmptySnapshot
  BY <1>1, <1>2 DEF Prev
<1>4. DOMAIN EmptySnapshot.pg = {}
  BY DEF EmptySnapshot
<1> QED BY <1>1, <1>3, <1>4 DEF ReaderInv, OneReaderInv, Protected, Safe, IdleReader

\* After a power loss there is no reader, and the snapshot that is left is
\* whole.
LEMMA PowerReaders ==
    ASSUME TypeInv, CoreInv, DiskInv, PowerLoss
    PROVE  ReaderInv'
<1>1. TopInv' /\ Top' = Prev'
  BY PowerStep DEF CoreInv
<1>2. /\ \A r \in Readers : rd'[r] = IdleReader
      /\ w' = IdleWriter
  BY DEF PowerLoss
<1>3. NextRecs' = Prev'.dbs.recs /\ NextLast' = Prev'.last
  BY <1>1, <1>2, IdleFact DEF NextRecs, NextLast
<1>4. Protected(Prev.dbs, mti)'
  BY <1>1, <1>3 DEF TopInv, SnapInv, Readable, Protected, Safe
<1>5. IdleReader.pc = "idle"
  BY DEF IdleReader
<1> QED BY <1>2, <1>4, <1>5 DEF ReaderInv, OneReaderInv

\* Every step preserves the inductive invariant, when no write of a meta page
\* fails.
LEMMA InvStep ==
    ASSUME "meta" \notin Faults, TypeInv, CrashInv, IInv, [Next]_vars
    PROVE  IInv'
<1>1. TypeOK'
  BY TypeStep DEF TypeInv
<1>2. ~CommitMetaFails /\ ~MetaMayPersist
  BY DEF CommitMetaFails, MetaMayPersist
<1>3. CoreInv'
  BY <1>2, CrashStep DEF CrashInv, RecoverableFaults
<1> SUFFICES ReaderInv'
  BY <1>3 DEF IInv
<1>4. ASSUME NEW r \in Readers, ReaderStep(r) PROVE ReaderInv'
  BY <1>4, ReaderReaders
<1>5. CASE WriterStep
  <2>1. CASE LocalOps
    BY <1>1, <2>1, OpsLocal, LocalReaders DEF IInv
  <2> QED BY <1>1, <1>2, <1>5, <2>1, BeginReaders, MetaDbsReaders, MetaTailReaders,
          PublishReaders DEF WriterStep, CommitStep, LocalOps
<1>6. CASE WriterDies \/ FatalShutdown
  BY <1>1, <1>6, FailureReaders
<1>7. CASE UNCHANGED vars
  <2>1. /\ mti' = mti /\ metas' = metas /\ file' = file /\ slot' = slot /\ rd' = rd
        /\ w' = w /\ pgoldest' = pgoldest
    BY <1>7 DEF vars, store
  <2>2. Prev' = Prev /\ Other' = Other /\ Top' = Top
    BY <2>1, MetaFrame
  <2> QED BY <2>1, <2>2 DEF IInv, ReaderInv, OneReaderInv, Protected, NextRecs, NextLast
<1>8. CASE PowerLoss
  BY <1>2, <1>8, PowerReaders DEF CrashInv
<1> QED BY <1>4, <1>5, <1>6, <1>7, <1>8 DEF Next

\* The inductive invariant holds when a writer's process may die at any
\* moment, the writes and syncs of data pages may fail, and power may be lost.
THEOREM InvHolds ==
    ASSUME "meta" \notin Faults
    PROVE  Spec => []IInv
<1>1. RecoverableFaults
  BY DEF RecoverableFaults, MetaMayPersist
<1>2. TypeInv /\ CrashInv /\ IInv /\ [Next]_vars => IInv'
  BY InvStep
<1> QED BY <1>1, <1>2, InvInit, CrashHolds, PTL DEF Spec

\* Whatever readers and writers do, mdb_page_alloc never hands out a page that
\* a live read transaction can reach.
THEOREM ReaderViewHolds ==
    ASSUME "meta" \notin Faults
    PROVE  Spec => []ReaderView
<1>1. IInv => ReaderView
  BY DEF IInv, ReaderInv, OneReaderInv, Protected, Safe, ReaderView, Readable
<1> QED BY <1>1, InvHolds, PTL

\* No record of the freeDB is consumed while a reader might use its pages.
THEOREM ConsumedHolds ==
    ASSUME "meta" \notin Faults
    PROVE  Spec => []ConsumedBeforeReaders
<1>1. IInv => ConsumedBeforeReaders
  BY DEF IInv, ReaderInv, OneReaderInv, ConsumedBeforeReaders
<1> QED BY <1>1, InvHolds, PTL

\* A read transaction never sees a snapshot older than its id.
THEOREM ReaderFreshHolds ==
    ASSUME "meta" \notin Faults
    PROVE  Spec => []ReaderFresh
<1>1. IInv => ReaderFresh
  BY DEF IInv, ReaderInv, OneReaderInv, ReaderFresh
<1> QED BY <1>1, InvHolds, PTL

=============================================================================
