----------------------------- MODULE MdbTxnInv -----------------------------
(***************************************************************************)
(* The inductive invariants of MdbTxn: why copy-on-write and the two meta  *)
(* pages keep every snapshot that a reader holds, as long as no write of a *)
(* meta page fails (IInv), and why the newest snapshot, whole and with no  *)
(* page lost, survives also power losses and such failures (CrashInv).     *)
(***************************************************************************)
EXTENDS MdbTxn

-----------------------------------------------------------------------------
(***************************************************************************)
(* The two meta pages.                                                     *)
(***************************************************************************)

\* The meta page of the last published commit, the one that the next commit
\* overwrites, and the newer one of them: they differ from the first two
\* between the write of a meta page and its publication.
Prev  == metas[mti % 2]
Other == metas[1 - (mti % 2)]
Top   == IF Other.txnid = mti + 1 THEN Other ELSE Prev

\* The published meta page has the published id.  The other one is older, or
\* is the next one: written, and published by the writer or, when it died,
\* by whoever takes its mutex.
MetaInv ==
    /\ Prev.txnid = mti
    /\ \/ Other.txnid < mti
       \/ mti = 0 /\ Other.txnid = 0
       \/ Other.txnid = mti + 1 /\ (w.pc = "written" \/ ownerdead)
    /\ w.pc = "written" => Other.txnid = mti + 1
    /\ w.pc # "idle" => ~ownerdead /\ w.txnid = mti + 1
    /\ w.pglast = 0 \/ w.pglast < mti
    /\ pgoldest <= mti

\* No page is used twice in a snapshot, and all are below its end.
SnapInv(pg, fdb, recs, last) ==
    /\ fdb # NoPage => fdb \in DOMAIN pg
    /\ \A p \in DOMAIN pg : p <= last /\ \A t \in 1..MaxTxn : p \notin recs[t]
    /\ \A t \in 1..MaxTxn : \A p \in recs[t] :
          p <= last /\ \A u \in 1..MaxTxn : p \in recs[u] => u = t

TopInv ==
    /\ SnapInv(Top.dbs.pg, Top.dbs.fdb, Top.dbs.recs, Top.last)
    /\ Readable(Top.dbs, file)
    /\ \A t \in 1..MaxTxn : t > Top.txnid => Top.dbs.recs[t] = {}
    /\ Prev.dbs.of = mti /\ Top.dbs.of = Top.txnid

-----------------------------------------------------------------------------
(***************************************************************************)
(* The write transaction.                                                  *)
(***************************************************************************)

\* The pages that the transaction x may overwrite when m is the published meta
\* page: past the end, or free there, in a record which x has consumed.
Fresh(x, m, p) ==
    \/ p > m.last
    \/ \E t \in 1..MaxTxn : t <= x.pglast /\ p \in m.dbs.recs[t]

\* A page below the end that no record still to be consumed has.
Held(x, p) ==
    /\ p < x.next
    /\ \A t \in 1..MaxTxn : t > x.pglast => p \notin x.recs[t]

\* The pages of the new trees are x's own ones, or those of the last snapshot.
TreeInv(x, m) ==
    \A p \in DOMAIN x.pg :
        /\ Held(x, p)
        /\ p \notin x.pghead /\ p \notin x.loose /\ p \notin x.free
        /\ IF p \in x.dirty THEN x.pg[p] = x.stamp
           ELSE p \in DOMAIN m.dbs.pg /\ x.pg[p] = m.dbs.pg[p]

\* The page lists of x.
ListInv(x, m) ==
    /\ \A p \in x.loose : p \in x.dirty /\ p \notin x.free
    /\ \A p \in x.dirty : p < x.next /\ Fresh(x, m, p)
    /\ \A p \in x.pghead : p < x.next /\ Fresh(x, m, p) /\ p \notin x.dirty /\ p \notin x.free
    /\ \A p \in x.free : Held(x, p)

\* Before the commit: the records are still those of the last snapshot.
WorkInv(x, m) ==
    /\ x.next > m.last
    /\ x.recs = m.dbs.recs
    /\ x.pglast = 0 \/ x.pglast < m.txnid
    /\ x.pglast = 0 => x.pghead = {}
    /\ x.fdb # NoPage => x.fdb \in DOMAIN x.pg
    /\ TreeInv(x, m)
    /\ ListInv(x, m)

\* During the commit x has the records to be written.  One that was there
\* in the last snapshot has only pages it had there, or fresh ones.
CommitInv(x, m) ==
    /\ SnapInv(x.pg, x.fdb, x.recs, x.next - 1)
    /\ x.next > m.last
    /\ \A t \in 1..MaxTxn : t > x.txnid => x.recs[t] = {}
    /\ \A t \in 1..MaxTxn : t <= m.txnid => \A p \in x.recs[t] :
          p \in m.dbs.recs[t] \/ Fresh(x, m, p)
    /\ \A p \in x.dirty : Fresh(x, m, p)
    /\ \A p \in DOMAIN x.pg :
         IF p \in x.dirty \ x.loose THEN x.pg[p] = x.stamp
         ELSE p \in DOMAIN m.dbs.pg /\ x.pg[p] = m.dbs.pg[p]

NewDbs(x) == [of |-> x.txnid, pg |-> x.pg, fdb |-> x.fdb, recs |-> x.recs]

WriterInv ==
    /\ w.pc = "open" => WorkInv(w, Prev)
    /\ w.pc \in {"saved", "flushed", "synced", "dbs"} => CommitInv(w, Prev)
    /\ w.pc \in {"flushed", "synced", "dbs"} => \A p \in DOMAIN w.pg : file[p] = w.pg[p]
    /\ w.pc = "dbs" => Other.dbs = NewDbs(w)

\* The two meta pages and the writer, without the readers.
CoreInv == TypeOK /\ MetaInv /\ TopInv /\ WriterInv

-----------------------------------------------------------------------------
(***************************************************************************)
(* The readers.                                                            *)
(***************************************************************************)

\* The freeDB's records and the end of the snapshot from which the next write
\* transaction takes pages: the new one as soon as a reader can copy it.
NextRecs == IF w.pc = "dbs" THEN w.recs ELSE Top.dbs.recs
NextLast == IF w.pc = "dbs" THEN w.next - 1 ELSE Top.last

\* The pages of dbs are in the file f, and none can be taken by a write
\* transaction that sees a reader with the id s: it takes the pages past the
\* end, and those of the records below s.
Safe(dbs, s, f, recs, last) ==
    \A p \in DOMAIN dbs.pg :
        /\ f[p] = dbs.pg[p]
        /\ p <= last
        /\ \A t \in 1..MaxTxn : t < s => p \notin recs[t]

Protected(dbs, s) == Safe(dbs, s, file, NextRecs, NextLast)

\* A reader whose slot is verified stays ahead of what the writer consumes;
\* what its meta page holds, or its copy of it, is protected and not older
\* than its slot.
OneReaderInv(r) ==
    /\ rd[r].pc \in {"loaded", "stored"} => rd[r].reg <= mti
    /\ rd[r].pc = "stored" => slot[r] = rd[r].reg
    /\ rd[r].pc \in {"verified", "copied", "live"} =>
         /\ slot[r] <= mti
         /\ pgoldest <= slot[r]
         /\ w.pglast = 0 \/ w.pglast < slot[r]
    /\ rd[r].pc = "verified" =>
         /\ Protected(metas[slot[r] % 2].dbs, slot[r])
         /\ metas[slot[r] % 2].dbs.of >= slot[r]
    /\ rd[r].pc \in {"copied", "live"} =>
         /\ Protected(rd[r].dbs, slot[r])
         /\ rd[r].dbs.of >= slot[r]

ReaderInv == Protected(Prev.dbs, mti) /\ \A r \in Readers : OneReaderInv(r)

\* The inductive invariant: what mdb_page_alloc hands out is disjoint from
\* every page that a reader in the table can still reach.
IInv == CoreInv /\ ReaderInv

-----------------------------------------------------------------------------
(***************************************************************************)
(* No page is lost.                                                        *)
(***************************************************************************)

\* Every page up to the end is used, or in a freeDB record.
SnapCover(pg, recs, last) ==
    \A p \in Pages : p <= last => p \in DOMAIN pg \/ \E t \in 1..MaxTxn : p \in recs[t]

\* A page that the transaction x has not lost: it is in a tree or in one of
\* the lists, or in a record that x has not consumed.
Kept(x, p) ==
    \/ p \in DOMAIN x.pg \/ p \in x.pghead \/ p \in x.loose \/ p \in x.free
    \/ \E t \in 1..MaxTxn : t > x.pglast /\ p \in x.recs[t]

WorkCover(x) == \A p \in Pages : p < x.next => Kept(x, p)

\* Together with IInv, which says that no page is in two places, it makes
\* every page reachable exactly once.
LeakInv ==
    /\ SnapCover(Top.dbs.pg, Top.dbs.recs, Top.last)
    /\ w.pc = "open" => WorkCover(w)
    /\ w.pc \in {"saved", "flushed", "synced", "dbs"} =>
         SnapCover(w.pg, w.recs, w.next - 1)

-----------------------------------------------------------------------------
(***************************************************************************)
(* The disk: what a power loss can bring back.                             *)
(***************************************************************************)

\* The snapshot of a meta page m is complete, and its pages are in the file f.
Whole(m, f) ==
    /\ SnapInv(m.dbs.pg, m.dbs.fdb, m.dbs.recs, m.last)
    /\ SnapCover(m.dbs.pg, m.dbs.recs, m.last)
    /\ Readable(m.dbs, f)
    /\ \A t \in 1..MaxTxn : t > m.txnid => m.dbs.recs[t] = {}
    /\ m.dbs.of = m.txnid

\* The transaction that begins from new does not overwrite a page of old, the
\* snapshot before: it consumes no record later than old.
KeptBy(old, new) ==
    \A p \in DOMAIN old.dbs.pg :
        /\ p <= new.last
        /\ \A t \in 1..MaxTxn : t <= old.txnid => p \notin new.dbs.recs[t]

\* A meta page that is too old to be chosen beside one with the id n.
Older(m, n) == m.txnid < n \/ (m.txnid = 0 /\ n = 0)

DPrev  == dmetas[mti % 2]
DOther == dmetas[1 - (mti % 2)]

\* With MDB_NOMETASYNC the last published meta page may not be on the disk
\* until the next commit has synced its pages; then a power loss brings back
\* the one before, which is on the disk and still whole.
Behind ==
    /\ NoMetaSync
    /\ w.pc \notin {"synced", "dbs", "written"}
    /\ mti > 0 /\ Other.txnid = mti - 1 /\ DOther = Other
    /\ Older(DPrev, mti - 1)
    /\ Whole(Other, file) /\ Whole(Other, disk)
    /\ KeptBy(Other, Prev)

\* The last published meta page is on the disk.  The other is too old to be
\* chosen, or it is the one that is written and not published yet.
Level ==
    /\ DPrev = Prev
    /\ \/ Older(DOther, mti)
       \/ DOther = Other /\ Other.txnid = mti + 1
    /\ Other.txnid = mti + 1 => KeptBy(Prev, Other) /\ (NoMetaSync \/ DOther = Other)

DiskInv ==
    /\ \A f \in {file, disk} : Whole(Prev, f) /\ Whole(Top, f)
    /\ w.pc \in {"synced", "dbs"} => \A p \in DOMAIN w.pg : disk[p] = w.pg[p]
    /\ Level \/ Behind

\* A meta page may reach the disk although its write failed.
MetaMayPersist == {"meta", "persist"} \subseteq Faults

\* All faults, but for a power loss after that.
RecoverableFaults == ~(MetaMayPersist /\ "power" \in Faults)

\* What holds whatever of these fails.
CrashInv == CoreInv /\ LeakInv /\ (MetaMayPersist \/ DiskInv)
=============================================================================
