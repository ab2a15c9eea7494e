------------------------------- MODULE MdbTxn -------------------------------
(***************************************************************************)
(* The multi-version core of LMDB (mdb.c): one write transaction at a time *)
(* builds a new copy-on-write snapshot next to the ones that readers use,  *)
(* and makes it current by overwriting the older of two meta pages.        *)
(*                                                                         *)
(* A snapshot is the content of a meta page: the pages its trees reach,    *)
(* the page of its freeDB, and the freeDB's records (transaction id ->     *)
(* pages which that transaction freed).  The inside of a page is abstract: *)
(* a page holds the stamp of the write transaction that wrote it last, and *)
(* a snapshot remembers the stamp it expects on each of its pages.         *)
(*                                                                         *)
(* Bounds and abstractions: the environment is not MDB_WRITEMAP, the map   *)
(* has the fixed size MaxPg, the freeDB fits one page, an overflow page is *)
(* one page, no transaction is nested, and page spilling and ENOMEM are    *)
(* left out.  Each reader owns its slot of the reader table.               *)
(***************************************************************************)
EXTENDS Integers, FiniteSets

CONSTANTS
    Readers,      \* reader threads, each with a slot of the reader table
    MaxTxn,       \* bound on transaction ids
    MaxBegins,    \* bound on the number of write transactions begun
    MaxPg,        \* me_maxpg, the number of pages of the map
    DirtyRoom,    \* MDB_IDL_UM_MAX, the capacity of a dirty list
    NoMetaSync,   \* whether the environment has MDB_NOMETASYNC
    Faults        \* which of the faults below can happen

\* "power": power loss; "kill": the writer's process dies; "io": writing or
\* syncing data pages fails; "meta": writing the meta page fails; "persist":
\* a meta page whose write failed may be on the disk all the same.
AllFaults == {"power", "kill", "io", "meta", "persist"}

NumMetas == 2

ASSUME BoundsAssumption ==
    /\ MaxTxn \in Nat \ {0} /\ MaxBegins \in Nat \ {0}
    /\ MaxPg \in Nat /\ MaxPg > NumMetas /\ DirtyRoom \in Nat
ASSUME ModeAssumption ==
    /\ NoMetaSync \in BOOLEAN
    /\ Faults \subseteq AllFaults

VARIABLES
    mti,        \* mti_txnid: the last transaction id published to readers
    metas,      \* the two meta pages as the map shows them
    file,       \* the data pages as the map shows them
    dmetas,     \* the meta pages that are certainly on the disk
    disk,       \* the data pages that are certainly on the disk
    slot,       \* mr_txnid of each reader's slot
    rd,         \* each reader's transaction
    w,          \* the write transaction (env->me_txn), with me_pgstate
    pgoldest,   \* me_pgoldest: the oldest reader seen by the last scan
    fatal,      \* MDB_FATAL_ERROR in me_flags
    ownerdead,  \* the holder of the writer mutex died
    begins      \* stamp of the last write transaction that began

store == <<metas, file, dmetas, disk>>
vars  == <<mti, store, slot, rd, w, pgoldest, fatal, ownerdead, begins>>

Txnids == 0..MaxTxn
Stamps == 0..MaxBegins
Pages  == NumMetas..(MaxPg - 1)

\* The value (txnid_t)-1 of a slot without a transaction: above every id.
NoTxn == MaxTxn + 1

SetMin(S) == CHOOSE x \in S : \A y \in S : x <= y

With(f, p, s)  == [q \in DOMAIN f \cup {p} |-> IF q = p THEN s ELSE f[q]]
Without(f, S)  == [q \in DOMAIN f \ S |-> f[q]]

-----------------------------------------------------------------------------
(***************************************************************************)
(* Snapshots and transactions.                                             *)
(***************************************************************************)

PageMaps == UNION {[S -> Stamps] : S \in SUBSET Pages}
Records  == [1..MaxTxn -> SUBSET Pages]
NoPage   == 0

\* mm_dbs: "pg" has the pages reached from the main and the free database,
\* "fdb" the freeDB's page among them.  "of" names the transaction that
\* wrote this snapshot; no such field exists in the file.
Snapshots == [of : Txnids, pg : PageMaps, fdb : Pages \cup {NoPage}, recs : Records]

EmptySnapshot ==
    [of |-> 0, pg |-> [p \in {} |-> 0], fdb |-> NoPage,
     recs |-> [t \in 1..MaxTxn |-> {}]]

Metas == [txnid : Txnids, last : (NumMetas - 1)..(MaxPg - 1), dbs : Snapshots]

PickMeta(m) == m[IF m[0].txnid < m[1].txnid THEN 1 ELSE 0]

ReaderPcs == {"idle", "loaded", "stored", "verified", "copied", "live"}
ReaderTxns == [pc : ReaderPcs, reg : Txnids, dbs : Snapshots, next : Nat]

IdleReader == [pc |-> "idle", reg |-> 0, dbs |-> EmptySnapshot, next |-> 0]

WriterPcs == {"idle", "open", "saved", "flushed", "synced", "dbs", "written"}

\* me_pghead is NULL exactly when pglast = 0.
WriterTxns ==
    [pc : WriterPcs, txnid : Txnids, stamp : Stamps, pg : PageMaps,
     fdb : Pages \cup {NoPage}, recs : Records, next : NumMetas..MaxPg,
     pghead : SUBSET Pages, pglast : Txnids, free : SUBSET Pages,
     loose : SUBSET Pages, dirty : SUBSET Pages, error : BOOLEAN]

IdleWriter ==
    [pc |-> "idle", txnid |-> 0, stamp |-> 0, pg |-> EmptySnapshot.pg,
     fdb |-> NoPage, recs |-> EmptySnapshot.recs, next |-> NumMetas,
     pghead |-> {}, pglast |-> 0, free |-> {}, loose |-> {}, dirty |-> {},
     error |-> FALSE]

Init ==
    /\ mti = 0
    /\ metas = [i \in 0..1 |-> [txnid |-> 0, last |-> NumMetas - 1, dbs |-> EmptySnapshot]]
    /\ dmetas = metas
    /\ file = [p \in Pages |-> 0]
    /\ disk = file
    /\ slot = [r \in Readers |-> NoTxn]
    /\ rd = [r \in Readers |-> IdleReader]
    /\ w = IdleWriter
    /\ pgoldest = 0
    /\ fatal = FALSE
    /\ ownerdead = FALSE
    /\ begins = 0

-----------------------------------------------------------------------------
(***************************************************************************)
(* Readers: mdb_txn_begin or mdb_txn_renew of a read-only transaction, on  *)
(* the reader's slot.  A reader takes no lock; each access to shared       *)
(* memory is a step.                                                       *)
(***************************************************************************)

ReaderUnchanged == UNCHANGED <<mti, store, w, pgoldest, fatal, ownerdead, begins>>

ReaderLoad(r) ==
    /\ rd[r].pc = "idle"
    /\ rd' = [rd EXCEPT ![r].pc = "loaded", ![r].reg = mti]
    /\ UNCHANGED slot
    /\ ReaderUnchanged

ReaderStore(r) ==
    /\ rd[r].pc = "loaded"
    /\ slot' = [slot EXCEPT ![r] = rd[r].reg]
    /\ rd' = [rd EXCEPT ![r].pc = "stored"]
    /\ ReaderUnchanged

\* Mutant of ReaderVerify: the id that was loaded first is used as it is.
ReaderVerifyOnce(r) ==
    /\ rd[r].pc = "stored"
    /\ rd' = [rd EXCEPT ![r].pc = "verified"]
    /\ UNCHANGED slot
    /\ ReaderUnchanged

\* The loop of ITS#7970: start again when a commit came in between.
ReaderVerify(r) ==
    /\ rd[r].pc = "stored"
    /\ rd' = [rd EXCEPT ![r] =
                IF slot[r] = mti THEN [@ EXCEPT !.pc = "verified"]
                ELSE [@ EXCEPT !.pc = "loaded", !.reg = mti]]
    /\ UNCHANGED slot
    /\ ReaderUnchanged

\* Mutant of ReaderCopyDbs: the other meta page.
ReaderCopyOtherDbs(r) ==
    /\ rd[r].pc = "verified"
    /\ rd' = [rd EXCEPT ![r].pc = "copied", ![r].dbs = metas[1 - (slot[r] % 2)].dbs]
    /\ UNCHANGED slot
    /\ ReaderUnchanged

ReaderCopyDbs(r) ==
    /\ rd[r].pc = "verified"
    /\ rd' = [rd EXCEPT ![r].pc = "copied", ![r].dbs = metas[slot[r] % 2].dbs]
    /\ UNCHANGED slot
    /\ ReaderUnchanged

\* mt_next_pgno is copied last; then MDB_FATAL_ERROR fails the begin.
ReaderCopyNext(r) ==
    /\ rd[r].pc = "copied"
    /\ IF fatal
       THEN /\ slot' = [slot EXCEPT ![r] = NoTxn]
            /\ rd' = [rd EXCEPT ![r] = IdleReader]
       ELSE /\ rd' = [rd EXCEPT ![r].pc = "live",
                                ![r].next = metas[slot[r] % 2].last + 1]
            /\ UNCHANGED slot
    /\ ReaderUnchanged

\* mdb_txn_reset, mdb_txn_commit or mdb_txn_abort.
ReaderEnd(r) ==
    /\ rd[r].pc = "live"
    /\ slot' = [slot EXCEPT ![r] = NoTxn]
    /\ rd' = [rd EXCEPT ![r] = IdleReader]
    /\ ReaderUnchanged

ReaderStep(r) ==
    \/ ReaderLoad(r) \/ ReaderStore(r) \/ ReaderVerify(r)
    \/ ReaderCopyDbs(r) \/ ReaderCopyNext(r) \/ ReaderEnd(r)

-----------------------------------------------------------------------------
(***************************************************************************)
(* The write transaction.                                                  *)
(***************************************************************************)

WriterUnchanged == UNCHANGED <<mti, store, slot, rd, fatal, ownerdead, begins>>

\* Mutant of LastTxnid: the death of the mutex's holder is ignored.
LastPublished == mti

\* mti_txnid as the holder of the writer mutex finds it.  When the mutex's
\* last holder died, mdb_mutex_failed takes it from the newest meta page.
LastTxnid == IF ownerdead THEN PickMeta(metas).txnid ELSE mti

\* mdb_txn_begin of a write transaction.
WriterBegin ==
    LET last == LastTxnid
        m    == metas[last % 2]
    IN  /\ w.pc = "idle" /\ ~fatal
        /\ last < MaxTxn /\ begins < MaxBegins
        /\ mti' = last
        /\ ownerdead' = FALSE
        /\ begins' = begins + 1
        /\ w' = [IdleWriter EXCEPT !.pc = "open", !.txnid = last + 1,
                    !.stamp = begins + 1, !.pg = m.dbs.pg, !.fdb = m.dbs.fdb,
                    !.recs = m.dbs.recs, !.next = m.last + 1]
        /\ UNCHANGED <<store, slot, rd, pgoldest, fatal>>

\* Mutants of FindOldest: it starts from (txnid_t)-1; it sees no reader.
FindOldestReader == SetMin({NoTxn} \cup {slot[r] : r \in Readers})
FindNoReader == w.txnid - 1

\* mdb_find_oldest: a slot without a transaction holds a larger value.
FindOldest == SetMin({w.txnid - 1} \cup {slot[r] : r \in Readers})

\* The freeDB records behind the consumed ones, and those before "oldest".
Later(x) == {t \in 1..MaxTxn : x.pglast < t /\ x.recs[t] # {}}
UsableToo(x, oldest) == {t \in Later(x) : t <= oldest}  \* mutant: off by one
Usable(x, oldest) == {t \in Later(x) : t < oldest}

\* Whether mdb_page_alloc does without a scan of the reader table: it does
\* not look at the freeDB, or the old me_pgoldest tells what it must know.
NoScan(x) ==
    \/ x.loose # {} \/ Cardinality(x.dirty) >= DirtyRoom \/ x.pghead # {}
    \/ x.pglast + 1 < pgoldest /\ (Later(x) = {} \/ Usable(x, pgoldest) # {})

\* The value of me_pgoldest after mdb_page_alloc.
Oldest(x) == IF NoScan(x) THEN pgoldest ELSE FindOldest

\* me_pghead and me_pglast after mdb_page_alloc looked for free pages.
Refill(x) ==
    LET t == SetMin(Usable(x, Oldest(x)))
    IN  IF x.pghead # {} \/ Usable(x, Oldest(x)) = {} THEN x
        ELSE [x EXCEPT !.pghead = x.recs[t], !.pglast = t]

\* mdb_page_alloc for one page: the set of possible results, empty when it
\* fails.  It takes a loose page, else the lowest page of me_pghead, else
\* the page at mt_next_pgno.
Alloc(x) ==
    IF x.loose # {}
    THEN {[page |-> p, txn |-> [x EXCEPT !.loose = @ \ {p}]] : p \in x.loose}
    ELSE IF Cardinality(x.dirty) >= DirtyRoom THEN {}
    ELSE LET y == Refill(x)
             p == SetMin(y.pghead)
         IN  IF y.pghead # {}
             THEN {[page |-> p,
                    txn |-> [y EXCEPT !.pghead = @ \ {p}, !.dirty = @ \cup {p}]]}
             ELSE IF y.next + 1 >= MaxPg THEN {}
             ELSE {[page |-> y.next,
                    txn |-> [y EXCEPT !.next = @ + 1, !.dirty = @ \cup {y.next}]]}

MainPages(x) == DOMAIN x.pg \ {x.fdb}

\* mdb_page_touch: copy a clean page to a new one; the old page is freed.
PageTouch(p) ==
    /\ w.pc = "open" /\ ~w.error
    /\ p \in MainPages(w) \ w.dirty
    /\ \E a \in Alloc(w) :
         w' = [a.txn EXCEPT !.pg = With(Without(@, {p}), a.page, w.stamp),
                            !.free = @ \cup {p}]
    /\ pgoldest' = Oldest(w)
    /\ WriterUnchanged

\* mdb_page_new.
PageNew ==
    /\ w.pc = "open" /\ ~w.error
    /\ \E a \in Alloc(w) : w' = [a.txn EXCEPT !.pg = With(@, a.page, w.stamp)]
    /\ pgoldest' = Oldest(w)
    /\ WriterUnchanged

\* mdb_page_touch or mdb_page_new when mdb_page_alloc fails.
AllocFails ==
    /\ w.pc = "open" /\ ~w.error
    /\ Alloc(w) = {}
    /\ w' = [Refill(w) EXCEPT !.error = TRUE]
    /\ pgoldest' = Oldest(w)
    /\ WriterUnchanged

\* mdb_page_loose: a page leaves its tree (a merge, or an empty page).
PageLoose(p) ==
    /\ w.pc = "open" /\ ~w.error
    /\ p \in MainPages(w)
    /\ w' = [w EXCEPT !.pg = Without(@, {p}),
                      !.loose = IF p \in w.dirty THEN @ \cup {p} ELSE @,
                      !.free = IF p \in w.dirty THEN @ ELSE @ \cup {p}]
    /\ UNCHANGED pgoldest
    /\ WriterUnchanged

\* mdb_ovpage_free: a dirty page goes back to me_pghead, if there is one.
OvpageFree(p) ==
    /\ w.pc = "open" /\ ~w.error
    /\ p \in MainPages(w)
    /\ w' = IF w.pglast # 0 /\ p \in w.dirty
            THEN [w EXCEPT !.pg = Without(@, {p}), !.dirty = @ \ {p},
                           !.pghead = @ \cup {p}]
            ELSE [w EXCEPT !.pg = Without(@, {p}), !.free = @ \cup {p}]
    /\ UNCHANGED pgoldest
    /\ WriterUnchanged

\* mdb_drop0: a page of a dropped tree is freed, be it dirty or not.
DropPage(p) ==
    /\ w.pc = "open" /\ ~w.error
    /\ p \in MainPages(w)
    /\ w' = [w EXCEPT !.pg = Without(@, {p}), !.free = @ \cup {p}]
    /\ UNCHANGED pgoldest
    /\ WriterUnchanged

\* mdb_txn_end without MDB_END_UPDATE, after any failure and on abort.
EndWriter ==
    /\ w' = IdleWriter
    /\ UNCHANGED pgoldest

WriterAbort ==
    /\ w.pc = "open"
    /\ EndWriter
    /\ WriterUnchanged

\* A commit that wrote nothing ends the transaction, unless MDB_TXN_DIRTY
\* says that it must write: mdb_drop of the main database and mdb_dbi_open
\* set that flag, so a transaction may also take CommitSave without a dirty
\* page.  The commit of a failed transaction returns MDB_BAD_TXN, after
\* aborting it.
CommitNothing ==
    /\ w.pc = "open"
    /\ w.error \/ w.dirty \cup w.free = {}
    /\ EndWriter
    /\ WriterUnchanged

\* Mutant of LooseToFree: the loose pages are dropped from both lists.
LooseToNowhere(x) ==
    IF x.pglast # 0 THEN x ELSE [x EXCEPT !.dirty = @ \ x.loose, !.loose = {}]

\* mdb_freelist_save up to the first change of the freeDB.
LooseToFree(x) ==
    IF x.pglast # 0 THEN x
    ELSE [x EXCEPT !.free = @ \cup x.loose, !.dirty = @ \ x.loose, !.loose = {}]

\* Mutant of SavedRecords: the loose pages do not go back to me_pghead.
SavedWithoutLoose(x) ==
    [t \in 1..MaxTxn |->
        IF t = x.txnid THEN x.free
        ELSE IF t < x.pglast THEN {}
        ELSE IF t = x.pglast THEN x.pghead
        ELSE x.recs[t]]

\* The freeDB records that mdb_freelist_save leaves behind: the consumed
\* ones are deleted, the pages this transaction freed go under its id, and
\* what is left of me_pghead goes under me_pglast.
SavedRecords(x) ==
    [t \in 1..MaxTxn |->
        IF t = x.txnid THEN x.free
        ELSE IF t < x.pglast THEN {}
        ELSE IF t = x.pglast THEN x.pghead \cup x.loose
        ELSE x.recs[t]]

\* mdb_freelist_save, called by mdb_txn_commit: the freeDB's page is copied
\* like any other page before the records change.
CommitSave ==
    /\ w.pc = "open" /\ ~w.error
    /\ LET x == LooseToFree(w)
       IN  IF x.pglast = 0 /\ x.free = {}
           THEN w' = [x EXCEPT !.pc = "saved"] /\ UNCHANGED pgoldest
           ELSE /\ \E a \in Alloc(x) :
                     LET y == [a.txn EXCEPT
                                 !.pg = With(Without(@, {x.fdb}), a.page, w.stamp),
                                 !.free = @ \cup ({x.fdb} \ {NoPage}),
                                 !.fdb = a.page]
                     IN  w' = [y EXCEPT !.recs = SavedRecords(y), !.pc = "saved"]
                /\ pgoldest' = Oldest(x)
    /\ WriterUnchanged

CommitSaveFails ==
    /\ w.pc = "open" /\ ~w.error
    /\ LET x == LooseToFree(w)
       IN  /\ x.pglast # 0 \/ x.free # {}
           /\ Alloc(x) = {}
           /\ w' = IdleWriter
           /\ pgoldest' = Oldest(x)
    /\ WriterUnchanged

\* mdb_page_flush writes the dirty pages except the loose ones.
FlushPages(S) == [p \in Pages |-> IF p \in S THEN w.stamp ELSE file[p]]

CommitFlush ==
    /\ w.pc = "saved"
    /\ file' = FlushPages(w.dirty \ w.loose)
    /\ w' = [w EXCEPT !.pc = "flushed"]
    /\ UNCHANGED <<mti, metas, dmetas, disk, slot, rd, pgoldest, fatal, ownerdead, begins>>

\* A write error or a short write: part of the pages are in the file.
CommitFlushFails ==
    /\ "io" \in Faults
    /\ w.pc = "saved"
    /\ \E S \in SUBSET (w.dirty \ w.loose) : file' = FlushPages(S)
    /\ EndWriter
    /\ UNCHANGED <<mti, metas, dmetas, disk, slot, rd, fatal, ownerdead, begins>>

\* Mutant of CommitSync: only the data pages.
CommitSyncData ==
    /\ w.pc = "flushed"
    /\ disk' = file
    /\ w' = [w EXCEPT !.pc = "synced"]
    /\ UNCHANGED <<mti, metas, dmetas, file, slot, rd, pgoldest, fatal, ownerdead, begins>>

\* mdb_env_sync: everything written so far reaches the disk.
CommitSync ==
    /\ w.pc = "flushed"
    /\ disk' = file
    /\ dmetas' = metas
    /\ w' = [w EXCEPT !.pc = "synced"]
    /\ UNCHANGED <<mti, metas, file, slot, rd, pgoldest, fatal, ownerdead, begins>>

CommitSyncFails ==
    /\ "io" \in Faults
    /\ w.pc = "flushed"
    /\ EndWriter
    /\ WriterUnchanged

\* mdb_env_write_meta.  The write of the meta page reaches the map in two
\* parts: mm_dbs, and behind it mm_last_pg with mm_txnid.
ToggleOther == (w.txnid + 1) % 2   \* mutant: the current meta page
Toggle == w.txnid % 2

CommitMetaDbs ==
    /\ w.pc = "synced"
    /\ metas' = [metas EXCEPT ![Toggle].dbs =
                   [of |-> w.txnid, pg |-> w.pg, fdb |-> w.fdb, recs |-> w.recs]]
    /\ w' = [w EXCEPT !.pc = "dbs"]
    /\ UNCHANGED <<mti, file, dmetas, disk, slot, rd, pgoldest, fatal, ownerdead, begins>>

\* Mutant of CommitMetaTail: the write goes to me_fd, which does not sync.
CommitMetaUnsynced ==
    /\ w.pc = "dbs"
    /\ metas' = [metas EXCEPT ![Toggle].last = w.next - 1, ![Toggle].txnid = w.txnid]
    /\ w' = [w EXCEPT !.pc = "written"]
    /\ UNCHANGED <<mti, file, dmetas, disk, slot, rd, pgoldest, fatal, ownerdead, begins>>

\* Without MDB_NOMETASYNC the write goes to the synchronous descriptor.
CommitMetaTail ==
    /\ w.pc = "dbs"
    /\ metas' = [metas EXCEPT ![Toggle].last = w.next - 1, ![Toggle].txnid = w.txnid]
    /\ dmetas' = IF NoMetaSync THEN dmetas
                 ELSE [dmetas EXCEPT ![Toggle] = metas'[Toggle]]
    /\ w' = [w EXCEPT !.pc = "written"]
    /\ UNCHANGED <<mti, file, disk, slot, rd, pgoldest, fatal, ownerdead, begins>>

\* Mutant of CommitMetaFails: nothing is put back.
CommitMetaLeft ==
    /\ w.pc = "dbs"
    /\ fatal' = TRUE
    /\ metas' = [metas EXCEPT ![Toggle].last = w.next - 1, ![Toggle].txnid = w.txnid]
    /\ EndWriter
    /\ UNCHANGED <<mti, dmetas, file, disk, slot, rd, ownerdead, begins>>

\* The write fails: mm_last_pg and mm_txnid, but not mm_dbs, are put back.
\* With "persist" the disk may have got the page although the write failed.
CommitMetaFails ==
    /\ "meta" \in Faults
    /\ w.pc = "dbs"
    /\ fatal' = TRUE
    /\ \/ UNCHANGED dmetas
       \/ /\ "persist" \in Faults
          /\ dmetas' = [dmetas EXCEPT ![Toggle] =
                          [txnid |-> w.txnid, last |-> w.next - 1,
                           dbs |-> metas[Toggle].dbs]]
    /\ EndWriter
    /\ UNCHANGED <<mti, metas, file, disk, slot, rd, ownerdead, begins>>

\* mti_txnid is set, the transaction ends and the mutex is released.
CommitPublish ==
    /\ w.pc = "written"
    /\ mti' = w.txnid
    /\ EndWriter
    /\ UNCHANGED <<store, slot, rd, fatal, ownerdead, begins>>

CommitStep ==
    \/ CommitNothing \/ CommitSave \/ CommitSaveFails
    \/ CommitFlush \/ CommitFlushFails \/ CommitSync \/ CommitSyncFails
    \/ CommitMetaDbs \/ CommitMetaTail \/ CommitMetaFails \/ CommitPublish

WriterStep ==
    \/ WriterBegin \/ WriterAbort \/ PageNew \/ AllocFails \/ CommitStep
    \/ \E p \in Pages : PageTouch(p) \/ PageLoose(p) \/ OvpageFree(p) \/ DropPage(p)

-----------------------------------------------------------------------------
(***************************************************************************)
(* Failures.                                                               *)
(***************************************************************************)

\* The writer's process dies; the robust mutex remembers it.  A system call
\* in progress completes, so the process does not die inside the meta write.
\* The readers are in other processes, as is the next writer, which has its
\* own me_pgoldest.
WriterDies ==
    /\ "kill" \in Faults
    /\ w.pc \notin {"idle", "dbs"}
    /\ w' = IdleWriter
    /\ ownerdead' = TRUE
    /\ pgoldest' = 0
    /\ UNCHANGED <<mti, store, slot, rd, fatal, begins>>

\* The environment with MDB_FATAL_ERROR "must shutdown": it is closed, and
\* the environments of the other processes go on.
FatalShutdown ==
    /\ fatal
    /\ fatal' = FALSE
    /\ pgoldest' = 0
    /\ UNCHANGED <<mti, store, slot, rd, w, ownerdead, begins>>

\* Power loss: of what was written and not synced, any part is on the disk.
\* The next open finds the lock file unused, initialises it, and takes
\* mti_txnid from the newest meta page (mdb_env_share_locks).
PowerLoss ==
    /\ "power" \in Faults
    /\ \E S \in SUBSET {p \in Pages : file[p] # disk[p]},
          M \in SUBSET {i \in 0..1 : metas[i] # dmetas[i]} :
         /\ file' = [p \in Pages |-> IF p \in S THEN file[p] ELSE disk[p]]
         /\ metas' = [i \in 0..1 |-> IF i \in M THEN metas[i] ELSE dmetas[i]]
    /\ disk' = file'
    /\ dmetas' = metas'
    /\ mti' = PickMeta(metas').txnid
    /\ slot' = [r \in Readers |-> NoTxn]
    /\ rd' = [r \in Readers |-> IdleReader]
    /\ w' = IdleWriter
    /\ pgoldest' = 0
    /\ fatal' = FALSE
    /\ ownerdead' = FALSE
    /\ UNCHANGED begins

Next ==
    \/ \E r \in Readers : ReaderStep(r)
    \/ WriterStep
    \/ WriterDies
    \/ FatalShutdown
    \/ PowerLoss

Spec == Init /\ [][Next]_vars

-----------------------------------------------------------------------------
(***************************************************************************)
(* Properties.                                                             *)
(***************************************************************************)

\* Every variable has its type.
TypeOK ==
    /\ mti \in Txnids
    /\ metas \in [0..1 -> Metas] /\ dmetas \in [0..1 -> Metas]
    /\ file \in [Pages -> Stamps] /\ disk \in [Pages -> Stamps]
    /\ slot \in [Readers -> Txnids \cup {NoTxn}]
    /\ rd \in [Readers -> ReaderTxns]
    /\ w \in WriterTxns
    /\ pgoldest \in Txnids
    /\ fatal \in BOOLEAN /\ ownerdead \in BOOLEAN
    /\ begins \in Stamps

Readable(dbs, f) == \A p \in DOMAIN dbs.pg : f[p] = dbs.pg[p]

\* The pages that a live read transaction can reach still hold what the
\* snapshot's writer left there: mdb_page_alloc, seeing the reader's slot,
\* never hands out a page the reader may still visit.
ReaderView ==
    \A r \in Readers : rd[r].pc = "live" => Readable(rd[r].dbs, file)

FreePages(dbs) == UNION {dbs.recs[t] : t \in 1..MaxTxn}

\* "Each non-metapage up to #MDB_meta.mm_last_pg is reachable exactly once
\* in the snapshot: Either used by a database or listed in a freeDB record."
ReachableOnce(m) ==
    /\ DOMAIN m.dbs.pg \cup FreePages(m.dbs) = NumMetas..m.last
    /\ DOMAIN m.dbs.pg \cap FreePages(m.dbs) = {}
    /\ \A t, u \in 1..MaxTxn : t # u => m.dbs.recs[t] \cap m.dbs.recs[u] = {}

\* It holds of the current snapshot, after every commit, failure, recovery.
NoPageLeak == ReachableOnce(PickMeta(metas))

\* The current snapshot is in the file, whole: also right after a crash,
\* with any part of the unsynced writes lost.
CurrentReadable == Readable(PickMeta(metas).dbs, file)

\* A read transaction sees a snapshot at least as new as its id, that is, at
\* least the last commit that had returned when the transaction began.
ReaderFresh ==
    \A r \in Readers : rd[r].pc = "live" => rd[r].dbs.of >= slot[r]

\* No freeDB record is consumed while a reader might use its pages: they are
\* taken from keys "smaller than txnid of oldest reader".
ConsumedBeforeReaders ==
    \A r \in Readers :
        rd[r].pc \in {"verified", "copied", "live"} => w.pglast < slot[r] \/ w.pglast = 0

\* Once a commit has returned it survives everything, or with MDB_NOMETASYNC
\* at most the last one is undone.
Durable == [][mti' >= IF NoMetaSync THEN mti - 1 ELSE mti]_vars

\* A commit never writes the meta page of the current snapshot.
CurrentMetaKept ==
    [][metas'[mti % 2] = metas[mti % 2] \/ mti' # mti \/ ownerdead]_vars
=============================================================================
