# A verification project for kotlin-lmdb

kotlin-lmdb is a Kotlin multiplatform wrapper around LMDB, whose C sources it
carries. The Kotlin code is thin; the logic that is hard to get right, and that
no test of the repository reaches, is LMDB's: several processes and threads
share one file and one lock file, readers take no locks, and a commit must be
atomic whatever happens. This project models LMDB's transactions, lock file,
nested transactions, B+tree, database handles and compacting copy, and the
wrapper's handles; it checks them with TLC, and proves with TLAPS what matters
most of all of them but the B+tree.

## Inventory

| Part | State | Operations | What is hard |
|---|---|---|---|
| Transactions and snapshots (`mdb.c`) | two meta pages, `mti_txnid`, data pages, freeDB; per transaction: dirty, free and loose pages, `me_pghead`/`me_pglast`, `mt_next_pgno` | `mdb_txn_begin/renew/reset/commit/abort`, `mdb_page_alloc/touch/new/loose`, `mdb_ovpage_free`, `mdb_drop0`, `mdb_freelist_save`, `mdb_page_flush`, `mdb_env_sync`, `mdb_env_write_meta` | page reuse against lock-free readers, order of writes, crashes, partial failures |
| Reader table and robust mutexes | slots `(mr_pid, mr_tid, mr_txnid)`, `mti_numreaders`, two mutexes | claim and free a slot, `mdb_find_oldest`, `mdb_reader_check0`, `mdb_mutex_failed`, `mdb_env_close0` | un-mutexed scans, dead processes, reused pids |
| Opening an environment | lock file, file lock | `mdb_env_open`, `mdb_env_setup_locks`, `mdb_env_excl_lock`, `mdb_env_share_locks` | who initialises, who may reset the table |
| Nested transactions, spilling | the parent's and the child's page lists, spill list | `mdb_txn_begin(parent)`, commit and abort of a child, `mdb_page_spill/unspill` | merging lists, failing half way |
| Database handles | `me_dbxs`, `me_dbflags`, `me_dbiseqs`, copies per transaction | `mdb_dbi_open/close`, `mdb_dbis_update`, `mdb_drop` | handles closed under open transactions |
| Copy | two buffers, a mutex and a condition | `mdb_env_copyfd0/1`, `mdb_env_copythr`, `mdb_env_cthr_toggle` | two threads, errors, end of file |
| B+tree and cursors | pages, cursor stacks | search, put, delete, split, merge, rebalance | cursors that follow the tree |
| ID lists (`midl.c`), key orders | sorted arrays | insert, merge, search, sort; `mdb_cmp_*` | boundaries |
| Kotlin `Env`, `Txn`, `Cursor`, `Dbi` | a handle, its state, a native pointer | open/close, begin/commit/abort/reset/renew/close | native objects freed behind a handle that still looks alive |
| Kotlin values, comparers, options | buffers, callbacks | conversions, registry | lifetime of callbacks |

How they interact: a `Txn` of the wrapper owns a native transaction, which
copies its handle table from the environment and its root from a meta page. The
writer and the readers meet only in shared memory: the map (data and meta
pages), `mti_txnid` and the reader table. Writers exclude each other by a robust
mutex; readers and writers never wait for each other.

What makes each part correct: a reader's snapshot does not change; a commit is
all or nothing, also across a crash; no page is lost and none is used twice
(transactions); a slot has one owner and a live reader's slot is never cleared
(reader table); one process initialises the lock file and none loses
`mti_txnid` (opening); a child's commit is as if its parent had done the work
(nesting); a handle denotes the database it was opened for (handles); the
copy ends and writes every buffer once and in order (copy); search after insert
finds (trees, lists); no native call on a freed object (Kotlin).

## Modules

| Module | Extends | Content |
|---|---|---|
| `MdbTxn` | – | the transactional core, its properties, and mutants of its definitions |
| `MdbTxnInv` | `MdbTxn` | the inductive invariants `IInv` and `CrashInv` |
| `MdbTxnProof` | `MdbTxnInv`, `LeastNat` | `Spec => []TypeOK`, that the invariants are inductive, and what follows from them |
| `MCMdbTxn` | `MdbTxnInv` | model values, symmetry, and all faults but one combination |
| `LockFile` | – | the processes and threads that share a lock file |
| `LockFileProof` | `LockFile`, `LeastNat` | its inductive invariants, and what follows from them |
| `MCLockFile` | `LockFile` | the threads of the instance |
| `LeastNat` | – | that a set of naturals has a least member, for four of the proofs |
| `NestedStore` | – | what nested transactions promise |
| `NestedTxn` | instantiates `NestedStore` | the page lists of nested transactions, spilling, cursors |
| `NestedTxnProof` | `NestedTxn`, `LeastNat` | what one transaction needs of those below it, and that its operations keep it |
| `NestedTxnSafety` | `NestedTxnProof` | the invariant of the stack, what follows from it, and the refinement of `NestedStore` |
| `MCNestedTxn` | `NestedTxn` | model values and symmetry |
| `SplitPoint` | – | where `mdb_page_split` cuts a page |
| `SortedMap` | – | a sorted map with cursors: what a database promises |
| `BTree` | `SplitPoint`, instantiates `SortedMap` | the B+tree and its cursors in a write transaction |
| `MCBTree` | `BTree` | sizes, the trees to start from, and a view |
| `DbiTable` | – | the handles of named databases |
| `DbiTableProof` | `DbiTable`, `LeastNat` | its inductive invariant, and what follows from it |
| `MCDbiTable` | `DbiTable` | model values and symmetry |
| `CopyFile` | – | what a compacting copy promises of the file it writes |
| `CopyThreads` | instantiates `CopyFile` | the two threads of a compacting copy |
| `CopyThreadsProof` | `CopyThreads` | its inductive invariants, what follows from them, and the refinement of `CopyFile` |
| `Handles` | – | the Kotlin `Env`, `Txn` and `Cursor` against the native objects |
| `HandlesProof` | `Handles` | its inductive invariant, and what follows from it |
| `MCHandles` | `Handles` | model values and symmetry |

How they fit together: `MdbTxn` takes the reader table for an array in which each
reader has its slot, and the scan of it for one step; `LockFile` has the table with
its slots claimed and cleared, and the scan slot by slot, and shows that a slot
belongs to its reader and that a scan's result is safe. `MdbTxn` takes what a
transaction does to its pages for any touching, allocating and freeing;
`BTree` and `NestedTxn` show that the pages so handled are a tree, and that a
nested transaction's become its parent's. `BTree` works on one transaction's pages,
`NestedTxn` on a tree of two levels that many transactions share. `DbiTable`
has no pages: a database is its set of keys.

### MdbTxn

| Variable | In the code |
|---|---|
| `mti` | `mti_txnid` in the lock file |
| `metas`, `file` | the two meta pages and the data pages as the map shows them (the page cache) |
| `dmetas`, `disk` | the part of them that has certainly reached the disk |
| `slot` | `mr_txnid` of each reader's slot |
| `rd` | a read transaction: its position in `mdb_txn_renew0`, `mt_dbs`, `mt_next_pgno` |
| `w` | `env->me_txn` with `me_pgstate`: `mt_txnid`, `mt_dbs`, the page lists |
| `pgoldest` | `me_pgoldest` |
| `fatal` | `MDB_FATAL_ERROR` |
| `ownerdead` | the state of the robust writer mutex |
| `begins` | counts write transactions; the stamp that a write leaves on a page |

A page's content is the stamp of the write transaction that wrote it last, and a
snapshot maps each of its pages to the stamp that it must find there. So
"nobody overwrote my page" is `file[p] = dbs.pg[p]`. The freeDB is a function
from transaction ids to sets of pages, on one page of its own which is copied on
write like any other.

Each access of a reader to shared memory is a step: load `mti_txnid`, store it
in the slot, compare again, copy `mm_dbs`, copy `mm_last_pg`. Each operation of
the writer on private state is one step; in a commit, saving the freeDB,
flushing, syncing, the two parts of the meta page, and the publication are steps
of their own, each of the ones that call the system with its failure. The
writer's scan of the reader table is one step: slots are read one at a time in
the code, but a reader's steps touch only its own slot, so a scan spread over
time sees what an atomic one would see in the interleaving where the readers'
steps are moved around it.

`mdb_page_alloc` is `Alloc`: the loose page first, then the lowest page of
`me_pghead`, refilled from one freeDB record when it is empty, then the page at
`mt_next_pgno`. It scans the reader table only when the code does (`NoScan`), so
`pgoldest` is as stale as `me_pgoldest` is.

Faults are chosen by the constant `Faults`: `"power"` (any part of what was not
synced is lost; slots and mutexes start anew), `"kill"` (the writer's process
dies; a system call in progress completes), `"io"` (data writes and syncs
fail), `"meta"` (the meta page's write fails) and `"persist"` (it fails after it
reached the disk). The run `failures` has them all, under `RecoverableSpec` of `MCMdbTxn`:
no power loss while the disk has the meta page of a failed commit, since the next writer
may have changed that snapshot's pages by then (see Observations).

Bounds and abstractions, all named at the head of the module: `MaxTxn` ids,
`MaxBegins` write transactions, a map of `MaxPg` pages, `DirtyRoom` dirty pages;
no `MDB_WRITEMAP`, `MDB_NOSYNC` or `MDB_NOLOCK`; single-page allocations; no
ENOMEM. The freeDB has one page, which stays when all records are deleted (the
code then frees it and takes another); a record that is left with no page counts
as no record. Memory is sequentially consistent: on processors which delay a
store, a reader's slot could be seen later than the model says, but by less than
the two commits that a reuse of its pages takes. `me_pgoldest` belongs to a
process; the model's writers share one until a process dies or shuts down, and a
value from an older scan is only smaller, hence safer. Transaction ids do not
wrap around.

### LockFile

| Variable | In the code |
|---|---|
| `lockf` | `mti_magic`, `mti_txnid`, `mti_numreaders` |
| `slot` | `mti_readers`: `mr_pid` and `mr_txnid` of each |
| `mutex` | `mti_rmutex`, `mti_wmutex`: the owner, and whether an owner has died |
| `flock`, `pidlock` | the processes' locks on byte 0 and on the byte of their pid |
| `metas` | `mm_txnid` of the two meta pages |
| `env` | `me_live_reader`, `me_close_readers`, `me_pgoldest` of each process |
| `main` | the main thread of each process: its place in the code and its local variables |
| `rdr` | the reader threads: their place, slot and id |
| `starts` | counts `mdb_env_open`, a bound |

A process is its pid, and a pid comes back after its process is gone. A step is an
access to shared memory, or several under a mutex that everyone who looks takes:
a reader loads `mti_txnid`, stores it and compares again; a claim of a slot under
the readers' mutex still takes three steps, since the writer and closing processes
look without the mutex; the writer reads the pid and the id of one slot after the
other; `mdb_reader_check0` takes the table slot by slot, looks at the lock of a pid,
takes the mutex, looks again and clears. Opening is `mdb_env_excl_lock`,
`mdb_env_setup_locks`, `mdb_env_open2` and `mdb_env_share_locks`, closing is
`mdb_env_close0`. With `"kill"` a process dies anywhere; its locks go, its mutexes
pass to the next owner, who recovers (`mdb_mutex_failed`). With `"open"`
`mdb_env_open2` fails. That either happens to the process that initialises the lock
file while another one waits for it is a fault of its own, `"init"`.

Not modelled: Windows and semaphores, `MDB_NOLOCK`, openers with `MDB_RDONLY`, a lock
file of another size or version, `mdb_reader_list`, a thread that dies alone.
Ids of transactions and the number of openings are bounded (`MaxTxn`, `MaxStarts`).

### NestedTxn

`db` is the data file with its last snapshot and the pages that may be taken;
`txns` the stack of transactions, each with its root, `mt_next_pgno`, dirty list,
spill list, freed and loose pages, `mt_dirty_room` and error flag; `mc` the
cursors, each with a backup in every transaction begun since it was opened. A
pointer to a page says in whose dirty list it points, or that it points to the map,
so that a pointer to a freed copy is a pointer that `CursorSees` tells from the
right one. The tree has a root and one leaf page for each key.

Each call is one action, as no other thread sees it: beginning a child, putting,
deleting, dropping, setting a cursor and writing through it, and committing and
aborting any transaction of the stack, with the children it has. In them
`mdb_page_touch` copies what a parent has dirty, `mdb_page_spill` writes pages out
when the list has little room, `mdb_page_unspill` takes them back, and a commit of a
child merges its lists into its parent's, where two of the lists may fail to grow
(`Faults`), one before anything was changed and one after. An operation fails when
the map is full, and the transaction can then only be aborted. What the commit of
the top-level transaction does with the file is in `MdbTxn`. Two shortcuts: an operation
needs a fixed number of pages, `Need`, and as many are spilled, in the code's order,
where the code estimates the first and spills an eighth of the list at least; and pages
that a transaction freed may be taken by the one after the next, there being no readers.

Not modelled: overflow pages, `MDB_WRITEMAP`, named databases, failing allocations
outside the merge, cursors in cursors.

### BTree, SplitPoint and SortedMap

`tree` has the pages (kind and nodes), the root, `md_depth`, `md_entries`, and the
dirty, loose and freed pages; `mc` the cursors' stacks, `ret` what the last call
returned. The C functions call each other and work on cursors by reference, so
each is an operator from a state of tree and cursors to the next one:
`mdb_page_search`, `_node_add`, `_node_del`, `_page_split`, `_node_move`,
`_page_merge`, `_update_key`, `_rebalance`, `_cursor_del0` and the rest, with the
loops over `mt_cursors` that repair other cursors. A run of the actions is a run
of `mdb_put`, `mdb_del`, `mdb_drop`, `mdb_cursor_put`, `mdb_cursor_del` and
`mdb_cursor_get` (`MDB_FIRST`, `LAST`, `NEXT`, `PREV`, `GET_CURRENT`, `SET`, `SET_RANGE`).
Nodes have sizes, which decide what fits, where `SplitIndex` cuts, and when
`mdb_rebalance` takes from a neighbour or merges.

`SortedMap` is what a caller is promised: a map, and cursors each of which stands
at a key, or past the end. `Refines` says that the tree implements it. What a cursor
believes of the end (`C_EOF`) is followed exactly: `MDB_FIRST`, `MDB_PREV`, a search that
finds its key and an `MDB_NEXT` that moves clear it, `MDB_LAST` and an `MDB_NEXT` that
finds nothing set it, other calls leave it as it was or are bound by the place of the
cursor. One step is the code's and not the map's: an `MDB_NEXT` of a cursor that
has `C_EOF`, though a key follows it, and that answers `MDB_NOTFOUND`. It is `Skips`, outside
`SortedMap`'s `Next`, and `Refines` names it; the documentation contradicts it, which is the
run `next_current`. And a cursor whose `MDB_SET` missed may be anywhere. Not modelled: duplicates, overflow pages, LEAF2 pages, spilling, failing
allocations, and `MDB_PREV` of a cursor whose `MDB_SET` missed.

### DbiTable

`env` is the table (`me_dbxs` names, `me_dbflags`, `me_numdbs`), `wr` the write
transaction and those inside it, `rd` a read transaction, each with its copies
(`mt_dbs`, `mt_dbflags`, `mt_numdbs`) and with the records of the main database as it
sees them; `db0` is what the last write transaction left in `me_txn0`. `changed`
stands for the sequence numbers: the handles for which `mt_dbiseqs` of the writer
differs from `me_dbiseqs` (a reader's are the environment's own array, so for it
nothing ever differs). `known` has the names by which callers know the handles, and
`store` and `view` what they did to the databases of these names: what the
properties compare with.

The actions are `mdb_dbi_open` in either transaction, with `MDB_CREATE` or not,
`mdb_dbi_close`, `mdb_drop` with and without deletion, reads and writes, begin, commit
and abort at each level, and another process that creates and drops databases.
`MayOpen` and `MayClose` are the restrictions of the documentation (lmdb.h:1076, 1155).
A read is a step even if it changes nothing but the handle's record, which it reads
when it is stale. `Habits` lets callers read with a handle that was opened for
another database after their transaction began. A database has one set of flags;
the databases' own flags and compare functions, `mdb_stat`, cursors, and a wrap of
the sequence numbers are left out.

### CopyThreads

The provider (`mdb_env_copyfd1`, `mdb_env_cwalk`, `mdb_env_cthr_toggle`) fills
two buffers in turn, and the writer thread (`mdb_env_copythr`) writes them.
`new` is `mc_new` with `MDB_EOF`, `buf` and `over` are `mc_wbuf`/`mc_wlen` and
`mc_over`/`mc_olen`, `toggle` has `mc_toggle` and the writer's own toggle, `next`
is `mc_next_pgno`, `error` says that `mc_error` is set, and `out` is the file. A
page is its number in the copy. `lock` is the mutex; a thread in
`pthread_cond_wait` has given it up and is in `waiting` until a signal, or
nothing at all, wakes it. Steps that take and release the mutex are apart from
what a thread does without it, so the provider's reset of `mc_wlen` and its look
at `mc_error` may come at any point of the writer's work.

The tree walk is abstract: at any point it gives a page, an overflow page with its
tail, an error, or its end. `write` may fail after any number of pages, and
the writer goes on, writing nothing, so that the provider is not left waiting.
Not modelled: the plain copy, the failure to create the thread, and pages of
which a part is written.

### Handles

`state` and `ptr` are those of a `Txn`, `tclosed` is the `isClosed` that only
nativeMain's has, and `ktEnv` has `isOpened` and `isClosed` of the `Env`; `env`,
`ntxn` and `cur[c].nat` are the native objects, and `cur[c].kt` the Kotlin cursor.
`platform` chooses between jvmMain and nativeMain, which differ in three ways:
nativeMain's `Env.close` leaves `isOpened` set (so beginning a transaction
afterwards uses a freed environment, where the JVM's throws; careful callers do not
do it), its `Txn.close` has a flag of its own, and its `Cursor.close` is not idempotent.
An action is a call with everything it does in Kotlin and in C; every native call
may fail. A native call with a freed object has no defined result: it sets
`stale`, and the behaviour ends.

All top-level write transactions of an environment are one native object,
`me_txn0`, which the library keeps when one ends. So a stale pointer to it does
not always point to freed memory: it may be the *next* transaction's, and that
is what `ReadyIsActive` looks at (`by`, the `Txn` that began it). The addresses of
other objects are never reused in the model; in a process they may be, so a call
which sets `stale` could also hit somebody else's object.

The guards of `MayEnd`, `MayUse`, `MayBegin`, `CursorUsable`, `Reset` and `CloseEnv` are
what the documentation asks of callers. `Habits` lifts two of them, so that
what the code does then can be seen. Calls do not overlap. A transaction that
would wait for the writer mutex does not begin. Not modelled: `Dbi` handles and
the environment's other calls.

## Runs

| Run | Instance | Shows |
|---|---|---|
| `reuse` | 1 reader, 4 transactions, no faults | `ConsumedBeforeReaders`, `ReaderFresh`, `ReaderView`, `NoPageLeak`, `CurrentMetaKept`, types, and the invariant `IInv` of the proofs |
| `failures` | power loss, dying writers and all other faults together | `CurrentReadable`, `Durable`, `NoPageLeak`, `CurrentMetaKept` |
| `nometasync` | `MDB_NOMETASYNC`, power loss and dying writers | `CurrentReadable`, and `Durable` but for the last commit |
| `lockfile` | 2 processes, 3 openings, one with 2 reader threads, one that writes and checks | `WriterFollows`, `SlotHeld`, `OldestSafe`, `InitAlone`, `CheckFindsAll` |
| `open_failed` | the same, and the initialising process fails | violates `WriterFollows` |
| `nested` | a transaction and one inside it, 2 keys, a cursor, 7 pages, a dirty list of 3, an empty store and two that are not | `PagesInOneList`, `RoomExact`, `CursorSees`, and the refinement of `NestedStore` |
| `btree` | 5 keys of two sizes, 2 values, 1 cursor beside those of the calls, three trees to start from | `TreeOK`, `StackOK`, `PagesAccounted`, `CommittedKept`, `NoPageFull`, and the refinement of `SortedMap` |
| `next_current` | the same trees | violates `NextIsCurrent` |
| `dbis` | 1 slot, 2 names, a reader, a writer with a child, another process | `CommittedByName`, `RightDatabase`, `HandleKept` |
| `copy` | buffers of 3 pages, copies of up to 12, tails of up to 2 | `BufferOwned`, `SnapshotHeld`, the refinement of `CopyFile`, and that the copy returns |
| `handles` | 3 `Txn`, 1 `Cursor`, careful callers | `NoStaleCall`, `ReadyIsActive`, `NoneLeft` |
| `handles_ended` | operations on ended transactions | violates `EndedTxnThrows` |

Why the bounds are enough:

* `MdbTxn`: seven pages are two meta pages, four pages that can be allocated
  (`mdb_page_alloc` never hands out the last page of the map) and the end; that leaves
  room for a main page, the freeDB's page, and a copy of each. Three transactions are
  enough for a record of the first to be consumed by the third, four for one of the
  second, with a reader on the snapshot before it. The faults have no readers beside them,
  who would only make fewer pages free for the writer; those instances stop when their
  transactions are used up, so deadlock is not checked there. With five
  transactions `failures` shows no error either.
* `LockFile`: two threads that race for two slots beside a writer which scans them and
  a check which clears them, and one opening more than there are processes, so that
  a pid comes back. The instance stops when the openings are used up. The other
  arrangement, one thread in each process, was tried by hand with the invariant
  of the proofs, `"init"` included (6.45 million states).
* `NestedTxn`: a dirty list of three pages is full with a root, a leaf and one page
  more, so that the next write spills. In a map of seven pages a transaction has two new
  ones beside a store with one key, enough to change it or to add another, and three on the
  empty store, whose old page it may not take yet; then the map is full. By hand: two
  transactions one after the other, with one key and a map of eight (57,712 states), and
  three inside each other without a cursor (90,836 states). A transaction that failed can only
  be aborted and the number of transactions is bounded, so the instance stops.
* `BTree`: pages of 13 bytes hold two large nodes or more small ones; five keys give trees of
  three levels, whose root splits and goes away again. One start is a committed
  tree, all of whose pages must be copied, one a small committed one with little
  room, one a tree of dirty pages. The view counts trees that differ in page
  numbers only as one; the number of pages is bounded, and then only reads go on.
* `DbiTable`: one slot is the instance in which a handle is always reused. With two slots
  and no child 2.69 million states show no error either.
* `CopyThreads`: twelve pages fill four buffers, so each thread uses each buffer twice, and
  the walk can end with the writer idle, busy or a buffer behind. A copy stops
  when it has returned; that it does not stop before is `Returns`.
* `Handles`: three `Txn` objects are a parent, a child and another top-level transaction,
  before, beside or after them; each is constructed once, so the system stops when
  all of them and the environment are closed, and deadlock is not checked there.

Each property has a mutant: a definition changed as a plausible error would
change it, under which the property fails. They stand before the definition they
change.

Some of them are worth knowing. The comparison of a record's id with the oldest
reader is strict, and `nometasync` shows why: with `<=` no reader is harmed, but
a commit could reuse pages of the snapshot that the disk still has as the newest
(`UsableToo`). Without the recovery of `mti_txnid` after the death of a
writer, the next one overwrites pages of a commit which `mdb_env_pick_meta`
already takes for the newest (`LastPublished`). `mdb_reader_check0` must look a second time after
it has the mutex, or it clears a slot of a process that has come back with the pid
of the dead one (`RecheckNot`).

### What the violations show

* **An ended transaction that works** (`handles_ended`). Two tests expect that
  operations fail after `commit` and `abort`. The operations do not check the
  state, and the ended `Txn` has the pointer of `me_txn0`: as soon as another write
  transaction is open, they act on that one.
* **A failed initialisation** (`open_failed`). The process that has the exclusive lock
  clears `mti_txnid` and sets the magic number, and gives `mti_txnid` its value only
  after `mdb_env_open2`. If it fails or dies in between, the process that waits
  for the lock finds an initialised file and goes on with `mti_txnid` 0: its first
  transaction has the id 1, and overwrites what the newest meta page refers to.

* **The end, remembered** (`next_current`). A cursor that has seen the end keeps `C_EOF`
  when keys are added behind it or others removed, and `mdb_cursor_next` looks at that flag
  first. After `MDB_LAST`, a put of a greater key and `mdb_cursor_del` the cursor stands at the
  greater key: `MDB_GET_CURRENT` returns it, and `MDB_NEXT` says `MDB_NOTFOUND`, whereas
  lmdb.h:1515 says that both "will return the same record after" a deletion. The compiled
  library does the same.

### Observations

What else was met. No run stands for these; each can be repeated by hand as said.

* **The id is not the snapshot's.** A reader verifies its id N, is delayed while
  N+1 commits and N+2 writes meta page N mod 2, and copies the snapshot N+2, whereas
  the documentation of `mdb_txn_id` (and of `Txn.id`) says that the id is that of
  the snapshot. The reader's data are still safe: `ReaderFresh` and `ReaderView` hold,
  and are proved. The same reader can be between the two parts of the page's
  change, and have the new trees with the old `mm_last_pg`: its reads then fail with
  `MDB_PAGE_NOTFOUND`. The model has these states; no property speaks of them.
* **A failed meta write.** The code restores `mm_last_pg` and `mm_txnid`, and leaves the
  new `mm_dbs`. A reader whose id has that parity copies the trees of the failed
  commit, whose pages the next writer overwrites (`ReaderView` with a reader and
  `Faults = {"meta"}`).
* **A failed meta write that reached the disk.** The old data is written back to the
  page cache only. After another writer has reused the pages and the power is
  lost, recovery picks the failed commit's meta page (`CurrentReadable` with
  `Faults = {"persist", "power"}`).
* **A child of an ended parent.** The documentation lets a parent commit or abort while
  it has a child, and the library frees the child with it. The child's `Txn` does
  not learn of it: it is still `Ready`, and its next operation, or merely its
  `close`, uses the freed object (`ReadyIsActive` with `Habits = {"parent_first"}`).
* **A split in the middle.** On a page of more nodes than `KeyThresh`, when the new one is
  small and not the last, `mdb_page_split` cuts in the middle without looking at
  sizes (mdb.c:8881). If the nodes of one half are much larger, the new node does
  not fit there: `MDB_PAGE_FULL`, and the transaction can only be aborted. The
  compiled library does the same. `NoPageFull` holds in `btree`, whose pages are
  below the threshold.
* **A handle reused.** A transaction that has resolved a handle as `a`, before it was closed
  and opened again as `b` by another one, reads `a` through `b`'s handle, though
  lmdb.h:1073 speaks of the handle as usable (`RightDatabase` with `Habits = {"reuse"}`).
  Writes are refused with `MDB_BAD_DBI`.
* **A database dropped elsewhere.** A put through a handle whose database another process
  has dropped recreates it, if the record left in `me_txn0` was empty, where
  `mdb_get` says `MDB_BAD_DBI`.
* **Two checks.** The comparison of sequence numbers in `mdb_cursor_touch` and the one at
  commit back each other up: without either, `CommittedByName` still holds.
* `reset` refuses the state `Ready`, so a live read transaction can never be
  reset and renewed; it accepts `Released`, which it turns into `Reset` (and for
  a read-only transaction calls `mdb_txn_reset` with freed memory; the model's callers
  know better). `Txn.begin` drops its options.

## Proofs

`MdbTxnProof` shows `Spec => []TypeOK` for every value of the constants, with the
strengthening `TypeInv`: a writer that is not idle has a positive id.

It goes on with two inductive invariants, for every number of readers, pages and
transactions. They share `CoreInv`, which is about the meta pages and the writer.

* `CrashInv` holds whatever fails, with and without `MDB_NOMETASYNC`
  (`RecoverableFaults`), but for a failed write of a meta page that stays on the disk
  and then a power loss; with those `CurrentReadable` is false (see Observations). From
  it follow `CurrentReadable`, `NoPageLeak`, `Durable` and `CurrentMetaKept`.
* `IInv` adds the readers, and holds whatever fails but a write of a meta page;
  with `"meta"` `ReaderView` is false (see Observations). From it follow `ReaderView`,
  `ConsumedBeforeReaders` and `ReaderFresh`.

Why `ReaderView` is not inductive, and how `IInv` strengthens it: that the pages
of a reader's snapshot are untouched *now* says nothing of the next step of the
writer. The invariant says which pages a writer may take (`Fresh`: past the end
of the last snapshot, or in a record it has consumed), that everything it
has taken is fresh (`ListInv`, `CommitInv`), and that the pages of every
verified reader are neither past the end nor in a record older than the reader's
slot (`Protected`). The link is `ConsumedBeforeReaders` with
`pgoldest <= slot[r]`: the writer consumes only records below `pgoldest`, which a
scan can only raise to the smallest verified slot, and which a reader that
verifies later cannot undercut, because it has just compared its slot with
`mti_txnid`: this is where the loop of ITS#7970 is needed. (Without the loop
`ConsumedBeforeReaders` fails, and so does `IInv`. `ReaderView` survives in the
instances that were tried, because the meta page that a late reader copies is
always one of the two newest.) A reader that has
verified its slot and not copied its meta page yet is protected for *either*
content that page may have by then (`OneReaderInv`, third part). `MetaInv` keeps
the ids of the meta pages apart from each other, also after the death of a writer
between writing its meta page and publishing it, and `TopInv` says that the
newest snapshot is whole and that its pages and freeDB records are disjoint.

Each action has a lemma; those of the working transaction go through lemmas on
`Alloc` and `Refill`, those of the commit through `CommitInv`, and the steps of
readers through `Safe`.

`NoPageLeak` is an equality: `CoreInv` has that no page is in two places, and `LeakInv` that
each is in one. Up to the end of its file a transaction keeps every page in a tree, in one
of its lists or in a record it has not consumed (`Kept`). That a record is
consumed as a whole, and the oldest first, matters here: `me_pglast` stands
for all the records before it, which are deleted at commit, so none of them
may have a page left (`RefillCover`). Loose pages go to the freed
list, or back with `me_pghead` under `me_pglast`, and the first only when no record was
consumed, because then there is no record to put them back to (`LooseCover`, `SaveCover`).

`CurrentReadable` after a power loss is not inductive either: it must hold of every
combination of meta pages and data pages that can be left. `DiskInv` says of each
meta page that can be the newest one then that its snapshot is complete, both in
the file and on the disk, so that any mixture of the two has it (`Whole`,
`Survivor`). Either the last published meta page is on the disk (`Level`), or, with
`MDB_NOMETASYNC`, it may be still the one before (`Behind`). That
one's pages are free already for the writer, by their place in the freeDB; they are safe
because the oldest that a writer takes is below the id of that snapshot
(`KeptBy`, and `pglast < mti` in `MetaInv`): the strict comparison in `mdb_page_alloc` that
`UsableToo` breaks. `Behind` ends with the sync of the next commit, before its meta page
overwrites the older one. `Durable` follows, as a power loss leads to the published id,
the next one when its meta page was written, or the one before when `Behind`.

TLC checks `IInv` without faults in the run `reuse`. `CrashInv` was checked by hand, with all
faults but `"persist"` (632,164 states with `MDB_NOMETASYNC`), before it was proved.

`LockFileProof` shows, for any number of processes, threads, slots and openings,
and whatever fails (`"init"` included), that `LockFileInv` is inductive, and from it
`InitAlone` and `SlotHeld`. `FlockInv` is the argument for the first: what every process
has got to, against the lock it has on the file. A process has mapped the file only
with a lock, so nobody has it mapped beside the exclusive lock, which the
initialising process keeps until it has downgraded it. `TableInv` is the argument for the
second. A slot is claimed only with the readers' mutex, and cleared only with it
(`OwnerInv`), but by then the decision to clear it is old: what makes it right is
that a process locks the byte of its pid before any of its slots has the pid
(`LiveInv`, `PidInv`), and that the check looks at that lock again, with the mutex, in
which moment no slot of the pid can be anybody's. `ClaimInv` says how far a claim
has got, and `DistinctInv` that two threads never have the same slot, which needs
that a claim takes a free one and that a slot between `mr_pid` 0 and its pid is
known only to the owner of the mutex.

It goes on from there, for the same constants, with three invariants.

* `WriterInv` and `ReadyInv` give `WriterFollows` when `"init"` is not among the faults
  (`LockInit` shows that it fails with it). A writer's id is always `mti_txnid + 1`, and
  who has the writers' mutex (`Holds`: also the heir of a dead writer, while it checks the
  readers) is the only one who can change either. That `mti_txnid` is the newest meta page's id
  holds from the point where a writer has the mutex in a consistent state to its meta
  page; in between deaths it may be behind (`TxnidOK`), and then the mutex says so, or
  somebody is between his meta page and `mti_txnid`. After an initialisation it is 0 until
  `ShareTxnid`: nobody gets past the exclusive lock before that.
* `ScanInv` gives `OldestSafe` whatever fails. During a scan it is false that `old` is at most
  every reader's id: a reader whose slot is still to come may be older. The invariant says
  which slots are left (`slot <= i`, and slot `i` itself when its `mr_pid` has been seen and its
  id has not), and that a thread that verifies its id behind the scan's back has one that
  is not below `mti_txnid`, which no scan's result exceeds (`TxnidGrows`:
  under an open environment `mti_txnid` never goes back).
* `FindInv` gives `CheckFindsAll`: every slot of a process that was dead when the check began
  lies at `i` or beyond, its pid is not among those seen, and it cannot get new
  slots (`DeadSlots`), because a slot gets a pid only while the byte of that pid is locked; the slots that
  a claim adds during the check have no pid (`Count` before `SetPid`).

`LeastNat` has the one fact about numbers that the proofs of scans, of the reader table and of
the handle table, need.

`CopyThreadsProof` shows for buffers of any size and copies of any length that the
threads never use the same buffer (`BufferOwned`), though the provider holds no
mutex while it fills, resets or frees one. The property is not inductive: which
buffer the writer takes next depends on how many were handed over. `TogglesInv`
relates the two: the threads' toggles agree exactly when `mc_new` counts an even
number of buffers; `CountInv` bounds that number at each point of the provider,
and `LockInv` says that the writer works only with the mutex, on something handed
over. `SnapshotInv` gives `SnapshotHeld`.

`CopyRefines` proves that the two threads implement `CopyFile`: whatever the sizes, the
schedule and the errors, the file has the pages in the order of their numbers without
gaps, and a copy that returns success has written all of them. Its invariant `FileInv`
(TLC: 28,588 states on the instance of the run `copy`) adds four facts. `QueueInv`: until an
error the file, the rest of the writer's buffer (`mc_toggle` of the writer), the overflow
tail behind it, the other buffer and its tail are the pages from 0 to `mc_next_pgno`, cut at
three places. `EmptyInv`: a buffer that was given back is empty and has no tail, so that
`mdb_env_cthr_toggle`'s reset of `mc_wlen` outside the mutex loses nothing, and at the join,
where `mc_new` is `MDB_EOF`, nothing is left to write. `BeginInv` is about the time before the
meta pages and `OutInv` about the file alone. `FileStep` maps the steps: `AddPage` and
`AddOverflow` are `Grow`, `WriteBuffer` and `WriteTail` are `Extend` or a stutter, `Join` is
`Return`, and every other step is a stutter. `Returns` is model-checked.

`HandlesProof` shows, for any number of `Txn` and `Cursor` objects and any nesting of
transactions, that careful callers (`Habits = {}`) never reach a freed object, and that
`ReadyIsActive` and `NoneLeft` hold. The difficulty is that a native transaction frees its
descendants, along `mt_child`, while callers are only asked to have no `Txn` left that is
`Ready` and names it as its parent. `OwnInv` makes active native objects and `Ready` `Txn`s
belong to each other one to one, and `LineInv` makes `mt_child` and `mt_parent` agree: so a
child is somebody's `Ready` transaction, and one that may be ended has none (`NoChild`)
and frees only itself (`LineAlone`). `EnvInv` has what `isOpened` says of the native environment
on each platform, and `CursorInv` that an open cursor of a transaction that is `Ready` is live
and points to it, and that one no transaction tracks stays live until it is closed. A lemma
per call, most of them through `QuietStep`, `BeginStep`, `EndStep` and `CursorStep`.

`DbiTableProof` shows, for any number of names, keys and slots and any depth of nesting, that
`DbiInv` is inductive with all `Habits`, and from it `CommittedByName` and `HandleKept`; also
`RightDatabase`, when `"reuse"` is not among the habits (with it the property is false,
see Observations). None of the three can be proved from itself. A slot's number says
nothing of its name, and a transaction keeps its own flags and record for a slot while
others close it and give it away. The invariant is in two parts.

* `HandleInv` is about who knows a handle. An open handle is known outside, or it was
  opened by a live transaction that has the flag `NEW` for it (`TableInv`). What a
  transaction's callers know is right and no less than what is known outside (`KnowsInv`);
  a child knows more than its parent, and the parent does not know what the child opened
  (`Inside`). Only one side has opened handles at any time, the reader or the writers, and the
  other does not know them (`WithReader`): this is where the restriction on
  `mdb_dbi_open` is needed. A transaction that may open handles has every open one in its
  own copy (`FullInv`), so the slot it takes for free is free; hence no two handles
  have one name.
* `ContentInv` is about what is under them. For each writer, at each level: a
  record it would commit is what its callers see by that name, unless the handle has changed
  meanwhile; a name it has no dirty handle for is in the main database as callers see it;
  and what it has loaded under a handle its callers know is the database they mean (`WriterInv`).
  The last needs `LoadedInv`: a record loaded under a handle that nobody knows by now is
  behind a changed sequence number, or a transaction further inside opened the handle.
  Without it the commit of a reader would make a stale record readable again under a
  new name. A dirty handle whose record is still stale (`mdb_put` takes a record that
  an earlier transaction left in `me_txn0` for a new one when its root is empty) is right
  only if the main database has no record of that name, which `WriterInv` says too.

`StepCases` reduces a writer's operations on a database to three kinds of step: one that reads the
record (`WriterReads`), one that changes it (`WriterChanges`) and one that drops the database
(`WriterDrops`); a lemma for each of them and each other action follows, in both parts.
TLC checked `DbiInv` by hand before the proof: 184,630 states on the instance of the
run `dbis`, and the first 2.8 million with two slots and `"reuse"`.

`NestedTxnProof` and `NestedTxnSafety` show, for any number of leaves, values, cursors and
pages, any size of the dirty list, any depth of nesting and whatever fails, that no page
is lost or in two lists (`PagesAccounted`), that `mt_dirty_room` is exact (`RoomCounted`),
that cursors point at the pages in use (`CursorsFollow`), and that the stack of transactions
implements `NestedStore` (`Implements`). None of the three invariants can be proved alone, and
all are about the last transaction, so that they say nothing of what an abort or a merge
brings back. The inductive invariant `Whole` says of *every* transaction of the stack
that it is `Good` with the freelist and the cursors it has, or those that its child
has a backup of. A transaction sees those below it only through its environment (`EnvOf`):
where `mdb_page_get` finds a page in them and what is in it, which pages they hold in
dirty and spill lists, have freed or have loose, and which pages none of them has, so
that it may take them. `Good` has five parts.

* `Mem`: its dirty and spilled pages are apart, were nobody's or its parents' and never
  a loose page of a parent, are below `mt_next_pgno`, and are not in the reclaimed list.
* `RoomIn`: `mt_dirty_room` is what the lists of the stack up to it leave.
* `TreeShape`: the page that its root leads to has each leaf page once.
* `Parts`: the pages up to `mt_next_pgno` are, each exactly once, in its tree, reclaimed, free
  or loose in it or below, or recently freed; but for `E`, the pages that an operation
  has allocated and not yet linked. Inside an operation `E` is the one page in flight.
* `Curs`: a cursor's stack is the path to its leaf.

How they need each other: a page is copied from a parent only through a pointer that `Curs`
speaks of; a new page is in no dirty list because `Parts` has it elsewhere and
`Mem` keeps the lists apart; a spilled page is written over a page of the file that no
transaction below reads, because what they read in the file is not in `Held`; and the
merge adds the child's pages to the parent's without counting one twice because the
environments of the two agree. Operations of the last transaction (`NestedTxnProof`) are
proved against the environment alone, so that they hold at any depth: a lemma for each
of `mdb_page_alloc`, `mdb_page_touch`, `mdb_page_unspill`, `mdb_page_spill`, `mdb_page_new`,
`mdb_cursor_touch` and the rest, which says that it failed and left `Good`, or
how the tree's values changed. `SeenApart` then lifts a change of the file to the transactions
below, and `MergeIs`, `AbortOneIs`, `CommitTopIs` are about the ends, of which `EndedIs`
takes any number, by the least number for which it would fail. `Implements` follows, since the lemmas say of each
operation what becomes of the values in the trees (`ValsAt`), and `ViewIs` that these are what
the refinement mapping reads. It says not only that each step is one of `NestedStore` but
which (`AsCalled`): a put or a deletion writes its value for its key or fails, an abort
takes back what its transaction and those inside it did, and a commit in which nothing
fails hands on what the last of them sees. TLC checks `Whole`, but for the types, in 103,344
states on the instance of the run `nested`.

Only model-checked: `BTree`, whose recursive operators are out of the prover's reach, and
that it refines `SortedMap`; the liveness property `Returns`. Liveness and induction
over data are out of reach.

The assumptions of the proofs are those named in the modules: `BoundsAssumption` and
`ModeAssumption`, `LockFileAssumption`, `CopyAssumption`, `HandlesAssumption`,
`DbiTableAssumption` and `NameAssumption`, `NestedAssumption` and `ErrorAssumption`; they say that bounds are natural numbers, that no
database has the empty name, which marks a free slot, that no value is the mark of a
failed transaction and no cursor of a caller the one of `mdb_put`, that the map has room for the
pages to start from, that pids are above 0, that `me_txn0` is none of the other objects, and which
faults and habits there are.

Fairness: only `CopyThreads` states any, for `Returns`. It assumes that both
threads are scheduled (weak fairness of each), which also says that `write`
returns, and that threads do not wake from `pthread_cond_wait` without a signal
forever; otherwise a writer which wakes and sleeps again could keep the mutex from
the provider. In the other modules nothing waits but for a mutex or a lock on the
file, whose owner may be an application that never ends its transaction; their
properties are safety properties.

## Plan

1. A map from ids to contents as the abstract specification of `MdbTxn`, and the scan
   of `LockFile` as an implementation of `MdbTxn`'s.
2. The plain copy against a writer, and the order of pages in the tree walk.
3. Duplicates and their cursors in `BTree`.

## Not modelled

| What | Why |
|---|---|
| duplicates (`MDB_DUPSORT`, sub-cursors, LEAF2 pages), overflow pages | a second tree, or a second page format, inside each node: it would double `BTree`, whose instances are at the limit already |
| the sizes of freeDB records (the loop of `mdb_freelist_save`) | see `MdbTxn`: it needs a tree of records on its own pages |
| `MDB_WRITEMAP`, `MDB_NOSYNC`, `MDB_NOLOCK`, read-only openers | other protocols with weaker promises |
| Windows, System V and POSIX semaphores | another lock file protocol, chosen at compile time |
| ID lists (`midl.c`), key orders (`mdb_cmp_*`) | sequential functions of arrays and byte strings, without state |
| failing allocations, except in the merge of a child | one error path per call, all alike |
| the wrapper's `Dbi`, values, comparer registry, options, statistics | conversions and enumerations; what could go wrong is the lifetime of buffers |
| the binding and the build | declarations |
