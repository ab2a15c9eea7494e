------------------------------ MODULE LockFile ------------------------------
(***************************************************************************)
(* The lock file that the processes of an environment share (mdb.c): who   *)
(* initialises it (mdb_env_open, mdb_env_setup_locks), the reader table    *)
(* (mdb_txn_renew0, mdb_reader_check0, mdb_env_close0), which the writer   *)
(* scans without its mutex (mdb_find_oldest), the two robust mutexes       *)
(* (mdb_mutex_failed) and mti_txnid.  The POSIX mutex variant.             *)
(*                                                                         *)
(* A process is its pid, and a pid comes back when its process is gone.    *)
(* Each process has a main thread, which opens, writes, checks the readers *)
(* and closes, and reader threads.  A step is what no other thread or      *)
(* process can tell from an atomic one: an access to the shared memory, or *)
(* several under a mutex that all who look take.                           *)
(***************************************************************************)
EXTENDS Integers, FiniteSets

CONSTANTS Pids,           \* natural numbers above 0
          Readers,        \* the reader threads <<p, t>>, p \in Pids
          Writers,        \* the processes that write
          Checkers,       \* the processes that call mdb_reader_check
          MaxReaders,     \* slots of the table
          MaxTxn,         \* bound of the model: ids of transactions
          MaxStarts,      \* bound of the model: calls of mdb_env_open
          Faults          \* subset of AllFaults

\* "kill": a process dies; "open": mdb_env_open2 fails; "init": both may happen
\* to the process that initialises the lock file while another one waits for it.
AllFaults == {"kill", "open", "init"}
ASSUME LockFileAssumption ==
  /\ MaxReaders \in Nat /\ MaxTxn \in Nat /\ MaxStarts \in Nat
  /\ Pids \subseteq Nat \ {0} /\ Writers \subseteq Pids /\ Checkers \subseteq Pids
  /\ Readers \subseteq Pids \X Nat
  /\ Faults \subseteq AllFaults

VARIABLES lockf,   \* mti_magic is set, mti_txnid, mti_numreaders
          slot,    \* mti_readers: mr_pid and mr_txnid
          mutex,   \* mti_rmutex, mti_wmutex: the owner, and whether one has died
          flock,   \* each process's fcntl lock on byte 0 of the file
          pidlock, \* the processes with a lock on the byte of their pid
          metas,   \* mm_txnid of the two meta pages
          env,     \* me_live_reader, me_close_readers, me_pgoldest
          main,    \* the main threads
          rdr,     \* the reader threads
          starts   \* counts mdb_env_open

vars == <<lockf, slot, mutex, flock, pidlock, metas, env, main, rdr, starts>>

NoTxn == MaxTxn + 1     \* (txnid_t)-1, above every id
NoPid == 0
NoOne == <<>>
Slots == 1 .. MaxReaders
ReadersOf(p) == {r \in Readers : r[1] = p}

NewEnv  == [live |-> FALSE, close |-> 0, oldest |-> 0]
NewMain == [at |-> "down", excl |-> FALSE, txnid |-> 0, old |-> 0,
            i |-> 0, n |-> 0, pid |-> NoPid, seen |-> {}, stale |-> {}, next |-> "up"]
NewRdr  == [at |-> "idle", slot |-> 0, txnid |-> NoTxn]

Init == /\ lockf = [magic |-> FALSE, txnid |-> 0, nreaders |-> 0]
        /\ slot = [i \in Slots |-> [pid |-> NoPid, txnid |-> NoTxn]]
        /\ mutex = [m \in {"r", "w"} |-> [owner |-> NoOne, dead |-> FALSE]]
        /\ flock = [p \in Pids |-> "none"]
        /\ pidlock = {}
        /\ metas = [m \in 0 .. 1 |-> 0]
        /\ env = [p \in Pids |-> NewEnv]
        /\ main = [p \in Pids |-> NewMain]
        /\ rdr = [r \in Readers |-> NewRdr]
        /\ starts = 0

PickMeta == IF metas[0] < metas[1] THEN metas[1] ELSE metas[0]

At(p, at) == main[p].at = at
Goto(p, at) == main' = [main EXCEPT ![p].at = at]
Mapped == {p \in Pids : main[p].at \notin {"down", "lock", "wait", "closed"}}
Open == {p \in Mapped : main[p].at \notin
           {"init", "attach", "open2", "publish", "downgrade", "closing"}}

-----------------------------------------------------------------------------
(* Mutexes.  A mutex whose owner died is given to the next one who asks,   *)
(* who repairs what it protects.                                           *)

Free(m)    == mutex[m].owner = NoOne
Lock(m, o) == Free(m) /\ ~mutex[m].dead /\ mutex' = [mutex EXCEPT ![m].owner = o]
Unlock(m)  == mutex' = [mutex EXCEPT ![m].owner = NoOne]
OwnerDead(m) == Free(m) /\ mutex[m].dead

Alive(q) == q \in pidlock                     \* mdb_reader_pid(Pidcheck)
\* mdb_reader_check0 by process p with the reader mutex: other processes'
\* slots are cleared if the process is dead.
SlotsChecked(p) ==
  [i \in Slots |-> IF i <= lockf.nreaders /\ slot[i].pid # p /\ ~Alive(slot[i].pid)
                   THEN [slot[i] EXCEPT !.pid = NoPid] ELSE slot[i]]

-----------------------------------------------------------------------------
(* mdb_env_open and mdb_env_close.                                         *)

Start(p) ==
  /\ At(p, "down") /\ starts < MaxStarts
  /\ starts' = starts + 1
  /\ env' = [env EXCEPT ![p] = NewEnv]
  /\ main' = [q \in Pids |-> IF q = p THEN [NewMain EXCEPT !.at = "lock"]
                             ELSE [main[q] EXCEPT !.stale = @ \ {p}]]
  /\ UNCHANGED <<lockf, slot, mutex, flock, pidlock, metas, rdr>>

\* mdb_env_excl_lock: exclusive if nobody has a lock, else wait to share it.
ExclLock(p) ==
  /\ At(p, "lock")
  /\ IF \A q \in Pids : flock[q] = "none"
     THEN flock' = [flock EXCEPT ![p] = "excl"] /\ Goto(p, "init")
     ELSE UNCHANGED flock /\ Goto(p, "wait")
  /\ UNCHANGED <<lockf, slot, mutex, pidlock, metas, env, rdr, starts>>

\* Mutant of ShareLock: the process does not wait.
ShareLockAtOnce(p) ==
  /\ At(p, "wait")
  /\ flock' = [flock EXCEPT ![p] = "shared"]
  /\ Goto(p, "attach")
  /\ UNCHANGED <<lockf, slot, mutex, pidlock, metas, env, rdr, starts>>

ShareLock(p) ==
  /\ At(p, "wait") /\ \A q \in Pids : flock[q] # "excl"
  /\ flock' = [flock EXCEPT ![p] = "shared"]
  /\ Goto(p, "attach")
  /\ UNCHANGED <<lockf, slot, mutex, pidlock, metas, env, rdr, starts>>

\* Only the counts: the slots keep what they had.
InitTable(p) ==
  /\ At(p, "init")
  /\ mutex' = [m \in {"r", "w"} |-> [owner |-> NoOne, dead |-> FALSE]]
  /\ lockf' = [magic |-> TRUE, txnid |-> 0, nreaders |-> 0]
  /\ main' = [main EXCEPT ![p].at = "open2", ![p].excl = TRUE]
  /\ UNCHANGED <<slot, flock, pidlock, metas, env, rdr, starts>>

Attach(p) == /\ At(p, "attach")
             /\ Goto(p, IF lockf.magic THEN "open2" ELSE "closing")
             /\ UNCHANGED <<lockf, slot, mutex, flock, pidlock, metas, env, rdr, starts>>

Awaited(p) == flock[p] = "excl" /\ \E q \in Pids : At(q, "wait")

Open2(p) ==
  /\ At(p, "open2")
  /\ \/ Goto(p, IF main[p].excl THEN "publish" ELSE "up")
     \/ "open" \in Faults /\ (main[p].excl => "init" \in Faults) /\ Goto(p, "closing")
  /\ UNCHANGED <<lockf, slot, mutex, flock, pidlock, metas, env, rdr, starts>>

\* Mutant of ShareTxnid: mti_txnid stays 0.
ShareNoTxnid(p) == Goto(p, "downgrade") /\ UNCHANGED lockf

\* mdb_env_share_locks: the id of the newest meta page, then the shared lock.
ShareTxnid(p) == Goto(p, "downgrade") /\ lockf' = [lockf EXCEPT !.txnid = PickMeta]

Share(p) ==
  \/ /\ At(p, "publish") /\ ShareTxnid(p)
     /\ UNCHANGED <<slot, mutex, flock, pidlock, metas, env, rdr, starts>>
  \/ /\ At(p, "downgrade") /\ Goto(p, "up")
     /\ flock' = [flock EXCEPT ![p] = "shared"]
     /\ UNCHANGED <<lockf, slot, mutex, pidlock, metas, env, rdr, starts>>

\* mdb_env_close, when no transaction is open.
Close(p) ==
  /\ At(p, "up") /\ \A r \in ReadersOf(p) : rdr[r].at = "idle"
  /\ Goto(p, "closing")
  /\ UNCHANGED <<lockf, slot, mutex, flock, pidlock, metas, env, rdr, starts>>

\* The slots of the process among those it knows of.
CloseSlots(p) == [i \in Slots |-> IF i <= env[p].close /\ slot[i].pid = p
                                  THEN [slot[i] EXCEPT !.pid = NoPid] ELSE slot[i]]

\* Closing the descriptor releases the process's locks on the file.
Unlocked(p) == /\ flock' = [flock EXCEPT ![p] = "none"]
               /\ pidlock' = pidlock \ {p}
NoReaders(p) == rdr' = [r \in Readers |-> IF r[1] = p THEN NewRdr ELSE rdr[r]]

Close0(p) ==
  \/ /\ At(p, "closing") /\ Goto(p, "closed")
     /\ slot' = CloseSlots(p) /\ NoReaders(p)
     /\ UNCHANGED <<lockf, mutex, flock, pidlock, metas, env, starts>>
  \/ /\ At(p, "closed") /\ main' = [main EXCEPT ![p] = NewMain]
     /\ Unlocked(p)
     /\ UNCHANGED <<lockf, slot, mutex, metas, env, rdr, starts>>

\* The process is gone at once, with its threads and its locks on the file.
Kill(p) ==
  /\ "kill" \in Faults /\ ~At(p, "down") /\ (Awaited(p) => "init" \in Faults)
  /\ main' = [main EXCEPT ![p] = NewMain] /\ NoReaders(p) /\ Unlocked(p)
  /\ mutex' = [m \in {"r", "w"} |-> IF mutex[m].owner \in {<<p>>} \cup ReadersOf(p)
                                    THEN [owner |-> NoOne, dead |-> TRUE] ELSE mutex[m]]
  /\ UNCHANGED <<lockf, slot, metas, env, starts>>

-----------------------------------------------------------------------------
(* A read transaction of thread r (mdb_txn_renew0, mdb_txn_end).           *)

RAt(r, at)   == rdr[r].at = at /\ r[1] \in Open
RGoto(r, at) == rdr' = [rdr EXCEPT ![r].at = at]

\* A thread or transaction that has a slot uses it again, or MDB_BAD_RSLOT.
Begin(r) ==
  /\ RAt(r, "idle")
  /\ rdr[r].slot # 0 => slot[rdr[r].slot] = [pid |-> r[1], txnid |-> NoTxn]
  /\ RGoto(r, IF rdr[r].slot # 0 THEN "load" ELSE IF env[r[1]].live THEN "claim" ELSE "pidset")
  /\ UNCHANGED <<lockf, slot, mutex, flock, pidlock, metas, env, main, starts>>

Pidset(r) ==
  /\ RAt(r, "pidset")
  /\ pidlock' = pidlock \cup {r[1]}
  /\ env' = [env EXCEPT ![r[1]].live = TRUE]
  /\ RGoto(r, "claim")
  /\ UNCHANGED <<lockf, slot, mutex, flock, metas, main, starts>>

LockTable(r) ==
  /\ RAt(r, "claim") /\ RGoto(r, "choose")
  /\ \/ Lock("r", r) /\ UNCHANGED slot
     \/ /\ OwnerDead("r") /\ slot' = SlotsChecked(r[1])
        /\ mutex' = [mutex EXCEPT !["r"] = [owner |-> r, dead |-> FALSE]]
  /\ UNCHANGED <<lockf, flock, pidlock, metas, env, main, starts>>

\* The first free slot, or the next new one.
FreeSlot == LET free == {i \in 1 .. lockf.nreaders : slot[i].pid = NoPid}
            IN  IF free = {} THEN lockf.nreaders + 1 ELSE CHOOSE i \in free : \A j \in free : i <= j

Choose(r) ==
  /\ RAt(r, "choose")
  /\ IF FreeSlot > MaxReaders                      \* MDB_READERS_FULL
     THEN RGoto(r, "idle") /\ Unlock("r") /\ UNCHANGED slot
     ELSE /\ slot' = [slot EXCEPT ![FreeSlot] = [pid |-> NoPid, txnid |-> NoTxn]]
          /\ rdr' = [rdr EXCEPT ![r].at = "count", ![r].slot = FreeSlot]
          /\ UNCHANGED mutex
  /\ UNCHANGED <<lockf, flock, pidlock, metas, env, main, starts>>

Count(r) ==
  /\ RAt(r, "count") /\ RGoto(r, "setpid")
  /\ LET n == IF rdr[r].slot > lockf.nreaders THEN rdr[r].slot ELSE lockf.nreaders
     IN  /\ lockf' = [lockf EXCEPT !.nreaders = n]
         /\ env' = [env EXCEPT ![r[1]].close = n]
  /\ UNCHANGED <<slot, mutex, flock, pidlock, metas, main, starts>>

SetPid(r) ==
  /\ RAt(r, "setpid") /\ RGoto(r, "load")
  /\ slot' = [slot EXCEPT ![rdr[r].slot].pid = r[1]]
  /\ Unlock("r")
  /\ UNCHANGED <<lockf, flock, pidlock, metas, env, main, starts>>

Load(r) ==
  /\ RAt(r, "load")
  /\ rdr' = [rdr EXCEPT ![r].at = "store", ![r].txnid = lockf.txnid]
  /\ UNCHANGED <<lockf, slot, mutex, flock, pidlock, metas, env, main, starts>>

Store(r) ==
  /\ RAt(r, "store") /\ RGoto(r, "verify")
  /\ slot' = [slot EXCEPT ![rdr[r].slot].txnid = rdr[r].txnid]
  /\ UNCHANGED <<lockf, mutex, flock, pidlock, metas, env, main, starts>>

\* Mutant of Verify: whatever mti_txnid is by now.
VerifyNothing(r) ==
  /\ RAt(r, "verify") /\ RGoto(r, "reading")
  /\ UNCHANGED <<lockf, slot, mutex, flock, pidlock, metas, env, main, starts>>

Verify(r) ==
  /\ RAt(r, "verify")
  /\ RGoto(r, IF slot[rdr[r].slot].txnid = lockf.txnid THEN "reading" ELSE "load")
  /\ UNCHANGED <<lockf, slot, mutex, flock, pidlock, metas, env, main, starts>>

End(r) ==
  /\ RAt(r, "reading")
  /\ rdr' = [rdr EXCEPT ![r].at = "idle", ![r].txnid = NoTxn]
  /\ slot' = [slot EXCEPT ![rdr[r].slot].txnid = NoTxn]
  /\ UNCHANGED <<lockf, mutex, flock, pidlock, metas, env, main, starts>>

\* The thread ends (mdb_env_reader_dest), or the transaction with MDB_NOTLS.
Release(r) ==
  /\ RAt(r, "idle") /\ rdr[r].slot # 0
  /\ slot' = [slot EXCEPT ![rdr[r].slot].pid = IF @ = r[1] THEN NoPid ELSE @]
  /\ rdr' = [rdr EXCEPT ![r].slot = 0]
  /\ UNCHANGED <<lockf, mutex, flock, pidlock, metas, env, main, starts>>

-----------------------------------------------------------------------------
(* A write transaction.                                                    *)

\* mdb_reader_check0 begins, and goes on to next.
CheckFrom(p, next) ==
  [NewMain EXCEPT !.at = "check", !.i = 1, !.n = lockf.nreaders, !.seen = {}, !.next = next,
                  !.stale = {q \in Pids \ {p} : At(q, "down") /\ \E i \in Slots :
                                                  i <= lockf.nreaders /\ slot[i].pid = q}]

\* Mutant of RecoverTxnid: mti_txnid is left as the dead writer left it.
RecoverNoTxnid == UNCHANGED lockf

\* mdb_mutex_failed: the dead writer may have written its meta page already.
RecoverTxnid == lockf' = [lockf EXCEPT !.txnid = PickMeta]

LockWriter(p) ==
  /\ At(p, "up") /\ p \in Writers
  /\ \/ Lock("w", <<p>>) /\ Goto(p, "locked") /\ UNCHANGED lockf
     \/ /\ OwnerDead("w") /\ RecoverTxnid
        /\ mutex' = [mutex EXCEPT !["w"].owner = <<p>>]
        /\ main' = [main EXCEPT ![p] = CheckFrom(p, "consistent")]
  /\ UNCHANGED <<slot, flock, pidlock, metas, env, rdr, starts>>

Consistent(p) ==
  /\ At(p, "consistent") /\ Goto(p, "locked")
  /\ mutex' = [mutex EXCEPT !["w"].dead = FALSE]
  /\ UNCHANGED <<lockf, slot, flock, pidlock, metas, env, rdr, starts>>

BeginWrite(p) ==
  /\ At(p, "locked")
  /\ main' = [main EXCEPT ![p].at = "begun", ![p].txnid = lockf.txnid + 1]
  /\ UNCHANGED <<lockf, slot, mutex, flock, pidlock, metas, env, rdr, starts>>

\* mdb_find_oldest, from the last slot to the first: mr_pid, then mr_txnid.
Scan(p) ==
  /\ At(p, "begun")
  /\ main' = [main EXCEPT ![p].at = "scan", ![p].i = lockf.nreaders, ![p].old = main[p].txnid - 1]
  /\ UNCHANGED <<lockf, slot, mutex, flock, pidlock, metas, env, rdr, starts>>

\* Mutant of ScanTxnid: the slot's id is not compared.
ScanNoTxnid(p) == main' = [main EXCEPT ![p].at = "scan", ![p].i = @ - 1]

ScanTxnid(p) ==
  LET id == slot[main[p].i].txnid
  IN  main' = [main EXCEPT ![p].at = "scan", ![p].i = @ - 1,
                           ![p].old = IF @ > id THEN id ELSE @]

ScanSlot(p) ==
  /\ \/ /\ At(p, "scan") /\ main[p].i > 0
        /\ main' = IF slot[main[p].i].pid = NoPid THEN [main EXCEPT ![p].i = @ - 1]
                   ELSE [main EXCEPT ![p].at = "scanned"]
        /\ UNCHANGED env
     \/ At(p, "scanned") /\ ScanTxnid(p) /\ UNCHANGED env
     \/ /\ At(p, "scan") /\ main[p].i = 0
        /\ env' = [env EXCEPT ![p].oldest = main[p].old]
        /\ main' = [main EXCEPT ![p].at = "begun", ![p].old = 0]
  /\ UNCHANGED <<lockf, slot, mutex, flock, pidlock, metas, rdr, starts>>

\* mdb_env_write_meta: the meta page, then mti_txnid.
WriteMeta(p) ==
  /\ At(p, "begun") /\ main[p].txnid <= MaxTxn /\ Goto(p, "written")
  /\ metas' = [metas EXCEPT ![main[p].txnid % 2] = main[p].txnid]
  /\ UNCHANGED <<lockf, slot, mutex, flock, pidlock, env, rdr, starts>>

EndWrite(p) ==
  /\ main' = [main EXCEPT ![p].at = "up", ![p].txnid = 0] /\ Unlock("w")
  /\ UNCHANGED <<slot, flock, pidlock, metas, env, rdr, starts>>
Publish(p) == At(p, "written") /\ lockf' = [lockf EXCEPT !.txnid = main[p].txnid] /\ EndWrite(p)
Abort(p)   == At(p, "begun") /\ UNCHANGED lockf /\ EndWrite(p)

-----------------------------------------------------------------------------
(* mdb_reader_check, or the check by the heir of a dead writer.            *)

Check(p) ==
  /\ At(p, "up") /\ p \in Checkers /\ main' = [main EXCEPT ![p] = CheckFrom(p, "up")]
  /\ UNCHANGED <<lockf, slot, mutex, flock, pidlock, metas, env, rdr, starts>>

CheckSlot(p) ==
  LET q == slot[main[p].i].pid
  IN  /\ At(p, "check") /\ main[p].i <= main[p].n
      /\ main' = IF q \in {NoPid, p} \cup main[p].seen THEN [main EXCEPT ![p].i = @ + 1]
                 ELSE [main EXCEPT ![p].at = "pidcheck", ![p].pid = q, ![p].seen = @ \cup {q}]
      /\ UNCHANGED <<lockf, slot, mutex, flock, pidlock, metas, env, rdr, starts>>

CheckPid(p) ==
  /\ At(p, "pidcheck")
  /\ main' = IF Alive(main[p].pid) THEN [main EXCEPT ![p].at = "check", ![p].i = @ + 1, ![p].pid = NoPid]
             ELSE [main EXCEPT ![p].at = "checklock"]
  /\ UNCHANGED <<lockf, slot, mutex, flock, pidlock, metas, env, rdr, starts>>

\* With the dead owner's mutex all the slots are checked at once.
CheckLock(p) ==
  /\ At(p, "checklock")
  /\ \/ Lock("r", <<p>>) /\ Goto(p, "clear") /\ UNCHANGED slot
     \/ /\ OwnerDead("r") /\ slot' = SlotsChecked(p)
        /\ mutex' = [mutex EXCEPT !["r"].dead = FALSE]
        /\ main' = [main EXCEPT ![p].at = "check", ![p].n = 0, ![p].pid = NoPid]
  /\ UNCHANGED <<lockf, flock, pidlock, metas, env, rdr, starts>>

\* Mutant of Recheck: the pid is not looked at again.
RecheckNot(p) == FALSE

\* A new process may have reused the pid.
Recheck(p) == Alive(main[p].pid)

\* Mutant of StaleSlots: but the one where the pid was found.
StaleSlotsAfter(p) == {j \in main[p].i + 1 .. main[p].n : slot[j].pid = main[p].pid}

\* This slot and those after it.
StaleSlots(p) == {j \in main[p].i .. main[p].n : slot[j].pid = main[p].pid}

Clear(p) ==
  /\ At(p, "clear")
  /\ slot' = [j \in Slots |-> IF ~Recheck(p) /\ j \in StaleSlots(p)
                              THEN [slot[j] EXCEPT !.pid = NoPid] ELSE slot[j]]
  /\ main' = [main EXCEPT ![p].at = "check", ![p].i = @ + 1, ![p].pid = NoPid]
  /\ Unlock("r")
  /\ UNCHANGED <<lockf, flock, pidlock, metas, env, rdr, starts>>

CheckEnd(p) ==
  /\ At(p, "check") /\ main[p].i > main[p].n
  /\ main' = [main EXCEPT ![p] = [NewMain EXCEPT !.at = main[p].next]]
  /\ UNCHANGED <<lockf, slot, mutex, flock, pidlock, metas, env, rdr, starts>>

-----------------------------------------------------------------------------
OpenOrClose(p) == \/ Start(p) \/ ExclLock(p) \/ ShareLock(p) \/ InitTable(p) \/ Attach(p)
                  \/ Open2(p) \/ Share(p) \/ Close(p) \/ Close0(p) \/ Kill(p)
Read(r) == \/ Begin(r) \/ Pidset(r) \/ LockTable(r) \/ Choose(r) \/ Count(r) \/ SetPid(r)
           \/ Load(r) \/ Store(r) \/ Verify(r) \/ End(r) \/ Release(r)
Write(p) == \/ LockWriter(p) \/ Consistent(p) \/ BeginWrite(p) \/ Scan(p) \/ ScanSlot(p)
            \/ WriteMeta(p) \/ Publish(p) \/ Abort(p)
CheckReaders(p) == \/ Check(p) \/ CheckSlot(p) \/ CheckPid(p) \/ CheckLock(p) \/ Clear(p) \/ CheckEnd(p)

Next == \/ \E p \in Pids : OpenOrClose(p) \/ Write(p) \/ CheckReaders(p)
        \/ \E r \in Readers : Read(r)

Spec == Init /\ [][Next]_vars

-----------------------------------------------------------------------------
(* Properties.                                                             *)

\* mti_txnid "records the last committed transaction": a writer's id follows the
\* newest meta page's, or its commit would overwrite that page's snapshot
\* (mdb_mutex_failed, mdb_env_share_locks, mdb_txn_renew0).
WriterFollows == \A p \in Pids : main[p].at \in {"begun", "scan", "scanned"} =>
                                   main[p].txnid = PickMeta + 1

\* A thread that has claimed a slot keeps it until it gives it up: no check for
\* dead readers, no closing process, no recovery and no other claim takes it, also
\* when the pid had an owner before; and a reader's id stays in it.
SlotHeld ==
  \A r \in Readers :
    rdr[r].slot # 0 /\ rdr[r].at \notin {"count", "setpid"} =>
      /\ slot[rdr[r].slot].pid = r[1]
      /\ rdr[r].at = "reading" => slot[rdr[r].slot].txnid = rdr[r].txnid
      /\ \A s \in Readers \ {r} : s[1] = r[1] => rdr[s].slot # rdr[r].slot

\* No writer takes for the oldest reader an id above that of a live reader: the
\* scan goes from slot to slot, without the mutex, while slots are claimed,
\* cleared and given up (mdb_find_oldest, me_pgoldest).
OldestSafe == \A p \in Open, r \in Readers :
                rdr[r].at = "reading" => env[p].oldest <= rdr[r].txnid

\* While a process initialises the lock file no other one uses it.
InitAlone == \A p \in Pids : flock[p] = "excl" => Mapped \subseteq {p}

\* A check leaves no slot to a process that was dead when it began and did not
\* come back (mdb_reader_check0).
CheckFindsAll ==
  \A p \in Pids : (At(p, "check") /\ main[p].i > main[p].n) =>
    \A q \in main[p].stale, i \in 1 .. lockf.nreaders : slot[i].pid # q
=============================================================================
