------------------------------ MODULE DbiTable ------------------------------
(***************************************************************************)
(* The handles of named databases (mdb.c): the table of an environment     *)
(* (me_dbxs, me_dbflags, me_dbiseqs, me_numdbs), the copies that each      *)
(* transaction has of it (mt_dbs, mt_dbflags, mt_dbiseqs, mt_numdbs), and  *)
(* the records of the databases in the main database.                      *)
(*                                                                         *)
(* A handle is a number that stands for a name while it is open, and for   *)
(* another name afterwards.  What callers do to a database of some name is *)
(* kept beside, in view and store, to compare.                             *)
(*                                                                         *)
(* A database is its set of keys; callers put into it keys of its own name *)
(* only.  It has one set of flags, and the compare functions are left out. *)
(***************************************************************************)
EXTENDS Integers, Sequences, SequencesExt, FiniteSetsExt

CONSTANTS Names,       \* of databases
          Keys,        \* for each of them
          MaxDbs,      \* me_maxdbs
          MaxDepth,    \* a write transaction, and those inside it
          Habits       \* what callers also do: subset of AllHabits

\* "reuse": a transaction reads with a handle opened since it began.
AllHabits == {"reuse"}
ASSUME DbiTableAssumption == /\ MaxDbs \in Nat /\ MaxDepth \in Nat
                             /\ Habits \subseteq AllHabits

VARIABLES env,      \* the table
          file,     \* the records in the last snapshot
          db0,      \* mt_dbs of me_txn0 when no transaction uses it
          wr,       \* the write transaction and those inside it
          rd,       \* a read transaction
          changed,  \* where mt_dbiseqs of wr differs from me_dbiseqs
          known,    \* the names that callers know the handles by
          store     \* the databases in the last snapshot, by what callers did

vars == <<env, file, db0, wr, rd, changed, known, store>>

CORE_DBS == 2
Handles == CORE_DBS .. MaxDbs - 1
NoName == "no name"
\* The name of a free slot is empty (mdb_dbi_open); that of a database is not.
ASSUME NameAssumption == NoName \notin Names

\* A record, MDB_db, by what is known of it and the keys of the database.
Record(kind, S) == [kind |-> kind, keys |-> S]
Db(S) == Record("database", S)
Absent == Record("absent", {})
Zeros == Record("zeros", {})           \* was never read
Error == Record("error", {})

\* db: mt_dbs; main: the records in the main database; can: the names that the
\* callers of this transaction know handles by; own: the handles that were open
\* when it began, or that it opened; opened, barred: see MayOpen.
NewTxn == [live |-> FALSE, num |-> CORE_DBS, flags |-> [h \in Handles |-> {}],
           db |-> [h \in Handles |-> Zeros], main |-> [n \in Names |-> Absent],
           can |-> [h \in Handles |-> NoName], own |-> {}, err |-> FALSE,
           opened |-> FALSE, barred |-> FALSE, view |-> [n \in Names |-> Absent]]

Init == /\ env = [num |-> CORE_DBS, name |-> [h \in Handles |-> NoName],
                  valid |-> [h \in Handles |-> FALSE]]
        /\ file = [n \in Names |-> Absent] /\ store = file
        /\ db0 = [h \in Handles |-> Zeros]
        /\ wr = <<>> /\ rd = NewTxn /\ changed = {}
        /\ known = [h \in Handles |-> NoName]

w == Last(wr)
Live == {t \in {rd} \cup Range(wr) : t.live}
Usable(t) == t.live /\ ~t.err

\* Mutant of Changed: the sequence numbers are not compared.
ChangedNever(h) == FALSE

\* A reader's mt_dbiseqs are the environment's: for it no handle ever changes.
Changed(h) == h \in changed
TXN_DBI_EXIST(t, h) == h < t.num /\ "VALID" \in t.flags[h]

-----------------------------------------------------------------------------
(* Begin and end.                                                          *)

\* Mutant of BeginFlags: the records are taken for read.
BeginFlagsRead(h) == IF h < env.num /\ env.valid[h] THEN {"VALID"} ELSE {}

BeginFlags(h) == IF h < env.num /\ env.valid[h] THEN {"VALID", "STALE"} ELSE {}

\* mdb_txn_renew0.
Renewed(db) ==
  [NewTxn EXCEPT !.live = TRUE, !.num = env.num, !.db = db, !.main = file,
                 !.flags = [h \in Handles |-> BeginFlags(h)],
                 !.can = known, !.own = {h \in Handles : known[h] # NoName},
                 !.view = store,
                 !.barred = \E t \in Live : t.opened]

BeginRead == /\ ~rd.live /\ rd' = Renewed([h \in Handles |-> Zeros])
             /\ UNCHANGED <<env, file, db0, wr, changed, known, store>>

BeginWrite == /\ wr = <<>> /\ wr' = <<Renewed(db0)>> /\ changed' = {}
              /\ UNCHANGED <<env, file, db0, rd, known, store>>

BeginChild ==
  /\ wr # <<>> /\ Usable(w) /\ Len(wr) < MaxDepth
  /\ wr' = Append(wr, [w EXCEPT !.flags = [h \in Handles |-> @[h] \ {"NEW"}]])
  /\ UNCHANGED <<env, file, db0, rd, changed, known, store>>

\* mdb_dbi_close.
Closed(e, S) == [e EXCEPT !.name = [h \in Handles |-> IF h \in S THEN NoName ELSE @[h]],
                          !.valid = [h \in Handles |-> h \notin S /\ @[h]]]
Open(S) == {h \in S : env.name[h] # NoName}

NewIn(t) == {h \in Handles : h < t.num /\ "NEW" \in t.flags[h]}

\* mdb_dbis_update, to keep what t opened or not.
Kept(t) == [env EXCEPT !.valid = [h \in Handles |-> h \in NewIn(t) \/ @[h]],
                       !.num = Max({@, t.num})]
Discarded(t) == Closed(env, Open(NewIn(t)))

\* After t, the handles it opened are open for the others.
Published(t) == [h \in Handles |-> IF t.can[h] # NoName THEN t.can[h] ELSE known[h]]
Sees(t, k) ==
  IF t.live THEN [t EXCEPT !.can = [h \in Handles |-> IF @[h] = NoName THEN k[h] ELSE @[h]]]
  ELSE t

EndRead ==
  /\ rd.live /\ rd' = NewTxn
  /\ \/ /\ env' = Kept(rd) /\ known' = Published(rd)
        /\ wr' = [i \in DOMAIN wr |-> Sees(wr[i], known')]
        /\ UNCHANGED changed
     \/ /\ env' = Discarded(rd) /\ changed' = changed \cup Open(NewIn(rd))
        /\ UNCHANGED <<known, wr>>
  /\ UNCHANGED <<file, db0, store>>

\* A record left in me_txn0 matters no more than by its root.
Left(t) == [h \in Handles |-> IF t.db[h] = Db({}) THEN Db({}) ELSE Zeros]

\* mdb_txn_end of a write transaction.
AbortOne ==
  /\ env' = Discarded(w) /\ changed' = changed \cup Open(NewIn(w))
  /\ wr' = Front(wr)
  /\ db0' = IF Len(wr) = 1 THEN Left(w) ELSE db0
  /\ UNCHANGED <<file, rd, known, store>>

Abort == wr # <<>> /\ AbortOne

\* Mutant of ParentFlags: a database that the parent opened stays open.
ParentFlagsOnly(p, t, h) == t.flags[h]

ParentFlags(p, t, h) == t.flags[h] \cup (p.flags[h] \cap {"NEW"})

CommitChild ==
  LET p == wr[Len(wr) - 1]
  IN  /\ Len(wr) > 1 /\ ~w.err
      /\ wr' = Append(Front(Front(wr)),
                      [w EXCEPT !.flags = [h \in Handles |-> ParentFlags(p, w, h)]])
      /\ UNCHANGED <<env, file, db0, rd, changed, known, store>>

\* A child that has failed leaves its parent failed too.
CommitFailed ==
  /\ Len(wr) > 1 /\ w.err
  /\ env' = Discarded(w) /\ changed' = changed \cup Open(NewIn(w))
  /\ wr' = Append(Front(Front(wr)), [wr[Len(wr) - 1] EXCEPT !.err = TRUE])
  /\ UNCHANGED <<file, db0, rd, known, store>>

Dirty(t) == {h \in Handles : h < t.num /\ "DIRTY" \in t.flags[h]}

\* No handle of a record to be written has changed, else MDB_BAD_DBI.
MayWrite(t) == \A h \in Dirty(t) : ~Changed(h)

Commit ==
  /\ Len(wr) = 1
  /\ IF w.err \/ ~MayWrite(w) THEN AbortOne
     ELSE /\ file' = [n \in Names |-> LET H == {h \in Dirty(w) : env.name[h] = n}
                                      IN IF H = {} THEN w.main[n] ELSE w.db[Max(H)]]
          /\ env' = Kept(w) /\ known' = Published(w)
          /\ rd' = Sees(rd, known')
          /\ store' = w.view
          /\ db0' = Left(w) /\ wr' = <<>> /\ changed' = {}

\* A write transaction of another process.
OtherProcess ==
  /\ wr = <<>>
  /\ \E n \in Names, r \in {Absent, Db({})} : file' = [file EXCEPT ![n] = r]
  /\ store' = file'
  /\ UNCHANGED <<env, db0, wr, rd, changed, known>>

-----------------------------------------------------------------------------
(* mdb_dbi_open and mdb_dbi_close.                                         *)

\* mdb_dbi_open "must not be called from multiple concurrent transactions".
MayOpen(t) == ~t.barred

Barred(t) == [t EXCEPT !.barred = TRUE]
\* The first free slot, or the one after the last.
FreeHandle(t) == LET free == {h \in Handles : h < t.num /\ env.name[h] = NoName}
                 IN  IF free = {} THEN t.num ELSE Min(free)

\* t has the handle h for the name n.
Has(t, h, n) == [t EXCEPT !.can[h] = n, !.own = @ \cup {h}, !.opened = TRUE]

\* The database n, which t has or creates, gets a new handle.
Registered(t, h, n) ==
  LET new == t.main[n] = Absent
  IN  [Has(t, h, n) EXCEPT
         !.num = Max({@, h + 1}),
         !.main[n] = IF new THEN Db({}) ELSE @,
         !.view[n] = IF new THEN Db({}) ELSE @,
         !.db[h] = IF new THEN Db({}) ELSE t.main[n],
         !.flags[h] = {"NEW", "VALID"} \cup IF new THEN {"DIRTY"} ELSE {}]

OldHandle(t, n) == {h \in Handles : h < t.num /\ env.name[h] = n}

\* The handle that opening n gives away, with the flag MDB_CREATE or not.
Opened(t, n, create) ==
  IF OldHandle(t, n) = {} /\ FreeHandle(t) < MaxDbs /\ (t.main[n] # Absent \/ create)
  THEN {FreeHandle(t)} ELSE {}
DbiOpen(t, n, create) ==
  IF OldHandle(t, n) # {} THEN Has(t, Min(OldHandle(t, n)), n)
  ELSE IF Opened(t, n, create) = {} THEN [t EXCEPT !.opened = TRUE]
  ELSE Registered(t, FreeHandle(t), n)
Named(S, n) == [env EXCEPT !.name = [h \in Handles |-> IF h \in S THEN n ELSE @[h]]]

OpenRead(n) ==
  /\ Usable(rd) /\ MayOpen(rd)
  /\ rd' = DbiOpen(rd, n, FALSE) /\ env' = Named(Opened(rd, n, FALSE), n)
  /\ changed' = changed \cup Opened(rd, n, FALSE)
  /\ wr' = [i \in DOMAIN wr |-> Barred(wr[i])]
  /\ UNCHANGED <<file, db0, known, store>>

OpenWrite(n, create) ==
  /\ wr # <<>> /\ Usable(w) /\ MayOpen(w)
  /\ wr' = Append(Front(wr), DbiOpen(w, n, create)) /\ env' = Named(Opened(w, n, create), n)
  /\ changed' = changed \ Opened(w, n, create)
  /\ rd' = IF rd.live THEN Barred(rd) ELSE rd
  /\ UNCHANGED <<file, db0, known, store>>

\* Handles are closed when "no other threads are going to reference" them, and
\* no "existing transaction has modified" the database.
MayClose(h, line) == h \notin Dirty(rd) /\ \A i \in DOMAIN line : h \notin Dirty(line[i])
Forgets(t, h) == IF t.live THEN [t EXCEPT !.can[h] = NoName, !.own = @ \ {h}] ELSE t
Forgotten(h) == known' = [known EXCEPT ![h] = NoName] /\ rd' = Forgets(rd, h)

Close(h) ==
  /\ known[h] # NoName \/ \E t \in Live : t.can[h] # NoName
  /\ MayClose(h, wr)
  /\ env' = Closed(env, Open({h})) /\ changed' = changed \cup Open({h})
  /\ Forgotten(h) /\ wr' = [i \in DOMAIN wr |-> Forgets(wr[i], h)]
  /\ UNCHANGED <<file, db0, store>>

-----------------------------------------------------------------------------
(* Operations.                                                             *)

\* mdb_page_search reads the record when it is stale; a reader has the table's
\* own mt_dbiseqs.
Resolved(t, h, chg) ==
  LET n == env.name[h]
  IN  IF "STALE" \in t.flags[h] /\ ~chg /\ n # NoName /\ t.main[n] # Absent
      THEN [t EXCEPT !.db[h] = t.main[n], !.flags[h] = @ \ {"STALE"}] ELSE t
Stale(t, h) == "STALE" \in t.flags[h]

\* What mdb_get finds, or an error.
Found(t, h, chg) ==
  LET r == Resolved(t, h, chg)
  IN  IF ~TXN_DBI_EXIST(t, h) \/ t.err \/ Stale(r, h) THEN Error ELSE r.db[h]

\* Callers read with a handle they know.
MayRead(t, h) == t.live /\ t.can[h] # NoName /\ (h \in t.own \/ "reuse" \in Habits)

GetRead(h) == /\ MayRead(rd, h) /\ Found(rd, h, FALSE) # Error
              /\ rd' = Resolved(rd, h, FALSE)
              /\ UNCHANGED <<env, file, db0, wr, changed, known, store>>
GetWrite(h) == /\ wr # <<>> /\ MayRead(w, h) /\ Found(w, h, Changed(h)) # Error
               /\ wr' = Append(Front(wr), Resolved(w, h, Changed(h)))
               /\ UNCHANGED <<env, file, db0, rd, changed, known, store>>

\* mdb_cursor_touch: a handle that has changed is refused, if its database was
\* not modified yet.
Touch(t, h) == IF "DIRTY" \notin t.flags[h] /\ Changed(h) THEN "BAD_DBI" ELSE "OK"

\* The new contents, by the handle and by its name.
Changes(t, h, S, V) == [t EXCEPT !.db[h] = Db(S), !.flags[h] = @ \cup {"DIRTY"},
                                 !.view[t.can[h]] = Db(V)]
Key(h, k) == <<w.can[h], k>>
KeysOf(t, h) == t.view[t.can[h]].keys

MayModify(h) == wr # <<>> /\ Usable(w) /\ w.can[h] # NoName /\ TXN_DBI_EXIST(w, h)

\* A record with no root gets one, whatever it is.
Put(h, k) ==
  LET r == Resolved(w, h, Changed(h))
  IN  /\ MayModify(h)
      /\ wr' = Append(Front(wr),
           IF r.db[h] = Db({}) \/ (~Stale(r, h) /\ Touch(r, h) = "OK")
           THEN Changes(r, h, r.db[h].keys \cup {Key(h, k)}, KeysOf(w, h) \cup {Key(h, k)}) ELSE r)
      /\ UNCHANGED <<env, file, db0, rd, changed, known, store>>

Del(h, k) ==
  LET r == Resolved(w, h, Changed(h))
  IN  /\ MayModify(h)
      /\ wr' = Append(Front(wr),
           IF ~Stale(r, h) /\ Key(h, k) \in r.db[h].keys /\ Touch(r, h) = "OK"
           THEN Changes(r, h, r.db[h].keys \ {Key(h, k)}, KeysOf(w, h) \ {Key(h, k)}) ELSE r)
      /\ UNCHANGED <<env, file, db0, rd, changed, known, store>>

NoRecords(t) == \A n \in Names : t.main[n] = Absent

\* mdb_drop0 takes a main database without records for an empty one.
Empty(h) ==
  LET r == Resolved(w, h, Changed(h))
  IN  /\ MayModify(h)
      /\ wr' = Append(Front(wr),
           IF ~Changed(h) /\ (~Stale(r, h) \/ NoRecords(r)) THEN Changes(r, h, {}, {}) ELSE r)
      /\ UNCHANGED <<env, file, db0, rd, changed, known, store>>

\* The record is deleted and the handle closed.
Drop(h) ==
  LET r == Resolved(w, h, Changed(h))
      n == env.name[h]
  IN  /\ MayModify(h) /\ MayClose(h, Front(wr))
      /\ IF Changed(h) \/ (Stale(r, h) /\ ~NoRecords(r))
         THEN wr' = Append(Front(wr), r) /\ UNCHANGED <<env, rd, changed, known>>
         ELSE IF r.main[n] = Absent
         THEN /\ wr' = Append(Front(wr), [r EXCEPT !.err = TRUE])
              /\ UNCHANGED <<env, rd, changed, known>>
         ELSE /\ env' = Closed(env, {h}) /\ changed' = changed \cup {h} /\ Forgotten(h)
              /\ wr' = [i \in DOMAIN wr |->
                   IF i < Len(wr) THEN Forgets(wr[i], h)
                   ELSE [Forgets(r, h) EXCEPT !.main[n] = Absent, !.view[w.can[h]] = Absent,
                                              !.flags[h] = {"STALE"}]]
      /\ UNCHANGED <<file, db0, store>>

Next == \/ BeginRead \/ BeginWrite \/ BeginChild \/ EndRead \/ Abort
        \/ CommitChild \/ CommitFailed \/ Commit \/ OtherProcess
        \/ \E n \in Names : OpenRead(n) \/ \E create \in BOOLEAN : OpenWrite(n, create)
        \/ \E h \in Handles : \/ Close(h) \/ GetRead(h) \/ GetWrite(h) \/ Empty(h) \/ Drop(h)
                              \/ \E k \in Keys : Put(h, k) \/ Del(h, k)
Spec == Init /\ [][Next]_vars

-----------------------------------------------------------------------------
(* Properties.                                                             *)

\* What is committed is what callers did to the databases of the names by which
\* they knew the handles (TXN_DBI_CHANGED at every write, mdb_txn_commit).
CommittedByName == file = store

\* A transaction reads with a handle the database of the name that the handle
\* was opened by (mdb_page_search, mdb_dbi_open).
RightDatabase ==
  /\ \A h \in Handles : MayRead(rd, h) => Found(rd, h, FALSE) \in {Error, rd.view[rd.can[h]]}
  /\ wr # <<>> => \A h \in Handles :
       MayRead(w, h) => Found(w, h, Changed(h)) \in {Error, w.view[w.can[h]]}

\* When no transaction is open the handles are open that callers know, and can be
\* used: none is lost with its slot, also when the transaction or the child that
\* opened it was aborted (mdb_dbis_update).
HandleKept ==
  Live = {} => env.name = known /\ \A h \in Open(Handles) : env.valid[h] /\ h < env.num
=============================================================================
