------------------------------ MODULE Handles ------------------------------
(***************************************************************************)
(* The Kotlin classes Env, Txn and Cursor against the native objects they  *)
(* point to.  A native call with a freed object has no defined result: it  *)
(* sets stale, and the model ends there.                                   *)
(*                                                                         *)
(* Every top-level write transaction of an environment is the same native  *)
(* object, me_txn0.  The others are allocated when they begin and freed    *)
(* when they end; the model never reuses their addresses.                  *)
(*                                                                         *)
(* The callers keep to the documentation of the classes, except for what   *)
(* Habits has.  Calls of several threads do not overlap.                   *)
(***************************************************************************)
EXTENDS FiniteSets

CONSTANTS
    Txns,      \* the Txn objects, each constructed at most once
    Cursors,   \* the Cursor objects
    Txn0,      \* me_txn0
    Habits     \* what callers also do: subset of AllHabits

\* "parent_first": a parent is ended before its child; "ended_txn": operations
\* on a transaction that has ended.
AllHabits == {"parent_first", "ended_txn"}

Natives == Txns \cup {Txn0}
NoTxn == "no transaction"

ASSUME HandlesAssumption ==
    Txn0 \notin Txns /\ NoTxn \notin Natives /\ Habits \subseteq AllHabits

VARIABLES
    platform,  \* the implementation, jvmMain or nativeMain
    ktEnv,     \* Env: isOpened and isClosed
    env,       \* the MDB_env
    state,     \* Txn.state, "new" before the constructor has returned
    tclosed,   \* Txn.isClosed of nativeMain
    ptr,       \* Txn.ptr
    ntxn,      \* each native transaction
    cur,       \* each Cursor with its MDB_cursor
    call,      \* the last call: what, the state before it, and its result
    stale      \* a native function was given a freed object

vars == <<platform, ktEnv, env, state, tclosed, ptr, ntxn, cur, call, stale>>

NewTxn == [st |-> "none", ro |-> FALSE, parent |-> NoTxn, child |-> NoTxn, by |-> NoTxn]
NewCursor == [kt |-> "new", nat |-> "none", txn |-> NoTxn,
              tracked |-> FALSE, of |-> NoTxn]

Init ==
    /\ platform \in {"jvm", "native"}
    /\ ktEnv = [isOpened |-> FALSE, isClosed |-> FALSE]
    /\ env = "created"
    /\ state = [t \in Txns |-> "new"]
    /\ tclosed = [t \in Txns |-> FALSE]
    /\ ptr = [t \in Txns |-> NoTxn]
    /\ ntxn = [n \in Natives |-> NewTxn]
    /\ cur = [c \in Cursors |-> NewCursor]
    /\ call = [op |-> "none", before |-> "none", result |-> "none"]
    /\ stale = FALSE

Called(op, before, result) == call' = [op |-> op, before |-> before, result |-> result]

\* A native call: with a freed object if bad, else with one of the results.
NativeCall(op, before, bad, results) ==
    /\ stale' = bad
    /\ \E r \in IF bad THEN {"undefined"} ELSE results : Called(op, before, r)

-----------------------------------------------------------------------------
(***************************************************************************)
(* The native library.                                                     *)
(***************************************************************************)

Freed(n) == ntxn[n].st = "freed"

\* MDB_TXN_BLOCKED
Blocked(n) == ntxn[n].st # "active" \/ ntxn[n].child # NoTxn

\* Any operation of a transaction may fail, and does when it is blocked.
Results(n) == IF Blocked(n) THEN {"throws"} ELSE {"ok", "throws"}

\* A transaction with its descendants, along mt_child.
Line(n) ==
    {m \in Natives : \A S \in SUBSET Natives :
        n \in S /\ (\A k \in S : ntxn[k].child # NoTxn => ntxn[k].child \in S) => m \in S}

\* mdb_txn_end of each of them: me_txn0 is kept for the next one, but freed
\* when it has ended before.
Ended(n) ==
    [m \in Natives |->
        IF m \in Line(n)
        THEN [NewTxn EXCEPT
                 !.st = IF m = Txn0 /\ ntxn[m].st = "active" THEN "finished" ELSE "freed",
                 !.ro = ntxn[m].ro]
        ELSE IF ntxn[m].child \in Line(n) THEN [ntxn[m] EXCEPT !.child = NoTxn]
        ELSE ntxn[m]]

\* mdb_cursors_close: a write transaction frees its cursors.
CursorsClosed(n) ==
    [c \in Cursors |->
        IF cur[c].nat = "live" /\ cur[c].tracked /\ cur[c].txn \in Line(n)
        THEN [cur[c] EXCEPT !.nat = "freed"] ELSE cur[c]]

EndNative(n) == ntxn' = Ended(n) /\ cur' = CursorsClosed(n)

\* Mutant of BeginNative: the result of mdb_txn_begin is not checked.
BeginUnchecked(t, n, ro, parent) ==
    state' = [state EXCEPT ![t] = "Ready"] /\ UNCHANGED <<ptr, ntxn>>

\* mdb_txn_begin, when it succeeds for the object t.
BeginNative(t, n, ro, parent) ==
    /\ ntxn' = [m \in Natives |->
           IF m = n
           THEN [st |-> "active", ro |-> ro, parent |-> parent, child |-> NoTxn, by |-> t]
           ELSE IF m = parent THEN [ntxn[m] EXCEPT !.child = n] ELSE ntxn[m]]
    /\ state' = [state EXCEPT ![t] = "Ready"]
    /\ ptr' = [ptr EXCEPT ![t] = n]

-----------------------------------------------------------------------------
(***************************************************************************)
(* What careful callers do.                                                *)
(***************************************************************************)

HasReadyChild(t) ==
    \E u \in Txns : state[u] = "Ready" /\ ntxn[ptr[u]].parent = ptr[t]

MayEnd(t) == "parent_first" \in Habits \/ state[t] # "Ready" \/ ~HasReadyChild(t)
MayUse(t) == state[t] \in {"Ready"} \cup IF "ended_txn" \in Habits THEN {"Done"} ELSE {}
\* After a failed open the environment may only be closed.
MayBegin == (platform = "jvm" \/ env # "freed") /\ env # "inactive"

-----------------------------------------------------------------------------
(***************************************************************************)
(* Env.                                                                    *)
(***************************************************************************)

\* isOpened is set before mdb_env_open, which may fail.
Open ==
    /\ env = "created" /\ ~ktEnv.isClosed
    /\ ktEnv' = [ktEnv EXCEPT !.isOpened = TRUE]
    /\ \/ env' = "active" /\ Called("open", "created", "ok")
          /\ ntxn' = [ntxn EXCEPT ![Txn0].st = "finished"]
       \/ env' = "inactive" /\ Called("open", "created", "throws")
          /\ UNCHANGED ntxn
    /\ UNCHANGED <<platform, state, tclosed, ptr, cur, stale>>

\* nativeMain does not reset isOpened.
KtClosed == [isClosed |-> TRUE, isOpened |-> platform = "native" /\ ktEnv.isOpened]

\* Env.close: a second call does nothing, and neither does mdb_env_close when
\* open was never called.
CloseEnv ==
    /\ \A t \in Txns : state[t] # "Ready"
    /\ \A c \in Cursors : cur[c].nat # "live"
    /\ IF ktEnv.isClosed THEN UNCHANGED <<ktEnv, env, ntxn>>
       ELSE /\ ktEnv' = KtClosed
            /\ IF ktEnv.isOpened
               THEN env' = "freed" /\ ntxn' = [ntxn EXCEPT ![Txn0].st = "freed"]
               ELSE UNCHANGED <<env, ntxn>>
    /\ Called("close env", env, "ok")
    /\ UNCHANGED <<platform, state, tclosed, ptr, cur, stale>>

-----------------------------------------------------------------------------
(***************************************************************************)
(* Txn.                                                                    *)
(***************************************************************************)

TxnUnchanged == UNCHANGED <<state, tclosed, ptr, ntxn, cur>>

Throws(op, before) == Called(op, before, "throws") /\ TxnUnchanged /\ UNCHANGED stale

\* Env.beginTxn and the constructor.  A write transaction waits for the mutex.
Begin(t, ro) ==
    /\ state[t] = "new" /\ MayBegin
    /\ env = "active" /\ ~ro => ntxn[Txn0].st # "active"
    /\ \/ /\ NativeCall("begin", env, ktEnv.isOpened /\ env # "active", {"throws"})
          /\ TxnUnchanged
       \/ /\ ktEnv.isOpened /\ env = "active"
          /\ BeginNative(t, IF ro THEN t ELSE Txn0, ro, NoTxn)
          /\ Called("begin", env, "ok")
          /\ UNCHANGED <<tclosed, cur, stale>>
    /\ UNCHANGED <<platform, ktEnv, env>>

\* Txn.begin, a child.
BeginChild(t, p) ==
    /\ state[t] = "new" /\ MayUse(p)
    /\ \/ /\ NativeCall("child", state[p], ktEnv.isOpened /\ Freed(ptr[p]), {"throws"})
          /\ TxnUnchanged
       \/ /\ ktEnv.isOpened /\ ~Freed(ptr[p]) /\ ~Blocked(ptr[p]) /\ ~ntxn[ptr[p]].ro
          /\ BeginNative(t, t, FALSE, ptr[p])
          /\ Called("child", state[p], "ok")
          /\ UNCHANGED <<tclosed, cur, stale>>
    /\ UNCHANGED <<platform, ktEnv, env>>

\* get, put, delete, drop, dbiOpen: the state is not looked at.
Operate(t) ==
    /\ MayUse(t)
    /\ NativeCall("operate", state[t], Freed(ptr[t]), Results(ptr[t]))
    /\ TxnUnchanged
    /\ UNCHANGED <<platform, ktEnv, env>>

\* commit, abort and close with a native call: the transaction ends, also
\* when the commit fails.
EndTxn(op, t, st, results) ==
    /\ NativeCall(op, state[t], Freed(ptr[t]), results)
    /\ IF Freed(ptr[t]) THEN UNCHANGED <<ntxn, cur>> ELSE EndNative(ptr[t])
    /\ state' = [state EXCEPT ![t] = st]
    /\ UNCHANGED <<platform, ktEnv, env, ptr>>

\* Mutant of Commit: the state is set after the result was checked.
CommitThenDone(t) ==
    /\ state[t] = "Ready" /\ MayEnd(t)
    /\ \/ EndTxn("commit", t, "Done", {"ok"})
       \/ EndTxn("commit", t, "Ready", {"throws"})
    /\ UNCHANGED tclosed

Commit(t) ==
    /\ state[t] = "Ready" /\ MayEnd(t)
    /\ EndTxn("commit", t, "Done", {"ok", "throws"})
    /\ UNCHANGED tclosed

Abort(t) ==
    /\ state[t] = "Ready" /\ MayEnd(t)
    /\ EndTxn("abort", t, "Done", {"ok"})
    /\ UNCHANGED tclosed

\* id, commit and abort begin with checkReady.
NotReady(t) ==
    /\ state[t] \in {"Done", "Reset", "Released"}
    /\ Throws("checkReady", state[t])
    /\ UNCHANGED <<platform, ktEnv, env>>

\* Mutants of Aborts: what is done does not depend on the state.
AbortsAlways(t) == TRUE
AbortsNever(t) == FALSE

\* Whether close aborts the native transaction.
Aborts(t) == state[t] = "Ready"

\* Txn.close, in any state and any number of times.  nativeMain remembers the
\* first call, jvmMain that the state is Released.
CloseTxn(t) ==
    /\ state[t] # "new" /\ MayEnd(t)
    /\ tclosed' = [tclosed EXCEPT ![t] = platform = "native"]
    /\ IF tclosed[t] \/ state[t] = "Released"
       THEN /\ Called("close", state[t], "ok")
            /\ UNCHANGED <<platform, ktEnv, env, state, ptr, ntxn, cur, stale>>
       ELSE IF Aborts(t) THEN EndTxn("close", t, "Released", {"ok"})
       ELSE /\ state' = [state EXCEPT ![t] = "Released"]
            /\ Called("close", state[t], "ok")
            /\ UNCHANGED <<platform, ktEnv, env, ptr, ntxn, cur, stale>>

\* Txn.reset; callers know when there is no native object any more.  The
\* native call does nothing to a write transaction.
Reset(t) ==
    /\ state[t] # "new" /\ ~Freed(ptr[t])
    /\ IF state[t] \in {"Ready", "Done"} THEN Throws("reset", state[t])
       ELSE /\ state' = [state EXCEPT ![t] = "Reset"]
            /\ Called("reset", state[t], "ok")
            /\ UNCHANGED <<tclosed, ptr, ntxn, cur, stale>>
    /\ UNCHANGED <<platform, ktEnv, env>>

\* Txn.renew.  A transaction that is Reset here is a write transaction, which
\* mdb_txn_renew refuses.
Renew(t) ==
    /\ state[t] # "new" /\ ~Freed(ptr[t])
    /\ Called("renew", state[t], "throws")
    /\ state' = IF state[t] = "Reset" THEN [state EXCEPT ![t] = "Done"] ELSE state
    /\ UNCHANGED <<platform, ktEnv, env, tclosed, ptr, ntxn, cur, stale>>

-----------------------------------------------------------------------------
(***************************************************************************)
(* Cursor.                                                                 *)
(***************************************************************************)

CursorUnchanged == UNCHANGED <<platform, ktEnv, env, state, tclosed, ptr, ntxn>>

\* Txn.openCursor and the constructor.
OpenCursor(c, t) ==
    /\ cur[c].kt = "new" /\ MayUse(t)
    /\ \/ NativeCall("cursor", state[t], Freed(ptr[t]), {"throws"}) /\ UNCHANGED cur
       \/ /\ ~Freed(ptr[t]) /\ ~Blocked(ptr[t])
          /\ cur' = [cur EXCEPT ![c] = [kt |-> "open", nat |-> "live", txn |-> ptr[t],
                                        tracked |-> ~ntxn[ptr[t]].ro, of |-> t]]
          /\ Called("cursor", state[t], "ok") /\ UNCHANGED stale
    /\ CursorUnchanged

\* An open cursor of a transaction, the caller's cur[c].of, that has not ended.
CursorUsable(c) == cur[c].kt = "open" /\ state[cur[c].of] = "Ready"

\* get, put, delete, count; not of a parent, whose cursors the child has.
UseCursor(c) ==
    /\ CursorUsable(c) /\ ~HasReadyChild(cur[c].of)
    /\ NativeCall("use cursor", "open", cur[c].nat = "freed" \/ Freed(cur[c].txn),
                  Results(cur[c].txn))
    /\ UNCHANGED cur /\ CursorUnchanged

\* Cursor.renew: only a cursor of a read-only transaction, which may have
\* ended, and onto another of that kind.
RenewCursor(c, t) ==
    /\ cur[c].kt = "open" /\ state[t] = "Ready"
    /\ \/ ~cur[c].tracked
       \/ CursorUsable(c)
    /\ \/ /\ NativeCall("renew cursor", "open", cur[c].nat = "freed" \/ Freed(ptr[t]), {"throws"})
          /\ UNCHANGED cur
       \/ /\ cur[c].nat = "live" /\ ~Blocked(ptr[t])
          /\ ~cur[c].tracked /\ ntxn[ptr[t]].ro
          /\ cur' = [cur EXCEPT ![c].txn = ptr[t], ![c].of = t]
          /\ Called("renew cursor", "open", "ok") /\ UNCHANGED stale
    /\ CursorUnchanged

\* Cursor.close.  The cursor of a write transaction may only be closed before
\* the transaction ends; while a child has the cursor nothing is freed.  Only
\* jvmMain remembers that it was closed.
CloseCursor(c) ==
    /\ cur[c].kt # "new"
    /\ \/ cur[c].kt = "closed" /\ platform = "jvm"
       \/ cur[c].kt = "open" /\ (cur[c].tracked => CursorUsable(c))
    /\ NativeCall("close cursor", cur[c].kt, cur[c].kt = "open" /\ cur[c].nat = "freed", {"ok"})
    /\ cur' = IF cur[c].kt = "closed" THEN cur
              ELSE [cur EXCEPT ![c].kt = "closed",
                       ![c].nat = IF cur[c].tracked /\ ntxn[cur[c].txn].child # NoTxn
                                  THEN "live" ELSE "freed"]
    /\ CursorUnchanged

Next ==
    /\ ~stale
    /\ \/ Open \/ CloseEnv
       \/ \E t \in Txns :
             \/ \E ro \in BOOLEAN : Begin(t, ro)
             \/ \E p \in Txns : BeginChild(t, p)
             \/ Operate(t) \/ Commit(t) \/ Abort(t) \/ NotReady(t)
             \/ CloseTxn(t) \/ Reset(t) \/ Renew(t)
       \/ \E c \in Cursors :
             \/ \E t \in Txns : OpenCursor(c, t) \/ RenewCursor(c, t)
             \/ UseCursor(c) \/ CloseCursor(c)

Spec == Init /\ [][Next]_vars

-----------------------------------------------------------------------------
(***************************************************************************)
(* Properties.                                                             *)
(***************************************************************************)

\* Every variable has its type, and a Txn has a pointer when it is constructed.
TypeOK ==
    /\ platform \in {"jvm", "native"}
    /\ ktEnv \in [isOpened : BOOLEAN, isClosed : BOOLEAN]
    /\ env \in {"created", "active", "inactive", "freed"}
    /\ state \in [Txns -> {"new", "Ready", "Done", "Reset", "Released"}]
    /\ tclosed \in [Txns -> BOOLEAN]
    /\ ptr \in [Txns -> Natives \cup {NoTxn}]
    /\ \A t \in Txns : ptr[t] = NoTxn <=> state[t] = "new"
    /\ ntxn \in [Natives -> [st : {"none", "active", "finished", "freed"}, ro : BOOLEAN,
                             parent : Natives \cup {NoTxn}, child : Natives \cup {NoTxn},
                             by : Txns \cup {NoTxn}]]
    /\ cur \in [Cursors -> [kt : {"new", "open", "closed"}, nat : {"none", "live", "freed"},
                            txn : Natives \cup {NoTxn}, tracked : BOOLEAN,
                            of : Txns \cup {NoTxn}]]
    /\ stale \in BOOLEAN

\* No call of careful callers reaches the native library with a freed object.
NoStaleCall == ~stale

\* A Txn that is Ready has a native transaction which it began itself, and
\* which has not ended, though all writers have the same pointer.
ReadyIsActive ==
    \A t \in Txns : state[t] = "Ready" => ntxn[ptr[t]].st = "active" /\ ntxn[ptr[t]].by = t

\* No native transaction stays open, with the writer mutex or a reader's slot,
\* when no Txn can end it any more.
NoneLeft ==
    \A n \in Natives : ntxn[n].st = "active" =>
        \E t \in Txns : state[t] = "Ready" /\ ptr[t] = n

\* An operation on a transaction that has ended fails, as two tests say.
EndedTxnThrows == call.op = "operate" /\ call.before = "Done" => call.result # "ok"
=============================================================================
