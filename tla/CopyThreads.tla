---------------------------- MODULE CopyThreads ----------------------------
(***************************************************************************)
(* The two threads of a compacting copy (mdb_env_copyfd1): the provider    *)
(* walks the trees and fills two buffers in turn, the writer thread writes *)
(* them to the file.  They share a mutex, a condition variable and the     *)
(* counter mc_new.                                                         *)
(*                                                                         *)
(* A page is its number in the copy.  The tree walk is abstract: at any    *)
(* point it gives a page, an overflow page with its tail, an error, or its *)
(* end.  The two meta pages are in the first buffer from the start.        *)
(***************************************************************************)
EXTENDS Integers, Sequences

CONSTANTS
    BufPages,   \* MDB_WBUF / me_psize, the pages that fit a buffer
    MaxOver,    \* bound on the pages of an overflow page's tail
    MaxPages    \* bound on the pages of the copy

NumMetas == 2
EOF == 16       \* MDB_EOF

ASSUME CopyAssumption ==
    /\ BufPages \in Nat /\ BufPages > NumMetas
    /\ MaxOver \in Nat /\ MaxPages \in Nat

Threads == {"provider", "writer"}

VARIABLES
    pc,       \* where each thread is
    lock,     \* the holder of mc_mutex, or "none"
    waiting,  \* the threads in pthread_cond_wait that no signal has reached
    new,      \* mc_new
    buf,      \* mc_wbuf and mc_wlen: the pages in each buffer
    over,     \* mc_over and mc_olen: the overflow tail behind each buffer
    toggle,   \* each thread's number of the buffer it uses
    next,     \* mc_next_pgno
    adjust,   \* the argument of mdb_env_cthr_toggle
    error,    \* mc_error # 0
    out,      \* what the file has
    snapshot, \* the read transaction is open
    ret       \* the result of the copy

vars == <<pc, lock, waiting, new, buf, over, toggle, next, adjust, error, out, snapshot, ret>>

ProviderPcs == {"begin", "walk", "lock", "check", "wait", "toggled", "join", "done"}
WriterPcs == {"start", "lock", "check", "wait", "write", "tail", "done"}

\* The pages a, a + 1, ..., b - 1.
PageRange(a, b) == [i \in 1..(b - a) |-> a + i - 1]

Init ==
    /\ pc = [provider |-> "begin", writer |-> "start"]
    /\ lock = "none"
    /\ waiting = {}
    /\ new = 0
    /\ buf = [b \in 0..1 |-> <<>>]
    /\ over = [b \in 0..1 |-> <<>>]
    /\ toggle = [t \in Threads |-> 0]
    /\ next = NumMetas
    /\ adjust = 0
    /\ error = FALSE
    /\ out = <<>>
    /\ snapshot = FALSE
    /\ ret = "none"

Goto(t, p) == pc' = [pc EXCEPT ![t] = p]
Other(t) == IF t = "provider" THEN "writer" ELSE "provider"

\* pthread_cond_wait, when the caller has the mutex.
CondWait(t) ==
    /\ Goto(t, "wait")
    /\ lock' = "none"
    /\ waiting' = waiting \cup {t}

\* The return of pthread_cond_wait: it takes the mutex again.
Awake(t) ==
    /\ pc[t] = "wait" /\ t \notin waiting
    /\ lock = "none"
    /\ lock' = t
    /\ Goto(t, "check")
    /\ UNCHANGED <<waiting, new, buf, over, toggle, next, adjust, error, out, snapshot, ret>>

\* Mutant of Signal: the provider's signal is forgotten.
SignalLost(t) == waiting' = waiting

\* pthread_cond_signal by t.
Signal(t) == waiting' = waiting \ {Other(t)}

\* A thread may wake from pthread_cond_wait without a signal.
Spurious(t) ==
    /\ t \in waiting
    /\ waiting' = waiting \ {t}
    /\ UNCHANGED <<pc, lock, new, buf, over, toggle, next, adjust, error, out, snapshot, ret>>

-----------------------------------------------------------------------------
(***************************************************************************)
(* The provider: mdb_env_copyfd1 and mdb_env_cwalk.                        *)
(***************************************************************************)

WalkUnchanged == UNCHANGED <<lock, waiting, new, toggle, out, ret>>

\* To mdb_env_cthr_toggle(my, a).
HandOff(a) == Goto("provider", "lock") /\ adjust' = a

\* The finish of mdb_env_copyfd1: an error is stored before the end is told.
Finish(failed) ==
    /\ error' = (error \/ failed)
    /\ HandOff(1 + EOF)

\* The thread was started.  mdb_txn_begin and the meta pages; either the
\* transaction or the count of its free pages may fail.
Begin ==
    /\ pc.provider = "begin"
    /\ \/ /\ snapshot' = TRUE
          /\ buf' = [buf EXCEPT ![0] = PageRange(0, NumMetas)]
          /\ Goto("provider", "walk")
          /\ UNCHANGED <<error, adjust>>
       \/ /\ snapshot' \in BOOLEAN
          /\ Finish(TRUE)
          /\ UNCHANGED buf
    /\ UNCHANGED <<over, next>>
    /\ WalkUnchanged

Mine == toggle.provider

\* A full buffer is handed off before the next page.
BufferFull ==
    /\ pc.provider = "walk"
    /\ Len(buf[Mine]) >= BufPages
    /\ HandOff(1)
    /\ UNCHANGED <<buf, over, next, error, snapshot>>
    /\ WalkUnchanged

AddPage ==
    /\ pc.provider = "walk"
    /\ Len(buf[Mine]) < BufPages /\ next < MaxPages
    /\ buf' = [buf EXCEPT ![Mine] = Append(@, next)]
    /\ next' = next + 1
    /\ UNCHANGED <<pc, adjust, over, error, snapshot>>
    /\ WalkUnchanged

\* An overflow page: the buffer is handed off with the tail behind it.
AddOverflow(n) ==
    /\ pc.provider = "walk"
    /\ Len(buf[Mine]) < BufPages /\ next + n < MaxPages
    /\ buf' = [buf EXCEPT ![Mine] = Append(@, next)]
    /\ over' = [over EXCEPT ![Mine] = PageRange(next + 1, next + 1 + n)]
    /\ next' = next + 1 + n
    /\ HandOff(1)
    /\ UNCHANGED <<error, snapshot>>
    /\ WalkUnchanged

\* Mutant of WalkEnds: the transaction ends before the writer thread.
WalkEndsTxn ==
    /\ pc.provider = "walk"
    /\ \E failed \in BOOLEAN : Finish(failed)
    /\ snapshot' = FALSE
    /\ UNCHANGED <<buf, over, next>>
    /\ WalkUnchanged

WalkEnds ==
    /\ pc.provider = "walk"
    /\ \E failed \in BOOLEAN : Finish(failed)
    /\ UNCHANGED <<buf, over, next, snapshot>>
    /\ WalkUnchanged

\* mdb_env_cthr_toggle: the mutex is taken and the buffer given away.
GiveBuffer ==
    /\ pc.provider = "lock"
    /\ lock = "none"
    /\ lock' = "provider"
    /\ new' = new + adjust
    /\ Signal("provider")
    /\ Goto("provider", "check")
    /\ UNCHANGED <<buf, over, toggle, next, adjust, error, out, snapshot, ret>>

\* mc_new & 2; the mutant waits for MDB_EOF only.
NeverInUse(n) == FALSE
BothInUse(n) == n % 4 >= 2

\* It waits until one of the two buffers is free, and releases the mutex.
AwaitBuffer ==
    /\ pc.provider = "check" /\ lock = "provider"
    /\ IF BothInUse(new) THEN CondWait("provider")
       ELSE /\ lock' = "none"
            /\ Goto("provider", "toggled")
            /\ UNCHANGED waiting
    /\ UNCHANGED <<new, buf, over, toggle, next, adjust, error, out, snapshot, ret>>

\* Without the mutex: to the other buffer, which is emptied; then mc_error is
\* looked at.  At the end the thread is waited for in any case.
ToggleBuffer ==
    /\ pc.provider = "toggled"
    /\ toggle' = [toggle EXCEPT !.provider = 1 - @]
    /\ buf' = [buf EXCEPT ![1 - Mine] = <<>>]
    /\ IF adjust = 1 + EOF THEN Goto("provider", "join") /\ UNCHANGED adjust
       ELSE IF error THEN HandOff(1 + EOF)
       ELSE Goto("provider", "walk") /\ UNCHANGED adjust
    /\ UNCHANGED <<lock, waiting, new, over, next, error, out, snapshot, ret>>

\* Mutant of Join: the thread is not waited for.
JoinAtOnce ==
    /\ pc.provider = "join"
    /\ snapshot' = FALSE
    /\ ret' = IF error THEN "failed" ELSE "ok"
    /\ Goto("provider", "done")
    /\ UNCHANGED <<lock, waiting, new, buf, over, toggle, next, adjust, error, out>>

\* THREAD_FINISH, the end of the read transaction, and the result.
Join ==
    /\ pc.provider = "join" /\ pc.writer = "done"
    /\ snapshot' = FALSE
    /\ ret' = IF error THEN "failed" ELSE "ok"
    /\ Goto("provider", "done")
    /\ UNCHANGED <<lock, waiting, new, buf, over, toggle, next, adjust, error, out>>

Provider ==
    \/ Begin \/ BufferFull \/ AddPage \/ WalkEnds
    \/ \E n \in 1..MaxOver : AddOverflow(n)
    \/ GiveBuffer \/ AwaitBuffer \/ Awake("provider") \/ ToggleBuffer \/ Join

-----------------------------------------------------------------------------
(***************************************************************************)
(* The writer thread: mdb_env_copythr.  It keeps the mutex while it writes.*)
(***************************************************************************)

\* pthread_sigmask may fail; the thread goes on.
Start ==
    /\ pc.writer = "start"
    /\ \E failed \in BOOLEAN : error' = (error \/ failed)
    /\ Goto("writer", "lock")
    /\ UNCHANGED <<lock, waiting, new, buf, over, toggle, next, adjust, out, snapshot, ret>>

TakeMutex ==
    /\ pc.writer = "lock"
    /\ lock = "none"
    /\ lock' = "writer"
    /\ Goto("writer", "check")
    /\ UNCHANGED <<waiting, new, buf, over, toggle, next, adjust, error, out, snapshot, ret>>

AwaitWork ==
    /\ pc.writer = "check" /\ lock = "writer"
    /\ IF new = 0 THEN CondWait("writer")
       ELSE IF new = EOF
       THEN lock' = "none" /\ Goto("writer", "done") /\ UNCHANGED waiting
       ELSE Goto("writer", "write") /\ UNCHANGED <<lock, waiting>>
    /\ UNCHANGED <<new, buf, over, toggle, next, adjust, error, out, snapshot, ret>>

\* Mutant of Write: mc_error is not looked at.
WriteAlways(pages) ==
    \E n \in 0..Len(pages) :
        /\ out' = out \o SubSeq(pages, 1, n)
        /\ error' = (error \/ n < Len(pages))

\* The loop around write(): nothing after an error, else all of the pages, or
\* a part of them and an error.  A page that is written in part is not counted.
Write(pages) ==
    \E n \in 0..Len(pages) :
        /\ error => n = 0
        /\ out' = out \o SubSeq(pages, 1, n)
        /\ error' = (error \/ n < Len(pages))

WriteBuffer ==
    /\ pc.writer = "write"
    /\ Write(buf[toggle.writer])
    /\ Goto("writer", "tail")
    /\ UNCHANGED <<lock, waiting, new, buf, over, toggle, next, adjust, snapshot, ret>>

\* Mutant of WriteTail: the tail is not taken out of mc_olen.
WriteTailKept ==
    /\ pc.writer = "tail"
    /\ Write(over[toggle.writer])
    /\ buf' = [buf EXCEPT ![toggle.writer] = <<>>]
    /\ toggle' = [toggle EXCEPT !.writer = 1 - @]
    /\ new' = new - 1
    /\ Signal("writer")
    /\ Goto("writer", "check")
    /\ UNCHANGED <<lock, next, adjust, over, snapshot, ret>>

\* The overflow tail, if there is one; then the buffer goes back.
WriteTail ==
    /\ pc.writer = "tail"
    /\ Write(over[toggle.writer])
    /\ over' = [over EXCEPT ![toggle.writer] = <<>>]
    /\ buf' = [buf EXCEPT ![toggle.writer] = <<>>]
    /\ toggle' = [toggle EXCEPT !.writer = 1 - @]
    /\ new' = new - 1
    /\ Signal("writer")
    /\ Goto("writer", "check")
    /\ UNCHANGED <<lock, next, adjust, snapshot, ret>>

Writer == Start \/ TakeMutex \/ AwaitWork \/ Awake("writer") \/ WriteBuffer \/ WriteTail

Next == Provider \/ Writer \/ \E t \in Threads : Spurious(t)

\* Both threads are scheduled, write() returns, and the threads do not wake
\* without a signal forever.
Fairness ==
    /\ WF_vars(Provider) /\ WF_vars(Writer)
    /\ <>[][\A t \in Threads : ~Spurious(t)]_vars

Spec == Init /\ [][Next]_vars /\ Fairness

-----------------------------------------------------------------------------
(***************************************************************************)
(* Properties.                                                             *)
(***************************************************************************)

\* Every variable has its type.
TypeOK ==
    /\ pc \in [Threads -> ProviderPcs \cup WriterPcs]
    /\ pc.provider \in ProviderPcs /\ pc.writer \in WriterPcs
    /\ lock \in Threads \cup {"none"}
    /\ waiting \subseteq Threads
    /\ new \in {0, 1, 2, EOF, EOF + 1, EOF + 2}
    /\ buf \in [0..1 -> Seq(Nat)] /\ over \in [0..1 -> Seq(Nat)]
    /\ toggle \in [Threads -> 0..1]
    /\ next \in Nat
    /\ adjust \in {0, 1, 1 + EOF}
    /\ error \in BOOLEAN
    /\ out \in Seq(Nat)
    /\ snapshot \in BOOLEAN
    /\ ret \in {"none", "ok", "failed"}

\* The buffers that the provider may change without the mutex: it fills one,
\* resets the length of the other, and at last frees both.
Filling ==
    CASE pc.provider \in {"begin", "walk", "lock"} -> {Mine}
      [] pc.provider = "toggled" -> {1 - Mine}
      [] pc.provider = "done" -> {0, 1}
      [] OTHER -> {}

\* The threads never use the same buffer at a time, though the provider fills
\* it, resets mc_wlen and frees it without the mutex.
BufferOwned == pc.writer \in {"write", "tail"} => toggle.writer \notin Filling

\* mc_over points into the map: the writer thread reads it only while the
\* read transaction protects those pages.
SnapshotHeld ==
    pc.writer \in {"write", "tail"} /\ over[toggle.writer] # <<>> => snapshot

\* The file is written in order, without gaps, and whole when the copy
\* succeeds: what CopyFile says.
File == INSTANCE CopyFile WITH size <- next
FileWritten == File!Spec

\* The copy returns: no hand-off is missed, whatever fails.
Returns == <>(ret # "none")
=============================================================================
