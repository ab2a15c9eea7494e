-------------------------- MODULE CopyThreadsProof --------------------------
(***************************************************************************)
(* Proofs about CopyThreads, for buffers of any size and copies of any     *)
(* length.  The argument: mc_new counts the buffers between the two        *)
(* threads' toggles.  With one buffer handed over the toggles differ, with *)
(* none they agree, so that the buffer the writer has is never the one the *)
(* provider fills; and what is handed over continues the file.             *)
(***************************************************************************)
EXTENDS CopyThreads, SequenceTheorems, TLAPS

\* The buffers handed over: mc_new without MDB_EOF.
Count == IF new >= EOF THEN new - EOF ELSE new

\* The buffer that the provider fills next, or fills now.
FillsNext == IF pc.provider \in {"check", "wait", "toggled"} THEN 1 - Mine ELSE Mine

\* The toggles agree exactly when an even number of buffers is handed over.
TogglesInv == FillsNext = toggle.writer <=> Count # 1

\* What mc_new is at each point of the provider.
CountInv ==
    /\ pc.provider \in {"begin", "walk", "lock"} => new \in {0, 1}
    /\ pc.provider \in {"check", "wait"} =>
           new \in IF adjust = 1 THEN {0, 1, 2} ELSE {EOF, EOF + 1, EOF + 2}
    /\ pc.provider = "toggled" => new \in IF adjust = 1 THEN {0, 1} ELSE {EOF, EOF + 1}
    /\ pc.provider \in {"join", "done"} => new \in {EOF, EOF + 1}
    /\ pc.provider \in {"lock", "check", "wait", "toggled"} => adjust \in {1, 1 + EOF}

\* Who has the mutex, and that the writer writes only what was handed over.
LockInv ==
    /\ pc.provider = "check" => lock = "provider"
    /\ pc.writer \in {"check", "write", "tail"} => lock = "writer"
    /\ pc.writer \in {"write", "tail"} => Count # 0
    /\ pc.writer = "done" => new = EOF
    /\ pc.provider = "done" => pc.writer = "done"

\* The read transaction lasts while there can be an overflow tail.
SnapshotInv ==
    /\ pc.provider = "begin" => \A b \in 0..1 : over[b] = <<>>
    /\ pc.provider = "walk" => snapshot
    /\ pc.provider \in {"lock", "check", "wait", "toggled"} /\ adjust = 1 => snapshot
    /\ pc.writer # "done" => snapshot \/ \A b \in 0..1 : over[b] = <<>>

CopyInv == TypeOK /\ TogglesInv /\ CountInv /\ LockInv /\ SnapshotInv

-----------------------------------------------------------------------------

\* A range of pages is a sequence of numbers (what an overflow tail is).
LEMMA PageRangeType ==
    ASSUME NEW a \in Nat, NEW b \in Nat, a <= b
    PROVE PageRange(a, b) \in Seq(Nat)
<1>1. b - a \in Nat
  OBVIOUS
<1>2. \A i \in 1..(b - a) : a + i - 1 \in Nat
  OBVIOUS
<1> QED
  BY <1>1, <1>2 DEF PageRange

\* What the loop around write() adds to the file is a sequence of numbers.
LEMMA WriteType ==
    ASSUME NEW pages \in Seq(Nat), out \in Seq(Nat), error \in BOOLEAN, Write(pages)
    PROVE out' \in Seq(Nat) /\ error' \in BOOLEAN
<1>1. PICK n \in 0..Len(pages) :
        out' = out \o SubSeq(pages, 1, n) /\ error' = (error \/ n < Len(pages))
  BY DEF Write
<1>2. SubSeq(pages, 1, n) \in Seq(Nat)
  <2>1. \A i \in 1..n : i \in 1..Len(pages) /\ pages[i] \in Nat
    BY ElementOfSeq
  <2> QED
    BY <2>1, SubSeqProperties
<1> QED
  BY <1>1, <1>2

\* The initial states satisfy the inductive invariant.
LEMMA CopyInit == Init => CopyInv
  BY DEF Init, CopyInv, TypeOK, TogglesInv, CountInv, LockInv, SnapshotInv,
         Count, FillsNext, Mine, Threads, ProviderPcs, WriterPcs, NumMetas, EOF

\* A thread's step changes its own place only.
LEMMA GotoPc ==
    ASSUME TypeOK, NEW t \in Threads, NEW p, Goto(t, p),
           t = "provider" => p \in ProviderPcs, t = "writer" => p \in WriterPcs
    PROVE /\ pc' \in [Threads -> ProviderPcs \cup WriterPcs]
          /\ pc'.provider \in ProviderPcs /\ pc'.writer \in WriterPcs
          /\ t = "provider" => pc'.provider = p /\ pc'.writer = pc.writer
          /\ t = "writer" => pc'.writer = p /\ pc'.provider = pc.provider
  BY DEF TypeOK, Goto, Threads, ProviderPcs, WriterPcs

\* Every step of the two threads preserves the inductive invariant.
LEMMA CopyStep == CopyInv /\ [Next]_vars => CopyInv'
<1> SUFFICES ASSUME CopyInv, [Next]_vars PROVE CopyInv'
  OBVIOUS
<1> USE DEF Threads, ProviderPcs, WriterPcs, EOF, Goto, Other
<1>u. CASE UNCHANGED vars
  BY <1>u DEF vars, CopyInv, TypeOK, TogglesInv, CountInv, LockInv, SnapshotInv, Count, FillsNext, Mine
<1>1. CASE Begin
  <2>1. PageRange(0, NumMetas) \in Seq(Nat)
    BY PageRangeType DEF NumMetas
  <2>2. /\ UNCHANGED <<over, next, lock, waiting, new, toggle, out, ret>>
        /\ pc.provider = "begin"
    BY <1>1 DEF Begin, WalkUnchanged
  <2>3. CASE /\ snapshot' = TRUE
             /\ buf' = [buf EXCEPT ![0] = PageRange(0, NumMetas)]
             /\ Goto("provider", "walk")
             /\ UNCHANGED <<error, adjust>>
    <3>1. pc' \in [Threads -> ProviderPcs \cup WriterPcs]
          /\ pc'.provider = "walk" /\ pc'.writer = pc.writer
      BY <2>3, GotoPc DEF CopyInv
    <3>2. buf' \in [0..1 -> Seq(Nat)]
      BY <2>1, <2>3 DEF CopyInv, TypeOK
    <3> QED
      BY <2>2, <2>3, <3>1, <3>2 DEF CopyInv, TypeOK, TogglesInv, CountInv, LockInv, SnapshotInv, Count, FillsNext, Mine
  <2>4. CASE snapshot' \in BOOLEAN /\ Finish(TRUE) /\ UNCHANGED buf
    <3>1. pc' \in [Threads -> ProviderPcs \cup WriterPcs]
          /\ pc'.provider = "lock" /\ pc'.writer = pc.writer
      BY <2>4, GotoPc DEF CopyInv, Finish, HandOff
    <3> QED
      BY <2>2, <2>4, <3>1 DEF Finish, HandOff, CopyInv, TypeOK, TogglesInv, CountInv, LockInv, SnapshotInv, Count, FillsNext, Mine
  <2> QED
    BY <1>1, <2>3, <2>4 DEF Begin
<1>2. CASE BufferFull
  BY <1>2 DEF BufferFull, CopyInv, TypeOK, TogglesInv, CountInv, LockInv, SnapshotInv, Count, FillsNext, Mine, HandOff, WalkUnchanged
<1>3. CASE AddPage
  BY <1>3 DEF AddPage, CopyInv, TypeOK, TogglesInv, CountInv, LockInv, SnapshotInv, Count, FillsNext, Mine, WalkUnchanged
<1>4. ASSUME NEW n \in 1..MaxOver, AddOverflow(n) PROVE CopyInv'
  <2>1. PageRange(next + 1, next + 1 + n) \in Seq(Nat)
    <3>1. next \in Nat /\ n \in Nat
      BY CopyAssumption DEF CopyInv, TypeOK
    <3>2. next + 1 \in Nat /\ next + 1 + n \in Nat /\ next + 1 <= next + 1 + n
      BY <3>1
    <3> QED
      BY <3>2, PageRangeType
  <2>2. /\ UNCHANGED <<error, snapshot, lock, waiting, new, toggle, out, ret>>
        /\ pc.provider = "walk" /\ adjust' = 1
        /\ Goto("provider", "lock")
    BY <1>4 DEF AddOverflow, WalkUnchanged, HandOff
  <2>3. pc' \in [Threads -> ProviderPcs \cup WriterPcs]
        /\ pc'.provider = "lock" /\ pc'.writer = pc.writer
    BY <2>2, GotoPc DEF CopyInv
  <2>4. Append(buf[Mine], next) \in Seq(Nat)
    BY DEF CopyInv, TypeOK, Mine
  <2>5. buf' \in [0..1 -> Seq(Nat)] /\ over' \in [0..1 -> Seq(Nat)] /\ next' \in Nat
    <3>1. buf \in [0..1 -> Seq(Nat)] /\ over \in [0..1 -> Seq(Nat)] /\ next \in Nat
      BY DEF CopyInv, TypeOK
    <3>2. /\ buf' = [buf EXCEPT ![Mine] = Append(@, next)]
          /\ over' = [over EXCEPT ![Mine] = PageRange(next + 1, next + 1 + n)]
          /\ next' = next + 1 + n
      BY <1>4 DEF AddOverflow
    <3>3. next' \in Nat
      BY <3>1, <3>2, CopyAssumption
    <3> QED
      BY <2>1, <2>4, <3>1, <3>2, <3>3
  <2> QED
    BY <2>2, <2>3, <2>5 DEF CopyInv, TypeOK, TogglesInv, CountInv, LockInv, SnapshotInv, Count, FillsNext, Mine
<1>5. CASE WalkEnds
  BY <1>5 DEF WalkEnds, CopyInv, TypeOK, TogglesInv, CountInv, LockInv, SnapshotInv, Count, FillsNext, Mine, Finish, HandOff, WalkUnchanged
<1>6. CASE GiveBuffer
  BY <1>6 DEF GiveBuffer, CopyInv, TypeOK, TogglesInv, CountInv, LockInv, SnapshotInv, Count, FillsNext, Mine, Signal
<1>7. CASE AwaitBuffer
  <2>1. BothInUse(new) <=> new \in {2, EOF + 2}
    <3>1. /\ 0 % 4 = 0 /\ 1 % 4 = 1 /\ 2 % 4 = 2
          /\ 16 % 4 = 0 /\ 17 % 4 = 1 /\ 18 % 4 = 2
      OBVIOUS
    <3>2. new \in {0, 1, 2, 16, 17, 18}
      BY DEF CopyInv, TypeOK
    <3> QED
      BY <3>1, <3>2 DEF BothInUse
  <2>2. /\ pc.provider = "check" /\ lock = "provider"
        /\ UNCHANGED <<new, buf, over, toggle, next, adjust, error, out, snapshot, ret>>
    BY <1>7 DEF AwaitBuffer
  <2>3. CASE BothInUse(new)
    <3>1. lock' = "none" /\ waiting' = waiting \cup {"provider"} /\ Goto("provider", "wait")
      BY <1>7, <2>3 DEF AwaitBuffer, CondWait
    <3>2. pc' \in [Threads -> ProviderPcs \cup WriterPcs]
          /\ pc'.provider = "wait" /\ pc'.writer = pc.writer
      BY <3>1, GotoPc DEF CopyInv
    <3> QED
      BY <2>2, <3>1, <3>2 DEF CopyInv, TypeOK, TogglesInv, CountInv, LockInv, SnapshotInv, Count, FillsNext, Mine
  <2>4. CASE ~BothInUse(new)
    <3>1. lock' = "none" /\ UNCHANGED waiting /\ Goto("provider", "toggled")
      BY <1>7, <2>4 DEF AwaitBuffer
    <3>2. pc' \in [Threads -> ProviderPcs \cup WriterPcs]
          /\ pc'.provider = "toggled" /\ pc'.writer = pc.writer
      BY <3>1, GotoPc DEF CopyInv
    <3> QED
      BY <2>1, <2>2, <2>4, <3>1, <3>2 DEF CopyInv, TypeOK, TogglesInv, CountInv, LockInv, SnapshotInv, Count, FillsNext, Mine
  <2> QED
    BY <2>3, <2>4
<1>8. ASSUME NEW t \in Threads, Awake(t) PROVE CopyInv'
  BY <1>8 DEF Awake, CopyInv, TypeOK, TogglesInv, CountInv, LockInv, SnapshotInv, Count, FillsNext, Mine
<1>9. CASE ToggleBuffer
  <2>1. /\ pc.provider = "toggled"
        /\ toggle' = [toggle EXCEPT !.provider = 1 - @]
        /\ buf' = [buf EXCEPT ![1 - Mine] = <<>>]
        /\ UNCHANGED <<lock, waiting, new, over, next, error, out, snapshot, ret>>
    BY <1>9 DEF ToggleBuffer
  <2>2. toggle' \in [Threads -> 0..1] /\ buf' \in [0..1 -> Seq(Nat)]
        /\ toggle'.provider = 1 - toggle.provider /\ toggle'.writer = toggle.writer
    <3>1. toggle \in [Threads -> 0..1] /\ buf \in [0..1 -> Seq(Nat)]
      BY DEF CopyInv, TypeOK
    <3>2. <<>> \in Seq(Nat)
      OBVIOUS
    <3>3. buf' \in [0..1 -> Seq(Nat)]
      BY <2>1, <3>1, <3>2
    <3>4. 1 - toggle.provider \in 0..1
      BY <3>1
    <3>5. toggle' = [toggle EXCEPT !["provider"] = 1 - toggle.provider]
      BY <2>1
    <3> QED
      BY <3>1, <3>3, <3>4, <3>5
  <2>3. \E p \in {"join", "lock", "walk"} :
          /\ Goto("provider", p)
          /\ p = "join" => adjust = 1 + EOF /\ adjust' = adjust
          /\ p = "lock" => adjust # 1 + EOF /\ adjust' = 1 + EOF
          /\ p = "walk" => adjust # 1 + EOF /\ adjust' = adjust
    BY <1>9 DEF ToggleBuffer, HandOff
  <2>4. /\ pc' \in [Threads -> ProviderPcs \cup WriterPcs]
        /\ pc'.provider \in {"join", "lock", "walk"} /\ pc'.writer = pc.writer
        /\ pc'.provider = "join" => adjust = 1 + EOF /\ adjust' = adjust
        /\ pc'.provider = "lock" => adjust # 1 + EOF /\ adjust' = 1 + EOF
        /\ pc'.provider = "walk" => adjust # 1 + EOF /\ adjust' = adjust
    BY <2>3, GotoPc DEF CopyInv
  <2> QED
    BY <2>1, <2>2, <2>4 DEF CopyInv, TypeOK, TogglesInv, CountInv, LockInv, SnapshotInv, Count, FillsNext, Mine
<1>10. CASE Join
  BY <1>10 DEF Join, CopyInv, TypeOK, TogglesInv, CountInv, LockInv, SnapshotInv, Count, FillsNext, Mine
<1>11. CASE Start
  BY <1>11 DEF Start, CopyInv, TypeOK, TogglesInv, CountInv, LockInv, SnapshotInv, Count, FillsNext, Mine
<1>12. CASE TakeMutex
  BY <1>12 DEF TakeMutex, CopyInv, TypeOK, TogglesInv, CountInv, LockInv, SnapshotInv, Count, FillsNext, Mine
<1>13. CASE AwaitWork
  <2>1. /\ pc.writer = "check" /\ lock = "writer"
        /\ UNCHANGED <<new, buf, over, toggle, next, adjust, error, out, snapshot, ret>>
    BY <1>13 DEF AwaitWork
  <2>2. \E p \in {"wait", "done", "write"} :
          /\ Goto("writer", p)
          /\ p = "done" => new = EOF
          /\ p = "write" => new # 0 /\ new # EOF /\ lock' = lock
          /\ lock' \in {"none", "writer"} /\ waiting' \subseteq Threads
    BY <1>13 DEF AwaitWork, CondWait, CopyInv, TypeOK
  <2>3. /\ pc' \in [Threads -> ProviderPcs \cup WriterPcs]
        /\ pc'.writer \in {"wait", "done", "write"} /\ pc'.provider = pc.provider
        /\ pc'.writer = "done" => new = EOF
        /\ pc'.writer = "write" => new # 0 /\ new # EOF /\ lock' = lock
        /\ lock' \in {"none", "writer"} /\ waiting' \subseteq Threads
    BY <2>2, GotoPc DEF CopyInv
  <2> QED
    BY <2>1, <2>3 DEF CopyInv, TypeOK, TogglesInv, CountInv, LockInv, SnapshotInv, Count, FillsNext, Mine
<1>14. CASE WriteBuffer
  <2>1. buf[toggle.writer] \in Seq(Nat) /\ out \in Seq(Nat) /\ error \in BOOLEAN
    BY DEF CopyInv, TypeOK
  <2>2. out' \in Seq(Nat) /\ error' \in BOOLEAN
    BY <1>14, <2>1, WriteType DEF WriteBuffer
  <2>3. TypeOK'
    BY <1>14, <2>2 DEF WriteBuffer, CopyInv, TypeOK
  <2> QED
    BY <1>14, <2>3 DEF WriteBuffer, TypeOK, CopyInv, TogglesInv, CountInv, LockInv, SnapshotInv, Count, FillsNext, Mine
<1>15. CASE WriteTail
  <2>1. over[toggle.writer] \in Seq(Nat) /\ out \in Seq(Nat) /\ error \in BOOLEAN
    BY DEF CopyInv, TypeOK
  <2>2. out' \in Seq(Nat) /\ error' \in BOOLEAN
    BY <1>15, <2>1, WriteType DEF WriteTail
  <2>3. new \in {1, 2, EOF + 1, EOF + 2} /\ new' = new - 1
    BY <1>15 DEF WriteTail, CopyInv, TypeOK, LockInv, Count
  <2>4. TypeOK'
    <3>1. new' \in {0, 1, 2, EOF, EOF + 1, EOF + 2}
      BY <2>3
    <3>2. over' \in [0..1 -> Seq(Nat)] /\ buf' \in [0..1 -> Seq(Nat)]
      BY <1>15 DEF WriteTail, CopyInv, TypeOK
    <3>3. toggle' \in [Threads -> 0..1] /\ waiting' \subseteq Threads
      <4>1. toggle' = [toggle EXCEPT !["writer"] = 1 - toggle["writer"]]
        BY <1>15 DEF WriteTail
      <4>2. toggle \in [Threads -> 0..1] /\ waiting \subseteq Threads
        BY DEF CopyInv, TypeOK
      <4>3. 1 - toggle["writer"] \in 0..1
        BY <4>2
      <4>4. waiting' = waiting \ {"provider"}
        BY <1>15 DEF WriteTail, Signal
      <4> QED
        BY <4>1, <4>2, <4>3, <4>4
    <3>4. Goto("writer", "check") /\ UNCHANGED <<lock, next, adjust, snapshot, ret>>
      BY <1>15 DEF WriteTail
    <3>5. /\ pc' \in [Threads -> ProviderPcs \cup WriterPcs]
          /\ pc'.provider \in ProviderPcs /\ pc'.writer \in WriterPcs
      BY <3>4, GotoPc DEF CopyInv
    <3> QED
      BY <2>2, <3>1, <3>2, <3>3, <3>4, <3>5 DEF CopyInv, TypeOK
  <2>5. toggle'.writer = 1 - toggle.writer /\ toggle'.provider = toggle.provider
    BY <1>15 DEF WriteTail, CopyInv, TypeOK
  <2>6. TogglesInv'
    BY <1>15, <2>3, <2>4, <2>5 DEF WriteTail, CopyInv, TypeOK, TogglesInv, Count, FillsNext, Mine
  <2>7. CountInv'
    BY <1>15, <2>3, <2>4 DEF WriteTail, CopyInv, TypeOK, CountInv, LockInv
  <2>8. LockInv' /\ SnapshotInv'
    BY <1>15, <2>3, <2>4 DEF WriteTail, CopyInv, TypeOK, LockInv, SnapshotInv, Count
  <2> QED
    BY <2>4, <2>6, <2>7, <2>8 DEF CopyInv
<1>16. ASSUME NEW t \in Threads, Spurious(t) PROVE CopyInv'
  BY <1>16 DEF Spurious, CopyInv, TypeOK, TogglesInv, CountInv, LockInv, SnapshotInv, Count, FillsNext, Mine
<1> QED
  BY <1>u, <1>1, <1>2, <1>3, <1>4, <1>5, <1>6, <1>7, <1>8, <1>9, <1>10, <1>11, <1>12, <1>13, <1>14, <1>15, <1>16 DEF Next, Provider, Writer

\* The writer thread has only buffers that were handed over and not given back
\* (mdb_env_copythr and mdb_env_cthr_toggle): never the provider's, and none
\* when the provider frees them.
LEMMA CopyInvOwned == CopyInv => BufferOwned
  BY DEF CopyInv, TypeOK, TogglesInv, CountInv, LockInv, Count, FillsNext,
         BufferOwned, Filling, Mine, EOF, Threads, ProviderPcs, WriterPcs

\* While the writer thread has an overflow tail, the transaction is open.
LEMMA CopyInvSnapshot == CopyInv => SnapshotHeld
  BY DEF CopyInv, TypeOK, SnapshotInv, SnapshotHeld, Threads

\* CopyInv holds in every reachable state of the two threads.
THEOREM CopyInvariant == Spec => []CopyInv
  BY CopyInit, CopyStep, PTL DEF Spec

\* Every variable of the two threads has its type; mc_new is at most two
\* buffers and MDB_EOF.
THEOREM CopyTypeCorrect == Spec => []TypeOK
<1>1. CopyInv => TypeOK
  BY DEF CopyInv
<1> QED
  BY <1>1, CopyInvariant, PTL

\* The two threads never use the same buffer at a time, with no mutex held
\* while the provider fills one (mdb_env_cwalk), resets its length
\* (mdb_env_cthr_toggle) or frees them (mdb_env_copyfd1).
THEOREM CopyBuffersOwned == Spec => []BufferOwned
  BY CopyInvariant, CopyInvOwned, PTL

\* The writer thread reads the tail of an overflow page from the map only
\* while the read transaction keeps it from being reused.
THEOREM CopySnapshotHeld == Spec => []SnapshotHeld
  BY CopyInvariant, CopyInvSnapshot, PTL

-----------------------------------------------------------------------------
(***************************************************************************)
(* The refinement of CopyFile.  Until an error, the file, the rest of the  *)
(* writer's buffer, its tail, the other buffer and its tail are all pages  *)
(* from 0 to mc_next_pgno in their order, at places a, b and c.            *)
(***************************************************************************)

\* The buffer that the writer thread reads next, or reads now.
Reads == toggle.writer

\* Nothing is left in a buffer that was given back, nor behind it.
EmptyInv ==
    /\ Count = 0 => buf[1 - Reads] = <<>> /\ over[1 - Reads] = <<>>
    /\ pc.provider \notin {"begin", "walk", "lock"} /\ Count = 0 =>
           buf[Reads] = <<>> /\ over[Reads] = <<>>
    /\ pc.provider \notin {"begin", "walk", "lock"} /\ Count = 1 =>
           buf[1 - Reads] = <<>> /\ over[1 - Reads] = <<>>
    /\ pc.provider = "walk" => over[Mine] = <<>>

\* Before the meta pages.
BeginInv ==
    pc.provider = "begin" =>
        /\ new = 0 /\ out = <<>> /\ next = NumMetas /\ toggle = [t \in Threads |-> 0]
        /\ \A b \in 0..1 : buf[b] = <<>> /\ over[b] = <<>>

\* The file is in order; it does not change after the copy has returned.
OutInv ==
    /\ out = PageRange(0, Len(out)) /\ Len(out) <= next
    /\ ret # "none" => pc.provider = "done"

\* Until an error the writer's buffer continues the file, its tail follows, and
\* then the other buffer and its tail.
Queue(a, b, c) ==
    /\ Len(out) <= a /\ a <= b /\ b <= c /\ c <= next
    /\ IF pc.writer = "tail" THEN a = Len(out) ELSE buf[Reads] = PageRange(Len(out), a)
    /\ over[Reads] = PageRange(a, b)
    /\ buf[1 - Reads] = PageRange(b, c)
    /\ over[1 - Reads] = PageRange(c, next)

QueueInv == ~error /\ pc.provider # "begin" => \E a, b, c \in 0..next : Queue(a, b, c)

FileInv == EmptyInv /\ BeginInv /\ OutInv /\ QueueInv

\* The pages of a range.
LEMMA RangeIs ==
  ASSUME NEW a \in Nat, NEW b \in Nat, a <= b
  PROVE  /\ PageRange(a, b) \in Seq(Nat) /\ Len(PageRange(a, b)) = b - a
         /\ \A i \in 1..(b - a) : PageRange(a, b)[i] = a + i - 1
         /\ PageRange(a, b) = <<>> <=> a = b
<1>1. b - a \in Nat /\ \A i \in 1..(b - a) : a + i - 1 \in Nat
  OBVIOUS
<1>2. PageRange(a, b) \in Seq(Nat) /\ Len(PageRange(a, b)) = b - a
  BY <1>1 DEF PageRange
<1>3. PageRange(a, b) = <<>> <=> Len(PageRange(a, b)) = 0
  BY <1>2, EmptySeq
<1> QED BY <1>2, <1>3 DEF PageRange

\* An empty range.
LEMMA RangeEmpty == \A a \in Nat : PageRange(a, a) = <<>>
<1> TAKE a \in Nat
<1>1. a <= a /\ a = a
  OBVIOUS
<1> QED BY <1>1, RangeIs

\* One page more.
LEMMA RangeAppend ==
  ASSUME NEW a \in Nat, NEW b \in Nat, a <= b
  PROVE  Append(PageRange(a, b), b) = PageRange(a, b + 1)
<1>1. /\ PageRange(a, b) \in Seq(Nat) /\ Len(PageRange(a, b)) = b - a
      /\ \A i \in 1..(b - a) : PageRange(a, b)[i] = a + i - 1
      /\ PageRange(a, b + 1) \in Seq(Nat) /\ Len(PageRange(a, b + 1)) = b + 1 - a
      /\ \A i \in 1..(b + 1 - a) : PageRange(a, b + 1)[i] = a + i - 1
  <2>1. b + 1 \in Nat /\ a <= b + 1
    OBVIOUS
  <2>2. /\ PageRange(a, b + 1) \in Seq(Nat) /\ Len(PageRange(a, b + 1)) = b + 1 - a
        /\ \A i \in 1..(b + 1 - a) : PageRange(a, b + 1)[i] = a + i - 1
    BY <2>1, RangeIs
  <2>3. /\ PageRange(a, b) \in Seq(Nat) /\ Len(PageRange(a, b)) = b - a
        /\ \A i \in 1..(b - a) : PageRange(a, b)[i] = a + i - 1
    BY RangeIs
  <2> QED BY <2>2, <2>3
<1> DEFINE s == Append(PageRange(a, b), b)
<1>2. /\ s \in Seq(Nat) /\ Len(s) = Len(PageRange(a, b)) + 1
      /\ \A i \in 1..Len(PageRange(a, b)) : s[i] = PageRange(a, b)[i]
      /\ s[Len(PageRange(a, b)) + 1] = b
  <2>1. PageRange(a, b) \in Seq(Nat)
    BY <1>1
  <2> QED BY <2>1, AppendProperties
<1> HIDE DEF s
<1>3. Len(s) = b + 1 - a
  BY <1>1, <1>2
<1>4. \A i \in 1..(b + 1 - a) : s[i] = a + i - 1
  <2> TAKE i \in 1..(b + 1 - a)
  <2>1. CASE i \in 1..(b - a)
    BY <1>1, <1>2, <2>1
  <2>2. CASE i = b - a + 1
    <3>1. s[i] = b
      BY <1>1, <1>2, <2>2
    <3> QED BY <2>2, <3>1
  <2>3. i \in 1..(b - a) \/ i = b - a + 1
    OBVIOUS
  <2> QED BY <2>1, <2>2, <2>3
<1>5. s = PageRange(a, b + 1)
  <2>1. Len(s) = Len(PageRange(a, b + 1)) /\ \A i \in 1..Len(s) : s[i] = PageRange(a, b + 1)[i]
    BY <1>1, <1>3, <1>4
  <2> QED BY <1>1, <1>2, <2>1, SeqEqual
<1> QED BY <1>5 DEF s

\* A part of a range continues the file.
LEMMA RangeContinued ==
  ASSUME NEW a \in Nat, NEW b \in Nat, a <= b, NEW n \in 0..(b - a)
  PROVE  PageRange(0, a) \o SubSeq(PageRange(a, b), 1, n) = PageRange(0, a + n)
<1>1. /\ PageRange(0, a) \in Seq(Nat) /\ Len(PageRange(0, a)) = a
      /\ \A i \in 1..a : PageRange(0, a)[i] = i - 1
  <2>1. 0 \in Nat /\ 0 <= a /\ a - 0 = a
    OBVIOUS
  <2>2. \A i \in 1..a : 0 + i - 1 = i - 1
    OBVIOUS
  <2> QED BY <2>1, <2>2, RangeIs
<1>2. /\ PageRange(a, b) \in Seq(Nat) /\ Len(PageRange(a, b)) = b - a
      /\ \A i \in 1..(b - a) : PageRange(a, b)[i] = a + i - 1
  BY RangeIs
<1>3. /\ PageRange(0, a + n) \in Seq(Nat) /\ Len(PageRange(0, a + n)) = a + n
      /\ \A i \in 1..(a + n) : PageRange(0, a + n)[i] = i - 1
  <2>1. 0 \in Nat /\ a + n \in Nat /\ 0 <= a + n /\ a + n - 0 = a + n
    OBVIOUS
  <2>2. \A i \in 1..(a + n) : 0 + i - 1 = i - 1
    OBVIOUS
  <2> QED BY <2>1, <2>2, RangeIs
<1> DEFINE p == SubSeq(PageRange(a, b), 1, n)
           s == PageRange(0, a) \o p
<1>4. p \in Seq(Nat) /\ Len(p) = n /\ \A i \in 1..n : p[i] = a + i - 1
  <2>1. n \in Nat /\ \A i \in 1..n : i \in 1..(b - a)
    OBVIOUS
  <2>2. \A i \in 1..n : PageRange(a, b)[i] \in Nat
    BY <1>2, <2>1, ElementOfSeq
  <2> QED BY <1>2, <2>1, <2>2, SubSeqProperties
<1> HIDE DEF p
<1>5. /\ s \in Seq(Nat) /\ Len(s) = a + n
      /\ \A i \in 1..(a + n) : s[i] = IF i <= a THEN PageRange(0, a)[i] ELSE p[i - a]
  <2>1. /\ s \in Seq(Nat) /\ Len(s) = Len(PageRange(0, a)) + Len(p)
        /\ \A i \in 1..(Len(PageRange(0, a)) + Len(p)) :
              s[i] = IF i <= Len(PageRange(0, a)) THEN PageRange(0, a)[i] ELSE p[i - Len(PageRange(0, a))]
    BY <1>1, <1>4, ConcatProperties
  <2>2. Len(PageRange(0, a)) = a /\ Len(p) = n
    BY <1>1, <1>4
  <2> QED BY <2>1, <2>2
<1> HIDE DEF s
<1>6. \A i \in 1..(a + n) : s[i] = i - 1
  <2> TAKE i \in 1..(a + n)
  <2>1. CASE i <= a
    <3>1. i \in 1..a
      BY <2>1
    <3> QED BY <1>1, <1>5, <2>1, <3>1
  <2>2. CASE i > a
    <3>1. i - a \in 1..n /\ ~(i <= a)
      BY <2>2
    <3>2. p[i - a] = a + (i - a) - 1
      BY <1>4, <3>1
    <3> QED BY <1>5, <3>1, <3>2
  <2> QED BY <2>1, <2>2
<1>7. s = PageRange(0, a + n)
  BY <1>3, <1>5, <1>6, SeqEqual
<1> QED BY <1>7 DEF s, p

\* What the loop around write() does with pages that continue the file.
LEMMA WriteRange ==
  ASSUME NEW pages \in Seq(Nat), out \in Seq(Nat), error \in BOOLEAN,
         out = PageRange(0, Len(out)), NEW b \in Nat, Len(out) <= b,
         ~error => pages = PageRange(Len(out), b), Write(pages)
  PROVE  /\ out' = PageRange(0, Len(out')) /\ Len(out) <= Len(out') /\ Len(out') <= b
         /\ Len(out') \in Nat
         /\ error => error' /\ out' = out
         /\ ~error' => ~error /\ Len(out') = b
<1>1. PICK n \in 0..Len(pages) :
        /\ error => n = 0
        /\ out' = out \o SubSeq(pages, 1, n) /\ error' = (error \/ n < Len(pages))
  BY DEF Write
<1>2. Len(out) \in Nat /\ Len(pages) \in Nat
  OBVIOUS
<1>3. CASE error
  <2>1. SubSeq(pages, 1, 0) = <<>>
    BY SubSeqEmpty
  <2>2. out' = out
    BY <1>1, <1>3, <2>1
  <2>3. error'
    BY <1>1, <1>3
  <2> QED BY <1>2, <1>3, <2>2, <2>3
<1>4. CASE ~error
  <2>1. pages = PageRange(Len(out), b) /\ Len(pages) = b - Len(out)
    BY <1>2, <1>4, RangeIs
  <2>2. out' = PageRange(0, Len(out) + n)
    <3>1. n \in 0..(b - Len(out))
      BY <2>1
    <3>2. PageRange(0, Len(out)) \o SubSeq(PageRange(Len(out), b), 1, n) = PageRange(0, Len(out) + n)
      BY <1>2, <3>1, RangeContinued
    <3>3. out' = out \o SubSeq(PageRange(Len(out), b), 1, n)
      BY <1>1, <2>1
    <3> QED BY <3>2, <3>3
  <2>3. Len(out') = Len(out) + n
    <3>1. Len(out) + n \in Nat /\ 0 <= Len(out) + n
      BY <1>2
    <3> QED BY <2>2, <3>1, RangeIs
  <2>4. n <= b - Len(out) /\ (~error' => n = b - Len(out))
    <3>1. error' = (n < Len(pages))
      BY <1>1, <1>4
    <3>2. n \in Nat /\ n <= Len(pages) /\ (~(n < Len(pages)) => n = Len(pages))
      BY <1>2
    <3>3. ~error' => n = Len(pages)
      BY <3>1, <3>2
    <3> QED BY <2>1, <3>2, <3>3
  <2> QED BY <1>2, <1>4, <2>2, <2>3, <2>4
<1> QED BY <1>3, <1>4

\* The queue of pages stays what it was when neither the buffers nor the
\* writer's place change.
LEMMA QueueFrame ==
  ASSUME QueueInv, UNCHANGED <<buf, over, next, out>>, Reads' = Reads,
         error \in BOOLEAN, error => error',
         pc.provider # "begin", pc'.writer = "tail" <=> pc.writer = "tail"
  PROVE  QueueInv'
<1> SUFFICES ASSUME ~error' PROVE \E a, b, c \in 0..next' : Queue(a, b, c)'
  BY DEF QueueInv
<1>1. PICK a \in 0..next, b \in 0..next, c \in 0..next : Queue(a, b, c)
  BY DEF QueueInv
<1>2. Queue(a, b, c)'
  BY <1>1 DEF Queue
<1> QED
  BY <1>2

\* The steps that move no page.
LEMMA QuietStep ==
  ASSUME CopyInv, FileInv, UNCHANGED <<buf, over, toggle, next, out>>,
         error => error', pc'.writer = "tail" <=> pc.writer = "tail",
         pc'.provider = "begin" => pc.provider = "begin" /\ new' = new,
         pc.provider = "begin" => pc'.provider = "begin" \/ error',
         pc'.provider = "walk" => pc.provider = "walk",
         \/ /\ new' = new
            /\ pc'.provider \in {"begin", "walk", "lock"} <=> pc.provider \in {"begin", "walk", "lock"}
         \/ pc.provider = "lock" /\ pc'.provider = "check" /\ new' = new + adjust,
         \/ ret' = ret /\ (pc.provider = "done" => pc'.provider = "done")
         \/ pc'.provider = "done"
  PROVE  FileInv'
<1>1. EmptyInv'
  <2>1. CASE new' = new
    <3>1. pc'.provider \in {"begin", "walk", "lock"} <=> pc.provider \in {"begin", "walk", "lock"}
      <4>1. pc.provider = "lock" => new # new + adjust
        BY DEF CopyInv, TypeOK, CountInv, EOF
      <4> QED BY <2>1, <4>1
    <3> QED BY <2>1, <3>1 DEF FileInv, EmptyInv, Reads, Mine, Count
  <2>2. CASE pc.provider = "lock" /\ pc'.provider = "check" /\ new' = new + adjust
    <3>1. Count \in {0, 1} /\ Count' = Count + 1
      BY <2>2 DEF CopyInv, TypeOK, CountInv, Count, EOF
    <3> QED BY <2>2, <3>1 DEF FileInv, EmptyInv, Reads, Mine
  <2> QED BY <2>1, <2>2
<1>2. BeginInv'
  BY DEF FileInv, BeginInv
<1>3. OutInv'
  BY DEF FileInv, OutInv
<1>4. QueueInv'
  <2>1. CASE pc.provider = "begin"
    BY <2>1 DEF QueueInv
  <2>2. CASE pc.provider # "begin"
    BY <2>2, QueueFrame DEF FileInv, CopyInv, TypeOK, Reads
  <2> QED BY <2>1, <2>2
<1> QED BY <1>1, <1>2, <1>3, <1>4 DEF FileInv

\* mdb_env_cwalk copies a page, perhaps with an overflow tail of n pages.
LEMMA AppendStep ==
  ASSUME CopyInv, FileInv, pc.provider = "walk", NEW n \in Nat,
         buf' = [buf EXCEPT ![Mine] = Append(@, next)],
         over' = [over EXCEPT ![Mine] = PageRange(next + 1, next + 1 + n)],
         next' = next + 1 + n, UNCHANGED <<toggle, out, error, new, ret>>,
         pc'.writer = pc.writer,
         (n = 0 /\ pc'.provider = "walk") \/ pc'.provider = "lock"
  PROVE  FileInv' /\ File!Grow
<1>1. /\ next \in Nat /\ Mine \in 0..1 /\ Reads \in 0..1 /\ Len(out) \in Nat
      /\ buf \in [0..1 -> Seq(Nat)] /\ over \in [0..1 -> Seq(Nat)]
  BY DEF CopyInv, TypeOK, Mine, Reads, Threads
<1>n. next \in Nat /\ Len(out) \in Nat
  BY <1>1
<1>2. Count \in {0, 1} /\ (Mine = Reads <=> Count # 1) /\ over[Mine] = <<>>
  BY DEF CopyInv, CountInv, TogglesInv, Count, FillsNext, Reads, EOF, FileInv, EmptyInv
<1>3. Reads' = Reads /\ Mine' = Mine /\ Count' = Count
  BY DEF Reads, Mine, Count
<1>4. /\ buf'[Mine] = Append(buf[Mine], next) /\ buf'[1 - Mine] = buf[1 - Mine]
      /\ over'[Mine] = PageRange(next + 1, next + 1 + n) /\ over'[1 - Mine] = over[1 - Mine]
  BY <1>1
<1>5. next' \in Nat /\ next' > next /\ next + 1 \in Nat /\ next + 1 <= next'
  BY <1>n
<1>6. ret = "none"
  BY DEF FileInv, OutInv
<1>7. EmptyInv'
  <2>3. Count = 0 => 1 - Mine = 1 - Reads
    BY <1>2
  <2>1. pc'.provider = "walk" => over'[Mine] = <<>>
    <3>1. PageRange(next + 1, next + 1) = <<>>
      BY <1>5, RangeIs
    <3>2. n = 0 => next + 1 + n = next + 1
      BY <1>1
    <3> QED BY <1>4, <3>1, <3>2
  <2>2. Count = 0 => buf'[1 - Reads] = <<>> /\ over'[1 - Reads] = <<>>
    BY <1>2, <1>4, <2>3 DEF FileInv, EmptyInv
  <2> QED BY <1>3, <2>1, <2>2 DEF EmptyInv
<1>8. BeginInv'
  BY DEF BeginInv
<1>9. OutInv'
  BY <1>1, <1>5, <1>6 DEF FileInv, OutInv
<1>10. QueueInv'
  <2> SUFFICES ASSUME ~error PROVE \E a, b, c \in 0..next' : Queue(a, b, c)'
    BY DEF QueueInv
  <2>1. PICK a \in 0..next, b \in 0..next, c \in 0..next : Queue(a, b, c)
    BY DEF FileInv, QueueInv
  <2>2. a \in Nat /\ b \in Nat /\ c \in Nat /\ Len(out) <= a /\ a <= b /\ b <= c /\ c <= next
    BY <1>n, <2>1 DEF Queue
  <2>3. pc'.writer = "tail" <=> pc.writer = "tail"
    OBVIOUS
  <2>4. CASE Count = 0
    <3>1. Mine = Reads /\ buf[1 - Reads] = <<>> /\ over[1 - Reads] = <<>> /\ pc.writer # "tail"
      BY <1>2, <2>4 DEF FileInv, EmptyInv, CopyInv, LockInv
    <3>2. a = b /\ b = c /\ c = next
      <4>1. PageRange(a, b) = <<>> /\ PageRange(b, c) = <<>> /\ PageRange(c, next) = <<>>
        BY <1>2, <2>1, <3>1 DEF Queue
      <4> QED BY <1>n, <2>2, <4>1, RangeIs
    <3>3. buf'[Reads] = PageRange(Len(out), next + 1)
      <4>1. buf[Reads] = PageRange(Len(out), next)
        BY <2>1, <3>1, <3>2 DEF Queue
      <4>2. Len(out) <= next
        BY <2>2, <3>2
      <4> QED BY <1>n, <1>4, <3>1, <4>1, <4>2, RangeAppend
    <3>4. over'[Reads] = PageRange(next + 1, next')
      BY <1>4, <3>1
    <3>5. PICK m \in Nat, k \in Nat : m = next + 1 /\ k = next'
      BY <1>5
    <3>6. buf'[1 - Reads] = PageRange(k, k) /\ over'[1 - Reads] = PageRange(k, k)
      <4>1. PageRange(k, k) = <<>>
        BY RangeEmpty
      <4> QED BY <1>4, <3>1, <4>1
    <3>7. Queue(m, k, k)'
      <4>1. Len(out) <= m
        BY <1>n, <2>2, <3>5
      <4>2. m <= k /\ k <= k
        BY <1>5, <3>5
      <4> QED BY <1>3, <3>1, <3>3, <3>4, <3>5, <3>6, <4>1, <4>2 DEF Queue
    <3>8. m \in 0..next' /\ k \in 0..next'
      BY <1>5, <3>5
    <3> QED BY <3>7, <3>8
  <2>5. CASE Count = 1
    <3>1. Mine = 1 - Reads /\ 1 - Mine = Reads
      BY <1>1, <1>2, <2>5
    <3>2. c = next
      <4>1. PageRange(c, next) = <<>>
        BY <1>2, <2>1, <3>1 DEF Queue
      <4> QED BY <1>n, <2>2, <4>1, RangeIs
    <3>3. buf'[1 - Reads] = PageRange(b, next + 1)
      <4>1. buf[1 - Reads] = PageRange(b, next)
        BY <2>1, <3>2 DEF Queue
      <4>2. b <= next
        BY <2>2, <3>2
      <4> QED BY <1>n, <1>4, <2>2, <3>1, <4>1, <4>2, RangeAppend
    <3>4. over'[1 - Reads] = PageRange(next + 1, next')
      BY <1>4, <3>1
    <3>5. buf'[Reads] = buf[Reads] /\ over'[Reads] = over[Reads]
      BY <1>4, <3>1
    <3>6. PICK m \in Nat : m = next + 1
      BY <1>5
    <3>7. Queue(a, b, m)'
      <4>1. b <= m /\ m <= next'
        BY <1>n, <1>5, <2>2, <3>6
      <4> QED BY <1>3, <2>1, <2>2, <3>3, <3>4, <3>5, <3>6, <4>1 DEF Queue
    <3>8. m \in 0..next' /\ a \in 0..next' /\ b \in 0..next'
      BY <1>n, <1>5, <3>6
    <3> QED BY <3>7, <3>8
  <2> QED BY <1>2, <2>4, <2>5
<1> QED
  BY <1>5, <1>6, <1>7, <1>8, <1>9, <1>10 DEF FileInv, File!Grow

\* What the provider's first step copies: the meta pages.
LEMMA BeginStep ==
  ASSUME CopyInv, FileInv, pc.provider = "begin",
         buf' = [buf EXCEPT ![0] = PageRange(0, NumMetas)],
         UNCHANGED <<over, next, toggle, new, out, ret, error>>,
         pc'.provider = "walk", pc'.writer = pc.writer
  PROVE  FileInv'
<1>1. /\ new = 0 /\ out = <<>> /\ next = 2 /\ Reads = 0 /\ Mine = 0
      /\ \A b \in 0..1 : buf[b] = <<>> /\ over[b] = <<>>
  BY DEF FileInv, BeginInv, Reads, Mine, NumMetas, Threads
<1>2. Count = 0 /\ pc.writer # "tail" /\ Len(out) = 0
  BY <1>1 DEF Count, EOF, CopyInv, LockInv
<1>3. Reads' = 0 /\ Mine' = 0 /\ Count' = 0
  BY <1>1, <1>2 DEF Reads, Mine, Count
<1>4. /\ buf'[0] = PageRange(0, 2) /\ buf'[1] = <<>>
      /\ over'[0] = <<>> /\ over'[1] = <<>>
  BY <1>1 DEF NumMetas, CopyInv, TypeOK
<1>5. EmptyInv'
  BY <1>3, <1>4 DEF EmptyInv
<1>6. BeginInv' /\ OutInv'
  <2>1. ret = "none"
    BY DEF FileInv, OutInv
  <2> QED BY <2>1 DEF FileInv, BeginInv, OutInv
<1>7. QueueInv'
  <2>1. PageRange(2, 2) = <<>>
    BY RangeEmpty
  <2>2. Queue(2, 2, 2)'
    BY <1>1, <1>2, <1>3, <1>4, <2>1 DEF Queue
  <2>3. 2 \in 0..next'
    BY <1>1
  <2> QED BY <2>2, <2>3 DEF QueueInv
<1> QED BY <1>5, <1>6, <1>7 DEF FileInv

\* The provider changes its buffer: the other one was emptied by the writer.
LEMMA ToggleStep ==
  ASSUME CopyInv, FileInv, ToggleBuffer
  PROVE  FileInv' /\ UNCHANGED <<out, next, ret>>
<1> USE DEF Threads
<1>1. /\ pc.provider = "toggled" /\ Mine \in 0..1 /\ Reads \in 0..1
      /\ buf \in [0..1 -> Seq(Nat)] /\ toggle \in [Threads -> 0..1]
      /\ UNCHANGED <<lock, waiting, new, over, next, error, out, snapshot, ret>>
  BY DEF ToggleBuffer, CopyInv, TypeOK, Mine, Reads
<1>2. Count \in {0, 1} /\ (1 - Mine = Reads <=> Count # 1)
  BY <1>1 DEF CopyInv, CountInv, TogglesInv, Count, FillsNext, Reads, EOF
<1>3. buf[1 - Mine] = <<>> /\ over[1 - Mine] = <<>>
  <2>1. CASE Count = 0
    BY <1>1, <1>2, <2>1 DEF FileInv, EmptyInv
  <2>2. CASE Count = 1
    <3>1. 1 - Mine = 1 - Reads
      BY <1>1, <1>2, <2>2
    <3> QED BY <1>1, <2>2, <3>1 DEF FileInv, EmptyInv
  <2> QED BY <1>2, <2>1, <2>2
<1>4. buf' = buf
  <2>1. buf' = [buf EXCEPT ![1 - Mine] = <<>>]
    BY DEF ToggleBuffer
  <2> QED BY <1>1, <1>3, <2>1
<1>5. Reads' = Reads /\ Mine' = 1 - Mine /\ Count' = Count
  <2>1. toggle' = [toggle EXCEPT !["provider"] = 1 - toggle["provider"]]
    BY DEF ToggleBuffer
  <2> QED BY <1>1, <2>1 DEF Reads, Mine, Count
<1>6. pc'.provider \in {"join", "lock", "walk"} /\ pc'.writer = pc.writer
  <2>1. \E p \in {"join", "lock", "walk"} : Goto("provider", p)
    BY DEF ToggleBuffer, HandOff
  <2> QED BY <2>1, GotoPc DEF CopyInv, ProviderPcs
<1>7. EmptyInv'
  BY <1>1, <1>3, <1>4, <1>5, <1>6 DEF FileInv, EmptyInv
<1>8. BeginInv' /\ OutInv'
  BY <1>1, <1>6 DEF FileInv, BeginInv, OutInv
<1>9. QueueInv'
  BY <1>1, <1>4, <1>5, <1>6, QueueFrame DEF FileInv, CopyInv, TypeOK
<1> QED BY <1>1, <1>7, <1>8, <1>9 DEF FileInv

\* What write() gives the file is what CopyFile lets it be given.
LEMMA FileGrows ==
  ASSUME out \in Seq(Nat), out = PageRange(0, Len(out)), out' = PageRange(0, Len(out')),
         Len(out') \in Nat, Len(out) <= Len(out'), Len(out') <= next,
         next \in Nat, ret = "none", UNCHANGED <<next, ret>>
  PROVE  File!Extend \/ UNCHANGED <<out, next, ret>>
<1>1. CASE Len(out') = Len(out)
  BY <1>1
<1>2. CASE Len(out') # Len(out)
  <2>1. PICK n \in Nat : n = Len(out')
    OBVIOUS
  <2>2. n \in (Len(out) + 1)..next
    BY <1>2, <2>1
  <2>3. out' = [i \in 1..n |-> i - 1]
    <3>1. out' = PageRange(0, n)
      BY <2>1
    <3>2. n - 0 = n /\ \A i \in 1..n : 0 + i - 1 = i - 1
      OBVIOUS
    <3> QED BY <3>1, <3>2 DEF PageRange
  <2> QED BY <2>2, <2>3 DEF File!Extend
<1> QED BY <1>1, <1>2

\* The writer writes the buffer it was handed.
LEMMA BufferStep ==
  ASSUME CopyInv, FileInv, WriteBuffer
  PROVE  FileInv' /\ (File!Extend \/ UNCHANGED <<out, next, ret>>)
<1>1. /\ pc.writer = "write" /\ Write(buf[Reads]) /\ Goto("writer", "tail")
      /\ UNCHANGED <<lock, waiting, new, buf, over, toggle, next, adjust, snapshot, ret>>
  BY DEF WriteBuffer, Reads
<1>2. /\ next \in Nat /\ Reads \in 0..1 /\ Len(out) \in Nat /\ out \in Seq(Nat)
      /\ buf[Reads] \in Seq(Nat) /\ error \in BOOLEAN
  BY DEF CopyInv, TypeOK, Reads, Threads
<1>3. pc'.writer = "tail" /\ pc'.provider = pc.provider
  BY <1>1, GotoPc DEF CopyInv, Threads, WriterPcs
<1>4. Reads' = Reads /\ Mine' = Mine /\ Count' = Count
  BY <1>1 DEF Reads, Mine, Count
<1>5. pc.provider # "begin" /\ pc.provider # "done" /\ ret = "none"
  BY <1>1 DEF FileInv, BeginInv, OutInv, CopyInv, LockInv, Count, EOF
<1>6. out = PageRange(0, Len(out)) /\ Len(out) <= next
  BY DEF FileInv, OutInv
<1>7. \E a \in 0..next : /\ Len(out) <= a
                         /\ ~error => \E b, c \in 0..next : Queue(a, b, c)
  <2>1. CASE error
    BY <1>2, <1>6, <2>1
  <2>2. CASE ~error
    <3>1. PICK a \in 0..next, b \in 0..next, c \in 0..next : Queue(a, b, c)
      BY <1>5, <2>2 DEF FileInv, QueueInv
    <3>2. Len(out) <= a
      BY <3>1 DEF Queue
    <3> QED BY <3>1, <3>2
  <2> QED BY <1>2, <2>1, <2>2
<1>8. PICK a \in 0..next : /\ Len(out) <= a
                           /\ ~error => \E b, c \in 0..next : Queue(a, b, c)
  BY <1>7
<1>9. ~error => buf[Reads] = PageRange(Len(out), a)
  BY <1>1, <1>8 DEF Queue
<1>10. /\ out' = PageRange(0, Len(out')) /\ Len(out) <= Len(out') /\ Len(out') <= a
       /\ Len(out') \in Nat
       /\ error => error' /\ out' = out
       /\ ~error' => ~error /\ Len(out') = a
  <2>1. a \in Nat
    BY <1>2
  <2> QED BY <1>1, <1>2, <1>6, <1>8, <1>9, <2>1, WriteRange
<1>11. EmptyInv' /\ BeginInv'
  BY <1>1, <1>3, <1>4, <1>5 DEF FileInv, EmptyInv, BeginInv
<1>12. Len(out') <= next
  BY <1>2, <1>10
<1>13. OutInv'
  BY <1>1, <1>5, <1>10, <1>12 DEF OutInv
<1>14. QueueInv'
  <2> SUFFICES ASSUME ~error' PROVE \E x, y, z \in 0..next' : Queue(x, y, z)'
    BY DEF QueueInv
  <2>1. ~error /\ Len(out') = a
    BY <1>10
  <2>2. PICK b \in 0..next, c \in 0..next : Queue(a, b, c)
    BY <1>8, <2>1
  <2>3. Queue(a, b, c)'
    <3>1. Len(out') <= a
      BY <1>10
    <3> QED BY <1>1, <1>3, <1>4, <2>1, <2>2, <3>1 DEF Queue
  <2> QED BY <1>1, <2>3
<1>15. File!Extend \/ UNCHANGED <<out, next, ret>>
  BY <1>1, <1>2, <1>5, <1>6, <1>10, <1>12, FileGrows
<1> QED BY <1>11, <1>13, <1>14, <1>15 DEF FileInv

\* The writer writes the overflow tail and gives the buffer back.
LEMMA TailStep ==
  ASSUME CopyInv, FileInv, WriteTail
  PROVE  FileInv' /\ (File!Extend \/ UNCHANGED <<out, next, ret>>)
<1> USE DEF Threads
<1>1. /\ pc.writer = "tail" /\ Write(over[Reads]) /\ Goto("writer", "check")
      /\ over' = [over EXCEPT ![Reads] = <<>>] /\ buf' = [buf EXCEPT ![Reads] = <<>>]
      /\ toggle' = [toggle EXCEPT !["writer"] = 1 - toggle["writer"]]
      /\ new' = new - 1
      /\ UNCHANGED <<lock, next, adjust, snapshot, ret>>
  BY DEF WriteTail, Reads
<1>2. /\ next \in Nat /\ Reads \in 0..1 /\ Len(out) \in Nat /\ out \in Seq(Nat)
      /\ over[Reads] \in Seq(Nat) /\ error \in BOOLEAN /\ toggle \in [Threads -> 0..1]
      /\ buf \in [0..1 -> Seq(Nat)] /\ over \in [0..1 -> Seq(Nat)] /\ Mine \in 0..1
  BY DEF CopyInv, TypeOK, Reads, Mine
<1>3. pc'.writer = "check" /\ pc'.provider = pc.provider
  BY <1>1, GotoPc DEF CopyInv, WriterPcs
<1>4. /\ Reads' = 1 - Reads /\ 1 - Reads' = Reads /\ Mine' = Mine
      /\ Count \in {1, 2} /\ Count' = Count - 1
  <2>1. Reads' = 1 - Reads /\ 1 - Reads' = Reads /\ Mine' = Mine
    BY <1>1, <1>2 DEF Reads, Mine
  <2>2. Count \in {1, 2} /\ Count' = Count - 1
    BY <1>1 DEF CopyInv, TypeOK, LockInv, Count, EOF
  <2> QED BY <2>1, <2>2
<1>5. pc.provider # "begin" /\ pc.provider # "done" /\ ret = "none"
  BY <1>1 DEF FileInv, BeginInv, OutInv, CopyInv, LockInv, Count, EOF
<1>6. out = PageRange(0, Len(out)) /\ Len(out) <= next
  BY DEF FileInv, OutInv
<1>7. \E b \in 0..next : /\ Len(out) <= b
                         /\ ~error => \E c \in 0..next : Queue(Len(out), b, c)
  <2>1. CASE error
    BY <1>2, <1>6, <2>1
  <2>2. CASE ~error
    <3>1. PICK a \in 0..next, b \in 0..next, c \in 0..next : Queue(a, b, c)
      BY <1>5, <2>2 DEF FileInv, QueueInv
    <3>2. a = Len(out) /\ Len(out) <= b
      BY <1>1, <3>1 DEF Queue
    <3> QED BY <3>1, <3>2
  <2> QED BY <1>2, <2>1, <2>2
<1>8. PICK b \in 0..next : /\ Len(out) <= b
                           /\ ~error => \E c \in 0..next : Queue(Len(out), b, c)
  BY <1>7
<1>9. ~error => over[Reads] = PageRange(Len(out), b)
  BY <1>8 DEF Queue
<1>10. /\ out' = PageRange(0, Len(out')) /\ Len(out) <= Len(out') /\ Len(out') <= b
       /\ Len(out') \in Nat
       /\ error => error' /\ out' = out
       /\ ~error' => ~error /\ Len(out') = b
  <2>1. b \in Nat
    BY <1>2
  <2> QED BY <1>1, <1>2, <1>6, <1>8, <1>9, <2>1, WriteRange
<1>11. /\ buf'[Reads] = <<>> /\ over'[Reads] = <<>>
       /\ buf'[1 - Reads] = buf[1 - Reads] /\ over'[1 - Reads] = over[1 - Reads]
  BY <1>1, <1>2
<1>12. EmptyInv' /\ BeginInv'
  <2>1. pc'.provider \notin {"begin", "walk", "lock"} /\ Count' = 0 =>
            buf'[Reads'] = <<>> /\ over'[Reads'] = <<>>
    BY <1>3, <1>4, <1>11 DEF FileInv, EmptyInv
  <2>2. pc'.provider = "walk" => over'[Mine'] = <<>>
    <3>1. Mine = Reads \/ Mine = 1 - Reads
      BY <1>2
    <3> QED BY <1>3, <1>4, <1>11, <3>1 DEF FileInv, EmptyInv
  <2>3. buf'[1 - Reads'] = <<>> /\ over'[1 - Reads'] = <<>>
    BY <1>4, <1>11
  <2> QED BY <1>3, <1>5, <2>1, <2>2, <2>3 DEF EmptyInv, BeginInv
<1>13. Len(out') <= next
  BY <1>2, <1>10
<1>14. OutInv'
  BY <1>1, <1>5, <1>10, <1>13 DEF OutInv
<1>15. QueueInv'
  <2> SUFFICES ASSUME ~error' PROVE \E x, y, z \in 0..next' : Queue(x, y, z)'
    BY DEF QueueInv
  <2>1. ~error /\ Len(out') = b
    BY <1>10
  <2>2. PICK c \in 0..next : Queue(Len(out), b, c)
    BY <1>8, <2>1
  <2>3. b <= c /\ c <= next /\ buf[1 - Reads] = PageRange(b, c) /\ over[1 - Reads] = PageRange(c, next)
    BY <2>2 DEF Queue
  <2>4. PICK k \in Nat : k = next
    BY <1>2
  <2>5. PageRange(k, k) = <<>> /\ k <= k
    BY RangeEmpty
  <2>6. Queue(c, k, k)'
    BY <1>1, <1>3, <1>4, <1>11, <2>1, <2>3, <2>4, <2>5 DEF Queue
  <2>7. c \in 0..next' /\ k \in 0..next'
    BY <1>1, <2>4
  <2> QED BY <2>6, <2>7
<1>16. File!Extend \/ UNCHANGED <<out, next, ret>>
  BY <1>1, <1>2, <1>5, <1>6, <1>10, <1>13, FileGrows
<1> QED BY <1>12, <1>14, <1>15, <1>16 DEF FileInv

\* The copy succeeds only when the writer has had all that was copied.
LEMMA JoinStep ==
  ASSUME CopyInv, FileInv, Join
  PROVE  FileInv' /\ File!Return
<1>1. /\ pc.provider = "join" /\ pc.writer = "done"
      /\ ret' = IF error THEN "failed" ELSE "ok"
      /\ Goto("provider", "done")
      /\ UNCHANGED <<lock, waiting, new, buf, over, toggle, next, adjust, error, out>>
  BY DEF Join
<1>2. pc'.provider = "done" /\ pc'.writer = pc.writer
  BY <1>1, GotoPc DEF CopyInv, Threads, ProviderPcs
<1>3. FileInv'
  BY <1>1, <1>2, QuietStep
<1>4. ret = "none"
  BY <1>1 DEF FileInv, OutInv
<1>5. ~error => Len(out) = next
  <2> SUFFICES ASSUME ~error PROVE Len(out) = next
    OBVIOUS
  <2>1. Count = 0
    BY <1>1 DEF CopyInv, LockInv, Count, EOF
  <2>2. /\ buf[Reads] = <<>> /\ over[Reads] = <<>>
        /\ buf[1 - Reads] = <<>> /\ over[1 - Reads] = <<>>
    BY <1>1, <2>1 DEF FileInv, EmptyInv
  <2>3. PICK a \in 0..next, b \in 0..next, c \in 0..next : Queue(a, b, c)
    BY <1>1 DEF FileInv, QueueInv
  <2>4. /\ PageRange(Len(out), a) = <<>> /\ PageRange(a, b) = <<>>
        /\ PageRange(b, c) = <<>> /\ PageRange(c, next) = <<>>
        /\ Len(out) <= a /\ a <= b /\ b <= c /\ c <= next
    BY <1>1, <2>2, <2>3 DEF Queue
  <2>5. Len(out) \in Nat /\ a \in Nat /\ b \in Nat /\ c \in Nat /\ next \in Nat
    BY DEF CopyInv, TypeOK
  <2>6. Len(out) = a /\ a = b /\ b = c /\ c = next
    BY <2>4, <2>5, RangeIs
  <2> QED BY <2>6
<1>6. File!Return
  BY <1>1, <1>4, <1>5 DEF File!Return
<1> QED BY <1>3, <1>6

\* The initial states.
LEMMA FileInit == Init => FileInv /\ File!Init
<1> SUFFICES ASSUME Init PROVE FileInv /\ File!Init
  OBVIOUS
<1>1. PageRange(0, 0) = <<>>
  BY RangeEmpty
<1>2. EmptyInv /\ BeginInv /\ QueueInv
  BY DEF Init, EmptyInv, BeginInv, QueueInv, Threads, NumMetas, Reads
<1>3. OutInv
  BY <1>1 DEF Init, OutInv, NumMetas
<1> QED BY <1>2, <1>3 DEF Init, FileInv, File!Init, NumMetas

\* Every step of the two threads preserves the invariant and is a step of
\* CopyFile or leaves the file, its size and the result alone.
LEMMA FileStep ==
  CopyInv /\ FileInv /\ [Next]_vars => FileInv' /\ [File!Next]_(File!filevars)
<1> SUFFICES ASSUME CopyInv, FileInv, [Next]_vars
             PROVE  FileInv' /\ (File!Next \/ UNCHANGED <<out, next, ret>>)
  BY DEF File!filevars
<1> USE DEF Threads, ProviderPcs, WriterPcs
<1>u. CASE UNCHANGED vars
  <2>1. UNCHANGED <<buf, over, toggle, next, out, error, pc, new, ret>>
    BY <1>u DEF vars
  <2> QED BY <2>1, QuietStep
<1>1. CASE Begin
  <2>1. /\ UNCHANGED <<over, next, lock, waiting, new, toggle, out, ret>>
        /\ pc.provider = "begin"
    BY <1>1 DEF Begin, WalkUnchanged
  <2>2. CASE /\ snapshot' = TRUE
             /\ buf' = [buf EXCEPT ![0] = PageRange(0, NumMetas)]
             /\ Goto("provider", "walk")
             /\ UNCHANGED <<error, adjust>>
    <3>1. pc'.provider = "walk" /\ pc'.writer = pc.writer
      BY <2>2, GotoPc DEF CopyInv
    <3> QED BY <2>1, <2>2, <3>1, BeginStep
  <2>3. CASE snapshot' \in BOOLEAN /\ Finish(TRUE) /\ UNCHANGED buf
    <3>1. pc'.provider = "lock" /\ pc'.writer = pc.writer /\ error'
      BY <2>3, GotoPc DEF CopyInv, Finish, HandOff
    <3> QED BY <2>1, <2>3, <3>1, QuietStep
  <2> QED BY <1>1, <2>2, <2>3 DEF Begin
<1>2. CASE BufferFull
  <2>1. UNCHANGED <<buf, over, next, error, toggle, new, out, ret>> /\ pc.provider = "walk"
    BY <1>2 DEF BufferFull, WalkUnchanged
  <2>2. pc'.provider = "lock" /\ pc'.writer = pc.writer
    BY <1>2, GotoPc DEF BufferFull, HandOff, CopyInv
  <2> QED BY <2>1, <2>2, QuietStep
<1>3. CASE AddPage
  <2>1. /\ UNCHANGED <<pc, over, error, toggle, new, out, ret>> /\ pc.provider = "walk"
        /\ buf' = [buf EXCEPT ![Mine] = Append(@, next)] /\ next' = next + 1
    BY <1>3 DEF AddPage, WalkUnchanged
  <2>2. next \in Nat /\ over \in [0..1 -> Seq(Nat)]
    BY DEF CopyInv, TypeOK
  <2>3. next + 1 + 0 = next + 1 /\ next + 1 \in Nat
    BY <2>2
  <2>4. over' = [over EXCEPT ![Mine] = PageRange(next + 1, next + 1 + 0)]
    <3>1. PageRange(next + 1, next + 1 + 0) = <<>>
      BY <2>3, RangeEmpty
    <3>2. over[Mine] = <<>>
      BY <2>1 DEF FileInv, EmptyInv
    <3>3. over' = [over EXCEPT ![Mine] = <<>>]
      BY <2>1, <2>2, <3>2
    <3> QED BY <3>1, <3>3
  <2>5. FileInv' /\ File!Grow
    <3>1. 0 \in Nat /\ next' = next + 1 + 0
      BY <2>1, <2>3
    <3> QED BY <2>1, <2>4, <3>1, AppendStep
  <2> QED BY <2>5 DEF File!Next
<1>4. ASSUME NEW n \in 1..MaxOver, AddOverflow(n)
      PROVE  FileInv' /\ (File!Next \/ UNCHANGED <<out, next, ret>>)
  <2>1. /\ UNCHANGED <<error, toggle, new, out, ret>> /\ pc.provider = "walk"
        /\ buf' = [buf EXCEPT ![Mine] = Append(@, next)]
        /\ over' = [over EXCEPT ![Mine] = PageRange(next + 1, next + 1 + n)]
        /\ next' = next + 1 + n
    BY <1>4 DEF AddOverflow, WalkUnchanged
  <2>2. pc'.provider = "lock" /\ pc'.writer = pc.writer
    BY <1>4, GotoPc DEF AddOverflow, HandOff, CopyInv
  <2>3. n \in Nat
    BY CopyAssumption
  <2>4. FileInv' /\ File!Grow
    BY <2>1, <2>2, <2>3, AppendStep
  <2> QED BY <2>4 DEF File!Next
<1>5. CASE WalkEnds
  <2>1. UNCHANGED <<buf, over, next, toggle, new, out, ret>> /\ pc.provider = "walk"
    BY <1>5 DEF WalkEnds, WalkUnchanged
  <2>2. pc'.provider = "lock" /\ pc'.writer = pc.writer /\ (error => error')
    BY <1>5, GotoPc DEF WalkEnds, Finish, HandOff, CopyInv
  <2> QED BY <2>1, <2>2, QuietStep
<1>6. CASE GiveBuffer
  <2>1. /\ UNCHANGED <<buf, over, toggle, next, adjust, error, out, ret>>
        /\ pc.provider = "lock" /\ new' = new + adjust
    BY <1>6 DEF GiveBuffer
  <2>2. pc'.provider = "check" /\ pc'.writer = pc.writer
    BY <1>6, GotoPc DEF GiveBuffer, CopyInv
  <2> QED BY <2>1, <2>2, QuietStep
<1>7. CASE AwaitBuffer
  <2>1. UNCHANGED <<new, buf, over, toggle, next, error, out, ret>> /\ pc.provider = "check"
    BY <1>7 DEF AwaitBuffer
  <2>2. pc'.provider \in {"wait", "toggled"} /\ pc'.writer = pc.writer
    <3>1. Goto("provider", "wait") \/ Goto("provider", "toggled")
      BY <1>7 DEF AwaitBuffer, CondWait
    <3> QED BY <3>1, GotoPc DEF CopyInv
  <2> QED BY <2>1, <2>2, QuietStep
<1>8. ASSUME NEW t \in Threads, Awake(t)
      PROVE  FileInv' /\ (File!Next \/ UNCHANGED <<out, next, ret>>)
  <2>1. UNCHANGED <<new, buf, over, toggle, next, error, out, ret>> /\ pc[t] = "wait" /\ Goto(t, "check")
    BY <1>8 DEF Awake
  <2>2. /\ t = "provider" => pc'.provider = "check" /\ pc'.writer = pc.writer
        /\ t = "writer" => pc'.writer = "check" /\ pc'.provider = pc.provider
    BY <2>1, GotoPc DEF CopyInv
  <2>3. CASE t = "provider"
    BY <2>1, <2>2, <2>3, QuietStep
  <2>4. CASE t = "writer"
    BY <2>1, <2>2, <2>4, QuietStep
  <2> QED BY <2>3, <2>4
<1>9. CASE ToggleBuffer
  BY <1>9, ToggleStep
<1>10. CASE Join
  BY <1>10, JoinStep DEF File!Next
<1>11. CASE Start
  <2>1. UNCHANGED <<new, buf, over, toggle, next, out, ret>> /\ pc.writer = "start" /\ (error => error')
    BY <1>11 DEF Start
  <2>2. pc'.writer = "lock" /\ pc'.provider = pc.provider
    BY <1>11, GotoPc DEF Start, CopyInv
  <2> QED BY <2>1, <2>2, QuietStep
<1>12. CASE TakeMutex
  <2>1. UNCHANGED <<new, buf, over, toggle, next, error, out, ret>> /\ pc.writer = "lock"
    BY <1>12 DEF TakeMutex
  <2>2. pc'.writer = "check" /\ pc'.provider = pc.provider
    BY <1>12, GotoPc DEF TakeMutex, CopyInv
  <2> QED BY <2>1, <2>2, QuietStep
<1>13. CASE AwaitWork
  <2>1. UNCHANGED <<new, buf, over, toggle, next, error, out, ret>> /\ pc.writer = "check"
    BY <1>13 DEF AwaitWork
  <2>2. pc'.writer \in {"wait", "done", "write"} /\ pc'.provider = pc.provider
    <3>1. Goto("writer", "wait") \/ Goto("writer", "done") \/ Goto("writer", "write")
      BY <1>13 DEF AwaitWork, CondWait
    <3> QED BY <3>1, GotoPc DEF CopyInv
  <2> QED BY <2>1, <2>2, QuietStep
<1>14. CASE WriteBuffer
  BY <1>14, BufferStep DEF File!Next
<1>15. CASE WriteTail
  BY <1>15, TailStep DEF File!Next
<1>16. ASSUME NEW t \in Threads, Spurious(t)
       PROVE  FileInv' /\ (File!Next \/ UNCHANGED <<out, next, ret>>)
  <2>1. UNCHANGED <<buf, over, toggle, next, out, error, pc, new, ret>>
    BY <1>16 DEF Spurious
  <2> QED BY <2>1, QuietStep
<1> QED
  BY <1>u, <1>1, <1>2, <1>3, <1>4, <1>5, <1>6, <1>7, <1>8, <1>9, <1>10, <1>11, <1>12, <1>13, <1>14, <1>15, <1>16 DEF Next, Provider, Writer

\* The file is written in the order of the page numbers, without gaps, and a
\* copy that returns success has written all that was copied
\* (mdb_env_copythr, mdb_env_cthr_toggle, mdb_env_copyfd1): the two threads
\* implement CopyFile.
THEOREM CopyRefines == Spec => FileWritten
<1>1. Init => CopyInv /\ FileInv /\ File!Init
  BY CopyInit, FileInit
<1>2. CopyInv /\ FileInv /\ [Next]_vars => (CopyInv /\ FileInv)' /\ [File!Next]_(File!filevars)
  BY CopyStep, FileStep
<1> QED
  BY <1>1, <1>2, PTL DEF Spec, FileWritten, File!Spec
=============================================================================
