---------------------------- MODULE LockFileProof ----------------------------
(***************************************************************************)
(* Proofs about LockFile, for any number of processes, threads and slots.  *)
(* First two arguments: the file lock keeps the process that initialises   *)
(* the lock file alone, and a slot belongs to its thread because its       *)
(* process has locked the byte of its pid before the slot has the pid.     *)
(* Then the writers and the checks, which rely on them.                    *)
(***************************************************************************)
EXTENDS LockFile, LeastNat

Points == {"down", "lock", "wait", "init", "attach", "open2", "publish", "downgrade", "up",
           "closing", "closed", "locked", "begun", "scan", "scanned", "written",
           "consistent", "check", "pidcheck", "checklock", "clear"}
RdrPoints == {"idle", "pidset", "claim", "choose", "count", "setpid", "load", "store",
              "verify", "reading"}
Owners == {NoOne} \cup {<<p>> : p \in Pids} \cup Readers

LockfType  == [magic : BOOLEAN, txnid : Nat, nreaders : 0 .. MaxReaders]
SlotType   == [pid : Pids \cup {NoPid}, txnid : Nat]
MutexType  == [owner : Owners, dead : BOOLEAN]
EnvType    == [live : BOOLEAN, close : 0 .. MaxReaders, oldest : Int]
MainType   == [at : Points, excl : BOOLEAN, txnid : Nat, old : Int, i : Int,
               n : 0 .. MaxReaders, pid : Pids \cup {NoPid}, seen : SUBSET Pids,
               stale : SUBSET Pids, next : {"up", "consistent"}]
RdrType    == [at : RdrPoints, slot : 0 .. MaxReaders, txnid : Nat]

\* The writer and the check stay within the table.
WithinTable(m) == /\ m.at = "scan" => m.i \in 0 .. MaxReaders
                  /\ m.at = "scanned" => m.i \in Slots
                  /\ m.at \in {"check", "pidcheck", "checklock", "clear"} => m.i >= 1

TypeOK ==
  /\ lockf \in LockfType
  /\ slot \in [Slots -> SlotType]
  /\ mutex \in [{"r", "w"} -> MutexType]
  /\ flock \in [Pids -> {"none", "shared", "excl"}]
  /\ pidlock \in SUBSET Pids
  /\ metas \in [0 .. 1 -> Nat]
  /\ env \in [Pids -> EnvType]
  /\ main \in [Pids -> MainType] /\ \A p \in Pids : WithinTable(main[p])
  /\ rdr \in [Readers -> RdrType]
  /\ starts \in Nat

-----------------------------------------------------------------------------
(* The lock of the file.                                                   *)

\* The main thread of an open environment.
Working == {"up", "locked", "begun", "scan", "scanned", "written", "consistent", "check", "pidcheck",
            "checklock", "clear"}

\* Who has no lock yet has not mapped the file, and nobody has one beside the
\* exclusive lock, which the initialising process keeps until it is done.
FlockInv ==
  /\ \A p \in Pids : main[p].at \in {"down", "lock", "wait"} <=> flock[p] = "none"
  /\ \A p, q \in Pids : flock[p] = "excl" /\ q # p => flock[q] = "none"
  /\ \A p \in Pids : main[p].at \in {"init", "publish", "downgrade"} => flock[p] = "excl"
  /\ \A p \in Pids : main[p].at = "open2" => (main[p].excl <=> flock[p] = "excl")
  /\ \A p \in Pids : main[p].at \in {"lock", "wait", "init", "attach"} => ~main[p].excl
  /\ \A p \in Pids : main[p].at \in Working \cup {"attach"} => flock[p] = "shared"

-----------------------------------------------------------------------------
(* The slots.                                                              *)

InTable(p) == main[p].at \in Working \cup {"closing"}
Claiming(r) == rdr[r].at \in {"count", "setpid"}
Settled(r) == rdr[r].slot # 0 /\ ~Claiming(r)

\* A thread that has no transaction in an open environment has no slot.
ThreadInv(r) ==
  /\ ~InTable(r[1]) => rdr[r] = NewRdr
  /\ main[r[1]].at = "closing" => rdr[r].at = "idle"
  /\ rdr[r].at \in {"pidset", "claim", "choose"} => rdr[r].slot = 0
  /\ rdr[r].at \in {"count", "setpid", "load", "store", "verify", "reading"} => rdr[r].slot # 0

\* Who claims a slot has the readers' mutex, and so has who clears slots.
OwnerInv ==
  /\ \A r \in Readers : rdr[r].at \in {"choose", "count", "setpid"} => mutex["r"].owner = r
  /\ \A p \in Pids : main[p].at = "clear" => mutex["r"].owner = <<p>>

\* The byte of the pid is locked before a slot has the pid.
LiveInv(p) == env[p].live /\ main[p].at # "down" => p \in pidlock
PidInv(r) == rdr[r].at \in {"claim", "choose"} \/ rdr[r].slot # 0 => r[1] \in pidlock

\* A slot that is being claimed is free, one that is claimed has its thread's pid.
ClaimInv(r) ==
  /\ Claiming(r) => slot[rdr[r].slot].pid = NoPid
  /\ rdr[r].at = "setpid" => rdr[r].slot <= lockf.nreaders
  /\ Settled(r) => slot[rdr[r].slot].pid = r[1] /\ rdr[r].slot <= lockf.nreaders
  /\ rdr[r].at \in {"verify", "reading"} => slot[rdr[r].slot].txnid = rdr[r].txnid

DistinctInv == \A r, s \in Readers : r # s /\ rdr[r].slot # 0 => rdr[r].slot # rdr[s].slot

TableInv == /\ \A r \in Readers : ThreadInv(r) /\ PidInv(r) /\ ClaimInv(r)
            /\ \A p \in Pids : LiveInv(p)
            /\ OwnerInv
            /\ DistinctInv

LockFileInv == TypeOK /\ FlockInv /\ TableInv

-----------------------------------------------------------------------------
(* The types.                                                              *)

USE DEF Slots, NoPid, NoTxn

LEMMA InitType == Init => TypeOK
  BY LockFileAssumption DEF Init, TypeOK, WithinTable, LockfType, SlotType, MutexType, EnvType, MainType,
     RdrType, Points, RdrPoints, Owners, NewEnv, NewMain, NewRdr, NoOne

LEMMA MainPoints == {"lock", "open2", "begun", "scan", "scanned", "up", "check", "pidcheck",
                     "checklock", "clear", "consistent"} \subseteq Points
BY DEF Points

\* One process's main thread changes.
LEMMA MainStep ==
  ASSUME TypeOK, NEW p \in Pids, NEW m \in MainType, WithinTable(m), main' = [main EXCEPT ![p] = m]
  PROVE  main' \in [Pids -> MainType] /\ \A q \in Pids : WithinTable(main'[q])
BY DEF TypeOK

LEMMA GotoStep ==
  ASSUME TypeOK, NEW p \in Pids, NEW a \in Points, Goto(p, a),
         a \notin {"scan", "scanned", "check", "pidcheck", "checklock", "clear"}
  PROVE  main' \in [Pids -> MainType] /\ \A q \in Pids : WithinTable(main'[q])
<1>1. main[p] \in MainType
  BY DEF TypeOK
<1>2. [main[p] EXCEPT !.at = a] \in MainType /\ WithinTable([main[p] EXCEPT !.at = a])
  BY <1>1, MainPoints DEF MainType, WithinTable
<1>3. main' = [main EXCEPT ![p] = [main[p] EXCEPT !.at = a]]
  BY DEF Goto
<1> QED
  BY <1>2, <1>3, MainStep

LEMMA RGotoStep ==
  ASSUME TypeOK, NEW r \in Readers, NEW a \in RdrPoints, RGoto(r, a)
  PROVE  rdr' \in [Readers -> RdrType]
<1>1. rdr[r] \in RdrType
  BY DEF TypeOK
<1>2. [rdr[r] EXCEPT !.at = a] \in RdrType
  BY <1>1 DEF RdrType
<1> QED
  BY <1>2 DEF RGoto, TypeOK

LEMMA NewTypes == NewMain \in MainType /\ WithinTable(NewMain) /\ NewRdr \in RdrType /\ NewEnv \in EnvType
BY LockFileAssumption DEF NewMain, NewRdr, NewEnv, MainType, WithinTable, RdrType, EnvType, Points, RdrPoints

LEMMA ReaderPid == ASSUME NEW r \in Readers PROVE r[1] \in Pids
BY LockFileAssumption

LEMMA OwnerTypes == /\ NoOne \in Owners
                    /\ \A p \in Pids : <<p>> \in Owners
                    /\ \A r \in Readers : r \in Owners
BY DEF Owners

LEMMA MutexSteps ==
  ASSUME TypeOK, NEW m \in {"r", "w"}, NEW o \in Owners, NEW d \in BOOLEAN
  PROVE  /\ Lock(m, o) => mutex' \in [{"r", "w"} -> MutexType]
         /\ Unlock(m) => mutex' \in [{"r", "w"} -> MutexType]
         /\ [mutex EXCEPT ![m] = [owner |-> o, dead |-> d]] \in [{"r", "w"} -> MutexType]
         /\ [mutex EXCEPT ![m].owner = o] \in [{"r", "w"} -> MutexType]
         /\ [mutex EXCEPT ![m].dead = d] \in [{"r", "w"} -> MutexType]
<1>1. \A x \in MutexType : /\ [x EXCEPT !.owner = o] \in MutexType
                           /\ [x EXCEPT !.owner = NoOne] \in MutexType
                           /\ [x EXCEPT !.dead = d] \in MutexType
  BY OwnerTypes DEF MutexType
<1>2. [owner |-> o, dead |-> d] \in MutexType
  BY DEF MutexType
<1>3. mutex \in [{"r", "w"} -> MutexType]
  BY DEF TypeOK
<1>4. [mutex EXCEPT ![m].owner = o] \in [{"r", "w"} -> MutexType]
  BY <1>1, <1>3
<1>5. [mutex EXCEPT ![m].owner = NoOne] \in [{"r", "w"} -> MutexType]
  BY <1>1, <1>3
<1>6. [mutex EXCEPT ![m].dead = d] \in [{"r", "w"} -> MutexType]
  BY <1>1, <1>3
<1>7. [mutex EXCEPT ![m] = [owner |-> o, dead |-> d]] \in [{"r", "w"} -> MutexType]
  BY <1>2, <1>3
<1> QED
  BY <1>4, <1>5, <1>6, <1>7 DEF Lock, Unlock

\* A slot's pid or id changes.
LEMMA SlotSteps ==
  ASSUME TypeOK, NEW i, NEW q \in Pids \cup {NoPid}, NEW id \in Nat
  PROVE  /\ [slot EXCEPT ![i] = [pid |-> q, txnid |-> id]] \in [Slots -> SlotType]
         /\ [slot EXCEPT ![i].pid = q] \in [Slots -> SlotType]
         /\ [slot EXCEPT ![i].txnid = id] \in [Slots -> SlotType]
<1>1. \A x \in SlotType : /\ [x EXCEPT !.pid = q] \in SlotType
                          /\ [x EXCEPT !.txnid = id] \in SlotType
  BY DEF SlotType
<1>2. [pid |-> q, txnid |-> id] \in SlotType
  BY DEF SlotType
<1> QED
  BY <1>1, <1>2 DEF TypeOK

\* Slots are cleared.
LEMMA ClearedSlots ==
  ASSUME TypeOK, NEW S
  PROVE  [i \in Slots |-> IF i \in S THEN [slot[i] EXCEPT !.pid = NoPid] ELSE slot[i]] \in [Slots -> SlotType]
<1>1. \A x \in SlotType : [x EXCEPT !.pid = NoPid] \in SlotType
  BY DEF SlotType
<1> QED
  BY <1>1 DEF TypeOK

LEMMA SlotsCheckedType == ASSUME TypeOK, NEW p \in Pids PROVE SlotsChecked(p) \in [Slots -> SlotType]
<1> DEFINE S == {i \in Slots : i <= lockf.nreaders /\ slot[i].pid # p /\ ~Alive(slot[i].pid)}
<1>1. SlotsChecked(p) = [i \in Slots |-> IF i \in S THEN [slot[i] EXCEPT !.pid = NoPid] ELSE slot[i]]
  BY DEF SlotsChecked
<1> QED
  BY <1>1, ClearedSlots

LEMMA PickMetaType == TypeOK => PickMeta \in Nat
BY DEF TypeOK, PickMeta

LEMMA CheckFromStep ==
  ASSUME TypeOK, NEW p \in Pids, NEW next \in {"up", "consistent"}, main' = [main EXCEPT ![p] = CheckFrom(p, next)]
  PROVE  main' \in [Pids -> MainType] /\ \A q \in Pids : WithinTable(main'[q])
<1> DEFINE S == {q \in Pids \ {p} : At(q, "down") /\ \E i \in Slots : i <= lockf.nreaders /\ slot[i].pid = q}
<1>1. main[p] \in MainType /\ lockf.nreaders \in 0 .. MaxReaders /\ S \in SUBSET Pids
  BY DEF TypeOK, LockfType
<1>2. main'[p] = CheckFrom(p, next)
  BY DEF TypeOK
<1> DEFINE m == [at |-> "check", excl |-> FALSE, txnid |-> 0, old |-> 0, i |-> 1, n |-> lockf.nreaders,
                 pid |-> NoPid, seen |-> {}, stale |-> S, next |-> next]
<1>6. CheckFrom(p, next) = [NewMain EXCEPT !.at = "check", !.i = 1, !.n = lockf.nreaders, !.seen = {},
                                           !.next = next, !.stale = S]
  BY DEF CheckFrom
<1> HIDE DEF S
<1>3. main'[p] = m
  BY <1>2, <1>6 DEF NewMain
<1>4. m \in MainType /\ WithinTable(m)
  BY <1>1, MainPoints DEF MainType, WithinTable
<1>5. main' = [main EXCEPT ![p] = main'[p]]
  BY DEF TypeOK
<1> HIDE DEF m
<1> QED
  BY <1>3, <1>4, <1>5, MainStep

LEMMA OpenOrCloseType == ASSUME TypeOK, NEW p \in Pids, OpenOrClose(p) PROVE TypeOK'
<1>0. main[p] \in MainType /\ env[p] \in EnvType /\ lockf \in LockfType
  BY DEF TypeOK
<1>1. CASE Start(p)
  <2>1. [NewMain EXCEPT !.at = "lock"] \in MainType /\ WithinTable([NewMain EXCEPT !.at = "lock"])
    BY NewTypes DEF NewMain, MainType, Points, WithinTable
  <2>2. \A q \in Pids : /\ [main[q] EXCEPT !.stale = @ \ {p}] \in MainType
                        /\ WithinTable([main[q] EXCEPT !.stale = @ \ {p}])
    <3>1. \A m \in MainType : /\ [m EXCEPT !.stale = @ \ {p}] \in MainType
                              /\ WithinTable(m) => WithinTable([m EXCEPT !.stale = @ \ {p}])
      BY DEF MainType, WithinTable
    <3> QED
      BY <3>1 DEF TypeOK
  <2>3. main' \in [Pids -> MainType] /\ \A q \in Pids : WithinTable(main'[q])
    BY <1>1, <2>1, <2>2 DEF Start
  <2>4. env' \in [Pids -> EnvType] /\ starts' \in Nat
    BY <1>1, NewTypes DEF Start, TypeOK
  <2> QED
    BY <1>1, <2>3, <2>4 DEF Start, TypeOK
<1>2. CASE ExclLock(p) \/ ShareLock(p) \/ Attach(p) \/ Open2(p) \/ Close(p)
  <2>1. main' \in [Pids -> MainType] /\ \A q \in Pids : WithinTable(main'[q])
    BY <1>2, GotoStep DEF ExclLock, ShareLock, Attach, Open2, Close, Points
  <2> QED
    BY <1>2, <2>1 DEF ExclLock, ShareLock, Attach, Open2, Close, TypeOK
<1>3. CASE InitTable(p)
  <2>1. [main[p] EXCEPT !.at = "open2", !.excl = TRUE] \in MainType
        /\ WithinTable([main[p] EXCEPT !.at = "open2", !.excl = TRUE])
    BY <1>0, MainPoints DEF MainType, WithinTable
  <2>2. main' = [main EXCEPT ![p] = [main[p] EXCEPT !.at = "open2", !.excl = TRUE]]
    BY <1>3 DEF InitTable
  <2>3. mutex' \in [{"r", "w"} -> MutexType]
    BY <1>3, OwnerTypes DEF InitTable, MutexType
  <2>4. lockf' \in LockfType
    BY <1>3, LockFileAssumption DEF InitTable, LockfType
  <2> QED
    BY <1>3, <2>1, <2>2, <2>3, <2>4, MainStep DEF InitTable, TypeOK
<1>4. CASE Share(p)
  <2>1. main' \in [Pids -> MainType] /\ \A q \in Pids : WithinTable(main'[q])
    BY <1>4, GotoStep DEF Share, ShareTxnid, Points
  <2>2. [lockf EXCEPT !.txnid = PickMeta] \in LockfType
    BY <1>0, PickMetaType DEF LockfType
  <2> QED
    BY <1>4, <2>1, <2>2 DEF Share, ShareTxnid, TypeOK
<1>5. CASE Close0(p)
  <2> DEFINE S == {i \in Slots : i <= env[p].close /\ slot[i].pid = p}
  <2>1. CloseSlots(p) = [i \in Slots |-> IF i \in S THEN [slot[i] EXCEPT !.pid = NoPid] ELSE slot[i]]
    BY DEF CloseSlots
  <2>2. CloseSlots(p) \in [Slots -> SlotType]
    BY <2>1, ClearedSlots
  <2>3. NoReaders(p) => rdr' \in [Readers -> RdrType]
    BY NewTypes DEF NoReaders, TypeOK
  <2>4. main' \in [Pids -> MainType] /\ \A q \in Pids : WithinTable(main'[q])
    BY <1>5, GotoStep, MainStep, NewTypes DEF Close0, Points
  <2> QED
    BY <1>5, <2>2, <2>3, <2>4 DEF Close0, Unlocked, TypeOK
<1>6. CASE Kill(p)
  <2>1. main' \in [Pids -> MainType] /\ \A q \in Pids : WithinTable(main'[q])
    BY <1>6, MainStep, NewTypes DEF Kill
  <2>2. rdr' \in [Readers -> RdrType]
    BY <1>6, NewTypes DEF Kill, NoReaders, TypeOK
  <2>3. [owner |-> NoOne, dead |-> TRUE] \in MutexType
    BY OwnerTypes DEF MutexType
  <2>4. mutex' \in [{"r", "w"} -> MutexType]
    BY <1>6, <2>3 DEF Kill, TypeOK
  <2> QED
    BY <1>6, <2>1, <2>2, <2>4 DEF Kill, Unlocked, TypeOK
<1> QED
  BY <1>1, <1>2, <1>3, <1>4, <1>5, <1>6 DEF OpenOrClose

LEMMA FreeSlotType == TypeOK => FreeSlot \in Nat \ {0}
<1> SUFFICES ASSUME TypeOK PROVE FreeSlot \in Nat \ {0}
  OBVIOUS
<1> DEFINE free == {i \in 1 .. lockf.nreaders : slot[i].pid = NoPid}
<1>1. lockf.nreaders \in Nat
  BY LockFileAssumption DEF TypeOK, LockfType
<1>2. CASE free = {}
  BY <1>1, <1>2 DEF FreeSlot
<1>3. CASE free # {}
  <2>0. free \subseteq Nat
    BY <1>1
  <2>1. PICK i \in free : \A j \in free : i <= j
    <3> HIDE DEF free
    <3> QED
      BY <1>3, <2>0, NatHasMin
  <2>2. FreeSlot = CHOOSE k \in free : \A j \in free : k <= j
    BY <1>3 DEF FreeSlot
  <2>3. FreeSlot \in free
    BY <2>1, <2>2
  <2> QED
    BY <1>1, <2>3
<1> QED
  BY <1>2, <1>3

LEMMA ReadType == ASSUME TypeOK, NEW r \in Readers, Read(r) PROVE TypeOK'
<1>0. /\ rdr[r] \in RdrType /\ env[r[1]] \in EnvType /\ lockf \in LockfType /\ r[1] \in Pids
      /\ rdr[r].slot \in 0 .. MaxReaders /\ rdr[r].txnid \in Nat
      /\ lockf.nreaders \in 0 .. MaxReaders /\ lockf.txnid \in Nat /\ NoTxn \in Nat
  <2>1. rdr[r] \in RdrType /\ r[1] \in Pids /\ lockf \in LockfType
    BY ReaderPid DEF TypeOK
  <2>2. env[r[1]] \in EnvType
    BY <2>1 DEF TypeOK
  <2>3. NoTxn \in Nat
    BY LockFileAssumption
  <2> QED
    BY <2>1, <2>2, <2>3 DEF RdrType, LockfType
<1>1. CASE Begin(r) \/ Verify(r)
  <2>1. rdr' \in [Readers -> RdrType]
    BY <1>1, RGotoStep DEF Begin, Verify, RdrPoints
  <2> QED
    BY <1>1, <2>1 DEF Begin, Verify, TypeOK
<1>2. CASE Pidset(r)
  <2>1. rdr' \in [Readers -> RdrType]
    BY <1>2, RGotoStep DEF Pidset, RdrPoints
  <2>2. [env[r[1]] EXCEPT !.live = TRUE] \in EnvType
    BY <1>0 DEF EnvType
  <2> QED
    BY <1>0, <1>2, <2>1, <2>2 DEF Pidset, TypeOK
<1>3. CASE LockTable(r)
  <2>1. rdr' \in [Readers -> RdrType]
    BY <1>3, RGotoStep DEF LockTable, RdrPoints
  <2>2. mutex' \in [{"r", "w"} -> MutexType]
    BY <1>3, OwnerTypes, MutexSteps DEF LockTable
  <2>3. slot' \in [Slots -> SlotType]
    BY <1>0, <1>3, SlotsCheckedType DEF LockTable, TypeOK
  <2> QED
    BY <1>3, <2>1, <2>2, <2>3 DEF LockTable, TypeOK
<1>4. CASE Choose(r)
  <2>1. FreeSlot \in Nat \ {0}
    BY FreeSlotType
  <2>2. FreeSlot > MaxReaders => TypeOK'
    <3> HAVE FreeSlot > MaxReaders
    <3>1. rdr' \in [Readers -> RdrType]
      BY <1>4, RGotoStep DEF Choose, RdrPoints
    <3>2. mutex' \in [{"r", "w"} -> MutexType]
      BY <1>4, OwnerTypes, MutexSteps DEF Choose
    <3> QED
      BY <1>4, <3>1, <3>2 DEF Choose, TypeOK
  <2>3. FreeSlot \in Slots => TypeOK'
    <3> HAVE FreeSlot \in Slots
    <3>0. FreeSlot \in 0 .. MaxReaders
      BY LockFileAssumption
    <3>1. [rdr[r] EXCEPT !.at = "count", !.slot = FreeSlot] \in RdrType
      BY <1>0, <3>0 DEF RdrType, RdrPoints
    <3>2. [slot EXCEPT ![FreeSlot] = [pid |-> NoPid, txnid |-> NoTxn]] \in [Slots -> SlotType]
      BY <1>0, SlotSteps
    <3>3. ~(FreeSlot > MaxReaders)
      BY LockFileAssumption
    <3> QED
      BY <1>4, <3>1, <3>2, <3>3 DEF Choose, TypeOK
  <2> QED
    BY <2>1, <2>2, <2>3, LockFileAssumption
<1>5. CASE Count(r)
  <2>1. rdr' \in [Readers -> RdrType]
    BY <1>5, RGotoStep DEF Count, RdrPoints
  <2> DEFINE n == IF rdr[r].slot > lockf.nreaders THEN rdr[r].slot ELSE lockf.nreaders
  <2>2. [env[r[1]] EXCEPT !.close = n] \in EnvType
    BY <1>0 DEF EnvType
  <2>3. [lockf EXCEPT !.nreaders = n] \in LockfType
    BY <1>0 DEF LockfType
  <2> QED
    BY <1>0, <1>5, <2>1, <2>2, <2>3 DEF Count, TypeOK
<1>6. CASE SetPid(r)
  <2>1. rdr' \in [Readers -> RdrType]
    BY <1>6, RGotoStep DEF SetPid, RdrPoints
  <2>2. slot' \in [Slots -> SlotType]
    BY <1>0, <1>6, SlotSteps DEF SetPid
  <2>3. mutex' \in [{"r", "w"} -> MutexType]
    BY <1>6, OwnerTypes, MutexSteps DEF SetPid
  <2> QED
    BY <1>6, <2>1, <2>2, <2>3 DEF SetPid, TypeOK
<1>7. CASE Load(r)
  <2>1. [rdr[r] EXCEPT !.at = "store", !.txnid = lockf.txnid] \in RdrType
    BY <1>0 DEF RdrType, RdrPoints
  <2> QED
    BY <1>7, <2>1 DEF Load, TypeOK
<1>8. CASE Store(r)
  <2>1. rdr' \in [Readers -> RdrType]
    BY <1>8, RGotoStep DEF Store, RdrPoints
  <2>2. slot' \in [Slots -> SlotType]
    BY <1>0, <1>8, SlotSteps DEF Store
  <2> QED
    BY <1>8, <2>1, <2>2 DEF Store, TypeOK
<1>9. CASE End(r)
  <2>1. [rdr[r] EXCEPT !.at = "idle", !.txnid = NoTxn] \in RdrType
    BY <1>0 DEF RdrType, RdrPoints
  <2>2. slot' \in [Slots -> SlotType]
    BY <1>0, <1>9, SlotSteps DEF End
  <2> QED
    BY <1>9, <2>1, <2>2 DEF End, TypeOK
<1>10. CASE Release(r)
  <2>1. [rdr[r] EXCEPT !.slot = 0] \in RdrType
    BY <1>0, LockFileAssumption DEF RdrType
  <2>2. slot' \in [Slots -> SlotType]
    <3>1. \A x \in SlotType : [x EXCEPT !.pid = IF @ = r[1] THEN NoPid ELSE @] \in SlotType
      BY DEF SlotType
    <3> QED
      BY <1>10, <3>1 DEF Release, TypeOK
  <2> QED
    BY <1>10, <2>1, <2>2 DEF Release, TypeOK
<1> QED
  BY <1>1, <1>2, <1>3, <1>4, <1>5, <1>6, <1>7, <1>8, <1>9, <1>10 DEF Read

LEMMA WriteType == ASSUME TypeOK, NEW p \in Pids, Write(p) PROVE TypeOK'
<1>0. /\ main[p] \in MainType /\ WithinTable(main[p]) /\ lockf \in LockfType /\ env[p] \in EnvType
      /\ lockf.nreaders \in 0 .. MaxReaders /\ lockf.txnid \in Nat
      /\ main[p].txnid \in Nat /\ main[p].old \in Int /\ main[p].i \in Int
      /\ main \in [Pids -> MainType]
  <2>1. main[p] \in MainType /\ WithinTable(main[p]) /\ lockf \in LockfType /\ env[p] \in EnvType
        /\ main \in [Pids -> MainType]
    BY DEF TypeOK
  <2> QED
    BY <2>1, MainPoints DEF MainType, LockfType
<1>1. CASE LockWriter(p)
  <2>1. [lockf EXCEPT !.txnid = PickMeta] \in LockfType
    BY <1>0, PickMetaType DEF LockfType
  <2>2. lockf' \in LockfType
    BY <1>0, <1>1, <2>1 DEF LockWriter, RecoverTxnid
  <2>3. mutex' \in [{"r", "w"} -> MutexType]
    <3>1. CASE Lock("w", <<p>>)
      BY <3>1, OwnerTypes, MutexSteps
    <3>2. CASE mutex' = [mutex EXCEPT !["w"].owner = <<p>>]
      BY <3>2, OwnerTypes, MutexSteps
    <3> QED
      BY <1>1, <3>1, <3>2 DEF LockWriter
  <2>4. main' \in [Pids -> MainType] /\ \A q \in Pids : WithinTable(main'[q])
    <3>1. CASE Goto(p, "locked")
      BY <3>1, GotoStep DEF Points
    <3>2. CASE main' = [main EXCEPT ![p] = CheckFrom(p, "consistent")]
      BY <3>2, CheckFromStep
    <3> QED
      BY <1>1, <3>1, <3>2 DEF LockWriter
  <2> QED
    BY <1>1, <2>2, <2>3, <2>4 DEF LockWriter, TypeOK
<1>2. CASE Consistent(p)
  <2>1. main' \in [Pids -> MainType] /\ \A q \in Pids : WithinTable(main'[q])
    BY <1>2, GotoStep DEF Consistent, Points
  <2>2. mutex' \in [{"r", "w"} -> MutexType]
    BY <1>2, OwnerTypes, MutexSteps DEF Consistent
  <2> QED
    BY <1>2, <2>1, <2>2 DEF Consistent, TypeOK
<1>3. CASE BeginWrite(p)
  <2>1. main'[p] = [main[p] EXCEPT !.at = "begun", !.txnid = lockf.txnid + 1] /\ main' = [main EXCEPT ![p] = main'[p]]
    BY <1>0, <1>3 DEF BeginWrite
  <2> DEFINE m == [at |-> "begun", excl |-> main[p].excl, txnid |-> lockf.txnid + 1, old |-> main[p].old, i |-> main[p].i,
                  n |-> main[p].n, pid |-> main[p].pid, seen |-> main[p].seen, stale |-> main[p].stale, next |-> main[p].next]
  <2>2. main'[p] = m
    BY <1>0, <2>1 DEF MainType
  <2>3. m \in MainType
    BY <1>0, MainPoints, LockFileAssumption DEF MainType
  <2>4. WithinTable(m)
    BY <1>0, LockFileAssumption DEF WithinTable
  <2>5. main' \in [Pids -> MainType] /\ \A q \in Pids : WithinTable(main'[q])
    <3> HIDE DEF m
    <3> QED
      BY <2>1, <2>2, <2>3, <2>4, MainStep
  <2> QED
    BY <1>3, <2>5 DEF BeginWrite, TypeOK
<1>4. CASE Scan(p)
  <2>1. main'[p] = [main[p] EXCEPT !.at = "scan", !.i = lockf.nreaders, !.old = main[p].txnid - 1] /\ main' = [main EXCEPT ![p] = main'[p]]
    BY <1>0, <1>4 DEF Scan
  <2> DEFINE m == [at |-> "scan", excl |-> main[p].excl, txnid |-> main[p].txnid, old |-> main[p].txnid - 1, i |-> lockf.nreaders,
                  n |-> main[p].n, pid |-> main[p].pid, seen |-> main[p].seen, stale |-> main[p].stale, next |-> main[p].next]
  <2>2. main'[p] = m
    BY <1>0, <2>1 DEF MainType
  <2>3. m \in MainType
    BY <1>0, MainPoints, LockFileAssumption DEF MainType
  <2>4. WithinTable(m)
    BY <1>0, LockFileAssumption DEF WithinTable
  <2>5. main' \in [Pids -> MainType] /\ \A q \in Pids : WithinTable(main'[q])
    <3> HIDE DEF m
    <3> QED
      BY <2>1, <2>2, <2>3, <2>4, MainStep
  <2> QED
    BY <1>4, <2>5 DEF Scan, TypeOK
<1>5. CASE ScanSlot(p)
  <2>1. CASE /\ At(p, "scan") /\ main[p].i > 0
             /\ main' = IF slot[main[p].i].pid = NoPid THEN [main EXCEPT ![p].i = @ - 1]
                        ELSE [main EXCEPT ![p].at = "scanned"]
             /\ UNCHANGED env
    <3>1. main[p].i \in Slots
      BY <1>0, <2>1, LockFileAssumption DEF At, WithinTable
    <3>2. /\ [main[p] EXCEPT !.i = @ - 1] \in MainType
          /\ WithinTable([main[p] EXCEPT !.i = @ - 1])
      BY <1>0, <2>1, <3>1, LockFileAssumption, MainPoints DEF MainType, WithinTable, At
    <3>3. /\ [main[p] EXCEPT !.at = "scanned"] \in MainType
          /\ WithinTable([main[p] EXCEPT !.at = "scanned"])
      BY <1>0, <3>1, MainPoints DEF MainType, WithinTable
    <3>4. main' \in [Pids -> MainType] /\ \A q \in Pids : WithinTable(main'[q])
      BY <2>1, <3>2, <3>3, MainStep
    <3> QED
      BY <1>5, <2>1, <3>4 DEF ScanSlot, TypeOK
  <2>2. CASE At(p, "scanned") /\ ScanTxnid(p) /\ UNCHANGED env
    <3>1. main[p].i \in Slots
      BY <1>0, <2>2 DEF At, WithinTable
    <3>2. slot[main[p].i] \in SlotType
      BY <3>1 DEF TypeOK
    <3>3. slot[main[p].i].txnid \in Int
      BY <3>2 DEF SlotType
    <3> DEFINE old == IF main[p].old > slot[main[p].i].txnid THEN slot[main[p].i].txnid ELSE main[p].old
               m == [at |-> "scan", excl |-> main[p].excl, txnid |-> main[p].txnid, old |-> old, i |-> main[p].i - 1,
                     n |-> main[p].n, pid |-> main[p].pid, seen |-> main[p].seen, stale |-> main[p].stale, next |-> main[p].next]
    <3>4. old \in Int
      BY <1>0, <3>3
    <3>5. main'[p] = [main[p] EXCEPT !.at = "scan", !.i = main[p].i - 1, !.old = old]
          /\ main' = [main EXCEPT ![p] = main'[p]]
      BY <1>0, <2>2 DEF ScanTxnid
    <3> HIDE DEF old
    <3>6. main'[p] = m
      BY <1>0, <3>5 DEF MainType
    <3>7. m \in MainType
      BY <1>0, <3>1, <3>4, MainPoints DEF MainType
    <3>8. WithinTable(m)
      BY <3>1, LockFileAssumption DEF WithinTable
    <3>9. main' \in [Pids -> MainType] /\ \A q \in Pids : WithinTable(main'[q])
      <4> HIDE DEF m
      <4> QED
        BY <3>5, <3>6, <3>7, <3>8, MainStep
    <3> QED
      BY <1>5, <2>2, <3>9 DEF ScanSlot, TypeOK
  <2>3. CASE /\ At(p, "scan") /\ main[p].i = 0
             /\ env' = [env EXCEPT ![p].oldest = main[p].old]
             /\ main' = [main EXCEPT ![p].at = "begun", ![p].old = 0]
    <3>1. [env[p] EXCEPT !.oldest = main[p].old] \in EnvType
      BY <1>0 DEF EnvType
    <3>2. env' \in [Pids -> EnvType]
      BY <2>3, <3>1 DEF TypeOK
    <3> DEFINE m == [at |-> "begun", excl |-> main[p].excl, txnid |-> main[p].txnid, old |-> 0, i |-> main[p].i,
                     n |-> main[p].n, pid |-> main[p].pid, seen |-> main[p].seen, stale |-> main[p].stale, next |-> main[p].next]
    <3>3. main'[p] = m
      <4>1. main'[p] = [main[p] EXCEPT !.at = "begun", !.old = 0]
        BY <1>0, <2>3
      <4> QED
        BY <1>0, <4>1 DEF MainType
    <3>5. m \in MainType /\ WithinTable(m)
      BY <1>0, MainPoints DEF MainType, WithinTable
    <3>6. main' = [main EXCEPT ![p] = main'[p]]
      BY <1>0, <2>3
    <3>4. main' \in [Pids -> MainType] /\ \A q \in Pids : WithinTable(main'[q])
      <4> HIDE DEF m
      <4> QED
        BY <3>3, <3>5, <3>6, MainStep
    <3> QED
      BY <1>5, <3>2, <3>4 DEF ScanSlot, TypeOK
  <2> QED
    BY <1>5, <2>1, <2>2, <2>3 DEF ScanSlot
<1>6. CASE WriteMeta(p)
  <2>1. main' \in [Pids -> MainType] /\ \A q \in Pids : WithinTable(main'[q])
    BY <1>6, GotoStep DEF WriteMeta, Points
  <2>2. metas' \in [0 .. 1 -> Nat]
    BY <1>0, <1>6 DEF WriteMeta, TypeOK
  <2> QED
    BY <1>6, <2>1, <2>2 DEF WriteMeta, TypeOK
<1>7. CASE Publish(p) \/ Abort(p)
  <2>1. EndWrite(p)
    BY <1>7 DEF Publish, Abort
  <2> DEFINE m == [main[p] EXCEPT !.at = "up", !.txnid = 0]
  <2>2. m \in MainType /\ WithinTable(m)
    BY <1>0, MainPoints DEF MainType, WithinTable
  <2>3. main' \in [Pids -> MainType] /\ \A q \in Pids : WithinTable(main'[q])
    BY <2>1, <2>2, MainStep DEF EndWrite
  <2>4. mutex' \in [{"r", "w"} -> MutexType]
    BY <2>1, OwnerTypes, MutexSteps DEF EndWrite
  <2>5. [lockf EXCEPT !.txnid = main[p].txnid] \in LockfType
    BY <1>0 DEF LockfType
  <2>6. lockf' \in LockfType
    BY <1>0, <1>7, <2>5 DEF Publish, Abort
  <2> QED
    BY <2>1, <2>3, <2>4, <2>6 DEF EndWrite, TypeOK
<1> QED
  BY <1>1, <1>2, <1>3, <1>4, <1>5, <1>6, <1>7 DEF Write

LEMMA CheckReadersType == ASSUME TypeOK, NEW p \in Pids, CheckReaders(p) PROVE TypeOK'
<1>0. /\ main[p] \in MainType /\ WithinTable(main[p])
      /\ main[p].i \in Int /\ main[p].n \in 0 .. MaxReaders /\ main[p].next \in {"up", "consistent"}
      /\ main \in [Pids -> MainType]
  <2>1. main[p] \in MainType /\ WithinTable(main[p]) /\ main \in [Pids -> MainType]
    BY DEF TypeOK
  <2> QED
    BY <2>1, MainPoints DEF MainType
<1>1. CASE Check(p)
  <2>1. main' \in [Pids -> MainType] /\ \A q \in Pids : WithinTable(main'[q])
    BY <1>1, CheckFromStep DEF Check
  <2> QED
    BY <1>1, <2>1 DEF Check, TypeOK
<1>2. CASE CheckSlot(p)
  <2>1. main[p].i \in Slots
    BY <1>0, <1>2, LockFileAssumption DEF CheckSlot, At, WithinTable
  <2>2. slot[main[p].i] \in SlotType
    BY <2>1 DEF TypeOK
  <2> DEFINE q == slot[main[p].i].pid
             m == [main[p] EXCEPT !.at = "pidcheck", !.pid = q, !.seen = @ \cup {q}]
  <2>3. q \in Pids \cup {NoPid}
    BY <2>2 DEF SlotType
  <2>4. /\ [main[p] EXCEPT !.i = @ + 1] \in MainType
        /\ At(p, "check") => WithinTable([main[p] EXCEPT !.i = @ + 1])
    BY <1>0, MainPoints DEF MainType, WithinTable, At
  <2>5. q # NoPid => m \in MainType
    <3> HIDE DEF q
    <3> QED
      BY <1>0, <2>3, MainPoints DEF MainType
  <2>6. At(p, "check") => WithinTable(m)
    BY <1>0, MainPoints DEF MainType, WithinTable, At
  <2>7. main' \in [Pids -> MainType] /\ \A x \in Pids : WithinTable(main'[x])
    <3>1. main' = IF q \in {NoPid, p} \cup main[p].seen THEN [main EXCEPT ![p] = [main[p] EXCEPT !.i = @ + 1]]
                  ELSE [main EXCEPT ![p] = m]
      BY <1>2 DEF CheckSlot
    <3>2. At(p, "check")
      BY <1>2 DEF CheckSlot
    <3> HIDE DEF m, q
    <3> QED
      BY <2>4, <2>5, <2>6, <3>1, <3>2, MainStep
  <2> QED
    BY <1>2, <2>7 DEF CheckSlot, TypeOK
<1>3. CASE CheckPid(p) \/ CheckLock(p) \/ Clear(p)
  <2>1. At(p, "pidcheck") \/ At(p, "checklock") \/ At(p, "clear")
    BY <1>3 DEF CheckPid, CheckLock, Clear
  <2>2. main[p].i >= 1
    BY <1>0, <2>1 DEF WithinTable, At
  <2>3. main' \in [Pids -> MainType] /\ \A q \in Pids : WithinTable(main'[q])
    <3>1. CASE main' = [main EXCEPT ![p].at = "checklock"]
      <4> DEFINE m == [main[p] EXCEPT !.at = "checklock"]
      <4>1. m \in MainType /\ WithinTable(m)
        BY <1>0, <2>2, MainPoints DEF MainType, WithinTable
      <4> QED
        BY <3>1, <4>1, MainStep
    <3>2. CASE main' = [main EXCEPT ![p].at = "clear"]
      <4> DEFINE m == [main[p] EXCEPT !.at = "clear"]
      <4>1. m \in MainType /\ WithinTable(m)
        BY <1>0, <2>2, MainPoints DEF MainType, WithinTable
      <4> QED
        BY <3>2, <4>1, MainStep
    <3>3. CASE main' = [main EXCEPT ![p].at = "check", ![p].i = @ + 1, ![p].pid = NoPid]
      <4> DEFINE m == [at |-> "check", excl |-> main[p].excl, txnid |-> main[p].txnid, old |-> main[p].old, i |-> main[p].i + 1,
                   n |-> main[p].n, pid |-> NoPid, seen |-> main[p].seen, stale |-> main[p].stale, next |-> main[p].next]
      <4>1. main'[p] = [main[p] EXCEPT !.at = "check", !.i = main[p].i + 1, !.pid = NoPid]
            /\ main' = [main EXCEPT ![p] = main'[p]]
        BY <1>0, <3>3
      <4>2. main'[p] = m
        BY <1>0, <4>1 DEF MainType
      <4>3. m \in MainType /\ WithinTable(m)
        BY <1>0, <2>2, MainPoints DEF MainType, WithinTable
      <4> HIDE DEF m
      <4> QED
        BY <4>1, <4>2, <4>3, MainStep
    <3>4. CASE main' = [main EXCEPT ![p].at = "check", ![p].n = 0, ![p].pid = NoPid]
      <4> DEFINE m == [at |-> "check", excl |-> main[p].excl, txnid |-> main[p].txnid, old |-> main[p].old, i |-> main[p].i,
                   n |-> 0, pid |-> NoPid, seen |-> main[p].seen, stale |-> main[p].stale, next |-> main[p].next]
      <4>1. main'[p] = [main[p] EXCEPT !.at = "check", !.n = 0, !.pid = NoPid]
            /\ main' = [main EXCEPT ![p] = main'[p]]
        BY <1>0, <3>4
      <4>2. main'[p] = m
        BY <1>0, <4>1 DEF MainType
      <4>3. m \in MainType /\ WithinTable(m)
        BY <1>0, <2>2, MainPoints, LockFileAssumption DEF MainType, WithinTable
      <4> HIDE DEF m
      <4> QED
        BY <4>1, <4>2, <4>3, MainStep
    <3> QED
      BY <1>3, <3>1, <3>2, <3>3, <3>4 DEF CheckPid, CheckLock, Clear, Goto
  <2>4. mutex' \in [{"r", "w"} -> MutexType]
    <3>1. mutex' = mutex \/ Lock("r", <<p>>) \/ Unlock("r") \/ mutex' = [mutex EXCEPT !["r"].dead = FALSE]
      BY <1>3 DEF CheckPid, CheckLock, Clear
    <3> QED
      BY <3>1, OwnerTypes, MutexSteps DEF TypeOK
  <2>5. slot' \in [Slots -> SlotType]
    <3> DEFINE S == {j \in Slots : ~Recheck(p) /\ j \in StaleSlots(p)}
    <3>1. ASSUME Clear(p) PROVE slot' \in [Slots -> SlotType]
      <4>1. slot' = [j \in Slots |-> IF j \in S THEN [slot[j] EXCEPT !.pid = NoPid] ELSE slot[j]]
        BY <3>1 DEF Clear
      <4> HIDE DEF S
      <4> QED
        BY <4>1, ClearedSlots
    <3>2. ASSUME CheckPid(p) \/ CheckLock(p) PROVE slot' \in [Slots -> SlotType]
      BY <3>2, SlotsCheckedType DEF CheckPid, CheckLock, TypeOK
    <3> QED
      BY <1>3, <3>1, <3>2
  <2> QED
    BY <1>3, <2>3, <2>4, <2>5 DEF CheckPid, CheckLock, Clear, TypeOK
<1>6. CASE CheckEnd(p)
  <2>1. [NewMain EXCEPT !.at = main[p].next] \in MainType
        /\ WithinTable([NewMain EXCEPT !.at = main[p].next])
    <3>1. [NewMain EXCEPT !.at = main[p].next] \in MainType
      BY <1>0, NewTypes, MainPoints DEF MainType
    <3>2. [NewMain EXCEPT !.at = main[p].next].at \in {"up", "consistent"}
      BY <1>0 DEF NewMain
    <3> QED
      BY <3>1, <3>2 DEF WithinTable
  <2>2. main' \in [Pids -> MainType] /\ \A q \in Pids : WithinTable(main'[q])
    BY <1>6, <2>1, MainStep DEF CheckEnd
  <2> QED
    BY <1>6, <2>2 DEF CheckEnd, TypeOK
<1> QED
  BY <1>1, <1>2, <1>3, <1>6 DEF CheckReaders

LEMMA TypeStep == ASSUME TypeOK, [Next]_vars PROVE TypeOK'
<1>1. CASE UNCHANGED vars
  BY <1>1 DEF vars, TypeOK
<1> QED
  BY <1>1, OpenOrCloseType, ReadType, WriteType, CheckReadersType DEF Next

-----------------------------------------------------------------------------
(* Where the main threads are.                                             *)

Others(p) == \A q \in Pids \ {p} : main'[q].at = main[q].at /\ main'[q].excl = main[q].excl

\* What a step of a main thread is to the file's lock.
FlockMove(p, a, b, x, y) ==
  \/ a = "down" /\ b = "lock" /\ ~y /\ flock' = flock
  \/ a = "lock" /\ b = "init" /\ (\A q \in Pids : flock[q] = "none") /\ y = x /\ flock' = [flock EXCEPT ![p] = "excl"]
  \/ a = "lock" /\ b = "wait" /\ y = x /\ flock' = flock
  \/ a = "wait" /\ b = "attach" /\ (\A q \in Pids : flock[q] # "excl") /\ y = x /\ flock' = [flock EXCEPT ![p] = "shared"]
  \/ a = "init" /\ b = "open2" /\ y /\ flock' = flock
  \/ a = "attach" /\ b \in {"open2", "closing"} /\ y = x /\ flock' = flock
  \/ a = "open2" /\ b \in {"closing", IF x THEN "publish" ELSE "up"} /\ y = x /\ flock' = flock
  \/ a = "publish" /\ b = "downgrade" /\ y = x /\ flock' = flock
  \/ a = "downgrade" /\ b = "up" /\ y = x /\ flock' = [flock EXCEPT ![p] = "shared"]
  \/ a = "up" /\ b = "closing" /\ y = x /\ flock' = flock
  \/ a = "closing" /\ b = "closed" /\ y = x /\ flock' = flock
  \/ a # "down" /\ b = "down" /\ ~y /\ flock' = [flock EXCEPT ![p] = "none"]

Moved(p) == Others(p) /\ FlockMove(p, main[p].at, main'[p].at, main[p].excl, main'[p].excl)

LEMMA GotoAt ==
  ASSUME TypeOK, NEW p \in Pids, NEW a, Goto(p, a)
  PROVE  main'[p].at = a /\ main'[p].excl = main[p].excl /\ Others(p)
BY DEF TypeOK, MainType, Goto, Others

LEMMA NewMainAt ==
  ASSUME TypeOK, NEW p \in Pids, main' = [main EXCEPT ![p] = NewMain]
  PROVE  main'[p].at = "down" /\ ~main'[p].excl /\ Others(p)
BY DEF TypeOK, NewMain, Others

LEMMA OpenOrCloseAt == ASSUME TypeOK, NEW p \in Pids, OpenOrClose(p) PROVE Moved(p)
<1>1. CASE Start(p)
  <2>1. \A m \in MainType : /\ [m EXCEPT !.stale = @ \ {p}].at = m.at
                            /\ [m EXCEPT !.stale = @ \ {p}].excl = m.excl
    BY DEF MainType
  <2>2. Others(p) /\ main'[p].at = "lock" /\ ~main'[p].excl
    BY <1>1, <2>1 DEF Start, TypeOK, NewMain, Others
  <2> QED
    BY <1>1, <2>2 DEF Start, At, Moved, FlockMove
<1>2. CASE ExclLock(p)
  BY <1>2, GotoAt DEF ExclLock, At, Moved, FlockMove
<1>3. CASE ShareLock(p)
  BY <1>3, GotoAt DEF ShareLock, At, Moved, FlockMove
<1>4. CASE Attach(p)
  <2>1. \E a \in {"open2", "closing"} : Goto(p, a)
    BY <1>4 DEF Attach
  <2> QED
    BY <1>4, <2>1, GotoAt DEF Attach, At, Moved, FlockMove
<1>5. CASE Open2(p)
  <2>1. \E a \in {"closing", IF main[p].excl THEN "publish" ELSE "up"} : Goto(p, a)
    BY <1>5 DEF Open2
  <2> QED
    BY <1>5, <2>1, GotoAt DEF Open2, At, Moved, FlockMove
<1>6. CASE Close(p)
  BY <1>6, GotoAt DEF Close, At, Moved, FlockMove
<1>7. CASE Share(p)
  BY <1>7, GotoAt DEF Share, ShareTxnid, At, Moved, FlockMove
<1>8. CASE InitTable(p)
  <2>1. Others(p) /\ main'[p].at = "open2" /\ main'[p].excl
    BY <1>8 DEF InitTable, TypeOK, MainType, Others
  <2> QED
    BY <1>8, <2>1 DEF InitTable, At, Moved, FlockMove
<1>9. CASE Close0(p)
  <2>1. CASE At(p, "closing") /\ Goto(p, "closed") /\ flock' = flock
    BY <2>1, GotoAt DEF At, Moved, FlockMove
  <2>2. CASE At(p, "closed") /\ main' = [main EXCEPT ![p] = NewMain] /\ Unlocked(p)
    BY <2>2, NewMainAt DEF At, Moved, FlockMove, Unlocked
  <2> QED
    BY <1>9, <2>1, <2>2 DEF Close0
<1>10. CASE Kill(p)
  BY <1>10, NewMainAt DEF Kill, At, Moved, FlockMove, Unlocked
<1> QED
  BY <1>1, <1>2, <1>3, <1>4, <1>5, <1>6, <1>7, <1>8, <1>9, <1>10 DEF OpenOrClose

\* A step of a writer or a check.
Worked(p) == /\ Others(p) /\ main[p].at \in Working /\ main'[p].at \in Working
             /\ UNCHANGED <<flock, pidlock, rdr>> /\ \A q \in Pids : env'[q].live = env[q].live
             /\ main'[p].at = "clear" => CheckLock(p)

LEMMA WorkAt == ASSUME TypeOK, NEW p \in Pids, Write(p) \/ CheckReaders(p) PROVE Worked(p)
<1>0. main[p] \in MainType /\ main \in [Pids -> MainType]
  BY DEF TypeOK
<1>1. CASE LockWriter(p)
  <2>1. CASE Goto(p, "locked")
    BY <1>1, <2>1, GotoAt DEF LockWriter, Working, Worked, At
  <2>2. CASE main' = [main EXCEPT ![p] = CheckFrom(p, "consistent")]
    <3>1. CheckFrom(p, "consistent").at = "check"
      BY DEF CheckFrom, NewMain
    <3> QED
      BY <1>0, <1>1, <2>2, <3>1 DEF LockWriter, Working, Worked, At, Others
  <2> QED
    BY <1>1, <2>1, <2>2 DEF LockWriter
<1>2. CASE Consistent(p) \/ WriteMeta(p)
  BY <1>2, GotoAt DEF Consistent, WriteMeta, Working, Worked, At
<1>3. CASE BeginWrite(p)
  <2>1. main'[p].at = "begun" /\ Others(p)
    BY <1>0, <1>3 DEF BeginWrite, MainType, Others
  <2> QED
    BY <1>3, <2>1 DEF BeginWrite, Working, Worked, At
<1>4. CASE Scan(p)
  <2>1. main'[p].at = "scan" /\ Others(p)
    BY <1>0, <1>4 DEF Scan, MainType, Others
  <2> QED
    BY <1>4, <2>1 DEF Scan, Working, Worked, At
<1>5. CASE ScanSlot(p)
  <2>1. main'[p].at \in {"scan", "scanned", "begun"} /\ Others(p)
    <3>1. CASE main' = [main EXCEPT ![p].i = @ - 1] /\ At(p, "scan")
      BY <1>0, <3>1 DEF MainType, Others, At
    <3>2. CASE main' = [main EXCEPT ![p].at = "scanned"]
      BY <1>0, <3>2 DEF MainType, Others
    <3>3. CASE ScanTxnid(p)
      BY <1>0, <3>3 DEF ScanTxnid, MainType, Others
    <3>4. CASE main' = [main EXCEPT ![p].at = "begun", ![p].old = 0]
      BY <1>0, <3>4 DEF MainType, Others
    <3> QED
      BY <1>5, <3>1, <3>2, <3>3, <3>4 DEF ScanSlot
  <2>2. \A q \in Pids : env'[q].live = env[q].live
    <3>1. env[p] \in EnvType /\ env \in [Pids -> EnvType]
      BY DEF TypeOK
    <3>2. CASE env' = [env EXCEPT ![p].oldest = main[p].old]
      BY <3>1, <3>2 DEF EnvType
    <3> QED
      BY <1>5, <3>2 DEF ScanSlot
  <2> QED
    BY <1>5, <2>1, <2>2 DEF ScanSlot, Working, Worked, At
<1>6. CASE Publish(p) \/ Abort(p)
  <2>1. main'[p].at = "up" /\ Others(p)
    BY <1>0, <1>6 DEF Publish, Abort, EndWrite, MainType, Others
  <2> QED
    BY <1>6, <2>1 DEF Publish, Abort, EndWrite, Working, Worked, At
<1>7. CASE Check(p)
  <2>1. CheckFrom(p, "up").at = "check"
    BY DEF CheckFrom, NewMain
  <2> QED
    BY <1>0, <1>7, <2>1 DEF Check, Working, Worked, At, Others
<1>8. CASE CheckSlot(p)
  <2>1. main'[p].at \in {"check", "pidcheck"} /\ Others(p)
    <3>1. CASE main' = [main EXCEPT ![p].i = @ + 1] /\ At(p, "check")
      BY <1>0, <3>1 DEF MainType, Others, At
    <3>2. CASE LET q == slot[main[p].i].pid
               IN  main' = [main EXCEPT ![p].at = "pidcheck", ![p].pid = q, ![p].seen = @ \cup {q}]
      BY <1>0, <3>2 DEF MainType, Others
    <3> QED
      BY <1>8, <3>1, <3>2 DEF CheckSlot
  <2> QED
    BY <1>8, <2>1 DEF CheckSlot, Working, Worked, At
<1>9. CASE CheckPid(p)
  <2>1. main'[p].at \in {"check", "checklock"} /\ Others(p)
    BY <1>0, <1>9 DEF CheckPid, MainType, Others
  <2> QED
    BY <1>9, <2>1 DEF CheckPid, Working, Worked, At
<1>10. CASE CheckLock(p)
  <2>1. main'[p].at \in {"check", "clear"} /\ Others(p)
    <3>1. CASE Goto(p, "clear")
      BY <3>1, GotoAt
    <3>2. CASE main' = [main EXCEPT ![p].at = "check", ![p].n = 0, ![p].pid = NoPid]
      BY <1>0, <3>2 DEF MainType, Others
    <3> QED
      BY <1>10, <3>1, <3>2 DEF CheckLock
  <2> QED
    BY <1>10, <2>1 DEF CheckLock, Working, Worked, At
<1>11. CASE Clear(p)
  <2>1. main'[p].at = "check" /\ Others(p)
    BY <1>0, <1>11 DEF Clear, MainType, Others
  <2> QED
    BY <1>11, <2>1 DEF Clear, Working, Worked, At
<1>12. CASE CheckEnd(p)
  <2>1. main'[p].at \in {"up", "consistent"} /\ Others(p)
    <3>1. main[p].next \in {"up", "consistent"}
      BY <1>0 DEF MainType
    <3> QED
      BY <1>0, <1>12, <3>1 DEF CheckEnd, NewMain, Others
  <2> QED
    BY <1>12, <2>1 DEF CheckEnd, Working, Worked, At
<1> QED
  BY <1>1, <1>2, <1>3, <1>4, <1>5, <1>6, <1>7, <1>8, <1>9, <1>10, <1>11, <1>12 DEF Write, CheckReaders

-----------------------------------------------------------------------------
(* The lock of the file.                                                   *)

LEMMA FlockStep == ASSUME TypeOK, FlockInv, [Next]_vars PROVE FlockInv'
<1>0. flock \in [Pids -> {"none", "shared", "excl"}]
  BY DEF TypeOK
<1>1. ASSUME NEW p \in Pids, OpenOrClose(p) PROVE FlockInv'
  <2>1. Moved(p)
    BY <1>1, OpenOrCloseAt
  <2> DEFINE a == main[p].at  b == main'[p].at
  <2>2. CASE a = "down" /\ b = "lock" /\ ~main'[p].excl /\ flock' = flock
    BY <1>0, <2>1, <2>2 DEF Moved, Others, FlockInv, Working
  <2>7. CASE a = "init" /\ b = "open2" /\ main'[p].excl /\ flock' = flock
    BY <1>0, <2>1, <2>7 DEF Moved, Others, FlockInv, Working
  <2>8. CASE a = "open2" /\ b \in {"closing", IF main[p].excl THEN "publish" ELSE "up"} /\ flock' = flock
    BY <1>0, <2>1, <2>8 DEF Moved, Others, FlockInv, Working
  <2>9. CASE /\ main'[p].excl = main[p].excl /\ flock' = flock
             /\ \/ a = "lock" /\ b = "wait"
                \/ a = "attach" /\ b \in {"open2", "closing"}
                \/ a = "publish" /\ b = "downgrade"
                \/ a = "up" /\ b = "closing"
                \/ a = "closing" /\ b = "closed"
    BY <1>0, <2>1, <2>9 DEF Moved, Others, FlockInv, Working
  <2>3. CASE /\ a = "lock" /\ b = "init" /\ \A q \in Pids : flock[q] = "none"
             /\ main'[p].excl = main[p].excl /\ flock' = [flock EXCEPT ![p] = "excl"]
    BY <1>0, <2>1, <2>3 DEF Moved, Others, FlockInv, Working
  <2>4. CASE /\ a = "wait" /\ b = "attach" /\ \A q \in Pids : flock[q] # "excl"
             /\ main'[p].excl = main[p].excl /\ flock' = [flock EXCEPT ![p] = "shared"]
    BY <1>0, <2>1, <2>4 DEF Moved, Others, FlockInv, Working
  <2>5. CASE a = "downgrade" /\ b = "up" /\ flock' = [flock EXCEPT ![p] = "shared"]
    BY <1>0, <2>1, <2>5 DEF Moved, Others, FlockInv, Working
  <2>6. CASE a # "down" /\ b = "down" /\ ~main'[p].excl /\ flock' = [flock EXCEPT ![p] = "none"]
    BY <1>0, <2>1, <2>6 DEF Moved, Others, FlockInv, Working
  <2> QED
    BY <2>1, <2>2, <2>3, <2>4, <2>5, <2>6, <2>7, <2>8, <2>9 DEF Moved, FlockMove
<1>2. ASSUME NEW p \in Pids, Write(p) \/ CheckReaders(p) PROVE FlockInv'
  BY <1>2, WorkAt DEF FlockInv, Others, Working, Worked
<1>3. ASSUME NEW r \in Readers, Read(r) PROVE FlockInv'
  <2>1. UNCHANGED <<main, flock>>
    BY <1>3 DEF Read, Begin, Pidset, LockTable, Choose, Count, SetPid, Load, Store, Verify, End, Release
  <2> QED
    BY <2>1 DEF FlockInv
<1>4. CASE UNCHANGED vars
  BY <1>4 DEF vars, FlockInv
<1> QED
  BY <1>1, <1>2, <1>3, <1>4 DEF Next

-----------------------------------------------------------------------------
(* The slots.                                                              *)

LEMMA OpenWorking == ASSUME TypeOK, NEW p \in Pids PROVE p \in Open <=> main[p].at \in Working
BY DEF TypeOK, MainType, Points, Open, Mapped, Working

LEMMA ReaderFacts ==
  ASSUME NEW r \in Readers
  PROVE  r[1] \in Pids /\ r[1] # NoPid /\ r # NoOne /\ \A p \in Pids : r # <<p>> /\ <<p>> # NoOne
BY LockFileAssumption DEF NoOne

LEMMA FreeSlotFact ==
  ASSUME TypeOK, FreeSlot \in Slots
  PROVE  FreeSlot > lockf.nreaders \/ slot[FreeSlot].pid = NoPid
<1> DEFINE free == {i \in 1 .. lockf.nreaders : slot[i].pid = NoPid}
<1>1. lockf.nreaders \in Nat
  BY LockFileAssumption DEF TypeOK, LockfType
<1>2. CASE free = {}
  BY <1>1, <1>2 DEF FreeSlot
<1>3. CASE free # {}
  <2>0. free \subseteq Nat
    BY <1>1
  <2>1. PICK i \in free : \A j \in free : i <= j
    <3> HIDE DEF free
    <3> QED
      BY <1>3, <2>0, NatHasMin
  <2>2. FreeSlot = CHOOSE k \in free : \A j \in free : k <= j
    BY <1>3 DEF FreeSlot
  <2>3. FreeSlot \in free
    BY <2>1, <2>2
  <2> QED
    BY <2>3
<1> QED
  BY <1>2, <1>3

\* The steps of thread r: the others' threads, and the slots they hold.
LEMMA ReadStep == ASSUME TypeOK, TableInv, NEW r \in Readers, Read(r) PROVE TableInv'
<1>0. /\ rdr[r] \in RdrType /\ rdr \in [Readers -> RdrType] /\ slot \in [Slots -> SlotType]
      /\ rdr[r].slot \in 0 .. MaxReaders /\ lockf.nreaders \in 0 .. MaxReaders
      /\ r[1] \in Pids /\ r[1] # NoPid /\ lockf \in LockfType
  <2>1. /\ rdr[r] \in RdrType /\ rdr \in [Readers -> RdrType] /\ slot \in [Slots -> SlotType]
        /\ lockf \in LockfType
    BY DEF TypeOK
  <2> QED
    BY <2>1, ReaderFacts DEF RdrType, LockfType
<1>1. /\ main' = main /\ main[r[1]].at \in Working
      /\ \A s \in Readers \ {r} : rdr'[s] = rdr[s]
  BY <1>0, OpenWorking DEF Read, Begin, Pidset, LockTable, Choose, Count, SetPid, Load, Store, Verify, End,
     Release, RAt, RGoto
<1>2. \A s \in Readers \ {r} : rdr[s].slot # 0 => rdr[s].slot # rdr[r].slot
  BY DEF TableInv, DistinctInv
\* What is the others' stays.
<1>3. ASSUME NEW s \in Readers \ {r}, pidlock \subseteq pidlock' PROVE ThreadInv(s)' /\ PidInv(s)'
  <2>1. ThreadInv(s) /\ PidInv(s)
    BY DEF TableInv
  <2> QED
    BY <1>1, <1>3, <2>1 DEF ThreadInv, PidInv, InTable
<1>4. ASSUME NEW s \in Readers \ {r}, lockf'.nreaders >= lockf.nreaders, lockf'.nreaders \in Nat,
             rdr[s].slot # 0 => slot'[rdr[s].slot] = slot[rdr[s].slot]
      PROVE  ClaimInv(s)'
  <2>1. ClaimInv(s) /\ ThreadInv(s)
    BY DEF TableInv
  <2>2. rdr[s].slot \in Nat /\ lockf.nreaders \in Nat
    BY <1>0 DEF RdrType
  <2> QED
    BY <1>1, <1>4, <2>1, <2>2 DEF ClaimInv, ThreadInv, Claiming, Settled
<1>5. rdr'[r].slot \in {0, rdr[r].slot} => DistinctInv'
  BY <1>1 DEF TableInv, DistinctInv
<1>6. UNCHANGED <<env, pidlock>> => \A p \in Pids : LiveInv(p)'
  BY <1>1 DEF TableInv, LiveInv
<1>7. UNCHANGED mutex /\ (rdr'[r].at \in {"choose", "count", "setpid"} => rdr[r].at \in {"choose", "count", "setpid"})
      => OwnerInv'
  BY <1>1 DEF TableInv, OwnerInv
<1>8. mutex["r"].owner = r /\ mutex'["r"].owner = NoOne /\ rdr'[r].at \notin {"choose", "count", "setpid"} => OwnerInv'
  BY <1>1, ReaderFacts DEF TableInv, OwnerInv
<1>9. ThreadInv(r) /\ PidInv(r) /\ ClaimInv(r) /\ LiveInv(r[1])
  BY <1>0 DEF TableInv
<1>10. ASSUME pidlock \subseteq pidlock', ThreadInv(r)', PidInv(r)', ClaimInv(r)',
              \A s \in Readers \ {r} : ClaimInv(s)', \A p \in Pids : LiveInv(p)', OwnerInv', DistinctInv'
       PROVE  TableInv'
  BY <1>3, <1>10 DEF TableInv
<1>11. lockf' = lockf /\ slot' = slot => \A s \in Readers \ {r} : ClaimInv(s)'
  BY <1>0, <1>4, LockFileAssumption
<1>12. ASSUME lockf' = lockf, \A i \in Slots \ {rdr[r].slot} : slot'[i] = slot[i]
       PROVE  \A s \in Readers \ {r} : ClaimInv(s)'
  <2>1. ASSUME NEW s \in Readers \ {r}, rdr[s].slot # 0 PROVE slot'[rdr[s].slot] = slot[rdr[s].slot]
    <3>1. rdr[s].slot \in Slots
      BY <1>0, <2>1, LockFileAssumption DEF RdrType
    <3> QED
      BY <1>2, <1>12, <2>1, <3>1
  <2> QED
    BY <1>0, <1>4, <1>12, <2>1, LockFileAssumption
<1>13. CASE Begin(r)
  <2>1. /\ rdr[r].at = "idle" /\ rdr'[r].slot = rdr[r].slot /\ rdr'[r].txnid = rdr[r].txnid
        /\ \/ rdr[r].slot # 0 /\ rdr'[r].at = "load"
           \/ rdr[r].slot = 0 /\ env[r[1]].live /\ rdr'[r].at = "claim"
           \/ rdr[r].slot = 0 /\ rdr'[r].at = "pidset"
    BY <1>0, <1>13 DEF Begin, RAt, RGoto, RdrType
  <2>2. UNCHANGED <<lockf, slot, mutex, pidlock, env>>
    BY <1>13 DEF Begin
  <2>3. ThreadInv(r)' /\ PidInv(r)' /\ ClaimInv(r)'
    BY <1>1, <1>9, <2>1, <2>2 DEF ThreadInv, PidInv, LiveInv, ClaimInv, Claiming, Settled, InTable, Working
  <2> QED
    BY <1>5, <1>6, <1>7, <1>10, <1>11, <2>1, <2>2, <2>3
<1>14. CASE Pidset(r)
  <2>1. rdr[r].at = "pidset" /\ rdr'[r].at = "claim" /\ rdr'[r].slot = rdr[r].slot
    BY <1>0, <1>14 DEF Pidset, RAt, RGoto, RdrType
  <2>2. UNCHANGED <<lockf, slot, mutex>> /\ pidlock' = pidlock \cup {r[1]}
    BY <1>14 DEF Pidset
  <2>3. ThreadInv(r)' /\ PidInv(r)' /\ ClaimInv(r)'
    BY <1>1, <1>9, <2>1, <2>2 DEF ThreadInv, PidInv, ClaimInv, Claiming, Settled, InTable, Working
  <2>4. \A p \in Pids \ {r[1]} : env'[p] = env[p]
    BY <1>14 DEF Pidset, TypeOK
  <2>5. \A p \in Pids : LiveInv(p)'
    BY <1>1, <2>2, <2>4 DEF TableInv, LiveInv
  <2> QED
    BY <1>5, <1>7, <1>10, <1>11, <2>1, <2>2, <2>3, <2>5
<1>15. CASE LockTable(r)
  <2>1. rdr[r].at = "claim" /\ rdr'[r].at = "choose" /\ rdr'[r].slot = rdr[r].slot
    BY <1>0, <1>15 DEF LockTable, RAt, RGoto, RdrType
  <2>2. UNCHANGED <<lockf, pidlock, env>> /\ mutex["r"].owner = NoOne /\ mutex'["r"].owner = r
    BY <1>15 DEF LockTable, TypeOK, MutexType, Lock, OwnerDead, Free
  <2>3. slot' = slot \/ slot' = SlotsChecked(r[1])
    BY <1>15 DEF LockTable
  <2>4. ThreadInv(r)' /\ PidInv(r)' /\ ClaimInv(r)'
    BY <1>1, <1>9, <2>1, <2>2 DEF ThreadInv, PidInv, ClaimInv, Claiming, Settled, InTable, Working
  <2>5. ASSUME NEW s \in Readers \ {r} PROVE ClaimInv(s)'
    <3>1. ClaimInv(s) /\ PidInv(s) /\ ThreadInv(s)
      BY DEF TableInv
    <3>2. ~Claiming(s)
      BY <2>2, ReaderFacts DEF Claiming, TableInv, OwnerInv
    <3>3. rdr[s].slot # 0 => rdr[s].slot \in Slots
      BY <1>0, LockFileAssumption DEF TypeOK, RdrType
    <3>4. rdr[s].slot # 0 => Alive(slot[rdr[s].slot].pid)
      BY <3>1, <3>2 DEF ClaimInv, Settled, PidInv, Alive
    <3>5. rdr[s].slot # 0 => slot'[rdr[s].slot] = slot[rdr[s].slot]
      BY <2>3, <3>3, <3>4 DEF SlotsChecked
    <3> QED
      BY <1>0, <1>4, <2>2, <3>5, LockFileAssumption
  <2>6. OwnerInv'
    BY <1>1, <2>2, ReaderFacts DEF TableInv, OwnerInv
  <2> QED
    BY <1>5, <1>6, <1>10, <2>1, <2>2, <2>4, <2>5, <2>6
<1>16. CASE Choose(r)
  <2>1. rdr[r].at = "choose" /\ UNCHANGED <<lockf, pidlock, env>> /\ mutex["r"].owner = r
    BY <1>16 DEF Choose, RAt, TableInv, OwnerInv
  <2>2. CASE FreeSlot > MaxReaders
    <3>1. rdr'[r].at = "idle" /\ rdr'[r].slot = rdr[r].slot /\ slot' = slot
      BY <1>0, <1>16, <2>2 DEF Choose, RGoto, RdrType
    <3>2. mutex'["r"].owner = NoOne
      BY <1>16, <2>2 DEF Choose, Unlock, TypeOK, MutexType
    <3>3. ThreadInv(r)' /\ PidInv(r)' /\ ClaimInv(r)'
      BY <1>1, <1>9, <2>1, <3>1 DEF ThreadInv, PidInv, ClaimInv, Claiming, Settled, InTable, Working
    <3> QED
      BY <1>5, <1>6, <1>8, <1>10, <1>11, <2>1, <3>1, <3>2, <3>3
  <2>3. CASE ~(FreeSlot > MaxReaders)
    <3>1. FreeSlot \in Slots
      BY <2>3, FreeSlotType, LockFileAssumption
    <3>2. rdr'[r].at = "count" /\ rdr'[r].slot = FreeSlot /\ mutex' = mutex
      BY <1>0, <1>16, <2>3 DEF Choose, RdrType
    <3>3. /\ slot'[FreeSlot] = [pid |-> NoPid, txnid |-> NoTxn]
          /\ \A i \in Slots \ {FreeSlot} : slot'[i] = slot[i]
      BY <1>0, <1>16, <2>3, <3>1 DEF Choose
    <3>4. slot'[FreeSlot].pid = NoPid
      BY <3>3
    <3>5. ASSUME NEW s \in Readers \ {r}, rdr[s].slot # 0 PROVE rdr[s].slot \in Slots /\ rdr[s].slot # FreeSlot
      <4>1. ClaimInv(s)
        BY DEF TableInv
      <4>2. ~Claiming(s)
        BY <2>1 DEF Claiming, TableInv, OwnerInv
      <4>3. rdr[s].slot \in Slots
        BY <1>0, <3>5, LockFileAssumption DEF RdrType
      <4>4. slot[rdr[s].slot].pid # NoPid /\ rdr[s].slot <= lockf.nreaders
        BY <3>5, <4>1, <4>2, ReaderFacts DEF ClaimInv, Settled
      <4> QED
        BY <1>0, <3>1, <4>3, <4>4, FreeSlotFact, LockFileAssumption
    <3>6. \A s \in Readers \ {r} : ClaimInv(s)'
      BY <1>0, <1>4, <2>1, <3>3, <3>5, LockFileAssumption
    <3>7. DistinctInv'
      BY <1>1, <3>1, <3>2, <3>5 DEF TableInv, DistinctInv
    <3>8. ThreadInv(r)' /\ PidInv(r)' /\ ClaimInv(r)'
      BY <1>1, <1>9, <2>1, <3>1, <3>2, <3>4 DEF ThreadInv, PidInv, ClaimInv, Claiming, Settled, InTable, Working
    <3> QED
      BY <1>6, <1>7, <1>10, <2>1, <3>2, <3>6, <3>7, <3>8
  <2> QED
    BY <2>2, <2>3
<1>17. CASE Count(r)
  <2>1. rdr[r].at = "count" /\ rdr'[r].at = "setpid" /\ rdr'[r].slot = rdr[r].slot
    BY <1>0, <1>17 DEF Count, RAt, RGoto, RdrType
  <2>2. UNCHANGED <<slot, mutex, pidlock>>
    BY <1>17 DEF Count
  <2>3. lockf'.nreaders = IF rdr[r].slot > lockf.nreaders THEN rdr[r].slot ELSE lockf.nreaders
    BY <1>0, <1>17 DEF Count, LockfType
  <2>4. \A p \in Pids : env'[p].live = env[p].live
    <3>1. \A p \in Pids : env[p] \in EnvType
      BY DEF TypeOK
    <3> QED
      BY <1>0, <1>17, <3>1 DEF Count, TypeOK, EnvType
  <2>5. \A p \in Pids : LiveInv(p)'
    BY <1>1, <2>2, <2>4 DEF TableInv, LiveInv
  <2>6. ThreadInv(r)' /\ PidInv(r)' /\ ClaimInv(r)'
    BY <1>0, <1>1, <1>9, <2>1, <2>2, <2>3 DEF ThreadInv, PidInv, ClaimInv, Claiming, Settled, InTable, Working
  <2>7. lockf'.nreaders >= lockf.nreaders /\ lockf'.nreaders \in Nat
    BY <1>0, <2>3
  <2>8. \A s \in Readers \ {r} : ClaimInv(s)'
    BY <1>4, <2>2, <2>7
  <2> QED
    BY <1>5, <1>7, <1>10, <2>1, <2>2, <2>5, <2>6, <2>8
<1>18. CASE SetPid(r)
  <2>1. rdr[r].at = "setpid" /\ rdr'[r].at = "load" /\ rdr'[r].slot = rdr[r].slot
    BY <1>0, <1>18 DEF SetPid, RAt, RGoto, RdrType
  <2>2. rdr[r].slot \in Slots
    BY <1>0, <1>9, <2>1, LockFileAssumption DEF ThreadInv
  <2>3. UNCHANGED <<lockf, pidlock, env>> /\ mutex["r"].owner = r /\ mutex'["r"].owner = NoOne
    BY <1>18, <2>1 DEF SetPid, Unlock, TypeOK, MutexType, TableInv, OwnerInv
  <2>4. slot'[rdr[r].slot].pid = r[1] /\ \A i \in Slots \ {rdr[r].slot} : slot'[i] = slot[i]
    BY <1>0, <1>18, <2>2 DEF SetPid, SlotType
  <2>5. ThreadInv(r)' /\ PidInv(r)' /\ ClaimInv(r)'
    BY <1>0, <1>1, <1>9, <2>1, <2>3, <2>4 DEF ThreadInv, PidInv, ClaimInv, Claiming, Settled, InTable, Working
  <2> QED
    BY <1>5, <1>6, <1>8, <1>10, <1>12, <2>1, <2>3, <2>4, <2>5
<1>19. CASE Load(r)
  <2>1. rdr[r].at = "load" /\ rdr'[r].at = "store" /\ rdr'[r].slot = rdr[r].slot
    BY <1>0, <1>19 DEF Load, RAt, RdrType
  <2>2. UNCHANGED <<lockf, slot, mutex, pidlock, env>>
    BY <1>19 DEF Load
  <2>3. ThreadInv(r)' /\ PidInv(r)' /\ ClaimInv(r)'
    BY <1>1, <1>9, <2>1, <2>2 DEF ThreadInv, PidInv, ClaimInv, Claiming, Settled, InTable, Working
  <2> QED
    BY <1>5, <1>6, <1>7, <1>10, <1>11, <2>1, <2>2, <2>3
<1>20. CASE Store(r)
  <2>1. /\ rdr[r].at = "store" /\ rdr'[r].at = "verify" /\ rdr'[r].slot = rdr[r].slot
        /\ rdr'[r].txnid = rdr[r].txnid
    BY <1>0, <1>20 DEF Store, RAt, RGoto, RdrType
  <2>2. UNCHANGED <<lockf, mutex, pidlock, env>>
    BY <1>20 DEF Store
  <2>3. rdr[r].slot \in Slots
    BY <1>0, <1>9, <2>1, LockFileAssumption DEF ThreadInv
  <2>4. /\ slot'[rdr[r].slot].pid = slot[rdr[r].slot].pid /\ slot'[rdr[r].slot].txnid = rdr[r].txnid
        /\ \A i \in Slots \ {rdr[r].slot} : slot'[i] = slot[i]
    BY <1>0, <1>20, <2>3 DEF Store, SlotType
  <2>5. ThreadInv(r)' /\ PidInv(r)' /\ ClaimInv(r)'
    BY <1>0, <1>1, <1>9, <2>1, <2>2, <2>4 DEF ThreadInv, PidInv, ClaimInv, Claiming, Settled, InTable, Working
  <2> QED
    BY <1>5, <1>6, <1>7, <1>10, <1>12, <2>1, <2>2, <2>4, <2>5
<1>21. CASE Verify(r)
  <2>1. /\ rdr[r].at = "verify" /\ rdr'[r].at \in {"reading", "load"} /\ rdr'[r].slot = rdr[r].slot
        /\ rdr'[r].txnid = rdr[r].txnid
    BY <1>0, <1>21 DEF Verify, RAt, RGoto, RdrType
  <2>2. UNCHANGED <<lockf, slot, mutex, pidlock, env>>
    BY <1>21 DEF Verify
  <2>3. ThreadInv(r)' /\ PidInv(r)' /\ ClaimInv(r)'
    BY <1>1, <1>9, <2>1, <2>2 DEF ThreadInv, PidInv, ClaimInv, Claiming, Settled, InTable, Working
  <2> QED
    BY <1>5, <1>6, <1>7, <1>10, <1>11, <2>1, <2>2, <2>3
<1>22. CASE End(r)
  <2>1. rdr[r].at = "reading" /\ rdr'[r].at = "idle" /\ rdr'[r].slot = rdr[r].slot
    BY <1>0, <1>22 DEF End, RAt, RdrType
  <2>2. UNCHANGED <<lockf, mutex, pidlock, env>>
    BY <1>22 DEF End
  <2>3. rdr[r].slot \in Slots
    BY <1>0, <1>9, <2>1, LockFileAssumption DEF ThreadInv
  <2>4. /\ slot'[rdr[r].slot].pid = slot[rdr[r].slot].pid
        /\ \A i \in Slots \ {rdr[r].slot} : slot'[i] = slot[i]
    BY <1>0, <1>22, <2>3 DEF End, SlotType
  <2>5. ThreadInv(r)' /\ PidInv(r)' /\ ClaimInv(r)'
    BY <1>0, <1>1, <1>9, <2>1, <2>2, <2>4 DEF ThreadInv, PidInv, ClaimInv, Claiming, Settled, InTable, Working
  <2> QED
    BY <1>5, <1>6, <1>7, <1>10, <1>12, <2>1, <2>2, <2>4, <2>5
<1>23. CASE Release(r)
  <2>1. rdr[r].at = "idle" /\ rdr'[r].at = "idle" /\ rdr'[r].slot = 0
    BY <1>0, <1>23 DEF Release, RAt, RdrType
  <2>2. UNCHANGED <<lockf, mutex, pidlock, env>>
    BY <1>23 DEF Release
  <2>4. \A i \in Slots \ {rdr[r].slot} : slot'[i] = slot[i]
    BY <1>0, <1>23 DEF Release
  <2>5. ThreadInv(r)' /\ PidInv(r)' /\ ClaimInv(r)'
    BY <1>1, <1>9, <2>1, <2>2 DEF ThreadInv, PidInv, ClaimInv, Claiming, Settled, InTable, Working
  <2> QED
    BY <1>5, <1>6, <1>7, <1>10, <1>12, <2>1, <2>2, <2>4, <2>5
<1> QED
  BY <1>13, <1>14, <1>15, <1>16, <1>17, <1>18, <1>19, <1>20, <1>21, <1>22, <1>23 DEF Read

\* The steps of writers and checks: a slot whose thread holds it is not cleared.
LEMMA WorkStep ==
  ASSUME TypeOK, TableInv, NEW p \in Pids, Write(p) \/ CheckReaders(p)
  PROVE  TableInv'
<1>0. Worked(p)
  BY WorkAt
<1>1. /\ UNCHANGED <<pidlock, rdr>> /\ \A q \in Pids : env'[q].live = env[q].live
      /\ \A q \in Pids \ {p} : main'[q].at = main[q].at
      /\ main[p].at \in Working /\ main'[p].at \in Working
  BY <1>0 DEF Worked, Others
<1>2. \A r \in Readers : ThreadInv(r)' /\ PidInv(r)'
  <2> SUFFICES ASSUME NEW r \in Readers PROVE ThreadInv(r)' /\ PidInv(r)'
    OBVIOUS
  <2>1. ThreadInv(r) /\ PidInv(r) /\ r[1] \in Pids
    BY ReaderFacts DEF TableInv
  <2> QED
    BY <1>1, <2>1 DEF ThreadInv, PidInv, InTable, Working
<1>3. \A q \in Pids : LiveInv(q)'
  BY <1>1 DEF TableInv, LiveInv, Working
<1>4. DistinctInv'
  BY <1>1 DEF TableInv, DistinctInv
<1>5. lockf'.nreaders = lockf.nreaders
  <2>1. ASSUME NEW x \in Nat, lockf' = [lockf EXCEPT !.txnid = x] PROVE lockf'.nreaders = lockf.nreaders
    BY <2>1 DEF TypeOK, LockfType
  <2>2. lockf' = lockf \/ \E x \in Nat : lockf' = [lockf EXCEPT !.txnid = x]
    <3>1. main[p].txnid \in Nat
      BY DEF TypeOK, MainType
    <3> QED
      BY <3>1, PickMetaType DEF Write, CheckReaders, LockWriter, RecoverTxnid, Consistent, BeginWrite, Scan, ScanSlot,
         WriteMeta, Publish, Abort, Check, CheckSlot, CheckPid, CheckLock, Clear, CheckEnd
  <2> QED
    BY <2>1, <2>2
<1>6. ASSUME NEW r \in Readers,
             rdr[r].slot # 0 => \/ slot'[rdr[r].slot] = slot[rdr[r].slot]
                                \/ ~Claiming(r) /\ slot[rdr[r].slot].pid \notin pidlock
      PROVE  ClaimInv(r)'
  <2>1. ClaimInv(r) /\ PidInv(r) /\ ThreadInv(r)
    BY DEF TableInv
  <2> QED
    BY <1>1, <1>5, <1>6, <2>1 DEF ClaimInv, PidInv, ThreadInv, Claiming, Settled
<1>7. CASE ~CheckLock(p) /\ ~Clear(p)
  <2>1. slot' = slot /\ mutex'["r"] = mutex["r"]
    <3>1. mutex \in [{"r", "w"} -> MutexType]
      BY DEF TypeOK
    <3> QED
      BY <1>7, <3>1 DEF Write, CheckReaders, LockWriter, Consistent, BeginWrite, Scan, ScanSlot, WriteMeta, Publish,
         Abort, EndWrite, Check, CheckSlot, CheckPid, CheckEnd, Lock, Unlock
  <2>2. main'[p].at # "clear"
    BY <1>0, <1>7 DEF Worked
  <2>3. OwnerInv'
    BY <1>1, <2>1, <2>2 DEF TableInv, OwnerInv
  <2> QED
    BY <1>2, <1>3, <1>4, <1>6, <2>1, <2>3 DEF TableInv
<1>8. CASE CheckLock(p)
  <2>1. mutex["r"].owner = NoOne
    BY <1>8 DEF CheckLock, Lock, OwnerDead, Free
  <2>2. \A r \in Readers : rdr[r].at \notin {"choose", "count", "setpid"}
    BY <2>1, ReaderFacts DEF TableInv, OwnerInv
  <2>3. \A q \in Pids : main[q].at # "clear"
    BY <2>1, ReaderFacts DEF TableInv, OwnerInv, NoOne
  <2>4. OwnerInv'
    <3>1. main'[p].at = "clear" => mutex'["r"].owner = <<p>>
      <4>1. mutex \in [{"r", "w"} -> MutexType] /\ main \in [Pids -> MainType]
        BY DEF TypeOK
      <4>2. CASE Lock("r", <<p>>)
        BY <4>1, <4>2 DEF Lock, MutexType
      <4>3. CASE main' = [main EXCEPT ![p].at = "check", ![p].n = 0, ![p].pid = NoPid]
        BY <4>1, <4>3 DEF MainType
      <4> QED
        BY <1>8, <4>2, <4>3 DEF CheckLock
    <3> QED
      BY <1>1, <2>2, <2>3, <3>1 DEF OwnerInv
  <2>5. ASSUME NEW r \in Readers PROVE ClaimInv(r)'
    <3>1. ClaimInv(r) /\ PidInv(r) /\ ThreadInv(r)
      BY DEF TableInv
    <3>2. rdr[r].slot # 0 => rdr[r].slot \in Slots
      BY LockFileAssumption DEF TypeOK, RdrType
    <3>3. rdr[r].slot # 0 => Alive(slot[rdr[r].slot].pid)
      BY <2>2, <3>1 DEF ClaimInv, Settled, Claiming, PidInv, Alive
    <3>4. slot' = slot \/ slot' = SlotsChecked(p)
      BY <1>8 DEF CheckLock
    <3>5. rdr[r].slot # 0 => slot'[rdr[r].slot] = slot[rdr[r].slot]
      BY <3>2, <3>3, <3>4 DEF SlotsChecked
    <3> QED
      BY <1>6, <3>5
  <2> QED
    BY <1>2, <1>3, <1>4, <2>4, <2>5 DEF TableInv
<1>9. CASE Clear(p)
  <2>1. mutex["r"].owner = <<p>>
    BY <1>9 DEF Clear, At, TableInv, OwnerInv
  <2>2. \A r \in Readers : rdr[r].at \notin {"choose", "count", "setpid"}
    BY <2>1, ReaderFacts DEF TableInv, OwnerInv
  <2>3. \A q \in Pids \ {p} : main[q].at # "clear"
    BY <2>1 DEF TableInv, OwnerInv
  <2>4. OwnerInv'
    <3>1. main'[p].at # "clear"
      BY <1>9 DEF Clear, TypeOK, MainType
    <3> QED
      BY <1>1, <2>2, <2>3, <3>1 DEF OwnerInv
  <2>5. ASSUME NEW r \in Readers PROVE ClaimInv(r)'
    <3>1. ClaimInv(r) /\ PidInv(r) /\ ThreadInv(r)
      BY DEF TableInv
    <3>2. rdr[r].slot # 0 => rdr[r].slot \in Slots
      BY LockFileAssumption DEF TypeOK, RdrType
    <3>3. rdr[r].slot # 0 => Alive(slot[rdr[r].slot].pid)
      BY <2>2, <3>1 DEF ClaimInv, Settled, Claiming, PidInv, Alive
    <3>4. rdr[r].slot # 0 => slot'[rdr[r].slot] = slot[rdr[r].slot]
      BY <1>9, <3>2, <3>3 DEF Clear, Recheck, StaleSlots
    <3> QED
      BY <1>6, <3>4
  <2> QED
    BY <1>2, <1>3, <1>4, <2>4, <2>5 DEF TableInv
<1> QED
  BY <1>7, <1>8, <1>9

\* Opening, closing and dying.
LEMMA OpenOrCloseStep ==
  ASSUME TypeOK, FlockInv, TableInv, NEW p \in Pids, OpenOrClose(p)
  PROVE  TableInv'
<1>0. Moved(p)
  BY OpenOrCloseAt
<1>1. /\ \A q \in Pids \ {p} : main'[q].at = main[q].at
      /\ main'[p].at # "clear"
  BY <1>0 DEF Moved, Others, FlockMove
<1>2. \A r \in Readers : r[1] \in Pids
  BY ReaderFacts
<1>3. CASE ExclLock(p) \/ ShareLock(p) \/ Attach(p) \/ Open2(p) \/ Share(p) \/ Close(p)
  <2>1. /\ UNCHANGED <<slot, mutex, pidlock, env, rdr>> /\ lockf'.nreaders = lockf.nreaders
    BY <1>3 DEF ExclLock, ShareLock, Attach, Open2, Share, ShareTxnid, Close, TypeOK, LockfType
  <2>2. main[p].at # "down"
    BY <1>3 DEF ExclLock, ShareLock, Attach, Open2, Share, Close, At
  <2>3. main[p].at = "up" => Close(p) /\ main'[p].at = "closing"
    BY <1>3, GotoAt DEF ExclLock, ShareLock, Attach, Open2, Share, Close, At
  <2>4. main[p].at # "closing" /\ main[p].at \notin Working \ {"up"}
    BY <1>3 DEF ExclLock, ShareLock, Attach, Open2, Share, Close, At, Working
  <2>5. ASSUME NEW r \in Readers PROVE ThreadInv(r)' /\ PidInv(r)' /\ ClaimInv(r)'
    <3>1. ThreadInv(r) /\ PidInv(r) /\ ClaimInv(r)
      BY DEF TableInv
    <3>0. rdr'[r] = rdr[r]
      BY <2>1
    <3>2. PidInv(r)' /\ ClaimInv(r)'
      BY <2>1, <3>1 DEF PidInv, ClaimInv, Claiming, Settled
    <3>3. CASE r[1] # p
      BY <1>1, <1>2, <3>0, <3>1, <3>2, <3>3 DEF ThreadInv, InTable
    <3>4. CASE r[1] = p /\ main[p].at = "up"
      <4>1. rdr[r].at = "idle"
        BY <2>3, <3>4 DEF Close, ReadersOf
      <4> QED
        BY <2>3, <3>0, <3>1, <3>2, <3>4, <4>1 DEF ThreadInv, InTable
    <3>5. CASE r[1] = p /\ main[p].at # "up"
      <4>1. rdr[r] = NewRdr
        BY <2>4, <3>1, <3>5 DEF ThreadInv, InTable
      <4> QED
        BY <3>0, <3>2, <4>1 DEF ThreadInv, NewRdr
    <3> QED
      BY <3>2, <3>3, <3>4, <3>5
  <2>6. \A q \in Pids : LiveInv(q)'
    BY <1>1, <2>1, <2>2 DEF TableInv, LiveInv
  <2>7. OwnerInv' /\ DistinctInv'
    BY <1>1, <2>1 DEF TableInv, OwnerInv, DistinctInv
  <2> QED
    BY <2>5, <2>6, <2>7 DEF TableInv
<1>4. CASE Start(p)
  <2>1. UNCHANGED <<slot, mutex, pidlock, rdr, lockf>> /\ main[p].at = "down"
    BY <1>4 DEF Start, At
  <2>2. ASSUME NEW r \in Readers PROVE ThreadInv(r)' /\ PidInv(r)' /\ ClaimInv(r)'
    <3>1. ThreadInv(r) /\ PidInv(r) /\ ClaimInv(r)
      BY DEF TableInv
    <3>0. rdr'[r] = rdr[r]
      BY <2>1
    <3>2. PidInv(r)' /\ ClaimInv(r)'
      BY <2>1, <3>1 DEF PidInv, ClaimInv, Claiming, Settled
    <3>3. CASE r[1] # p
      BY <1>1, <1>2, <3>0, <3>1, <3>2, <3>3 DEF ThreadInv, InTable
    <3>4. CASE r[1] = p
      <4>1. rdr[r] = NewRdr
        BY <2>1, <3>1, <3>4 DEF ThreadInv, InTable, Working
      <4> QED
        BY <3>0, <3>2, <4>1 DEF ThreadInv, NewRdr
    <3> QED
      BY <3>2, <3>3, <3>4
  <2>3. ASSUME NEW q \in Pids PROVE LiveInv(q)'
    <3>1. LiveInv(q)
      BY DEF TableInv
    <3>2. q # p => env'[q] = env[q]
      BY <1>4 DEF Start, TypeOK
    <3>3. ~env'[p].live
      BY <1>4 DEF Start, TypeOK, NewEnv
    <3> QED
      BY <1>1, <2>1, <3>1, <3>2, <3>3 DEF LiveInv
  <2>4. OwnerInv' /\ DistinctInv'
    BY <1>1, <2>1 DEF TableInv, OwnerInv, DistinctInv
  <2> QED
    BY <2>2, <2>3, <2>4 DEF TableInv
<1>5. CASE InitTable(p)
  <2>1. main[p].at = "init" /\ UNCHANGED <<slot, pidlock, env, rdr>>
    BY <1>5 DEF InitTable, At
  <2>2. \A q \in Pids : ~InTable(q) /\ main[q].at # "clear"
    BY <2>1 DEF FlockInv, InTable, Working
  <2>3. \A r \in Readers : rdr[r] = NewRdr
    BY <1>2, <2>2 DEF TableInv, ThreadInv
  <2>4. \A r \in Readers : ThreadInv(r)' /\ PidInv(r)' /\ ClaimInv(r)'
    BY <2>1, <2>3 DEF ThreadInv, PidInv, ClaimInv, Claiming, Settled, NewRdr
  <2>5. OwnerInv' /\ DistinctInv'
    BY <1>1, <2>1, <2>2, <2>3 DEF OwnerInv, DistinctInv, NewRdr
  <2>6. \A q \in Pids : LiveInv(q)'
    BY <1>1, <2>1 DEF TableInv, LiveInv
  <2> QED
    BY <2>4, <2>5, <2>6 DEF TableInv
<1>6. CASE Close0(p) \/ Kill(p)
  <2>1. /\ lockf' = lockf /\ env' = env
        /\ \A r \in Readers : r[1] # p => rdr'[r] = rdr[r]
        /\ \A q \in Pids \ {p} : q \in pidlock' <=> q \in pidlock
    BY <1>6 DEF Close0, Kill, NoReaders, Unlocked, TypeOK
  <2>2. \A r \in Readers : r[1] = p => rdr'[r] = NewRdr
    <3>1. CASE NoReaders(p)
      BY <3>1 DEF NoReaders
    <3>2. CASE At(p, "closed") /\ rdr' = rdr
      BY <3>2 DEF At, TableInv, ThreadInv, InTable, Working
    <3> QED
      BY <1>6, <3>1, <3>2 DEF Close0, Kill
  <2>3. ASSUME NEW r \in Readers, r[1] # p, rdr[r].slot # 0 PROVE slot'[rdr[r].slot] = slot[rdr[r].slot]
    <3>1. rdr[r].slot \in Slots
      BY <2>3, LockFileAssumption DEF TypeOK, RdrType
    <3>2. ClaimInv(r)
      BY DEF TableInv
    <3>3. slot[rdr[r].slot].pid # p
      BY <2>3, <3>2, ReaderFacts, LockFileAssumption DEF ClaimInv, Settled
    <3>4. slot' = slot \/ slot' = CloseSlots(p)
      BY <1>6 DEF Close0, Kill
    <3> QED
      BY <3>1, <3>3, <3>4 DEF CloseSlots
  <2>4. ASSUME NEW r \in Readers PROVE ThreadInv(r)' /\ PidInv(r)' /\ ClaimInv(r)'
    <3>1. CASE r[1] = p
      <4>1. rdr'[r] = NewRdr
        BY <2>2, <3>1
      <4> QED
        BY <4>1 DEF ThreadInv, PidInv, ClaimInv, Claiming, Settled, NewRdr
    <3>2. CASE r[1] # p
      <4>1. ThreadInv(r) /\ PidInv(r) /\ ClaimInv(r)
        BY DEF TableInv
      <4>2. ThreadInv(r)' /\ PidInv(r)'
        BY <1>1, <1>2, <2>1, <3>2, <4>1 DEF ThreadInv, PidInv, InTable
      <4>3. ClaimInv(r)'
        BY <2>1, <2>3, <3>2, <4>1 DEF ClaimInv, ThreadInv, Claiming, Settled
      <4> QED
        BY <4>2, <4>3
    <3> QED
      BY <3>1, <3>2
  <2>5. ASSUME NEW q \in Pids PROVE LiveInv(q)'
    <3>1. LiveInv(q)
      BY DEF TableInv
    <3>2. CASE q # p
      BY <1>1, <2>1, <3>1, <3>2 DEF LiveInv
    <3>3. CASE q = p
      <4>1. \/ main'[p].at = "down"
            \/ main[p].at # "down" /\ pidlock' = pidlock
        BY <1>6, NewMainAt DEF Close0, Kill, At
      <4> QED
        BY <2>1, <3>1, <3>3, <4>1 DEF LiveInv
    <3> QED
      BY <3>2, <3>3
  <2>6. DistinctInv'
    <3>1. ASSUME NEW r \in Readers, NEW s \in Readers, r # s, rdr'[r].slot # 0 PROVE rdr'[r].slot # rdr'[s].slot
      <4>1. rdr'[r] = rdr[r] /\ (rdr'[s] = rdr[s] \/ rdr'[s].slot = 0)
        BY <2>1, <2>2, <3>1 DEF NewRdr
      <4> QED
        BY <3>1, <4>1 DEF TableInv, DistinctInv
    <3> QED
      BY <3>1 DEF DistinctInv
  <2>7. OwnerInv'
    <3>1. \A r \in Readers : rdr'[r].at \in {"choose", "count", "setpid"} =>
            r[1] # p /\ mutex["r"].owner = r
      BY <2>1, <2>2 DEF TableInv, OwnerInv, NewRdr
    <3>2. \A q \in Pids : main'[q].at = "clear" => q # p /\ mutex["r"].owner = <<q>>
      BY <1>1 DEF TableInv, OwnerInv
    <3>3. CASE mutex' = mutex
      BY <3>1, <3>2, <3>3 DEF OwnerInv
    <3>4. CASE Kill(p)
      <4>1. mutex["r"].owner \notin {<<p>>} \cup ReadersOf(p) => mutex'["r"] = mutex["r"]
        BY <3>4 DEF Kill
      <4>2. \A r \in Readers : r[1] # p => r \notin {<<p>>} \cup ReadersOf(p)
        BY ReaderFacts DEF ReadersOf
      <4>3. \A q \in Pids : q # p => <<q>> \notin {<<p>>} \cup ReadersOf(p)
        BY ReaderFacts DEF ReadersOf
      <4> QED
        BY <3>1, <3>2, <4>1, <4>2, <4>3 DEF OwnerInv
    <3> QED
      BY <1>6, <3>3, <3>4 DEF Close0
  <2> QED
    BY <2>4, <2>5, <2>6, <2>7 DEF TableInv
<1> QED
  BY <1>3, <1>4, <1>5, <1>6 DEF OpenOrClose

LEMMA TableStep == ASSUME TypeOK, FlockInv, TableInv, [Next]_vars PROVE TableInv'
<1>1. CASE UNCHANGED vars
  <2>1. \A r \in Readers : ThreadInv(r)' /\ PidInv(r)' /\ ClaimInv(r)'
    BY <1>1 DEF vars, TableInv, ThreadInv, PidInv, ClaimInv, Claiming, Settled, InTable
  <2>2. (\A p \in Pids : LiveInv(p)') /\ OwnerInv' /\ DistinctInv'
    BY <1>1 DEF vars, TableInv, LiveInv, OwnerInv, DistinctInv
  <2> QED
    BY <2>1, <2>2 DEF TableInv
<1> QED
  BY <1>1, ReadStep, WorkStep, OpenOrCloseStep DEF Next

-----------------------------------------------------------------------------
(* The theorems.                                                           *)

LEMMA InitInv == Init => LockFileInv
<1> SUFFICES ASSUME Init PROVE LockFileInv
  OBVIOUS
<1>1. TypeOK
  BY InitType
<1>2. FlockInv
  BY DEF Init, FlockInv, NewMain, Working
<1>3. \A r \in Readers : rdr[r] = NewRdr
  BY DEF Init
<1>4. \A p \in Pids : main[p].at = "down"
  BY DEF Init, NewMain
<1>5. TableInv
  BY <1>3, <1>4 DEF TableInv, ThreadInv, PidInv, ClaimInv, LiveInv, OwnerInv, DistinctInv, Claiming, Settled, NewRdr
<1> QED
  BY <1>1, <1>2, <1>5 DEF LockFileInv

\* The invariant holds for every number of processes, threads and slots,
\* whatever fails (mdb_env_setup_locks, mdb_txn_renew0, mdb_reader_check0).
THEOREM Invariant == Spec => []LockFileInv
<1>1. LockFileInv /\ [Next]_vars => LockFileInv'
  BY TypeStep, FlockStep, TableStep DEF LockFileInv
<1> QED
  BY <1>1, InitInv, PTL DEF Spec

\* While a process initialises the lock file no other one has mapped it
\* (mdb_env_excl_lock, mdb_env_share_locks).
THEOREM SpecInitAlone == Spec => []InitAlone
<1>1. LockFileInv => InitAlone
  BY DEF LockFileInv, FlockInv, InitAlone, Mapped
<1> QED
  BY <1>1, Invariant, PTL

\* A thread keeps the slot it has claimed until it gives it up, whoever checks,
\* closes, dies or comes back with a pid that was used before.
THEOREM SpecSlotHeld == Spec => []SlotHeld
<1>1. LockFileInv => SlotHeld
  BY DEF LockFileInv, TableInv, ClaimInv, DistinctInv, Claiming, Settled, SlotHeld
<1> QED
  BY <1>1, Invariant, PTL

-----------------------------------------------------------------------------
(***************************************************************************)
(* The writers and the checks: a writer's id                               *)
(* follows the newest meta page's, a scan never passes over a reader, and  *)
(* a check finds every slot of a dead process.                             *)
(***************************************************************************)
Writing == {"begun", "scan", "scanned", "written"}
Checking == {"check", "pidcheck", "checklock", "clear"}

\* Who has the writers' mutex.
Recovers(p) == \/ main[p].at = "consistent"
               \/ main[p].at \in Checking /\ main[p].next = "consistent"
Holds(p) == main[p].at \in {"locked"} \cup Writing \/ Recovers(p)

\* A writer's id follows mti_txnid, which is never above the meta pages.
WriterInv ==
  /\ \A p \in Pids : Holds(p) => mutex["w"].owner = <<p>>
  /\ \A p \in Pids : main[p].at \in Writing => main[p].txnid = lockf.txnid + 1
  /\ \A p \in Pids : main[p].at = "written" => metas[main[p].txnid % 2] = main[p].txnid
  /\ lockf.txnid <= PickMeta

\* mti_txnid is behind the meta pages only when a writer is about to set it, or
\* has died.
TxnidOK == \/ mutex["w"].dead
           \/ lockf.txnid = PickMeta
           \/ \E p \in Pids : main[p].at = "written"

\* What holds besides when no process fails while it initialises the lock file.
ReadyInv ==
  /\ \A p \in Pids : flock[p] = "excl" => main[p].at \in {"init", "open2", "publish", "downgrade"}
  /\ (\A p \in Pids : flock[p] # "excl")
       /\ (\E q \in Pids : flock[q] = "shared" \/ main[q].at = "wait") => TxnidOK
  /\ \A p \in Pids : main[p].at = "downgrade" => TxnidOK
  /\ \A p \in Pids : main[p].at \in {"locked"} \cup Writing => ~mutex["w"].dead
  /\ \A p \in Pids : Holds(p) /\ main[p].at # "written" => lockf.txnid = PickMeta
  /\ \A p \in Pids : main[p].at = "written" => PickMeta = main[p].txnid

\* A scan has looked at the slots above i, and at slot i once it has seen its
\* pid; who verifies its id later has a newer one.
ScanInv ==
  /\ \A p \in Pids : main[p].at \notin Working \cup {"closing", "closed", "down"} => env[p].oldest = 0
  /\ \A p \in Pids : main[p].at \in Working => env[p].oldest <= lockf.txnid
  /\ \A p \in Pids : main[p].at \in {"scan", "scanned"} => main[p].old <= lockf.txnid
  /\ \A p \in Pids, r \in Readers :
       main[p].at \in {"scan", "scanned"} /\ rdr[r].at = "reading" =>
         rdr[r].slot <= main[p].i \/ main[p].old <= rdr[r].txnid

\* A check at slot i, or beyond, has not come to a slot of a process that was dead
\* when it began: not seen its pid, or looks at it now.
ToFind(p) ==
  main[p].at \in Checking =>
    \A q \in main[p].stale, j \in Slots : j <= lockf.nreaders /\ slot[j].pid = q =>
      /\ main[p].i <= j /\ j <= main[p].n
      /\ main[p].at = "check" => q \notin main[p].seen
      /\ main[p].at # "check" => q = main[p].pid \/ (q \notin main[p].seen /\ j # main[p].i)

FindInv ==
  /\ \A q \in Pids : main[q].at = "down" => q \notin pidlock
  /\ \A r \in Readers : rdr[r].at = "count" => rdr[r].slot <= lockf.nreaders + 1
  /\ \A p \in Pids : \A q \in main[p].stale : q # p /\ main[q].at = "down"
  /\ \A p \in Pids : ToFind(p)

-----------------------------------------------------------------------------
(* What the steps do to the main threads and the writers' mutex.           *)

\* Other processes' main threads stay where they are.
Same(q) == /\ main'[q].at = main[q].at /\ main'[q].next = main[q].next
           /\ main'[q].txnid = main[q].txnid /\ main'[q].old = main[q].old
           /\ main'[q].i = main[q].i /\ main'[q].n = main[q].n
           /\ main'[q].pid = main[q].pid /\ main'[q].seen = main[q].seen

LEMMA OthersSame ==
  ASSUME TypeOK, NEW p \in Pids, OpenOrClose(p) \/ Write(p) \/ CheckReaders(p)
  PROVE  /\ \A q \in Pids \ {p} : Same(q)
         /\ ~Start(p) => \A q \in Pids \ {p} : main'[q] = main[q]
<1>1. CASE Start(p)
  <2>1. ASSUME NEW q \in Pids \ {p} PROVE Same(q)
    <3>1. main[q] \in MainType /\ main'[q] = [main[q] EXCEPT !.stale = @ \ {p}]
      BY <1>1 DEF Start, TypeOK
    <3> QED
      BY <3>1 DEF MainType, Same
  <2> QED
    BY <1>1, <2>1
<1>2. CASE ~Start(p)
  <2>1. \A q \in Pids \ {p} : main'[q] = main[q]
    <3>1. main \in [Pids -> MainType]
      BY DEF TypeOK
    <3>2. CASE OpenOrClose(p)
      BY <1>2, <3>1, <3>2 DEF OpenOrClose, ExclLock, ShareLock, InitTable, Attach, Open2, Share, ShareTxnid,
         Close, Close0, Kill, Goto
    <3>3. CASE Write(p)
      BY <3>1, <3>3 DEF Write, LockWriter, Consistent, BeginWrite, Scan, ScanSlot, ScanTxnid, WriteMeta,
         Publish, Abort, EndWrite, Goto
    <3>4. CASE CheckReaders(p)
      BY <3>1, <3>4 DEF CheckReaders, Check, CheckSlot, CheckPid, CheckLock, Clear, CheckEnd, Goto
    <3> QED
      BY <3>2, <3>3, <3>4
  <2> QED
    BY <2>1 DEF Same
<1> QED
  BY <1>1, <1>2

LEMMA ReadSame ==
  ASSUME TypeOK, NEW r \in Readers, Read(r)
  PROVE  /\ UNCHANGED <<main, metas, flock>> /\ mutex'["w"] = mutex["w"]
         /\ lockf'.txnid = lockf.txnid /\ \A p \in Pids : env'[p].oldest = env[p].oldest
<1>0. lockf \in LockfType /\ env \in [Pids -> EnvType] /\ mutex \in [{"r", "w"} -> MutexType]
  BY DEF TypeOK
<1>1. CASE Begin(r) \/ Load(r) \/ Store(r) \/ Verify(r) \/ End(r) \/ Release(r)
  BY <1>1 DEF Begin, Load, Store, Verify, End, Release
<1>2. CASE LockTable(r) \/ Choose(r) \/ SetPid(r)
  <2>1. \/ mutex' = mutex \/ Lock("r", r) \/ Unlock("r")
        \/ mutex' = [mutex EXCEPT !["r"] = [owner |-> r, dead |-> FALSE]]
    BY <1>2 DEF LockTable, Choose, SetPid
  <2> QED
    BY <1>0, <1>2, <2>1 DEF LockTable, Choose, SetPid, Lock, Unlock
<1>3. CASE Pidset(r)
  <2>1. \A p \in Pids : env'[p].oldest = env[p].oldest
    BY <1>0, <1>3 DEF Pidset, EnvType
  <2> QED
    BY <1>3, <2>1 DEF Pidset
<1>4. CASE Count(r)
  <2> DEFINE n == IF rdr[r].slot > lockf.nreaders THEN rdr[r].slot ELSE lockf.nreaders
  <2>1. /\ lockf' = [lockf EXCEPT !.nreaders = n] /\ env' = [env EXCEPT ![r[1]].close = n]
        /\ UNCHANGED <<mutex, main, metas, flock>>
    BY <1>4 DEF Count
  <2> HIDE DEF n
  <2>2. lockf'.txnid = lockf.txnid
    BY <1>0, <2>1 DEF LockfType
  <2>3. \A p \in Pids : env'[p].oldest = env[p].oldest
    BY <1>0, <2>1 DEF EnvType
  <2> QED
    BY <2>1, <2>2, <2>3
<1> QED
  BY <1>1, <1>2, <1>3, <1>4 DEF Read

\* A step of a writer or a check: from a to b, with the writers' mutex w.
WriterMove(p, a, b, w, v) ==
  \/ /\ a = "up" /\ b = "locked" /\ w.owner = NoOne /\ ~w.dead /\ v.owner = <<p>> /\ ~v.dead
     /\ lockf' = lockf /\ metas' = metas
  \/ /\ a = "up" /\ b = "check" /\ main'[p].next = "consistent" /\ w.owner = NoOne
     /\ v.owner = <<p>> /\ lockf' = [lockf EXCEPT !.txnid = PickMeta] /\ metas' = metas
  \/ /\ a = "consistent" /\ b = "locked" /\ v.owner = w.owner /\ ~v.dead
     /\ lockf' = lockf /\ metas' = metas
  \/ /\ a = "locked" /\ b = "begun" /\ main'[p].txnid = lockf.txnid + 1
     /\ v = w /\ lockf' = lockf /\ metas' = metas
  \/ /\ a \in {"begun", "scan", "scanned"} /\ b \in {"begun", "scan", "scanned"}
     /\ main'[p].txnid = main[p].txnid /\ v = w /\ lockf' = lockf /\ metas' = metas
  \/ /\ a = "begun" /\ b = "written" /\ main'[p].txnid = main[p].txnid
     /\ metas' = [metas EXCEPT ![main[p].txnid % 2] = main[p].txnid] /\ v = w /\ lockf' = lockf
  \/ /\ a = "written" /\ b = "up" /\ lockf' = [lockf EXCEPT !.txnid = main[p].txnid]
     /\ v.dead = w.dead /\ metas' = metas
  \/ /\ a = "begun" /\ b = "up" /\ v.dead = w.dead /\ lockf' = lockf /\ metas' = metas
  \/ /\ a = "up" /\ b = "check" /\ main'[p].next = "up" /\ v = w /\ lockf' = lockf /\ metas' = metas
  \/ /\ a \in Checking /\ b \in Checking /\ main'[p].next = main[p].next
     /\ v = w /\ lockf' = lockf /\ metas' = metas
  \/ /\ a = "check" /\ b = main[p].next /\ v = w /\ lockf' = lockf /\ metas' = metas

LEMMA WriterAt ==
  ASSUME TypeOK, NEW p \in Pids, Write(p) \/ CheckReaders(p)
  PROVE  WriterMove(p, main[p].at, main'[p].at, mutex["w"], mutex'["w"]) /\ flock' = flock
<1>0. /\ main[p] \in MainType /\ main \in [Pids -> MainType]
      /\ mutex \in [{"r", "w"} -> MutexType]
  BY DEF TypeOK
<1>1. CASE LockWriter(p)
  <2>1. CASE Lock("w", <<p>>) /\ Goto(p, "locked") /\ lockf' = lockf
    <3>1. main'[p].at = "locked"
      BY <2>1, GotoAt
    <3>2. /\ mutex["w"].owner = NoOne /\ ~mutex["w"].dead
          /\ mutex'["w"].owner = <<p>> /\ mutex'["w"].dead = mutex["w"].dead
      BY <1>0, <2>1 DEF Lock, Free, MutexType
    <3> QED
      BY <1>1, <2>1, <3>1, <3>2 DEF LockWriter, At, WriterMove
  <2>2. CASE /\ OwnerDead("w") /\ RecoverTxnid
             /\ mutex' = [mutex EXCEPT !["w"].owner = <<p>>]
             /\ main' = [main EXCEPT ![p] = CheckFrom(p, "consistent")]
    <3>1. main'[p].at = "check" /\ main'[p].next = "consistent"
      BY <1>0, <2>2 DEF CheckFrom, NewMain
    <3>2. mutex["w"].owner = NoOne /\ mutex'["w"].owner = <<p>>
      BY <1>0, <2>2 DEF OwnerDead, Free, MutexType
    <3> QED
      BY <1>1, <2>2, <3>1, <3>2 DEF LockWriter, At, WriterMove, RecoverTxnid
  <2> QED
    BY <1>1, <2>1, <2>2 DEF LockWriter
<1>2. CASE Consistent(p)
  <2>1. main'[p].at = "locked"
    BY <1>2, GotoAt DEF Consistent
  <2>2. mutex'["w"].owner = mutex["w"].owner /\ ~mutex'["w"].dead
    BY <1>0, <1>2 DEF Consistent, MutexType
  <2> QED
    BY <1>2, <2>1, <2>2 DEF Consistent, At, WriterMove
<1>3. CASE BeginWrite(p)
  <2>1. main'[p].at = "begun" /\ main'[p].txnid = lockf.txnid + 1
    BY <1>0, <1>3 DEF BeginWrite, MainType
  <2> QED
    BY <1>3, <2>1 DEF BeginWrite, At, WriterMove
<1>4. CASE Scan(p)
  <2>1. main'[p].at = "scan" /\ main'[p].txnid = main[p].txnid
    BY <1>0, <1>4 DEF Scan, MainType
  <2> QED
    BY <1>4, <2>1 DEF Scan, At, WriterMove
<1>5. CASE ScanSlot(p)
  <2>1. main'[p].at \in {"scan", "scanned", "begun"} /\ main'[p].txnid = main[p].txnid
        /\ main[p].at \in {"scan", "scanned"}
    <3>1. CASE main' = [main EXCEPT ![p].i = @ - 1] /\ At(p, "scan")
      BY <1>0, <3>1 DEF MainType, At
    <3>2. CASE main' = [main EXCEPT ![p].at = "scanned"] /\ At(p, "scan")
      BY <1>0, <3>2 DEF MainType, At
    <3>3. CASE ScanTxnid(p) /\ At(p, "scanned")
      BY <1>0, <3>3 DEF ScanTxnid, MainType, At
    <3>4. CASE main' = [main EXCEPT ![p].at = "begun", ![p].old = 0] /\ At(p, "scan")
      BY <1>0, <3>4 DEF MainType, At
    <3> QED
      BY <1>5, <3>1, <3>2, <3>3, <3>4 DEF ScanSlot
  <2> QED
    BY <1>5, <2>1 DEF ScanSlot, WriterMove
<1>6. CASE WriteMeta(p)
  <2>1. main'[p].at = "written" /\ main'[p].txnid = main[p].txnid
    BY <1>0, <1>6 DEF WriteMeta, Goto, MainType
  <2> QED
    BY <1>6, <2>1 DEF WriteMeta, At, WriterMove
<1>7. CASE Publish(p) \/ Abort(p)
  <2>1. main'[p].at = "up"
    BY <1>0, <1>7 DEF Publish, Abort, EndWrite, MainType
  <2>2. mutex'["w"].dead = mutex["w"].dead
    BY <1>0, <1>7 DEF Publish, Abort, EndWrite, Unlock, MutexType
  <2> QED
    BY <1>7, <2>1, <2>2 DEF Publish, Abort, EndWrite, At, WriterMove
<1>8. CASE Check(p)
  <2>1. main'[p].at = "check" /\ main'[p].next = "up"
    BY <1>0, <1>8 DEF Check, CheckFrom, NewMain
  <2> QED
    BY <1>8, <2>1 DEF Check, At, WriterMove
<1>9. CASE CheckSlot(p) \/ CheckPid(p) \/ CheckLock(p) \/ Clear(p)
  <2>1. main[p].at \in Checking
    BY <1>9 DEF CheckSlot, CheckPid, CheckLock, Clear, At, Checking
  <2>2. main'[p].at \in Checking /\ main'[p].next = main[p].next
    <3>1. CASE main' = [main EXCEPT ![p].i = @ + 1]
      BY <1>0, <2>1, <3>1 DEF MainType
    <3>2. CASE LET q == slot[main[p].i].pid
               IN  main' = [main EXCEPT ![p].at = "pidcheck", ![p].pid = q, ![p].seen = @ \cup {q}]
      BY <1>0, <3>2 DEF MainType, Checking
    <3>3. CASE main' = [main EXCEPT ![p].at = "check", ![p].i = @ + 1, ![p].pid = NoPid]
      BY <1>0, <3>3 DEF MainType, Checking
    <3>4. CASE main' = [main EXCEPT ![p].at = "checklock"]
      BY <1>0, <3>4 DEF MainType, Checking
    <3>5. CASE Goto(p, "clear")
      BY <1>0, <3>5 DEF Goto, MainType, Checking
    <3>6. CASE main' = [main EXCEPT ![p].at = "check", ![p].n = 0, ![p].pid = NoPid]
      BY <1>0, <3>6 DEF MainType, Checking
    <3> QED
      BY <1>9, <3>1, <3>2, <3>3, <3>4, <3>5, <3>6 DEF CheckSlot, CheckPid, CheckLock, Clear
  <2>3. mutex'["w"] = mutex["w"]
    <3>1. \/ mutex' = mutex \/ Lock("r", <<p>>) \/ Unlock("r")
          \/ mutex' = [mutex EXCEPT !["r"].dead = FALSE]
      BY <1>9 DEF CheckSlot, CheckPid, CheckLock, Clear
    <3> QED
      BY <1>0, <3>1 DEF Lock, Unlock
  <2> QED
    BY <1>9, <2>1, <2>2, <2>3 DEF CheckSlot, CheckPid, CheckLock, Clear, WriterMove
<1>10. CASE CheckEnd(p)
  <2>1. main'[p].at = main[p].next
    BY <1>0, <1>10 DEF CheckEnd, NewMain
  <2> QED
    BY <1>10, <2>1 DEF CheckEnd, At, WriterMove
<1> QED
  BY <1>1, <1>2, <1>3, <1>4, <1>5, <1>6, <1>7, <1>8, <1>9, <1>10 DEF Write, CheckReaders

\* A step of opening, closing or dying.
OpenMove(p) ==
  \/ Kill(p) /\ lockf' = lockf
  \/ main[p].at = "init" /\ lockf' = [magic |-> TRUE, txnid |-> 0, nreaders |-> 0]
  \/ main[p].at = "publish" /\ lockf' = [lockf EXCEPT !.txnid = PickMeta] /\ mutex' = mutex
  \/ main[p].at \notin {"init", "publish"} /\ ~Kill(p) /\ lockf' = lockf /\ mutex' = mutex

LEMMA OpenAt ==
  ASSUME TypeOK, NEW p \in Pids, OpenOrClose(p)
  PROVE  OpenMove(p) /\ metas' = metas /\ main'[p].at \notin Working \ {"up"}
<1>1. Moved(p)
  BY OpenOrCloseAt
<1>2. main'[p].at \notin Working \ {"up"}
  BY <1>1 DEF Moved, FlockMove, Working
<1>3. OpenMove(p) /\ metas' = metas
  BY DEF OpenOrClose, Start, ExclLock, ShareLock, InitTable, Attach, Open2, Share, ShareTxnid, Close, Close0,
         Kill, At, OpenMove
<1> QED
  BY <1>2, <1>3

\* The mutexes of others survive the death of p.
LEMMA KillOthers ==
  ASSUME TypeOK, NEW p \in Pids, Kill(p), NEW q \in Pids \ {p}, mutex["w"].owner = <<q>>
  PROVE  mutex'["w"] = mutex["w"]
<1>1. <<q>> \notin {<<p>>} \cup ReadersOf(p)
  BY ReaderFacts DEF ReadersOf
<1> QED
  BY <1>1 DEF Kill

-----------------------------------------------------------------------------
(* A writer's id.                                                          *)

\* PickMeta, when the page of an id is written.
LEMMA NewestMeta ==
  ASSUME TypeOK, NEW t \in Nat, metas' = [metas EXCEPT ![t % 2] = t]
  PROVE  /\ metas'[t % 2] = t /\ PickMeta \in Nat /\ PickMeta' \in Nat
         /\ t <= PickMeta' /\ (PickMeta < t => PickMeta' = t)
<1>1. t % 2 \in {0, 1} /\ metas \in [0 .. 1 -> Nat] /\ 0 .. 1 = {0, 1}
  BY DEF TypeOK
<1>2. metas[0] \in Nat /\ metas[1] \in Nat
  BY <1>1
<1>3. CASE t % 2 = 0
  <2>1. metas'[0] = t /\ metas'[1] = metas[1]
    BY <1>1, <1>3
  <2> QED
    BY <1>2, <1>3, <2>1 DEF PickMeta
<1>4. CASE t % 2 = 1
  <2>1. metas'[1] = t /\ metas'[0] = metas[0]
    BY <1>1, <1>4
  <2> QED
    BY <1>2, <1>4, <2>1 DEF PickMeta
<1> QED
  BY <1>1, <1>3, <1>4

\* Where nobody is in an open environment nobody has the writers' mutex.
LEMMA HoldsWorking == \A p \in Pids : Holds(p) => main[p].at \in Working \ {"up"}
BY DEF Holds, Recovers, Writing, Checking, Working

LEMMA WriterOpenStep ==
  ASSUME TypeOK, FlockInv, WriterInv, NEW p \in Pids, OpenOrClose(p)
  PROVE  WriterInv'
<1>1. /\ OpenMove(p) /\ metas' = metas /\ main'[p].at \notin Working \ {"up"}
      /\ \A q \in Pids \ {p} : Same(q)
  BY OpenAt, OthersSame
<1>2. PickMeta' = PickMeta /\ PickMeta \in Nat /\ lockf.txnid <= PickMeta /\ lockf.txnid \in Nat
  BY <1>1, PickMetaType DEF PickMeta, WriterInv, TypeOK, LockfType
<1>3. ~Holds(p)' /\ \A q \in Pids \ {p} : Holds(q)' <=> Holds(q)
  <2>1. Holds(p)' => main'[p].at \in Working \ {"up"}
    BY DEF Holds, Recovers, Writing, Checking, Working
  <2> QED
    BY <1>1, <2>1 DEF Holds, Recovers, Same
<1>4. CASE main[p].at \in {"init", "publish"}
  <2>1. \A q \in Pids : ~Holds(q)'
    <3>1. \A q \in Pids \ {p} : main[q].at \notin Working
      BY <1>4 DEF FlockInv
    <3> QED
      BY <1>3, <3>1, HoldsWorking
  <2>2. lockf'.txnid = 0 \/ lockf'.txnid = PickMeta \/ lockf'.txnid = lockf.txnid
    BY <1>1 DEF OpenMove, TypeOK, LockfType
  <2>3. lockf'.txnid <= PickMeta'
    BY <1>2, <2>2
  <2> QED
    BY <2>1, <2>3 DEF WriterInv, Holds, Writing
<1>5. CASE main[p].at \notin {"init", "publish"}
  <2>1. lockf' = lockf
    BY <1>1, <1>5 DEF OpenMove
  <2>2. ASSUME NEW q \in Pids, Holds(q)' PROVE q # p /\ Holds(q) /\ mutex'["w"] = mutex["w"]
    <3>1. q # p /\ Holds(q) /\ mutex["w"].owner = <<q>>
      BY <1>3, <2>2 DEF WriterInv
    <3> QED
      BY <1>1, <1>5, <3>1, KillOthers DEF OpenMove
  <2>3. \A q \in Pids : main'[q].at \in Writing => Holds(q)'
    BY DEF Holds
  <2> QED
    <3>1. \A q \in Pids : Holds(q)' => mutex'["w"].owner = <<q>>
      BY <2>2 DEF WriterInv
    <3>2. \A q \in Pids : main'[q].at \in Writing => main'[q].txnid = lockf'.txnid + 1
      BY <1>1, <2>1, <2>2, <2>3 DEF WriterInv, Same
    <3>3. \A q \in Pids : main'[q].at = "written" => metas'[main'[q].txnid % 2] = main'[q].txnid
      BY <1>1, <2>2, <2>3 DEF WriterInv, Same, Writing
    <3>4. lockf'.txnid <= PickMeta'
      BY <1>2, <2>1
    <3> QED
      BY <3>1, <3>2, <3>3, <3>4 DEF WriterInv
<1> QED
  BY <1>4, <1>5

\* Nobody else can have the mutex that p has.
LEMMA OneWriter ==
  ASSUME WriterInv, NEW p \in Pids, Holds(p), NEW q \in Pids, Holds(q)
  PROVE  p = q
<1>1. <<p>> = <<q>>
  BY DEF WriterInv
<1> QED
  BY <1>1

LEMMA WriterWorkStep ==
  ASSUME TypeOK, WriterInv, NEW p \in Pids, Write(p) \/ CheckReaders(p)
  PROVE  WriterInv'
<1> DEFINE a == main[p].at
           b == main'[p].at
           w == mutex["w"]
           v == mutex'["w"]
<1>1. WriterMove(p, a, b, w, v) /\ \A q \in Pids \ {p} : Same(q)
  BY WriterAt, OthersSame
<1>2. /\ PickMeta \in Nat /\ lockf.txnid <= PickMeta /\ lockf.txnid \in Nat /\ main[p].txnid \in Nat
      /\ main[p].next \in {"up", "consistent"} /\ lockf \in LockfType
  <2>1. main[p] \in MainType /\ lockf \in LockfType
    BY DEF TypeOK
  <2> QED
    BY <2>1, PickMetaType DEF WriterInv, LockfType, MainType
<1>3. \A q \in Pids \ {p} : (Holds(q)' <=> Holds(q)) /\ (main'[q].at \in Writing => Holds(q))
  BY <1>1 DEF Holds, Recovers, Same
<1>4. ASSUME NEW q \in Pids \ {p}, Holds(q)
      PROVE  v = w /\ lockf' = lockf /\ metas' = metas
  <2>1. w.owner = <<q>> /\ <<q>> # NoOne
    BY <1>4 DEF WriterInv, NoOne
  <2>2. ~Holds(p)
    BY <1>4, OneWriter
  <2> QED
    BY <1>1, <2>1, <2>2 DEF WriterMove, Holds, Recovers, Writing
<1>5. ASSUME NEW q \in Pids, Holds(q)' PROVE v.owner = <<q>>
  <2>1. CASE q # p
    BY <1>3, <1>4, <1>5, <2>1 DEF WriterInv
  <2>2. CASE q = p
    <3>1. Holds(p) => w.owner = <<p>>
      BY DEF WriterInv
    <3> QED
      BY <1>1, <1>2, <1>5, <2>2, <3>1 DEF WriterMove, Holds, Recovers, Writing, Checking
  <2> QED
    BY <2>1, <2>2
<1>6. ASSUME NEW q \in Pids, main'[q].at \in Writing PROVE main'[q].txnid = lockf'.txnid + 1
  <2>1. CASE q # p
    BY <1>1, <1>3, <1>4, <1>6, <2>1 DEF WriterInv, Same
  <2>2. CASE q = p
    <3>1. a \in Writing => main[p].txnid = lockf.txnid + 1
      BY DEF WriterInv
    <3> QED
      BY <1>1, <1>2, <1>6, <2>2, <3>1 DEF WriterMove, Writing, Checking
  <2> QED
    BY <2>1, <2>2
<1>7. ASSUME NEW q \in Pids, main'[q].at = "written" PROVE metas'[main'[q].txnid % 2] = main'[q].txnid
  <2>1. CASE q # p
    <3>1. Holds(q) /\ main[q].at = "written"
      BY <1>1, <1>3, <1>7, <2>1 DEF Writing, Same
    <3> QED
      BY <1>1, <1>4, <2>1, <3>1 DEF WriterInv, Same
  <2>2. CASE q = p
    <3>1. metas' = [metas EXCEPT ![main[p].txnid % 2] = main[p].txnid] /\ main'[p].txnid = main[p].txnid
      BY <1>1, <1>2, <1>7, <2>2 DEF WriterMove, Checking
    <3> QED
      BY <1>2, <2>2, <3>1, NewestMeta
  <2> QED
    BY <2>1, <2>2
<1>8. lockf'.txnid <= PickMeta'
  <2>1. CASE metas' = metas
    <3>1. PickMeta' = PickMeta
      BY <2>1 DEF PickMeta
    <3>2. CASE lockf' = lockf
      BY <1>2, <3>1, <3>2
    <3>3. CASE lockf' = [lockf EXCEPT !.txnid = PickMeta]
      BY <1>2, <3>1, <3>3 DEF LockfType
    <3>4. CASE a = "written" /\ lockf' = [lockf EXCEPT !.txnid = main[p].txnid]
      <4>1. metas[main[p].txnid % 2] = main[p].txnid /\ main[p].txnid % 2 \in {0, 1}
        BY <1>2, <3>4 DEF WriterInv
      <4>2. metas[0] \in Nat /\ metas[1] \in Nat
        BY DEF TypeOK
      <4>3. main[p].txnid <= PickMeta
        BY <4>1, <4>2 DEF PickMeta
      <4>4. lockf'.txnid = main[p].txnid
        BY <1>2, <3>4 DEF LockfType
      <4> QED
        BY <3>1, <4>3, <4>4
    <3> QED
      BY <1>1, <3>2, <3>3, <3>4 DEF WriterMove
  <2>2. CASE metas' # metas
    <3>1. /\ metas' = [metas EXCEPT ![main[p].txnid % 2] = main[p].txnid] /\ lockf' = lockf
          /\ main[p].txnid = lockf.txnid + 1
      BY <1>1, <2>2 DEF WriterMove, WriterInv, Writing
    <3>2. main[p].txnid <= PickMeta' /\ PickMeta' \in Nat
      BY <1>2, <3>1, NewestMeta
    <3> QED
      BY <1>2, <3>1, <3>2
  <2> QED
    BY <2>1, <2>2
<1> QED
  BY <1>5, <1>6, <1>7, <1>8 DEF WriterInv

\* A writer's id is the one after mti_txnid, in every step.
LEMMA WriterStep == ASSUME TypeOK, FlockInv, WriterInv, [Next]_vars PROVE WriterInv'
<1>1. ASSUME UNCHANGED <<main, metas>>, mutex'["w"] = mutex["w"], lockf'.txnid = lockf.txnid
      PROVE  WriterInv'
  BY <1>1 DEF WriterInv, Holds, Recovers, PickMeta
<1>2. CASE UNCHANGED vars
  BY <1>1, <1>2 DEF vars
<1>3. CASE \E r \in Readers : Read(r)
  BY <1>1, <1>3, ReadSame
<1> QED
  BY <1>2, <1>3, WriterOpenStep, WriterWorkStep DEF Next

-----------------------------------------------------------------------------
(* mti_txnid and the meta pages, when no process fails while it            *)
(* initialises the lock file and another one waits for it.                 *)

LEMMA TxnidKept ==
  ASSUME TypeOK, WriterInv, NEW p \in Pids, OpenOrClose(p), main[p].at \notin {"init", "publish"}, TxnidOK
  PROVE  TxnidOK'
<1>1. lockf' = lockf /\ metas' = metas /\ \A q \in Pids \ {p} : Same(q)
  BY OpenAt, OthersSame DEF OpenMove
<1>2. PickMeta' = PickMeta
  BY <1>1 DEF PickMeta
<1>3. CASE Kill(p)
  <2>1. \/ mutex'["w"] = mutex["w"] /\ mutex["w"].owner # <<p>>
        \/ mutex'["w"].dead
    BY <1>3 DEF Kill, TypeOK
  <2>2. ASSUME NEW q \in Pids, main[q].at = "written" PROVE TxnidOK'
    <3>1. mutex["w"].owner = <<q>>
      BY <2>2 DEF WriterInv, Holds, Writing
    <3>2. CASE q = p
      BY <2>1, <3>1, <3>2 DEF TxnidOK
    <3>3. CASE q # p
      BY <1>1, <2>2, <3>3 DEF TxnidOK, Same
    <3> QED
      BY <3>2, <3>3
  <2> QED
    BY <1>1, <1>2, <2>1, <2>2 DEF TxnidOK
<1>4. CASE ~Kill(p)
  <2>1. mutex' = mutex
    BY <1>4, OpenAt DEF OpenMove
  <2>2. main[p].at # "written"
    BY <1>4, OpenOrCloseAt DEF OpenOrClose, Start, ExclLock, ShareLock, InitTable, Attach, Open2, Share, Close, Close0, At
  <2> QED
    BY <1>1, <1>2, <2>1, <2>2 DEF TxnidOK, Same
<1> QED
  BY <1>3, <1>4

\* Where FlockMove says too little.
LEMMA NoFailure ==
  ASSUME "init" \notin Faults, TypeOK, NEW p \in Pids, OpenOrClose(p)
  PROVE  /\ main[p].at = "open2" /\ main'[p].at = "closing" => ~main[p].excl
         /\ main[p].at = "lock" /\ main'[p].at = "wait" => \E q \in Pids : flock[q] # "none"
         /\ Kill(p) /\ flock[p] = "excl" => \A q \in Pids : main[q].at # "wait"
<1>1. ASSUME main[p].at = "open2", main'[p].at = "closing" PROVE ~main[p].excl
  <2>1. Open2(p) \/ Kill(p)
    BY <1>1 DEF OpenOrClose, Start, ExclLock, ShareLock, InitTable, Attach, Share, Close, Close0, At
  <2>2. ~Kill(p)
    BY <1>1, NewMainAt DEF Kill
  <2>3. Goto(p, IF main[p].excl THEN "publish" ELSE "up") => main'[p].at # "closing"
    BY GotoAt
  <2> QED
    BY <1>1, <2>1, <2>2, <2>3 DEF Open2
<1>2. ASSUME main[p].at = "lock", main'[p].at = "wait" PROVE \E q \in Pids : flock[q] # "none"
  <2>1. ExclLock(p) \/ Kill(p)
    BY <1>2 DEF OpenOrClose, Start, ShareLock, InitTable, Attach, Open2, Share, Close, Close0, At
  <2>2. ~Kill(p)
    BY <1>2, NewMainAt DEF Kill
  <2>3. Goto(p, "init") => main'[p].at # "wait"
    BY GotoAt
  <2> QED
    BY <1>2, <2>1, <2>2, <2>3 DEF ExclLock
<1>3. Kill(p) /\ flock[p] = "excl" => \A q \in Pids : main[q].at # "wait"
  BY DEF Kill, Awaited, At
<1> QED
  BY <1>1, <1>2, <1>3

LEMMA ReadyOpenStep ==
  ASSUME "init" \notin Faults, TypeOK, FlockInv, WriterInv, ReadyInv, NEW p \in Pids, OpenOrClose(p)
  PROVE  ReadyInv'
<1>1. /\ OpenMove(p) /\ metas' = metas /\ main'[p].at \notin Working \ {"up"}
      /\ (\A q \in Pids \ {p} : Same(q)) /\ Moved(p)
  BY OpenAt, OthersSame, OpenOrCloseAt
<1>2. PickMeta' = PickMeta
  BY <1>1 DEF PickMeta
<1>3. flock \in [Pids -> {"none", "shared", "excl"}] /\ \A q \in Pids \ {p} : flock'[q] = flock[q]
  <2>1. flock \in [Pids -> {"none", "shared", "excl"}]
    BY DEF TypeOK
  <2> QED
    BY <1>1, <2>1 DEF Moved, FlockMove
<1>4. ASSUME NEW q \in Pids, flock'[q] = "excl"
      PROVE  main'[q].at \in {"init", "open2", "publish", "downgrade"}
  <2>1. CASE q # p
    BY <1>1, <1>3, <1>4, <2>1 DEF ReadyInv, Same
  <2>2. CASE q = p
    <3>1. flock[p] = "excl" => main[p].at \in {"init", "open2", "publish", "downgrade"}
      BY DEF ReadyInv
    <3>2. main[p].at = "open2" => (main[p].excl <=> flock[p] = "excl")
      BY DEF FlockInv
    <3> QED
      BY <1>1, <1>3, <1>4, <2>2, <3>1, <3>2, NoFailure DEF Moved, FlockMove
  <2> QED
    BY <2>1, <2>2
<1>5. ASSUME \A q \in Pids : flock'[q] # "excl",
             NEW q \in Pids, flock'[q] = "shared" \/ main'[q].at = "wait"
      PROVE  TxnidOK'
  <2>1. main[p].at \notin {"init", "publish"}
    <3> SUFFICES ASSUME main[p].at \in {"init", "publish"} PROVE FALSE
      OBVIOUS
    <3>1. flock[p] = "excl"
      BY DEF FlockInv
    <3>2. flock'[p] = "none"
      BY <1>1, <1>3, <1>5, <3>1 DEF Moved, FlockMove
    <3>3. \A o \in Pids \ {p} : flock[o] = "none"
      BY <3>1 DEF FlockInv
    <3>4. main'[p].at = "down" /\ Kill(p)
      <4>1. main'[p].at = "down"
        BY <1>1, <1>5, <3>1 DEF Moved, FlockMove
      <4>2. Kill(p) \/ InitTable(p) \/ Share(p)
        BY DEF OpenOrClose, Start, ExclLock, ShareLock, Attach, Open2, Close, Close0, At
      <4>3. Kill(p)
        BY <3>1, <3>2, <4>2 DEF InitTable, Share, At
      <4> QED
        BY <4>1, <4>3
    <3>5. main[q].at = "wait" /\ q # p
      BY <1>1, <1>3, <1>5, <3>2, <3>3, <3>4 DEF Same
    <3> QED
      BY <3>1, <3>4, <3>5, NoFailure
  <2>2. TxnidOK
    <3>1. CASE main[p].at = "downgrade"
      BY <3>1 DEF ReadyInv
    <3>2. CASE main[p].at # "downgrade" /\ flock[p] # "excl"
      <4>1. \A o \in Pids : flock[o] # "excl"
        BY <1>3, <1>5, <3>2
      <4>2. \E o \in Pids : flock[o] = "shared" \/ main[o].at = "wait"
        <5>1. CASE q # p
          BY <1>1, <1>3, <1>5, <5>1 DEF Same
        <5>2. CASE q = p /\ (flock[p] = "shared" \/ main[p].at = "wait")
          BY <5>2
        <5>3. CASE q = p /\ flock[p] # "shared" /\ main[p].at # "wait"
          <6>1. main[p].at = "lock" /\ main'[p].at = "wait"
            BY <1>1, <1>3, <1>5, <3>2, <5>3 DEF Moved, FlockMove
          <6>2. \E o \in Pids : flock[o] # "none"
            BY <6>1, NoFailure
          <6> QED
            BY <1>3, <4>1, <6>2
        <5> QED
          BY <5>1, <5>2, <5>3
      <4> QED
        BY <4>1, <4>2 DEF ReadyInv
    <3>3. CASE main[p].at # "downgrade" /\ flock[p] = "excl"
      <4>1. main[p].at = "open2"
        BY <2>1, <3>3 DEF ReadyInv
      <4>2. main'[p].at = "down"
        BY <1>1, <1>5, <3>3, <4>1 DEF Moved, FlockMove
      <4>3. Kill(p)
        BY <4>1, <4>2, GotoAt DEF OpenOrClose, Start, ExclLock, ShareLock, InitTable, Attach, Open2, Share, Close, Close0, At
      <4>4. \A o \in Pids \ {p} : flock[o] = "none"
        BY <3>3 DEF FlockInv
      <4>5. flock'[p] = "none"
        BY <1>1, <1>3, <4>1, <4>2 DEF Moved, FlockMove
      <4>6. main[q].at = "wait"
        BY <1>1, <1>3, <1>5, <4>2, <4>4, <4>5 DEF Same
      <4> QED
        BY <3>3, <4>3, <4>6, NoFailure
    <3> QED
      BY <3>1, <3>2, <3>3
  <2> QED
    BY <2>1, <2>2, TxnidKept
<1>6. ASSUME NEW q \in Pids, main'[q].at = "downgrade" PROVE TxnidOK'
  <2>1. CASE q = p
    <3>1. main[p].at = "publish"
      BY <1>1, <1>6, <2>1 DEF Moved, FlockMove
    <3>2. ~Kill(p)
      BY <1>6, <2>1, NewMainAt DEF Kill
    <3>3. lockf'.txnid = PickMeta
      BY <1>1, <3>1, <3>2 DEF OpenMove, TypeOK, LockfType
    <3> QED
      BY <1>2, <3>3 DEF TxnidOK
  <2>2. CASE q # p
    <3>1. main[q].at = "downgrade"
      BY <1>1, <1>6, <2>2 DEF Same
    <3>2. flock[p] = "none" /\ TxnidOK
      BY <2>2, <3>1 DEF FlockInv, ReadyInv
    <3>3. main[p].at \notin {"init", "publish"}
      BY <3>2 DEF FlockInv
    <3> QED
      BY <3>2, <3>3, TxnidKept
  <2> QED
    BY <2>1, <2>2
<1>7. ASSUME NEW q \in Pids, Holds(q)'
      PROVE  q # p /\ Holds(q) /\ Same(q) /\ mutex'["w"] = mutex["w"] /\ lockf' = lockf
  <2>1. q # p /\ Same(q)
    <3>1. main'[q].at \in Working \ {"up"}
      BY <1>7 DEF Holds, Recovers, Writing, Checking, Working
    <3> QED
      BY <1>1, <3>1
  <2>2. Holds(q)
    BY <1>7, <2>1 DEF Holds, Recovers, Same
  <2>3. mutex["w"].owner = <<q>> /\ main[q].at \in Working
    BY <2>2, HoldsWorking DEF WriterInv
  <2>4. main[p].at \notin {"init", "publish"}
    BY <2>1, <2>3 DEF FlockInv, Working
  <2> QED
    BY <1>1, <2>1, <2>2, <2>3, <2>4, KillOthers DEF OpenMove
<1>8. ASSUME NEW q \in Pids, main'[q].at \in {"locked"} \cup Writing PROVE ~mutex'["w"].dead
  <2>1. Holds(q)'
    BY <1>8 DEF Holds
  <2> QED
    BY <1>7, <1>8, <2>1 DEF ReadyInv, Same
<1>9. ASSUME NEW q \in Pids, Holds(q)', main'[q].at # "written" PROVE lockf'.txnid = PickMeta'
  BY <1>2, <1>7, <1>9 DEF ReadyInv, Same
<1>10. ASSUME NEW q \in Pids, main'[q].at = "written" PROVE PickMeta' = main'[q].txnid
  <2>1. Holds(q)'
    BY <1>10 DEF Holds, Writing
  <2> QED
    BY <1>2, <1>7, <1>10, <2>1 DEF ReadyInv, Same
<1> QED
  BY <1>4, <1>5, <1>6, <1>8, <1>9, <1>10 DEF ReadyInv

LEMMA ReadyWorkStep ==
  ASSUME TypeOK, FlockInv, WriterInv, ReadyInv, NEW p \in Pids, Write(p) \/ CheckReaders(p)
  PROVE  ReadyInv'
<1> DEFINE a == main[p].at
           b == main'[p].at
           w == mutex["w"]
           v == mutex'["w"]
<1>1. WriterMove(p, a, b, w, v) /\ flock' = flock /\ (\A q \in Pids \ {p} : Same(q)) /\ Worked(p)
  BY WriterAt, OthersSame, WorkAt
<1>2. /\ PickMeta \in Nat /\ lockf.txnid \in Nat /\ main[p].txnid \in Nat
      /\ main[p].next \in {"up", "consistent"} /\ lockf \in LockfType
  <2>1. main[p] \in MainType /\ lockf \in LockfType
    BY DEF TypeOK
  <2> QED
    BY <2>1, PickMetaType DEF LockfType, MainType
<1>3. a \in Working /\ b \in Working /\ flock[p] = "shared" /\ \A q \in Pids : flock[q] # "excl"
  BY <1>1 DEF Worked, FlockInv
<1>4. TxnidOK
  BY <1>3 DEF ReadyInv
<1>5. ASSUME NEW q \in Pids \ {p}, Holds(q)'
      PROVE  Holds(q) /\ v = w /\ lockf' = lockf /\ metas' = metas /\ ~Holds(p) /\ ~Holds(p)'
  <2>1. Holds(q)
    BY <1>1, <1>5 DEF Holds, Recovers, Same
  <2>2. w.owner = <<q>> /\ <<q>> # NoOne
    BY <2>1 DEF WriterInv, NoOne
  <2>3. ~Holds(p)
    BY <2>1, OneWriter
  <2> QED
    BY <1>1, <1>2, <2>1, <2>2, <2>3 DEF WriterMove, Holds, Recovers, Writing, Checking
<1>6. CASE \E q \in Pids \ {p} : Holds(q)'
  <2>1. PICK o \in Pids \ {p} : Holds(o)'
    BY <1>6
  <2>2. v = w /\ lockf' = lockf /\ metas' = metas /\ PickMeta' = PickMeta /\ ~Holds(p)'
    <3>1. v = w /\ lockf' = lockf /\ metas' = metas /\ ~Holds(p)'
      BY <1>5, <2>1
    <3> QED
      BY <3>1 DEF PickMeta
  <2>3. ~Holds(p) /\ a # "written" /\ b # "written"
    BY <1>5, <2>1, <2>2 DEF Holds, Writing
  <2>4. TxnidOK'
    BY <1>1, <1>4, <2>2, <2>3 DEF TxnidOK, Same
  <2>5. ASSUME NEW q \in Pids, Holds(q)' PROVE q # p /\ Holds(q) /\ Same(q)
    BY <1>1, <1>5, <2>2, <2>5
  <2>6. \A q \in Pids : main'[q].at \in {"locked"} \cup Writing => Holds(q)'
    BY DEF Holds
  <2>7. \A q \in Pids : main'[q].at \in {"locked"} \cup Writing => ~v.dead
    BY <2>2, <2>5, <2>6 DEF ReadyInv, Same
  <2>8. \A q \in Pids : Holds(q)' /\ main'[q].at # "written" => lockf'.txnid = PickMeta'
    BY <2>2, <2>5 DEF ReadyInv, Same
  <2>9. \A q \in Pids : main'[q].at = "written" => PickMeta' = main'[q].txnid
    BY <2>2, <2>5, <2>6 DEF ReadyInv, Same, Writing
  <2> QED
    BY <1>1, <1>3, <2>4, <2>7, <2>8, <2>9 DEF ReadyInv, Working
<1>7. CASE \A q \in Pids \ {p} : ~Holds(q)'
  <2>1. \A q \in Pids \ {p} : main[q].at \notin {"locked"} \cup Writing /\ main'[q].at \notin {"locked"} \cup Writing
    BY <1>1, <1>7 DEF Holds, Same
  <2>2. /\ a \in {"locked"} \cup Writing => ~w.dead
        /\ Holds(p) /\ a # "written" => lockf.txnid = PickMeta
        /\ a = "written" => PickMeta = main[p].txnid
        /\ a \in Writing => main[p].txnid = lockf.txnid + 1
    BY DEF ReadyInv, WriterInv
  <2>3. metas' = metas => PickMeta' = PickMeta
    BY DEF PickMeta
  <2>4. a = "up" /\ w.owner = NoOne /\ ~w.dead => lockf.txnid = PickMeta
    BY <1>4, <2>1 DEF TxnidOK, Writing
  <2>5. CASE a = "begun" /\ b = "written"
    <3>1. metas' = [metas EXCEPT ![main[p].txnid % 2] = main[p].txnid] /\ v = w /\ lockf' = lockf
          /\ main'[p].txnid = main[p].txnid
      BY <1>1, <2>5 DEF WriterMove, Checking
    <3>2. PickMeta' = main[p].txnid
      <4>1. lockf.txnid = PickMeta /\ main[p].txnid = lockf.txnid + 1
        BY <2>2, <2>5 DEF Holds, Writing
      <4>2. main[p].txnid \in Nat /\ PickMeta < main[p].txnid
        BY <1>2, <4>1
      <4>3. metas' = [metas EXCEPT ![main[p].txnid % 2] = main[p].txnid]
        BY <3>1
      <4> HIDE DEF a, b, w, v
      <4> QED
        BY <4>2, <4>3, NewestMeta
    <3>3. TxnidOK'
      BY <2>5 DEF TxnidOK
    <3> QED
      BY <1>1, <1>3, <1>7, <2>1, <2>2, <2>5, <3>1, <3>2, <3>3 DEF ReadyInv, Writing, Same
  <2>6. CASE ~(a = "begun" /\ b = "written")
    <3>0. b # "written" /\ metas' = metas /\ PickMeta' = PickMeta
      BY <1>1, <1>2, <2>3, <2>6 DEF WriterMove, Checking
    <3>1. Holds(p)' => lockf'.txnid = PickMeta
      BY <1>1, <1>2, <2>2, <2>4, <2>6 DEF WriterMove, Holds, Recovers, Writing, Checking, LockfType
    <3>2. b \in {"locked"} \cup Writing => ~v.dead
      BY <1>1, <1>2, <2>2, <2>6 DEF WriterMove, Holds, Recovers, Writing, Checking
    <3>3. TxnidOK'
      <4>1. CASE lockf'.txnid = PickMeta
        BY <3>0, <4>1 DEF TxnidOK
      <4>2. CASE lockf'.txnid # PickMeta
        <5>1. \A x : lockf' = [lockf EXCEPT !.txnid = x] => lockf'.txnid = x
          BY <1>2 DEF LockfType
        <5>2. a # "written"
          BY <1>1, <1>2, <2>2, <4>2, <5>1 DEF WriterMove, Checking
        <5>3. lockf' = lockf
          BY <1>1, <4>2, <5>1, <5>2 DEF WriterMove
        <5>4. ~Holds(p) /\ ~(a = "up" /\ w.owner = NoOne /\ ~w.dead)
          BY <2>2, <2>4, <4>2, <5>2, <5>3
        <5>5. v.dead = w.dead
          BY <1>1, <4>2, <5>1, <5>4 DEF WriterMove, Holds, Recovers
        <5> QED
          BY <1>4, <2>1, <3>0, <4>2, <5>2, <5>3, <5>5 DEF TxnidOK, Writing
      <4> QED
        BY <4>1, <4>2
    <3> QED
      BY <1>1, <1>3, <1>7, <2>1, <3>0, <3>1, <3>2, <3>3 DEF ReadyInv, Writing, Working, Same
  <2> QED
    BY <2>5, <2>6
<1> QED
  BY <1>6, <1>7

LEMMA ReadyStep ==
  ASSUME "init" \notin Faults, TypeOK, FlockInv, WriterInv, ReadyInv, [Next]_vars
  PROVE  ReadyInv'
<1>1. ASSUME UNCHANGED <<main, metas, flock>>, mutex'["w"] = mutex["w"], lockf'.txnid = lockf.txnid
      PROVE  ReadyInv'
  BY <1>1 DEF ReadyInv, TxnidOK, Holds, Recovers, PickMeta
<1>2. CASE UNCHANGED vars
  BY <1>1, <1>2 DEF vars
<1>3. CASE \E r \in Readers : Read(r)
  BY <1>1, <1>3, ReadSame
<1> QED
  BY <1>2, <1>3, ReadyOpenStep, ReadyWorkStep DEF Next
LEMMA InitWriter == Init => WriterInv /\ ReadyInv
<1> SUFFICES ASSUME Init PROVE WriterInv /\ ReadyInv
  OBVIOUS
<1>1. /\ \A p \in Pids : main[p].at = "down" /\ flock[p] = "none"
      /\ lockf.txnid = 0 /\ PickMeta = 0
  BY DEF Init, NewMain, PickMeta
<1>2. \A p \in Pids : ~Holds(p) /\ main[p].at \notin Writing
  BY <1>1 DEF Holds, Recovers, Writing, Checking
<1> QED
  BY <1>1, <1>2 DEF WriterInv, ReadyInv, Holds, Writing

\* A write transaction's id is the one after the newest meta page's, whoever
\* dies or fails to open the environment, but for the process that initialises
\* the lock file while another one waits for it: that one may then find the
\* table with the mti_txnid of its initialisation (mdb_env_open,
\* mdb_mutex_failed, mdb_env_share_locks, mdb_txn_renew0).
THEOREM SpecWriterFollows == ASSUME "init" \notin Faults PROVE Spec => []WriterFollows
<1> DEFINE Inv == WriterInv /\ ReadyInv
<1>1. LockFileInv /\ Inv /\ [Next]_vars => Inv'
  BY WriterStep, ReadyStep DEF LockFileInv
<1>2. LockFileInv /\ Inv => WriterFollows
  BY DEF WriterInv, ReadyInv, WriterFollows, Holds, Writing
<1>3. Init => Inv
  BY InitWriter
<1> HIDE DEF Inv
<1> QED
  BY <1>1, <1>2, <1>3, Invariant, PTL DEF Spec

-----------------------------------------------------------------------------
(* The oldest reader.                                                      *)

LEMMA OpenIsWorking ==
  ASSUME TypeOK, NEW p \in Pids
  PROVE  (p \in Open) <=> (main[p].at \in Working)
<1> DEFINE a == main[p].at
<1>1. a \in Points
  BY DEF TypeOK, MainType
<1>2. p \in Open <=> a \notin {"down", "lock", "wait", "closed", "init", "attach", "open2", "publish",
                             "downgrade", "closing"}
  BY DEF Open, Mapped
<1> HIDE DEF a
<1>3. p \in Open <=> a \in Working
  BY <1>1, <1>2 DEF Working, Points
<1> QED
  BY <1>3 DEF a

\* mti_txnid never goes back under an open environment.
LEMMA TxnidGrows ==
  ASSUME TypeOK, FlockInv, WriterInv, [Next]_vars, NEW q \in Pids, main[q].at \in Working
  PROVE  lockf.txnid <= lockf'.txnid /\ lockf.txnid \in Nat
<1>0. /\ lockf \in LockfType /\ lockf.txnid \in Nat /\ PickMeta \in Nat /\ lockf.txnid <= PickMeta
      /\ \A x : lockf' = [lockf EXCEPT !.txnid = x] => lockf'.txnid = x
  <2>1. lockf \in LockfType
    BY DEF TypeOK
  <2> QED
    BY <2>1, PickMetaType DEF LockfType, WriterInv
<1>1. CASE UNCHANGED vars
  BY <1>0, <1>1 DEF vars
<1>2. ASSUME NEW r \in Readers, Read(r) PROVE lockf.txnid <= lockf'.txnid
  BY <1>0, <1>2, ReadSame
<1>3. ASSUME NEW p \in Pids, OpenOrClose(p) PROVE lockf.txnid <= lockf'.txnid
  <2>1. main[p].at # "init"
    BY DEF FlockInv, Working
  <2>2. lockf' = lockf \/ lockf' = [lockf EXCEPT !.txnid = PickMeta]
    BY <1>3, <2>1, OpenAt DEF OpenMove
  <2> QED
    BY <1>0, <2>2
<1>4. ASSUME NEW p \in Pids, Write(p) \/ CheckReaders(p) PROVE lockf.txnid <= lockf'.txnid
  <2>1. main[p].at = "written" => main[p].txnid = lockf.txnid + 1
    BY DEF WriterInv, Writing
  <2>2. \/ lockf' = lockf \/ lockf' = [lockf EXCEPT !.txnid = PickMeta]
        \/ main[p].at = "written" /\ lockf' = [lockf EXCEPT !.txnid = main[p].txnid]
    BY <1>4, WriterAt DEF WriterMove
  <2>3. \/ lockf' = lockf \/ lockf'.txnid = PickMeta \/ lockf'.txnid = lockf.txnid + 1
    BY <1>0, <2>1, <2>2
  <2> QED
    BY <1>0, <2>3
<1> QED
  BY <1>0, <1>1, <1>2, <1>3, <1>4 DEF Next

\* Who begins to read has verified that mti_txnid is its id.
LEMMA ReadNew ==
  ASSUME TypeOK, TableInv, NEW r \in Readers, Read(r), NEW s \in Readers, rdr'[s].at = "reading"
  PROVE  /\ rdr'[s].slot = rdr[s].slot /\ rdr'[s].txnid = rdr[s].txnid
         /\ rdr[s].at = "reading" \/ rdr[s].txnid = lockf.txnid
<1>0. rdr \in [Readers -> RdrType] /\ rdr[r] \in RdrType /\ ClaimInv(r)
  BY DEF TypeOK, TableInv
<1>1. CASE s # r
  <2>1. rdr'[s] = rdr[s]
    BY <1>0, <1>1 DEF Read, Begin, Pidset, LockTable, Choose, Count, SetPid, Load, Store, Verify, End, Release, RGoto
  <2> QED
    BY <2>1
<1>2. CASE s = r
  <2>1. ASSUME NEW x, RGoto(r, x) PROVE rdr'[r].at = x /\ rdr'[r].slot = rdr[r].slot /\ rdr'[r].txnid = rdr[r].txnid
    BY <1>0, <2>1 DEF RGoto, RdrType
  <2>2. ~Begin(r)
    <3>1. Begin(r) => \E x \in {"load", "claim", "pidset"} : RGoto(r, x)
      BY DEF Begin
    <3> QED
      BY <1>2, <2>1, <3>1
  <2>3. ~Pidset(r) /\ ~LockTable(r) /\ ~Count(r) /\ ~SetPid(r) /\ ~Store(r)
    BY <1>2, <2>1 DEF Pidset, LockTable, Count, SetPid, Store
  <2>4. ~Choose(r)
    <3>1. rdr' = [rdr EXCEPT ![r].at = "count", ![r].slot = FreeSlot] => rdr'[r].at = "count"
      BY <1>0 DEF RdrType
    <3> QED
      BY <1>2, <2>1, <3>1 DEF Choose
  <2>5. ~Load(r)
    BY <1>0, <1>2 DEF Load, RdrType
  <2>6. ~End(r)
    BY <1>0, <1>2 DEF End, RdrType
  <2>7. ~Release(r)
    BY <1>0, <1>2 DEF Release, RAt, RdrType
  <2>8. Verify(r)
    BY <2>2, <2>3, <2>4, <2>5, <2>6, <2>7 DEF Read
  <2>9. slot[rdr[r].slot].txnid = lockf.txnid
    BY <1>2, <2>1, <2>8 DEF Verify
  <2>10. rdr[r].at = "verify" /\ slot[rdr[r].slot].txnid = rdr[r].txnid
    BY <1>0, <2>8 DEF Verify, RAt, ClaimInv
  <2>11. rdr'[r].slot = rdr[r].slot /\ rdr'[r].txnid = rdr[r].txnid
    BY <2>1, <2>8 DEF Verify
  <2> QED
    BY <1>2, <2>9, <2>10, <2>11
<1> QED
  BY <1>1, <1>2

LEMMA ScanReadStep ==
  ASSUME TypeOK, TableInv, ScanInv, OldestSafe, NEW r \in Readers, Read(r)
  PROVE  ScanInv' /\ OldestSafe'
<1>1. /\ main' = main /\ lockf'.txnid = lockf.txnid /\ \A p \in Pids : env'[p].oldest = env[p].oldest
  BY ReadSame
<1>2. ASSUME NEW p \in Pids, NEW s \in Readers, main[p].at \in {"scan", "scanned"}, rdr'[s].at = "reading"
      PROVE  rdr'[s].slot <= main[p].i \/ main[p].old <= rdr'[s].txnid
  BY <1>2, ReadNew DEF ScanInv
<1>3. ASSUME NEW p \in Open, NEW s \in Readers, rdr'[s].at = "reading"
      PROVE  env[p].oldest <= rdr'[s].txnid
  <2>1. p \in Pids /\ main[p].at \in Working
    BY OpenIsWorking DEF Open, Mapped
  <2> QED
    BY <1>3, <2>1, ReadNew DEF ScanInv, OldestSafe
<1>4. Open' = Open /\ Open \subseteq Pids
  BY <1>1 DEF Open, Mapped
<1>5. OldestSafe'
  BY <1>1, <1>3, <1>4 DEF OldestSafe
<1> QED
  BY <1>1, <1>2, <1>5 DEF ScanInv
\* Opening, closing and dying: no id of an open environment changes, and who
\* reads goes on.
LEMMA OldestKept ==
  ASSUME TypeOK, NEW p \in Pids, OpenOrClose(p)
  PROVE  /\ \A q \in Pids \ {p} : env'[q] = env[q]
         /\ IF main'[p].at = "lock" THEN env'[p].oldest = 0 ELSE env'[p] = env[p]
         /\ \A r \in Readers : rdr'[r].at = "reading" => rdr'[r] = rdr[r]
<1>1. CASE Start(p)
  <2>1. env'[p].oldest = 0 /\ \A q \in Pids \ {p} : env'[q] = env[q]
    BY <1>1 DEF Start, TypeOK, NewEnv
  <2>2. main'[p].at = "lock"
    BY <1>1 DEF Start, NewMain
  <2> QED
    BY <1>1, <2>1, <2>2 DEF Start
<1>2. CASE ~Start(p)
  <2>1. env' = env
    BY <1>2 DEF OpenOrClose, ExclLock, ShareLock, InitTable, Attach, Open2, Share, Close, Close0, Kill
  <2>2. rdr' = rdr \/ NoReaders(p)
    BY <1>2 DEF OpenOrClose, ExclLock, ShareLock, InitTable, Attach, Open2, Share, Close, Close0, Kill
  <2>3. main'[p].at # "lock"
    <3>1. main[p].at # "down"
      BY <1>2 DEF OpenOrClose, ExclLock, ShareLock, InitTable, Attach, Open2, Share, Close, Close0, Kill, At
    <3> QED
      BY <3>1, OpenOrCloseAt DEF Moved, FlockMove
  <2> QED
    BY <2>1, <2>2, <2>3 DEF NoReaders, NewRdr
<1> QED
  BY <1>1, <1>2

LEMMA ScanOpenStep ==
  ASSUME TypeOK, FlockInv, WriterInv, ScanInv, OldestSafe, TypeOK', NEW p \in Pids, OpenOrClose(p)
  PROVE  ScanInv' /\ OldestSafe'
<1>1. /\ main'[p].at \notin Working \ {"up"} /\ (\A q \in Pids \ {p} : Same(q)) /\ Moved(p)
  BY OpenAt, OthersSame, OpenOrCloseAt
<1>2. /\ \A q \in Pids \ {p} : env'[q] = env[q]
      /\ IF main'[p].at = "lock" THEN env'[p].oldest = 0 ELSE env'[p] = env[p]
      /\ \A r \in Readers : rdr'[r].at = "reading" => rdr'[r] = rdr[r]
  BY OldestKept
<1>3. /\ \A q \in Pids : env[q].oldest \in Int /\ main[q].old \in Int
      /\ lockf'.txnid \in Nat /\ \A r \in Readers : rdr'[r].txnid \in Nat
  <2>1. ASSUME NEW q \in Pids PROVE env[q].oldest \in Int /\ main[q].old \in Int
    BY DEF TypeOK, EnvType, MainType
  <2>2. ASSUME NEW r \in Readers PROVE rdr'[r].txnid \in Nat
    BY DEF TypeOK, RdrType
  <2>3. lockf'.txnid \in Nat
    BY DEF TypeOK, LockfType
  <2> QED
    BY <2>1, <2>2, <2>3
<1>4. ASSUME NEW q \in Pids, main'[q].at \in Working
      PROVE  \/ env'[q].oldest = 0 /\ q = p
             \/ /\ q # p /\ main[q].at \in Working /\ env'[q].oldest = env[q].oldest
                /\ lockf.txnid <= lockf'.txnid /\ lockf.txnid \in Nat
  <2>1. CASE q = p
    <3>1. main'[p].at = "up" /\ main[p].at \in {"open2", "downgrade"}
      BY <1>1, <1>4, <2>1 DEF Moved, FlockMove
    <3> QED
      BY <1>2, <2>1, <3>1 DEF ScanInv, Working
  <2>2. CASE q # p
    <3>1. main[q].at \in Working
      BY <1>1, <1>4, <2>2 DEF Same
    <3> QED
      BY <1>2, <2>2, <3>1, TxnidGrows DEF Next
  <2> QED
    BY <2>1, <2>2
<1>5. ASSUME NEW q \in Pids, main'[q].at \notin Working \cup {"closing", "closed", "down"}
      PROVE  env'[q].oldest = 0
  <2>1. CASE q # p
    BY <1>1, <1>2, <1>5, <2>1 DEF ScanInv, Same
  <2>2. CASE q = p /\ main'[p].at # "lock"
    <3>1. main[p].at \notin Working \cup {"closing", "closed", "down"}
      BY <1>1, <1>5, <2>2 DEF Moved, FlockMove, Working
    <3> QED
      BY <1>2, <2>2, <3>1 DEF ScanInv
  <2> QED
    BY <1>2, <2>1, <2>2
<1>6. ASSUME NEW q \in Pids, main'[q].at \in Working PROVE env'[q].oldest <= lockf'.txnid
  <2>1. main[q].at \in Working => env[q].oldest <= lockf.txnid
    BY DEF ScanInv
  <2> QED
    BY <1>3, <1>4, <1>6, <2>1
<1>7. ASSUME NEW q \in Pids, main'[q].at \in {"scan", "scanned"}
      PROVE  /\ main'[q].at = main[q].at /\ main'[q].old = main[q].old /\ main'[q].i = main[q].i
             /\ main'[q].old <= lockf'.txnid
  <2>1. main'[q].at \in Working /\ q # p
    BY <1>1, <1>7 DEF Working
  <2>2. Same(q) /\ lockf.txnid <= lockf'.txnid /\ lockf.txnid \in Nat
    BY <1>1, <1>4, <2>1
  <2>3. main[q].old <= lockf.txnid
    BY <1>7, <2>2 DEF Same, ScanInv
  <2> QED
    BY <1>3, <2>2, <2>3 DEF Same
<1>8. ASSUME NEW q \in Pids, NEW r \in Readers, main'[q].at \in {"scan", "scanned"}, rdr'[r].at = "reading"
      PROVE  rdr'[r].slot <= main'[q].i \/ main'[q].old <= rdr'[r].txnid
  BY <1>2, <1>7, <1>8 DEF ScanInv
<1>9. ASSUME NEW q \in Pids, main'[q].at \in Working, NEW r \in Readers, rdr'[r].at = "reading"
      PROVE  env'[q].oldest <= rdr'[r].txnid
  <2>1. CASE env'[q].oldest = 0
    BY <1>3, <2>1
  <2>2. CASE env'[q].oldest # 0
    <3>1. q \in Open /\ env'[q].oldest = env[q].oldest
      BY <1>4, <1>9, <2>2, OpenIsWorking
    <3> QED
      BY <1>2, <1>9, <3>1 DEF OldestSafe
  <2> QED
    BY <2>1, <2>2
<1>10. OldestSafe'
  <2>1. ASSUME NEW q \in Open' PROVE q \in Pids /\ main'[q].at \in Working
    <3>1. q \in Pids /\ main'[q].at \in Points
      BY <2>1 DEF Open, Mapped, TypeOK, MainType
    <3> QED
      BY <2>1, <3>1 DEF Open, Mapped, Points, Working
  <2> QED
    BY <1>9, <2>1 DEF OldestSafe
<1> QED
  BY <1>5, <1>6, <1>7, <1>8, <1>10 DEF ScanInv
\* A step of a scan: from a with m to b with n.
ScanMove(p, m, n) ==
  \/ n.at \in Working \ {"scan", "scanned"} /\ env' = env
  \/ m.at = "begun" /\ n.at = "scan" /\ n.i = lockf.nreaders /\ n.old = m.txnid - 1 /\ env' = env
  \/ m.at = "scan" /\ n.at = "scan" /\ m.i > 0 /\ slot[m.i].pid = NoPid
       /\ n.i = m.i - 1 /\ n.old = m.old /\ env' = env
  \/ m.at = "scan" /\ n.at = "scanned" /\ n.i = m.i /\ n.old = m.old /\ env' = env
  \/ m.at = "scanned" /\ n.at = "scan" /\ n.i = m.i - 1
       /\ n.old = (IF m.old > slot[m.i].txnid THEN slot[m.i].txnid ELSE m.old) /\ env' = env
  \/ m.at = "scan" /\ n.at = "begun" /\ m.i = 0 /\ env' = [env EXCEPT ![p].oldest = m.old]

LEMMA ScanAt ==
  ASSUME TypeOK, NEW p \in Pids, Write(p) \/ CheckReaders(p)
  PROVE  ScanMove(p, main[p], main'[p]) /\ rdr' = rdr
<1>0. main[p] \in MainType /\ main \in [Pids -> MainType]
  BY DEF TypeOK
<1>1. CASE Scan(p)
  <2>1. main'[p].at = "scan" /\ main'[p].i = lockf.nreaders /\ main'[p].old = main[p].txnid - 1
    BY <1>0, <1>1 DEF Scan, MainType
  <2> QED
    BY <1>1, <2>1 DEF Scan, At, ScanMove
<1>2. CASE ScanSlot(p)
  <2>1. CASE At(p, "scan") /\ main[p].i > 0 /\ main' = [main EXCEPT ![p].i = @ - 1]
             /\ slot[main[p].i].pid = NoPid /\ env' = env
    <3>1. main'[p].at = "scan" /\ main'[p].i = main[p].i - 1 /\ main'[p].old = main[p].old
      BY <1>0, <2>1 DEF At, MainType
    <3> QED
      BY <1>2, <2>1, <3>1 DEF ScanSlot, At, ScanMove
  <2>2. CASE At(p, "scan") /\ main' = [main EXCEPT ![p].at = "scanned"] /\ env' = env
    <3>1. main'[p].at = "scanned" /\ main'[p].i = main[p].i /\ main'[p].old = main[p].old
      BY <1>0, <2>2 DEF MainType
    <3> QED
      BY <1>2, <2>2, <3>1 DEF ScanSlot, At, ScanMove
  <2>3. CASE At(p, "scanned") /\ ScanTxnid(p) /\ env' = env
    <3> DEFINE id == slot[main[p].i].txnid
    <3>1. main' = [main EXCEPT ![p].at = "scan", ![p].i = @ - 1, ![p].old = IF @ > id THEN id ELSE @]
      BY <2>3 DEF ScanTxnid
    <3> HIDE DEF id
    <3>2. main'[p].at = "scan" /\ main'[p].i = main[p].i - 1
          /\ main'[p].old = IF main[p].old > id THEN id ELSE main[p].old
      BY <1>0, <3>1 DEF MainType
    <3> QED
      BY <1>2, <2>3, <3>2 DEF ScanSlot, At, ScanMove, id
  <2>4. CASE /\ At(p, "scan") /\ main[p].i = 0
             /\ env' = [env EXCEPT ![p].oldest = main[p].old]
             /\ main' = [main EXCEPT ![p].at = "begun", ![p].old = 0]
    <3>1. main'[p].at = "begun"
      BY <1>0, <2>4 DEF MainType
    <3> QED
      BY <1>2, <2>4, <3>1 DEF ScanSlot, At, ScanMove
  <2> QED
    BY <1>2, <2>1, <2>2, <2>3, <2>4 DEF ScanSlot
<1>3. CASE ~Scan(p) /\ ~ScanSlot(p)
  <2>1. env' = env /\ rdr' = rdr
    BY <1>3 DEF Write, CheckReaders, LockWriter, Consistent, BeginWrite, WriteMeta, Publish, Abort, EndWrite,
       Check, CheckSlot, CheckPid, CheckLock, Clear, CheckEnd
  <2>2. main'[p].at \in Working \ {"scan", "scanned"}
    <3>1. WriterMove(p, main[p].at, main'[p].at, mutex["w"], mutex'["w"])
      BY WriterAt
    <3>2. main'[p].at \notin {"scan", "scanned"}
      <4>1. \A x \in {"locked", "begun", "written", "up", "check"} :
              main' = [main EXCEPT ![p].at = x] => main'[p].at = x
        BY <1>0 DEF MainType
      <4>2. CASE CheckReaders(p)
        <5>1. main[p].next \in {"up", "consistent"}
          BY <1>0 DEF MainType
        <5>2. main[p].at \in Checking \cup {"up"}
          BY <4>2 DEF CheckReaders, Check, CheckSlot, CheckPid, CheckLock, Clear, CheckEnd, At, Checking
        <5> QED
          BY <3>1, <5>1, <5>2 DEF WriterMove, Checking
      <4>3. CASE LockWriter(p) \/ Consistent(p)
        <5>1. main[p].at \in {"up", "consistent"}
          BY <4>3 DEF LockWriter, Consistent, At
        <5>2. main'[p].at \in {"locked", "check", "consistent"}
          BY <3>1, <5>1 DEF WriterMove, Checking
        <5> QED
          BY <5>2
      <4>4. CASE BeginWrite(p)
        BY <1>0, <4>4 DEF BeginWrite, MainType
      <4>5. CASE WriteMeta(p)
        BY <4>1, <4>5 DEF WriteMeta, Goto
      <4>6. CASE Publish(p) \/ Abort(p)
        BY <1>0, <4>6 DEF Publish, Abort, EndWrite, MainType
      <4> QED
        BY <1>3, <4>2, <4>3, <4>4, <4>5, <4>6 DEF Write
    <3> QED
      BY <3>2, WorkAt DEF Worked
  <2> QED
    BY <2>1, <2>2 DEF ScanMove
<1>4. rdr' = rdr
  BY WorkAt DEF Worked
<1> QED
  BY <1>1, <1>2, <1>3, <1>4

LEMMA ScanWorkStep ==
  ASSUME TypeOK, FlockInv, TableInv, WriterInv, ScanInv, OldestSafe, TypeOK', NEW p \in Pids, Write(p) \/ CheckReaders(p)
  PROVE  ScanInv' /\ OldestSafe'
<1> DEFINE m == main[p]
           n == main'[p]
<1>1. /\ ScanMove(p, m, n) /\ rdr' = rdr /\ (\A q \in Pids \ {p} : Same(q))
      /\ m.at \in Working /\ n.at \in Working
  BY ScanAt, OthersSame, WorkAt DEF Worked
<1>2. /\ \A q \in Pids : env[q].oldest \in Int /\ main[q].old \in Int /\ main'[q].old \in Int
      /\ \A r \in Readers : rdr[r].txnid \in Nat /\ rdr[r].slot \in 0 .. MaxReaders
      /\ m.i \in Int /\ lockf'.txnid \in Nat /\ env \in [Pids -> EnvType]
      /\ \A i \in Slots : slot[i].txnid \in Nat
  <2>1. ASSUME NEW q \in Pids PROVE env[q].oldest \in Int /\ main[q].old \in Int /\ main'[q].old \in Int
    BY DEF TypeOK, EnvType, MainType
  <2>2. ASSUME NEW r \in Readers PROVE rdr[r].txnid \in Nat /\ rdr[r].slot \in 0 .. MaxReaders
    BY DEF TypeOK, RdrType
  <2>3. lockf'.txnid \in Nat /\ env \in [Pids -> EnvType]
    BY DEF TypeOK, LockfType
  <2>4. m.i \in Int
    BY DEF TypeOK, MainType
  <2>5. ASSUME NEW i \in Slots PROVE slot[i].txnid \in Nat
    BY DEF TypeOK, SlotType
  <2> QED
    BY <2>1, <2>2, <2>3, <2>4, <2>5
<1>3. lockf.txnid <= lockf'.txnid /\ lockf.txnid \in Nat
  BY <1>1, TxnidGrows DEF Next
\* What p has found, and what it finds.
<1>4. /\ env[p].oldest <= lockf.txnid
      /\ m.at \in {"scan", "scanned"} => m.old <= lockf.txnid
      /\ m.at \in Writing => m.txnid = lockf.txnid + 1
  BY <1>1 DEF ScanInv, WriterInv
<1>5. ASSUME NEW r \in Readers, rdr[r].at = "reading"
      PROVE  /\ rdr[r].slot \in Slots /\ rdr[r].slot <= lockf.nreaders
             /\ slot[rdr[r].slot].pid # NoPid /\ slot[rdr[r].slot].txnid = rdr[r].txnid
  <2>1. ThreadInv(r) /\ ClaimInv(r) /\ r[1] \in Pids /\ r[1] # NoPid
    BY ReaderFacts, LockFileAssumption DEF TableInv
  <2>2. rdr[r].slot # 0 /\ ~Claiming(r)
    BY <1>5, <2>1 DEF ThreadInv, Claiming
  <2>3. rdr[r].slot \in 0 .. MaxReaders
    BY <1>2
  <2>4. rdr[r].slot \in Slots
    BY <2>2, <2>3, LockFileAssumption DEF Slots
  <2> QED
    BY <1>5, <2>1, <2>2, <2>4 DEF ClaimInv, Settled
<1>6. \A q \in Pids : env'[q].oldest = env[q].oldest \/ (q = p /\ m.at = "scan" /\ m.i = 0 /\ env'[q].oldest = m.old)
  <2>1. env' = env \/ (m.at = "scan" /\ m.i = 0 /\ env' = [env EXCEPT ![p].oldest = m.old])
    BY <1>1 DEF ScanMove
  <2>2. CASE env' = env
    BY <2>2
  <2>3. CASE m.at = "scan" /\ m.i = 0 /\ env' = [env EXCEPT ![p].oldest = m.old]
    <3> HIDE DEF m
    <3> QED
      BY <1>2, <2>3 DEF EnvType
  <2> QED
    BY <2>1, <2>2, <2>3
<1>7. ASSUME NEW q \in Pids, main'[q].at \notin Working \cup {"closing", "closed", "down"}
      PROVE  env'[q].oldest = 0
  <2>1. q # p /\ main[q].at = main'[q].at
    BY <1>1, <1>7 DEF Same
  <2> QED
    BY <1>6, <1>7, <2>1 DEF ScanInv
<1>8. ASSUME NEW q \in Pids, main'[q].at \in Working PROVE env'[q].oldest <= lockf'.txnid
  <2>1. main[q].at \in Working
    BY <1>1, <1>8 DEF Same
  <2>2. env[q].oldest <= lockf.txnid
    BY <2>1 DEF ScanInv
  <2>3. env'[q].oldest <= lockf.txnid
    BY <1>4, <1>6, <2>2
  <2>4. env'[q].oldest \in Int /\ lockf'.txnid \in Nat
    BY <1>2, <1>6
  <2> HIDE DEF m, n
  <2> QED
    BY <1>3, <2>3, <2>4
<1>9. ASSUME NEW q \in Pids, main'[q].at \in {"scan", "scanned"} PROVE main'[q].old <= lockf'.txnid
  <2>1. CASE q # p
    <3>1. main[q].old <= lockf.txnid /\ main'[q].old = main[q].old
      BY <1>1, <1>9, <2>1 DEF Same, ScanInv
    <3> QED
      BY <1>2, <1>3, <3>1
  <2>2. CASE q = p
    <3>1. main'[p].old = lockf.txnid \/ main'[p].old = m.old
          \/ (m.at = "scanned" /\ main'[p].old = (IF m.old > slot[m.i].txnid THEN slot[m.i].txnid ELSE m.old))
      BY <1>1, <1>3, <1>4, <1>9, <2>2 DEF ScanMove, Writing
    <3>2. m.at = "begun" \/ m.old <= lockf.txnid
      BY <1>1, <1>4, <1>9, <2>2 DEF ScanMove
    <3>3. m.at = "begun" => main'[p].old = lockf.txnid
      BY <1>1, <1>3, <1>4, <1>9, <2>2 DEF ScanMove, Writing
    <3>4. m.at = "scanned" => slot[m.i].txnid \in Nat
      BY <1>2 DEF TypeOK, WithinTable
    <3>5. main'[p].old <= lockf.txnid
      BY <1>2, <1>3, <3>1, <3>2, <3>3, <3>4
    <3> QED
      BY <1>2, <1>3, <2>2, <3>5
  <2> QED
    BY <2>1, <2>2
<1>10. ASSUME NEW q \in Pids, NEW r \in Readers, main'[q].at \in {"scan", "scanned"}, rdr[r].at = "reading"
       PROVE  rdr[r].slot <= main'[q].i \/ main'[q].old <= rdr[r].txnid
  <2>1. main[q].at \in {"scan", "scanned"} => rdr[r].slot <= main[q].i \/ main[q].old <= rdr[r].txnid
    BY <1>10 DEF ScanInv
  <2>2. CASE q # p
    BY <1>1, <1>10, <2>1, <2>2 DEF Same
  <2>3. CASE q = p
    <3>1. CASE m.at = "begun"
      BY <1>1, <1>5, <1>10, <2>3, <3>1 DEF ScanMove
    <3>2. CASE m.at = "scan" /\ n.at = "scan"
      <4>1. n.i = m.i - 1 /\ n.old = m.old /\ rdr[r].slot # m.i
        BY <1>1, <1>5, <1>10, <3>2 DEF ScanMove
      <4> QED
        BY <1>2, <2>1, <2>3, <3>2, <4>1
    <3>3. CASE m.at = "scan" /\ n.at = "scanned"
      BY <1>1, <2>1, <2>3, <3>3 DEF ScanMove
    <3>4. CASE m.at = "scanned"
      <4>1. n.i = m.i - 1 /\ n.old = (IF m.old > slot[m.i].txnid THEN slot[m.i].txnid ELSE m.old)
        BY <1>1, <1>10, <2>3, <3>4 DEF ScanMove
      <4>2. slot[m.i].txnid \in Nat
        BY <1>2, <3>4 DEF TypeOK, WithinTable
      <4>3. rdr[r].slot = m.i => slot[m.i].txnid = rdr[r].txnid
        BY <1>5, <1>10
      <4> QED
        BY <1>2, <2>1, <2>3, <3>4, <4>1, <4>2, <4>3
    <3> QED
      BY <1>1, <1>10, <2>3, <3>1, <3>2, <3>3, <3>4 DEF ScanMove
  <2> QED
    BY <2>2, <2>3
<1>11. ASSUME NEW q \in Pids, main'[q].at \in Working, NEW r \in Readers, rdr[r].at = "reading"
       PROVE  env'[q].oldest <= rdr[r].txnid
  <2>1. main[q].at \in Working
    BY <1>1, <1>11 DEF Same
  <2>2. env[q].oldest <= rdr[r].txnid
    BY <1>11, <2>1, OpenIsWorking DEF OldestSafe
  <2>3. CASE q = p /\ m.at = "scan" /\ m.i = 0 /\ env'[q].oldest = m.old
    <3>1. rdr[r].slot <= m.i \/ m.old <= rdr[r].txnid
      BY <1>11, <2>3 DEF ScanInv
    <3>2. rdr[r].slot \in Slots
      BY <1>5, <1>11
    <3>3. ~(rdr[r].slot <= 0)
      BY <3>2, LockFileAssumption DEF Slots
    <3> QED
      BY <2>3, <3>1, <3>3
  <2> QED
    BY <1>6, <2>2, <2>3
<1>12. OldestSafe'
  <2>1. ASSUME NEW q \in Open' PROVE q \in Pids /\ main'[q].at \in Working
    <3>1. q \in Pids /\ main'[q].at \in Points
      BY <2>1 DEF Open, Mapped, TypeOK, MainType
    <3> QED
      BY <2>1, <3>1 DEF Open, Mapped, Points, Working
  <2> QED
    BY <1>1, <1>11, <2>1 DEF OldestSafe
<1> QED
  BY <1>1, <1>7, <1>8, <1>9, <1>10, <1>12 DEF ScanInv

\* The oldest reader is never passed over: not by a scan that goes from slot to
\* slot while threads claim, verify and give up their slots, and not by one
\* whose id is kept while others commit (mdb_find_oldest, mdb_txn_renew0).
THEOREM SpecOldestSafe == Spec => []OldestSafe
<1> DEFINE Inv == WriterInv /\ ScanInv /\ OldestSafe
<1>1. Init => Inv
  <2> SUFFICES ASSUME Init PROVE ScanInv /\ OldestSafe
    BY InitWriter
  <2>1. /\ \A p \in Pids : main[p].at = "down" /\ env[p].oldest = 0
        /\ \A r \in Readers : rdr[r].at = "idle"
    BY DEF Init, NewMain, NewEnv, NewRdr
  <2> QED
    BY <2>1 DEF ScanInv, OldestSafe, Working
<1>2. LockFileInv /\ LockFileInv' /\ Inv /\ [Next]_vars => Inv'
  <2> SUFFICES ASSUME LockFileInv, LockFileInv', Inv, [Next]_vars PROVE ScanInv' /\ OldestSafe'
    BY WriterStep DEF LockFileInv
  <2>1. CASE UNCHANGED vars
    BY <2>1 DEF vars, ScanInv, OldestSafe, Open, Mapped
  <2> QED
    BY <2>1, ScanReadStep, ScanOpenStep, ScanWorkStep DEF Next, LockFileInv
<1>3. Inv => OldestSafe
  OBVIOUS
<1> HIDE DEF Inv
<1> QED
  BY <1>1, <1>2, <1>3, Invariant, PTL DEF Spec
-----------------------------------------------------------------------------
(* What a check finds.                                                     *)

USE DEF Slots, NoPid

LEMMA FreeSlotBound == ASSUME TypeOK PROVE FreeSlot <= lockf.nreaders + 1
<1> DEFINE free == {i \in 1 .. lockf.nreaders : slot[i].pid = NoPid}
<1>1. lockf.nreaders \in Nat
  BY LockFileAssumption DEF TypeOK, LockfType
<1>2. CASE free = {}
  BY <1>1, <1>2 DEF FreeSlot
<1>3. CASE free # {}
  <2>0. free \subseteq Nat
    BY <1>1
  <2>1. PICK i \in free : \A j \in free : i <= j
    <3> HIDE DEF free
    <3> QED
      BY <1>3, <2>0, NatHasMin
  <2>2. FreeSlot = CHOOSE k \in free : \A j \in free : k <= j
    BY <1>3 DEF FreeSlot
  <2>3. FreeSlot \in free
    BY <2>1, <2>2
  <2> QED
    BY <1>1, <2>3
<1> QED
  BY <1>2, <1>3

\* Only SetPid gives a slot a pid, and only Count adds a slot.
SlotsMove == \A j \in Slots : slot'[j].pid \in {slot[j].pid, NoPid}

LEMMA ReadSlots ==
  ASSUME TypeOK, TableInv, FindInv, NEW r \in Readers, Read(r)
  PROVE  /\ \A j \in Slots : slot'[j].pid \in {slot[j].pid, NoPid} \cup pidlock
         /\ \/ lockf'.nreaders = lockf.nreaders
            \/ lockf'.nreaders = lockf.nreaders + 1 /\ slot' = slot /\ slot[lockf'.nreaders].pid = NoPid
         /\ lockf.nreaders \in Nat
<1>0. /\ slot \in [Slots -> SlotType] /\ rdr[r] \in RdrType /\ rdr[r].slot \in 0 .. MaxReaders
      /\ lockf \in LockfType /\ lockf.nreaders \in Nat
  <2>1. slot \in [Slots -> SlotType] /\ rdr[r] \in RdrType /\ lockf \in LockfType
    BY DEF TypeOK
  <2> QED
    BY <2>1, LockFileAssumption DEF RdrType, LockfType
<1>1. CASE Begin(r) \/ Pidset(r) \/ Load(r) \/ Verify(r)
  BY <1>0, <1>1 DEF Begin, Pidset, Load, Verify
<1>2. CASE LockTable(r)
  <2>1. slot' = slot \/ slot' = SlotsChecked(r[1])
    BY <1>2 DEF LockTable
  <2>2. \A j \in Slots : [slot[j] EXCEPT !.pid = NoPid].pid = NoPid
    BY <1>0 DEF SlotType
  <2>3. \A j \in Slots : slot'[j].pid \in {slot[j].pid, NoPid}
    BY <2>1, <2>2 DEF SlotsChecked
  <2> QED
    BY <1>0, <1>2, <2>3 DEF LockTable
<1>3. CASE Choose(r)
  <2>1. \A j \in Slots : slot'[j].pid \in {slot[j].pid, NoPid}
    <3>1. CASE slot' = slot
      BY <3>1
    <3>2. CASE slot' = [slot EXCEPT ![FreeSlot] = [pid |-> NoPid, txnid |-> NoTxn]]
      BY <1>0, <3>2
    <3> QED
      BY <1>3, <3>1, <3>2 DEF Choose
  <2> QED
    BY <1>0, <1>3, <2>1 DEF Choose
<1>4. CASE Count(r)
  <2>1. rdr[r].at = "count" /\ slot' = slot
    BY <1>4 DEF Count, RAt
  <2>2. rdr[r].slot <= lockf.nreaders + 1 /\ slot[rdr[r].slot].pid = NoPid
    BY <2>1 DEF FindInv, TableInv, ClaimInv, Claiming
  <2>3. lockf'.nreaders = IF rdr[r].slot > lockf.nreaders THEN rdr[r].slot ELSE lockf.nreaders
    BY <1>0, <1>4 DEF Count, LockfType
  <2>4. rdr[r].slot > lockf.nreaders => rdr[r].slot = lockf.nreaders + 1
    BY <1>0, <2>2
  <2> QED
    BY <1>0, <2>1, <2>2, <2>3, <2>4
<1>5. CASE SetPid(r)
  <2>1. r[1] \in pidlock
    BY <1>5 DEF SetPid, RAt, TableInv, PidInv, ThreadInv
  <2>2. \A j \in Slots : slot'[j].pid \in {slot[j].pid, r[1]}
    BY <1>0, <1>5 DEF SetPid, SlotType
  <2> QED
    BY <1>0, <1>5, <2>1, <2>2 DEF SetPid
<1>6. CASE Store(r) \/ End(r)
  <2>1. \A j \in Slots : slot'[j].pid = slot[j].pid
    <3>1. ASSUME NEW i, NEW x, slot' = [slot EXCEPT ![i].txnid = x]
          PROVE  \A j \in Slots : slot'[j].pid = slot[j].pid
      BY <1>0, <3>1 DEF SlotType
    <3> QED
      BY <1>6, <3>1 DEF Store, End
  <2> QED
    BY <1>0, <1>6, <2>1 DEF Store, End
<1>7. CASE Release(r)
  <2>1. \A j \in Slots : slot'[j].pid \in {slot[j].pid, NoPid}
    BY <1>0, <1>7 DEF Release, SlotType
  <2> QED
    BY <1>0, <1>7, <2>1 DEF Release
<1> QED
  BY <1>1, <1>2, <1>3, <1>4, <1>5, <1>6, <1>7 DEF Read

LEMMA WorkSlots ==
  ASSUME TypeOK, NEW p \in Pids, Write(p) \/ CheckReaders(p)
  PROVE  SlotsMove /\ lockf'.nreaders = lockf.nreaders
<1>1. slot \in [Slots -> SlotType] /\ lockf \in LockfType
  BY DEF TypeOK
<1>2. \A j \in Slots : [slot[j] EXCEPT !.pid = NoPid].pid = NoPid
  BY <1>1 DEF SlotType
<1>3. ASSUME slot' = slot PROVE SlotsMove
  BY <1>3 DEF SlotsMove
<1>4. ASSUME slot' = SlotsChecked(p) PROVE SlotsMove
  BY <1>2, <1>4 DEF SlotsMove, SlotsChecked
<1>5. ASSUME Clear(p) PROVE SlotsMove
  BY <1>2, <1>5 DEF SlotsMove, Clear
<1>6. lockf'.nreaders = lockf.nreaders
  <2>1. \A x : lockf' = [lockf EXCEPT !.txnid = x] => lockf'.nreaders = lockf.nreaders
    BY <1>1 DEF LockfType
  <2> QED
    BY <2>1, WriterAt DEF WriterMove
<1>7. slot' = slot \/ slot' = SlotsChecked(p) \/ Clear(p)
  BY DEF Write, CheckReaders, LockWriter, Consistent, BeginWrite, Scan, ScanSlot, WriteMeta, Publish, Abort, EndWrite,
     Check, CheckSlot, CheckPid, CheckLock, CheckEnd
<1> QED
  BY <1>3, <1>4, <1>5, <1>6, <1>7

LEMMA OpenSlots ==
  ASSUME TypeOK, NEW p \in Pids, OpenOrClose(p)
  PROVE  SlotsMove /\ (lockf'.nreaders = lockf.nreaders \/ (main[p].at = "init" /\ lockf'.nreaders = 0))
<1>1. slot \in [Slots -> SlotType] /\ lockf \in LockfType
  BY DEF TypeOK
<1>2. \A j \in Slots : [slot[j] EXCEPT !.pid = NoPid].pid = NoPid
  BY <1>1 DEF SlotType
<1>3. ASSUME slot' = slot PROVE SlotsMove
  BY <1>3 DEF SlotsMove
<1>4. ASSUME slot' = CloseSlots(p) PROVE SlotsMove
  BY <1>2, <1>4 DEF SlotsMove, CloseSlots
<1>5. slot' = slot \/ slot' = CloseSlots(p)
  BY DEF OpenOrClose, Start, ExclLock, ShareLock, InitTable, Attach, Open2, Share, Close, Close0, Kill
<1>6. lockf'.nreaders = lockf.nreaders \/ (main[p].at = "init" /\ lockf'.nreaders = 0)
  <2>1. \A x : lockf' = [lockf EXCEPT !.txnid = x] => lockf'.nreaders = lockf.nreaders
    BY <1>1 DEF LockfType
  <2> QED
    BY <2>1, OpenAt DEF OpenMove
<1> QED
  BY <1>3, <1>4, <1>5, <1>6

\* A slot of a process that is dead has been its slot before.
LEMMA DeadSlots ==
  ASSUME TypeOK, TableInv, FindInv, [Next]_vars,
         NEW q \in Pids, main[q].at = "down",
         NEW j \in Slots, j <= lockf'.nreaders, slot'[j].pid = q
  PROVE  j <= lockf.nreaders /\ slot[j].pid = q
<1>0. q # NoPid /\ q \notin pidlock /\ j \in Nat /\ lockf.nreaders \in Nat
  BY LockFileAssumption DEF FindInv, TypeOK, LockfType, Slots, NoPid
<1>1. CASE UNCHANGED vars
  BY <1>1 DEF vars
<1>2. ASSUME NEW r \in Readers, Read(r) PROVE j <= lockf.nreaders /\ slot[j].pid = q
  <2>1. slot[j].pid = q
    BY <1>0, <1>2, ReadSlots
  <2>2. CASE lockf'.nreaders = lockf.nreaders
    BY <2>1, <2>2
  <2>3. CASE lockf'.nreaders = lockf.nreaders + 1 /\ slot[lockf'.nreaders].pid = NoPid
    <3>1. j # lockf.nreaders + 1
      BY <1>0, <2>1, <2>3
    <3> QED
      BY <1>0, <2>1, <2>3, <3>1
  <2> QED
    BY <1>2, <2>2, <2>3, ReadSlots
<1>3. ASSUME NEW p \in Pids, OpenOrClose(p) PROVE j <= lockf.nreaders /\ slot[j].pid = q
  <2>1. slot[j].pid = q
    BY <1>0, <1>3, OpenSlots DEF SlotsMove
  <2>2. lockf'.nreaders # 0
    BY LockFileAssumption DEF Slots
  <2> QED
    BY <1>3, <2>1, <2>2, OpenSlots
<1>4. ASSUME NEW p \in Pids, Write(p) \/ CheckReaders(p) PROVE j <= lockf.nreaders /\ slot[j].pid = q
  <2>1. slot[j].pid = q
    BY <1>0, <1>4, WorkSlots DEF SlotsMove
  <2> QED
    BY <1>4, <2>1, WorkSlots
<1> QED
  BY <1>1, <1>2, <1>3, <1>4 DEF Next

\* A check that does not move has still to find what it had to find.
LEMMA ToFindKept ==
  ASSUME TypeOK, TableInv, FindInv, [Next]_vars, NEW p \in Pids, Same(p), main'[p].stale \subseteq main[p].stale
  PROVE  ToFind(p)'
<1> SUFFICES ASSUME main'[p].at \in Checking, NEW q \in main'[p].stale, NEW j \in Slots,
                    j <= lockf'.nreaders, slot'[j].pid = q
             PROVE  /\ main'[p].i <= j /\ j <= main'[p].n
                    /\ main'[p].at = "check" => q \notin main'[p].seen
                    /\ main'[p].at # "check" => q = main'[p].pid \/ (q \notin main'[p].seen /\ j # main'[p].i)
  BY DEF ToFind
<1>1. q \in Pids /\ main[q].at = "down" /\ q \in main[p].stale
  BY DEF TypeOK, MainType, FindInv
<1>2. j <= lockf.nreaders /\ slot[j].pid = q
  BY <1>1, DeadSlots
<1> QED
  BY <1>1, <1>2 DEF FindInv, ToFind, Same
LEMMA FindReadStep ==
  ASSUME TypeOK, TableInv, FindInv, [Next]_vars, NEW r \in Readers, Read(r)
  PROVE  FindInv'
<1>1. main' = main
  BY ReadSame
<1>2. rdr \in [Readers -> RdrType] /\ r[1] \in Pids
  BY ReaderFacts DEF TypeOK
<1>3. \A q \in Pids : main'[q].at = "down" => q \notin pidlock'
  <2>1. pidlock' = pidlock \/ (pidlock' = pidlock \cup {r[1]} /\ r[1] \in Open)
    BY DEF Read, Begin, Pidset, LockTable, Choose, Count, SetPid, Load, Store, Verify, End, Release, RAt
  <2>2. r[1] \in Open => main[r[1]].at # "down"
    BY DEF Open, Mapped
  <2> QED
    BY <1>1, <2>1, <2>2 DEF FindInv
<1>4. ASSUME NEW s \in Readers, rdr'[s].at = "count" PROVE rdr'[s].slot <= lockf'.nreaders + 1
  <2>1. ASSUME NEW x, RGoto(r, x)
        PROVE  rdr'[r].at = x /\ rdr'[r].slot = rdr[r].slot /\ \A o \in Readers \ {r} : rdr'[o] = rdr[o]
    BY <1>2, <2>1 DEF RGoto, RdrType
  <2>2. CASE Choose(r)
    <3>1. CASE RGoto(r, "idle")
      <4>1. s # r /\ rdr'[s] = rdr[s] /\ lockf' = lockf
        BY <1>4, <2>1, <2>2, <3>1 DEF Choose
      <4> QED
        BY <1>4, <4>1 DEF FindInv
    <3>2. CASE rdr' = [rdr EXCEPT ![r].at = "count", ![r].slot = FreeSlot]
      <4>1. rdr'[r].slot = FreeSlot /\ \A o \in Readers \ {r} : rdr'[o] = rdr[o]
        BY <1>2, <3>2 DEF RdrType
      <4>2. lockf' = lockf
        BY <2>2 DEF Choose
      <4> QED
        BY <1>4, <4>1, <4>2, FreeSlotBound DEF FindInv
    <3> QED
      BY <2>2, <3>1, <3>2 DEF Choose
  <2>3. CASE ~Choose(r)
    <3>1. s # r
      <4>1. ASSUME s = r, Begin(r) PROVE FALSE
        <5>1. \E x \in {"load", "claim", "pidset"} : RGoto(r, x)
          BY <4>1 DEF Begin
        <5> QED
          BY <1>4, <2>1, <4>1, <5>1
      <4>2. ASSUME s = r, Verify(r) PROVE FALSE
        <5>1. \E x \in {"load", "reading"} : RGoto(r, x)
          BY <4>2 DEF Verify
        <5> QED
          BY <1>4, <2>1, <4>2, <5>1
      <4>3. ASSUME s = r, Pidset(r) \/ LockTable(r) \/ Count(r) \/ SetPid(r) \/ Store(r) PROVE FALSE
        BY <1>4, <2>1, <4>3 DEF Pidset, LockTable, Count, SetPid, Store
      <4>4. ASSUME s = r, Load(r) PROVE FALSE
        BY <1>2, <1>4, <4>4 DEF Load, RdrType
      <4>5. ASSUME s = r, End(r) PROVE FALSE
        BY <1>2, <1>4, <4>5 DEF End, RdrType
      <4>6. ASSUME s = r, Release(r) PROVE FALSE
        BY <1>2, <1>4, <4>6 DEF Release, RAt, RdrType
      <4> QED
        BY <2>3, <4>1, <4>2, <4>3, <4>4, <4>5, <4>6 DEF Read
    <3>2. rdr'[s] = rdr[s]
      BY <1>2, <3>1 DEF Read, Begin, Pidset, LockTable, Choose, Count, SetPid, Load, Store, Verify, End, Release, RGoto
    <3>3. rdr[s].slot <= lockf.nreaders + 1
      BY <1>4, <3>2 DEF FindInv
    <3>4. rdr[s].slot \in Nat
      BY <1>2 DEF RdrType
    <3> QED
      BY <3>2, <3>3, <3>4, ReadSlots
  <2> QED
    BY <2>2, <2>3
<1>5. \A p \in Pids : \A q \in main'[p].stale : q # p /\ main'[q].at = "down"
  BY <1>1 DEF FindInv
<1>6. \A p \in Pids : ToFind(p)'
  BY <1>1, ToFindKept DEF Same
<1> QED
  BY <1>3, <1>4, <1>5, <1>6 DEF FindInv

LEMMA FindOpenStep ==
  ASSUME TypeOK, FlockInv, TableInv, FindInv, [Next]_vars, NEW p \in Pids, OpenOrClose(p)
  PROVE  FindInv'
<1>0. main \in [Pids -> MainType] /\ pidlock \subseteq Pids
  BY DEF TypeOK
<1>1. /\ Moved(p) /\ (\A q \in Pids \ {p} : Same(q))
      /\ ~Start(p) => \A q \in Pids \ {p} : main'[q] = main[q]
  BY OpenOrCloseAt, OthersSame
<1>2. \A q \in Pids : main'[q].at = "down" => q \notin pidlock'
  <2>1. CASE Close0(p) \/ Kill(p)
    <3>1. main'[p].at # "down" => pidlock' = pidlock
      BY <1>0, <2>1, NewMainAt DEF Close0, Kill
    <3>2. pidlock' = pidlock \/ pidlock' = pidlock \ {p}
      BY <2>1 DEF Close0, Kill, Unlocked
    <3>3. main'[p].at = "down" => p \notin pidlock'
      <4>1. CASE Unlocked(p)
        BY <4>1 DEF Unlocked
      <4>2. CASE Goto(p, "closed")
        BY <4>2, GotoAt
      <4> QED
        BY <2>1, <4>1, <4>2 DEF Close0, Kill
    <3> QED
      BY <1>1, <3>2, <3>3 DEF FindInv, Same
  <2>2. CASE ~(Close0(p) \/ Kill(p))
    <3>1. pidlock' = pidlock /\ main[p].at # "closed"
      BY <2>2 DEF OpenOrClose, Start, ExclLock, ShareLock, InitTable, Attach, Open2, Share, Close, At
    <3>2. main'[p].at # "down"
      <4>1. \A x \in {"init", "wait", "attach", "open2", "closing", "publish", "up", "downgrade"} :
              Goto(p, x) => main'[p].at = x
        BY GotoAt
      <4>2. CASE ExclLock(p) \/ ShareLock(p) \/ Close(p) \/ Share(p)
        BY <4>1, <4>2 DEF ExclLock, ShareLock, Close, Share, ShareTxnid
      <4>3. CASE Attach(p) \/ Open2(p)
        BY <4>1, <4>3 DEF Attach, Open2
      <4>4. CASE Start(p)
        BY <4>4 DEF Start, NewMain
      <4>5. CASE InitTable(p)
        BY <1>0, <4>5 DEF InitTable, MainType
      <4> QED
        BY <2>2, <4>2, <4>3, <4>4, <4>5 DEF OpenOrClose
    <3> QED
      BY <1>1, <3>1, <3>2 DEF FindInv, Same
  <2> QED
    BY <2>1, <2>2
<1>3. ASSUME NEW r \in Readers, rdr'[r].at = "count" PROVE rdr'[r].slot <= lockf'.nreaders + 1
  <2>1. rdr' = rdr \/ NoReaders(p)
    BY DEF OpenOrClose, Start, ExclLock, ShareLock, InitTable, Attach, Open2, Share, Close, Close0, Kill
  <2>2. rdr'[r] = rdr[r]
    BY <1>3, <2>1 DEF NoReaders, NewRdr
  <2>3. main[p].at # "init"
    <3> SUFFICES ASSUME main[p].at = "init" PROVE FALSE
      OBVIOUS
    <3>1. ThreadInv(r) /\ r[1] \in Pids
      BY ReaderFacts DEF TableInv
    <3>2. ~InTable(r[1])
      BY <3>1 DEF FlockInv, InTable, Working
    <3> QED
      BY <1>3, <2>2, <3>1, <3>2 DEF ThreadInv, NewRdr
  <2>4. lockf'.nreaders = lockf.nreaders
    BY <2>3, OpenSlots
  <2> QED
    BY <1>3, <2>2, <2>4 DEF FindInv
<1>4. \A o \in Pids : main'[o].stale \subseteq main[o].stale \ (IF Start(p) THEN {p} ELSE {})
  <2>1. CASE Start(p)
    <3>1. main'[p].stale = {}
      BY <1>0, <2>1 DEF Start, NewMain
    <3>2. ASSUME NEW o \in Pids \ {p} PROVE main'[o].stale = main[o].stale \ {p}
      <4>1. main[o] \in MainType /\ main'[o] = [main[o] EXCEPT !.stale = @ \ {p}]
        BY <1>0, <2>1 DEF Start
      <4> QED
        BY <4>1 DEF MainType
    <3> QED
      BY <2>1, <3>1, <3>2
  <2>2. CASE ~Start(p)
    <3>1. main'[p].stale \subseteq main[p].stale
      <4>1. ASSUME NEW x, Goto(p, x) PROVE main'[p].stale = main[p].stale
        BY <1>0, <4>1 DEF Goto, MainType
      <4>2. CASE ExclLock(p) \/ ShareLock(p) \/ Attach(p) \/ Open2(p) \/ Share(p) \/ Close(p)
        BY <4>1, <4>2 DEF ExclLock, ShareLock, Attach, Open2, Share, ShareTxnid, Close
      <4>3. CASE InitTable(p)
        BY <1>0, <4>3 DEF InitTable, MainType
      <4>4. main' = [main EXCEPT ![p] = NewMain] => main'[p].stale = {}
        BY <1>0 DEF NewMain
      <4>5. CASE Close0(p) \/ Kill(p)
        BY <4>1, <4>4, <4>5 DEF Close0, Kill
      <4> QED
        BY <2>2, <4>2, <4>3, <4>5 DEF OpenOrClose
    <3> QED
      BY <1>1, <2>2, <3>1
  <2> QED
    BY <2>1, <2>2
<1>5. main[p].at = "down" => Start(p)
  BY DEF OpenOrClose, ExclLock, ShareLock, InitTable, Attach, Open2, Share, Close, Close0, Kill, At
<1>6. ASSUME NEW o \in Pids, NEW q \in main'[o].stale PROVE q # o /\ main'[q].at = "down"
  <2>1. q \in main[o].stale /\ q # o /\ main[q].at = "down" /\ q \in Pids
    BY <1>0, <1>4, <1>6 DEF FindInv, MainType
  <2>2. q # p
    BY <1>4, <1>5, <1>6, <2>1
  <2> QED
    BY <1>1, <2>1, <2>2 DEF Same
<1>7. ASSUME NEW o \in Pids PROVE ToFind(o)'
  <2>1. CASE o = p
    BY <2>1, OpenAt DEF ToFind, Checking, Working
  <2>2. CASE o # p
    BY <1>1, <1>4, <2>2, ToFindKept
  <2> QED
    BY <2>1, <2>2
<1> QED
  BY <1>2, <1>3, <1>6, <1>7 DEF FindInv

\* The check itself.
LEMMA FindWorkStep ==
  ASSUME TypeOK, TableInv, FindInv, [Next]_vars, NEW p \in Pids, Write(p) \/ CheckReaders(p)
  PROVE  FindInv'
<1> DEFINE m == main[p]
           n == main'[p]
<1>1. /\ UNCHANGED <<pidlock, rdr>> /\ m.at \in Working /\ n.at \in Working
      /\ \A q \in Pids \ {p} : main'[q] = main[q] /\ Same(q)
      /\ lockf'.nreaders = lockf.nreaders
  <2>1. ~Start(p)
    BY WorkAt DEF Worked, Start, At, Working
  <2> QED
    BY <2>1, WorkAt, OthersSame, WorkSlots DEF Worked
<1>2. /\ m \in MainType /\ main \in [Pids -> MainType] /\ WithinTable(m)
      /\ m.i \in Int /\ m.n \in Int /\ lockf.nreaders \in Nat
  <2>1. m \in MainType /\ main \in [Pids -> MainType] /\ WithinTable(m) /\ lockf \in LockfType
    BY DEF TypeOK
  <2> QED
    BY <2>1, LockFileAssumption DEF MainType, LockfType
<1>3. \A q \in Pids : main'[q].at = "down" => q \notin pidlock'
  BY <1>1 DEF FindInv, Working
<1>4. \A r \in Readers : rdr'[r].at = "count" => rdr'[r].slot <= lockf'.nreaders + 1
  BY <1>1 DEF FindInv
\* A check begins, and it has all the slots to look at.
<1>5. CASE \E next \in {"up", "consistent"} : main' = [main EXCEPT ![p] = CheckFrom(p, next)]
  <2>1. /\ n.at = "check" /\ n.i = 1 /\ n.n = lockf.nreaders /\ n.seen = {}
        /\ n.stale = {q \in Pids \ {p} : At(q, "down") /\ \E i \in Slots :
                                                  i <= lockf.nreaders /\ slot[i].pid = q}
    BY <1>2, <1>5 DEF CheckFrom, NewMain
  <2>2. ToFind(p)'
    BY <1>1, <2>1 DEF ToFind
  <2>3. \A q \in n.stale : q # p /\ main'[q].at = "down"
    BY <1>1, <2>1 DEF At, Same
  <2>4. \A o \in Pids : \A q \in main'[o].stale : q # o /\ main'[q].at = "down"
    <3>1. ASSUME NEW o \in Pids \ {p}, NEW q \in main'[o].stale PROVE q # o /\ main'[q].at = "down"
      <4>1. main[o].stale \subseteq Pids
        BY <1>2 DEF MainType
      <4>2. q # o /\ main[q].at = "down" /\ q \in Pids
        BY <1>1, <3>1, <4>1 DEF FindInv
      <4> QED
        BY <1>1, <4>2 DEF Same, Working
    <3> QED
      BY <2>3, <3>1
  <2>5. \A o \in Pids : ToFind(o)'
    BY <1>1, <2>2, ToFindKept
  <2> QED
    BY <1>3, <1>4, <2>4, <2>5 DEF FindInv
<1>6. CASE ~\E next \in {"up", "consistent"} : main' = [main EXCEPT ![p] = CheckFrom(p, next)]
  <2>0. m.next \in {"up", "consistent"} /\ ~Check(p)
    BY <1>2, <1>6 DEF MainType, Check
  <2>1. n.stale \subseteq m.stale
    <3>1. ASSUME NEW x, main' = [main EXCEPT ![p] = [NewMain EXCEPT !.at = x]] PROVE n.stale = {}
      BY <1>2, <3>1 DEF NewMain
    <3>2. CASE CheckReaders(p)
      <4>1. CASE CheckEnd(p)
        BY <3>1, <4>1 DEF CheckEnd
      <4>2. CASE CheckSlot(p) \/ CheckPid(p) \/ CheckLock(p) \/ Clear(p)
        <5>1. CASE main' = [main EXCEPT ![p].i = @ + 1]
          BY <1>2, <5>1 DEF MainType
        <5>2. ASSUME NEW x, main' = [main EXCEPT ![p].at = "pidcheck", ![p].pid = x, ![p].seen = @ \cup {x}]
              PROVE  n.stale = m.stale
          BY <1>2, <5>2 DEF MainType
        <5>3. CASE main' = [main EXCEPT ![p].at = "check", ![p].i = @ + 1, ![p].pid = NoPid]
          BY <1>2, <5>3 DEF MainType
        <5>4. CASE main' = [main EXCEPT ![p].at = "check", ![p].n = 0, ![p].pid = NoPid]
          BY <1>2, <5>4 DEF MainType
        <5>5. ASSUME NEW x, main' = [main EXCEPT ![p].at = x] PROVE n.stale = m.stale
          BY <1>2, <5>5 DEF MainType
        <5> QED
          BY <4>2, <5>1, <5>2, <5>3, <5>4, <5>5 DEF CheckSlot, CheckPid, CheckLock, Clear, Goto
      <4> QED
        BY <2>0, <3>2, <4>1, <4>2 DEF CheckReaders
    <3>3. CASE Write(p)
      <4>1. ASSUME NEW x, main' = [main EXCEPT ![p].at = x] PROVE n.stale = m.stale
        BY <1>2, <4>1 DEF MainType
      <4>2. CASE LockWriter(p) \/ Consistent(p) \/ WriteMeta(p)
        BY <1>6, <4>1, <4>2 DEF LockWriter, Consistent, WriteMeta, Goto
      <4>3. CASE BeginWrite(p)
        BY <1>2, <4>3 DEF BeginWrite, MainType
      <4>4. CASE Scan(p)
        BY <1>2, <4>4 DEF Scan, MainType
      <4>5. CASE ScanSlot(p)
        <5>1. CASE main' = [main EXCEPT ![p].i = @ - 1]
          BY <1>2, <5>1 DEF MainType
        <5>2. CASE ScanTxnid(p)
          <6> DEFINE id == slot[main[p].i].txnid
          <6>1. main' = [main EXCEPT ![p].at = "scan", ![p].i = @ - 1, ![p].old = IF @ > id THEN id ELSE @]
            BY <5>2 DEF ScanTxnid
          <6> HIDE DEF id
          <6> QED
            BY <1>2, <6>1 DEF MainType
        <5>3. CASE main' = [main EXCEPT ![p].at = "begun", ![p].old = 0]
          BY <1>2, <5>3 DEF MainType
        <5> QED
          BY <4>1, <4>5, <5>1, <5>2, <5>3 DEF ScanSlot
      <4>6. CASE Publish(p) \/ Abort(p)
        BY <1>2, <4>6 DEF Publish, Abort, EndWrite, MainType
      <4> QED
        BY <3>3, <4>2, <4>3, <4>4, <4>5, <4>6 DEF Write
    <3> QED
      BY <3>2, <3>3
  <2>2. ToFind(p)'
    <3> SUFFICES ASSUME n.at \in Checking, NEW q \in n.stale, NEW j \in Slots,
                        j <= lockf'.nreaders, slot'[j].pid = q
                 PROVE  /\ n.i <= j /\ j <= n.n
                        /\ n.at = "check" => q \notin n.seen
                        /\ n.at # "check" => q = n.pid \/ (q \notin n.seen /\ j # n.i)
      BY DEF ToFind
    <3>1. q \in m.stale /\ q \in Pids /\ q # p /\ main[q].at = "down"
      BY <1>2, <2>1 DEF FindInv, MainType
    <3>2. /\ q \notin pidlock /\ q # NoPid /\ j \in Int
          /\ j <= lockf.nreaders /\ slot[j].pid = q
      BY <3>1, DeadSlots, LockFileAssumption DEF FindInv
    <3>3. /\ \/ m.at = "check" /\ (CheckSlot(p) \/ CheckEnd(p))
             \/ m.at = "pidcheck" /\ CheckPid(p)
             \/ m.at = "checklock" /\ CheckLock(p)
             \/ m.at = "clear" /\ Clear(p)
          /\ ~CheckEnd(p)
      <4>1. ~CheckEnd(p)
        BY <1>2, <2>0 DEF CheckEnd, NewMain, Checking
      <4>2. ~Write(p)
        <5>1. m.at \notin Checking \cup {"up"} => n.at \notin Checking
          BY WriterAt DEF WriterMove, Writing, Checking
        <5>2. Write(p) => m.at \notin Checking
          BY DEF Write, LockWriter, Consistent, BeginWrite, Scan, ScanSlot, WriteMeta, Publish, Abort, At, Checking
        <5>3. Write(p) /\ m.at = "up" => Goto(p, "locked")
          BY <1>6 DEF Write, LockWriter, Consistent, BeginWrite, Scan, ScanSlot, WriteMeta, Publish, Abort, At
        <5> QED
          BY <5>1, <5>2, <5>3, GotoAt DEF Checking
      <4> QED
        BY <2>0, <4>1, <4>2 DEF CheckReaders, CheckSlot, CheckPid, CheckLock, Clear, CheckEnd, At
    <3>4. /\ m.i <= j /\ j <= m.n
          /\ m.at = "check" => q \notin m.seen
          /\ m.at # "check" => q = m.pid \/ (q \notin m.seen /\ j # m.i)
      BY <3>1, <3>2, <3>3 DEF FindInv, ToFind, Checking
    <3> HIDE DEF m, n
    <3>5. CASE m.at = "check"
      <4> DEFINE x == slot[m.i].pid
      <4>1. main' = IF x \in {NoPid, p} \cup m.seen THEN [main EXCEPT ![p].i = @ + 1]
                    ELSE [main EXCEPT ![p].at = "pidcheck", ![p].pid = x, ![p].seen = @ \cup {x}]
        BY <3>3, <3>5 DEF CheckSlot, m
      <4>2. j = m.i => q = x
        BY <3>2
      <4> HIDE DEF x
      <4>3. CASE main' = [main EXCEPT ![p].i = @ + 1] /\ x \in {NoPid, p} \cup m.seen
        <5>1. n.i = m.i + 1 /\ n.n = m.n /\ n.seen = m.seen /\ n.at = m.at
          BY <1>2, <4>3 DEF m, n, MainType
        <5>2. j # m.i
          BY <3>1, <3>2, <3>4, <3>5, <4>2, <4>3
        <5> QED
          BY <1>2, <3>2, <3>4, <3>5, <5>1, <5>2
      <4>4. CASE main' = [main EXCEPT ![p].at = "pidcheck", ![p].pid = x, ![p].seen = @ \cup {x}]
        <5>1. n.i = m.i /\ n.n = m.n /\ n.seen = m.seen \cup {x} /\ n.at = "pidcheck" /\ n.pid = x
          BY <1>2, <4>4 DEF m, n, MainType
        <5> QED
          BY <3>4, <3>5, <4>2, <5>1
      <4> QED
        BY <4>1, <4>3, <4>4
    <3>6. ASSUME main' = [main EXCEPT ![p].at = "check", ![p].i = @ + 1, ![p].pid = NoPid]
          PROVE  n.i = m.i + 1 /\ n.n = m.n /\ n.seen = m.seen /\ n.at = "check"
      BY <1>2, <3>6 DEF m, n, MainType
    <3>7. ASSUME NEW x, main' = [main EXCEPT ![p].at = x]
          PROVE  n.i = m.i /\ n.n = m.n /\ n.seen = m.seen /\ n.pid = m.pid /\ n.at = x
      BY <1>2, <3>7 DEF m, n, MainType
    <3>8. CASE m.at = "pidcheck"
      <4>1. CASE Alive(m.pid)
        <5>1. main' = [main EXCEPT ![p].at = "check", ![p].i = @ + 1, ![p].pid = NoPid]
          BY <3>3, <3>8, <4>1 DEF CheckPid, m
        <5>2. q # m.pid
          BY <3>2, <4>1 DEF Alive
        <5> QED
          BY <1>2, <3>2, <3>4, <3>6, <3>8, <5>1, <5>2
      <4>2. CASE ~Alive(m.pid)
        <5>1. main' = [main EXCEPT ![p].at = "checklock"]
          BY <3>3, <3>8, <4>2 DEF CheckPid, m
        <5> QED
          BY <3>4, <3>7, <3>8, <5>1
      <4> QED
        BY <4>1, <4>2
    <3>9. CASE m.at = "checklock"
      <4>1. CASE Goto(p, "clear")
        BY <3>4, <3>7, <3>9, <4>1 DEF Goto
      <4>2. CASE slot' = SlotsChecked(p)
        <5>1. slot'[j].pid = NoPid
          <6>1. slot'[j] = [slot[j] EXCEPT !.pid = NoPid]
            BY <3>1, <3>2, <4>2 DEF SlotsChecked, Alive
          <6>2. slot[j] \in SlotType
            BY DEF TypeOK
          <6> QED
            BY <6>1, <6>2 DEF SlotType
        <5> QED
          BY <3>2, <5>1
      <4> QED
        BY <3>3, <3>9, <4>1, <4>2 DEF CheckLock
    <3>10. CASE m.at = "clear"
      <4>1. main' = [main EXCEPT ![p].at = "check", ![p].i = @ + 1, ![p].pid = NoPid]
        BY <3>3, <3>10 DEF Clear
      <4>2. q # m.pid
        <5> SUFFICES ASSUME q = m.pid PROVE FALSE
          OBVIOUS
        <5>1. ~Recheck(p) /\ j \in StaleSlots(p)
          BY <1>2, <3>2, <3>4 DEF Recheck, Alive, StaleSlots, m
        <5>2. slot'[j] = [slot[j] EXCEPT !.pid = NoPid]
          BY <3>3, <3>10, <5>1 DEF Clear
        <5>3. slot[j] \in SlotType
          BY DEF TypeOK
        <5> QED
          BY <3>2, <5>2, <5>3 DEF SlotType
      <4> QED
        BY <1>2, <3>2, <3>4, <3>6, <3>10, <4>1, <4>2
    <3> QED
      BY <3>3, <3>5, <3>8, <3>9, <3>10
  <2>3. \A o \in Pids : \A q \in main'[o].stale : q # o /\ main'[q].at = "down"
    <3>1. ASSUME NEW o \in Pids, NEW q \in main'[o].stale PROVE q # o /\ main'[q].at = "down"
      <4>1. main[o].stale \subseteq Pids
        BY <1>2 DEF MainType
      <4>2. q # o /\ main[q].at = "down" /\ q \in Pids
        BY <1>1, <2>1, <3>1, <4>1 DEF FindInv
      <4> QED
        BY <1>1, <4>2 DEF Same, Working
    <3> QED
      BY <3>1
  <2>4. \A o \in Pids : ToFind(o)'
    BY <1>1, <2>2, ToFindKept
  <2> QED
    BY <1>3, <1>4, <2>3, <2>4 DEF FindInv
<1> QED
  BY <1>5, <1>6

\* A check for dead readers leaves no slot to a process that was dead when it
\* began and did not come back, though it looks at the slots without the mutex
\* while they are claimed and given up, and at each pid once (mdb_reader_check0).
THEOREM SpecCheckFindsAll == Spec => []CheckFindsAll
<1>1. Init => FindInv
  <2> SUFFICES ASSUME Init PROVE FindInv
    OBVIOUS
  <2>1. /\ \A p \in Pids : main[p].at = "down" /\ main[p].stale = {}
        /\ \A r \in Readers : rdr[r].at = "idle"
        /\ pidlock = {}
    BY DEF Init, NewMain, NewRdr
  <2> QED
    BY <2>1 DEF FindInv, ToFind, Checking
<1>2. LockFileInv /\ FindInv /\ [Next]_vars => FindInv'
  <2> SUFFICES ASSUME TypeOK, FlockInv, TableInv, FindInv, [Next]_vars PROVE FindInv'
    BY DEF LockFileInv
  <2>1. CASE UNCHANGED vars
    BY <2>1 DEF vars, FindInv, ToFind
  <2> QED
    BY <2>1, FindReadStep, FindOpenStep, FindWorkStep DEF Next
<1>3. LockFileInv /\ FindInv => CheckFindsAll
  <2> SUFFICES ASSUME LockFileInv, FindInv, NEW p \in Pids, main[p].at = "check", main[p].i > main[p].n,
                      NEW q \in main[p].stale, NEW i \in 1 .. lockf.nreaders, slot[i].pid = q
               PROVE  FALSE
    BY DEF CheckFindsAll, At
  <2>1. main[p] \in MainType /\ lockf.nreaders \in 0 .. MaxReaders
    BY DEF LockFileInv, TypeOK, LockfType
  <2>2. main[p].i \in Int /\ main[p].n \in Int
    BY <2>1, LockFileAssumption DEF MainType
  <2>3. i \in Slots /\ i <= lockf.nreaders
    BY <2>1, LockFileAssumption
  <2>4. main[p].i <= i /\ i <= main[p].n
    BY <2>3 DEF FindInv, ToFind, Checking
  <2> QED
    BY <2>2, <2>3, <2>4, LockFileAssumption
<1> QED
  BY <1>1, <1>2, <1>3, Invariant, PTL DEF Spec
=============================================================================
