---------------------------- MODULE HandlesProof ----------------------------
(***************************************************************************)
(* Proofs about Handles, for any number of transactions and cursors, when  *)
(* callers keep to the documentation (Habits = {}).                        *)
(*                                                                         *)
(* The native objects that are active and the Txn objects that are Ready   *)
(* belong to each other one to one, and mt_child and mt_parent agree: so a *)
(* transaction that ends without a Ready child frees nothing but itself.   *)
(***************************************************************************)
EXTENDS Handles, TLAPS

Active(n) == ntxn[n].st = "active"

NativeType == [st : {"none", "active", "finished", "freed"}, ro : BOOLEAN,
               parent : Natives \cup {NoTxn}, child : Natives \cup {NoTxn},
               by : Txns \cup {NoTxn}]
CursorType == [kt : {"new", "open", "closed"}, nat : {"none", "live", "freed"},
               txn : Natives \cup {NoTxn}, tracked : BOOLEAN, of : Txns \cup {NoTxn}]

\* isOpened says what the environment can do, and only an active one has
\* transactions; nativeMain leaves isOpened set.
EnvInv == /\ env = "created" => ~ktEnv.isOpened
          /\ env = "freed" /\ platform = "jvm" => ~ktEnv.isOpened
          /\ \A n \in Natives : Active(n) => env = "active"

\* Whoever is Ready has an active transaction of its own, and the reverse.
OwnInv == /\ ReadyIsActive
          /\ \A n \in Natives : Active(n) => /\ ntxn[n].by \in Txns
                                             /\ state[ntxn[n].by] = "Ready"
                                             /\ ptr[ntxn[n].by] = n
          /\ \A t \in Txns : state[t] = "new" => ntxn[t].st = "none"

\* A transaction and its child know of each other, while both are active.
LineInv == \A n \in Natives :
             /\ ntxn[n].child # NoTxn => /\ Active(n) /\ Active(ntxn[n].child)
                                         /\ ntxn[ntxn[n].child].parent = n
             /\ Active(n) /\ ntxn[n].parent # NoTxn => ntxn[ntxn[n].parent].child = n

\* A cursor of a live transaction is live and belongs to it; one that no
\* transaction tracks stays live until it is closed.
CursorInv == \A c \in Cursors : cur[c].kt = "open" =>
               /\ cur[c].of \in Txns /\ state[cur[c].of] # "new"
               /\ ~cur[c].tracked => cur[c].nat = "live"
               /\ state[cur[c].of] = "Ready" => cur[c].nat = "live" /\ cur[c].txn = ptr[cur[c].of]

HandlesInv == TypeOK /\ ~stale /\ EnvInv /\ OwnInv /\ LineInv /\ CursorInv

-----------------------------------------------------------------------------
(* What the careful caller's guards give.                                  *)

LEMMA ReadyFacts ==
  ASSUME HandlesInv, NEW t \in Txns, state[t] = "Ready"
  PROVE  ptr[t] \in Natives /\ Active(ptr[t]) /\ ~Freed(ptr[t]) /\ ntxn[ptr[t]].by = t
<1>1. Active(ptr[t]) /\ ntxn[ptr[t]].by = t
  BY DEF HandlesInv, OwnInv, ReadyIsActive, Active
<1>2. ptr[t] \in Natives
  BY DEF HandlesInv, TypeOK
<1> QED
  BY <1>1, <1>2 DEF Active, Freed

\* Without a Ready child there is no child.
LEMMA NoChild ==
  ASSUME HandlesInv, Habits = {}, NEW t \in Txns, state[t] = "Ready", MayEnd(t)
  PROVE  ntxn[ptr[t]].child = NoTxn
<1> SUFFICES ASSUME ntxn[ptr[t]].child # NoTxn PROVE FALSE
  OBVIOUS
<1> DEFINE k == ntxn[ptr[t]].child
<1>1. ptr[t] \in Natives
  BY ReadyFacts
<1>2. Active(k) /\ ntxn[k].parent = ptr[t]
  BY <1>1 DEF HandlesInv, LineInv
<1>3. k \in Natives
  BY <1>1 DEF HandlesInv, TypeOK
<1>4. ntxn[k].by \in Txns /\ state[ntxn[k].by] = "Ready" /\ ptr[ntxn[k].by] = k
  BY <1>2, <1>3 DEF HandlesInv, OwnInv
<1>5. HasReadyChild(t)
  BY <1>2, <1>4 DEF HasReadyChild
<1> QED
  BY <1>5 DEF MayEnd

\* Then mt_child leads nowhere.
LEMMA LineAlone ==
  ASSUME NEW n \in Natives, ntxn[n].child = NoTxn
  PROVE  Line(n) = {n}
<1>1. n \in Line(n)
  BY DEF Line
<1>2. ASSUME NEW m \in Line(n) PROVE m = n
  <2>1. {n} \in SUBSET Natives
    OBVIOUS
  <2>2. \A k \in {n} : ntxn[k].child # NoTxn => ntxn[k].child \in {n}
    OBVIOUS
  <2>3. m \in {n}
    BY <1>2, <2>1, <2>2 DEF Line
  <2> QED
    BY <2>3
<1> QED
  BY <1>1, <1>2

LEMMA EndedAlone ==
  ASSUME HandlesInv, NEW n \in Natives, Active(n), ntxn[n].child = NoTxn, EndNative(n)
  PROVE  /\ ntxn' \in [Natives -> NativeType]
         /\ ntxn'[n].st \in {"finished", "freed"} /\ ntxn'[n].child = NoTxn
         /\ \A m \in Natives \ {n} :
              /\ ntxn'[m].st = ntxn[m].st /\ ntxn'[m].by = ntxn[m].by
              /\ ntxn'[m].parent = ntxn[m].parent
              /\ ntxn'[m].child = IF ntxn[m].child = n THEN NoTxn ELSE ntxn[m].child
         /\ cur' = [c \in Cursors |->
                      IF cur[c].nat = "live" /\ cur[c].tracked /\ cur[c].txn = n
                      THEN [cur[c] EXCEPT !.nat = "freed"] ELSE cur[c]]
<1>1. Line(n) = {n}
  BY LineAlone
<1>2. ntxn' = [m \in Natives |->
        IF m = n
        THEN [NewTxn EXCEPT !.st = IF m = Txn0 /\ ntxn[m].st = "active" THEN "finished" ELSE "freed",
                            !.ro = ntxn[m].ro]
        ELSE IF ntxn[m].child = n THEN [ntxn[m] EXCEPT !.child = NoTxn] ELSE ntxn[m]]
  BY <1>1 DEF EndNative, Ended
<1>3. ntxn \in [Natives -> NativeType]
  BY DEF HandlesInv, TypeOK, NativeType
<1>4. cur' = [c \in Cursors |->
        IF cur[c].nat = "live" /\ cur[c].tracked /\ cur[c].txn = n
        THEN [cur[c] EXCEPT !.nat = "freed"] ELSE cur[c]]
  BY <1>1 DEF EndNative, CursorsClosed
<1>5. ntxn'[n] = [st |-> IF n = Txn0 THEN "finished" ELSE "freed", ro |-> ntxn[n].ro,
                  parent |-> NoTxn, child |-> NoTxn, by |-> NoTxn]
  BY <1>2 DEF NewTxn, Active
<1>6. ASSUME NEW m \in Natives \ {n}
      PROVE  ntxn'[m] = IF ntxn[m].child = n THEN [ntxn[m] EXCEPT !.child = NoTxn] ELSE ntxn[m]
  BY <1>2
<1>7. ASSUME NEW m \in Natives \ {n}
      PROVE  /\ ntxn'[m] \in NativeType
             /\ ntxn'[m].st = ntxn[m].st /\ ntxn'[m].by = ntxn[m].by
             /\ ntxn'[m].parent = ntxn[m].parent
             /\ ntxn'[m].child = IF ntxn[m].child = n THEN NoTxn ELSE ntxn[m].child
  <2>1. ntxn[m] \in NativeType
    BY <1>3
  <2>2. CASE ntxn[m].child = n
    <3>1. ntxn'[m] = [ntxn[m] EXCEPT !.child = NoTxn]
      BY <1>6, <2>2
    <3> QED
      BY <2>1, <2>2, <3>1 DEF NativeType
  <2>3. CASE ntxn[m].child # n
    BY <1>6, <2>1, <2>3
  <2> QED
    BY <2>2, <2>3
<1>8. ntxn' \in [Natives -> NativeType]
  <2>1. ntxn[n] \in NativeType
    BY <1>3
  <2>2. ntxn'[n] \in NativeType
    BY <1>5, <2>1 DEF NativeType
  <2>3. \A m \in Natives : ntxn'[m] \in NativeType
    BY <1>7, <2>2
  <2> QED
    BY <1>2, <2>3
<1> QED
  BY <1>4, <1>5, <1>7, <1>8

\* Nothing but cursors and transactions that are not Ready changes.
LEMMA QuietStep ==
  ASSUME HandlesInv, TypeOK', ~stale', UNCHANGED <<platform, ktEnv, env, ptr, ntxn>>,
         \A t \in Txns : state'[t] = "Ready" => state[t] = "Ready",
         \A t \in Txns : state[t] = "Ready" => state'[t] = "Ready",
         \A t \in Txns : state'[t] = "new" => state[t] = "new",
         CursorInv'
  PROVE  HandlesInv'
<1>1. EnvInv'
  BY DEF HandlesInv, EnvInv, Active
<1>2. OwnInv'
  <2>1. ReadyIsActive'
    BY DEF HandlesInv, OwnInv, ReadyIsActive
  <2>2. \A n \in Natives : Active(n)' =>
          ntxn'[n].by \in Txns /\ state'[ntxn'[n].by] = "Ready" /\ ptr'[ntxn'[n].by] = n
    BY DEF HandlesInv, OwnInv, Active
  <2>3. \A t \in Txns : state'[t] = "new" => ntxn'[t].st = "none"
    BY DEF HandlesInv, OwnInv
  <2> QED
    BY <2>1, <2>2, <2>3 DEF OwnInv
<1>3. LineInv'
  BY DEF HandlesInv, LineInv, Active
<1> QED
  BY <1>1, <1>2, <1>3 DEF HandlesInv

-----------------------------------------------------------------------------
(* Ending a transaction.                                                   *)

LEMMA EndStep ==
  ASSUME HandlesInv, Habits = {}, NEW t \in Txns, state[t] = "Ready", MayEnd(t),
         NEW op, NEW results, NEW st \in {"Done", "Released"}, EndTxn(op, t, st, results),
         tclosed' \in [Txns -> BOOLEAN]
  PROVE  HandlesInv'
<1> DEFINE n == ptr[t]
<1>0. n \in Natives /\ Active(n) /\ ~Freed(n) /\ ntxn[n].by = t /\ ntxn[n].child = NoTxn
  BY ReadyFacts, NoChild
<1>1. /\ EndNative(n) /\ ~stale' /\ stale' \in BOOLEAN /\ state' = [state EXCEPT ![t] = st]
      /\ UNCHANGED <<platform, ktEnv, env, ptr>>
  <2>1. stale' = Freed(n) /\ state' = [state EXCEPT ![t] = st] /\ UNCHANGED <<platform, ktEnv, env, ptr>>
    BY Zenon DEF EndTxn, NativeCall
  <2>2. EndNative(n)
    BY <1>0, Zenon DEF EndTxn
  <2> QED
    BY <1>0, <2>1, <2>2 DEF Freed
<1>2. /\ ntxn' \in [Natives -> NativeType]
      /\ ntxn'[n].st \in {"finished", "freed"} /\ ntxn'[n].child = NoTxn
      /\ \A m \in Natives \ {n} :
           /\ ntxn'[m].st = ntxn[m].st /\ ntxn'[m].by = ntxn[m].by
           /\ ntxn'[m].parent = ntxn[m].parent
           /\ ntxn'[m].child = IF ntxn[m].child = n THEN NoTxn ELSE ntxn[m].child
      /\ cur' = [c \in Cursors |->
                   IF cur[c].nat = "live" /\ cur[c].tracked /\ cur[c].txn = n
                   THEN [cur[c] EXCEPT !.nat = "freed"] ELSE cur[c]]
  <2> HIDE DEF n
  <2> QED
    BY <1>0, <1>1, EndedAlone
<1>3. TypeOK'
  <2>1. state' \in [Txns -> {"new", "Ready", "Done", "Reset", "Released"}]
    BY <1>1 DEF HandlesInv, TypeOK
  <2>2. \A u \in Txns : ptr'[u] = NoTxn <=> state'[u] = "new"
    BY <1>1 DEF HandlesInv, TypeOK
  <2>3. cur \in [Cursors -> CursorType]
    BY DEF HandlesInv, TypeOK, CursorType
  <2>4. cur' \in [Cursors -> CursorType]
    <3>1. \A c \in Cursors : cur[c] \in CursorType /\ [cur[c] EXCEPT !.nat = "freed"] \in CursorType
      BY <2>3 DEF CursorType
    <3> QED
      BY <1>2, <3>1
  <2>5. /\ platform' \in {"jvm", "native"} /\ ktEnv' \in [isOpened : BOOLEAN, isClosed : BOOLEAN]
        /\ env' \in {"created", "active", "inactive", "freed"}
        /\ ptr' \in [Txns -> Natives \cup {NoTxn}]
    BY <1>1 DEF HandlesInv, TypeOK
  <2> QED
    BY <1>1, <1>2, <2>1, <2>2, <2>4, <2>5 DEF TypeOK, NativeType, CursorType
<1> HIDE DEF n
<1>4. /\ \A m \in Natives : Active(m)' => m # n /\ Active(m)
      /\ \A m \in Natives \ {n} : Active(m) => Active(m)'
  BY <1>2 DEF Active
<1>5. \A u \in Txns : (state'[u] = "Ready") <=> (u # t /\ state[u] = "Ready")
  BY <1>1 DEF HandlesInv, TypeOK
<1>6. \A u \in Txns : u # t /\ state[u] = "Ready" => ptr[u] # n /\ ptr[u] \in Natives
  BY <1>0, ReadyFacts
<1>7. EnvInv'
  BY <1>1, <1>4 DEF HandlesInv, EnvInv
<1>8. OwnInv'
  <2>1. ReadyIsActive'
    BY <1>1, <1>2, <1>5, <1>6 DEF HandlesInv, OwnInv, ReadyIsActive
  <2>2. ASSUME NEW m \in Natives, Active(m)'
        PROVE  ntxn'[m].by \in Txns /\ state'[ntxn'[m].by] = "Ready" /\ ptr'[ntxn'[m].by] = m
    <3>1. m # n /\ Active(m) /\ ntxn'[m].by = ntxn[m].by
      BY <1>2, <1>4, <2>2
    <3>2. ntxn[m].by \in Txns /\ state[ntxn[m].by] = "Ready" /\ ptr[ntxn[m].by] = m
      BY <3>1 DEF HandlesInv, OwnInv
    <3>3. ntxn[m].by # t
      BY <3>1, <3>2 DEF n
    <3> QED
      BY <1>1, <1>5, <3>1, <3>2, <3>3
  <2>3. ASSUME NEW u \in Txns, state'[u] = "new" PROVE ntxn'[u].st = "none"
    <3>1. state[u] = "new" /\ ntxn[u].st = "none"
      BY <1>1, <2>3 DEF HandlesInv, OwnInv, TypeOK
    <3>2. u \in Natives \ {n}
      BY <1>0, <3>1 DEF Active, Natives
    <3> QED
      BY <1>2, <3>1, <3>2
  <2> QED
    BY <2>1, <2>2, <2>3 DEF OwnInv
<1>9. LineInv'
  <2>1. \A m \in Natives : ntxn[m].child \in Natives \cup {NoTxn} /\ ntxn[m].parent \in Natives \cup {NoTxn}
    BY DEF HandlesInv, TypeOK
  <2>2. ASSUME NEW m \in Natives, ntxn'[m].child # NoTxn
        PROVE  Active(m)' /\ ntxn'[ntxn'[m].child].st = "active" /\ ntxn'[ntxn'[m].child].parent = m
    <3>1. m # n /\ ntxn'[m].child = ntxn[m].child /\ ntxn[m].child # n /\ ntxn[m].child \in Natives
      BY <1>2, <2>1, <2>2
    <3>2. Active(m) /\ Active(ntxn[m].child) /\ ntxn[ntxn[m].child].parent = m
      BY <2>2, <3>1 DEF HandlesInv, LineInv
    <3>3. ntxn'[ntxn[m].child].parent = ntxn[ntxn[m].child].parent
      BY <1>2, <3>1
    <3>4. Active(m)' /\ ntxn'[ntxn[m].child].st = "active"
      BY <1>2, <3>1, <3>2 DEF Active
    <3> QED
      BY <3>1, <3>2, <3>3, <3>4
  <2>3. ASSUME NEW m \in Natives, Active(m)', ntxn'[m].parent # NoTxn
        PROVE  ntxn'[ntxn'[m].parent].child = m
    <3>1. m # n /\ Active(m) /\ ntxn'[m].parent = ntxn[m].parent
      BY <1>2, <1>4, <2>3
    <3>2. ntxn[ntxn[m].parent].child = m /\ ntxn[m].parent \in Natives
      BY <2>1, <2>3, <3>1 DEF HandlesInv, LineInv
    <3>3. ntxn[m].parent # n
      BY <1>0, <3>2, HandlesAssumption
    <3> QED
      BY <1>2, <3>1, <3>2, <3>3
  <2> QED
    BY <2>2, <2>3 DEF LineInv, Active
<1>10. CursorInv'
  <2> SUFFICES ASSUME NEW c \in Cursors, cur'[c].kt = "open"
               PROVE  /\ cur'[c].of \in Txns /\ state'[cur'[c].of] # "new"
                      /\ ~cur'[c].tracked => cur'[c].nat = "live"
                      /\ state'[cur'[c].of] = "Ready" =>
                           cur'[c].nat = "live" /\ cur'[c].txn = ptr'[cur'[c].of]
    BY DEF CursorInv
  <2>1. cur'[c] = cur[c] \/ (cur[c].tracked /\ cur[c].txn = n /\ cur'[c] = [cur[c] EXCEPT !.nat = "freed"])
    BY <1>2
  <2>2. cur[c] \in [kt : {"new", "open", "closed"}, nat : {"none", "live", "freed"},
                    txn : Natives \cup {NoTxn}, tracked : BOOLEAN, of : Txns \cup {NoTxn}]
    BY DEF HandlesInv, TypeOK
  <2>3. /\ cur'[c].kt = cur[c].kt /\ cur'[c].of = cur[c].of /\ cur'[c].tracked = cur[c].tracked
        /\ cur'[c].txn = cur[c].txn
        /\ cur'[c].nat = cur[c].nat \/ (cur[c].tracked /\ cur[c].txn = n)
    BY <2>1, <2>2
  <2>4. /\ cur[c].of \in Txns /\ state[cur[c].of] # "new"
        /\ ~cur[c].tracked => cur[c].nat = "live"
        /\ state[cur[c].of] = "Ready" => cur[c].nat = "live" /\ cur[c].txn = ptr[cur[c].of]
    BY <2>3 DEF HandlesInv, CursorInv
  <2> QED
    <3>1. state'[cur[c].of] # "new"
      BY <1>1, <2>4 DEF HandlesInv, TypeOK
    <3> QED
      BY <1>1, <1>5, <1>6, <2>3, <2>4, <3>1
<1> QED
  BY <1>1, <1>3, <1>7, <1>8, <1>9, <1>10 DEF HandlesInv

-----------------------------------------------------------------------------
(* Beginning a transaction, with a parent or without.                      *)

LEMMA BeginStep ==
  ASSUME HandlesInv, env = "active", NEW t \in Txns, state[t] = "new",
         NEW n \in {t, Txn0}, ~Active(n), NEW ro \in BOOLEAN,
         NEW p \in Natives \cup {NoTxn}, p # NoTxn => Active(p) /\ ntxn[p].child = NoTxn,
         BeginNative(t, n, ro, p), UNCHANGED <<platform, ktEnv, env, tclosed, cur, stale>>
  PROVE  HandlesInv'
<1>1. /\ ntxn' = [m \in Natives |->
            IF m = n
            THEN [st |-> "active", ro |-> ro, parent |-> p, child |-> NoTxn, by |-> t]
            ELSE IF m = p THEN [ntxn[m] EXCEPT !.child = n] ELSE ntxn[m]]
      /\ state' = [state EXCEPT ![t] = "Ready"]
      /\ ptr' = [ptr EXCEPT ![t] = n]
  BY DEF BeginNative
<1>2. n \in Natives /\ n # NoTxn /\ n # p
  BY HandlesAssumption DEF Natives
<1>3. ntxn \in [Natives -> NativeType]
  BY DEF HandlesInv, TypeOK, NativeType
<1>4. ntxn'[n] = [st |-> "active", ro |-> ro, parent |-> p, child |-> NoTxn, by |-> t]
  BY <1>1, <1>2
<1>5. ASSUME NEW m \in Natives \ {n}
      PROVE  /\ ntxn'[m] \in NativeType
             /\ ntxn'[m].st = ntxn[m].st /\ ntxn'[m].by = ntxn[m].by
             /\ ntxn'[m].parent = ntxn[m].parent
             /\ ntxn'[m].child = IF m = p THEN n ELSE ntxn[m].child
  <2>1. ntxn[m] \in NativeType
    BY <1>3
  <2>2. CASE m = p
    <3>1. ntxn'[m] = [ntxn[m] EXCEPT !.child = n]
      BY <1>1, <2>2
    <3> QED
      BY <1>2, <2>1, <2>2, <3>1 DEF NativeType
  <2>3. CASE m # p
    BY <1>1, <2>1, <2>3
  <2> QED
    BY <2>2, <2>3
<1>6. TypeOK'
  <2>1. ntxn'[n] \in NativeType
    BY <1>4 DEF NativeType
  <2>2. ntxn' \in [Natives -> NativeType]
    BY <1>1, <1>5, <2>1
  <2>3. state' \in [Txns -> {"new", "Ready", "Done", "Reset", "Released"}]
    BY <1>1 DEF HandlesInv, TypeOK
  <2>4. ptr' \in [Txns -> Natives \cup {NoTxn}]
    BY <1>1, <1>2 DEF HandlesInv, TypeOK
  <2>5. \A u \in Txns : ptr'[u] = NoTxn <=> state'[u] = "new"
    BY <1>1, <1>2 DEF HandlesInv, TypeOK
  <2> QED
    BY <2>2, <2>3, <2>4, <2>5 DEF HandlesInv, TypeOK, NativeType
<1>7. EnvInv'
  BY DEF HandlesInv, EnvInv
<1>8. \A m \in Natives : Active(m)' <=> (m = n \/ Active(m))
  BY <1>4, <1>5 DEF Active
<1>9. OwnInv'
  <2>0. \A u \in Txns \ {t} : state'[u] = state[u] /\ ptr'[u] = ptr[u]
    BY <1>1 DEF HandlesInv, TypeOK
  <2>1. state'[t] = "Ready" /\ ptr'[t] = n
    BY <1>1 DEF HandlesInv, TypeOK
  <2>2. ASSUME NEW u \in Txns, state'[u] = "Ready"
        PROVE  ntxn'[ptr'[u]].st = "active" /\ ntxn'[ptr'[u]].by = u
    <3>1. CASE u = t
      BY <1>4, <2>1, <3>1
    <3>2. CASE u # t
      <4>1. state[u] = "Ready" /\ ptr'[u] = ptr[u]
        BY <2>0, <2>2, <3>2
      <4>2. ptr[u] \in Natives /\ Active(ptr[u]) /\ ntxn[ptr[u]].by = u
        BY <4>1, ReadyFacts
      <4>3. ptr[u] # n
        BY <4>2
      <4> QED
        BY <1>5, <4>1, <4>2, <4>3 DEF Active
    <3> QED
      BY <3>1, <3>2
  <2>3. ASSUME NEW m \in Natives, Active(m)'
        PROVE  ntxn'[m].by \in Txns /\ state'[ntxn'[m].by] = "Ready" /\ ptr'[ntxn'[m].by] = m
    <3>1. CASE m = n
      BY <1>4, <2>1, <3>1
    <3>2. CASE m # n
      <4>1. Active(m) /\ ntxn'[m].by = ntxn[m].by
        BY <1>5, <1>8, <2>3, <3>2
      <4>2. ntxn[m].by \in Txns /\ state[ntxn[m].by] = "Ready" /\ ptr[ntxn[m].by] = m
        BY <4>1 DEF HandlesInv, OwnInv
      <4>3. ntxn[m].by # t
        BY <4>2
      <4> QED
        BY <2>0, <4>1, <4>2, <4>3
    <3> QED
      BY <3>1, <3>2
  <2>4. ASSUME NEW u \in Txns, state'[u] = "new" PROVE ntxn'[u].st = "none"
    <3>1. u # t /\ state[u] = "new"
      BY <2>0, <2>1, <2>4
    <3>2. ntxn[u].st = "none" /\ u \in Natives \ {n}
      BY <3>1, HandlesAssumption DEF HandlesInv, OwnInv, Natives
    <3> QED
      BY <1>5, <3>2
  <2> QED
    BY <2>2, <2>3, <2>4 DEF OwnInv, ReadyIsActive
<1>10. LineInv'
  <2>1. \A m \in Natives : ntxn[m].child \in Natives \cup {NoTxn} /\ ntxn[m].parent \in Natives \cup {NoTxn}
    BY <1>3 DEF NativeType
  <2>2. \A m \in Natives : ntxn[m].child # n
    BY <1>2 DEF HandlesInv, LineInv
  <2>5. ASSUME NEW m \in Natives, Active(m) PROVE ntxn[m].parent # n
    <3> SUFFICES ASSUME ntxn[m].parent = n PROVE FALSE
      OBVIOUS
    <3>1. ntxn[n].child = m
      BY <1>2, <2>5 DEF HandlesInv, LineInv
    <3>2. m # NoTxn
      BY HandlesAssumption
    <3> QED
      BY <1>2, <3>1, <3>2 DEF HandlesInv, LineInv
  <2>3. ASSUME NEW m \in Natives, ntxn'[m].child # NoTxn
        PROVE  Active(m)' /\ ntxn'[ntxn'[m].child].st = "active" /\ ntxn'[ntxn'[m].child].parent = m
    <3>1. m # n
      BY <1>4, <2>3
    <3>2. CASE m = p
      BY <1>4, <1>5, <1>8, <3>1, <3>2, HandlesAssumption
    <3>3. CASE m # p
      <4>1. ntxn'[m].child = ntxn[m].child /\ ntxn[m].child \in Natives \ {n}
        <5>1. ntxn'[m].child = ntxn[m].child
          BY <1>5, <3>1, <3>3
        <5> QED
          BY <2>1, <2>2, <2>3, <5>1
      <4>2. Active(m) /\ Active(ntxn[m].child) /\ ntxn[ntxn[m].child].parent = m
        BY <2>3, <4>1 DEF HandlesInv, LineInv
      <4> QED
        BY <1>5, <1>8, <4>1, <4>2 DEF Active
    <3> QED
      BY <3>2, <3>3
  <2>4. ASSUME NEW m \in Natives, Active(m)', ntxn'[m].parent # NoTxn
        PROVE  ntxn'[ntxn'[m].parent].child = m
    <3>1. CASE m = n
      <4>1. ntxn'[m].parent = p /\ p \in Natives \ {n}
        BY <1>2, <1>4, <2>4, <3>1
      <4> QED
        BY <1>5, <3>1, <4>1
    <3>2. CASE m # n
      <4>1. Active(m) /\ ntxn'[m].parent = ntxn[m].parent
        BY <1>5, <1>8, <2>4, <3>2
      <4>2. ntxn[ntxn[m].parent].child = m /\ ntxn[m].parent \in Natives \ {n}
        BY <2>1, <2>4, <2>5, <4>1 DEF HandlesInv, LineInv
      <4>3. ntxn[m].parent # p
        BY <4>2, HandlesAssumption
      <4> QED
        BY <1>5, <4>1, <4>2, <4>3
    <3> QED
      BY <3>1, <3>2
  <2> QED
    BY <2>3, <2>4 DEF LineInv, Active
<1>11. CursorInv'
  <2> SUFFICES ASSUME NEW c \in Cursors, cur[c].kt = "open"
               PROVE  /\ cur[c].of \in Txns /\ state'[cur[c].of] # "new"
                      /\ ~cur[c].tracked => cur[c].nat = "live"
                      /\ state'[cur[c].of] = "Ready" =>
                           cur[c].nat = "live" /\ cur[c].txn = ptr'[cur[c].of]
    BY DEF CursorInv
  <2>1. /\ cur[c].of \in Txns /\ state[cur[c].of] # "new"
        /\ ~cur[c].tracked => cur[c].nat = "live"
        /\ state[cur[c].of] = "Ready" => cur[c].nat = "live" /\ cur[c].txn = ptr[cur[c].of]
    BY DEF HandlesInv, CursorInv
  <2>2. cur[c].of # t
    BY <2>1
  <2>3. state'[cur[c].of] = state[cur[c].of] /\ ptr'[cur[c].of] = ptr[cur[c].of]
    BY <1>1, <2>1, <2>2 DEF HandlesInv, TypeOK
  <2> QED
    BY <2>1, <2>3
<1> QED
  BY <1>6, <1>7, <1>9, <1>10, <1>11 DEF HandlesInv

-----------------------------------------------------------------------------
(* The environment.                                                        *)

LEMMA OpenStep == ASSUME HandlesInv, Open PROVE HandlesInv'
<1>1. /\ env = "created" /\ env' \in {"active", "inactive"}
      /\ ktEnv' = [ktEnv EXCEPT !.isOpened = TRUE]
      /\ ntxn' = ntxn \/ ntxn' = [ntxn EXCEPT ![Txn0].st = "finished"]
      /\ UNCHANGED <<platform, state, tclosed, ptr, cur, stale>>
  BY DEF Open
<1>2. \A n \in Natives : ~Active(n)
  BY <1>1 DEF HandlesInv, EnvInv
<1>3. \A n \in Natives : ntxn[n] \in NativeType
  BY DEF HandlesInv, TypeOK, NativeType
<1>4. ASSUME NEW n \in Natives
      PROVE  /\ ntxn'[n] \in NativeType /\ ntxn'[n].child = ntxn[n].child
             /\ ntxn'[n].st # "active" /\ (n # Txn0 => ntxn'[n].st = ntxn[n].st)
  <2>1. CASE ntxn' = ntxn
    BY <1>2, <1>3, <2>1 DEF Active
  <2>2. CASE ntxn' = [ntxn EXCEPT ![Txn0].st = "finished"] /\ n = Txn0
    <3>1. ntxn'[n] = [ntxn[n] EXCEPT !.st = "finished"]
      BY <2>2 DEF HandlesInv, TypeOK
    <3> QED
      BY <1>3, <2>2, <3>1 DEF NativeType
  <2>3. CASE ntxn' = [ntxn EXCEPT ![Txn0].st = "finished"] /\ n # Txn0
    <3>1. ntxn'[n] = ntxn[n]
      BY <2>3 DEF HandlesInv, TypeOK
    <3> QED
      BY <1>2, <1>3, <3>1 DEF Active
  <2> QED
    BY <1>1, <2>1, <2>2, <2>3
<1>5. TypeOK'
  <2>1. ntxn' \in [Natives -> NativeType]
    <3>1. DOMAIN ntxn' = Natives /\ ntxn' = [n \in Natives |-> ntxn'[n]]
      BY <1>1 DEF HandlesInv, TypeOK
    <3> QED
      BY <1>4, <3>1
  <2> QED
    BY <1>1, <2>1 DEF HandlesInv, TypeOK, NativeType
<1>6. \A t \in Txns : state[t] # "Ready"
  BY <1>2, ReadyFacts
<1>7. EnvInv' /\ CursorInv'
  BY <1>1, <1>4, <1>6 DEF HandlesInv, EnvInv, CursorInv, Active
<1>8. OwnInv'
  BY <1>1, <1>4, <1>6, HandlesAssumption DEF HandlesInv, OwnInv, ReadyIsActive, Active, Natives
<1>9. LineInv'
  BY <1>2, <1>4 DEF HandlesInv, LineInv, Active
<1> QED
  BY <1>1, <1>5, <1>7, <1>8, <1>9 DEF HandlesInv

LEMMA CloseEnvStep == ASSUME HandlesInv, CloseEnv PROVE HandlesInv'
<1>1. UNCHANGED <<platform, state, tclosed, ptr, cur, stale>> /\ \A t \in Txns : state[t] # "Ready"
  BY DEF CloseEnv
<1>2. \A n \in Natives : ~Active(n)
  BY <1>1 DEF HandlesInv, OwnInv
<1>3. CASE UNCHANGED <<ktEnv, env, ntxn>>
  <2>1. TypeOK' /\ CursorInv'
    BY <1>1, <1>3 DEF HandlesInv, TypeOK, CursorInv
  <2> QED
    BY <1>1, <1>3, <2>1, QuietStep DEF HandlesInv
<1>4. CASE ~ktEnv.isClosed
  <2>1. /\ ktEnv' = KtClosed
        /\ \/ ktEnv.isOpened /\ env' = "freed" /\ ntxn' = [ntxn EXCEPT ![Txn0].st = "freed"]
           \/ ~ktEnv.isOpened /\ env' = env /\ ntxn' = ntxn
    BY <1>4 DEF CloseEnv
  <2>2. \A n \in Natives : ntxn[n] \in NativeType
    BY DEF HandlesInv, TypeOK, NativeType
  <2>3. ASSUME NEW n \in Natives
        PROVE  /\ ntxn'[n] \in NativeType /\ ntxn'[n].child = ntxn[n].child
               /\ ntxn'[n].st # "active" /\ (n # Txn0 => ntxn'[n].st = ntxn[n].st)
    <3>1. CASE ntxn' = ntxn
      BY <1>2, <2>2, <3>1 DEF Active
    <3>2. CASE ntxn' = [ntxn EXCEPT ![Txn0].st = "freed"] /\ n = Txn0
      <4>1. ntxn'[n] = [ntxn[n] EXCEPT !.st = "freed"]
        BY <3>2 DEF HandlesInv, TypeOK
      <4> QED
        BY <2>2, <3>2, <4>1 DEF NativeType
    <3>3. CASE ntxn' = [ntxn EXCEPT ![Txn0].st = "freed"] /\ n # Txn0
      <4>1. ntxn'[n] = ntxn[n]
        BY <3>3 DEF HandlesInv, TypeOK
      <4> QED
        BY <1>2, <2>2, <4>1 DEF Active
    <3> QED
      BY <2>1, <3>1, <3>2, <3>3
  <2>4. ktEnv' \in [isOpened : BOOLEAN, isClosed : BOOLEAN]
        /\ (platform = "jvm" => ~ktEnv'.isOpened) /\ (~ktEnv.isOpened => ~ktEnv'.isOpened)
    BY <2>1 DEF KtClosed, HandlesInv, TypeOK
  <2>5. TypeOK'
    <3>1. ntxn' \in [Natives -> NativeType]
      <4>1. ntxn' = [n \in Natives |-> ntxn'[n]]
        BY <2>1 DEF HandlesInv, TypeOK
      <4> QED
        BY <2>3, <4>1
    <3> QED
      BY <1>1, <2>1, <2>4, <3>1 DEF HandlesInv, TypeOK, NativeType
  <2>6. EnvInv' /\ CursorInv'
    BY <1>1, <2>1, <2>3, <2>4 DEF HandlesInv, EnvInv, CursorInv, Active
  <2>7. OwnInv'
    BY <1>1, <2>3, HandlesAssumption DEF HandlesInv, OwnInv, ReadyIsActive, Active, Natives
  <2>8. LineInv'
    BY <1>2, <2>3 DEF HandlesInv, LineInv, Active
  <2> QED
    BY <1>1, <2>5, <2>6, <2>7, <2>8 DEF HandlesInv
<1> QED
  BY <1>3, <1>4 DEF CloseEnv

-----------------------------------------------------------------------------
(* The calls of a transaction.                                             *)

LEMMA BeginTxnStep == ASSUME HandlesInv, NEW t \in Txns, NEW ro \in BOOLEAN, Begin(t, ro) PROVE HandlesInv'
<1>1. state[t] = "new" /\ MayBegin /\ (env = "active" /\ ~ro => ~Active(Txn0))
      /\ UNCHANGED <<platform, ktEnv, env>>
  BY DEF Begin, Active
<1>2. CASE NativeCall("begin", env, ktEnv.isOpened /\ env # "active", {"throws"}) /\ TxnUnchanged
  <2>1. UNCHANGED <<state, tclosed, ptr, ntxn, cur>>
    BY <1>2 DEF TxnUnchanged
  <2>2. ~(ktEnv.isOpened /\ env # "active")
    BY <1>1 DEF MayBegin, HandlesInv, TypeOK, EnvInv
  <2>3. stale' = (ktEnv.isOpened /\ env # "active")
    BY <1>2, Zenon DEF NativeCall
  <2>4. stale' = FALSE
    BY <2>2, <2>3
  <2>5. TypeOK' /\ CursorInv'
    BY <1>1, <2>1, <2>4 DEF HandlesInv, TypeOK, CursorInv
  <2> QED
    BY <1>1, <2>1, <2>4, <2>5, QuietStep
<1>3. CASE /\ env = "active" /\ BeginNative(t, IF ro THEN t ELSE Txn0, ro, NoTxn)
           /\ UNCHANGED <<tclosed, cur, stale>>
  <2>1. ntxn[t].st = "none"
    BY <1>1 DEF HandlesInv, OwnInv
  <2> DEFINE n == IF ro THEN t ELSE Txn0
  <2>2. n \in {t, Txn0} /\ ~Active(n)
    BY <1>1, <1>3, <2>1 DEF Active
  <2>3. BeginNative(t, n, ro, NoTxn)
    BY <1>3
  <2> HIDE DEF n
  <2> QED
    BY <1>1, <1>3, <2>2, <2>3, BeginStep
<1> QED
  BY <1>2, <1>3, Zenon DEF Begin

LEMMA BeginChildStep ==
  ASSUME HandlesInv, Habits = {}, NEW t \in Txns, NEW p \in Txns, BeginChild(t, p)
  PROVE  HandlesInv'
<1>1. state[t] = "new" /\ state[p] = "Ready" /\ UNCHANGED <<platform, ktEnv, env>>
  BY DEF BeginChild, MayUse
<1>2. ptr[p] \in Natives /\ Active(ptr[p]) /\ ~Freed(ptr[p])
  BY <1>1, ReadyFacts
<1>3. CASE NativeCall("child", state[p], ktEnv.isOpened /\ Freed(ptr[p]), {"throws"}) /\ TxnUnchanged
  <2>1. UNCHANGED <<state, tclosed, ptr, ntxn, cur>>
    BY <1>3 DEF TxnUnchanged
  <2>2. stale' = (ktEnv.isOpened /\ Freed(ptr[p]))
    BY <1>3, Zenon DEF NativeCall
  <2>3. stale' = FALSE
    BY <1>2, <2>2
  <2>4. TypeOK' /\ CursorInv'
    BY <1>1, <2>1, <2>3 DEF HandlesInv, TypeOK, CursorInv
  <2> QED
    BY <1>1, <2>1, <2>3, <2>4, QuietStep
<1>4. CASE ~Blocked(ptr[p]) /\ BeginNative(t, t, FALSE, ptr[p]) /\ UNCHANGED <<tclosed, cur, stale>>
  <2>1. ntxn[t].st = "none"
    BY <1>1 DEF HandlesInv, OwnInv
  <2>2. ~Active(t) /\ ntxn[ptr[p]].child = NoTxn
    BY <1>4, <2>1 DEF Active, Blocked
  <2>3. env = "active"
    BY <1>2 DEF HandlesInv, EnvInv
  <2> QED
    BY <1>1, <1>2, <1>4, <2>2, <2>3, BeginStep
<1> QED
  BY <1>3, <1>4, Zenon DEF BeginChild

LEMMA TxnStep ==
  ASSUME HandlesInv, Habits = {}, NEW t \in Txns,
         Operate(t) \/ Commit(t) \/ Abort(t) \/ NotReady(t) \/ CloseTxn(t) \/ Reset(t) \/ Renew(t)
  PROVE  HandlesInv'
<1>1. CASE Operate(t)
  <2>1. state[t] = "Ready" /\ UNCHANGED <<platform, ktEnv, env, state, tclosed, ptr, ntxn, cur>>
    BY <1>1 DEF Operate, MayUse, TxnUnchanged
  <2>2. stale' = Freed(ptr[t])
    BY <1>1, Zenon DEF Operate, NativeCall
  <2>3. stale' = FALSE
    BY <2>1, <2>2, ReadyFacts
  <2>4. TypeOK' /\ CursorInv'
    BY <2>1, <2>3 DEF HandlesInv, TypeOK, CursorInv
  <2> QED
    BY <2>1, <2>3, <2>4, QuietStep
<1>2. CASE Commit(t)
  <2>1. /\ state[t] = "Ready" /\ MayEnd(t) /\ EndTxn("commit", t, "Done", {"ok", "throws"})
        /\ tclosed' \in [Txns -> BOOLEAN]
    BY <1>2 DEF Commit, HandlesInv, TypeOK
  <2> QED
    BY <2>1, EndStep
<1>3. CASE Abort(t)
  <2>1. /\ state[t] = "Ready" /\ MayEnd(t) /\ EndTxn("abort", t, "Done", {"ok"})
        /\ tclosed' \in [Txns -> BOOLEAN]
    BY <1>3 DEF Abort, HandlesInv, TypeOK
  <2> QED
    BY <2>1, EndStep
<1>4. CASE NotReady(t)
  <2>1. UNCHANGED <<platform, ktEnv, env, state, tclosed, ptr, ntxn, cur, stale>>
    BY <1>4 DEF NotReady, Throws, TxnUnchanged
  <2>2. TypeOK' /\ CursorInv' /\ ~stale'
    BY <2>1 DEF HandlesInv, TypeOK, CursorInv
  <2> QED
    BY <2>1, <2>2, QuietStep
<1>5. CASE CloseTxn(t)
  <2>1. tclosed' \in [Txns -> BOOLEAN] /\ state[t] # "new" /\ MayEnd(t)
    BY <1>5 DEF CloseTxn, HandlesInv, TypeOK
  <2>2. CASE state[t] = "Ready" /\ EndTxn("close", t, "Released", {"ok"})
    BY <2>1, <2>2, EndStep
  <2>3. CASE /\ UNCHANGED <<platform, ktEnv, env, ptr, ntxn, cur, stale>>
             /\ state' = state \/ (state[t] # "Ready" /\ state' = [state EXCEPT ![t] = "Released"])
    <3>1. /\ \A u \in Txns : state'[u] = "Ready" => state[u] = "Ready"
          /\ \A u \in Txns : state[u] = "Ready" => state'[u] = "Ready"
          /\ \A u \in Txns : state'[u] = "new" => state[u] = "new"
          /\ \A u \in Txns : state[u] # "new" => state'[u] # "new"
      BY <2>1, <2>3 DEF HandlesInv, TypeOK
    <3>2. TypeOK' /\ ~stale'
      BY <2>1, <2>3 DEF HandlesInv, TypeOK
    <3>3. CursorInv'
      BY <2>3, <3>1 DEF HandlesInv, CursorInv
    <3> QED
      BY <2>3, <3>1, <3>2, <3>3, QuietStep
  <2> QED
    BY <1>5, <2>2, <2>3 DEF CloseTxn, Aborts
<1>6. CASE Reset(t) \/ Renew(t)
  <2>1. /\ UNCHANGED <<platform, ktEnv, env, tclosed, ptr, ntxn, cur, stale>> /\ state[t] # "new"
        /\ \/ state' = state
           \/ state[t] \notin {"Ready", "new"} /\ state' = [state EXCEPT ![t] = "Reset"]
           \/ state[t] = "Reset" /\ state' = [state EXCEPT ![t] = "Done"]
    BY <1>6 DEF Reset, Renew, Throws, TxnUnchanged
  <2>2. /\ \A u \in Txns : state'[u] = "Ready" => state[u] = "Ready"
        /\ \A u \in Txns : state[u] = "Ready" => state'[u] = "Ready"
        /\ \A u \in Txns : state'[u] = "new" => state[u] = "new"
        /\ \A u \in Txns : state[u] # "new" => state'[u] # "new"
    BY <2>1 DEF HandlesInv, TypeOK
  <2>3. TypeOK' /\ ~stale'
    BY <2>1 DEF HandlesInv, TypeOK
  <2>4. CursorInv'
    BY <2>1, <2>2 DEF HandlesInv, CursorInv
  <2> QED
    BY <2>1, <2>2, <2>3, <2>4, QuietStep
<1> QED
  BY <1>1, <1>2, <1>3, <1>4, <1>5, <1>6

-----------------------------------------------------------------------------
(* The calls of a cursor.                                                  *)

\* Only one cursor changes, and it is as CursorInv wants it.
LEMMA CursorStep ==
  ASSUME HandlesInv, UNCHANGED <<platform, ktEnv, env, state, tclosed, ptr, ntxn>>, stale' = FALSE,
         NEW c \in Cursors, NEW new \in CursorType,
         cur' = cur \/ cur' = [cur EXCEPT ![c] = new],
         new.kt = "open" => /\ new.of \in Txns /\ state[new.of] = "Ready"
                            /\ new.nat = "live" /\ new.txn = ptr[new.of]
  PROVE  HandlesInv'
<1>1. cur \in [Cursors -> CursorType]
  BY DEF HandlesInv, TypeOK, CursorType
<1>2. cur' \in [Cursors -> CursorType] /\ \A d \in Cursors : cur'[d] = cur[d] \/ cur'[d] = new
  BY <1>1
<1>3. TypeOK'
  BY <1>2 DEF HandlesInv, TypeOK, CursorType
<1>4. CursorInv'
  <2> SUFFICES ASSUME NEW d \in Cursors, cur'[d].kt = "open"
               PROVE  /\ cur'[d].of \in Txns /\ state[cur'[d].of] # "new"
                      /\ ~cur'[d].tracked => cur'[d].nat = "live"
                      /\ state[cur'[d].of] = "Ready" =>
                           cur'[d].nat = "live" /\ cur'[d].txn = ptr[cur'[d].of]
    BY DEF CursorInv
  <2>1. CASE cur'[d] = cur[d]
    BY <2>1 DEF HandlesInv, CursorInv
  <2>2. CASE cur'[d] = new
    BY <2>2
  <2> QED
    BY <1>2, <2>1, <2>2
<1> QED
  BY <1>3, <1>4, QuietStep

LEMMA OpenCursorStep ==
  ASSUME HandlesInv, Habits = {}, NEW c \in Cursors, NEW t \in Txns, OpenCursor(c, t)
  PROVE  HandlesInv'
<1> DEFINE new == [kt |-> "open", nat |-> "live", txn |-> ptr[t],
                   tracked |-> ~ntxn[ptr[t]].ro, of |-> t]
<1>1. state[t] = "Ready" /\ UNCHANGED <<platform, ktEnv, env, state, tclosed, ptr, ntxn>>
  BY DEF OpenCursor, MayUse, CursorUnchanged
<1>2. ptr[t] \in Natives /\ ~Freed(ptr[t])
  BY <1>1, ReadyFacts
<1>3. new \in CursorType
  BY <1>2 DEF CursorType
<1>4. \/ stale' = Freed(ptr[t]) /\ cur' = cur
      \/ UNCHANGED stale /\ cur' = [cur EXCEPT ![c] = new]
  <2>1. CASE NativeCall("cursor", state[t], Freed(ptr[t]), {"throws"}) /\ UNCHANGED cur
    BY <2>1, Zenon DEF NativeCall
  <2>2. CASE UNCHANGED stale /\ cur' = [cur EXCEPT ![c] = new]
    BY <2>2
  <2> QED
    BY <2>1, <2>2 DEF OpenCursor
<1>5. stale' = FALSE /\ (cur' = cur \/ cur' = [cur EXCEPT ![c] = new])
  BY <1>2, <1>4 DEF HandlesInv, TypeOK
<1>6. new.of = t /\ new.nat = "live" /\ new.txn = ptr[t]
  OBVIOUS
<1> HIDE DEF new
<1> QED
  BY <1>1, <1>3, <1>5, <1>6, CursorStep

LEMMA UseCursorStep == ASSUME HandlesInv, NEW c \in Cursors, UseCursor(c) PROVE HandlesInv'
<1>1. /\ cur[c].kt = "open" /\ state[cur[c].of] = "Ready"
      /\ UNCHANGED <<platform, ktEnv, env, state, tclosed, ptr, ntxn, cur>>
  BY DEF UseCursor, CursorUsable, CursorUnchanged
<1>2. cur[c].of \in Txns /\ cur[c].nat = "live" /\ cur[c].txn = ptr[cur[c].of]
  BY <1>1 DEF HandlesInv, CursorInv
<1>3. stale' = (cur[c].nat = "freed" \/ Freed(cur[c].txn))
  BY Zenon DEF UseCursor, NativeCall
<1>4. ~Freed(cur[c].txn)
  BY <1>1, <1>2, ReadyFacts
<1>5. stale' = FALSE
  BY <1>2, <1>3, <1>4
<1>6. cur[c] \in CursorType
  BY DEF HandlesInv, TypeOK, CursorType
<1> QED
  BY <1>1, <1>2, <1>5, <1>6, CursorStep

LEMMA RenewCursorStep ==
  ASSUME HandlesInv, NEW c \in Cursors, NEW t \in Txns, RenewCursor(c, t)
  PROVE  HandlesInv'
<1>1. /\ cur[c].kt = "open" /\ state[t] = "Ready" /\ (~cur[c].tracked \/ CursorUsable(c))
      /\ UNCHANGED <<platform, ktEnv, env, state, tclosed, ptr, ntxn>>
  BY DEF RenewCursor, CursorUnchanged
<1>2. cur[c].nat = "live"
  BY <1>1 DEF HandlesInv, CursorInv, CursorUsable
<1>3. ptr[t] \in Natives /\ ~Freed(ptr[t])
  BY <1>1, ReadyFacts
<1> DEFINE new == [cur[c] EXCEPT !.txn = ptr[t], !.of = t]
<1>4. cur[c] \in CursorType
  BY DEF HandlesInv, TypeOK, CursorType
<1>5. new \in CursorType /\ new.of = t /\ new.nat = "live" /\ new.txn = ptr[t]
  BY <1>2, <1>3, <1>4 DEF CursorType
<1>6. \/ stale' = (cur[c].nat = "freed" \/ Freed(ptr[t])) /\ cur' = cur
      \/ UNCHANGED stale /\ cur' = [cur EXCEPT ![c].txn = ptr[t], ![c].of = t]
  BY Zenon DEF RenewCursor, NativeCall
<1>7. stale' = FALSE /\ (cur' = cur \/ cur' = [cur EXCEPT ![c].txn = ptr[t], ![c].of = t])
  BY <1>2, <1>3, <1>6 DEF HandlesInv, TypeOK
<1>8. [cur EXCEPT ![c].txn = ptr[t], ![c].of = t] = [cur EXCEPT ![c] = new]
  BY DEF HandlesInv, TypeOK
<1> HIDE DEF new
<1> QED
  BY <1>1, <1>5, <1>7, <1>8, CursorStep

LEMMA CloseCursorStep == ASSUME HandlesInv, NEW c \in Cursors, CloseCursor(c) PROVE HandlesInv'
<1> DEFINE nat == IF cur[c].tracked /\ ntxn[cur[c].txn].child # NoTxn THEN "live" ELSE "freed"
           new == [cur[c] EXCEPT !.kt = "closed", !.nat = nat]
<1>1. /\ cur[c].kt = "open" => ~cur[c].tracked \/ CursorUsable(c)
      /\ UNCHANGED <<platform, ktEnv, env, state, tclosed, ptr, ntxn>>
  BY DEF CloseCursor, CursorUnchanged
<1>2. cur[c].kt = "open" => cur[c].nat = "live"
  BY <1>1 DEF HandlesInv, CursorInv, CursorUsable
<1>3. stale' = (cur[c].kt = "open" /\ cur[c].nat = "freed")
  BY Zenon DEF CloseCursor, NativeCall
<1>4. stale' = FALSE
  BY <1>2, <1>3
<1>5. cur[c] \in CursorType
  BY DEF HandlesInv, TypeOK, CursorType
<1>6. nat \in {"none", "live", "freed"}
  OBVIOUS
<1>7. new \in CursorType /\ new.kt = "closed"
  <2> HIDE DEF nat
  <2> QED
    BY <1>5, <1>6 DEF CursorType
<1>8. cur' = cur \/ cur' = [cur EXCEPT ![c].kt = "closed", ![c].nat = nat]
  BY DEF CloseCursor
<1>9. [cur EXCEPT ![c].kt = "closed", ![c].nat = nat] = [cur EXCEPT ![c] = new]
  <2> HIDE DEF nat
  <2> QED
    BY DEF HandlesInv, TypeOK
<1> HIDE DEF new, nat
<1> QED
  BY <1>1, <1>4, <1>7, <1>8, <1>9, CursorStep

-----------------------------------------------------------------------------

LEMMA InitStep == Init => HandlesInv
<1> SUFFICES ASSUME Init PROVE HandlesInv
  OBVIOUS
<1>1. NewTxn \in NativeType /\ NewTxn.st = "none" /\ NewTxn.child = NoTxn
  BY DEF NewTxn, NativeType
<1>2. NewCursor \in CursorType /\ NewCursor.kt = "new"
  BY DEF NewCursor, CursorType
<1>3. ntxn = [n \in Natives |-> NewTxn] /\ cur = [c \in Cursors |-> NewCursor]
  BY DEF Init
<1>4. ntxn \in [Natives -> NativeType] /\ cur \in [Cursors -> CursorType]
  BY <1>1, <1>2, <1>3
<1>5. TypeOK
  BY <1>4 DEF Init, TypeOK, NativeType, CursorType
<1>6. \A n \in Natives : ntxn[n].st = "none" /\ ntxn[n].child = NoTxn
  BY <1>1, <1>3
<1>7. EnvInv /\ LineInv
  BY <1>6 DEF Init, EnvInv, LineInv, Active
<1>8. OwnInv
  BY <1>6 DEF Init, OwnInv, ReadyIsActive, Active, Natives
<1>9. CursorInv
  BY <1>2, <1>3 DEF CursorInv
<1> QED
  BY <1>5, <1>7, <1>8, <1>9 DEF Init, HandlesInv

LEMMA NextStep == ASSUME HandlesInv, Habits = {}, [Next]_vars PROVE HandlesInv'
<1>1. CASE UNCHANGED vars
  <2>1. TypeOK' /\ CursorInv' /\ ~stale'
    BY <1>1 DEF HandlesInv, TypeOK, CursorInv, vars
  <2> QED
    BY <1>1, <2>1, QuietStep DEF vars
<1>2. CASE Open \/ CloseEnv
  BY <1>2, OpenStep, CloseEnvStep
<1>3. CASE \E t \in Txns : (\E ro \in BOOLEAN : Begin(t, ro)) \/ \E p \in Txns : BeginChild(t, p)
  BY <1>3, BeginTxnStep, BeginChildStep
<1>4. CASE \E t \in Txns : \/ Operate(t) \/ Commit(t) \/ Abort(t) \/ NotReady(t)
                           \/ CloseTxn(t) \/ Reset(t) \/ Renew(t)
  BY <1>4, TxnStep
<1>5. CASE \E c \in Cursors : \/ \E t \in Txns : OpenCursor(c, t) \/ RenewCursor(c, t)
                              \/ UseCursor(c) \/ CloseCursor(c)
  BY <1>5, OpenCursorStep, RenewCursorStep, UseCursorStep, CloseCursorStep
<1> QED
  BY <1>1, <1>2, <1>3, <1>4, <1>5, Zenon DEF Next

\* The inductive invariant, as long as callers keep to the documentation.
THEOREM Invariant == ASSUME Habits = {} PROVE Spec => []HandlesInv
<1>1. HandlesInv /\ [Next]_vars => HandlesInv'
  BY NextStep
<1> QED
  BY <1>1, InitStep, PTL DEF Spec

\* Every variable of the handles keeps its type, and a Txn its pointer.
THEOREM SpecTypeOK == ASSUME Habits = {} PROVE Spec => []TypeOK
<1>1. HandlesInv => TypeOK
  BY DEF HandlesInv
<1> QED
  BY <1>1, Invariant, PTL

\* However many transactions and cursors there are, in whatever nesting and in
\* whatever order they are committed, aborted, closed twice, reset and renewed,
\* commit, abort, close and the operations of Txn, Cursor and Env never hand a
\* freed transaction, cursor or environment to the native library.
THEOREM SpecNoStaleCall == ASSUME Habits = {} PROVE Spec => []NoStaleCall
<1>1. HandlesInv => NoStaleCall
  BY DEF HandlesInv, NoStaleCall
<1> QED
  BY <1>1, Invariant, PTL

\* A Txn that is Ready has an active native transaction of its own, although
\* me_txn0 is the pointer of every top-level writer that has ever been.
THEOREM SpecReadyIsActive == ASSUME Habits = {} PROVE Spec => []ReadyIsActive
<1>1. HandlesInv => ReadyIsActive
  BY DEF HandlesInv, OwnInv
<1> QED
  BY <1>1, Invariant, PTL

\* Every native transaction that is active, and with it the writer mutex or a
\* reader's slot, can still be ended by the commit, abort or close of its Txn.
THEOREM SpecNoneLeft == ASSUME Habits = {} PROVE Spec => []NoneLeft
<1>1. HandlesInv => NoneLeft
  BY DEF HandlesInv, OwnInv, NoneLeft, Active
<1> QED
  BY <1>1, Invariant, PTL
=============================================================================
