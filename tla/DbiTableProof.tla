--------------------------- MODULE DbiTableProof ---------------------------
(***************************************************************************)
(* Proof, for any number of names, keys and handles and any depth of       *)
(* nesting, of the properties of DbiTable: the inductive invariant says    *)
(* who knows an open handle, who opened it, and what each transaction has  *)
(* under it.                                                               *)
(***************************************************************************)
EXTENDS DbiTable, LeastNat, SequenceTheorems, TLAPS

-----------------------------------------------------------------------------
(***************************************************************************)
(* Types.                                                                  *)
(***************************************************************************)

Counts == {n \in Nat : n >= CORE_DBS}

Contents == [kind : {"database", "absent", "zeros", "error"}, keys : SUBSET (Names \X Keys)]
Flags == {"VALID", "STALE", "NEW", "DIRTY"}

Txns ==
    [live : BOOLEAN, num : Counts, flags : [Handles -> SUBSET Flags],
     db : [Handles -> Contents], main : [Names -> Contents],
     can : [Handles -> Names \cup {NoName}], own : SUBSET Handles, err : BOOLEAN,
     opened : BOOLEAN, barred : BOOLEAN, view : [Names -> Contents]]

Line == 1..Len(wr)

TypeOK ==
    /\ env \in [num : Counts, name : [Handles -> Names \cup {NoName}],
                valid : [Handles -> BOOLEAN]]
    /\ file \in [Names -> Contents] /\ store \in [Names -> Contents]
    /\ db0 \in [Handles -> Contents]
    /\ wr \in Seq(Txns) /\ rd \in Txns
    /\ changed \subseteq Handles
    /\ known \in [Handles -> Names \cup {NoName}]
    /\ \A i \in Line : wr[i].live
    /\ (rd.live \/ rd = NewTxn)

-----------------------------------------------------------------------------
(***************************************************************************)
(* The handles.                                                            *)
(***************************************************************************)

IsOpen(h) == env.name[h] # NoName
IsNew(t, h) == "NEW" \in t.flags[h]

\* t opened h, and it was not closed since.
HasOpened(t, h) == IsNew(t, h) /\ t.can[h] # NoName

\* A handle that callers know is open, for that name; one that is open and
\* not known yet was opened by a transaction that lives.
TableInv ==
    /\ \A h \in Handles : known[h] # NoName =>
          env.name[h] = known[h] /\ env.valid[h] /\ h < env.num
    /\ \A h \in Handles : IsOpen(h) =>
          \/ known[h] # NoName
          \/ HasOpened(rd, h)
          \/ \E i \in Line : HasOpened(wr[i], h)
    /\ \A g, h \in Handles : IsOpen(h) /\ env.name[g] = env.name[h] => g = h

\* What a live transaction's callers know is right, and no less than what is
\* known outside; what it opened is not known outside.
KnowsInv(t) ==
    /\ \A h \in Handles : t.can[h] # NoName => env.name[h] = t.can[h]
    /\ \A h \in Handles : known[h] # NoName => t.can[h] = known[h]
    /\ \A h \in t.own : t.can[h] # NoName
    /\ \A h \in Handles : IsNew(t, h) => t.opened /\ known[h] = NoName
    /\ \A h \in Handles : t.flags[h] # {} => h < t.num

\* Only one side has opened handles, the writers or the reader, and the other
\* does not know them.
WithReader(t) ==
    /\ t.opened /\ rd.live => rd.barred /\ ~rd.opened
    /\ rd.opened => t.barred
    /\ \A h \in Handles : IsNew(t, h) => rd.can[h] = NoName
    /\ \A h \in Handles : IsNew(rd, h) => t.can[h] = NoName

\* u is inside t: it knows more, and what it opened t does not know.
Inside(t, u) ==
    /\ t.opened => u.opened
    /\ t.num <= u.num
    /\ \A h \in Handles : IsNew(u, h) => t.can[h] = NoName
    /\ \A h \in Handles : t.can[h] # NoName => u.can[h] # NoName

\* A handle is known outside, or to whom opened it and those inside.
OpenerInv ==
    /\ \A i \in Line : WithReader(wr[i])
    /\ \A i, j \in Line : i < j => Inside(wr[i], wr[j])
    /\ \A h \in Handles : rd.can[h] # NoName => known[h] # NoName \/ IsNew(rd, h)
    /\ \A i \in Line : \A h \in Handles : wr[i].can[h] # NoName =>
          known[h] # NoName \/ \E j \in Line : j <= i /\ IsNew(wr[j], h)

\* t has every open handle.
Holds(t, h) == h \in t.own /\ h < t.num

\* A transaction that may open handles has all that are open.
FullInv ==
    /\ rd.live /\ ~rd.barred => \A h \in Handles : IsOpen(h) => Holds(rd, h)
    /\ \A i \in Line : ~wr[i].barred => \A h \in Handles : IsOpen(h) =>
          Holds(wr[i], h) \/ \E j \in Line : j > i /\ IsNew(wr[j], h)

HandleInv ==
    /\ TableInv /\ OpenerInv /\ FullInv
    /\ rd.live => KnowsInv(rd)
    /\ \A i \in Line : KnowsInv(wr[i])

-----------------------------------------------------------------------------
(***************************************************************************)
(* The contents.                                                           *)
(***************************************************************************)

IsDirty(t, h) == "DIRTY" \in t.flags[h]

\* t has a record under h.
Loaded(t, h) == TXN_DBI_EXIST(t, h) /\ ~Stale(t, h)

\* What a write transaction would commit is what its callers see by name,
\* unless a handle it wrote through has changed; what it reads also is.
WriterInv(t, chg) ==
    /\ t.own \cap chg = {}
    /\ \A h \in Handles : IsDirty(t, h) => t.can[h] # NoName
    /\ \A n \in Names :
          (\A h \in Handles : IsDirty(t, h) => t.can[h] # n) => t.main[n] = t.view[n]
    /\ \A h \in Handles : IsDirty(t, h) /\ h \notin chg =>
          /\ t.db[h] = t.view[t.can[h]]
          /\ Stale(t, h) => t.main[t.can[h]] = Absent
    /\ \A h \in Handles : Loaded(t, h) /\ h \notin chg /\ t.can[h] # NoName =>
          t.db[h] = t.view[t.can[h]]

\* What was loaded under a handle that is not known now, another opened since.
LoadedInv ==
    \A i \in Line : \A h \in Handles : Loaded(wr[i], h) /\ h \notin changed =>
       wr[i].can[h] # NoName \/ \E j \in Line : j > i /\ HasOpened(wr[j], h)

\* A reader writes nothing.
ReaderInv ==
    /\ rd.main = rd.view
    /\ \A h \in Handles : ~IsDirty(rd, h)
    /\ \A h \in rd.own : Loaded(rd, h) => rd.db[h] = rd.view[rd.can[h]]

ContentInv ==
    /\ file = store /\ ReaderInv /\ LoadedInv
    /\ \A i \in Line : WriterInv(wr[i], changed)

DbiInv == TypeOK /\ HandleInv /\ ContentInv

-----------------------------------------------------------------------------
(***************************************************************************)
(* Operators: what each returns, and its type.                             *)
(***************************************************************************)

\* Max of two numbers (mt_numdbs).
LEMMA MaxOfTwo == ASSUME NEW a \in Nat, NEW b \in Nat
                  PROVE Max({a, b}) \in Nat /\ Max({a, b}) >= a /\ Max({a, b}) >= b
                        /\ Max({a,b}) \in {a,b}
<1>1. \E x \in {a, b} : \A y \in {a, b} : x >= y
  OBVIOUS
<1> QED BY <1>1 DEF Max

LEMMA CountsMax == ASSUME NEW a \in Counts, NEW b \in Counts
                   PROVE  Max({a, b}) \in Counts /\ Max({a, b}) >= a /\ Max({a, b}) >= b
<1>1. a \in Nat /\ b \in Nat
  BY DEF Counts
<1> QED BY <1>1, MaxOfTwo

\* Min of a set of handles (the first free slot).
LEMMA MinOf == ASSUME NEW S \in SUBSET Handles, S # {} PROVE Min(S) \in S
<1>1. S \subseteq Nat
  BY DEF Handles, CORE_DBS
<1>2. PICK x \in S : \A y \in S : x <= y
  BY <1>1, NatHasMin
<1> QED BY <1>2 DEF Min

\* A sequence mapped element by element.
LEMMA Mapped ==
  ASSUME NEW S, NEW s \in Seq(S), NEW f, f = [i \in DOMAIN s |-> f[i]],
         \A i \in 1..Len(s) : f[i] \in S
  PROVE  f \in Seq(S) /\ Len(f) = Len(s)
<1>1. Len(s) \in Nat /\ DOMAIN s = 1..Len(s)
  OBVIOUS
<1>2. f \in [1..Len(s) -> S]
  BY <1>1
<1>3. f \in Seq(S)
  BY <1>1, <1>2
<1> QED BY <1>1, <1>2, <1>3

\* Last and Front of a sequence that is not empty.
LEMMA LastFront ==
  ASSUME NEW S, NEW s \in Seq(S), s # <<>>
  PROVE  /\ Len(s) \in Nat /\ Len(s) >= 1 /\ Last(s) = s[Len(s)] /\ Last(s) \in S
         /\ Front(s) \in Seq(S) /\ Len(Front(s)) = Len(s) - 1
         /\ \A i \in 1..(Len(s) - 1) : Front(s)[i] = s[i]
<1>1. Len(s) \in Nat /\ Len(s) >= 1
  OBVIOUS
<1>2. Last(s) = s[Len(s)] /\ Last(s) \in S
  BY <1>1 DEF Last
<1>3. \A i \in 1..(Len(s) - 1) : s[i] \in S
  BY <1>1
<1>4. /\ Front(s) \in Seq(S) /\ Len(Front(s)) = IF 1 <= Len(s) - 1 THEN Len(s) - 1 - 1 + 1 ELSE 0
      /\ \A i \in 1..(Len(s) - 1 - 1 + 1) : Front(s)[i] = s[1 + i - 1]
  BY <1>1, <1>3, SubSeqProperties DEF Front
<1>5. /\ Len(Front(s)) = Len(s) - 1
      /\ \A i \in 1..(Len(s) - 1) : Front(s)[i] = s[i]
  <2>1. Len(Front(s)) = Len(s) - 1
    <3>1. CASE 1 <= Len(s) - 1
      <4>1. Len(Front(s)) = Len(s) - 1 - 1 + 1
        BY <3>1, <1>4
      <4>2. \A a \in Nat : a - 1 - 1 + 1 = a - 1
        OBVIOUS
      <4>3. Len(s) - 1 - 1 + 1 = Len(s) - 1
        BY <4>2, <1>1
      <4> QED BY <4>1, <4>3
    <3>2. CASE ~(1 <= Len(s) - 1)
      <4>1. Len(Front(s)) = 0
        BY <3>2, <1>4
      <4>2. \A a \in Nat : a >= 1 /\ ~(1 <= a - 1) => a - 1 = 0
        OBVIOUS
      <4>3. Len(s) - 1 = 0
        BY <4>2, <3>2, <1>1
      <4> QED BY <4>1, <4>3
    <3> QED BY <3>1, <3>2
  <2>2. ASSUME NEW i \in 1..(Len(s) - 1) PROVE Front(s)[i] = s[i]
    <3>1. i \in 1..(Len(s) - 1 - 1 + 1) /\ 1 + i - 1 = i
      BY <1>1
    <3> QED BY <3>1, <1>4
  <2> QED BY <2>1, <2>2
<1> QED BY <1>1, <1>2, <1>4, <1>5

\* The last element replaced.
LEMMA Replaced ==
  ASSUME NEW S, NEW s \in Seq(S), s # <<>>, NEW x \in S
  PROVE  /\ Append(Front(s), x) \in Seq(S) /\ Len(Append(Front(s), x)) = Len(s)
         /\ \A i \in 1..Len(s) : Append(Front(s), x)[i] = IF i = Len(s) THEN x ELSE s[i]
BY LastFront

\* The last two elements replaced by one.
LEMMA Merged ==
  ASSUME NEW S, NEW s \in Seq(S), Len(s) > 1, NEW x \in S
  PROVE  /\ Append(Front(Front(s)), x) \in Seq(S)
         /\ Len(Append(Front(Front(s)), x)) = Len(s) - 1
         /\ \A i \in 1..(Len(s) - 1) :
               Append(Front(Front(s)), x)[i] = IF i = Len(s) - 1 THEN x ELSE s[i]
<1> DEFINE f == Front(s)
<1>1. s # <<>>
  OBVIOUS
<1>2. /\ f \in Seq(S) /\ Len(f) = Len(s) - 1
      /\ \A i \in 1..(Len(s) - 1) : f[i] = s[i]
  BY <1>1, LastFront
<1>3. Len(s) \in Nat
  OBVIOUS
<1>4. f # <<>>
  BY <1>2, <1>3
<1> HIDE DEF f
<1>5. /\ Append(Front(f), x) \in Seq(S) /\ Len(Append(Front(f), x)) = Len(f)
      /\ \A i \in 1..Len(f) : Append(Front(f), x)[i] = IF i = Len(f) THEN x ELSE f[i]
  BY <1>2, <1>4, Replaced
<1>6. ASSUME NEW i \in 1..(Len(s) - 1)
      PROVE  Append(Front(f), x)[i] = IF i = Len(s) - 1 THEN x ELSE s[i]
  BY <1>2, <1>5
<1>7. /\ Append(Front(f), x) \in Seq(S) /\ Len(Append(Front(f), x)) = Len(s) - 1
      /\ \A i \in 1..(Len(s) - 1) : Append(Front(f), x)[i] = IF i = Len(s) - 1 THEN x ELSE s[i]
  BY <1>2, <1>5, <1>6
<1> QED BY <1>7 DEF f

\* Every operator that makes a transaction makes one of type Txns, from one.
LEMMA NewTxnType == NewTxn \in Txns
BY NameAssumption DEF NewTxn, Txns, Contents, Flags, Absent, Zeros, Record, CORE_DBS, Counts

LEMMA RenewedType ==
  ASSUME TypeOK, NEW db \in [Handles -> Contents] PROVE Renewed(db) \in Txns
<1>1. \A h \in Handles : BeginFlags(h) \in SUBSET Flags
  BY DEF BeginFlags, Flags
<1>2. (\E t \in Live : t.opened) \in BOOLEAN
  OBVIOUS
<1>3. env.num \in Counts /\ file \in [Names -> Contents] /\ store \in [Names -> Contents]
      /\ known \in [Handles -> Names \cup {NoName}]
  BY DEF TypeOK
<1> QED BY <1>1, <1>2, <1>3, NewTxnType DEF Renewed, Txns

LEMMA BarredType == ASSUME NEW t \in Txns PROVE Barred(t) \in Txns
BY DEF Barred, Txns

LEMMA SeesType ==
  ASSUME NEW t \in Txns, NEW k \in [Handles -> Names \cup {NoName}] PROVE Sees(t, k) \in Txns
BY DEF Sees, Txns

LEMMA ForgetsType ==
  ASSUME NEW t \in Txns, NEW h \in Handles PROVE Forgets(t, h) \in Txns
BY DEF Forgets, Txns

LEMMA ResolvedType ==
  ASSUME TypeOK, NEW t \in Txns, NEW h \in Handles, NEW chg PROVE Resolved(t, h, chg) \in Txns
BY DEF Resolved, Txns, TypeOK

LEMMA ChangesType ==
  ASSUME NEW t \in Txns, NEW h \in Handles, t.can[h] # NoName,
         NEW D \in SUBSET (Names \X Keys), NEW V \in SUBSET (Names \X Keys)
  PROVE  Changes(t, h, D, V) \in Txns
BY DEF Changes, Txns, Db, Record, Contents, Flags

\* The slot that mdb_dbi_open takes is a handle, or the one past the last.
LEMMA FreeHandleType ==
  ASSUME TypeOK, NEW t \in Txns PROVE FreeHandle(t) \in Handles \cup {t.num}
BY MinOf DEF FreeHandle

LEMMA HasType ==
  ASSUME NEW t \in Txns, NEW h \in Handles, NEW n \in Names PROVE Has(t, h, n) \in Txns
BY DEF Has, Txns

LEMMA RegisteredType ==
  ASSUME NEW t \in Txns, NEW h \in Handles, NEW n \in Names PROVE Registered(t, h, n) \in Txns
<1>1. Has(t, h, n) \in Txns
  BY HasType
<1>2. h + 1 \in Counts
  BY DEF Handles, CORE_DBS, Counts
<1>3. Max({Has(t, h, n).num, h + 1}) \in Counts
  BY <1>1, <1>2, CountsMax DEF Txns
<1>4. Db({}) \in Contents /\ Absent \in Contents
  BY DEF Db, Absent, Contents, Record
<1> QED BY <1>1, <1>3, <1>4 DEF Registered, Txns, Flags

LEMMA OpenedType ==
  ASSUME TypeOK, NEW t \in Txns, NEW n \in Names, NEW create \in BOOLEAN
  PROVE  Opened(t, n, create) \subseteq Handles
<1>1. FreeHandle(t) < MaxDbs => FreeHandle(t) \in Handles
  <2>1. CASE FreeHandle(t) \in Handles
    BY <2>1
  <2>2. t.num < MaxDbs => t.num \in Handles
    <3>1. t.num \in Nat /\ t.num >= 2 /\ MaxDbs \in Nat
      BY DbiTableAssumption DEF Txns, Counts, CORE_DBS
    <3> QED BY <3>1 DEF Handles, CORE_DBS
  <2>3. FreeHandle(t) \in Handles \/ FreeHandle(t) = t.num
    BY FreeHandleType
  <2> QED BY <2>1, <2>2, <2>3
<1> QED BY <1>1 DEF Opened

LEMMA DbiOpenType ==
  ASSUME TypeOK, NEW t \in Txns, NEW n \in Names, NEW create \in BOOLEAN
  PROVE  DbiOpen(t, n, create) \in Txns
<1>1. CASE OldHandle(t, n) # {}
  <2>1. Min(OldHandle(t, n)) \in Handles
    BY <1>1, MinOf DEF OldHandle
  <2> QED BY <1>1, <2>1, HasType DEF DbiOpen
<1>2. CASE OldHandle(t, n) = {} /\ Opened(t, n, create) = {}
  BY <1>2 DEF DbiOpen, Txns
<1>3. CASE OldHandle(t, n) = {} /\ Opened(t, n, create) # {}
  <2>1. Opened(t, n, create) = {FreeHandle(t)}
    BY <1>3 DEF Opened
  <2>2. FreeHandle(t) \in Handles
    BY <2>1, OpenedType
  <2> QED BY <1>3, <2>2, RegisteredType DEF DbiOpen
<1> QED BY <1>1, <1>2, <1>3

\* mdb_dbis_update leaves a table.
LEMMA KeptType ==
  ASSUME TypeOK, NEW t \in Txns
  PROVE  Kept(t) \in [num : Counts, name : [Handles -> Names \cup {NoName}],
                      valid : [Handles -> BOOLEAN]]
<1>1. Max({env.num, t.num}) \in Counts
  BY CountsMax DEF TypeOK, Txns
<1> QED BY <1>1 DEF Kept, TypeOK

LEMMA ClosedType ==
  ASSUME TypeOK, NEW S
  PROVE  Closed(env, S) \in [num : Counts, name : [Handles -> Names \cup {NoName}],
                             valid : [Handles -> BOOLEAN]]
BY DEF Closed, TypeOK

LEMMA LeftType == ASSUME NEW t \in Txns PROVE Left(t) \in [Handles -> Contents]
BY DEF Left, Txns, Db, Zeros, Record, Contents

LEMMA PublishedType ==
  ASSUME TypeOK, NEW t \in Txns PROVE Published(t) \in [Handles -> Names \cup {NoName}]
BY DEF TypeOK, Txns, Published

\* The deepest write transaction.
LEMMA WriterType == ASSUME TypeOK, wr # <<>> PROVE w \in Txns /\ w.live /\ w = wr[Len(wr)]
                                                   /\ Len(wr) \in Line /\ Len(wr) \in Nat
<1>1. wr \in Seq(Txns)
  BY DEF TypeOK
<1>2. /\ Len(wr) \in Nat /\ Len(wr) >= 1 /\ w = wr[Len(wr)] /\ w \in Txns
  BY <1>1, LastFront DEF w
<1>3. Len(wr) \in Line
  BY <1>2 DEF Line
<1> QED BY <1>2, <1>3 DEF TypeOK

\* The deepest write transaction makes a step of its own.
LEMMA ReplacedLine ==
  ASSUME TypeOK, wr # <<>>, NEW x \in Txns, wr' = Append(Front(wr), x)
  PROVE  /\ wr' \in Seq(Txns) /\ Len(wr') = Len(wr) /\ Line' = Line
         /\ \A i \in Line : wr'[i] = IF i = Len(wr) THEN x ELSE wr[i]
<1>1. wr \in Seq(Txns)
  BY DEF TypeOK
<1> QED BY <1>1, Replaced DEF Line

\* The deepest write transaction ends.
LEMMA ShorterLine ==
  ASSUME TypeOK, wr # <<>>, wr' = Front(wr)
  PROVE  /\ wr' \in Seq(Txns) /\ Len(wr') = Len(wr) - 1 /\ Line' = 1..(Len(wr) - 1)
         /\ Line' \subseteq Line
         /\ \A i \in Line' : wr'[i] = wr[i]
<1>1. wr \in Seq(Txns)
  BY DEF TypeOK
<1>2. /\ wr' \in Seq(Txns) /\ Len(wr') = Len(wr) - 1
      /\ \A i \in 1..(Len(wr) - 1) : wr'[i] = wr[i]
  BY <1>1, LastFront
<1>3. Line' = 1..(Len(wr) - 1)
  BY <1>2 DEF Line
<1>4. Line' \subseteq Line
  BY <1>1, <1>3 DEF Line
<1> QED BY <1>2, <1>3, <1>4

\* It ends and leaves its parent changed.
LEMMA MergedLine ==
  ASSUME TypeOK, Len(wr) > 1, NEW x \in Txns, wr' = Append(Front(Front(wr)), x)
  PROVE  /\ wr' \in Seq(Txns) /\ Len(wr') = Len(wr) - 1 /\ Line' = 1..(Len(wr) - 1)
         /\ Line' \subseteq Line
         /\ \A i \in Line' : wr'[i] = IF i = Len(wr) - 1 THEN x ELSE wr[i]
<1>1. wr \in Seq(Txns)
  BY DEF TypeOK
<1>2. /\ wr' \in Seq(Txns) /\ Len(wr') = Len(wr) - 1
      /\ \A i \in 1..(Len(wr) - 1) : wr'[i] = IF i = Len(wr) - 1 THEN x ELSE wr[i]
  BY <1>1, Merged
<1>3. Line' = 1..(Len(wr) - 1)
  BY <1>2 DEF Line
<1>4. Line' \subseteq Line
  BY <1>1, <1>3 DEF Line
<1> QED BY <1>2, <1>3, <1>4

\* Each of them changes.
LEMMA LineDomain == ASSUME TypeOK PROVE DOMAIN wr = Line /\ Len(wr) \in Nat
<1>1. wr \in Seq(Txns)
  BY DEF TypeOK
<1> QED BY <1>1 DEF Line

\* Every transaction of the line replaced.
LEMMA MappedLine ==
  ASSUME TypeOK, DOMAIN wr' = Line, wr' = [i \in Line |-> wr'[i]],
         \A i \in Line : wr'[i] \in Txns
  PROVE  wr' \in Seq(Txns) /\ Len(wr') = Len(wr) /\ Line' = Line
<1>1. wr \in Seq(Txns) /\ Len(wr) \in Nat
  BY LineDomain DEF TypeOK
<1>2. wr' = [i \in DOMAIN wr |-> wr'[i]] /\ \A i \in 1..Len(wr) : wr'[i] \in Txns
  BY LineDomain DEF Line
<1>3. wr' \in Seq(Txns) /\ Len(wr') = Len(wr)
  BY <1>1, <1>2, Mapped
<1> QED BY <1>3 DEF Line

-----------------------------------------------------------------------------
(***************************************************************************)
(* Types: every step keeps them.                                           *)
(***************************************************************************)

\* The types of the transactions.
LEMMA WrType == ASSUME TypeOK PROVE /\ wr \in Seq(Txns) /\ rd \in Txns
                                    /\ \A i \in Line : wr[i] \in Txns /\ wr[i].live
<1>1. wr \in Seq(Txns)
  BY DEF TypeOK
<1>2. \A i \in 1..Len(wr) : wr[i] \in Txns
  BY <1>1
<1> QED BY <1>1, <1>2 DEF TypeOK, Line

\* A step that changes the deepest write transaction.
LEMMA TypeOfStep ==
  ASSUME TypeOK, wr # <<>>, NEW x \in Txns, x.live, wr' = Append(Front(wr), x)
  PROVE  wr' \in Seq(Txns) /\ \A i \in Line' : wr'[i].live
BY ReplacedLine, WrType

\* The line after the last transaction has ended.
LEMMA TypeOfEnd ==
  ASSUME TypeOK, wr # <<>>, wr' = Front(wr)
  PROVE  wr' \in Seq(Txns) /\ \A i \in Line' : wr'[i].live
BY ShorterLine, WrType

LEMMA TypeOfMerge ==
  ASSUME TypeOK, Len(wr) > 1, NEW x \in Txns, x.live, wr' = Append(Front(Front(wr)), x)
  PROVE  wr' \in Seq(Txns) /\ \A i \in Line' : wr'[i].live
BY MergedLine, WrType

\* What is done to one transaction leaves it alive.
LEMMA StaysLive ==
  ASSUME NEW t \in Txns, NEW h, NEW n, NEW c, NEW k, NEW D, NEW V
  PROVE  /\ Barred(t).live = t.live
         /\ t.live => Sees(t, k).live
         /\ ~t.live => Sees(t, k) = t
         /\ t.live => Forgets(t, h).live
         /\ ~t.live => Forgets(t, h) = t
         /\ Resolved(t, h, c).live = t.live
         /\ Changes(t, h, D, V).live = t.live
         /\ DbiOpen(t, n, c).live = t.live
<1>1. Barred(t).live = t.live
  BY DEF Barred
<1>2. (t.live => Sees(t, k).live) /\ (~t.live => Sees(t, k) = t)
  BY DEF Sees
<1>3. (t.live => Forgets(t, h).live) /\ (~t.live => Forgets(t, h) = t)
  BY DEF Forgets
<1>4. Resolved(t, h, c).live = t.live
  BY DEF Resolved
<1>5. Changes(t, h, D, V).live = t.live
  BY DEF Changes
<1>6. DbiOpen(t, n, c).live = t.live
  BY DEF DbiOpen, Has, Registered
<1> QED BY <1>1, <1>2, <1>3, <1>4, <1>5, <1>6

\* Types hold at first, and each step keeps them.
LEMMA TypeInit == Init => TypeOK
<1> SUFFICES ASSUME Init PROVE TypeOK
  OBVIOUS
<1>1. Absent \in Contents /\ Zeros \in Contents
  BY DEF Absent, Zeros, Contents, Record
<1>2. wr = <<>> /\ wr \in Seq(Txns) /\ Line = {}
  BY DEF Init, Line
<1>3. CORE_DBS \in Counts
  BY DEF CORE_DBS, Counts
<1>4. rd = NewTxn /\ rd \in Txns
  BY NewTxnType DEF Init
<1> QED BY <1>1, <1>2, <1>3, <1>4 DEF Init, TypeOK

LEMMA TypeBegin ==
  ASSUME TypeOK, BeginRead \/ BeginWrite \/ BeginChild PROVE TypeOK'
<1>1. CASE BeginRead
  <2> DEFINE R == Renewed([h \in Handles |-> Zeros])
  <2>1. R \in Txns
    <3>1. [h \in Handles |-> Zeros] \in [Handles -> Contents]
      BY DEF Zeros, Contents, Record
    <3> QED BY <3>1, RenewedType
  <2>2. R.live
    BY DEF Renewed, NewTxn
  <2> HIDE DEF R
  <2>3. rd' = R /\ Line' = Line
    BY <1>1 DEF BeginRead, R, Line
  <2> QED BY <1>1, <2>1, <2>2, <2>3 DEF BeginRead, TypeOK
<1>2. CASE BeginWrite
  <2> DEFINE R == Renewed(db0)
  <2>1. R \in Txns
    BY RenewedType DEF TypeOK
  <2>2. R.live
    BY DEF Renewed, NewTxn
  <2> HIDE DEF R
  <2>3. wr' = <<R>>
    BY <1>2 DEF BeginWrite, R
  <2>4. wr' \in Seq(Txns) /\ \A i \in Line' : wr'[i].live
    BY <2>1, <2>2, <2>3 DEF Line
  <2> QED BY <1>2, <2>4 DEF BeginWrite, TypeOK
<1>3. CASE BeginChild
  <2> DEFINE C == [w EXCEPT !.flags = [h \in Handles |-> @[h] \ {"NEW"}]]
  <2>1. w \in Txns /\ w.live
    BY <1>3, WriterType DEF BeginChild
  <2>2. C \in Txns /\ C.live
    BY <2>1 DEF Txns
  <2> HIDE DEF C
  <2>3. wr' = Append(wr, C) /\ wr \in Seq(Txns)
    BY <1>3 DEF BeginChild, C, TypeOK
  <2>4. wr' \in Seq(Txns) /\ \A i \in Line' : wr'[i].live
    BY <2>2, <2>3, WrType DEF Line
  <2> QED BY <1>3, <2>4 DEF BeginChild, TypeOK
<1> QED BY <1>1, <1>2, <1>3

LEMMA TypeEndRead == ASSUME TypeOK, EndRead PROVE TypeOK'
<1>1. rd' = NewTxn /\ rd' \in Txns
  BY NewTxnType DEF EndRead
<1>2. rd \in Txns
  BY DEF TypeOK
<1>3. CASE /\ env' = Kept(rd) /\ known' = Published(rd)
           /\ wr' = [i \in DOMAIN wr |-> Sees(wr[i], known')]
           /\ UNCHANGED changed
  <2>1. known' \in [Handles -> Names \cup {NoName}]
    BY <1>2, <1>3, PublishedType
  <2>2. env' \in [num : Counts, name : [Handles -> Names \cup {NoName}],
                  valid : [Handles -> BOOLEAN]]
    BY <1>2, <1>3, KeptType
  <2>3. wr' = [i \in Line |-> Sees(wr[i], known')]
    BY <1>3, LineDomain
  <2>4. \A i \in Line : Sees(wr[i], known') \in Txns
    BY <2>1, WrType, SeesType
  <2>5. \A i \in Line : Sees(wr[i], known').live
    BY WrType DEF Sees
  <2>6. wr' \in Seq(Txns) /\ Line' = Line
    BY <2>3, <2>4, MappedLine
  <2> QED BY <1>1, <1>3, <2>1, <2>2, <2>3, <2>5, <2>6 DEF EndRead, TypeOK
<1>4. CASE /\ env' = Discarded(rd) /\ changed' = changed \cup Open(NewIn(rd))
           /\ UNCHANGED <<known, wr>>
  <2>1. env' \in [num : Counts, name : [Handles -> Names \cup {NoName}],
                  valid : [Handles -> BOOLEAN]]
    BY <1>4, ClosedType DEF Discarded
  <2>2. changed' \subseteq Handles
    BY <1>4 DEF Open, NewIn, TypeOK
  <2> QED BY <1>1, <1>4, <2>1, <2>2 DEF EndRead, TypeOK, Line
<1> QED BY <1>3, <1>4 DEF EndRead

LEMMA TypeAbort == ASSUME TypeOK, wr # <<>>, AbortOne PROVE TypeOK'
<1>1. wr' \in Seq(Txns) /\ \A i \in Line' : wr'[i].live
  BY TypeOfEnd DEF AbortOne
<1>2. env' \in [num : Counts, name : [Handles -> Names \cup {NoName}],
                valid : [Handles -> BOOLEAN]]
  BY ClosedType DEF Discarded, AbortOne
<1>3. changed' \subseteq Handles
  BY DEF Open, NewIn, TypeOK, AbortOne
<1>4. db0' \in [Handles -> Contents]
  BY WriterType, LeftType DEF TypeOK, AbortOne
<1> QED BY <1>1, <1>2, <1>3, <1>4 DEF AbortOne, TypeOK

LEMMA LineLast == ASSUME TypeOK, Len(wr) > 1
                  PROVE  /\ wr # <<>> /\ Len(wr) - 1 \in Line
                         /\ wr[Len(wr) - 1] \in Txns /\ wr[Len(wr) - 1].live
<1>1. wr # <<>>
  OBVIOUS
<1>2. Len(wr) \in Nat
  BY LineDomain
<1>3. Len(wr) - 1 \in Line
  BY <1>2 DEF Line
<1> QED BY <1>1, <1>3, WrType

LEMMA TypeChildEnds == ASSUME TypeOK, CommitChild \/ CommitFailed PROVE TypeOK'
<1> DEFINE p == wr[Len(wr) - 1]
<1>1. Len(wr) > 1
  BY DEF CommitChild, CommitFailed
<1>2. wr # <<>> /\ p \in Txns /\ p.live /\ w \in Txns /\ w.live
  BY <1>1, LineLast, WriterType
<1>3. CASE CommitChild
  <2> DEFINE x == [w EXCEPT !.flags = [h \in Handles |-> ParentFlags(p, w, h)]]
  <2>1. \A h \in Handles : ParentFlags(p, w, h) \in SUBSET Flags
    BY <1>2 DEF ParentFlags, Txns
  <2>2. x \in Txns /\ x.live
    BY <1>2, <2>1 DEF Txns
  <2>3. wr' = Append(Front(Front(wr)), x)
    BY <1>3 DEF CommitChild
  <2> HIDE DEF x
  <2>4. wr' \in Seq(Txns) /\ \A i \in Line' : wr'[i].live
    BY <1>1, <2>2, <2>3, TypeOfMerge
  <2> QED BY <1>3, <2>4 DEF CommitChild, TypeOK
<1>4. CASE CommitFailed
  <2> DEFINE x == [p EXCEPT !.err = TRUE]
  <2>1. x \in Txns /\ x.live
    BY <1>2 DEF Txns
  <2>2. wr' = Append(Front(Front(wr)), x)
    BY <1>4 DEF CommitFailed
  <2> HIDE DEF x
  <2>3. wr' \in Seq(Txns) /\ \A i \in Line' : wr'[i].live
    BY <1>1, <2>1, <2>2, TypeOfMerge
  <2>4. env' \in [num : Counts, name : [Handles -> Names \cup {NoName}],
                  valid : [Handles -> BOOLEAN]]
    BY <1>4, ClosedType DEF Discarded, CommitFailed
  <2>5. changed' \subseteq Handles
    BY <1>4 DEF Open, NewIn, TypeOK, CommitFailed
  <2> QED BY <1>4, <2>3, <2>4, <2>5 DEF CommitFailed, TypeOK
<1> QED BY <1>3, <1>4

\* One handle has the name.
LEMMA OneNamed ==
  ASSUME TableInv, NEW H \in SUBSET Handles, NEW n \in Names, \A h \in H : env.name[h] = n,
         H # {}
  PROVE  Max(H) \in H /\ Min(H) \in H
<1>1. \A g, h \in H : g = h
  BY NameAssumption DEF TableInv, IsOpen
<1>2. PICK h \in H : TRUE
  OBVIOUS
<1>3. H = {h} /\ h \in Int
  BY <1>1, <1>2 DEF Handles, CORE_DBS
<1>4. \A y \in H : h >= y /\ h <= y
  BY <1>3
<1> QED BY <1>3, <1>4 DEF Max, Min

\* A write transaction commits.
Committed ==
    /\ Len(wr) = 1 /\ ~w.err /\ MayWrite(w)
    /\ file' = [n \in Names |-> LET H == {h \in Dirty(w) : env.name[h] = n}
                                IN IF H = {} THEN w.main[n] ELSE w.db[Max(H)]]
    /\ env' = Kept(w) /\ known' = Published(w) /\ rd' = Sees(rd, known') /\ store' = w.view
    /\ db0' = Left(w) /\ wr' = <<>> /\ changed' = {}

\* mdb_txn_commit aborts or commits.
LEMMA CommitCases == Commit => (wr # <<>> /\ AbortOne) \/ (wr # <<>> /\ Committed)
BY DEF Commit, Committed

LEMMA TypeCommitted == ASSUME TypeOK, TableInv, wr # <<>>, Committed PROVE TypeOK'
<1>1. w \in Txns
  BY WriterType
<1>2. wr' \in Seq(Txns) /\ Line' = {}
  BY DEF Committed, Line
<1>3. known' \in [Handles -> Names \cup {NoName}]
  BY <1>1, PublishedType DEF Committed
<1>4. rd' \in Txns /\ (rd'.live \/ rd' = NewTxn)
  <2>1. rd' \in Txns
    BY <1>3, SeesType DEF Committed, TypeOK
  <2>2. rd'.live \/ rd' = NewTxn
    BY DEF Committed, TypeOK, Sees
  <2> QED BY <2>1, <2>2
<1>5. env' \in [num : Counts, name : [Handles -> Names \cup {NoName}],
                valid : [Handles -> BOOLEAN]]
  BY <1>1, KeptType DEF Committed
<1>6. db0' \in [Handles -> Contents] /\ store' \in [Names -> Contents]
  <2>1. db0' \in [Handles -> Contents]
    BY <1>1, LeftType DEF Committed
  <2>2. w.view \in [Names -> Contents]
    BY <1>1 DEF Txns
  <2> QED BY <2>1, <2>2 DEF Committed
<1>7. file' \in [Names -> Contents]
  <2> DEFINE H(n) == {h \in Dirty(w) : env.name[h] = n}
  <2>1. ASSUME NEW n \in Names, H(n) # {} PROVE w.db[Max(H(n))] \in Contents
    <3>1. Max(H(n)) \in Handles
      BY <2>1, OneNamed DEF Dirty
    <3> QED BY <1>1, <3>1 DEF Txns
  <2>2. ASSUME NEW n \in Names PROVE w.main[n] \in Contents
    BY <1>1 DEF Txns
  <2>3. file' = [n \in Names |-> IF H(n) = {} THEN w.main[n] ELSE w.db[Max(H(n))]]
    BY DEF Committed
  <2> HIDE DEF H
  <2> QED BY <2>1, <2>2, <2>3
<1> QED BY <1>2, <1>3, <1>4, <1>5, <1>6, <1>7 DEF TypeOK, Committed

LEMMA TypeOther == ASSUME TypeOK, OtherProcess PROVE TypeOK'
<1>1. PICK n \in Names, r \in {Absent, Db({})} : file' = [file EXCEPT ![n] = r]
  BY DEF OtherProcess
<1>2. r \in Contents
  BY DEF Absent, Db, Record, Contents
<1>3. file' \in [Names -> Contents]
  BY <1>1, <1>2 DEF TypeOK
<1> QED BY <1>3 DEF OtherProcess, TypeOK, Line

LEMMA NamedType ==
  ASSUME TypeOK, NEW S, NEW n \in Names
  PROVE  Named(S, n) \in [num : Counts, name : [Handles -> Names \cup {NoName}],
                          valid : [Handles -> BOOLEAN]]
BY DEF Named, TypeOK

LEMMA TypeOpenRead == ASSUME TypeOK, NEW n \in Names, OpenRead(n) PROVE TypeOK'
<1>1. rd' \in Txns /\ rd'.live
  <2>1. rd \in Txns /\ rd.live /\ rd' = DbiOpen(rd, n, FALSE)
    BY WrType DEF OpenRead, Usable
  <2>2. DbiOpen(rd, n, FALSE) \in Txns
    BY <2>1, DbiOpenType
  <2>3. DbiOpen(rd, n, FALSE).live
    BY <2>1 DEF DbiOpen, Has, Registered
  <2> QED BY <2>1, <2>2, <2>3
<1>2. env' \in [num : Counts, name : [Handles -> Names \cup {NoName}],
                valid : [Handles -> BOOLEAN]]
  BY NamedType DEF OpenRead
<1>3. changed' \subseteq Handles
  BY WrType, OpenedType DEF OpenRead, TypeOK
<1>4. wr' = [i \in Line |-> Barred(wr[i])]
  BY LineDomain DEF OpenRead
<1>5. \A i \in Line : Barred(wr[i]) \in Txns /\ Barred(wr[i]).live
  BY WrType, BarredType DEF Barred
<1>6. wr' \in Seq(Txns) /\ Line' = Line
  BY <1>4, <1>5, MappedLine
<1> QED BY <1>1, <1>2, <1>3, <1>4, <1>5, <1>6 DEF OpenRead, TypeOK

LEMMA TypeOpenWrite ==
  ASSUME TypeOK, NEW n \in Names, NEW create \in BOOLEAN, OpenWrite(n, create) PROVE TypeOK'
<1>1. w \in Txns /\ w.live /\ wr # <<>>
  BY WriterType DEF OpenWrite
<1>2. DbiOpen(w, n, create) \in Txns
  BY <1>1, DbiOpenType
<1>3. DbiOpen(w, n, create).live
  BY <1>1 DEF DbiOpen, Has, Registered
<1>4. wr' \in Seq(Txns) /\ \A i \in Line' : wr'[i].live
  BY <1>1, <1>2, <1>3, TypeOfStep DEF OpenWrite
<1>5. env' \in [num : Counts, name : [Handles -> Names \cup {NoName}],
                valid : [Handles -> BOOLEAN]]
  BY NamedType DEF OpenWrite
<1>6. rd' \in Txns /\ (rd'.live \/ rd' = NewTxn)
  <2>1. Barred(rd) \in Txns
    BY WrType, BarredType
  <2> QED BY <2>1 DEF OpenWrite, TypeOK, Barred
<1> QED BY <1>4, <1>5, <1>6 DEF OpenWrite, TypeOK

LEMMA ForgetsLive ==
  ASSUME NEW t \in Txns, NEW h \in Handles, t.live
  PROVE  Forgets(t, h) \in Txns /\ Forgets(t, h).live
<1>1. Forgets(t, h) \in Txns
  BY ForgetsType
<1>2. Forgets(t, h).live
  BY DEF Forgets, Txns
<1> QED BY <1>1, <1>2

LEMMA ForgottenType ==
  ASSUME TypeOK, NEW h \in Handles, Forgotten(h)
  PROVE  /\ known' \in [Handles -> Names \cup {NoName}]
         /\ rd' \in Txns /\ (rd'.live \/ rd' = NewTxn)
<1>1. known' \in [Handles -> Names \cup {NoName}]
  BY DEF Forgotten, TypeOK
<1>2. rd' \in Txns
  BY WrType, ForgetsType DEF Forgotten
<1>3. rd'.live \/ rd' = NewTxn
  BY DEF Forgotten, TypeOK, Forgets
<1> QED BY <1>1, <1>2, <1>3

LEMMA TypeClose == ASSUME TypeOK, NEW h \in Handles, Close(h) PROVE TypeOK'
<1>1. /\ known' \in [Handles -> Names \cup {NoName}]
      /\ rd' \in Txns /\ (rd'.live \/ rd' = NewTxn)
  BY ForgottenType DEF Close
<1>2. wr' = [i \in Line |-> Forgets(wr[i], h)]
  BY LineDomain DEF Close
<1>3. \A i \in Line : Forgets(wr[i], h) \in Txns /\ Forgets(wr[i], h).live
  BY WrType, ForgetsLive
<1>4. wr' \in Seq(Txns) /\ Line' = Line
  BY <1>2, <1>3, MappedLine
<1>5. env' \in [num : Counts, name : [Handles -> Names \cup {NoName}],
                valid : [Handles -> BOOLEAN]]
  BY ClosedType DEF Close
<1>6. changed' \subseteq Handles
  BY DEF Close, Open, TypeOK
<1> QED BY <1>1, <1>2, <1>3, <1>4, <1>5, <1>6 DEF Close, TypeOK

\* A writer reads the record under h, and may fail.
WriterReads(h) ==
    LET r == Resolved(w, h, Changed(h)) IN
    /\ wr # <<>> /\ w.can[h] # NoName
    /\ UNCHANGED <<env, file, db0, rd, changed, known, store>>
    /\ \E x \in {r, [r EXCEPT !.err = TRUE]} : wr' = Append(Front(wr), x)

\* The new contents under h are those by name, if the old were.
Fits(t, h, D, V) ==
    \/ D = V
    \/ /\ t.db[h].keys = t.view[t.can[h]].keys => D = V
       /\ ~Stale(t, h) \/ t.db[h] = Db({})

\* It changes the database under h.
WriterChanges(h) ==
    LET r == Resolved(w, h, Changed(h)) IN
    /\ wr # <<>> /\ w.can[h] # NoName /\ TXN_DBI_EXIST(w, h)
    /\ UNCHANGED <<env, file, db0, rd, changed, known, store>>
    /\ \E D, V \in SUBSET (Names \X Keys) :
         wr' = Append(Front(wr), Changes(r, h, D, V)) /\ (h \notin changed => Fits(r, h, D, V))

\* It deletes the database under h.
WriterDrops(h) ==
    LET r == Resolved(w, h, Changed(h))
        n == env.name[h] IN
    /\ MayModify(h) /\ MayClose(h, Front(wr)) /\ h \notin changed
    /\ ~Stale(r, h) \/ NoRecords(r)
    /\ r.main[n] # Absent
    /\ env' = Closed(env, {h}) /\ changed' = changed \cup {h} /\ Forgotten(h)
    /\ wr' = [i \in DOMAIN wr |->
                IF i < Len(wr) THEN Forgets(wr[i], h)
                ELSE [Forgets(r, h) EXCEPT !.main[n] = Absent, !.view[w.can[h]] = Absent,
                                           !.flags[h] = {"STALE"}]]
    /\ UNCHANGED <<file, db0, store>>

LEMMA KeyType ==
  ASSUME TypeOK, wr # <<>>, NEW h \in Handles, w.can[h] # NoName, NEW k \in Keys, NEW chg
  PROVE  /\ Key(h, k) \in Names \X Keys
         /\ KeysOf(w, h) \subseteq Names \X Keys
         /\ Resolved(w, h, chg).db[h].keys \subseteq Names \X Keys
<1>1. w \in Txns
  BY WriterType
<1>2. Resolved(w, h, chg) \in Txns
  BY <1>1, ResolvedType
<1>3. w.can[h] \in Names
  BY <1>1 DEF Txns
<1> QED BY <1>1, <1>2, <1>3 DEF Key, KeysOf, Txns, Contents

\* The operations of the last writer: each reads the record, or changes it too.
LEMMA GetWriteCase == ASSUME NEW h \in Handles, GetWrite(h) PROVE WriterReads(h)
BY DEF GetWrite, WriterReads, MayRead

LEMMA PutCase ==
  ASSUME TypeOK, NEW h \in Handles, NEW k \in Keys, Put(h, k)
  PROVE  WriterReads(h) \/ WriterChanges(h)
<1> DEFINE r == Resolved(w, h, Changed(h))
           D == r.db[h].keys \cup {Key(h, k)}
           V == KeysOf(w, h) \cup {Key(h, k)}
<1>1. wr # <<>> /\ w.can[h] # NoName /\ TXN_DBI_EXIST(w, h)
  BY DEF Put, MayModify
<1>2. D \in SUBSET (Names \X Keys) /\ V \in SUBSET (Names \X Keys)
  BY <1>1, KeyType
<1>3. \/ wr' = Append(Front(wr), Changes(r, h, D, V)) /\ (~Stale(r, h) \/ r.db[h] = Db({}))
      \/ wr' = Append(Front(wr), r)
  BY DEF Put
<1>5. r.db[h].keys = r.view[r.can[h]].keys => D = V
  <2>1. w \in Txns
    BY <1>1, WriterType
  <2>2. r.view = w.view /\ r.can = w.can
    BY <2>1 DEF Resolved, Txns
  <2> QED BY <2>2 DEF KeysOf
<1>4. UNCHANGED <<env, file, db0, rd, changed, known, store>>
  BY DEF Put
<1> HIDE DEF D, V
<1> QED BY <1>1, <1>2, <1>3, <1>4, <1>5 DEF WriterReads, WriterChanges, Fits

LEMMA DelCase ==
  ASSUME TypeOK, NEW h \in Handles, NEW k \in Keys, Del(h, k)
  PROVE  WriterReads(h) \/ WriterChanges(h)
<1> DEFINE r == Resolved(w, h, Changed(h))
           D == r.db[h].keys \ {Key(h, k)}
           V == KeysOf(w, h) \ {Key(h, k)}
<1>1. wr # <<>> /\ w.can[h] # NoName /\ TXN_DBI_EXIST(w, h)
  BY DEF Del, MayModify
<1>2. D \in SUBSET (Names \X Keys) /\ V \in SUBSET (Names \X Keys)
  BY <1>1, KeyType
<1>3. \/ wr' = Append(Front(wr), Changes(r, h, D, V)) /\ (~Stale(r, h) \/ r.db[h] = Db({}))
      \/ wr' = Append(Front(wr), r)
  BY DEF Del
<1>5. r.db[h].keys = r.view[r.can[h]].keys => D = V
  <2>1. w \in Txns
    BY <1>1, WriterType
  <2>2. r.view = w.view /\ r.can = w.can
    BY <2>1 DEF Resolved, Txns
  <2> QED BY <2>2 DEF KeysOf
<1>4. UNCHANGED <<env, file, db0, rd, changed, known, store>>
  BY DEF Del
<1> HIDE DEF D, V
<1> QED BY <1>1, <1>2, <1>3, <1>4, <1>5 DEF WriterReads, WriterChanges, Fits

LEMMA EmptyCase ==
  ASSUME TypeOK, NEW h \in Handles, Empty(h) PROVE WriterReads(h) \/ WriterChanges(h)
BY DEF Empty, MayModify, WriterReads, WriterChanges, Fits

LEMMA DropCase ==
  ASSUME TypeOK, NEW h \in Handles, Drop(h) PROVE WriterReads(h) \/ WriterDrops(h)
BY DEF Drop, MayModify, WriterReads, WriterDrops, Changed

LEMMA TypeReads ==
  ASSUME TypeOK, NEW h \in Handles, WriterReads(h) PROVE TypeOK'
<1> DEFINE r == Resolved(w, h, Changed(h))
<1>1. wr # <<>> /\ w \in Txns /\ w.live
  BY WriterType DEF WriterReads
<1>2. r \in Txns /\ r.live
  <2>1. r \in Txns
    BY <1>1, ResolvedType
  <2> QED BY <1>1, <2>1 DEF Resolved
<1>3. [r EXCEPT !.err = TRUE] \in Txns /\ [r EXCEPT !.err = TRUE].live
  BY <1>2 DEF Txns
<1>4. PICK x \in {r, [r EXCEPT !.err = TRUE]} : wr' = Append(Front(wr), x)
  BY DEF WriterReads
<1>5. wr' \in Seq(Txns) /\ \A i \in Line' : wr'[i].live
  <2>1. x \in Txns /\ x.live
    BY <1>2, <1>3, <1>4
  <2> QED BY <1>1, <1>4, <2>1, TypeOfStep
<1> QED BY <1>5 DEF WriterReads, TypeOK

LEMMA TypeChanges ==
  ASSUME TypeOK, NEW h \in Handles, WriterChanges(h) PROVE TypeOK'
<1> DEFINE r == Resolved(w, h, Changed(h))
<1>1. wr # <<>> /\ w \in Txns /\ w.live
  BY WriterType DEF WriterChanges
<1>2. r \in Txns /\ r.live /\ r.can[h] # NoName
  <2>1. r \in Txns
    BY <1>1, ResolvedType
  <2> QED BY <1>1, <2>1 DEF Resolved, WriterChanges
<1> HIDE DEF r
<1>3. PICK D, V \in SUBSET (Names \X Keys) : wr' = Append(Front(wr), Changes(r, h, D, V))
  BY DEF WriterChanges, r
<1>4. Changes(r, h, D, V) \in Txns /\ Changes(r, h, D, V).live
  <2>1. Changes(r, h, D, V) \in Txns
    BY <1>2, ChangesType
  <2> QED BY <1>2, <2>1 DEF Changes
<1>5. wr' \in Seq(Txns) /\ \A i \in Line' : wr'[i].live
  BY <1>1, <1>3, <1>4, TypeOfStep
<1> QED BY <1>5 DEF WriterChanges, TypeOK

LEMMA TypeDrops == ASSUME TypeOK, NEW h \in Handles, WriterDrops(h) PROVE TypeOK'
<1> DEFINE r == Resolved(w, h, Changed(h))
           n == env.name[h]
           x == [Forgets(r, h) EXCEPT !.main[n] = Absent, !.view[w.can[h]] = Absent,
                                      !.flags[h] = {"STALE"}]
<1>1. wr # <<>> /\ w \in Txns /\ w.live
  BY WriterType DEF WriterDrops, MayModify
<1>2. r \in Txns /\ r.live
  <2>1. r \in Txns
    BY <1>1, ResolvedType
  <2> QED BY <1>1, <2>1 DEF Resolved
<1>3. Forgets(r, h) \in Txns /\ Forgets(r, h).live
  BY <1>2, ForgetsLive
<1>4. x \in Txns /\ x.live
  BY <1>3 DEF Txns, Flags, Absent, Record, Contents
<1>5. /\ known' \in [Handles -> Names \cup {NoName}]
      /\ rd' \in Txns /\ (rd'.live \/ rd' = NewTxn)
  BY ForgottenType DEF WriterDrops
<1>6. wr' = [i \in Line |-> IF i < Len(wr) THEN Forgets(wr[i], h) ELSE x]
  BY LineDomain DEF WriterDrops
<1>7. \A i \in Line : Forgets(wr[i], h) \in Txns /\ Forgets(wr[i], h).live
  BY WrType, ForgetsLive
<1> HIDE DEF x
<1>8. \A i \in Line : wr'[i] \in Txns /\ wr'[i].live
  BY <1>4, <1>6, <1>7
<1>9. wr' \in Seq(Txns) /\ Line' = Line
  BY <1>6, <1>8, MappedLine
<1>10. env' \in [num : Counts, name : [Handles -> Names \cup {NoName}],
                valid : [Handles -> BOOLEAN]]
  BY ClosedType DEF WriterDrops
<1>11. changed' \subseteq Handles
  BY DEF WriterDrops, TypeOK
<1> QED BY <1>5, <1>8, <1>9, <1>10, <1>11 DEF WriterDrops, TypeOK

LEMMA TypeGetRead == ASSUME TypeOK, NEW h \in Handles, GetRead(h) PROVE TypeOK'
<1>1. rd.live /\ rd \in Txns
  BY WrType DEF GetRead, MayRead
<1>2. rd' \in Txns
  BY <1>1, ResolvedType DEF GetRead
<1>3. rd'.live
  BY <1>1 DEF GetRead, Resolved
<1> QED BY <1>2, <1>3 DEF GetRead, TypeOK, Line

\* The cases of a step.
LEMMA StepCases ==
  ASSUME TypeOK, Next
  PROVE  \/ BeginRead \/ BeginWrite \/ BeginChild
         \/ EndRead
         \/ wr # <<>> /\ AbortOne
         \/ CommitChild \/ CommitFailed
         \/ wr # <<>> /\ Committed
         \/ OtherProcess
         \/ \E n \in Names : OpenRead(n) \/ \E create \in BOOLEAN : OpenWrite(n, create)
         \/ \E h \in Handles : \/ Close(h) \/ GetRead(h)
                               \/ WriterReads(h) \/ WriterChanges(h) \/ WriterDrops(h)
<1>1. Abort => wr # <<>> /\ AbortOne
  BY DEF Abort
<1>2. \A h \in Handles : GetWrite(h) => WriterReads(h)
  BY GetWriteCase
<1>3. \A h \in Handles : Empty(h) => WriterReads(h) \/ WriterChanges(h)
  BY EmptyCase
<1>4. \A h \in Handles : Drop(h) => WriterReads(h) \/ WriterDrops(h)
  BY DropCase
<1>5. \A h \in Handles, k \in Keys : Put(h, k) \/ Del(h, k) => WriterReads(h) \/ WriterChanges(h)
  BY PutCase, DelCase
<1> QED BY <1>1, <1>2, <1>3, <1>4, <1>5, CommitCases DEF Next

LEMMA TypeNext == ASSUME TypeOK, TableInv, [Next]_vars PROVE TypeOK'
<1>1. CASE UNCHANGED vars
  BY <1>1 DEF vars, TypeOK, Line
<1>2. CASE Next
  <2>1. CASE BeginRead \/ BeginWrite \/ BeginChild
    BY <2>1, TypeBegin
  <2>2. CASE EndRead
    BY <2>2, TypeEndRead
  <2>3. CASE wr # <<>> /\ AbortOne
    BY <2>3, TypeAbort
  <2>4. CASE CommitChild \/ CommitFailed
    BY <2>4, TypeChildEnds
  <2>5. CASE wr # <<>> /\ Committed
    BY <2>5, TypeCommitted
  <2>6. CASE OtherProcess
    BY <2>6, TypeOther
  <2>7. CASE \E n \in Names : OpenRead(n) \/ \E create \in BOOLEAN : OpenWrite(n, create)
    BY <2>7, TypeOpenRead, TypeOpenWrite
  <2>8. CASE \E h \in Handles : \/ Close(h) \/ GetRead(h)
                               \/ WriterReads(h) \/ WriterChanges(h) \/ WriterDrops(h)
    BY <2>8, TypeClose, TypeGetRead, TypeReads, TypeChanges, TypeDrops
  <2> QED BY <1>2, <2>1, <2>2, <2>3, <2>4, <2>5, <2>6, <2>7, <2>8, StepCases
<1> QED BY <1>1, <1>2

-----------------------------------------------------------------------------
(***************************************************************************)
(* The handles: beginning.                                                 *)
(***************************************************************************)

\* mdb_dbis_update meets every handle with the flag NEW.
LEMMA NewInIs ==
  ASSUME TypeOK, NEW t \in Txns, \A h \in Handles : t.flags[h] # {} => h < t.num
  PROVE  \A h \in Handles : h \in NewIn(t) <=> IsNew(t, h)
BY DEF NewIn, IsNew

\* A reader that is not open has nothing.
LEMMA NoReader ==
  ASSUME TypeOK, ~rd.live
  PROVE  /\ ~rd.opened
         /\ \A h \in Handles : rd.can[h] = NoName /\ ~IsNew(rd, h)
BY DEF TypeOK, NewTxn, IsNew

\* At first no handle is open.
LEMMA HandleInit == Init => HandleInv
<1> SUFFICES ASSUME Init PROVE HandleInv
  OBVIOUS
<1>1. Line = {} /\ ~rd.live /\ \A h \in Handles : rd.can[h] = NoName
  BY DEF Init, Line, NewTxn
<1> QED BY <1>1 DEF HandleInv, TableInv, OpenerInv, FullInv, Init, IsOpen

\* What the invariant reads of a transaction.
SameHandles(t, u) ==
    /\ u.live = t.live /\ u.num = t.num /\ u.own = t.own /\ u.can = t.can
    /\ u.opened = t.opened /\ u.barred = t.barred
    /\ \A h \in Handles : (IsNew(u, h) <=> IsNew(t, h)) /\ (u.flags[h] # {} => t.flags[h] # {})

\* A step that changes neither the table nor what a transaction has of it.
LEMMA HandleFrame ==
  ASSUME HandleInv, UNCHANGED <<env, known>>, SameHandles(rd, rd'), Line' = Line,
         \A i \in Line : SameHandles(wr[i], wr'[i])
  PROVE  HandleInv'
<1>1. TableInv'
  BY DEF HandleInv, TableInv, IsOpen, HasOpened, SameHandles
<1>2. rd'.live => KnowsInv(rd)'
  BY DEF HandleInv, KnowsInv, SameHandles
<1>3. \A i \in Line : KnowsInv(wr[i])'
  BY DEF HandleInv, KnowsInv, SameHandles
<1>4. OpenerInv'
  <2>1. \A i \in Line : WithReader(wr[i])'
    BY DEF HandleInv, OpenerInv, WithReader, SameHandles
  <2>2. \A i, j \in Line : i < j => Inside(wr[i], wr[j])'
    BY DEF HandleInv, OpenerInv, Inside, SameHandles
  <2>3. \A h \in Handles : rd'.can[h] # NoName => known'[h] # NoName \/ IsNew(rd', h)
    BY DEF HandleInv, OpenerInv, SameHandles
  <2>4. \A i \in Line : \A h \in Handles : wr'[i].can[h] # NoName =>
          known'[h] # NoName \/ \E j \in Line : j <= i /\ IsNew(wr'[j], h)
    BY DEF HandleInv, OpenerInv, SameHandles
  <2> QED BY <2>1, <2>2, <2>3, <2>4 DEF OpenerInv, IsNew
<1>5. FullInv'
  BY DEF HandleInv, FullInv, Holds, IsOpen, SameHandles, IsNew
<1> QED BY <1>1, <1>2, <1>3, <1>4, <1>5 DEF HandleInv

\* A transaction begins with the handles that are known.
LEMMA HandleBeginRead == ASSUME TypeOK, TypeOK', HandleInv, BeginRead PROVE HandleInv'
<1>1. /\ ~rd.live /\ UNCHANGED <<env, known, wr>> /\ Line' = Line
      /\ rd'.live /\ rd'.num = env.num /\ rd'.can = known /\ ~rd'.opened
      /\ rd'.own = {h \in Handles : known[h] # NoName}
      /\ rd'.barred = \E t \in Live : t.opened
      /\ \A h \in Handles : rd'.flags[h] = BeginFlags(h)
  BY DEF BeginRead, Renewed, NewTxn, Line
<1>2. \A h \in Handles : ~IsNew(rd', h) /\ (rd'.flags[h] # {} => h < env.num)
  BY <1>1 DEF IsNew, BeginFlags
<1>3. ASSUME NEW i \in Line, wr[i].opened PROVE rd'.barred
  <2>1. wr[i] \in Range(wr) /\ wr[i].live
    BY WrType, LineDomain DEF Range
  <2> QED BY <1>1, <1>3, <2>1 DEF Live
<1>4. TableInv'
  BY <1>1, NoReader DEF HandleInv, TableInv, IsOpen, HasOpened
<1>5. KnowsInv(rd)'
  BY <1>1, <1>2 DEF HandleInv, TableInv, KnowsInv, IsOpen
<1>6. \A i \in Line : KnowsInv(wr[i])'
  BY <1>1 DEF HandleInv, KnowsInv, IsNew
<1>7. \A i \in Line : WithReader(wr[i])'
  BY <1>1, <1>2, <1>3 DEF HandleInv, WithReader, KnowsInv, IsNew
<1>8. \A i, j \in Line : i < j => Inside(wr[i], wr[j])'
  BY <1>1 DEF HandleInv, OpenerInv, Inside, IsNew
<1>9. OpenerInv'
  BY <1>1, <1>7, <1>8 DEF HandleInv, OpenerInv, IsNew
<1>10. FullInv'
  <2>1. ASSUME ~rd'.barred, NEW h \in Handles, IsOpen(h) PROVE known[h] # NoName
    BY <1>1, <1>3, <2>1, NoReader DEF HandleInv, TableInv, KnowsInv, HasOpened
  <2> QED BY <1>1, <2>1 DEF HandleInv, FullInv, TableInv, Holds, IsOpen, IsNew
<1> QED BY <1>1, <1>4, <1>5, <1>6, <1>9, <1>10 DEF HandleInv

LEMMA HandleBeginWrite == ASSUME TypeOK, TypeOK', HandleInv, BeginWrite PROVE HandleInv'
<1>1. /\ UNCHANGED <<env, known, rd>> /\ Line = {} /\ Line' = {1}
      /\ wr'[1].live /\ wr'[1].num = env.num /\ wr'[1].can = known /\ ~wr'[1].opened
      /\ wr'[1].own = {h \in Handles : known[h] # NoName}
      /\ wr'[1].barred = \E t \in Live : t.opened
      /\ \A h \in Handles : wr'[1].flags[h] = BeginFlags(h)
  <2> DEFINE R == Renewed(db0)
  <2>1. /\ R.live /\ R.num = env.num /\ R.can = known /\ ~R.opened
        /\ R.own = {h \in Handles : known[h] # NoName}
        /\ R.barred = \E t \in Live : t.opened
        /\ \A h \in Handles : R.flags[h] = BeginFlags(h)
    BY DEF Renewed, NewTxn
  <2> HIDE DEF R
  <2>2. wr = <<>> /\ wr' = <<R>> /\ UNCHANGED <<env, known, rd>>
    BY DEF BeginWrite, R
  <2>3. Line = {} /\ Line' = {1} /\ wr'[1] = R
    BY <2>2 DEF Line
  <2> QED BY <2>1, <2>2, <2>3
<1>2. \A h \in Handles : ~IsNew(wr'[1], h) /\ (wr'[1].flags[h] # {} => h < env.num)
  BY <1>1 DEF IsNew, BeginFlags
<1>3. rd.opened => wr'[1].barred
  BY <1>1, NoReader DEF Live
<1>4. TableInv'
  BY <1>1 DEF HandleInv, TableInv, IsOpen, HasOpened, IsNew
<1>5. rd'.live => KnowsInv(rd)'
  BY <1>1 DEF HandleInv, KnowsInv, IsNew
<1>6. \A i \in Line' : KnowsInv(wr[i])'
  BY <1>1, <1>2 DEF HandleInv, TableInv, KnowsInv, IsOpen
<1>7. \A i \in Line' : WithReader(wr[i])'
  BY <1>1, <1>2, <1>3, NoReader DEF HandleInv, WithReader, KnowsInv, IsNew
<1>8. \A i, j \in Line' : i < j => Inside(wr[i], wr[j])'
  BY <1>1
<1>9. OpenerInv'
  BY <1>1, <1>7, <1>8 DEF HandleInv, OpenerInv, IsNew
<1>10. FullInv'
  <2>1. ASSUME ~wr'[1].barred, NEW h \in Handles, IsOpen(h) PROVE known[h] # NoName
    BY <1>1, <1>3, <2>1, NoReader DEF HandleInv, TableInv, KnowsInv, HasOpened
  <2> QED BY <1>1, <2>1 DEF HandleInv, FullInv, TableInv, Holds, IsOpen, IsNew
<1> QED BY <1>1, <1>4, <1>5, <1>6, <1>9, <1>10 DEF HandleInv

LEMMA HandleBeginChild == ASSUME TypeOK, TypeOK', HandleInv, BeginChild PROVE HandleInv'
<1>0. PICK m \in Nat : m = Len(wr)
  BY LineDomain
<1>1. w = wr[m] /\ m \in Line /\ m \in Nat /\ Line = 1..m
  BY <1>0, WriterType DEF BeginChild, Line
<1>2. /\ UNCHANGED <<env, known, rd>> /\ Line' = Line \cup {m + 1} /\ m + 1 \notin Line
      /\ \A i \in Line : i <= m /\ i \in Nat
      /\ \A i \in Line : wr'[i] = wr[i]
      /\ wr'[m + 1] = [w EXCEPT !.flags = [h \in Handles |-> @[h] \ {"NEW"}]]
  BY <1>0, WrType DEF BeginChild, Line
<1> DEFINE c == wr'[m + 1]
<1>3. /\ c.live = w.live /\ c.num = w.num /\ c.can = w.can /\ c.own = w.own
      /\ c.opened = w.opened /\ c.barred = w.barred
      /\ \A h \in Handles : c.flags[h] = w.flags[h] \ {"NEW"}
  BY <1>1, <1>2, WrType DEF Txns
<1>4. \A h \in Handles : ~IsNew(c, h) /\ (c.flags[h] # {} => w.flags[h] # {})
  BY <1>3 DEF IsNew
<1>5. TableInv'
  BY <1>2 DEF HandleInv, TableInv, IsOpen, HasOpened, IsNew
<1>6. rd'.live => KnowsInv(rd)'
  BY <1>2 DEF HandleInv, KnowsInv, IsNew
<1>7. \A i \in Line : KnowsInv(wr[i])'
  BY <1>2 DEF HandleInv, KnowsInv, IsNew
<1>8. KnowsInv(wr[m + 1])'
  BY <1>1, <1>2, <1>3, <1>4 DEF HandleInv, KnowsInv
<1>9. \A i \in Line' : KnowsInv(wr[i])'
  BY <1>2, <1>7, <1>8
<1>10. WithReader(wr[m + 1])'
  <2>1. WithReader(w)
    BY <1>1 DEF HandleInv, OpenerInv
  <2> QED BY <1>2, <1>3, <1>4, <2>1 DEF WithReader, IsNew
<1>11. \A i \in Line : WithReader(wr[i])'
  BY <1>2 DEF HandleInv, OpenerInv, WithReader, IsNew
<1>12. ASSUME NEW i \in Line', NEW j \in Line', i < j PROVE Inside(wr[i], wr[j])'
  <2>1. CASE j \in Line
    <3>1. i \in Line
      BY <1>1, <1>12, <1>2, <2>1
    <3> QED BY <1>2, <1>12, <2>1, <3>1 DEF HandleInv, OpenerInv, Inside, IsNew
  <2>2. CASE j = m + 1
    <3>1. i \in Line
      BY <1>1, <1>2, <1>12, <2>2
    <3>2. i = m \/ Inside(wr[i], w)
      BY <1>1, <1>2, <3>1 DEF HandleInv, OpenerInv
    <3>3. w.num \in Nat
      BY <1>1, WrType DEF Txns, Counts
    <3>4. wr'[i] = wr[i] /\ wr'[j] = c /\ w.num <= w.num
      BY <1>2, <2>2, <3>1, <3>3
    <3>5. /\ wr[i].opened => w.opened
          /\ wr[i].num <= w.num
          /\ \A h \in Handles : wr[i].can[h] # NoName => w.can[h] # NoName
      BY <1>1, <3>2, <3>4 DEF Inside
    <3> QED BY <1>3, <1>4, <3>4, <3>5 DEF Inside, IsNew
  <2> QED BY <1>2, <2>1, <2>2
<1>13. \A h \in Handles : rd'.can[h] # NoName => known'[h] # NoName \/ IsNew(rd', h)
  BY <1>2 DEF HandleInv, OpenerInv
<1>14. ASSUME NEW i \in Line', NEW h \in Handles, wr'[i].can[h] # NoName, known'[h] = NoName
       PROVE \E j \in Line' : j <= i /\ IsNew(wr'[j], h)
  <2>1. CASE i \in Line
    BY <1>2, <1>14, <2>1 DEF HandleInv, OpenerInv
  <2>2. CASE i = m + 1
    <3>1. PICK j \in Line : j <= m /\ IsNew(wr[j], h)
      BY <1>1, <1>2, <1>3, <1>14, <2>2 DEF HandleInv, OpenerInv
    <3>2. j <= m + 1
      BY <1>1, <1>2, <3>1
    <3> QED BY <1>2, <2>2, <3>1, <3>2
  <2> QED BY <1>2, <2>1, <2>2
<1>15. OpenerInv'
  BY <1>2, <1>10, <1>11, <1>12, <1>13, <1>14 DEF OpenerInv, IsNew
<1>16. FullInv'
  <2>1. rd'.live /\ ~rd'.barred => \A h \in Handles : IsOpen(h) => Holds(rd', h)
    BY <1>2 DEF HandleInv, FullInv
  <2>2. ASSUME NEW i \in Line', ~wr'[i].barred, NEW h \in Handles, IsOpen(h)
        PROVE  Holds(wr'[i], h) \/ \E j \in Line' : j > i /\ IsNew(wr'[j], h)
    <3>1. CASE i \in Line
      BY <1>2, <2>2, <3>1 DEF HandleInv, FullInv
    <3>2. CASE i = m + 1
      <4>1. ~wr[m].barred /\ \A j \in Line : ~(j > m)
        BY <1>1, <1>3, <2>2, <3>2
      <4>2. Holds(w, h)
        BY <1>1, <2>2, <4>1 DEF HandleInv, FullInv
      <4> QED BY <1>3, <3>2, <4>2 DEF Holds
    <3> QED BY <1>2, <3>1, <3>2
  <2> QED BY <1>2, <2>1, <2>2 DEF FullInv, IsOpen, Holds, IsNew
<1> QED BY <1>5, <1>6, <1>9, <1>15, <1>16 DEF HandleInv

-----------------------------------------------------------------------------
(***************************************************************************)
(* The handles: what a transaction that ends leaves.                       *)
(***************************************************************************)

\* What mdb_dbis_update closes when a transaction ends without a commit.
LEMMA DiscardedIs ==
  ASSUME TypeOK, NEW t \in Txns, \A h \in Handles : t.flags[h] # {} => h < t.num
  PROVE  /\ Discarded(t).num = env.num
         /\ \A h \in Handles :
              /\ Discarded(t).name[h] = IF IsNew(t, h) THEN NoName ELSE env.name[h]
              /\ Discarded(t).valid[h] = (env.valid[h] /\ ~(IsNew(t, h) /\ IsOpen(h)))
         /\ Open(NewIn(t)) = {h \in Handles : IsNew(t, h) /\ IsOpen(h)}
<1>1. NewIn(t) = {h \in Handles : IsNew(t, h)}
  BY NewInIs DEF NewIn
<1>2. Open(NewIn(t)) = {h \in Handles : IsNew(t, h) /\ IsOpen(h)}
  BY <1>1 DEF Open, IsOpen
<1>3. \A h \in Handles : Discarded(t).name[h] = IF IsNew(t, h) THEN NoName ELSE env.name[h]
  BY <1>2 DEF Discarded, Closed, TypeOK, IsOpen
<1>4. \A h \in Handles : Discarded(t).valid[h] = (env.valid[h] /\ ~(IsNew(t, h) /\ IsOpen(h)))
  BY <1>2, Zenon DEF Discarded, Closed, TypeOK
<1>5. Discarded(t).num = env.num
  BY DEF Discarded, Closed, TypeOK
<1> QED BY <1>2, <1>3, <1>4, <1>5

\* And what it makes valid after one.
LEMMA KeptIs ==
  ASSUME TypeOK, NEW t \in Txns, \A h \in Handles : t.flags[h] # {} => h < t.num
  PROVE  /\ Kept(t).name = env.name
         /\ Kept(t).num >= env.num /\ Kept(t).num >= t.num
         /\ \A h \in Handles : Kept(t).valid[h] = (IsNew(t, h) \/ env.valid[h])
<1>1. env.num \in Counts /\ t.num \in Counts
  BY DEF TypeOK, Txns
<1>2. Kept(t).num >= env.num /\ Kept(t).num >= t.num
  BY <1>1, CountsMax DEF Kept, TypeOK
<1>3. Kept(t).name = env.name
  BY DEF Kept, TypeOK
<1>4. \A h \in Handles : Kept(t).valid[h] = (IsNew(t, h) \/ env.valid[h])
  <2>1. \A h \in Handles : h \in NewIn(t) <=> IsNew(t, h)
    BY NewInIs
  <2>2. \A h \in Handles : Kept(t).valid[h] = (h \in NewIn(t) \/ env.valid[h])
    BY DEF Kept, TypeOK
  <2> QED BY <2>1, <2>2
<1> QED BY <1>2, <1>3, <1>4

\* What callers know after a reader's end is what the reader's knew.
LEMMA PublishedIs ==
  ASSUME KnowsInv(rd), TypeOK
  PROVE  \A h \in Handles : Published(rd)[h] = rd.can[h]
BY DEF Published, KnowsInv

\* What the others' callers know then.
LEMMA SeesIs ==
  ASSUME NEW t \in Txns, t.live, NEW k \in [Handles -> Names \cup {NoName}]
  PROVE  LET u == Sees(t, k) IN
         /\ \A h \in Handles : u.can[h] = IF t.can[h] = NoName THEN k[h] ELSE t.can[h]
         /\ u.live = t.live /\ u.num = t.num /\ u.own = t.own /\ u.flags = t.flags
         /\ u.opened = t.opened /\ u.barred = t.barred
         /\ u.db = t.db /\ u.main = t.main /\ u.view = t.view
BY DEF Sees, Txns

-----------------------------------------------------------------------------
(***************************************************************************)
(* The handles: a reader publishes what it opened.                         *)
(***************************************************************************)

\* A reader ends and keeps the handles it opened.
Publishes ==
    /\ rd.live /\ rd' = NewTxn
    /\ env' = Kept(rd) /\ known' = Published(rd)
    /\ wr' = [i \in DOMAIN wr |-> Sees(wr[i], known')]

LEMMA HandlePublishes ==
  ASSUME TypeOK, TypeOK', HandleInv, Publishes PROVE HandleInv'
<1>1. rd \in Txns /\ KnowsInv(rd) /\ rd.live
  BY WrType DEF Publishes, HandleInv
<1>2. /\ env'.name = env.name /\ env'.num >= env.num /\ env'.num >= rd.num
      /\ \A h \in Handles : env'.valid[h] = (IsNew(rd, h) \/ env.valid[h])
  BY <1>1, KeptIs DEF Publishes, KnowsInv
<1>3. /\ \A h \in Handles : known'[h] = rd.can[h]
      /\ \A h \in Handles : known[h] # NoName => known'[h] = known[h]
  BY <1>1, PublishedIs DEF Publishes, KnowsInv
<1>4. /\ ~rd'.live /\ ~rd'.opened /\ ~rd'.barred
      /\ \A h \in Handles : rd'.can[h] = NoName /\ rd'.flags[h] = {}
  BY DEF Publishes, NewTxn
<1>5. \A h \in Handles : ~IsNew(rd', h)
  BY <1>4 DEF IsNew
<1>6. Line' = Line /\ wr' = [i \in Line |-> Sees(wr[i], known')]
  <2>1. wr' = [i \in Line |-> Sees(wr[i], known')]
    BY LineDomain DEF Publishes
  <2>2. \A i \in Line : wr'[i] \in Txns
    BY <2>1, WrType, SeesType DEF TypeOK
  <2> QED BY <2>1, <2>2, MappedLine
<1>7. ASSUME NEW i \in Line
      PROVE /\ \A h \in Handles : wr'[i].can[h] = IF wr[i].can[h] = NoName THEN known'[h]
                                                  ELSE wr[i].can[h]
            /\ wr'[i].live /\ wr'[i].num = wr[i].num /\ wr'[i].own = wr[i].own
            /\ wr'[i].flags = wr[i].flags
            /\ wr'[i].opened = wr[i].opened /\ wr'[i].barred = wr[i].barred
            /\ \A h \in Handles : IsNew(wr'[i], h) <=> IsNew(wr[i], h)
  <2>1. wr[i] \in Txns /\ wr[i].live /\ known' \in [Handles -> Names \cup {NoName}]
    BY WrType DEF TypeOK
  <2>2. wr'[i] = Sees(wr[i], known')
    BY <1>6
  <2> QED BY <2>1, <2>2, SeesIs DEF IsNew
\* What a writer opened is not published.
<1>8. \A i \in Line, h \in Handles : IsNew(wr[i], h) => known'[h] = NoName
  BY <1>3 DEF HandleInv, OpenerInv, WithReader
<1>9. \A i \in Line : KnowsInv(wr[i])
  BY DEF HandleInv
<1>10. TableInv'
  <2>1. ASSUME NEW h \in Handles, known'[h] # NoName
        PROVE  env'.name[h] = known'[h] /\ env'.valid[h] /\ h < env'.num
    <3>1. env'.name[h] = known'[h]
      BY <1>1, <1>2, <1>3, <2>1 DEF KnowsInv
    <3>2. known[h] # NoName \/ IsNew(rd, h)
      BY <1>3, <2>1 DEF HandleInv, OpenerInv
    <3>5. h \in Nat /\ env.num \in Nat /\ rd.num \in Nat /\ env'.num \in Nat
      BY <1>1 DEF TypeOK, Txns, Counts, Handles, CORE_DBS
    <3>3. CASE known[h] # NoName
      <4>1. env.valid[h] /\ h < env.num
        BY <3>3 DEF HandleInv, TableInv
      <4>2. h < env'.num
        BY <1>2, <3>5, <4>1
      <4> QED BY <1>2, <3>1, <4>1, <4>2
    <3>4. CASE IsNew(rd, h)
      <4>1. h < rd.num
        BY <1>1, <3>4 DEF KnowsInv, IsNew
      <4>2. h < env'.num
        BY <1>2, <3>5, <4>1
      <4> QED BY <1>2, <3>1, <3>4, <4>1, <4>2
    <3> QED BY <3>2, <3>3, <3>4
  <2>2. ASSUME NEW h \in Handles, env'.name[h] # NoName, known'[h] = NoName
        PROVE  \E i \in Line : HasOpened(wr'[i], h)
    <3>1. known[h] = NoName /\ ~HasOpened(rd, h)
      BY <1>3, <2>2 DEF HasOpened
    <3>2. PICK i \in Line : HasOpened(wr[i], h)
      BY <1>2, <2>2, <3>1 DEF HandleInv, TableInv, IsOpen
    <3> QED BY <1>7, <3>2 DEF HasOpened
  <2>3. \A g, h \in Handles : env'.name[h] # NoName /\ env'.name[g] = env'.name[h] => g = h
    BY <1>2 DEF HandleInv, TableInv, IsOpen
  <2> QED BY <1>6, <2>1, <2>2, <2>3 DEF TableInv, IsOpen, HasOpened, IsNew
<1>11. ASSUME NEW i \in Line PROVE KnowsInv(wr[i])'
  <2>1. \A h \in Handles : wr'[i].can[h] # NoName => env'.name[h] = wr'[i].can[h]
    BY <1>1, <1>2, <1>3, <1>7, <1>9 DEF KnowsInv
  <2>2. \A h \in Handles : known'[h] # NoName => wr'[i].can[h] = known'[h]
    BY <1>1, <1>2, <1>3, <1>7, <1>9 DEF KnowsInv
  <2>3. \A h \in wr'[i].own : wr'[i].can[h] # NoName
    BY <1>7, <1>9, WrType DEF KnowsInv, Txns
  <2>4. \A h \in Handles : IsNew(wr'[i], h) => wr'[i].opened /\ known'[h] = NoName
    BY <1>7, <1>8, <1>9 DEF KnowsInv
  <2>5. \A h \in Handles : wr'[i].flags[h] # {} => h < wr'[i].num
    BY <1>7, <1>9 DEF KnowsInv
  <2> QED BY <2>1, <2>2, <2>3, <2>4, <2>5 DEF KnowsInv, IsNew
<1>12. \A i \in Line : WithReader(wr[i])'
  BY <1>4, <1>5 DEF WithReader, IsNew
<1>13. ASSUME NEW i \in Line, NEW j \in Line, i < j PROVE Inside(wr[i], wr[j])'
  <2>1. Inside(wr[i], wr[j])
    BY <1>13 DEF HandleInv, OpenerInv
  <2> QED BY <2>1, <1>7, <1>8 DEF Inside, IsNew
<1>14. ASSUME NEW i \in Line, NEW h \in Handles, wr'[i].can[h] # NoName, known'[h] = NoName
       PROVE \E j \in Line : j <= i /\ IsNew(wr'[j], h)
  <2>1. wr[i].can[h] # NoName /\ known[h] = NoName
    BY <1>3, <1>7, <1>14
  <2> QED BY <2>1, <1>7 DEF HandleInv, OpenerInv
<1>15. OpenerInv'
  BY <1>4, <1>6, <1>12, <1>13, <1>14 DEF OpenerInv, IsNew
<1>16. FullInv'
  BY <1>2, <1>4, <1>6, <1>7 DEF HandleInv, FullInv, IsOpen, Holds, IsNew
<1> QED BY <1>4, <1>6, <1>10, <1>11, <1>15, <1>16 DEF HandleInv

-----------------------------------------------------------------------------
(***************************************************************************)
(* The handles: a transaction ends without.                                *)
(***************************************************************************)

\* A reader ends and closes the handles it opened.
LEMMA HandleReaderEnds ==
  ASSUME TypeOK, TypeOK', HandleInv, rd.live, rd' = NewTxn, env' = Discarded(rd),
         UNCHANGED <<known, wr>>
  PROVE  HandleInv'
<1>1. rd \in Txns /\ KnowsInv(rd) /\ Line' = Line
  BY WrType DEF HandleInv, Line
<1>2. /\ env'.num = env.num
      /\ \A h \in Handles : env'.name[h] = IF IsNew(rd, h) THEN NoName ELSE env.name[h]
      /\ \A h \in Handles : env'.valid[h] = (env.valid[h] /\ ~(IsNew(rd, h) /\ IsOpen(h)))
  BY <1>1, DiscardedIs DEF KnowsInv
<1>3. /\ ~rd'.live /\ ~rd'.opened /\ ~rd'.barred
      /\ \A h \in Handles : rd'.can[h] = NoName /\ rd'.flags[h] = {} /\ ~IsNew(rd', h)
  BY DEF NewTxn, IsNew
<1>4. \A h \in Handles : IsNew(rd, h) => known[h] = NoName
  BY <1>1 DEF KnowsInv
<1>5. \A i \in Line, h \in Handles : IsNew(rd, h) => wr[i].can[h] = NoName
  BY DEF HandleInv, OpenerInv, WithReader
<1>6. TableInv'
  <2>1. \A h \in Handles : known[h] # NoName =>
           env'.name[h] = known[h] /\ env'.valid[h] /\ h < env'.num
    BY <1>2, <1>4 DEF HandleInv, TableInv
  <2>2. ASSUME NEW h \in Handles, env'.name[h] # NoName
        PROVE  known[h] # NoName \/ \E i \in Line : HasOpened(wr[i], h)
    BY <1>2, <2>2 DEF HandleInv, TableInv, IsOpen, HasOpened
  <2>3. \A g, h \in Handles : env'.name[h] # NoName /\ env'.name[g] = env'.name[h] => g = h
    BY <1>2 DEF HandleInv, TableInv, IsOpen
  <2> QED BY <1>1, <2>1, <2>2, <2>3 DEF TableInv, IsOpen, HasOpened, IsNew
<1>7. \A i \in Line : KnowsInv(wr[i])'
  BY <1>2, <1>5 DEF HandleInv, KnowsInv, IsNew
<1>8. OpenerInv'
  <2>1. \A i \in Line : WithReader(wr[i])'
    BY <1>3 DEF WithReader, IsNew
  <2>2. \A i, j \in Line : i < j => Inside(wr[i], wr[j])'
    BY DEF HandleInv, OpenerInv, Inside, IsNew
  <2> QED BY <1>1, <1>3, <2>1, <2>2 DEF HandleInv, OpenerInv, IsNew
<1>9. FullInv'
  BY <1>1, <1>2, <1>3 DEF HandleInv, FullInv, IsOpen, Holds, IsNew
<1> QED BY <1>1, <1>3, <1>6, <1>7, <1>8, <1>9 DEF HandleInv

\* The deepest write transaction ends so.
LEMMA HandleWriterEnds ==
  ASSUME TypeOK, TypeOK', HandleInv, wr # <<>>, env' = Discarded(w), UNCHANGED <<rd, known>>,
         Line' = 1..(Len(wr) - 1), \A i \in Line' : SameHandles(wr[i], wr'[i])
  PROVE  HandleInv'
<1>0. PICK m \in Nat : m = Len(wr)
  BY LineDomain
<1>1. /\ w = wr[m] /\ m \in Line /\ Line = 1..m /\ Line' = 1..(m - 1)
      /\ Line' \subseteq Line /\ w \in Txns /\ KnowsInv(w)
      /\ \A i \in Line : i \in Line' \/ i = m
      /\ \A i \in Line' : i < m
  BY <1>0, WriterType DEF HandleInv, Line
<1>2. /\ env'.num = env.num
      /\ \A h \in Handles : env'.name[h] = IF IsNew(w, h) THEN NoName ELSE env.name[h]
      /\ \A h \in Handles : env'.valid[h] = (env.valid[h] /\ ~(IsNew(w, h) /\ IsOpen(h)))
  BY <1>1, DiscardedIs DEF KnowsInv
<1>3. \A h \in Handles : IsNew(w, h) => known[h] = NoName /\ rd.can[h] = NoName
  BY <1>1 DEF HandleInv, OpenerInv, WithReader, KnowsInv
<1>4. \A i \in Line', h \in Handles : IsNew(w, h) => wr[i].can[h] = NoName
  BY <1>1 DEF HandleInv, OpenerInv, Inside
<1>5. \A i \in Line', h \in Handles : HasOpened(wr[i], h) => HasOpened(wr'[i], h)
  BY DEF HasOpened, SameHandles
<1>6. TableInv'
  <2>1. \A h \in Handles : known[h] # NoName =>
           env'.name[h] = known[h] /\ env'.valid[h] /\ h < env'.num
    BY <1>2, <1>3 DEF HandleInv, TableInv
  <2>2. ASSUME NEW h \in Handles, env'.name[h] # NoName, known[h] = NoName, ~HasOpened(rd, h)
        PROVE  \E i \in Line' : HasOpened(wr'[i], h)
    <3>1. PICK i \in Line : HasOpened(wr[i], h)
      BY <1>2, <2>2 DEF HandleInv, TableInv, IsOpen
    <3>2. i # m
      BY <1>1, <1>2, <2>2, <3>1 DEF HasOpened
    <3> QED BY <1>1, <1>5, <3>1, <3>2
  <2>3. \A g, h \in Handles : env'.name[h] # NoName /\ env'.name[g] = env'.name[h] => g = h
    BY <1>2 DEF HandleInv, TableInv, IsOpen
  <2> QED BY <2>1, <2>2, <2>3 DEF TableInv, IsOpen, HasOpened, IsNew
<1>7. rd'.live => KnowsInv(rd)'
  BY <1>2, <1>3 DEF HandleInv, KnowsInv, IsNew
<1>8. ASSUME NEW i \in Line' PROVE KnowsInv(wr[i])'
  <2>1. KnowsInv(wr[i]) /\ SameHandles(wr[i], wr'[i])
    BY <1>1 DEF HandleInv
  <2> QED BY <1>2, <1>4, <2>1 DEF KnowsInv, IsNew, SameHandles
<1>9. OpenerInv'
  <2>1. ASSUME NEW i \in Line' PROVE WithReader(wr[i])'
    <3>1. WithReader(wr[i]) /\ SameHandles(wr[i], wr'[i])
      BY <1>1 DEF HandleInv, OpenerInv
    <3> QED BY <3>1 DEF WithReader, IsNew, SameHandles
  <2>2. ASSUME NEW i \in Line', NEW j \in Line', i < j PROVE Inside(wr[i], wr[j])'
    <3>1. Inside(wr[i], wr[j]) /\ SameHandles(wr[i], wr'[i]) /\ SameHandles(wr[j], wr'[j])
      BY <1>1, <2>2 DEF HandleInv, OpenerInv
    <3> QED BY <3>1 DEF Inside, IsNew, SameHandles
  <2>3. ASSUME NEW i \in Line', NEW h \in Handles, wr'[i].can[h] # NoName, known[h] = NoName
        PROVE \E j \in Line' : j <= i /\ IsNew(wr'[j], h)
    <3>1. wr[i].can[h] # NoName
      BY <2>3 DEF SameHandles
    <3>2. PICK j \in Line : j <= i /\ IsNew(wr[j], h)
      BY <1>1, <2>3, <3>1 DEF HandleInv, OpenerInv
    <3>3. j \in Line'
      BY <1>1, <3>2
    <3> QED BY <3>2, <3>3 DEF SameHandles
  <2> QED BY <2>1, <2>2, <2>3 DEF HandleInv, OpenerInv, IsNew
<1>10. FullInv'
  <2>1. rd'.live /\ ~rd'.barred => \A h \in Handles : env'.name[h] # NoName => Holds(rd', h)
    BY <1>2 DEF HandleInv, FullInv, IsOpen
  <2>2. ASSUME NEW i \in Line', ~wr'[i].barred, NEW h \in Handles, env'.name[h] # NoName
        PROVE  Holds(wr'[i], h) \/ \E j \in Line' : j > i /\ IsNew(wr'[j], h)
    <3>1. ~wr[i].barred /\ IsOpen(h) /\ ~IsNew(w, h)
      BY <1>2, <2>2 DEF SameHandles, IsOpen
    <3>2. CASE Holds(wr[i], h)
      BY <3>2 DEF Holds, SameHandles
    <3>3. CASE ~Holds(wr[i], h)
      <4>1. PICK j \in Line : j > i /\ IsNew(wr[j], h)
        BY <1>1, <3>1, <3>3 DEF HandleInv, FullInv
      <4>2. j \in Line'
        BY <1>1, <3>1, <4>1
      <4> QED BY <4>1, <4>2 DEF SameHandles
    <3> QED BY <3>2, <3>3
  <2> QED BY <2>1, <2>2 DEF FullInv, IsOpen, Holds, IsNew
<1> QED BY <1>6, <1>7, <1>8, <1>9, <1>10 DEF HandleInv

LEMMA HandleAbort ==
  ASSUME TypeOK, TypeOK', HandleInv, wr # <<>>, AbortOne PROVE HandleInv'
<1>1. Line' = 1..(Len(wr) - 1) /\ \A i \in Line' : wr'[i] = wr[i]
  BY ShorterLine DEF AbortOne
<1>2. \A i \in Line' : SameHandles(wr[i], wr'[i])
  BY <1>1 DEF SameHandles
<1> QED BY <1>1, <1>2, HandleWriterEnds DEF AbortOne

LEMMA HandleCommitFailed ==
  ASSUME TypeOK, TypeOK', HandleInv, CommitFailed PROVE HandleInv'
<1> DEFINE p == wr[Len(wr) - 1]
           x == [p EXCEPT !.err = TRUE]
<1>1. wr # <<>> /\ p \in Txns
  BY LineLast DEF CommitFailed
<1>2. x \in Txns /\ SameHandles(p, x)
  BY <1>1 DEF Txns, SameHandles, IsNew
<1>3. wr' = Append(Front(Front(wr)), x)
  BY DEF CommitFailed
<1> HIDE DEF x
<1>4. Line' = 1..(Len(wr) - 1) /\ \A i \in Line' : wr'[i] = IF i = Len(wr) - 1 THEN x ELSE wr[i]
  BY <1>2, <1>3, MergedLine DEF CommitFailed
<1>5. \A i \in Line' : SameHandles(wr[i], wr'[i])
  <2>1. \A i \in Line' : SameHandles(wr[i], wr[i])
    BY DEF SameHandles
  <2> QED BY <1>2, <1>4, <2>1
<1> QED BY <1>1, <1>4, <1>5, HandleWriterEnds DEF CommitFailed

-----------------------------------------------------------------------------
(***************************************************************************)
(* The handles: commits.                                                   *)
(***************************************************************************)

LEMMA HandleCommitChild ==
  ASSUME TypeOK, TypeOK', HandleInv, CommitChild PROVE HandleInv'
<1>0. PICK m \in Nat : m = Len(wr) /\ m > 1
  BY LineDomain DEF CommitChild
<1> DEFINE p == wr[m - 1]
           x == [w EXCEPT !.flags = [h \in Handles |-> ParentFlags(p, w, h)]]
<1>1. /\ w = wr[m] /\ m \in Line /\ Line = 1..m /\ m - 1 \in Line /\ w \in Txns /\ p \in Txns
      /\ KnowsInv(w) /\ KnowsInv(p) /\ w.live /\ Inside(p, w)
  <2>1. w = wr[m] /\ m \in Line /\ Line = 1..m /\ m - 1 \in Line /\ w \in Txns /\ p \in Txns
        /\ w.live
    BY <1>0, WriterType, LineLast DEF Line
  <2>2. m - 1 < m
    BY <1>0
  <2> QED BY <2>1, <2>2 DEF HandleInv, OpenerInv
<1>2. /\ x \in Txns /\ x.live /\ x.num = w.num /\ x.own = w.own /\ x.can = w.can
      /\ x.opened = w.opened /\ x.barred = w.barred
      /\ \A h \in Handles : x.flags[h] = ParentFlags(p, w, h)
  <2>1. \A h \in Handles : ParentFlags(p, w, h) \in SUBSET Flags
    BY <1>1 DEF ParentFlags, Txns
  <2> QED BY <1>1, <2>1 DEF Txns
<1>3. \A h \in Handles : /\ IsNew(x, h) <=> IsNew(w, h) \/ IsNew(p, h)
                         /\ x.flags[h] # {} => w.flags[h] # {} \/ p.flags[h] # {}
  BY <1>2 DEF IsNew, ParentFlags
<1>4. /\ UNCHANGED <<env, rd, known>> /\ Line' = 1..(m - 1) /\ Line' \subseteq Line
      /\ \A i \in Line' : wr'[i] = IF i = m - 1 THEN x ELSE wr[i]
  <2>1. wr' = Append(Front(Front(wr)), x)
    BY <1>0 DEF CommitChild
  <2> HIDE DEF x
  <2>2. /\ Line' = 1..(Len(wr) - 1) /\ Line' \subseteq Line
        /\ \A i \in Line' : wr'[i] = IF i = Len(wr) - 1 THEN x ELSE wr[i]
    BY <1>0, <1>2, <2>1, MergedLine
  <2> QED BY <1>0, <2>2 DEF CommitChild
<1> HIDE DEF x
<1>5. /\ m - 1 \in Line' /\ wr'[m - 1] = x
      /\ \A i \in Line' : i = m - 1 \/ (i < m - 1 /\ wr'[i] = wr[i])
      /\ \A i \in Line : i \in Line' \/ i = m
  BY <1>0, <1>1, <1>4
<1>6. /\ \A h \in Handles : IsNew(p, h) => w.opened /\ h < w.num /\ known[h] = NoName
      /\ \A h \in Handles : p.flags[h] # {} => h < w.num
      /\ \A h \in Handles : p.can[h] # NoName => w.can[h] # NoName
  <2>1. \A h \in Handles : p.flags[h] # {} => h < w.num
    <3>1. p.num <= w.num /\ p.num \in Nat /\ w.num \in Nat
      BY <1>1 DEF Inside, Txns, Counts
    <3>2. ASSUME NEW h \in Handles, p.flags[h] # {} PROVE h < w.num
      <4>1. h < p.num /\ h \in Nat
        BY <1>1, <3>2 DEF KnowsInv, Handles, CORE_DBS
      <4> QED BY <3>1, <4>1
    <3> QED BY <3>2
  <2>2. \A h \in Handles : IsNew(p, h) => p.flags[h] # {}
    BY DEF IsNew
  <2> QED BY <1>1, <2>1, <2>2 DEF Inside, KnowsInv
\* The record of what either of the two opened.
<1>7. ASSUME NEW j \in Line, NEW h \in Handles, IsNew(wr[j], h)
      PROVE  \E k \in Line' : IsNew(wr'[k], h) /\ (j <= m - 1 => k = j) /\ (j = m => k = m - 1)
  <2>1. CASE j = m \/ j = m - 1
    <3>1. IsNew(x, h)
      BY <1>1, <1>3, <1>7, <2>1
    <3>2. j = m => ~(j <= m - 1)
      BY <1>0
    <3> QED BY <1>0, <1>5, <2>1, <3>1, <3>2
  <2>2. CASE j # m /\ j # m - 1
    <3>1. j \in Line' /\ wr'[j] = wr[j]
      BY <1>5, <2>2
    <3> QED BY <1>7, <2>2, <3>1
  <2> QED BY <2>1, <2>2
<1>8. TableInv'
  <2>1. ASSUME NEW h \in Handles, IsOpen(h), known[h] = NoName, ~HasOpened(rd, h)
        PROVE  \E k \in Line' : HasOpened(wr'[k], h)
    <3>1. PICK i \in Line : HasOpened(wr[i], h)
      BY <2>1 DEF HandleInv, TableInv
    <3>2. CASE i = m \/ i = m - 1
      <4>1. HasOpened(x, h)
        BY <1>1, <1>2, <1>3, <1>6, <3>1, <3>2 DEF HasOpened
      <4> QED BY <1>5, <4>1
    <3>3. CASE i # m /\ i # m - 1
      <4>1. i \in Line' /\ wr'[i] = wr[i]
        BY <1>5, <3>3
      <4> QED BY <3>1, <4>1
    <3> QED BY <3>2, <3>3
  <2> QED BY <1>4, <2>1 DEF HandleInv, TableInv, IsOpen, HasOpened, IsNew
<1>9. rd'.live => KnowsInv(rd)'
  BY <1>4 DEF HandleInv, KnowsInv, IsNew
<1>10. ASSUME NEW i \in Line' PROVE KnowsInv(wr[i])'
  <2>1. CASE i = m - 1
    BY <1>1, <1>2, <1>3, <1>4, <1>5, <1>6, <2>1 DEF KnowsInv, IsNew
  <2>2. CASE i # m - 1
    <3>1. KnowsInv(wr[i]) /\ wr'[i] = wr[i]
      BY <1>4, <1>5, <2>2 DEF HandleInv
    <3> QED BY <1>4, <3>1 DEF KnowsInv, IsNew
  <2> QED BY <2>1, <2>2
<1>11. ASSUME NEW i \in Line' PROVE WithReader(wr[i])'
  <2>1. CASE i = m - 1
    <3>1. WithReader(w) /\ WithReader(p)
      BY <1>1 DEF HandleInv, OpenerInv
    <3> QED BY <1>2, <1>3, <1>4, <1>5, <2>1, <3>1 DEF WithReader, IsNew
  <2>2. CASE i # m - 1
    <3>1. WithReader(wr[i]) /\ wr'[i] = wr[i]
      BY <1>4, <1>5, <2>2 DEF HandleInv, OpenerInv
    <3> QED BY <1>4, <3>1 DEF WithReader, IsNew
  <2> QED BY <2>1, <2>2
<1>12. ASSUME NEW i \in Line', NEW j \in Line', i < j PROVE Inside(wr[i], wr[j])'
  <2>0. i # m - 1 /\ wr'[i] = wr[i] /\ i \in Line /\ i < m /\ i < m - 1
    BY <1>0, <1>1, <1>4, <1>5, <1>12
  <2>1. CASE j = m - 1
    <3>1. Inside(wr[i], w) /\ Inside(wr[i], p)
      BY <1>1, <2>0 DEF HandleInv, OpenerInv
    <3> QED BY <1>2, <1>3, <1>5, <2>0, <2>1, <3>1 DEF Inside, IsNew
  <2>2. CASE j # m - 1
    <3>1. Inside(wr[i], wr[j]) /\ wr'[j] = wr[j]
      BY <1>4, <1>5, <1>12, <2>2 DEF HandleInv, OpenerInv
    <3> QED BY <2>0, <3>1 DEF Inside, IsNew
  <2> QED BY <2>1, <2>2
<1>13. ASSUME NEW i \in Line', NEW h \in Handles, wr'[i].can[h] # NoName, known[h] = NoName
       PROVE \E j \in Line' : j <= i /\ IsNew(wr'[j], h)
  <2>1. CASE i = m - 1
    <3>1. PICK j \in Line : IsNew(wr[j], h)
      BY <1>1, <1>2, <1>5, <1>13, <2>1 DEF HandleInv, OpenerInv
    <3>2. PICK k \in Line' : IsNew(wr'[k], h)
      BY <1>7, <3>1
    <3> QED BY <1>4, <2>1, <3>2
  <2>2. CASE i # m - 1
    <3>1. wr[i].can[h] # NoName /\ i \in Line /\ i < m - 1
      BY <1>4, <1>5, <1>13, <2>2
    <3>2. PICK j \in Line : j <= i /\ IsNew(wr[j], h)
      BY <1>13, <3>1 DEF HandleInv, OpenerInv
    <3>3. j \in Line' /\ j # m - 1
      BY <1>0, <1>1, <1>4, <3>1, <3>2
    <3> QED BY <1>4, <3>2, <3>3
  <2> QED BY <2>1, <2>2
<1>14. OpenerInv'
  BY <1>4, <1>11, <1>12, <1>13 DEF HandleInv, OpenerInv, IsNew
<1>15. FullInv'
  <2>1. ASSUME NEW i \in Line', ~wr'[i].barred, NEW h \in Handles, IsOpen(h)
        PROVE  Holds(wr'[i], h) \/ \E j \in Line' : j > i /\ IsNew(wr'[j], h)
    <3>1. CASE i = m - 1
      <4>1. ~wr[m].barred /\ \A j \in Line : ~(j > m)
        BY <1>0, <1>1, <1>2, <1>5, <2>1, <3>1
      <4>2. Holds(w, h)
        BY <1>1, <2>1, <4>1 DEF HandleInv, FullInv
      <4> QED BY <1>2, <1>5, <3>1, <4>2 DEF Holds
    <3>2. CASE i # m - 1
      <4>1. wr'[i] = wr[i] /\ i \in Line /\ i < m - 1
        BY <1>4, <1>5, <3>2
      <4>2. CASE Holds(wr[i], h)
        BY <4>1, <4>2
      <4>3. CASE ~Holds(wr[i], h)
        <5>1. PICK j \in Line : j > i /\ IsNew(wr[j], h)
          BY <2>1, <4>1, <4>3 DEF HandleInv, FullInv
        <5>2. PICK k \in Line' : IsNew(wr'[k], h) /\ (j <= m - 1 => k = j) /\ (j = m => k = m - 1)
          BY <1>7, <5>1
        <5>3. k > i
          BY <1>0, <1>1, <4>1, <5>1, <5>2
        <5> QED BY <5>2, <5>3
      <4> QED BY <4>2, <4>3
    <3> QED BY <3>1, <3>2
  <2> QED BY <1>4, <2>1 DEF HandleInv, FullInv, IsOpen, Holds, IsNew
<1> QED BY <1>8, <1>9, <1>10, <1>14, <1>15 DEF HandleInv

LEMMA HandleCommitted ==
  ASSUME TypeOK, TypeOK', HandleInv, wr # <<>>, Committed PROVE HandleInv'
<1>1. /\ w = wr[1] /\ Line = {1} /\ Line' = {} /\ w \in Txns /\ KnowsInv(w) /\ w.live
      /\ WithReader(w)
  <2>1. w = wr[Len(wr)] /\ Len(wr) = 1 /\ w \in Txns /\ w.live /\ wr' = <<>>
    BY WriterType DEF Committed
  <2>2. Line = {1} /\ Line' = {}
    BY <2>1 DEF Line
  <2> QED BY <2>1, <2>2 DEF HandleInv, OpenerInv
<1>2. /\ env'.name = env.name /\ env'.num >= env.num /\ env'.num >= w.num
      /\ \A h \in Handles : env'.valid[h] = (IsNew(w, h) \/ env.valid[h])
  BY <1>1, KeptIs DEF Committed, KnowsInv
<1>3. /\ \A h \in Handles : known'[h] = w.can[h]
      /\ \A h \in Handles : known[h] # NoName => known'[h] = known[h]
  BY <1>1 DEF Committed, KnowsInv, Published
<1>4. rd' = Sees(rd, known') /\ known' \in [Handles -> Names \cup {NoName}] /\ rd \in Txns
  BY WrType DEF Committed, TypeOK
<1>5. ASSUME rd.live
      PROVE /\ \A h \in Handles : rd'.can[h] = IF rd.can[h] = NoName THEN known'[h]
                                               ELSE rd.can[h]
            /\ rd'.live /\ rd'.num = rd.num /\ rd'.own = rd.own /\ rd'.flags = rd.flags
            /\ rd'.opened = rd.opened /\ rd'.barred = rd.barred
            /\ \A h \in Handles : IsNew(rd', h) <=> IsNew(rd, h)
  BY <1>4, <1>5, SeesIs DEF IsNew
<1>6. ~rd.live => rd' = rd
  BY <1>4 DEF Sees
<1>7. \A h \in Handles : IsNew(rd, h) => known'[h] = NoName
  BY <1>1, <1>3 DEF WithReader
<1>8. \A h \in Handles : known'[h] # NoName => known[h] # NoName \/ IsNew(w, h)
  <2>1. ASSUME NEW h \in Handles, w.can[h] # NoName PROVE known[h] # NoName \/ IsNew(w, h)
    <3>1. known[h] # NoName \/ \E j \in Line : IsNew(wr[j], h)
      BY <1>1, <2>1 DEF HandleInv, OpenerInv
    <3> QED BY <1>1, <3>1
  <2> QED BY <1>3, <2>1
<1>9. TableInv'
  <2>1. ASSUME NEW h \in Handles, known'[h] # NoName
        PROVE  env'.name[h] = known'[h] /\ env'.valid[h] /\ h < env'.num
    <3>1. env'.name[h] = known'[h]
      BY <1>1, <1>2, <1>3, <2>1 DEF KnowsInv
    <3>2. known[h] # NoName \/ IsNew(w, h)
      BY <1>8, <2>1
    <3>3. h \in Nat /\ env.num \in Nat /\ w.num \in Nat /\ env'.num \in Nat
      BY <1>1 DEF TypeOK, Txns, Counts, Handles, CORE_DBS
    <3>4. CASE known[h] # NoName
      <4>1. env.valid[h] /\ h < env.num
        BY <3>4 DEF HandleInv, TableInv
      <4>2. h < env'.num
        BY <1>2, <3>3, <4>1
      <4> QED BY <1>2, <3>1, <4>1, <4>2
    <3>5. CASE IsNew(w, h)
      <4>1. h < w.num
        BY <1>1, <3>5 DEF KnowsInv, IsNew
      <4>2. h < env'.num
        BY <1>2, <3>3, <4>1
      <4> QED BY <1>2, <3>1, <3>5, <4>2
    <3> QED BY <3>2, <3>4, <3>5
  <2>2. ASSUME NEW h \in Handles, env'.name[h] # NoName, known'[h] = NoName
        PROVE  HasOpened(rd', h)
    <3>1. known[h] = NoName /\ ~HasOpened(w, h)
      BY <1>3, <2>2 DEF HasOpened
    <3>2. HasOpened(rd, h)
      BY <1>1, <1>2, <2>2, <3>1 DEF HandleInv, TableInv, IsOpen
    <3> QED BY <1>5, <1>6, <3>2 DEF HasOpened
  <2>3. \A g, h \in Handles : env'.name[h] # NoName /\ env'.name[g] = env'.name[h] => g = h
    BY <1>2 DEF HandleInv, TableInv, IsOpen
  <2> QED BY <2>1, <2>2, <2>3 DEF TableInv, IsOpen, HasOpened, IsNew
<1>10. ASSUME rd'.live PROVE KnowsInv(rd)'
  <2>1. rd.live /\ KnowsInv(rd)
    BY <1>6, <1>10 DEF HandleInv
  <2>2. \A h \in Handles : rd'.can[h] # NoName => env'.name[h] = rd'.can[h]
    BY <1>1, <1>2, <1>3, <1>5, <2>1 DEF KnowsInv
  <2>3. \A h \in Handles : known'[h] # NoName => rd'.can[h] = known'[h]
    BY <1>1, <1>2, <1>3, <1>5, <2>1 DEF KnowsInv
  <2>4. \A h \in rd'.own : rd'.can[h] # NoName
    BY <1>4, <1>5, <2>1 DEF KnowsInv, Txns
  <2>5. \A h \in Handles : IsNew(rd', h) => rd'.opened /\ known'[h] = NoName
    BY <1>5, <1>7, <2>1 DEF KnowsInv
  <2>6. \A h \in Handles : rd'.flags[h] # {} => h < rd'.num
    BY <1>5, <2>1 DEF KnowsInv
  <2> QED BY <2>2, <2>3, <2>4, <2>5, <2>6 DEF KnowsInv, IsNew
<1>11. \A h \in Handles : rd'.can[h] # NoName => known'[h] # NoName \/ IsNew(rd', h)
  BY <1>3, <1>5, <1>6, NoReader DEF HandleInv, OpenerInv
<1>12. OpenerInv'
  BY <1>1, <1>11 DEF OpenerInv, IsNew
<1>13. FullInv'
  BY <1>1, <1>2, <1>5, <1>6 DEF HandleInv, FullInv, IsOpen, Holds, IsNew
<1> QED BY <1>1, <1>9, <1>10, <1>12, <1>13 DEF HandleInv

-----------------------------------------------------------------------------
(***************************************************************************)
(* The handles: opening.                                                   *)
(***************************************************************************)

\* The slot that mdb_dbi_open takes for a new handle is free.
LEMMA FreeHandleIs ==
  ASSUME TypeOK, NEW t \in Txns, \A h \in Handles : IsOpen(h) => Holds(t, h),
         FreeHandle(t) \in Handles
  PROVE  ~IsOpen(FreeHandle(t)) /\ FreeHandle(t) <= t.num
<1> DEFINE free == {h \in Handles : h < t.num /\ env.name[h] = NoName}
<1>1. t.num \in Nat
  BY DEF Txns, Counts
<1>2. CASE free = {}
  <2>1. FreeHandle(t) = t.num
    BY <1>2 DEF FreeHandle
  <2>2. ~(t.num < t.num) /\ t.num <= t.num
    BY <1>1
  <2> QED BY <2>1, <2>2 DEF Holds
<1>3. CASE free # {}
  <2>1. FreeHandle(t) \in free
    BY <1>3, MinOf DEF FreeHandle
  <2>2. FreeHandle(t) \in Nat
    BY DEF Handles, CORE_DBS
  <2>3. FreeHandle(t) < t.num
    BY <2>1
  <2>4. FreeHandle(t) <= t.num
    BY <1>1, <2>2, <2>3
  <2> QED BY <2>1, <2>4 DEF IsOpen
<1> QED BY <1>2, <1>3

\* h is free, and no handle is open for n.
Fresh(t, h, n) == ~IsOpen(h) /\ h <= t.num /\ \A g \in Handles : env.name[g] # n

\* mdb_dbi_open registers a new handle, or leaves the table alone.
LEMMA DbiOpenCases ==
  ASSUME TypeOK, TableInv, NEW t \in Txns, KnowsInv(t),
         \A h \in Handles : IsOpen(h) => Holds(t, h), NEW n \in Names, NEW create \in BOOLEAN
  PROVE  \/ Opened(t, n, create) = {} /\ DbiOpen(t, n, create) = [t EXCEPT !.opened = TRUE]
         \/ \E h \in Handles : /\ Opened(t, n, create) = {h} /\ Fresh(t, h, n)
                               /\ DbiOpen(t, n, create) = Registered(t, h, n)
                               /\ t.main[n] # Absent \/ create
<1>1. CASE OldHandle(t, n) # {}
  <2>1. PICK h \in Handles : h = Min(OldHandle(t, n)) /\ env.name[h] = n
    <3>1. OldHandle(t, n) \in SUBSET Handles /\ \A h \in OldHandle(t, n) : env.name[h] = n
      BY DEF OldHandle
    <3>2. Min(OldHandle(t, n)) \in OldHandle(t, n)
      BY <1>1, <3>1, OneNamed
    <3> QED BY <3>1, <3>2
  <2>2. IsOpen(h)
    BY <2>1, NameAssumption DEF IsOpen
  <2>3. h \in t.own /\ t.can[h] = n
    BY <2>1, <2>2 DEF Holds, KnowsInv
  <2>4. Has(t, h, n) = [t EXCEPT !.opened = TRUE]
    BY <2>3 DEF Has, Txns
  <2> QED BY <1>1, <2>1, <2>4 DEF DbiOpen, Opened
<1>2. CASE OldHandle(t, n) = {} /\ Opened(t, n, create) = {}
  BY <1>2 DEF DbiOpen
<1>3. CASE OldHandle(t, n) = {} /\ Opened(t, n, create) # {}
  <2> DEFINE h == FreeHandle(t)
  <2>1. Opened(t, n, create) = {h} /\ (t.main[n] # Absent \/ create)
    BY <1>3 DEF Opened
  <2>2. h \in Handles
    BY <2>1, OpenedType
  <2>3. ~IsOpen(h) /\ h <= t.num
    BY <2>2, FreeHandleIs
  <2>4. \A g \in Handles : env.name[g] # n
    BY <1>3, NameAssumption DEF OldHandle, IsOpen, Holds
  <2>5. DbiOpen(t, n, create) = Registered(t, h, n)
    BY <1>3 DEF DbiOpen
  <2> QED BY <2>1, <2>2, <2>3, <2>4, <2>5 DEF Fresh
<1> QED BY <1>1, <1>2, <1>3

\* What the transaction has under the new handle.
LEMMA RegisteredIs ==
  ASSUME NEW t \in Txns, NEW h \in Handles, NEW n \in Names, h <= t.num
  PROVE  LET u == Registered(t, h, n)
             new == t.main[n] = Absent IN
         /\ u.live = t.live /\ u.barred = t.barred /\ u.opened /\ u.own = t.own \cup {h}
         /\ u.num >= t.num /\ h < u.num
         /\ \A g \in Handles : g # h /\ g < u.num => g < t.num
         /\ \A g \in Handles : u.can[g] = IF g = h THEN n ELSE t.can[g]
         /\ \A g \in Handles : g # h => u.flags[g] = t.flags[g] /\ u.db[g] = t.db[g]
         /\ u.flags[h] = {"NEW", "VALID"} \cup IF new THEN {"DIRTY"} ELSE {}
         /\ u.db[h] = IF new THEN Db({}) ELSE t.main[n]
         /\ \A k \in Names : u.main[k] = IF new /\ k = n THEN Db({}) ELSE t.main[k]
         /\ \A k \in Names : u.view[k] = IF new /\ k = n THEN Db({}) ELSE t.view[k]
<1> DEFINE u == Registered(t, h, n)
           new == t.main[n] = Absent
<1>1. t.num \in Nat /\ h \in Nat /\ \A g \in Handles : g \in Nat
  BY DEF Txns, Counts, Handles, CORE_DBS
<1>2. u.num = Max({t.num, h + 1})
  BY DEF Registered, Has, Txns
<1>3. u.num \in Nat /\ u.num >= t.num /\ u.num >= h + 1 /\ u.num \in {t.num, h + 1}
  BY <1>1, <1>2, MaxOfTwo
<1>4. u.live = t.live /\ u.barred = t.barred /\ u.opened /\ u.own = t.own \cup {h}
  BY DEF Registered, Has, Txns
<1>5. \A g \in Handles : u.can[g] = IF g = h THEN n ELSE t.can[g]
  BY DEF Registered, Has, Txns
<1>6. \A g \in Handles : g # h => u.flags[g] = t.flags[g] /\ u.db[g] = t.db[g]
  BY DEF Registered, Has, Txns
<1>7. u.flags[h] = {"NEW", "VALID"} \cup IF new THEN {"DIRTY"} ELSE {}
  BY DEF Registered, Has, Txns
<1>8. u.db[h] = IF new THEN Db({}) ELSE t.main[n]
  BY DEF Registered, Has, Txns
<1>9. \A k \in Names : u.main[k] = IF new /\ k = n THEN Db({}) ELSE t.main[k]
  BY DEF Registered, Has, Txns
<1>10. \A k \in Names : u.view[k] = IF new /\ k = n THEN Db({}) ELSE t.view[k]
  BY DEF Registered, Has, Txns
<1> HIDE DEF u
<1>11. h < u.num
  BY <1>1, <1>3
<1>12. ASSUME NEW g \in Handles, g # h, g < u.num PROVE g < t.num
  BY <1>1, <1>3, <1>12
<1> QED BY <1>3, <1>4, <1>5, <1>6, <1>7, <1>8, <1>9, <1>10, <1>11, <1>12 DEF u

\* t becomes u and the table e when it opens the handle in O, if any, for n.
Opens(t, u, e, O, n) ==
    /\ O \subseteq Handles
    /\ \A g, h \in O : g = h
    /\ \A g \in O : ~IsOpen(g) /\ \A h \in Handles : env.name[h] # n
    /\ \A g \in Handles : e.name[g] = IF g \in O THEN n ELSE env.name[g]
    /\ e.num = env.num /\ e.valid = env.valid
    /\ u.live = t.live /\ u.barred = t.barred /\ u.opened /\ u.own = t.own \cup O
    /\ u.num >= t.num
    /\ \A g \in Handles : u.can[g] = IF g \in O THEN n ELSE t.can[g]
    /\ \A g \in Handles : IsNew(u, g) <=> g \in O \/ IsNew(t, g)
    /\ \A g \in O : g < u.num
    /\ \A g \in Handles : u.flags[g] # {} => g < u.num

\* What mdb_dbi_open does to the table.
LEMMA OpenIs ==
  ASSUME TypeOK, TableInv, NEW t \in Txns, KnowsInv(t),
         \A h \in Handles : IsOpen(h) => Holds(t, h), NEW n \in Names, NEW create \in BOOLEAN
  PROVE  Opens(t, DbiOpen(t, n, create), Named(Opened(t, n, create), n),
               Opened(t, n, create), n)
<1> DEFINE O == Opened(t, n, create)
           u == DbiOpen(t, n, create)
           e == Named(O, n)
<1>1. \A g \in Handles : e.name[g] = IF g \in O THEN n ELSE env.name[g]
  BY DEF Named, TypeOK
<1>2. e.num = env.num /\ e.valid = env.valid
  BY DEF Named, TypeOK
<1>3. t.num \in Nat /\ u \in Txns /\ u.num \in Nat /\ \A g \in Handles : g \in Nat
  <2>1. u \in Txns
    BY DbiOpenType
  <2>2. \A g \in Handles : g \in Nat
    BY DEF Handles, CORE_DBS
  <2> HIDE DEF u
  <2> QED BY <2>1, <2>2 DEF Txns, Counts
<1>4. CASE O = {} /\ u = [t EXCEPT !.opened = TRUE]
  <2>1. /\ u.live = t.live /\ u.barred = t.barred /\ u.opened /\ u.own = t.own
        /\ u.num = t.num /\ u.can = t.can /\ u.flags = t.flags
    BY <1>4 DEF Txns
  <2> HIDE DEF O, u, e
  <2>2. \A g \in Handles : u.flags[g] # {} => g < u.num
    BY <2>1 DEF KnowsInv
  <2>3. u.num >= t.num
    BY <1>3, <2>1
  <2>4. \A g \in Handles : IsNew(u, g) <=> IsNew(t, g)
    BY <2>1 DEF IsNew
  <2> QED BY <1>1, <1>2, <1>4, <2>1, <2>2, <2>3, <2>4 DEF O, u, e, Opens
<1>5. ASSUME NEW h \in Handles, O = {h}, Fresh(t, h, n), u = Registered(t, h, n)
      PROVE  /\ \A g \in O : ~IsOpen(g) /\ \A k \in Handles : env.name[k] # n
             /\ u.live = t.live /\ u.barred = t.barred /\ u.opened /\ u.own = t.own \cup O
             /\ u.num >= t.num
             /\ \A g \in Handles : u.can[g] = IF g \in O THEN n ELSE t.can[g]
             /\ \A g \in Handles : IsNew(u, g) <=> g \in O \/ IsNew(t, g)
             /\ \A g \in O : g < u.num
             /\ \A g \in Handles : u.flags[g] # {} => g < u.num
  <2> HIDE DEF O, u, e
  <2>1. /\ u.live = t.live /\ u.barred = t.barred /\ u.opened /\ u.own = t.own \cup {h}
        /\ u.num >= t.num /\ h < u.num
        /\ \A g \in Handles : u.can[g] = IF g = h THEN n ELSE t.can[g]
        /\ \A g \in Handles : g # h => u.flags[g] = t.flags[g]
        /\ "NEW" \in u.flags[h]
    BY <1>5, RegisteredIs DEF Fresh
  <2>2. \A g \in Handles : IsNew(u, g) <=> g \in O \/ IsNew(t, g)
    BY <1>5, <2>1 DEF IsNew
  <2>3. ASSUME NEW g \in Handles, u.flags[g] # {} PROVE g < u.num
    <3>1. CASE g = h
      BY <2>1, <3>1
    <3>2. CASE g # h
      <4>1. g < t.num
        BY <2>1, <2>3, <3>2 DEF KnowsInv
      <4> QED BY <1>3, <2>1, <4>1
    <3> QED BY <3>1, <3>2
  <2> QED BY <1>5, <2>1, <2>2, <2>3 DEF Fresh
<1>6. O \subseteq Handles
  BY OpenedType
<1>7. CASE O # {}
  <2>1. PICK h \in Handles : O = {h} /\ Fresh(t, h, n) /\ u = Registered(t, h, n)
    BY <1>7, DbiOpenCases
  <2> HIDE DEF O, u, e
  <2>2. \A g, k \in O : g = k
    BY <2>1
  <2> QED BY <1>1, <1>2, <1>5, <1>6, <2>1, <2>2 DEF O, u, e, Opens
<1>8. O = {} => u = [t EXCEPT !.opened = TRUE]
  BY DbiOpenCases
<1> QED BY <1>4, <1>7, <1>8 DEF Opens

LEMMA HandleOpenRead ==
  ASSUME TypeOK, TypeOK', HandleInv, NEW n \in Names, OpenRead(n) PROVE HandleInv'
<1> DEFINE O == Opened(rd, n, FALSE)
<1>1. rd \in Txns /\ rd.live /\ ~rd.barred /\ KnowsInv(rd) /\ TableInv
  BY WrType DEF OpenRead, Usable, MayOpen, HandleInv
<1>2. \A h \in Handles : IsOpen(h) => Holds(rd, h)
  BY <1>1 DEF HandleInv, FullInv
<1>3. rd' = DbiOpen(rd, n, FALSE) /\ env' = Named(O, n) /\ UNCHANGED known
  BY DEF OpenRead
<1>4. Opens(rd, rd', env', O, n)
  BY <1>1, <1>2, <1>3, OpenIs
<1> HIDE DEF O
<1>5. Line' = Line /\ wr' = [i \in Line |-> Barred(wr[i])]
  <2>1. wr' = [i \in Line |-> Barred(wr[i])]
    BY LineDomain DEF OpenRead
  <2>2. \A i \in Line : wr'[i] \in Txns
    BY <2>1, WrType, BarredType
  <2> QED BY <2>1, <2>2, MappedLine
<1>6. ASSUME NEW i \in Line
      PROVE  /\ wr'[i].barred /\ wr'[i].opened = wr[i].opened /\ wr'[i].can = wr[i].can
             /\ wr'[i].own = wr[i].own /\ wr'[i].num = wr[i].num
             /\ wr'[i].flags = wr[i].flags
             /\ \A h \in Handles : IsNew(wr'[i], h) <=> IsNew(wr[i], h)
  <2>1. wr'[i] = Barred(wr[i]) /\ wr[i] \in Txns
    BY <1>5, WrType
  <2> QED BY <2>1 DEF Barred, Txns, IsNew
<1>7. /\ \A i \in Line : ~wr[i].opened /\ KnowsInv(wr[i])
      /\ \A i \in Line, h \in Handles : ~IsNew(wr[i], h)
  BY <1>1 DEF HandleInv, OpenerInv, WithReader, KnowsInv
\* The new handle was not known to anybody.
<1>8. \A h \in O : /\ known[h] = NoName /\ rd.can[h] = NoName
                   /\ \A i \in Line : wr[i].can[h] = NoName
  BY <1>1, <1>4, <1>7 DEF TableInv, KnowsInv, IsOpen, Opens
<1>9. TableInv'
  <2>1. \A h \in Handles : known'[h] # NoName =>
           env'.name[h] = known'[h] /\ env'.valid[h] /\ h < env'.num
    BY <1>1, <1>3, <1>4, <1>8 DEF TableInv, Opens
  <2>2. ASSUME NEW h \in Handles, env'.name[h] # NoName
        PROVE  known'[h] # NoName \/ HasOpened(rd', h)
    <3>1. CASE h \in O
      BY <1>4, <3>1, NameAssumption DEF HasOpened, Opens
    <3>2. CASE h \notin O
      <4>1. known[h] # NoName \/ HasOpened(rd, h)
        BY <1>1, <1>4, <1>7, <2>2, <3>2 DEF TableInv, IsOpen, HasOpened, Opens
      <4> QED BY <1>3, <1>4, <3>2, <4>1 DEF HasOpened, Opens
    <3> QED BY <3>1, <3>2
  <2>3. \A g, h \in Handles : env'.name[h] # NoName /\ env'.name[g] = env'.name[h] => g = h
    BY <1>1, <1>4 DEF TableInv, IsOpen, Opens
  <2> QED BY <2>1, <2>2, <2>3 DEF TableInv, IsOpen, HasOpened, IsNew
<1>10. KnowsInv(rd)'
  <2>1. \A h \in Handles : rd'.can[h] # NoName => env'.name[h] = rd'.can[h]
    BY <1>1, <1>4 DEF KnowsInv, Opens
  <2>2. \A h \in Handles : known'[h] # NoName => rd'.can[h] = known'[h]
    BY <1>1, <1>3, <1>4, <1>8 DEF KnowsInv, Opens
  <2>3. \A h \in rd'.own : rd'.can[h] # NoName
    BY <1>1, <1>4, NameAssumption DEF KnowsInv, Txns, Opens
  <2>4. \A h \in Handles : IsNew(rd', h) => rd'.opened /\ known'[h] = NoName
    BY <1>1, <1>3, <1>4, <1>8 DEF KnowsInv, Opens
  <2> QED BY <1>4, <2>1, <2>2, <2>3, <2>4 DEF KnowsInv, IsNew, Opens
<1>11. ASSUME NEW i \in Line PROVE KnowsInv(wr[i])'
  <2>1. KnowsInv(wr[i])
    BY <1>7
  <2> QED BY <1>3, <1>4, <1>6, <1>8, <2>1 DEF KnowsInv, IsNew, Opens
<1>12. ASSUME NEW i \in Line PROVE WithReader(wr[i])'
  <2>1. WithReader(wr[i])
    BY DEF HandleInv, OpenerInv
  <2> QED BY <1>4, <1>6, <1>7, <1>8, <2>1 DEF WithReader, IsNew, Opens
<1>13. ASSUME NEW i \in Line, NEW j \in Line, i < j PROVE Inside(wr[i], wr[j])'
  <2>1. Inside(wr[i], wr[j])
    BY <1>13 DEF HandleInv, OpenerInv
  <2> QED BY <1>6, <2>1 DEF Inside, IsNew
<1>14. \A h \in Handles : rd'.can[h] # NoName => known'[h] # NoName \/ IsNew(rd', h)
  BY <1>3, <1>4 DEF HandleInv, OpenerInv, Opens
<1>15. \A i \in Line : \A h \in Handles : wr'[i].can[h] # NoName =>
          known'[h] # NoName \/ \E j \in Line : j <= i /\ IsNew(wr'[j], h)
  BY <1>3, <1>6 DEF HandleInv, OpenerInv
<1>16. OpenerInv'
  BY <1>5, <1>12, <1>13, <1>14, <1>15 DEF OpenerInv, IsNew
<1>17. FullInv'
  <2>1. ASSUME NEW h \in Handles, env'.name[h] # NoName PROVE Holds(rd', h)
    <3>1. CASE h \in O
      BY <1>4, <3>1 DEF Holds, Opens
    <3>2. CASE h \notin O
      <4>1. h \in rd.own /\ h < rd.num
        BY <1>2, <1>4, <2>1, <3>2 DEF Holds, IsOpen, Opens
      <4>2. h \in Nat /\ rd.num \in Nat /\ rd'.num \in Nat
        BY <1>1 DEF TypeOK, Txns, Counts, Handles, CORE_DBS
      <4>3. h < rd'.num
        BY <1>4, <4>1, <4>2 DEF Opens
      <4> QED BY <1>4, <4>1, <4>3 DEF Holds, Opens
    <3> QED BY <3>1, <3>2
  <2> QED BY <1>5, <1>6, <2>1 DEF FullInv, IsOpen, Holds, IsNew
<1> QED BY <1>5, <1>9, <1>10, <1>11, <1>16, <1>17 DEF HandleInv

LEMMA HandleOpenWrite ==
  ASSUME TypeOK, TypeOK', HandleInv, NEW n \in Names, NEW create \in BOOLEAN,
         OpenWrite(n, create)
  PROVE  HandleInv'
<1> DEFINE O == Opened(w, n, create)
           u == DbiOpen(w, n, create)
<1>0. PICK m \in Nat : m = Len(wr)
  BY LineDomain
<1>1. /\ w = wr[m] /\ m \in Line /\ Line = 1..m /\ w \in Txns /\ w.live /\ ~w.barred
      /\ KnowsInv(w) /\ TableInv /\ wr # <<>>
      /\ \A i \in Line : i = m \/ i < m
  BY <1>0, WriterType DEF OpenWrite, MayOpen, HandleInv, Line
<1>2. \A h \in Handles : IsOpen(h) => Holds(w, h)
  <2>1. \A j \in Line : ~(j > m)
    BY <1>1
  <2> QED BY <1>1, <2>1 DEF HandleInv, FullInv
<1>3. /\ env' = Named(O, n) /\ UNCHANGED known /\ wr' = Append(Front(wr), u) /\ u \in Txns
      /\ rd' = IF rd.live THEN Barred(rd) ELSE rd
  BY <1>1, DbiOpenType DEF OpenWrite
<1>4. Opens(w, u, env', O, n)
  BY <1>1, <1>2, <1>3, OpenIs
<1> HIDE DEF O, u
<1>5. Line' = Line /\ \A i \in Line : wr'[i] = IF i = m THEN u ELSE wr[i]
  BY <1>0, <1>1, <1>3, ReplacedLine
<1>6. /\ ~rd.opened /\ \A h \in Handles : ~IsNew(rd, h)
      /\ \A i \in Line : KnowsInv(wr[i])
  <2>1. ~rd.opened
    BY <1>1 DEF HandleInv, OpenerInv, WithReader
  <2> QED BY <2>1, NoReader DEF HandleInv, KnowsInv
<1>7. /\ rd'.live = rd.live /\ (rd.live => rd'.barred) /\ rd'.opened = rd.opened
      /\ rd'.can = rd.can /\ rd'.own = rd.own /\ rd'.num = rd.num /\ rd'.flags = rd.flags
      /\ \A h \in Handles : ~IsNew(rd', h)
  <2>1. rd \in Txns
    BY WrType
  <2> QED BY <1>3, <1>6, <2>1 DEF Barred, Txns, IsNew
\* The new handle was not known to anybody.
<1>8. \A h \in O : /\ known[h] = NoName /\ rd.can[h] = NoName
                   /\ \A i \in Line : wr[i].can[h] = NoName
  <2>1. \A h \in O : h \in Handles /\ ~IsOpen(h)
    BY <1>4 DEF Opens
  <2>2. \A h \in O : known[h] = NoName
    BY <1>1, <2>1, NameAssumption DEF TableInv, IsOpen
  <2>3. \A h \in O : rd.can[h] = NoName
    BY <2>1, NoReader DEF HandleInv, KnowsInv, IsOpen
  <2>4. \A h \in O, i \in Line : wr[i].can[h] = NoName
    BY <1>6, <2>1 DEF KnowsInv, IsOpen
  <2> QED BY <2>2, <2>3, <2>4
<1>9. TableInv'
  <2>1. \A h \in Handles : known'[h] # NoName =>
           env'.name[h] = known'[h] /\ env'.valid[h] /\ h < env'.num
    BY <1>1, <1>3, <1>4, <1>8 DEF TableInv, Opens
  <2>2. ASSUME NEW h \in Handles, env'.name[h] # NoName, known'[h] = NoName
        PROVE  \E i \in Line : HasOpened(wr'[i], h)
    <3>1. CASE h \in O
      <4>1. HasOpened(u, h)
        BY <1>4, <3>1, NameAssumption DEF HasOpened, Opens
      <4> QED BY <1>1, <1>5, <4>1
    <3>2. CASE h \notin O
      <4>1. PICK i \in Line : HasOpened(wr[i], h)
        BY <1>1, <1>3, <1>4, <1>6, <2>2, <3>2 DEF TableInv, IsOpen, HasOpened, Opens
      <4>2. HasOpened(wr'[i], h)
        BY <1>1, <1>4, <1>5, <3>2, <4>1 DEF HasOpened, Opens
      <4> QED BY <4>2
    <3> QED BY <3>1, <3>2
  <2>3. \A g, h \in Handles : env'.name[h] # NoName /\ env'.name[g] = env'.name[h] => g = h
    BY <1>1, <1>4 DEF TableInv, IsOpen, Opens
  <2> QED BY <1>5, <2>1, <2>2, <2>3 DEF TableInv, IsOpen, HasOpened, IsNew
<1>10. rd'.live => KnowsInv(rd)'
  BY <1>3, <1>4, <1>7, <1>8 DEF HandleInv, KnowsInv, IsNew, Opens
<1>11. ASSUME NEW i \in Line PROVE KnowsInv(wr[i])'
  <2>1. CASE i = m
    <3>1. \A h \in Handles : u.can[h] # NoName => env'.name[h] = u.can[h]
      BY <1>1, <1>4 DEF KnowsInv, Opens
    <3>2. \A h \in Handles : known'[h] # NoName => u.can[h] = known'[h]
      BY <1>1, <1>3, <1>4, <1>8 DEF KnowsInv, Opens
    <3>3. \A h \in u.own : u.can[h] # NoName
      BY <1>1, <1>4, NameAssumption DEF KnowsInv, Txns, Opens
    <3>4. \A h \in Handles : IsNew(u, h) => u.opened /\ known'[h] = NoName
      BY <1>1, <1>3, <1>4, <1>8 DEF KnowsInv, Opens
    <3> QED BY <1>1, <1>4, <1>5, <2>1, <3>1, <3>2, <3>3, <3>4 DEF KnowsInv, IsNew, Opens
  <2>2. CASE i # m
    <3>1. KnowsInv(wr[i]) /\ wr'[i] = wr[i]
      BY <1>5, <1>6, <2>2
    <3> QED BY <1>3, <1>4, <1>8, <3>1 DEF KnowsInv, IsNew, Opens
  <2> QED BY <2>1, <2>2
<1>12. ASSUME NEW i \in Line PROVE WithReader(wr[i])'
  <2>1. \A h \in Handles : IsNew(wr'[i], h) => rd'.can[h] = NoName
    <3>1. ASSUME NEW h \in Handles, IsNew(wr'[i], h) PROVE h \in O \/ IsNew(wr[i], h)
      BY <1>1, <1>4, <1>5, <3>1 DEF Opens
    <3>2. WithReader(wr[i])
      BY DEF HandleInv, OpenerInv
    <3> QED BY <1>7, <1>8, <3>1, <3>2 DEF WithReader
  <2> QED BY <1>6, <1>7, <2>1 DEF WithReader, IsNew
<1>13. ASSUME NEW i \in Line, NEW j \in Line, i < j PROVE Inside(wr[i], wr[j])'
  <2>1. Inside(wr[i], wr[j]) /\ i # m /\ wr'[i] = wr[i]
    BY <1>1, <1>5, <1>13 DEF HandleInv, OpenerInv
  <2>2. CASE j = m
    <3>1. wr'[j] = u /\ wr[j] = w
      BY <1>1, <1>5, <2>2
    <3>2. wr[i].num <= u.num
      <4>1. wr[i].num \in Nat /\ w.num \in Nat /\ u.num \in Nat
        BY <1>1, <1>3, WrType DEF Txns, Counts
      <4> QED BY <1>4, <2>1, <3>1, <4>1 DEF Inside, Opens
    <3>3. \A h \in Handles : IsNew(u, h) => wr[i].can[h] = NoName
      BY <1>4, <1>8, <2>1, <3>1 DEF Inside, Opens
    <3>4. u.opened /\ \A h \in Handles : wr[i].can[h] # NoName => u.can[h] # NoName
      BY <1>4, <2>1, <3>1, NameAssumption DEF Inside, Opens
    <3> QED BY <2>1, <3>1, <3>2, <3>3, <3>4 DEF Inside, IsNew
  <2>3. CASE j # m
    BY <1>5, <2>1, <2>3 DEF Inside, IsNew
  <2> QED BY <2>2, <2>3
<1>14. \A h \in Handles : rd'.can[h] # NoName => known'[h] # NoName \/ IsNew(rd', h)
  BY <1>3, <1>6, <1>7 DEF HandleInv, OpenerInv
<1>15. \A j \in Line, h \in Handles : IsNew(wr[j], h) => IsNew(wr'[j], h)
  BY <1>1, <1>4, <1>5 DEF Opens
<1>16. ASSUME NEW i \in Line, NEW h \in Handles, wr'[i].can[h] # NoName, known'[h] = NoName
       PROVE \E j \in Line : j <= i /\ IsNew(wr'[j], h)
  <2>1. CASE i = m /\ h \in O
    <3>1. IsNew(wr'[m], h) /\ m <= m
      BY <1>1, <1>4, <1>5, <2>1 DEF Opens
    <3> QED BY <1>1, <2>1, <3>1
  <2>2. CASE i # m \/ h \notin O
    <3>1. wr[i].can[h] # NoName
      BY <1>1, <1>4, <1>5, <1>16, <2>2 DEF Opens
    <3>2. PICK j \in Line : j <= i /\ IsNew(wr[j], h)
      BY <1>3, <1>16, <3>1 DEF HandleInv, OpenerInv
    <3> QED BY <1>15, <3>2
  <2> QED BY <2>1, <2>2
<1>17. OpenerInv'
  BY <1>5, <1>12, <1>13, <1>14, <1>16 DEF OpenerInv, IsNew
<1>18. FullInv'
  <2>1. ASSUME NEW i \in Line, ~wr'[i].barred, NEW h \in Handles, env'.name[h] # NoName
        PROVE  Holds(wr'[i], h) \/ \E j \in Line : j > i /\ IsNew(wr'[j], h)
    <3>1. CASE i = m
      <4>1. CASE h \in O
        BY <1>1, <1>4, <1>5, <3>1, <4>1 DEF Holds, Opens
      <4>2. CASE h \notin O
        <5>1. h \in w.own /\ h < w.num
          BY <1>2, <1>4, <2>1, <4>2 DEF Holds, IsOpen, Opens
        <5>2. h \in Nat /\ w.num \in Nat /\ u.num \in Nat
          BY <1>1, <1>3 DEF Txns, Counts, Handles, CORE_DBS
        <5>3. h < u.num
          BY <1>4, <5>1, <5>2 DEF Opens
        <5> QED BY <1>4, <1>5, <3>1, <5>1, <5>3 DEF Holds, Opens
      <4> QED BY <4>1, <4>2
    <3>2. CASE i # m
      <4>1. i < m /\ wr'[i] = wr[i]
        BY <1>1, <1>5, <3>2
      <4>2. CASE h \in O
        <5>1. IsNew(wr'[m], h) /\ m > i
          BY <1>1, <1>4, <1>5, <4>1, <4>2 DEF Opens
        <5> QED BY <1>1, <5>1
      <4>3. CASE h \notin O
        <5>1. IsOpen(h)
          BY <1>4, <2>1, <4>3 DEF IsOpen, Opens
        <5>2. Holds(wr[i], h) \/ \E j \in Line : j > i /\ IsNew(wr[j], h)
          BY <2>1, <4>1, <5>1 DEF HandleInv, FullInv
        <5> QED BY <1>15, <4>1, <5>2
      <4> QED BY <4>2, <4>3
    <3> QED BY <3>1, <3>2
  <2> QED BY <1>5, <1>7, <2>1 DEF FullInv, IsOpen, Holds, IsNew
<1> QED BY <1>5, <1>9, <1>10, <1>11, <1>17, <1>18 DEF HandleInv

-----------------------------------------------------------------------------
(***************************************************************************)
(* The handles: closing.                                                   *)
(***************************************************************************)

\* t becomes u when the handle h is closed.
Forgot(t, u, h) ==
    /\ u.live = t.live /\ u.num = t.num /\ u.opened = t.opened /\ u.barred = t.barred
    /\ u.own = t.own \ {h}
    /\ \A g \in Handles : u.can[g] = IF g = h THEN NoName ELSE t.can[g]
    /\ \A g \in Handles : g # h => (IsNew(u, g) <=> IsNew(t, g))
    /\ IsNew(u, h) => IsNew(t, h)
    /\ \A g \in Handles : u.flags[g] # {} => t.flags[g] # {}

\* e is the table without h.
Without(e, h) ==
    /\ e.num = env.num
    /\ \A g \in Handles : e.name[g] = IF g = h THEN NoName ELSE env.name[g]
    /\ \A g \in Handles : g # h => e.valid[g] = env.valid[g]

\* What is left of a closed handle in a transaction.
LEMMA ForgetsIs ==
  ASSUME TypeOK, NEW t \in Txns, NEW h \in Handles, t.live \/ t = NewTxn
  PROVE  Forgot(t, Forgets(t, h), h)
<1>1. CASE t.live
  <2> DEFINE u == Forgets(t, h)
  <2>1. /\ u.live = t.live /\ u.num = t.num /\ u.opened = t.opened /\ u.barred = t.barred
        /\ u.own = t.own \ {h} /\ u.flags = t.flags
        /\ \A g \in Handles : u.can[g] = IF g = h THEN NoName ELSE t.can[g]
    BY <1>1 DEF Forgets, Txns
  <2> HIDE DEF u
  <2> QED BY <2>1 DEF Forgot, IsNew, u
<1>2. CASE ~t.live
  <2>1. Forgets(t, h) = t /\ t.own = {} /\ \A g \in Handles : t.can[g] = NoName
    BY <1>2 DEF Forgets, NewTxn
  <2> QED BY <2>1 DEF Forgot
<1> QED BY <1>1, <1>2

\* Closing a handle keeps the invariant.
LEMMA HandleForgets ==
  ASSUME TypeOK, HandleInv, NEW h \in Handles,
         known' = [known EXCEPT ![h] = NoName], Without(env', h), Forgot(rd, rd', h),
         Line' = Line, \A i \in Line : Forgot(wr[i], wr'[i], h)
  PROVE  HandleInv'
<1>1. \A g \in Handles : known'[g] = IF g = h THEN NoName ELSE known[g]
  BY DEF TypeOK
<1>2. TableInv'
  <2>1. \A g \in Handles : known'[g] # NoName =>
           env'.name[g] = known'[g] /\ env'.valid[g] /\ g < env'.num
    BY <1>1 DEF HandleInv, TableInv, Without
  <2>2. ASSUME NEW g \in Handles, env'.name[g] # NoName
        PROVE  known'[g] # NoName \/ HasOpened(rd', g) \/ \E i \in Line : HasOpened(wr'[i], g)
    <3>1. g # h /\ IsOpen(g)
      BY <2>2 DEF Without, IsOpen
    <3>2. known[g] # NoName \/ HasOpened(rd, g) \/ \E i \in Line : HasOpened(wr[i], g)
      BY <3>1 DEF HandleInv, TableInv
    <3>3. HasOpened(rd, g) => HasOpened(rd', g)
      BY <3>1 DEF HasOpened, Forgot
    <3>4. \A i \in Line : HasOpened(wr[i], g) => HasOpened(wr'[i], g)
      BY <3>1 DEF HasOpened, Forgot
    <3> QED BY <1>1, <3>1, <3>2, <3>3, <3>4
  <2>3. \A f, g \in Handles : env'.name[g] # NoName /\ env'.name[f] = env'.name[g] => f = g
    BY DEF HandleInv, TableInv, IsOpen, Without
  <2> QED BY <2>1, <2>2, <2>3 DEF TableInv, IsOpen, HasOpened, IsNew
<1>3. rd'.live => KnowsInv(rd)'
  <2>1. rd.own \subseteq Handles
    BY WrType DEF Txns
  <2> QED BY <1>1, <2>1 DEF HandleInv, KnowsInv, Forgot, Without, IsNew
<1>4. ASSUME NEW i \in Line PROVE KnowsInv(wr[i])'
  <2>1. KnowsInv(wr[i]) /\ Forgot(wr[i], wr'[i], h)
    BY DEF HandleInv
  <2>2. wr[i].own \subseteq Handles
    BY WrType DEF Txns
  <2> QED BY <1>1, <2>1, <2>2 DEF KnowsInv, Forgot, Without, IsNew
<1>5. OpenerInv'
  <2>1. ASSUME NEW i \in Line PROVE WithReader(wr[i])'
    <3>1. WithReader(wr[i]) /\ Forgot(wr[i], wr'[i], h)
      BY DEF HandleInv, OpenerInv
    <3> QED BY <3>1 DEF WithReader, Forgot, IsNew
  <2>2. ASSUME NEW i \in Line, NEW j \in Line, i < j PROVE Inside(wr[i], wr[j])'
    <3>1. Inside(wr[i], wr[j]) /\ Forgot(wr[i], wr'[i], h) /\ Forgot(wr[j], wr'[j], h)
      BY <2>2 DEF HandleInv, OpenerInv
    <3> QED BY <3>1 DEF Inside, Forgot, IsNew
  <2>3. \A g \in Handles : rd'.can[g] # NoName => known'[g] # NoName \/ IsNew(rd', g)
    BY <1>1 DEF HandleInv, OpenerInv, Forgot
  <2>4. ASSUME NEW i \in Line, NEW g \in Handles, wr'[i].can[g] # NoName, known'[g] = NoName
        PROVE  \E j \in Line : j <= i /\ IsNew(wr'[j], g)
    <3>1. g # h /\ wr[i].can[g] # NoName /\ known[g] = NoName
      BY <1>1, <2>4 DEF Forgot
    <3> QED BY <3>1 DEF HandleInv, OpenerInv, Forgot
  <2> QED BY <2>1, <2>2, <2>3, <2>4 DEF OpenerInv, IsNew
<1>6. FullInv'
  <2>1. ASSUME rd'.live, ~rd'.barred, NEW g \in Handles, env'.name[g] # NoName
        PROVE  Holds(rd', g)
    BY <2>1 DEF HandleInv, FullInv, Holds, IsOpen, Forgot, Without
  <2>2. ASSUME NEW i \in Line, ~wr'[i].barred, NEW g \in Handles, env'.name[g] # NoName
        PROVE  Holds(wr'[i], g) \/ \E j \in Line : j > i /\ IsNew(wr'[j], g)
    <3>1. g # h /\ IsOpen(g) /\ ~wr[i].barred
      BY <2>2 DEF Without, IsOpen, Forgot
    <3>2. Holds(wr[i], g) \/ \E j \in Line : j > i /\ IsNew(wr[j], g)
      BY <3>1 DEF HandleInv, FullInv
    <3>3. Holds(wr[i], g) => Holds(wr'[i], g)
      BY <3>1 DEF Holds, Forgot
    <3>4. \A j \in Line : IsNew(wr[j], g) => IsNew(wr'[j], g)
      BY <3>1 DEF Forgot
    <3> QED BY <3>2, <3>3, <3>4
  <2> QED BY <2>1, <2>2 DEF FullInv, IsOpen, Holds, IsNew
<1> QED BY <1>2, <1>3, <1>4, <1>5, <1>6 DEF HandleInv

\* A handle that somebody knows is open.
LEMMA KnownIsOpen ==
  ASSUME TypeOK, HandleInv, NEW h \in Handles,
         known[h] # NoName \/ \E t \in Live : t.can[h] # NoName
  PROVE  IsOpen(h)
<1>1. CASE known[h] # NoName
  BY <1>1 DEF HandleInv, TableInv, IsOpen
<1>2. CASE \E t \in Live : t.can[h] # NoName
  <2>1. PICK t \in Live : t.can[h] # NoName
    BY <1>2
  <2>2. t.live /\ (t = rd \/ \E i \in Line : t = wr[i])
    BY LineDomain DEF Live, Range
  <2>3. KnowsInv(t)
    BY <2>2 DEF HandleInv
  <2> QED BY <2>1, <2>3 DEF KnowsInv, IsOpen
<1> QED BY <1>1, <1>2

\* And in the table.
LEMMA ClosedIs ==
  ASSUME TypeOK, NEW h \in Handles PROVE Without(Closed(env, {h}), h)
BY DEF Without, Closed, TypeOK

\* Closing h, by itself or with its database.
CloseIs(h) ==
    /\ IsOpen(h) /\ Open({h}) = {h}
    /\ Without(env', h) /\ known' = [known EXCEPT ![h] = NoName]
    /\ changed' = changed \cup {h}
    /\ rd' = Forgets(rd, h) /\ Forgot(rd, rd', h)
    /\ Line' = Line /\ \A i \in Line : Forgot(wr[i], wr'[i], h)

\* mdb_dbi_close.
LEMMA CloseStep ==
  ASSUME TypeOK, HandleInv, NEW h \in Handles, Close(h)
  PROVE  CloseIs(h) /\ \A i \in Line : wr'[i] = Forgets(wr[i], h)
<1>1. IsOpen(h) /\ Open({h}) = {h}
  BY KnownIsOpen DEF Close, Open, IsOpen
<1>2. Without(env', h)
  BY <1>1, ClosedIs DEF Close
<1>3. rd' = Forgets(rd, h) /\ known' = [known EXCEPT ![h] = NoName]
      /\ changed' = changed \cup {h}
  BY <1>1 DEF Close, Forgotten
<1>4. Forgot(rd, rd', h)
  BY <1>3, ForgetsIs, WrType DEF TypeOK
<1>5. wr' = [i \in Line |-> Forgets(wr[i], h)]
  BY LineDomain DEF Close
<1>6. \A i \in Line : wr'[i] \in Txns
  BY <1>5, WrType, ForgetsType
<1>7. Line' = Line
  BY <1>5, <1>6, MappedLine
<1>8. \A i \in Line : Forgot(wr[i], wr'[i], h)
  BY <1>5, ForgetsIs, WrType
<1> QED BY <1>1, <1>2, <1>3, <1>4, <1>5, <1>7, <1>8 DEF CloseIs

-----------------------------------------------------------------------------
(***************************************************************************)
(* The handles: reads, writes and drops; all steps.                        *)
(***************************************************************************)

\* Reading a record changes nothing of the handles.
LEMMA ResolvedSame ==
  ASSUME NEW t \in Txns, NEW h \in Handles, NEW chg \in BOOLEAN
  PROVE  LET r == Resolved(t, h, chg) IN
         /\ SameHandles(t, r) /\ r.view = t.view /\ r.main = t.main /\ r.err = t.err
         /\ \A g \in Handles : g # h => r.flags[g] = t.flags[g] /\ r.db[g] = t.db[g]
         /\ r.flags[h] \in {t.flags[h], t.flags[h] \ {"STALE"}}
<1> DEFINE r == Resolved(t, h, chg)
<1>1. /\ r.live = t.live /\ r.num = t.num /\ r.own = t.own /\ r.can = t.can
      /\ r.opened = t.opened /\ r.barred = t.barred
      /\ r.view = t.view /\ r.main = t.main /\ r.err = t.err
      /\ \A g \in Handles : g # h => r.flags[g] = t.flags[g] /\ r.db[g] = t.db[g]
      /\ r.flags[h] \in {t.flags[h], t.flags[h] \ {"STALE"}}
  BY DEF Resolved, Txns
<1> HIDE DEF r
<1>2. \A g \in Handles : (IsNew(r, g) <=> IsNew(t, g)) /\ (r.flags[g] # {} => t.flags[g] # {})
  BY <1>1 DEF IsNew
<1> QED BY <1>1, <1>2 DEF SameHandles, r

\* Nor does changing a database.
LEMMA ChangesSame ==
  ASSUME NEW t \in Txns, NEW h \in Handles, t.can[h] # NoName, t.flags[h] # {},
         NEW D \in SUBSET (Names \X Keys), NEW V \in SUBSET (Names \X Keys)
  PROVE  LET u == Changes(t, h, D, V) IN
         /\ SameHandles(t, u) /\ u.main = t.main
         /\ \A n \in Names : u.view[n] = IF n = t.can[h] THEN Db(V) ELSE t.view[n]
         /\ \A g \in Handles : g # h => u.flags[g] = t.flags[g] /\ u.db[g] = t.db[g]
         /\ u.flags[h] = t.flags[h] \cup {"DIRTY"} /\ u.db[h] = Db(D)
<1> DEFINE u == Changes(t, h, D, V)
<1>1. /\ u.live = t.live /\ u.num = t.num /\ u.own = t.own /\ u.can = t.can
      /\ u.opened = t.opened /\ u.barred = t.barred /\ u.main = t.main
      /\ \A g \in Handles : g # h => u.flags[g] = t.flags[g] /\ u.db[g] = t.db[g]
      /\ u.flags[h] = t.flags[h] \cup {"DIRTY"} /\ u.db[h] = Db(D)
  BY DEF Changes, Txns
<1>2. \A n \in Names : u.view[n] = IF n = t.can[h] THEN Db(V) ELSE t.view[n]
  BY DEF Changes, Txns
<1> HIDE DEF u
<1>3. \A g \in Handles : (IsNew(u, g) <=> IsNew(t, g)) /\ (u.flags[g] # {} => t.flags[g] # {})
  BY <1>1 DEF IsNew
<1> QED BY <1>1, <1>2, <1>3 DEF SameHandles, u

LEMMA SameTrans ==
  ASSUME NEW t \in Txns, NEW u \in Txns, NEW v \in Txns, SameHandles(t, u), SameHandles(u, v)
  PROVE  SameHandles(t, v)
BY DEF SameHandles

LEMMA SameSelf == \A t \in Txns : SameHandles(t, t)
BY DEF SameHandles

\* The deepest write transaction becomes x, and knows and opened what it did.
LEMMA HandleWriterStep ==
  ASSUME TypeOK, HandleInv, wr # <<>>, NEW x \in Txns, wr' = Append(Front(wr), x),
         SameHandles(w, x), UNCHANGED <<env, known, rd>>
  PROVE  HandleInv'
<1>1. Line' = Line /\ \A i \in Line : wr'[i] = IF i = Len(wr) THEN x ELSE wr[i]
  BY ReplacedLine
<1>2. \A i \in Line : SameHandles(wr[i], wr'[i])
  <2>1. \A i \in Line : SameHandles(wr[i], wr[i])
    BY WrType, SameSelf
  <2> QED BY <1>1, <2>1, WriterType
<1>3. SameHandles(rd, rd')
  BY WrType, SameSelf
<1> QED BY <1>1, <1>2, <1>3, HandleFrame

\* What a writer becomes that reads the record under h.
LEMMA ReadsAs ==
  ASSUME TypeOK, NEW h \in Handles, WriterReads(h)
  PROVE  \E x \in Txns :
           LET r == Resolved(w, h, Changed(h)) IN
           /\ wr' = Append(Front(wr), x) /\ SameHandles(w, x)
           /\ x.main = r.main /\ x.view = r.view /\ x.db = r.db /\ x.flags = r.flags
<1> DEFINE r == Resolved(w, h, Changed(h))
<1>1. w \in Txns /\ Changed(h) \in BOOLEAN
  BY WriterType DEF WriterReads, Changed
<1>2. r \in Txns /\ SameHandles(w, r)
  BY <1>1, ResolvedSame, ResolvedType
<1>3. PICK x \in {r, [r EXCEPT !.err = TRUE]} : wr' = Append(Front(wr), x)
  BY DEF WriterReads
<1> HIDE DEF r
<1>4. /\ x \in Txns /\ SameHandles(r, x)
      /\ x.main = r.main /\ x.view = r.view /\ x.db = r.db /\ x.flags = r.flags
  BY <1>2, <1>3 DEF Txns, SameHandles, IsNew
<1>5. SameHandles(w, x)
  BY <1>1, <1>2, <1>4, SameTrans
<1> QED BY <1>3, <1>4, <1>5 DEF r

\* So the operations keep the invariant.
LEMMA HandleReads ==
  ASSUME TypeOK, HandleInv, NEW h \in Handles, WriterReads(h) PROVE HandleInv'
<1>1. PICK x \in Txns : wr' = Append(Front(wr), x) /\ SameHandles(w, x)
  BY ReadsAs
<1> QED BY <1>1, HandleWriterStep DEF WriterReads

LEMMA HandleChanges ==
  ASSUME TypeOK, HandleInv, NEW h \in Handles, WriterChanges(h) PROVE HandleInv'
<1> DEFINE r == Resolved(w, h, Changed(h))
<1>1. wr # <<>> /\ w \in Txns /\ Changed(h) \in BOOLEAN /\ w.can[h] # NoName
      /\ "VALID" \in w.flags[h]
  BY WriterType DEF WriterChanges, Changed, TXN_DBI_EXIST
<1>2. r \in Txns /\ SameHandles(w, r) /\ r.flags[h] \in {w.flags[h], w.flags[h] \ {"STALE"}}
  BY <1>1, ResolvedSame, ResolvedType
<1> HIDE DEF r
<1>3. r.can[h] # NoName /\ r.flags[h] # {}
  BY <1>1, <1>2 DEF SameHandles
<1>4. PICK D, V \in SUBSET (Names \X Keys) : wr' = Append(Front(wr), Changes(r, h, D, V))
  BY DEF WriterChanges, r
<1>5. Changes(r, h, D, V) \in Txns
  BY <1>2, <1>3, ChangesType
<1>6. SameHandles(r, Changes(r, h, D, V))
  BY <1>2, <1>3, ChangesSame
<1>7. SameHandles(w, Changes(r, h, D, V))
  BY <1>1, <1>2, <1>5, <1>6, SameTrans
<1> QED BY <1>1, <1>4, <1>5, <1>7, HandleWriterStep DEF WriterChanges

LEMMA HandleGetRead ==
  ASSUME TypeOK, HandleInv, NEW h \in Handles, GetRead(h) PROVE HandleInv'
<1>1. SameHandles(rd, rd')
  BY WrType, ResolvedSame DEF GetRead
<1>2. \A i \in Line : SameHandles(wr[i], wr'[i])
  BY WrType, SameSelf DEF GetRead
<1>3. Line' = Line
  BY DEF GetRead, Line
<1> QED BY <1>1, <1>2, <1>3, HandleFrame DEF GetRead

LEMMA HandleOther ==
  ASSUME TypeOK, HandleInv, OtherProcess PROVE HandleInv'
<1>1. SameHandles(rd, rd') /\ Line' = Line
  BY WrType, SameSelf DEF OtherProcess, Line
<1>2. \A i \in Line : SameHandles(wr[i], wr'[i])
  BY WrType, SameSelf DEF OtherProcess
<1> QED BY <1>1, <1>2, HandleFrame DEF OtherProcess

LEMMA HandleClose ==
  ASSUME TypeOK, HandleInv, NEW h \in Handles, Close(h) PROVE HandleInv'
BY CloseStep, HandleForgets DEF CloseIs

\* What is left of a writer that deletes the database under h.
LEMMA DropsAs ==
  ASSUME TypeOK, HandleInv, NEW h \in Handles, WriterDrops(h)
  PROVE  LET r == Resolved(w, h, Changed(h))
             n == w.can[h]
             x == wr'[Len(wr)] IN
         /\ CloseIs(h) /\ n \in Names /\ env.name[h] = n
         /\ \A i \in Line : i # Len(wr) => wr'[i] = Forgets(wr[i], h)
         /\ \A k \in Names : x.main[k] = IF k = n THEN Absent ELSE r.main[k]
         /\ \A k \in Names : x.view[k] = IF k = n THEN Absent ELSE r.view[k]
         /\ x.db = r.db
         /\ \A g \in Handles : x.flags[g] = IF g = h THEN {"STALE"} ELSE r.flags[g]
<1> DEFINE r == Resolved(w, h, Changed(h))
           n == env.name[h]
           f == Forgets(r, h)
           x == [f EXCEPT !.main[n] = Absent, !.view[w.can[h]] = Absent, !.flags[h] = {"STALE"}]
<1>1. /\ wr # <<>> /\ w \in Txns /\ w.live /\ Changed(h) \in BOOLEAN /\ w.can[h] # NoName
      /\ KnowsInv(w) /\ Len(wr) \in Line /\ w = wr[Len(wr)] /\ Len(wr) \in Nat
      /\ "VALID" \in w.flags[h]
  BY WriterType DEF WriterDrops, MayModify, Changed, HandleInv, TXN_DBI_EXIST
<1>2. /\ r \in Txns /\ SameHandles(w, r) /\ r.flags[h] \in {w.flags[h], w.flags[h] \ {"STALE"}}
  BY <1>1, ResolvedSame, ResolvedType
<1>3. IsOpen(h) /\ n = w.can[h] /\ n \in Names /\ Open({h}) = {h}
  BY <1>1 DEF KnowsInv, IsOpen, Open, TypeOK
<1> HIDE DEF r
<1>4. f \in Txns /\ f.live /\ f.main = r.main /\ f.view = r.view /\ f.db = r.db
      /\ f.flags = r.flags
  <2>1. r.live
    BY <1>1, <1>2 DEF SameHandles
  <2>2. f \in Txns /\ f.live
    BY <1>2, <2>1, ForgetsLive
  <2> QED BY <1>2, <2>1, <2>2 DEF Forgets, Txns
<1>5. Forgot(r, f, h)
  BY <1>1, <1>2, ForgetsIs DEF SameHandles
<1> HIDE DEF f
<1>6. /\ \A k \in Names : x.main[k] = IF k = n THEN Absent ELSE f.main[k]
      /\ \A k \in Names : x.view[k] = IF k = n THEN Absent ELSE f.view[k]
      /\ x.db = f.db
      /\ \A g \in Handles : x.flags[g] = IF g = h THEN {"STALE"} ELSE f.flags[g]
      /\ x.live = f.live /\ x.num = f.num /\ x.opened = f.opened /\ x.barred = f.barred
      /\ x.own = f.own /\ x.can = f.can
  BY <1>3, <1>4 DEF Txns
<1>7. x \in Txns
  BY <1>3, <1>4 DEF Txns, Flags, Absent, Record, Contents
<1>8. wr' = [i \in Line |-> IF i < Len(wr) THEN Forgets(wr[i], h) ELSE x]
  BY LineDomain DEF WriterDrops, r, f
<1> HIDE DEF x
<1>9. Forgot(w, x, h)
  <2>1. /\ x.live = w.live /\ x.num = w.num /\ x.opened = w.opened /\ x.barred = w.barred
        /\ x.own = w.own \ {h}
        /\ \A g \in Handles : x.can[g] = IF g = h THEN NoName ELSE w.can[g]
    BY <1>2, <1>5, <1>6 DEF SameHandles, Forgot
  <2>2. /\ \A g \in Handles : g # h => (IsNew(x, g) <=> IsNew(w, g))
        /\ ~IsNew(x, h)
    BY <1>2, <1>4, <1>6 DEF SameHandles, IsNew
  <2>3. \A g \in Handles : x.flags[g] # {} => w.flags[g] # {}
    BY <1>1, <1>2, <1>4, <1>6 DEF SameHandles
  <2> QED BY <2>1, <2>2, <2>3 DEF Forgot
<1>10. \A i \in Line : wr'[i] \in Txns
  BY <1>7, <1>8, WrType, ForgetsType
<1>11. Line' = Line
  BY <1>8, <1>10, MappedLine
<1>12. /\ wr'[Len(wr)] = x
       /\ \A i \in Line : i # Len(wr) => wr'[i] = Forgets(wr[i], h)
  <2>1. \A i \in Line : i # Len(wr) => i < Len(wr)
    BY <1>1 DEF Line
  <2>2. ~(Len(wr) < Len(wr))
    BY <1>1
  <2> QED BY <1>1, <1>8, <2>1, <2>2
<1>13. \A i \in Line : Forgot(wr[i], wr'[i], h)
  <2>1. \A i \in Line : Forgot(wr[i], Forgets(wr[i], h), h)
    BY ForgetsIs, WrType
  <2> QED BY <1>1, <1>9, <1>12, <2>1
<1>14. Without(env', h)
  BY ClosedIs DEF WriterDrops
<1>15. rd' = Forgets(rd, h) /\ known' = [known EXCEPT ![h] = NoName]
       /\ changed' = changed \cup {h} /\ Forgot(rd, rd', h)
  BY ForgetsIs, WrType DEF WriterDrops, Forgotten, TypeOK
<1>16. CloseIs(h)
  BY <1>3, <1>11, <1>13, <1>14, <1>15 DEF CloseIs
<1> QED BY <1>3, <1>4, <1>6, <1>12, <1>16 DEF r

LEMMA HandleDrops ==
  ASSUME TypeOK, HandleInv, NEW h \in Handles, WriterDrops(h) PROVE HandleInv'
BY DropsAs, HandleForgets DEF CloseIs

\* Every step keeps the invariant of the handles.
LEMMA HandleNext ==
  ASSUME TypeOK, TypeOK', HandleInv, [Next]_vars PROVE HandleInv'
<1>1. CASE UNCHANGED vars
  <2>1. SameHandles(rd, rd') /\ Line' = Line
    BY <1>1, WrType, SameSelf DEF vars, Line
  <2>2. \A i \in Line : SameHandles(wr[i], wr'[i])
    BY <1>1, WrType, SameSelf DEF vars
  <2> QED BY <1>1, <2>1, <2>2, HandleFrame DEF vars
<1>2. CASE Next
  <2>1. CASE BeginRead
    BY <2>1, HandleBeginRead
  <2>2. CASE BeginWrite
    BY <2>2, HandleBeginWrite
  <2>3. CASE BeginChild
    BY <2>3, HandleBeginChild
  <2>4. CASE EndRead
    <3>1. CASE env' = Kept(rd) /\ known' = Published(rd)
               /\ wr' = [i \in DOMAIN wr |-> Sees(wr[i], known')]
      BY <2>4, <3>1, HandlePublishes DEF EndRead, Publishes
    <3>2. CASE env' = Discarded(rd) /\ UNCHANGED <<known, wr>>
      BY <2>4, <3>2, HandleReaderEnds DEF EndRead
    <3> QED BY <2>4, <3>1, <3>2 DEF EndRead
  <2>5. CASE wr # <<>> /\ AbortOne
    BY <2>5, HandleAbort
  <2>6. CASE CommitChild
    BY <2>6, HandleCommitChild
  <2>7. CASE CommitFailed
    BY <2>7, HandleCommitFailed
  <2>8. CASE wr # <<>> /\ Committed
    BY <2>8, HandleCommitted
  <2>9. CASE OtherProcess
    BY <2>9, HandleOther
  <2>10. CASE \E n \in Names : OpenRead(n) \/ \E create \in BOOLEAN : OpenWrite(n, create)
    BY <2>10, HandleOpenRead, HandleOpenWrite
  <2>11. CASE \E h \in Handles : \/ Close(h) \/ GetRead(h)
                                 \/ WriterReads(h) \/ WriterChanges(h) \/ WriterDrops(h)
    BY <2>11, HandleClose, HandleGetRead, HandleReads, HandleChanges, HandleDrops
  <2> QED BY <1>2, <2>1, <2>2, <2>3, <2>4, <2>5, <2>6, <2>7, <2>8, <2>9, <2>10, <2>11, StepCases
<1> QED BY <1>1, <1>2

-----------------------------------------------------------------------------
(***************************************************************************)
(* The contents: reading and changing a database.                          *)
(***************************************************************************)

\* At first nothing is loaded.
LEMMA ContentInit == Init => ContentInv
<1> SUFFICES ASSUME Init PROVE ContentInv
  OBVIOUS
<1>1. Line = {} /\ rd = NewTxn /\ file = store
  BY DEF Init, Line
<1>2. ReaderInv
  BY <1>1 DEF NewTxn, ReaderInv, IsDirty
<1> QED BY <1>1, <1>2 DEF ContentInv, LoadedInv

\* What a reader's part of the invariant reads.
SameReader(t, u) ==
    /\ u.main = t.main /\ u.view = t.view /\ u.db = t.db /\ u.flags = t.flags /\ u.num = t.num
    /\ u.own \subseteq t.own
    /\ \A h \in u.own : u.can[h] = t.can[h]

\* A step that changes nothing of what a reader has.
LEMMA ReaderFrame ==
  ASSUME ReaderInv, SameReader(rd, rd') PROVE ReaderInv'
BY DEF ReaderInv, SameReader, IsDirty, Loaded, Stale, TXN_DBI_EXIST

\* u writes what t wrote, and has changed no more than c, t no more than d.
SameWriter(t, u, c, d) ==
    /\ u.main = t.main /\ u.view = t.view /\ u.db = t.db
    /\ \A h \in Handles : /\ IsDirty(u, h) <=> IsDirty(t, h)
                          /\ Stale(u, h) <=> Stale(t, h)
                          /\ IsDirty(t, h) => u.can[h] = t.can[h]
    /\ u.own \cap d = {}
    /\ \A h \in Handles : IsDirty(t, h) /\ h \notin d => h \notin c
    /\ \A h \in Handles : Loaded(u, h) /\ h \notin d /\ u.can[h] # NoName =>
          Loaded(t, h) /\ h \notin c /\ u.can[h] = t.can[h]

\* A step that changes nothing of what a writer wrote.
LEMMA WriterFrame ==
  ASSUME NEW t \in Txns, NEW u \in Txns, NEW c \in SUBSET Handles, NEW d \in SUBSET Handles,
         WriterInv(t, c), SameWriter(t, u, c, d)
  PROVE  WriterInv(u, d)
<1>1. \A h \in Handles : IsDirty(u, h) => u.can[h] # NoName
  BY DEF WriterInv, SameWriter
<1>2. ASSUME NEW n \in Names, \A h \in Handles : IsDirty(u, h) => u.can[h] # n
      PROVE  u.main[n] = u.view[n]
  BY <1>2 DEF WriterInv, SameWriter
<1>3. \A h \in Handles : IsDirty(u, h) /\ h \notin d =>
          /\ u.db[h] = u.view[u.can[h]]
          /\ Stale(u, h) => u.main[u.can[h]] = Absent
  BY DEF WriterInv, SameWriter
<1>4. \A h \in Handles : Loaded(u, h) /\ h \notin d /\ u.can[h] # NoName =>
          u.db[h] = u.view[u.can[h]]
  BY DEF WriterInv, SameWriter
<1> QED BY <1>1, <1>2, <1>3, <1>4 DEF WriterInv, SameWriter

\* What reading a record does.
LEMMA ResolvedCases ==
  ASSUME NEW t \in Txns, NEW h \in Handles, NEW c \in SUBSET Handles,
         env.name[h] = t.can[h], t.can[h] # NoName
  PROVE  LET r == Resolved(t, h, h \in c) IN
         \/ r = t /\ (Stale(t, h) /\ h \notin c => t.main[t.can[h]] = Absent)
         \/ /\ Stale(t, h) /\ h \notin c /\ t.main[t.can[h]] # Absent
            /\ r.main = t.main /\ r.view = t.view /\ r.own = t.own /\ r.can = t.can
            /\ r.num = t.num /\ r.db[h] = t.main[t.can[h]]
            /\ \A g \in Handles : g # h => r.flags[g] = t.flags[g] /\ r.db[g] = t.db[g]
            /\ r.flags[h] = t.flags[h] \ {"STALE"}
<1> DEFINE P == /\ "STALE" \in t.flags[h] /\ h \notin c
                /\ t.can[h] # NoName /\ t.main[t.can[h]] # Absent
           u == [t EXCEPT !.db[h] = t.main[t.can[h]], !.flags[h] = @ \ {"STALE"}]
           r == Resolved(t, h, h \in c)
<1>1. r = IF P THEN u ELSE t
  BY Zenon DEF Resolved
<1>2. /\ u.main = t.main /\ u.view = t.view /\ u.own = t.own /\ u.can = t.can
      /\ u.num = t.num /\ u.db[h] = t.main[t.can[h]]
      /\ \A g \in Handles : g # h => u.flags[g] = t.flags[g] /\ u.db[g] = t.db[g]
      /\ u.flags[h] = t.flags[h] \ {"STALE"}
  BY DEF Txns
<1> HIDE DEF u, r
<1>3. CASE P
  BY <1>1, <1>2, <1>3 DEF Stale, r
<1>4. CASE ~P
  BY <1>1, <1>4 DEF Stale, r
<1> QED BY <1>3, <1>4

\* Reading a record leaves its transaction right.
LEMMA ResolvedWriter ==
  ASSUME TypeOK, TableInv, NEW t \in Txns, NEW h \in Handles, NEW c \in SUBSET Handles,
         KnowsInv(t), WriterInv(t, c), t.can[h] # NoName
  PROVE  WriterInv(Resolved(t, h, h \in c), c)
<1> DEFINE r == Resolved(t, h, h \in c)
           n == t.can[h]
<1>1. env.name[h] = n /\ n # NoName /\ n \in Names
  BY DEF KnowsInv, Txns
<1>2. CASE r = t
  BY <1>2
<1>3. CASE r # t
  <2>1. /\ Stale(t, h) /\ h \notin c /\ t.main[n] # Absent
        /\ r.main = t.main /\ r.view = t.view /\ r.own = t.own /\ r.can = t.can
        /\ r.num = t.num /\ r.db[h] = t.main[n]
        /\ \A g \in Handles : g # h => r.flags[g] = t.flags[g] /\ r.db[g] = t.db[g]
        /\ r.flags[h] = t.flags[h] \ {"STALE"}
    BY <1>1, <1>3, ResolvedCases
  <2> HIDE DEF r
  <2>3. ~IsDirty(t, h)
    BY <2>1 DEF WriterInv
  <2>4. \A g \in Handles : IsDirty(r, g) <=> IsDirty(t, g)
    BY <2>1 DEF IsDirty
  <2>5. \A g \in Handles : g # h => (Stale(r, g) <=> Stale(t, g)) /\ (Loaded(r, g) <=> Loaded(t, g))
    BY <2>1 DEF Stale, Loaded, TXN_DBI_EXIST
  <2>6. \A g \in Handles : IsDirty(t, g) => t.can[g] # n
    BY <1>1, <2>3 DEF TableInv, KnowsInv, IsOpen
  <2>7. t.main[n] = t.view[n]
    BY <1>1, <2>6 DEF WriterInv
  <2>8. \A g \in Handles : IsDirty(r, g) /\ g \notin c =>
          /\ r.db[g] = r.view[r.can[g]]
          /\ Stale(r, g) => r.main[r.can[g]] = Absent
    BY <2>1, <2>3, <2>4, <2>5 DEF WriterInv
  <2>9. ASSUME NEW g \in Handles, Loaded(r, g), g \notin c, r.can[g] # NoName
        PROVE  r.db[g] = r.view[r.can[g]]
    <3>1. CASE g = h
      BY <2>1, <2>7, <3>1
    <3>2. CASE g # h
      BY <2>1, <2>5, <2>9, <3>2 DEF WriterInv
    <3> QED BY <3>1, <3>2
  <2> QED BY <2>1, <2>4, <2>8, <2>9 DEF WriterInv, r
<1> QED BY <1>2, <1>3

\* And a record that is still stale is not there.
LEMMA StaleAbsent ==
  ASSUME TypeOK, NEW t \in Txns, NEW h \in Handles, NEW c \in SUBSET Handles,
         KnowsInv(t), t.can[h] # NoName, h \notin c, Stale(Resolved(t, h, h \in c), h)
  PROVE  Resolved(t, h, h \in c) = t /\ t.main[t.can[h]] = Absent
<1>1. env.name[h] = t.can[h]
  BY DEF KnowsInv
<1>2. CASE Resolved(t, h, h \in c).flags[h] = t.flags[h] \ {"STALE"}
  BY <1>2 DEF Stale
<1>3. CASE /\ Resolved(t, h, h \in c) = t
           /\ Stale(t, h) /\ h \notin c => t.main[t.can[h]] = Absent
  <2>1. Stale(t, h)
    BY <1>3
  <2> QED BY <1>3, <2>1
<1> QED BY <1>1, <1>2, <1>3, ResolvedCases

\* So does changing the database.
LEMMA ChangesWriter ==
  ASSUME TypeOK, TableInv, NEW t \in Txns, NEW h \in Handles, NEW c \in SUBSET Handles,
         KnowsInv(t), WriterInv(t, c), t.can[h] # NoName, TXN_DBI_EXIST(t, h),
         NEW D \in SUBSET (Names \X Keys), NEW V \in SUBSET (Names \X Keys),
         h \notin c => Fits(Resolved(t, h, h \in c), h, D, V)
  PROVE  WriterInv(Changes(Resolved(t, h, h \in c), h, D, V), c)
<1> DEFINE r == Resolved(t, h, h \in c)
           u == Changes(r, h, D, V)
           n == t.can[h]
<1>1. /\ r \in Txns /\ SameHandles(t, r) /\ r.view = t.view /\ r.main = t.main
      /\ r.flags[h] \in {t.flags[h], t.flags[h] \ {"STALE"}}
  <2>1. (h \in c) \in BOOLEAN
    OBVIOUS
  <2> QED BY <2>1, ResolvedSame, ResolvedType
<1>2. WriterInv(r, c)
  BY ResolvedWriter
<1>3. h \notin c /\ Stale(r, h) => r = t /\ r.main[n] = Absent
  BY StaleAbsent, <1>1
<1>4. r.can = t.can /\ r.num = t.num /\ r.own = t.own /\ n \in Names /\ env.name[h] = n
  BY <1>1 DEF SameHandles, KnowsInv, Txns
<1>5. "VALID" \in r.flags[h] /\ h < r.num
  BY <1>1, <1>4 DEF TXN_DBI_EXIST
<1>6. h \notin c => Fits(r, h, D, V)
  OBVIOUS
<1> HIDE DEF r
<1>7. /\ u.main = r.main /\ u.can = r.can /\ u.own = r.own /\ u.num = r.num
      /\ \A k \in Names : u.view[k] = IF k = n THEN Db(V) ELSE r.view[k]
      /\ \A g \in Handles : g # h => u.flags[g] = r.flags[g] /\ u.db[g] = r.db[g]
      /\ u.flags[h] = r.flags[h] \cup {"DIRTY"} /\ u.db[h] = Db(D)
  <2>1. r.can[h] # NoName /\ r.flags[h] # {}
    BY <1>4, <1>5
  <2>2. /\ SameHandles(r, u) /\ u.main = r.main
        /\ \A k \in Names : u.view[k] = IF k = r.can[h] THEN Db(V) ELSE r.view[k]
        /\ \A g \in Handles : g # h => u.flags[g] = r.flags[g] /\ u.db[g] = r.db[g]
        /\ u.flags[h] = r.flags[h] \cup {"DIRTY"} /\ u.db[h] = Db(D)
    BY <1>1, <2>1, ChangesSame
  <2> HIDE DEF u
  <2> QED BY <1>4, <2>2 DEF SameHandles
<1> HIDE DEF u
<1>8. \A g \in Handles : g # h /\ r.can[g] # NoName => r.can[g] # n /\ r.can[g] \in Names
  BY <1>1, <1>4 DEF TableInv, KnowsInv, IsOpen, Txns
<1>9. ASSUME h \notin c PROVE D = V
  <2>1. CASE ~Stale(r, h)
    <3>1. Loaded(r, h)
      BY <1>5, <2>1 DEF Loaded, TXN_DBI_EXIST
    <3>2. r.db[h] = r.view[n]
      BY <1>2, <1>4, <1>9, <3>1 DEF WriterInv
    <3> QED BY <1>4, <1>6, <1>9, <3>2 DEF Fits
  <2>2. CASE Stale(r, h)
    <3>1. r.main[n] = Absent
      BY <1>3, <1>9, <2>2
    <3>2. CASE IsDirty(r, h)
      <4>1. r.db[h] = r.view[n]
        BY <1>2, <1>4, <1>9, <3>2 DEF WriterInv
      <4> QED BY <1>4, <1>6, <1>9, <4>1 DEF Fits
    <3>3. CASE ~IsDirty(r, h)
      <4>1. \A g \in Handles : IsDirty(r, g) => r.can[g] # n
        BY <1>2, <1>8, <3>3 DEF WriterInv
      <4>2. r.view[n] = Absent
        BY <1>2, <1>4, <3>1, <4>1 DEF WriterInv
      <4>3. r.view[n].keys = {} /\ Db({}).keys = {}
        BY <4>2 DEF Absent, Db, Record
      <4> QED BY <1>4, <1>6, <1>9, <2>2, <4>3 DEF Fits
    <3> QED BY <3>2, <3>3
  <2> QED BY <2>1, <2>2
<1>10. \A g \in Handles : /\ IsDirty(u, g) <=> g = h \/ IsDirty(r, g)
                          /\ Stale(u, g) <=> Stale(r, g)
                          /\ g # h => (Loaded(u, g) <=> Loaded(r, g))
  BY <1>7 DEF IsDirty, Stale, Loaded, TXN_DBI_EXIST
<1>11. \A g \in Handles : IsDirty(u, g) => u.can[g] # NoName
  BY <1>2, <1>4, <1>7, <1>10 DEF WriterInv
<1>12. ASSUME NEW k \in Names, \A g \in Handles : IsDirty(u, g) => u.can[g] # k
       PROVE  u.main[k] = u.view[k]
  <2>1. k # n
    BY <1>4, <1>7, <1>10, <1>12
  <2> QED BY <1>2, <1>7, <1>10, <1>12, <2>1 DEF WriterInv
<1>13. ASSUME NEW g \in Handles, IsDirty(u, g), g \notin c
       PROVE  u.db[g] = u.view[u.can[g]] /\ (Stale(u, g) => u.main[u.can[g]] = Absent)
  <2>1. CASE g = h
    BY <1>3, <1>4, <1>7, <1>9, <1>10, <1>13, <2>1
  <2>2. CASE g # h
    <3>1. IsDirty(r, g) /\ r.can[g] # NoName
      BY <1>2, <1>10, <1>13, <2>2 DEF WriterInv
    <3>2. r.can[g] # n /\ r.can[g] \in Names
      BY <1>8, <2>2, <3>1
    <3> QED BY <1>2, <1>7, <1>10, <1>13, <2>2, <3>1, <3>2 DEF WriterInv
  <2> QED BY <2>1, <2>2
<1>14. ASSUME NEW g \in Handles, Loaded(u, g), g \notin c, u.can[g] # NoName
       PROVE  u.db[g] = u.view[u.can[g]]
  <2>1. CASE g = h
    BY <1>4, <1>7, <1>9, <1>14, <2>1
  <2>2. CASE g # h
    <3>1. Loaded(r, g) /\ r.can[g] # NoName
      BY <1>7, <1>10, <1>14, <2>2
    <3>2. r.can[g] # n /\ r.can[g] \in Names
      BY <1>8, <2>2, <3>1
    <3> QED BY <1>2, <1>7, <1>14, <2>2, <3>1, <3>2 DEF WriterInv
  <2> QED BY <2>1, <2>2
<1>15. u.own \cap c = {}
  BY <1>2, <1>7 DEF WriterInv
<1>16. WriterInv(u, c)
  BY <1>11, <1>12, <1>13, <1>14, <1>15 DEF WriterInv
<1> QED BY <1>16 DEF u, r

-----------------------------------------------------------------------------
(***************************************************************************)
(* The contents: beginning.                                                *)
(***************************************************************************)

\* Two readers' parts, and all writers, when nothing of them is written.
LEMMA SameReaderSelf == SameReader(rd, rd)
BY DEF SameReader

LEMMA NewReader == ASSUME rd' = NewTxn PROVE ReaderInv'
BY DEF ReaderInv, NewTxn, IsDirty

\* Without the flag DIRTY and with every record as in the view.
LEMMA ContentBeginRead ==
  ASSUME TypeOK, TypeOK', HandleInv, ContentInv, BeginRead PROVE ContentInv'
<1>1. /\ rd'.main = file /\ rd'.view = store
      /\ \A h \in Handles : rd'.flags[h] \in {{}, {"VALID", "STALE"}}
  BY DEF BeginRead, Renewed, NewTxn, BeginFlags
<1>2. \A h \in Handles : ~IsDirty(rd', h) /\ ~Loaded(rd', h)
  BY <1>1 DEF IsDirty, Loaded, Stale, TXN_DBI_EXIST
<1>3. rd'.own \subseteq Handles
  BY DEF TypeOK, Txns
<1>4. ReaderInv'
  BY <1>1, <1>2, <1>3 DEF ReaderInv, ContentInv, IsDirty, Loaded, Stale, TXN_DBI_EXIST
<1>5. UNCHANGED <<file, store, wr, changed, Line>>
  BY DEF BeginRead, Line
<1> QED BY <1>4, <1>5 DEF ContentInv, LoadedInv

\* A writer begins with what the file has, which is what callers see.
LEMMA ContentBeginWrite ==
  ASSUME TypeOK, TypeOK', HandleInv, ContentInv, BeginWrite PROVE ContentInv'
<1> DEFINE u == Renewed(db0)
<1>1. /\ u.main = file /\ u.view = store
      /\ \A h \in Handles : u.flags[h] \in {{}, {"VALID", "STALE"}}
  BY DEF Renewed, NewTxn, BeginFlags
<1>2. \A h \in Handles : ~IsDirty(u, h) /\ ~Loaded(u, h)
  BY <1>1 DEF IsDirty, Loaded, Stale, TXN_DBI_EXIST
<1>3. Line' = {1} /\ wr'[1] = u /\ changed' = {} /\ UNCHANGED <<file, store, rd>>
  BY DEF BeginWrite, Line
<1> HIDE DEF u
<1>4. file = store
  BY DEF ContentInv
<1>5. WriterInv(u, {})
  BY <1>1, <1>2, <1>4 DEF WriterInv
<1>6. LoadedInv'
  BY <1>2, <1>3 DEF LoadedInv
<1>7. ReaderInv'
  BY <1>3 DEF ReaderInv, ContentInv, IsDirty, Loaded, Stale, TXN_DBI_EXIST
<1>8. \A i \in Line' : WriterInv(wr'[i], changed')
  BY <1>3, <1>5
<1> QED BY <1>3, <1>4, <1>6, <1>7, <1>8 DEF ContentInv

\* What the invariant reads of a writer: that nothing of it was written.
SameContents(t, u) ==
    /\ u.main = t.main /\ u.view = t.view /\ u.db = t.db /\ u.num = t.num
    /\ u.own = t.own /\ u.can = t.can
    /\ \A h \in Handles : /\ IsDirty(u, h) <=> IsDirty(t, h)
                          /\ Stale(u, h) <=> Stale(t, h)
                          /\ Loaded(u, h) <=> Loaded(t, h)

\* The invariant of a writer of which nothing was written.
LEMMA SameContentsWriter ==
  ASSUME NEW t \in Txns, NEW u \in Txns, NEW c \in SUBSET Handles,
         WriterInv(t, c), SameContents(t, u)
  PROVE  WriterInv(u, c)
BY DEF WriterInv, SameContents

\* A child begins with its parent's contents.
LEMMA ContentBeginChild ==
  ASSUME TypeOK, TypeOK', HandleInv, ContentInv, BeginChild PROVE ContentInv'
<1> DEFINE u == [w EXCEPT !.flags = [h \in Handles |-> @[h] \ {"NEW"}]]
<1>1. wr # <<>> /\ w \in Txns /\ Len(wr) \in Line /\ Len(wr) \in Nat /\ w = wr[Len(wr)]
  BY WriterType DEF BeginChild
<1>2. /\ Len(wr') = Len(wr) + 1 /\ Line' = 1..(Len(wr) + 1)
      /\ \A i \in Line : wr'[i] = wr[i]
      /\ wr'[Len(wr) + 1] = u
  BY <1>1, WrType DEF BeginChild, Line
<1>3. /\ u.main = w.main /\ u.view = w.view /\ u.db = w.db /\ u.num = w.num
      /\ u.own = w.own /\ u.can = w.can
      /\ \A h \in Handles : u.flags[h] = w.flags[h] \ {"NEW"}
  BY <1>1 DEF Txns
<1> HIDE DEF u
<1>4. SameContents(w, u)
  BY <1>3 DEF SameContents, IsDirty, Stale, Loaded, TXN_DBI_EXIST
<1>5. Len(wr) + 1 \in Line' /\ u \in Txns
  BY <1>1, <1>2 DEF TypeOK
<1>6. changed \in SUBSET Handles
  BY DEF TypeOK
<1>7. WriterInv(u, changed)
  BY <1>1, <1>4, <1>5, <1>6, SameContentsWriter DEF ContentInv
<1>8. UNCHANGED <<file, store, changed, rd>>
  BY DEF BeginChild
<1>9. \A i \in Line' : WriterInv(wr'[i], changed')
  BY <1>1, <1>2, <1>7, <1>8 DEF ContentInv, Line
<1>10. LoadedInv'
  <2> SUFFICES ASSUME NEW i \in Line', NEW h \in Handles, Loaded(wr'[i], h), h \notin changed
               PROVE  wr'[i].can[h] # NoName \/ \E j \in Line' : j > i /\ HasOpened(wr'[j], h)
    BY <1>8 DEF LoadedInv
  <2>1. CASE i \in Line
    <3>1. wr[i].can[h] # NoName \/ \E j \in Line : j > i /\ HasOpened(wr[j], h)
      BY <1>2, <2>1 DEF ContentInv, LoadedInv
    <3>2. Line \subseteq Line'
      BY <1>1, <1>2 DEF Line
    <3> QED BY <1>2, <2>1, <3>1, <3>2
  <2>2. CASE i = Len(wr) + 1
    <3>1. Loaded(w, h)
      BY <1>2, <1>4, <2>2 DEF SameContents
    <3>2. w.can[h] # NoName
      BY <1>1, <3>1 DEF ContentInv, LoadedInv, Line
    <3> QED BY <1>2, <1>3, <2>2, <3>2
  <2> QED BY <1>1, <1>2, <2>1, <2>2 DEF Line
<1>11. ReaderInv'
  BY <1>8 DEF ReaderInv, ContentInv, IsDirty, Loaded, Stale, TXN_DBI_EXIST
<1> QED BY <1>8, <1>9, <1>10, <1>11 DEF ContentInv

-----------------------------------------------------------------------------
(***************************************************************************)
(* The contents: ends and commits.                                         *)
(***************************************************************************)

\* A reader's part stays when the reader does.
LEMMA ReaderStays == ASSUME ContentInv, UNCHANGED rd PROVE ReaderInv'
BY DEF ReaderInv, ContentInv, IsDirty, Loaded, Stale, TXN_DBI_EXIST

\* What was loaded under a handle is not of a database that the reader opened under it.
LEMMA ContentPublishes ==
  ASSUME TypeOK, TypeOK', HandleInv, ContentInv, Publishes, UNCHANGED <<file, store, changed>>
  PROVE  ContentInv'
<1>1. /\ rd.live /\ known' \in [Handles -> Names \cup {NoName}]
      /\ \A h \in Handles : known'[h] = rd.can[h]
  <2>1. rd.live /\ known' = Published(rd) /\ rd \in Txns
    BY WrType DEF Publishes
  <2>2. KnowsInv(rd)
    BY <2>1 DEF HandleInv
  <2> QED BY <2>1, <2>2, PublishedIs, PublishedType
<1>2. Line' = Line /\ \A i \in Line : wr'[i] = Sees(wr[i], known') /\ wr'[i] \in Txns
  BY LineDomain, SeesType, WrType, <1>1, MappedLine DEF Publishes
<1>3. ASSUME NEW i \in Line
      PROVE  /\ \A h \in Handles : wr'[i].can[h] =
                   IF wr[i].can[h] = NoName THEN rd.can[h] ELSE wr[i].can[h]
             /\ wr'[i].num = wr[i].num /\ wr'[i].own = wr[i].own /\ wr'[i].flags = wr[i].flags
             /\ wr'[i].db = wr[i].db /\ wr'[i].main = wr[i].main /\ wr'[i].view = wr[i].view
  BY <1>1, <1>2, <1>3, WrType, SeesIs
<1>4. \A i \in Line : \A h \in Handles :
        /\ Loaded(wr'[i], h) <=> Loaded(wr[i], h)
        /\ Stale(wr'[i], h) <=> Stale(wr[i], h)
        /\ IsDirty(wr'[i], h) <=> IsDirty(wr[i], h)
        /\ HasOpened(wr[i], h) => HasOpened(wr'[i], h)
  BY <1>3 DEF Loaded, Stale, IsDirty, HasOpened, IsNew, TXN_DBI_EXIST
<1>5. ASSUME NEW i \in Line PROVE WriterInv(wr'[i], changed)
  <2>1. WriterInv(wr[i], changed) /\ wr[i] \in Txns /\ wr'[i] \in Txns /\ changed \in SUBSET Handles
    BY <1>2, WrType DEF ContentInv, TypeOK
  <2>2. ASSUME NEW h \in Handles, Loaded(wr'[i], h), h \notin changed, wr'[i].can[h] # NoName
        PROVE  Loaded(wr[i], h) /\ wr'[i].can[h] = wr[i].can[h]
    <3>1. Loaded(wr[i], h)
      BY <1>4, <2>2
    <3>2. ASSUME NEW j \in Line, HasOpened(wr[j], h) PROVE rd.can[h] = NoName
      BY <3>2 DEF HandleInv, OpenerInv, WithReader, HasOpened
    <3>3. wr[i].can[h] # NoName
      BY <1>3, <2>2, <3>1, <3>2 DEF ContentInv, LoadedInv
    <3> QED BY <1>3, <3>1, <3>3
  <2>3. SameWriter(wr[i], wr'[i], changed, changed)
    BY <1>3, <1>4, <2>1, <2>2 DEF SameWriter, WriterInv
  <2> QED BY <2>1, <2>3, WriterFrame
<1>6. LoadedInv'
  <2> SUFFICES ASSUME NEW i \in Line, NEW h \in Handles, Loaded(wr'[i], h), h \notin changed
               PROVE  wr'[i].can[h] # NoName \/ \E j \in Line : j > i /\ HasOpened(wr'[j], h)
    BY <1>2 DEF LoadedInv
  <2>1. wr[i].can[h] # NoName \/ \E j \in Line : j > i /\ HasOpened(wr[j], h)
    BY <1>4 DEF ContentInv, LoadedInv
  <2> QED BY <1>3, <1>4, <2>1
<1>7. ReaderInv'
  BY NewReader DEF Publishes
<1> QED BY <1>2, <1>5, <1>6, <1>7 DEF ContentInv

\* More handles that have changed say less, when the transaction owns none of them.
LEMMA WriterMore ==
  ASSUME NEW t \in Txns, NEW u \in Txns, NEW c \in SUBSET Handles, NEW d \in SUBSET Handles,
         WriterInv(t, c), SameContents(t, u), c \subseteq d, t.own \cap d = {}
  PROVE  WriterInv(u, d)
<1>1. SameWriter(t, u, c, d)
  BY DEF SameContents, SameWriter
<1> QED BY <1>1, WriterFrame

LEMMA SameContentsSelf == \A t \in Txns : SameContents(t, t)
BY DEF SameContents

\* The handles that a reader had opened change when it is aborted.
LEMMA ContentReaderEnds ==
  ASSUME TypeOK, TypeOK', HandleInv, ContentInv, rd.live, rd' = NewTxn,
         changed' = changed \cup Open(NewIn(rd)), UNCHANGED <<wr, file, store>>
  PROVE  ContentInv'
<1>1. KnowsInv(rd) /\ rd \in Txns
  BY WrType DEF HandleInv
<1>2. Open(NewIn(rd)) = {h \in Handles : IsNew(rd, h) /\ IsOpen(h)}
  BY <1>1, DiscardedIs DEF KnowsInv
<1>3. ASSUME NEW i \in Line PROVE WriterInv(wr[i], changed')
  <2>1. /\ WriterInv(wr[i], changed) /\ wr[i] \in Txns /\ changed \in SUBSET Handles
        /\ changed' \in SUBSET Handles
    BY WrType DEF ContentInv, TypeOK
  <2>2. ASSUME NEW h \in wr[i].own, h \in Open(NewIn(rd)) PROVE FALSE
    BY <1>2, <2>2 DEF HandleInv, OpenerInv, WithReader, KnowsInv
  <2>3. wr[i].own \cap changed' = {}
    BY <2>1, <2>2 DEF WriterInv
  <2> QED BY <2>1, <2>3, WriterMore, SameContentsSelf
<1>4. Line' = Line
  BY DEF Line
<1>5. LoadedInv'
  BY <1>4 DEF ContentInv, LoadedInv, HasOpened, IsNew, Loaded, Stale, TXN_DBI_EXIST
<1> QED BY <1>3, <1>4, <1>5, NewReader DEF ContentInv

LEMMA ContentEndRead ==
  ASSUME TypeOK, TypeOK', HandleInv, ContentInv, EndRead PROVE ContentInv'
<1>1. CASE Publishes /\ UNCHANGED changed
  BY <1>1, ContentPublishes DEF EndRead
<1>2. CASE changed' = changed \cup Open(NewIn(rd)) /\ UNCHANGED wr
  BY <1>2, ContentReaderEnds DEF EndRead
<1> QED BY <1>1, <1>2 DEF EndRead, Publishes

\* So do those of a writer, for the writers around it.
LEMMA ContentWriterEnds ==
  ASSUME TypeOK, TypeOK', HandleInv, ContentInv, wr # <<>>,
         changed' = changed \cup Open(NewIn(w)), UNCHANGED <<rd, file, store>>,
         Line' = 1..(Len(wr) - 1), \A i \in Line' : SameContents(wr[i], wr'[i]),
         \A i \in Line' : \A h \in Handles : HasOpened(wr[i], h) => HasOpened(wr'[i], h)
  PROVE  ContentInv'
<1>1. w \in Txns /\ Len(wr) \in Line /\ Len(wr) \in Nat /\ w = wr[Len(wr)]
  BY WriterType
<1>2. KnowsInv(w) /\ Line' \subseteq Line /\ \A i \in Line' : i < Len(wr)
  BY <1>1 DEF HandleInv, Line
<1>3. Open(NewIn(w)) = {h \in Handles : IsNew(w, h) /\ IsOpen(h)}
  BY <1>1, <1>2, DiscardedIs DEF KnowsInv
<1>4. changed \in SUBSET Handles /\ changed' \in SUBSET Handles
  BY DEF TypeOK
<1>5. \A i \in Line' : wr'[i] \in Txns
  BY DEF TypeOK, Line
<1>6. ASSUME NEW i \in Line' PROVE WriterInv(wr'[i], changed')
  <2>1. /\ WriterInv(wr[i], changed) /\ wr[i] \in Txns /\ wr'[i] \in Txns
        /\ KnowsInv(wr[i]) /\ Inside(wr[i], w)
    BY <1>1, <1>2, <1>5, WrType DEF ContentInv, HandleInv, OpenerInv
  <2>2. ASSUME NEW h \in wr[i].own, h \in Open(NewIn(w)) PROVE FALSE
    BY <1>3, <2>1, <2>2 DEF Inside, KnowsInv
  <2>3. wr[i].own \cap changed' = {}
    BY <2>1, <2>2 DEF WriterInv
  <2> QED BY <1>4, <2>1, <2>3, WriterMore
<1>7. LoadedInv'
  <2> SUFFICES ASSUME NEW i \in Line', NEW h \in Handles, Loaded(wr'[i], h), h \notin changed'
               PROVE  wr'[i].can[h] # NoName \/ \E j \in Line' : j > i /\ HasOpened(wr'[j], h)
    BY DEF LoadedInv
  <2>1. Loaded(wr[i], h) /\ wr'[i].can = wr[i].can /\ i \in Line
    BY <1>2 DEF SameContents
  <2>2. wr[i].can[h] # NoName \/ \E j \in Line : j > i /\ HasOpened(wr[j], h)
    BY <2>1 DEF ContentInv, LoadedInv
  <2>3. ~HasOpened(w, h)
    BY <1>2, <1>3 DEF HasOpened, KnowsInv, IsOpen
  <2>4. ASSUME NEW j \in Line, j > i, HasOpened(wr[j], h)
        PROVE  j \in Line' /\ HasOpened(wr'[j], h)
    <3>1. j # Len(wr)
      BY <1>1, <2>3, <2>4
    <3>2. j \in Line'
      BY <1>1, <3>1 DEF Line
    <3> QED BY <2>4, <3>2
  <2> QED BY <2>1, <2>2, <2>4
<1> QED BY <1>6, <1>7, ReaderStays DEF ContentInv

LEMMA ContentAbort ==
  ASSUME TypeOK, TypeOK', HandleInv, ContentInv, wr # <<>>, AbortOne PROVE ContentInv'
<1>1. Line' = 1..(Len(wr) - 1) /\ Line' \subseteq Line /\ \A i \in Line' : wr'[i] = wr[i]
  BY ShorterLine DEF AbortOne
<1>2. \A i \in Line' : SameContents(wr[i], wr'[i])
  BY <1>1, WrType, SameContentsSelf
<1>3. \A i \in Line' : \A h \in Handles : HasOpened(wr[i], h) => HasOpened(wr'[i], h)
  BY <1>1
<1> QED BY <1>1, <1>2, <1>3, ContentWriterEnds DEF AbortOne

LEMMA ContentCommitFailed ==
  ASSUME TypeOK, TypeOK', HandleInv, ContentInv, CommitFailed PROVE ContentInv'
<1> DEFINE p == wr[Len(wr) - 1]
           x == [p EXCEPT !.err = TRUE]
<1>1. wr # <<>> /\ Len(wr) - 1 \in Line /\ p \in Txns /\ Len(wr) > 1
  BY LineLast DEF CommitFailed
<1>2. x \in Txns
  BY <1>1 DEF Txns
<1>3. /\ Line' = 1..(Len(wr) - 1) /\ Line' \subseteq Line
      /\ \A i \in Line' : wr'[i] = IF i = Len(wr) - 1 THEN x ELSE wr[i]
  BY <1>1, <1>2, MergedLine DEF CommitFailed
<1>4. /\ x.main = p.main /\ x.view = p.view /\ x.db = p.db /\ x.num = p.num
      /\ x.own = p.own /\ x.can = p.can /\ x.flags = p.flags
  BY <1>1 DEF Txns
<1> HIDE DEF x
<1>5. SameContents(p, x) /\ \A h \in Handles : HasOpened(p, h) => HasOpened(x, h)
  BY <1>4 DEF SameContents, IsDirty, Stale, Loaded, TXN_DBI_EXIST, HasOpened, IsNew
<1>6. \A i \in Line' : SameContents(wr[i], wr'[i])
  BY <1>3, <1>5, WrType, SameContentsSelf
<1>7. \A i \in Line' : \A h \in Handles : HasOpened(wr[i], h) => HasOpened(wr'[i], h)
  BY <1>3, <1>5
<1> QED BY <1>1, <1>3, <1>6, <1>7, ContentWriterEnds DEF CommitFailed

\* A child that commits takes the place of its parent.
LEMMA ContentCommitChild ==
  ASSUME TypeOK, TypeOK', HandleInv, ContentInv, CommitChild PROVE ContentInv'
<1> DEFINE p == wr[Len(wr) - 1]
           x == [w EXCEPT !.flags = [h \in Handles |-> ParentFlags(p, w, h)]]
<1>1. /\ wr # <<>> /\ Len(wr) > 1 /\ Len(wr) - 1 \in Line /\ p \in Txns
      /\ w \in Txns /\ Len(wr) \in Line /\ Len(wr) \in Nat /\ w = wr[Len(wr)]
  BY LineLast, WriterType DEF CommitChild
<1>2. /\ x.main = w.main /\ x.view = w.view /\ x.db = w.db /\ x.num = w.num
      /\ x.own = w.own /\ x.can = w.can
      /\ \A h \in Handles : x.flags[h] = w.flags[h] \cup (p.flags[h] \cap {"NEW"})
  BY <1>1 DEF Txns, ParentFlags
<1>3. x \in Txns
  BY <1>1 DEF Txns, ParentFlags
<1>4. /\ Line' = 1..(Len(wr) - 1) /\ Line' \subseteq Line
      /\ \A i \in Line' : wr'[i] = IF i = Len(wr) - 1 THEN x ELSE wr[i]
  BY <1>1, <1>3, MergedLine DEF CommitChild
<1>5. UNCHANGED <<file, store, changed, rd>>
  BY DEF CommitChild
<1> HIDE DEF x
<1>6. SameContents(w, x)
  BY <1>2 DEF SameContents, IsDirty, Stale, Loaded, TXN_DBI_EXIST
<1>7. \A h \in Handles : HasOpened(w, h) => HasOpened(x, h)
  BY <1>2 DEF HasOpened, IsNew
<1>8. \A h \in Handles : HasOpened(p, h) => HasOpened(x, h)
  <2>1. Inside(p, w)
    BY <1>1 DEF HandleInv, OpenerInv
  <2> QED BY <1>2, <2>1 DEF HasOpened, IsNew, Inside
<1>9. WriterInv(x, changed)
  <2>1. changed \in SUBSET Handles /\ WriterInv(w, changed)
    BY <1>1 DEF TypeOK, ContentInv
  <2> QED BY <1>1, <1>3, <1>6, <2>1, SameContentsWriter
<1>10. \A i \in Line' : WriterInv(wr'[i], changed')
  BY <1>4, <1>5, <1>9 DEF ContentInv
<1>11. LoadedInv'
  <2> SUFFICES ASSUME NEW i \in Line', NEW h \in Handles, Loaded(wr'[i], h), h \notin changed
               PROVE  wr'[i].can[h] # NoName \/ \E j \in Line' : j > i /\ HasOpened(wr'[j], h)
    BY <1>5 DEF LoadedInv
  <2>1. CASE i = Len(wr) - 1
    <3>1. Loaded(w, h)
      BY <1>4, <1>6, <2>1 DEF SameContents
    <3>2. w.can[h] # NoName
      BY <1>1, <3>1 DEF ContentInv, LoadedInv, Line
    <3> QED BY <1>2, <1>4, <2>1, <3>2
  <2>2. CASE i # Len(wr) - 1
    <3>1. wr'[i] = wr[i] /\ i \in Line /\ i < Len(wr) - 1
      BY <1>1, <1>4, <2>2
    <3>2. wr[i].can[h] # NoName \/ \E j \in Line : j > i /\ HasOpened(wr[j], h)
      BY <3>1 DEF ContentInv, LoadedInv
    <3>3. ASSUME NEW j \in Line, j > i, HasOpened(wr[j], h)
          PROVE  \E k \in Line' : k > i /\ HasOpened(wr'[k], h)
      <4>1. CASE j >= Len(wr) - 1
        <5>1. j = Len(wr) - 1 \/ j = Len(wr)
          BY <1>1, <4>1 DEF Line
        <5>2. HasOpened(x, h)
          BY <1>1, <1>7, <1>8, <3>3, <5>1
        <5>3. Len(wr) - 1 \in Line'
          BY <1>1, <1>4
        <5> QED BY <1>4, <3>1, <5>2, <5>3
      <4>2. CASE j < Len(wr) - 1
        <5>1. j \in Line' /\ wr'[j] = wr[j]
          BY <1>1, <1>4, <4>2 DEF Line
        <5> QED BY <3>3, <5>1
      <4> QED BY <1>1, <4>1, <4>2 DEF Line
    <3> QED BY <3>1, <3>2, <3>3
  <2> QED BY <2>1, <2>2
<1> QED BY <1>5, <1>10, <1>11, ReaderStays DEF ContentInv

\* What is committed is what the writer's callers see by name.
LEMMA CommittedView ==
  ASSUME TypeOK, HandleInv, ContentInv, wr # <<>>, Committed PROVE file' = w.view
<1>1. w \in Txns /\ Len(wr) \in Line /\ w = wr[Len(wr)]
  BY WriterType
<1>2. KnowsInv(w) /\ WriterInv(w, changed) /\ TableInv
  BY <1>1 DEF HandleInv, ContentInv
<1>3. \A h \in Handles : h \in Dirty(w) <=> IsDirty(w, h)
  BY <1>2 DEF Dirty, IsDirty, KnowsInv
<1>4. \A h \in Handles : IsDirty(w, h) => h \notin changed
  BY <1>3 DEF Committed, MayWrite, Changed
<1>5. \A h \in Handles : IsDirty(w, h) => env.name[h] = w.can[h] /\ w.can[h] # NoName
  BY <1>2 DEF KnowsInv, WriterInv
<1>6. ASSUME NEW n \in Names PROVE file'[n] = w.view[n]
  <2> DEFINE H == {h \in Dirty(w) : env.name[h] = n}
  <2>1. file'[n] = IF H = {} THEN w.main[n] ELSE w.db[Max(H)]
    BY DEF Committed
  <2>2. CASE H = {}
    <3>1. \A h \in Handles : IsDirty(w, h) => w.can[h] # n
      BY <1>3, <1>5, <2>2
    <3> QED BY <1>2, <2>1, <2>2, <3>1 DEF WriterInv
  <2>3. CASE H # {}
    <3>1. H \in SUBSET Handles /\ \A h \in H : env.name[h] = n
      BY DEF Dirty
    <3>2. Max(H) \in H
      BY <1>2, <2>3, <3>1, OneNamed
    <3> HIDE DEF H
    <3>3. Max(H) \in Handles /\ IsDirty(w, Max(H)) /\ env.name[Max(H)] = n
      BY <1>3, <3>1, <3>2 DEF H
    <3>4. w.db[Max(H)] = w.view[w.can[Max(H)]] /\ w.can[Max(H)] = n
      BY <1>2, <1>4, <1>5, <3>3 DEF WriterInv
    <3> QED BY <2>1, <2>3, <3>4
  <2> QED BY <2>2, <2>3
<1>7. file' = [n \in Names |-> file'[n]] /\ w.view = [n \in Names |-> w.view[n]]
  BY <1>1 DEF Committed, Txns
<1> QED BY <1>6, <1>7

LEMMA ContentCommitted ==
  ASSUME TypeOK, TypeOK', HandleInv, ContentInv, wr # <<>>, Committed PROVE ContentInv'
<1>1. file' = store'
  BY CommittedView DEF Committed
<1>2. Line' = {}
  BY DEF Committed, Line
<1>3. ReaderInv
  BY DEF ContentInv
<1>4. CASE rd.live
  <2>1. /\ rd \in Txns /\ known' \in [Handles -> Names \cup {NoName}]
        /\ rd' = Sees(rd, known') /\ KnowsInv(rd)
    BY <1>4, WrType DEF Committed, TypeOK, HandleInv
  <2>2. /\ \A h \in Handles : rd'.can[h] = IF rd.can[h] = NoName THEN known'[h] ELSE rd.can[h]
        /\ rd'.num = rd.num /\ rd'.own = rd.own /\ rd'.flags = rd.flags
        /\ rd'.db = rd.db /\ rd'.main = rd.main /\ rd'.view = rd.view
    BY <1>4, <2>1, SeesIs
  <2>3. rd.own \subseteq Handles /\ \A h \in rd.own : rd.can[h] # NoName
    BY <2>1 DEF KnowsInv, Txns
  <2>4. SameReader(rd, rd')
    BY <2>2, <2>3 DEF SameReader
  <2> QED BY <1>1, <1>2, <1>3, <2>4, ReaderFrame DEF ContentInv, LoadedInv
<1>5. CASE ~rd.live
  <2>1. UNCHANGED rd
    BY <1>5 DEF Committed, Sees
  <2> QED BY <1>1, <1>2, <2>1, ReaderStays DEF ContentInv, LoadedInv
<1> QED BY <1>4, <1>5

LEMMA ContentOther ==
  ASSUME TypeOK, TypeOK', HandleInv, ContentInv, OtherProcess PROVE ContentInv'
<1>1. file' = store' /\ UNCHANGED <<rd, wr, changed>> /\ Line' = {}
  BY DEF OtherProcess, Line
<1> QED BY <1>1, ReaderStays DEF ContentInv, LoadedInv

-----------------------------------------------------------------------------
(***************************************************************************)
(* The contents: opening.                                                  *)
(***************************************************************************)

\* The record that a transaction opens a handle with is what callers see.
LEMMA RegisteredWriter ==
  ASSUME TypeOK, NEW t \in Txns, NEW h \in Handles, NEW n \in Names,
         NEW c \in SUBSET Handles, NEW d \in SUBSET Handles, d = c \ {h},
         KnowsInv(t), WriterInv(t, c), Fresh(t, h, n)
  PROVE  WriterInv(Registered(t, h, n), d)
<1> DEFINE u == Registered(t, h, n)
           new == t.main[n] = Absent
<1>1. /\ u.own = t.own \cup {h}
      /\ u.num >= t.num /\ h < u.num
      /\ \A g \in Handles : g # h /\ g < u.num => g < t.num
      /\ \A g \in Handles : u.can[g] = IF g = h THEN n ELSE t.can[g]
      /\ \A g \in Handles : g # h => u.flags[g] = t.flags[g] /\ u.db[g] = t.db[g]
      /\ u.flags[h] = {"NEW", "VALID"} \cup IF new THEN {"DIRTY"} ELSE {}
      /\ u.db[h] = IF new THEN Db({}) ELSE t.main[n]
      /\ \A k \in Names : u.main[k] = IF new /\ k = n THEN Db({}) ELSE t.main[k]
      /\ \A k \in Names : u.view[k] = IF new /\ k = n THEN Db({}) ELSE t.view[k]
  BY RegisteredIs DEF Fresh
<1> HIDE DEF u
<1>2. t.can[h] = NoName /\ n # NoName /\ \A g \in Handles : t.can[g] # n
  BY NameAssumption DEF Fresh, KnowsInv, IsOpen
<1>3. \A g \in Handles : t.can[g] \in Names \cup {NoName}
  BY DEF Txns
<1>4. \A g \in Handles : g # h => /\ IsDirty(u, g) <=> IsDirty(t, g)
                                  /\ Stale(u, g) <=> Stale(t, g)
                                  /\ Loaded(u, g) => Loaded(t, g)
  BY <1>1 DEF IsDirty, Stale, Loaded, TXN_DBI_EXIST
<1>5. /\ IsDirty(u, h) <=> new
      /\ ~Stale(u, h)
      /\ ~IsDirty(t, h)
  <2>1. ~IsDirty(t, h)
    BY <1>2 DEF WriterInv
  <2> QED BY <1>1, <2>1 DEF IsDirty, Stale
<1>6. t.main[n] = t.view[n]
  BY <1>2 DEF WriterInv
<1>7. u.own \cap d = {}
  BY <1>1 DEF WriterInv
<1>8. \A g \in Handles : IsDirty(u, g) => u.can[g] # NoName
  BY <1>1, <1>2, <1>4 DEF WriterInv
<1>9. ASSUME NEW k \in Names, \A g \in Handles : IsDirty(u, g) => u.can[g] # k
      PROVE  u.main[k] = u.view[k]
  <2>1. CASE new /\ k = n
    BY <1>1, <2>1
  <2>2. CASE ~(new /\ k = n)
    <3>1. \A g \in Handles : IsDirty(t, g) => t.can[g] # k
      BY <1>1, <1>4, <1>5, <1>9
    <3> QED BY <1>1, <2>2, <3>1 DEF WriterInv
  <2> QED BY <2>1, <2>2
<1>10. ASSUME NEW g \in Handles, IsDirty(u, g), g \notin d
       PROVE  u.db[g] = u.view[u.can[g]] /\ (Stale(u, g) => u.main[u.can[g]] = Absent)
  <2>1. CASE g = h
    BY <1>1, <1>5, <1>10, <2>1
  <2>2. CASE g # h
    <3>1. IsDirty(t, g) /\ g \notin c /\ u.can[g] = t.can[g] /\ t.can[g] \in Names /\ t.can[g] # n
      BY <1>1, <1>2, <1>3, <1>4, <1>10, <2>2 DEF WriterInv
    <3> QED BY <1>1, <1>4, <2>2, <3>1 DEF WriterInv
  <2> QED BY <2>1, <2>2
<1>11. ASSUME NEW g \in Handles, Loaded(u, g), g \notin d, u.can[g] # NoName
       PROVE  u.db[g] = u.view[u.can[g]]
  <2>1. CASE g = h
    BY <1>1, <1>6, <2>1
  <2>2. CASE g # h
    <3>1. Loaded(t, g) /\ g \notin c /\ u.can[g] = t.can[g] /\ t.can[g] \in Names /\ t.can[g] # n
      BY <1>1, <1>2, <1>3, <1>4, <1>11, <2>2
    <3>2. t.db[g] = t.view[t.can[g]]
      BY <1>11, <2>2, <3>1 DEF WriterInv
    <3> QED BY <1>1, <2>2, <3>1, <3>2
  <2> QED BY <2>1, <2>2
<1>12. WriterInv(u, d)
  BY <1>7, <1>8, <1>9, <1>10, <1>11 DEF WriterInv
<1> QED BY <1>12 DEF u

\* The same of a reader, for which the record exists.
LEMMA RegisteredReader ==
  ASSUME TypeOK, TypeOK', ReaderInv, NEW h \in Handles, NEW n \in Names,
         KnowsInv(rd), Fresh(rd, h, n), rd.main[n] # Absent, rd' = Registered(rd, h, n)
  PROVE  ReaderInv'
<1>1. rd \in Txns /\ rd' \in Txns
  BY DEF TypeOK
<1>2. /\ rd'.own = rd.own \cup {h}
      /\ \A g \in Handles : g # h /\ g < rd'.num => g < rd.num
      /\ \A g \in Handles : rd'.can[g] = IF g = h THEN n ELSE rd.can[g]
      /\ \A g \in Handles : g # h => rd'.flags[g] = rd.flags[g] /\ rd'.db[g] = rd.db[g]
      /\ rd'.flags[h] = {"NEW", "VALID"}
      /\ rd'.db[h] = rd.main[n]
      /\ \A k \in Names : rd'.main[k] = rd.main[k]
      /\ \A k \in Names : rd'.view[k] = rd.view[k]
  <2>1. h <= rd.num
    BY DEF Fresh
  <2>2. {"NEW", "VALID"} \cup {} = {"NEW", "VALID"}
    OBVIOUS
  <2> QED BY <1>1, <2>1, <2>2, RegisteredIs
<1>3. rd'.main = rd.main /\ rd'.view = rd.view /\ rd.own \subseteq Handles
  BY <1>1, <1>2 DEF Txns
<1>4. \A g \in Handles : ~IsDirty(rd', g)
  BY <1>2 DEF ReaderInv, IsDirty
<1>5. ASSUME NEW g \in rd'.own, Loaded(rd', g) PROVE rd'.db[g] = rd'.view[rd'.can[g]]
  <2>1. CASE g = h
    BY <1>2, <1>3, <2>1 DEF ReaderInv
  <2>2. CASE g # h
    <3>1. g \in rd.own /\ g \in Handles
      BY <1>2, <1>3, <2>2
    <3>2. Loaded(rd, g)
      BY <1>2, <1>5, <2>2, <3>1 DEF Loaded, Stale, TXN_DBI_EXIST
    <3> QED BY <1>2, <1>3, <2>2, <3>1, <3>2 DEF ReaderInv
  <2> QED BY <2>1, <2>2
<1> QED BY <1>3, <1>4, <1>5 DEF ReaderInv, IsDirty, Loaded, Stale, TXN_DBI_EXIST

\* The remaining flags are no contents.
LEMMA OpenedIs ==
  ASSUME NEW t \in Txns
  PROVE  LET u == [t EXCEPT !.opened = TRUE] IN SameContents(t, u) /\ u.flags = t.flags
<1> DEFINE u == [t EXCEPT !.opened = TRUE]
<1>1. /\ u.main = t.main /\ u.view = t.view /\ u.db = t.db /\ u.num = t.num
      /\ u.own = t.own /\ u.can = t.can /\ u.flags = t.flags
  BY DEF Txns
<1> HIDE DEF u
<1>2. SameContents(t, u)
  BY <1>1 DEF SameContents, IsDirty, Stale, Loaded, TXN_DBI_EXIST
<1> QED BY <1>1, <1>2 DEF u

LEMMA BarredIs ==
  ASSUME NEW t \in Txns PROVE SameContents(t, Barred(t)) /\ Barred(t).flags = t.flags
<1> DEFINE u == Barred(t)
<1>1. /\ u.main = t.main /\ u.view = t.view /\ u.db = t.db /\ u.num = t.num
      /\ u.own = t.own /\ u.can = t.can /\ u.flags = t.flags
  BY DEF Txns, Barred
<1> HIDE DEF u
<1>2. SameContents(t, u)
  BY <1>1 DEF SameContents, IsDirty, Stale, Loaded, TXN_DBI_EXIST
<1> QED BY <1>1, <1>2 DEF u

LEMMA SameContentsReader ==
  ASSUME TypeOK, ReaderInv, SameContents(rd, rd'), rd'.flags = rd.flags PROVE ReaderInv'
BY ReaderFrame, WrType DEF SameContents, SameReader

\* mdb_dbi_open in the reader.
LEMMA ContentOpenRead ==
  ASSUME TypeOK, TypeOK', HandleInv, ContentInv, NEW n \in Names, OpenRead(n)
  PROVE  ContentInv'
<1> DEFINE O == Opened(rd, n, FALSE)
<1>1. rd \in Txns /\ rd.live /\ ~rd.barred /\ KnowsInv(rd) /\ TableInv /\ ReaderInv
  BY WrType DEF OpenRead, Usable, MayOpen, HandleInv, ContentInv
<1>2. \A h \in Handles : IsOpen(h) => Holds(rd, h)
  BY <1>1 DEF HandleInv, FullInv
<1>3. \/ O = {} /\ rd' = [rd EXCEPT !.opened = TRUE]
      \/ \E h \in Handles : /\ O = {h} /\ Fresh(rd, h, n) /\ rd' = Registered(rd, h, n)
                            /\ rd.main[n] # Absent
  <2>1. FALSE \in BOOLEAN /\ rd' = DbiOpen(rd, n, FALSE)
    BY DEF OpenRead
  <2> QED BY <1>1, <1>2, <2>1, DbiOpenCases
<1>4. changed' = changed \cup O /\ UNCHANGED <<file, store>>
  BY DEF OpenRead
<1> HIDE DEF O
<1>5. ReaderInv'
  <2>1. CASE rd' = [rd EXCEPT !.opened = TRUE]
    BY <1>1, <2>1, OpenedIs, SameContentsReader
  <2>2. CASE \E h \in Handles : /\ Fresh(rd, h, n) /\ rd' = Registered(rd, h, n)
                                /\ rd.main[n] # Absent
    BY <1>1, <2>2, RegisteredReader
  <2> QED BY <1>3, <2>1, <2>2
<1>6. Line' = Line /\ \A i \in Line : wr'[i] = Barred(wr[i])
  <2>1. wr' = [i \in Line |-> Barred(wr[i])]
    BY LineDomain DEF OpenRead
  <2>2. \A i \in Line : wr'[i] \in Txns
    BY <2>1, WrType, BarredType
  <2> QED BY <2>1, <2>2, MappedLine
<1>7. \A i \in Line : SameContents(wr[i], wr'[i]) /\ wr'[i].flags = wr[i].flags /\ wr'[i] \in Txns
  BY <1>6, WrType, BarredIs, BarredType
<1>8. O \subseteq Handles /\ \A h \in O : ~IsOpen(h)
  BY <1>3 DEF Fresh
<1>9. ASSUME NEW i \in Line PROVE WriterInv(wr'[i], changed')
  <2>1. /\ WriterInv(wr[i], changed) /\ wr[i] \in Txns /\ wr'[i] \in Txns /\ KnowsInv(wr[i])
        /\ changed \in SUBSET Handles /\ changed' \in SUBSET Handles
    BY <1>7, WrType DEF ContentInv, HandleInv, TypeOK
  <2>2. \A h \in wr[i].own : h \notin O
    BY <1>8, <2>1 DEF KnowsInv, IsOpen
  <2>3. wr[i].own \cap changed' = {}
    BY <1>4, <2>1, <2>2 DEF WriterInv
  <2> QED BY <1>4, <1>7, <2>1, <2>3, WriterMore
<1>10. LoadedInv'
  <2> SUFFICES ASSUME NEW i \in Line, NEW h \in Handles, Loaded(wr'[i], h), h \notin changed'
               PROVE  wr'[i].can[h] # NoName \/ \E j \in Line : j > i /\ HasOpened(wr'[j], h)
    BY <1>6 DEF LoadedInv
  <2>1. Loaded(wr[i], h) /\ h \notin changed
    BY <1>4, <1>7 DEF SameContents
  <2>2. \A j \in Line : wr'[j].can = wr[j].can /\ (HasOpened(wr[j], h) => HasOpened(wr'[j], h))
    BY <1>7 DEF SameContents, HasOpened, IsNew
  <2>3. wr[i].can[h] # NoName \/ \E j \in Line : j > i /\ HasOpened(wr[j], h)
    BY <2>1 DEF ContentInv, LoadedInv
  <2> QED BY <2>2, <2>3
<1>11. file' = store'
  BY <1>4 DEF ContentInv
<1> QED BY <1>5, <1>6, <1>9, <1>10, <1>11 DEF ContentInv

\* mdb_dbi_open in the writer, whose handle changes for nobody.
LEMMA ContentOpenWrite ==
  ASSUME TypeOK, TypeOK', HandleInv, ContentInv, NEW n \in Names, NEW create \in BOOLEAN,
         OpenWrite(n, create)
  PROVE  ContentInv'
<1> DEFINE O == Opened(w, n, create)
           u == DbiOpen(w, n, create)
<1>0. PICK m \in Nat : m = Len(wr)
  BY LineDomain
<1>1. /\ w = wr[m] /\ m \in Line /\ Line = 1..m /\ w \in Txns /\ w.live /\ ~w.barred
      /\ KnowsInv(w) /\ TableInv /\ wr # <<>> /\ WriterInv(w, changed)
      /\ \A i \in Line : i = m \/ i < m
  BY <1>0, WriterType DEF OpenWrite, MayOpen, HandleInv, Line, ContentInv
<1>2. \A h \in Handles : IsOpen(h) => Holds(w, h)
  <2>1. \A j \in Line : ~(j > m)
    BY <1>1
  <2> QED BY <1>1, <2>1 DEF HandleInv, FullInv
<1>3. /\ wr' = Append(Front(wr), u) /\ u \in Txns /\ env' = Named(O, n)
      /\ rd' = IF rd.live THEN Barred(rd) ELSE rd
      /\ changed' = changed \ O /\ UNCHANGED <<file, store>>
      /\ changed \in SUBSET Handles /\ changed' \in SUBSET Handles
  BY <1>1, DbiOpenType DEF OpenWrite, TypeOK
<1>4. Opens(w, u, env', O, n)
  BY <1>1, <1>2, <1>3, OpenIs
<1>5. \/ O = {} /\ u = [w EXCEPT !.opened = TRUE]
      \/ \E h \in Handles : O = {h} /\ Fresh(w, h, n) /\ u = Registered(w, h, n)
  BY <1>1, <1>2, DbiOpenCases
<1> HIDE DEF O, u
<1>6. Line' = Line /\ \A i \in Line : wr'[i] = IF i = m THEN u ELSE wr[i]
  BY <1>0, <1>1, <1>3, ReplacedLine
<1>7. ReaderInv'
  <2>1. CASE rd.live
    BY <1>3, <2>1, BarredIs, SameContentsReader, WrType DEF ContentInv
  <2>2. CASE ~rd.live
    BY <1>3, <2>2, ReaderStays
  <2> QED BY <2>1, <2>2
<1>8. WriterInv(u, changed')
  <2>1. CASE O = {} /\ u = [w EXCEPT !.opened = TRUE]
    <3>1. SameContents(w, u) /\ changed' = changed
      BY <1>1, <1>3, <2>1, OpenedIs
    <3> QED BY <1>1, <1>3, <3>1, SameContentsWriter
  <2>2. ASSUME NEW h \in Handles, O = {h}, Fresh(w, h, n), u = Registered(w, h, n)
        PROVE  WriterInv(u, changed')
    BY <1>1, <1>3, <2>2, RegisteredWriter
  <2> QED BY <1>5, <2>1, <2>2
\* No other writer knows the new handle.
<1>9. ASSUME NEW i \in Line, i < m PROVE WriterInv(wr[i], changed')
  <2>1. WriterInv(wr[i], changed) /\ wr[i] \in Txns /\ KnowsInv(wr[i])
    BY <1>9, WrType DEF ContentInv, HandleInv
  <2>2. \A h \in Handles : wr[i].can[h] # NoName => h \notin O
    BY <1>4, <2>1 DEF KnowsInv, IsOpen, Opens
  <2>3. \A h \in Handles : wr[i].can[h] # NoName /\ h \notin changed' => h \notin changed
    BY <1>3, <2>2
  <2>4. SameWriter(wr[i], wr[i], changed, changed')
    BY <1>3, <2>1, <2>3 DEF SameWriter, WriterInv
  <2> QED BY <1>3, <2>1, <2>4, WriterFrame
<1>10. \A i \in Line' : WriterInv(wr'[i], changed')
  BY <1>1, <1>6, <1>8, <1>9
<1>11. \A h \in Handles : HasOpened(w, h) => HasOpened(u, h)
  BY <1>1, <1>4 DEF HasOpened, Opens, KnowsInv, IsOpen
<1>12. \A h \in O : HasOpened(u, h)
  BY <1>4, NameAssumption DEF HasOpened, Opens
<1>13. \A h \in Handles : Loaded(u, h) => Loaded(w, h) \/ h \in O
  <2>1. CASE O = {} /\ u = [w EXCEPT !.opened = TRUE]
    BY <1>1, <2>1, OpenedIs DEF SameContents
  <2>2. ASSUME NEW h \in Handles, O = {h}, Fresh(w, h, n), u = Registered(w, h, n)
        PROVE  \A g \in Handles : Loaded(u, g) => Loaded(w, g) \/ g \in O
    <3>1. h <= w.num
      BY <2>2 DEF Fresh
    <3>2. /\ \A g \in Handles : g # h /\ g < u.num => g < w.num
          /\ \A g \in Handles : g # h => u.flags[g] = w.flags[g]
      BY <1>1, <2>2, <3>1, RegisteredIs
    <3> QED BY <2>2, <3>2 DEF Loaded, Stale, TXN_DBI_EXIST
  <2> QED BY <1>5, <2>1, <2>2
<1>14. LoadedInv'
  <2> SUFFICES ASSUME NEW i \in Line, NEW h \in Handles, Loaded(wr'[i], h), h \notin changed'
               PROVE  wr'[i].can[h] # NoName \/ \E j \in Line : j > i /\ HasOpened(wr'[j], h)
    BY <1>6 DEF LoadedInv
  <2>1. CASE h \in O
    <3>1. CASE i = m
      BY <1>6, <1>12, <2>1, <3>1 DEF HasOpened
    <3>2. CASE i # m
      BY <1>1, <1>6, <1>12, <2>1, <3>2
    <3> QED BY <3>1, <3>2
  <2>2. CASE h \notin O
    <3>1. Loaded(wr[i], h) /\ h \notin changed
      BY <1>1, <1>3, <1>6, <1>13, <2>2
    <3>2. wr[i].can[h] # NoName \/ \E j \in Line : j > i /\ HasOpened(wr[j], h)
      BY <3>1 DEF ContentInv, LoadedInv
    <3>3. wr'[i].can[h] = wr[i].can[h]
      BY <1>1, <1>4, <1>6, <2>2 DEF Opens
    <3>4. \A j \in Line : HasOpened(wr[j], h) => HasOpened(wr'[j], h)
      BY <1>1, <1>6, <1>11
    <3> QED BY <3>2, <3>3, <3>4
  <2> QED BY <2>1, <2>2
<1>15. file' = store'
  BY <1>3 DEF ContentInv
<1> QED BY <1>7, <1>10, <1>14, <1>15 DEF ContentInv

-----------------------------------------------------------------------------
(***************************************************************************)
(* The contents: closing and operations.                                   *)
(***************************************************************************)

\* Closing a handle leaves a transaction its records.
LEMMA ForgetsSame ==
  ASSUME NEW t \in Txns, NEW h \in Handles
  PROVE  LET u == Forgets(t, h) IN
         /\ u.main = t.main /\ u.view = t.view /\ u.db = t.db /\ u.num = t.num
         /\ u.flags = t.flags
BY DEF Forgets, Txns

\* A closed handle is a changed one, that a transaction had not written through.
LEMMA ForgetsWriter ==
  ASSUME NEW t \in Txns, NEW u \in Txns, NEW h \in Handles, NEW c \in SUBSET Handles,
         NEW d \in SUBSET Handles, d = c \cup {h}, WriterInv(t, c), ~IsDirty(t, h),
         Forgot(t, u, h), u.main = t.main, u.view = t.view, u.db = t.db, u.flags = t.flags
  PROVE  WriterInv(u, d)
<1>1. \A g \in Handles : /\ IsDirty(u, g) <=> IsDirty(t, g)
                         /\ Stale(u, g) <=> Stale(t, g)
                         /\ Loaded(u, g) <=> Loaded(t, g)
  BY DEF IsDirty, Stale, Loaded, TXN_DBI_EXIST, Forgot
<1>2. \A g \in Handles : g # h => u.can[g] = t.can[g]
  BY DEF Forgot
<1>3. u.own \cap d = {}
  BY DEF Forgot, WriterInv
<1>4. SameWriter(t, u, c, d)
  BY <1>1, <1>2, <1>3 DEF SameWriter
<1> QED BY <1>4, WriterFrame

LEMMA ForgetsReader ==
  ASSUME TypeOK, ReaderInv, NEW h \in Handles, rd' = Forgets(rd, h), Forgot(rd, rd', h)
  PROVE  ReaderInv'
<1>1. rd \in Txns
  BY WrType
<1>2. /\ rd'.main = rd.main /\ rd'.view = rd.view /\ rd'.db = rd.db /\ rd'.num = rd.num
      /\ rd'.flags = rd.flags
  BY <1>1, ForgetsSame
<1>3. rd'.own = rd.own \ {h} /\ \A g \in Handles : g # h => rd'.can[g] = rd.can[g]
  BY DEF Forgot
<1>4. rd.own \subseteq Handles
  BY <1>1 DEF Txns
<1>5. SameReader(rd, rd')
  BY <1>2, <1>3, <1>4 DEF SameReader
<1> QED BY <1>5, ReaderFrame

LEMMA ForgetsLoaded ==
  ASSUME LoadedInv, NEW h \in Handles, changed' = changed \cup {h}, Line' = Line,
         \A i \in Line : Forgot(wr[i], wr'[i], h),
         \A i \in Line : \A g \in Handles : g # h /\ Loaded(wr'[i], g) => Loaded(wr[i], g)
  PROVE  LoadedInv'
<1> SUFFICES ASSUME NEW i \in Line, NEW g \in Handles, Loaded(wr'[i], g), g \notin changed'
             PROVE  wr'[i].can[g] # NoName \/ \E j \in Line : j > i /\ HasOpened(wr'[j], g)
  BY DEF LoadedInv
<1>1. g # h /\ g \notin changed /\ Loaded(wr[i], g)
  OBVIOUS
<1>2. wr[i].can[g] # NoName \/ \E j \in Line : j > i /\ HasOpened(wr[j], g)
  BY <1>1 DEF LoadedInv
<1>3. \A j \in Line : /\ wr'[j].can[g] = wr[j].can[g]
                      /\ HasOpened(wr[j], g) => HasOpened(wr'[j], g)
  BY <1>1 DEF Forgot, HasOpened
<1> QED BY <1>2, <1>3

\* mdb_dbi_close.
LEMMA ContentClose ==
  ASSUME TypeOK, TypeOK', HandleInv, ContentInv, NEW h \in Handles, Close(h)
  PROVE  ContentInv'
<1>1. CloseIs(h) /\ \A i \in Line : wr'[i] = Forgets(wr[i], h)
  BY CloseStep
<1>2. UNCHANGED <<file, store>> /\ MayClose(h, wr) /\ DOMAIN wr = Line
  BY LineDomain DEF Close
<1>3. \A i \in Line : /\ wr[i] \in Txns /\ wr'[i] \in Txns /\ KnowsInv(wr[i])
                      /\ wr'[i].main = wr[i].main /\ wr'[i].view = wr[i].view
                      /\ wr'[i].db = wr[i].db /\ wr'[i].num = wr[i].num
                      /\ wr'[i].flags = wr[i].flags
  BY <1>1, WrType, ForgetsType, ForgetsSame DEF HandleInv
<1>4. \A i \in Line : ~IsDirty(wr[i], h)
  BY <1>2, <1>3 DEF MayClose, Dirty, IsDirty, KnowsInv
<1>5. changed \in SUBSET Handles /\ changed' \in SUBSET Handles /\ changed' = changed \cup {h}
  BY <1>1 DEF TypeOK, CloseIs
<1>6. Line' = Line /\ \A i \in Line : Forgot(wr[i], wr'[i], h)
  BY <1>1 DEF CloseIs
<1>7. \A i \in Line : WriterInv(wr'[i], changed')
  BY <1>3, <1>4, <1>5, <1>6, ForgetsWriter DEF ContentInv
<1>8. \A i \in Line : \A g \in Handles : g # h /\ Loaded(wr'[i], g) => Loaded(wr[i], g)
  BY <1>3 DEF Loaded, Stale, TXN_DBI_EXIST
<1>9. LoadedInv'
  BY <1>5, <1>6, <1>8, ForgetsLoaded DEF ContentInv
<1>10. ReaderInv'
  BY <1>1, ForgetsReader DEF CloseIs, ContentInv
<1>11. file' = store'
  BY <1>2 DEF ContentInv
<1> QED BY <1>6, <1>7, <1>9, <1>10, <1>11 DEF ContentInv

\* What is read in the last writer, whatever else it does to h.
LEMMA LoadedStep ==
  ASSUME TypeOK, LoadedInv, wr # <<>>, NEW h \in Handles, w.can[h] # NoName, NEW x \in Txns,
         wr' = Append(Front(wr), x), SameHandles(w, x), UNCHANGED changed,
         \A g \in Handles : g # h /\ Loaded(x, g) => Loaded(w, g)
  PROVE  LoadedInv'
<1>0. PICK m \in Nat : m = Len(wr)
  BY LineDomain
<1>1. w = wr[m] /\ m \in Line /\ Line = 1..m
  BY <1>0, WriterType DEF Line
<1>2. Line' = Line /\ \A i \in Line : wr'[i] = IF i = m THEN x ELSE wr[i]
  BY <1>0, ReplacedLine
<1> SUFFICES ASSUME NEW i \in Line, NEW g \in Handles, Loaded(wr'[i], g), g \notin changed
             PROVE  wr'[i].can[g] # NoName \/ \E j \in Line : j > i /\ HasOpened(wr'[j], g)
  BY <1>2 DEF LoadedInv
<1>3. x.can = w.can /\ \A f \in Handles : HasOpened(w, f) => HasOpened(x, f)
  BY DEF SameHandles, HasOpened
<1>4. CASE i = m /\ g = h
  BY <1>2, <1>3, <1>4
<1>5. CASE ~(i = m /\ g = h)
  <2>1. Loaded(wr[i], g)
    BY <1>1, <1>2, <1>5
  <2>2. wr[i].can[g] # NoName \/ \E j \in Line : j > i /\ HasOpened(wr[j], g)
    BY <2>1 DEF LoadedInv
  <2>3. /\ wr'[i].can = wr[i].can
        /\ \A j \in Line : HasOpened(wr[j], g) => HasOpened(wr'[j], g)
    BY <1>1, <1>2, <1>3
  <2> QED BY <2>2, <2>3
<1> QED BY <1>4, <1>5

\* The invariant after a step of the last writer alone.
LEMMA ContentStep ==
  ASSUME TypeOK, ContentInv, wr # <<>>, NEW x \in Txns, wr' = Append(Front(wr), x),
         WriterInv(x, changed), LoadedInv', UNCHANGED <<file, store, rd, changed>>
  PROVE  ContentInv'
<1>1. Line' = Line /\ \A i \in Line : wr'[i] = IF i = Len(wr) THEN x ELSE wr[i]
  BY ReplacedLine
<1>2. \A i \in Line' : WriterInv(wr'[i], changed')
  BY <1>1 DEF ContentInv
<1> QED BY <1>2, ReaderStays DEF ContentInv

\* Reading a record changes nothing else.
LEMMA ResolvedIs ==
  ASSUME TypeOK, NEW t \in Txns, NEW h \in Handles, NEW c \in SUBSET Handles
  PROVE  LET r == Resolved(t, h, h \in c) IN
         /\ r \in Txns /\ SameHandles(t, r)
         /\ \A g \in Handles : g # h => r.flags[g] = t.flags[g]
         /\ r.flags[h] \in {t.flags[h], t.flags[h] \ {"STALE"}}
<1> DEFINE r == Resolved(t, h, h \in c)
<1>1. (h \in c) = TRUE \/ (h \in c) = FALSE
  OBVIOUS
<1>2. \E b \in BOOLEAN : r = Resolved(t, h, b)
  BY <1>1
<1> HIDE DEF r
<1>3. /\ r \in Txns /\ SameHandles(t, r) /\ \A g \in Handles : g # h => r.flags[g] = t.flags[g]
      /\ r.flags[h] \in {t.flags[h], t.flags[h] \ {"STALE"}}
  BY <1>2, ResolvedSame, ResolvedType
<1> QED BY <1>3 DEF r

\* mdb_get in the reader.
LEMMA ContentGetRead ==
  ASSUME TypeOK, TypeOK', HandleInv, ContentInv, NEW h \in Handles, GetRead(h)
  PROVE  ContentInv'
<1>1. rd \in Txns /\ rd.can[h] # NoName /\ env.name[h] = rd.can[h] /\ rd.own \subseteq Handles
      /\ rd.can[h] \in Names
  <2>1. rd \in Txns /\ rd.live /\ rd.can[h] # NoName
    BY WrType DEF GetRead, MayRead
  <2> QED BY <2>1 DEF HandleInv, KnowsInv, Txns
<1>0. PICK c \in SUBSET Handles : c = {}
  OBVIOUS
<1> DEFINE r == Resolved(rd, h, h \in c)
<1>2. rd' = r
  <2>1. (h \in c) = FALSE
    BY <1>0
  <2> QED BY <2>1 DEF GetRead
<1>5. \/ r = rd
      \/ /\ r.main = rd.main /\ r.view = rd.view /\ r.own = rd.own /\ r.can = rd.can
         /\ r.num = rd.num /\ r.db[h] = rd.main[rd.can[h]]
         /\ \A g \in Handles : g # h => r.flags[g] = rd.flags[g] /\ r.db[g] = rd.db[g]
         /\ r.flags[h] = rd.flags[h] \ {"STALE"}
  BY <1>1, ResolvedCases
<1> HIDE DEF r
<1>3. UNCHANGED <<file, store, wr, changed>> /\ Line' = Line
  BY DEF GetRead, Line
<1>4. ReaderInv'
  <2>1. CASE rd' = rd
    BY <2>1, ReaderStays
  <2>2. CASE rd' # rd
    <3>1. /\ rd'.main = rd.main /\ rd'.view = rd.view /\ rd'.own = rd.own /\ rd'.can = rd.can
          /\ rd'.num = rd.num /\ rd'.db[h] = rd.main[rd.can[h]]
          /\ \A g \in Handles : g # h => rd'.flags[g] = rd.flags[g] /\ rd'.db[g] = rd.db[g]
          /\ rd'.flags[h] = rd.flags[h] \ {"STALE"}
      BY <1>2, <1>5, <2>2
    <3>2. ReaderInv
      BY DEF ContentInv
    <3>3. \A g \in Handles : ~IsDirty(rd', g)
      BY <3>1, <3>2 DEF ReaderInv, IsDirty
    <3>4. ASSUME NEW g \in rd'.own, Loaded(rd', g) PROVE rd'.db[g] = rd'.view[rd'.can[g]]
      <4>1. CASE g = h
        BY <1>1, <3>1, <3>2, <4>1 DEF ReaderInv
      <4>2. CASE g # h
        <5>1. g \in rd.own /\ g \in Handles
          BY <1>1, <3>1
        <5>2. Loaded(rd, g)
          BY <3>1, <3>4, <4>2, <5>1 DEF Loaded, Stale, TXN_DBI_EXIST
        <5> QED BY <3>1, <3>2, <4>2, <5>1, <5>2 DEF ReaderInv
      <4> QED BY <4>1, <4>2
    <3>5. rd'.main = rd'.view
      BY <3>1, <3>2 DEF ReaderInv
    <3> QED BY <3>3, <3>4, <3>5 DEF ReaderInv, IsDirty, Loaded, Stale, TXN_DBI_EXIST
  <2> QED BY <2>1, <2>2
<1> QED BY <1>3, <1>4 DEF ContentInv, LoadedInv

\* The last writer, and what its callers know.
LEMMA WriterKnows ==
  ASSUME TypeOK, HandleInv, ContentInv, wr # <<>>
  PROVE  /\ w \in Txns /\ w.live /\ KnowsInv(w) /\ TableInv /\ WriterInv(w, changed) /\ LoadedInv
         /\ changed \in SUBSET Handles
BY WriterType DEF HandleInv, ContentInv, TypeOK

\* mdb_get in the writer, and what is refused.
LEMMA ContentReads ==
  ASSUME TypeOK, TypeOK', HandleInv, ContentInv, NEW h \in Handles, WriterReads(h)
  PROVE  ContentInv'
<1> DEFINE r == Resolved(w, h, h \in changed)
<1>1. wr # <<>> /\ w.can[h] # NoName /\ UNCHANGED <<file, store, rd, changed>>
  BY DEF WriterReads
<1>2. /\ w \in Txns /\ KnowsInv(w) /\ TableInv /\ WriterInv(w, changed) /\ LoadedInv
      /\ changed \in SUBSET Handles
  BY <1>1, WriterKnows
<1>3. PICK x \in Txns : /\ wr' = Append(Front(wr), x) /\ SameHandles(w, x)
                        /\ x.main = r.main /\ x.view = r.view /\ x.db = r.db /\ x.flags = r.flags
  BY ReadsAs DEF Changed
<1>4. r \in Txns /\ SameHandles(w, r) /\ \A g \in Handles : g # h => r.flags[g] = w.flags[g]
  BY <1>2, ResolvedIs
<1>5. WriterInv(r, changed)
  BY <1>1, <1>2, ResolvedWriter
<1> HIDE DEF r
<1>6. SameContents(r, x)
  BY <1>3, <1>4 DEF SameContents, SameHandles, IsDirty, Stale, Loaded, TXN_DBI_EXIST
<1>7. WriterInv(x, changed)
  BY <1>2, <1>4, <1>5, <1>6, SameContentsWriter
<1>8. \A g \in Handles : g # h /\ Loaded(x, g) => Loaded(w, g)
  BY <1>3, <1>4 DEF Loaded, Stale, TXN_DBI_EXIST, SameHandles
<1>9. LoadedInv'
  BY <1>1, <1>2, <1>3, <1>8, LoadedStep
<1> QED BY <1>1, <1>3, <1>7, <1>9, ContentStep

\* mdb_put, mdb_del and mdb_drop of the records.
LEMMA ContentChanges ==
  ASSUME TypeOK, TypeOK', HandleInv, ContentInv, NEW h \in Handles, WriterChanges(h)
  PROVE  ContentInv'
<1> DEFINE r == Resolved(w, h, Changed(h))
<1>1. /\ wr # <<>> /\ w.can[h] # NoName /\ TXN_DBI_EXIST(w, h)
      /\ UNCHANGED <<file, store, rd, changed>>
  BY DEF WriterChanges
<1>2. /\ w \in Txns /\ KnowsInv(w) /\ TableInv /\ WriterInv(w, changed) /\ LoadedInv
      /\ changed \in SUBSET Handles
  BY <1>1, WriterKnows
<1>3. PICK D, V \in SUBSET (Names \X Keys) :
         wr' = Append(Front(wr), Changes(r, h, D, V)) /\ (h \notin changed => Fits(r, h, D, V))
  BY DEF WriterChanges
<1> DEFINE x == Changes(r, h, D, V)
<1>4. /\ r \in Txns /\ SameHandles(w, r) /\ \A g \in Handles : g # h => r.flags[g] = w.flags[g]
      /\ r.flags[h] \in {w.flags[h], w.flags[h] \ {"STALE"}}
  BY <1>2, ResolvedIs DEF Changed
<1>5. WriterInv(x, changed)
  BY <1>1, <1>2, <1>3, ChangesWriter DEF Changed
<1> HIDE DEF r
<1>6. r.can[h] # NoName /\ r.flags[h] # {}
  BY <1>1, <1>4 DEF SameHandles, TXN_DBI_EXIST
<1>7. x \in Txns /\ SameHandles(r, x) /\ \A g \in Handles : g # h => x.flags[g] = r.flags[g]
  <2>1. x \in Txns
    BY <1>4, <1>6, ChangesType
  <2>2. r \in Txns /\ r.can[h] # NoName /\ r.flags[h] # {}
    BY <1>4, <1>6
  <2>3. /\ SameHandles(r, x) /\ x.main = r.main
        /\ \A k \in Names : x.view[k] = IF k = r.can[h] THEN Db(V) ELSE r.view[k]
        /\ \A g \in Handles : g # h => x.flags[g] = r.flags[g] /\ x.db[g] = r.db[g]
        /\ x.flags[h] = r.flags[h] \cup {"DIRTY"} /\ x.db[h] = Db(D)
    BY <2>2, ChangesSame
  <2> QED BY <2>1, <2>3
<1> HIDE DEF x
<1>8. SameHandles(w, x)
  BY <1>2, <1>4, <1>7, SameTrans
<1>9. \A g \in Handles : g # h /\ Loaded(x, g) => Loaded(w, g)
  BY <1>4, <1>7, <1>8 DEF Loaded, Stale, TXN_DBI_EXIST, SameHandles
<1>10. wr' = Append(Front(wr), x)
  BY <1>3 DEF x
<1>11. LoadedInv'
  BY <1>1, <1>2, <1>7, <1>8, <1>9, <1>10, LoadedStep
<1> QED BY <1>1, <1>5, <1>7, <1>10, <1>11, ContentStep

\* mdb_drop of the database: its record goes, and the handle is closed.
LEMMA ContentDrops ==
  ASSUME TypeOK, TypeOK', HandleInv, ContentInv, NEW h \in Handles, WriterDrops(h)
  PROVE  ContentInv'
<1>0. PICK m \in Nat : m = Len(wr)
  BY LineDomain
<1> DEFINE r == Resolved(w, h, h \in changed)
           n == w.can[h]
           x == wr'[m]
<1>1. /\ wr # <<>> /\ n # NoName /\ UNCHANGED <<file, store>> /\ MayClose(h, Front(wr))
  BY DEF WriterDrops, MayModify
<1>2. /\ w \in Txns /\ KnowsInv(w) /\ TableInv /\ WriterInv(w, changed) /\ LoadedInv
      /\ changed \in SUBSET Handles /\ w = wr[m] /\ m \in Line /\ Line = 1..m
  BY <1>0, <1>1, WriterKnows, WriterType DEF Line
<1>3. /\ CloseIs(h) /\ n \in Names /\ env.name[h] = n
      /\ \A i \in Line : i # m => wr'[i] = Forgets(wr[i], h)
      /\ \A k \in Names : x.main[k] = IF k = n THEN Absent ELSE r.main[k]
      /\ \A k \in Names : x.view[k] = IF k = n THEN Absent ELSE r.view[k]
      /\ x.db = r.db
      /\ \A g \in Handles : x.flags[g] = IF g = h THEN {"STALE"} ELSE r.flags[g]
  BY <1>0, DropsAs DEF Changed
<1>4. /\ r \in Txns /\ SameHandles(w, r) /\ \A g \in Handles : g # h => r.flags[g] = w.flags[g]
  BY <1>2, ResolvedIs
<1>5. WriterInv(r, changed)
  BY <1>1, <1>2, ResolvedWriter
<1> HIDE DEF r
<1>6. /\ changed' = changed \cup {h} /\ Line' = Line /\ rd' = Forgets(rd, h) /\ Forgot(rd, rd', h)
      /\ \A i \in Line : Forgot(wr[i], wr'[i], h)
      /\ changed' \in SUBSET Handles
  BY <1>3 DEF CloseIs, TypeOK
<1>7. x \in Txns
  BY <1>2, <1>6 DEF TypeOK, Line
<1>8. /\ x.num = r.num /\ x.own = r.own \ {h}
      /\ \A g \in Handles : x.can[g] = IF g = h THEN NoName ELSE r.can[g]
  BY <1>2, <1>4, <1>6 DEF Forgot, SameHandles
<1> HIDE DEF x
<1>9. \A g \in Handles : /\ ~IsDirty(x, h)
                         /\ g # h => /\ IsDirty(x, g) <=> IsDirty(r, g)
                                     /\ Stale(x, g) <=> Stale(r, g)
                                     /\ Loaded(x, g) <=> Loaded(r, g)
  BY <1>3, <1>8 DEF IsDirty, Stale, Loaded, TXN_DBI_EXIST
<1>10. \A g \in Handles : g # h /\ r.can[g] # NoName => r.can[g] # n /\ r.can[g] \in Names
  BY <1>1, <1>2, <1>3, <1>4 DEF TableInv, KnowsInv, IsOpen, SameHandles, Txns
<1>11. WriterInv(x, changed')
  <2>1. x.own \cap changed' = {}
    BY <1>5, <1>6, <1>8 DEF WriterInv
  <2>2. \A g \in Handles : IsDirty(x, g) => g # h /\ IsDirty(r, g) /\ r.can[g] # NoName
                                            /\ x.can[g] = r.can[g]
    BY <1>5, <1>8, <1>9 DEF WriterInv
  <2>3. ASSUME NEW k \in Names, \A g \in Handles : IsDirty(x, g) => x.can[g] # k
        PROVE  x.main[k] = x.view[k]
    <3>1. CASE k = n
      BY <1>3, <3>1
    <3>2. CASE k # n
      <4>1. \A g \in Handles : IsDirty(r, g) => r.can[g] # k
        BY <1>4, <1>8, <1>9, <2>3, <3>2 DEF SameHandles
      <4> QED BY <1>3, <1>5, <3>2, <4>1 DEF WriterInv
    <3> QED BY <3>1, <3>2
  <2>4. ASSUME NEW g \in Handles, IsDirty(x, g), g \notin changed'
        PROVE  x.db[g] = x.view[x.can[g]] /\ (Stale(x, g) => x.main[x.can[g]] = Absent)
    <3>1. g # h /\ IsDirty(r, g) /\ r.can[g] # NoName /\ x.can[g] = r.can[g] /\ g \notin changed
      BY <1>6, <2>2, <2>4
    <3>2. r.can[g] # n /\ r.can[g] \in Names
      BY <1>10, <3>1
    <3> QED BY <1>3, <1>5, <1>9, <3>1, <3>2 DEF WriterInv
  <2>5. ASSUME NEW g \in Handles, Loaded(x, g), g \notin changed', x.can[g] # NoName
        PROVE  x.db[g] = x.view[x.can[g]]
    <3>1. g # h /\ Loaded(r, g) /\ r.can[g] # NoName /\ x.can[g] = r.can[g] /\ g \notin changed
      BY <1>6, <1>8, <1>9, <2>5
    <3>2. r.can[g] # n /\ r.can[g] \in Names
      BY <1>10, <3>1
    <3> QED BY <1>3, <1>5, <3>1, <3>2 DEF WriterInv
  <2>6. \A g \in Handles : IsDirty(x, g) => x.can[g] # NoName
    BY <2>2
  <2> QED BY <2>1, <2>3, <2>4, <2>5, <2>6 DEF WriterInv
<1>12. ASSUME NEW i \in Line, i # m PROVE WriterInv(wr'[i], changed')
  <2>1. /\ wr[i] \in Txns /\ wr'[i] \in Txns /\ KnowsInv(wr[i]) /\ WriterInv(wr[i], changed)
        /\ wr'[i].main = wr[i].main /\ wr'[i].view = wr[i].view
        /\ wr'[i].db = wr[i].db /\ wr'[i].flags = wr[i].flags
    BY <1>3, <1>12, WrType, ForgetsType, ForgetsSame DEF HandleInv, ContentInv
  <2>2. ~IsDirty(wr[i], h)
    <3>1. i \in DOMAIN Front(wr) /\ Front(wr)[i] = wr[i]
      <4>1. /\ Front(wr) \in Seq(Txns) /\ Len(Front(wr)) = m - 1
            /\ \A j \in 1..(m - 1) : Front(wr)[j] = wr[j]
        BY <1>0, <1>1, WrType, LastFront
      <4>2. i \in 1..(m - 1)
        BY <1>2, <1>12
      <4> QED BY <4>1, <4>2
    <3>2. h \notin Dirty(wr[i])
      BY <1>1, <3>1 DEF MayClose
    <3> QED BY <2>1, <3>2 DEF Dirty, IsDirty, KnowsInv
  <2> QED BY <1>2, <1>6, <2>1, <2>2, ForgetsWriter
<1>13. \A i \in Line : WriterInv(wr'[i], changed')
  BY <1>11, <1>12 DEF x
<1>14. ASSUME NEW i \in Line, NEW g \in Handles, g # h, Loaded(wr'[i], g)
       PROVE  Loaded(wr[i], g)
  <2>1. CASE i = m
    <3>1. Loaded(r, g)
      BY <1>9, <1>14, <2>1 DEF x
    <3> QED BY <1>2, <1>4, <1>14, <2>1, <3>1 DEF Loaded, Stale, TXN_DBI_EXIST, SameHandles
  <2>2. CASE i # m
    <3>1. wr'[i].flags = wr[i].flags /\ wr'[i].num = wr[i].num
      BY <1>3, <2>2, WrType, ForgetsSame
    <3> QED BY <1>14, <3>1 DEF Loaded, Stale, TXN_DBI_EXIST
  <2> QED BY <2>1, <2>2
<1>15. LoadedInv'
  BY <1>2, <1>6, <1>14, ForgetsLoaded
<1>16. ReaderInv'
  BY <1>6, ForgetsReader DEF ContentInv
<1>17. file' = store'
  BY <1>1 DEF ContentInv
<1> QED BY <1>6, <1>13, <1>15, <1>16, <1>17 DEF ContentInv

-----------------------------------------------------------------------------
(***************************************************************************)
(* The theorems.                                                           *)
(***************************************************************************)

\* Every step keeps the invariant of the contents.
LEMMA ContentNext ==
  ASSUME TypeOK, TypeOK', HandleInv, ContentInv, [Next]_vars PROVE ContentInv'
<1>1. CASE Next
  <2>1. CASE BeginRead \/ BeginWrite \/ BeginChild
    BY <2>1, ContentBeginRead, ContentBeginWrite, ContentBeginChild
  <2>2. CASE EndRead \/ (wr # <<>> /\ AbortOne) \/ CommitChild \/ CommitFailed
    BY <2>2, ContentEndRead, ContentAbort, ContentCommitChild, ContentCommitFailed
  <2>3. CASE (wr # <<>> /\ Committed) \/ OtherProcess
    BY <2>3, ContentCommitted, ContentOther
  <2>4. CASE \E n \in Names : OpenRead(n) \/ \E create \in BOOLEAN : OpenWrite(n, create)
    BY <2>4, ContentOpenRead, ContentOpenWrite
  <2>5. CASE \E h \in Handles : \/ Close(h) \/ GetRead(h)
                                \/ WriterReads(h) \/ WriterChanges(h) \/ WriterDrops(h)
    BY <2>5, ContentClose, ContentGetRead, ContentReads, ContentChanges, ContentDrops
  <2> QED BY <1>1, <2>1, <2>2, <2>3, <2>4, <2>5, StepCases
<1>2. CASE UNCHANGED vars
  <2>1. UNCHANGED <<file, store, rd, wr, changed>> /\ Line' = Line
    BY <1>2 DEF vars, Line
  <2> QED BY <2>1, ReaderStays DEF ContentInv, LoadedInv
<1> QED BY <1>1, <1>2

(***************************************************************************)
(* The inductive invariant.                                                *)
(***************************************************************************)
THEOREM SpecDbiInv == Spec => []DbiInv
<1>1. Init => DbiInv
  BY TypeInit, HandleInit, ContentInit DEF DbiInv
<1>2. DbiInv /\ [Next]_vars => DbiInv'
  <2> SUFFICES ASSUME DbiInv, [Next]_vars PROVE DbiInv'
    OBVIOUS
  <2>1. TypeOK'
    BY TypeNext DEF DbiInv, HandleInv
  <2>2. HandleInv'
    BY <2>1, HandleNext DEF DbiInv
  <2>3. ContentInv'
    BY <2>1, ContentNext DEF DbiInv
  <2> QED BY <2>1, <2>2, <2>3 DEF DbiInv
<1> QED BY <1>1, <1>2, PTL DEF Spec

(***************************************************************************)
(* What mdb_txn_commit writes under each name is what callers did by that  *)
(* name, whatever handles were opened, closed and opened again.            *)
(***************************************************************************)
THEOREM SpecCommittedByName == Spec => []CommittedByName
<1>1. DbiInv => CommittedByName
  BY DEF DbiInv, ContentInv, CommittedByName
<1> QED BY <1>1, SpecDbiInv, PTL

(***************************************************************************)
(* No handle is lost: when no transaction is open, the table has those     *)
(* that callers know, under the same names.                                *)
(***************************************************************************)
THEOREM SpecHandleKept == Spec => []HandleKept
<1>1. DbiInv => HandleKept
  <2> SUFFICES ASSUME DbiInv, Live = {}
               PROVE  env.name = known /\ \A h \in Open(Handles) : env.valid[h] /\ h < env.num
    BY DEF HandleKept
  <2>1. TypeOK /\ TableInv
    BY DEF DbiInv, HandleInv
  <2>2. rd = NewTxn
    BY <2>1 DEF Live, TypeOK
  <2>3. ASSUME NEW i \in Line PROVE FALSE
    <3>1. wr[i].live /\ i \in DOMAIN wr
      BY <2>1, LineDomain DEF TypeOK
    <3>2. wr[i] \in Live
      BY <3>1 DEF Live, Range
    <3> QED BY <3>2
  <2>4. \A h \in Handles : ~HasOpened(rd, h)
    BY <2>2 DEF NewTxn, HasOpened, IsNew
  <2>5. \A h \in Handles : IsOpen(h) => known[h] # NoName
    BY <2>1, <2>3, <2>4 DEF TableInv
  <2>6. \A h \in Handles : env.name[h] = known[h]
    BY <2>1, <2>5 DEF TableInv, IsOpen
  <2>7. env.name = known
    BY <2>1, <2>6 DEF TypeOK
  <2>8. \A h \in Open(Handles) : env.valid[h] /\ h < env.num
    BY <2>1, <2>5 DEF TableInv, Open, IsOpen
  <2> QED BY <2>7, <2>8
<1> QED BY <1>1, SpecDbiInv, PTL

\* What a reader reads with a handle it owns.
LEMMA ReaderReads ==
  ASSUME DbiInv, NEW h \in Handles, rd.live, rd.can[h] # NoName, h \in rd.own
  PROVE  Found(rd, h, FALSE) \in {Error, rd.view[rd.can[h]]}
<1>0. PICK c \in SUBSET Handles : c = {}
  OBVIOUS
<1> DEFINE r == Resolved(rd, h, h \in c)
<1>1. rd \in Txns /\ env.name[h] = rd.can[h] /\ ReaderInv
  BY WrType DEF DbiInv, HandleInv, KnowsInv, ContentInv
<1>2. Found(rd, h, FALSE) =
        IF ~TXN_DBI_EXIST(rd, h) \/ rd.err \/ Stale(r, h) THEN Error ELSE r.db[h]
  <2>1. (h \in c) = FALSE
    BY <1>0
  <2> QED BY <2>1 DEF Found
<1>3. \/ r = rd
      \/ r.db[h] = rd.main[rd.can[h]]
  BY <1>1, ResolvedCases
<1> HIDE DEF r
<1>4. CASE r = rd
  BY <1>1, <1>2, <1>4 DEF ReaderInv, Loaded
<1>5. CASE r.db[h] = rd.main[rd.can[h]]
  BY <1>1, <1>2, <1>5 DEF ReaderInv
<1> QED BY <1>3, <1>4, <1>5

\* What a writer reads with a handle it owns.
LEMMA WriterReadsRight ==
  ASSUME DbiInv, wr # <<>>, NEW h \in Handles, w.can[h] # NoName, h \in w.own
  PROVE  Found(w, h, Changed(h)) \in {Error, w.view[w.can[h]]}
<1> DEFINE r == Resolved(w, h, Changed(h))
<1>1. /\ w \in Txns /\ KnowsInv(w) /\ TableInv /\ TypeOK /\ WriterInv(w, changed)
      /\ changed \in SUBSET Handles
  BY WriterKnows DEF DbiInv
<1>2. h \notin changed
  BY <1>1 DEF WriterInv
<1>3. WriterInv(r, changed)
  BY <1>1, ResolvedWriter DEF Changed
<1>4. r.can = w.can /\ r.num = w.num /\ r.flags[h] \in {w.flags[h], w.flags[h] \ {"STALE"}}
  BY <1>1, ResolvedIs DEF Changed, SameHandles
<1>5. r.view = w.view
  <2>1. Changed(h) \in BOOLEAN
    BY DEF Changed
  <2> QED BY <1>1, <2>1, ResolvedSame
<1>6. Found(w, h, Changed(h)) =
        IF ~TXN_DBI_EXIST(w, h) \/ w.err \/ Stale(r, h) THEN Error ELSE r.db[h]
  BY DEF Found
<1> HIDE DEF r
<1>7. ASSUME TXN_DBI_EXIST(w, h), ~Stale(r, h) PROVE r.db[h] = w.view[w.can[h]]
  <2>1. Loaded(r, h)
    BY <1>4, <1>7 DEF Loaded, TXN_DBI_EXIST
  <2> QED BY <1>2, <1>3, <1>4, <1>5, <2>1 DEF WriterInv
<1> QED BY <1>6, <1>7

(***************************************************************************)
(* Through a handle that was open when it began, or that it opened, a      *)
(* transaction reads the database of the name the handle was opened for.   *)
(* That no transaction uses a handle opened since it began is an           *)
(* assumption: without it the property fails.                              *)
(***************************************************************************)
THEOREM SpecRightDatabase ==
  ASSUME "reuse" \notin Habits PROVE Spec => []RightDatabase
<1>1. DbiInv => RightDatabase
  <2> SUFFICES ASSUME DbiInv PROVE RightDatabase
    OBVIOUS
  <2>1. \A h \in Handles : MayRead(rd, h) => Found(rd, h, FALSE) \in {Error, rd.view[rd.can[h]]}
    BY ReaderReads DEF MayRead
  <2>2. wr # <<>> => \A h \in Handles :
          MayRead(w, h) => Found(w, h, Changed(h)) \in {Error, w.view[w.can[h]]}
    BY WriterReadsRight DEF MayRead
  <2> QED BY <2>1, <2>2 DEF RightDatabase
<1> QED BY <1>1, SpecDbiInv, PTL
=============================================================================
