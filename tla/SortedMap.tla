----------------------------- MODULE SortedMap -----------------------------
(***************************************************************************)
(* What a write transaction's database promises its caller: a sorted map,  *)
(* and cursors that each denote a key (or the place past the last one) and *)
(* keep denoting it whatever the other operations of the transaction do.   *)
(* The B+tree of mdb.c, module BTree, implements this specification.       *)
(***************************************************************************)
EXTENDS Integers, FiniteSets

CONSTANTS Key,      \* a finite set of naturals, ordered by <, without 0
          Val,
          Cursors   \* the cursors opened with mdb_cursor_open

NoKey == 0          \* no key is returned
Unset == -1         \* the cursor is not initialised
AtEnd == -2         \* the cursor stands after the last key
Lost  == -3         \* where MDB_SET leaves a cursor that misses its key

VARIABLES map,   \* the pairs of the database, a function on a subset of Key
          pos,   \* the key each cursor stands at, or Unset, AtEnd or Lost
          del,   \* the cursor's key went away: MDB_NEXT must not step over pos
          eof,   \* the cursor believes that nothing follows it
          ret    \* the last operation, the code and the key it returned

vars == <<map, pos, del, eof, ret>>

Keys == DOMAIN map

Call(op)  == ret'.op = op
Gives(rc, k) == ret' = [op |-> ret'.op, rc |-> rc, key |-> k]

Least(S)     == CHOOSE k \in S : \A j \in S : k <= j
Greatest(S)  == CHOOSE k \in S : \A j \in S : j <= k
After(S, k)  == {j \in S : j > k}
Before(S, k) == {j \in S : j < k}
\* The first key of S, or the place past the last.
FirstOf(S) == IF S = {} THEN AtEnd ELSE Least(S)

-----------------------------------------------------------------------------
(* What happens to the cursors when a pair is stored or removed.           *)

\* The cursors other than those in C keep what they believe, and their place.
Believed(C) == \A c \in Cursors \ C : eof'[c] = eof[c]
Stay(C) == /\ Believed(C)
           /\ \A c \in Cursors \ C : pos'[c] = pos[c] /\ del'[c] = del[c]
\* All of the map goes: every cursor loses its place.
AllUnset == pos' = [c \in Cursors |-> Unset] /\ del' = [c \in Cursors |-> FALSE]

\* Nothing comes before k, or after it.
Outermost(k) == Before(Keys, k) = {} \/ After(Keys, k) = {}

Empty == [k \in {} |-> NoKey]
Store(k, v) == map' = [j \in Keys \cup {k} |-> IF j = k THEN v ELSE map[j]]

\* The key a cursor stood at is gone: it stands at the one that follows, and
\* knows if none does.
Remove(k) ==
  /\ map' = [j \in Keys \ {k} |-> map[j]]
  /\ IF Keys = {k} THEN AllUnset
     ELSE \A c \in Cursors :
            \/ /\ pos[c] = k /\ pos'[c] = FirstOf(After(Keys, k)) /\ del'[c]
               /\ IF pos'[c] = AtEnd THEN eof'[c] ELSE eof'[c] => eof[c]
            \/ /\ pos[c] = Lost /\ pos'[c] \in {Lost, FirstOf(After(Keys, k))}
               /\ eof'[c] => eof[c] \/ pos'[c] \in {Lost, AtEnd}
            \/ pos[c] = AtEnd /\ pos'[c] = AtEnd
            \/ /\ pos[c] \notin {k, Lost, AtEnd}
               /\ pos'[c] = pos[c] /\ del'[c] = del[c] /\ eof'[c] = eof[c]

-----------------------------------------------------------------------------
(* mdb_put, mdb_del and mdb_drop.                                          *)

Put(k, v) ==
  /\ Call(<<"put", k, v>>)
  /\ Stay({})
  /\ \/ Gives("SUCCESS", NoKey) /\ Store(k, v)
     \/ Gives("KEYEXIST", NoKey) /\ UNCHANGED map

Del(k) ==
  /\ Call(<<"del", k>>)
  /\ IF k \in Keys THEN Gives("SUCCESS", NoKey) /\ Remove(k)
     ELSE Gives("NOTFOUND", NoKey) /\ UNCHANGED map /\ Stay({})
  /\ Keys = {k} => Believed({})

Drop == /\ Call(<<"drop">>)
        /\ Gives("SUCCESS", NoKey)
        /\ map' = Empty /\ AllUnset /\ eof' = [c \in Cursors |-> FALSE]

(* The same through a cursor, which then stands at the pair it stored, or  *)
(* in the place of the pair it removed.                                    *)

CursorPut(c, k, v) ==
  /\ Call(<<"cput", c, k, v>>)
  /\ Stay({c})
  /\ \/ /\ Gives("SUCCESS", NoKey) /\ Store(k, v) /\ pos'[c] = k /\ ~del'[c]
        /\ eof'[c] => eof[c] /\ (pos[c] \in {k, Lost} \/ Outermost(k))
     \/ Gives("KEYEXIST", NoKey) /\ UNCHANGED map /\ pos'[c] = k /\ ~eof'[c]

CursorDel(c) ==
  /\ Call(<<"cdel", c>>)
  /\ \/ /\ Gives("SUCCESS", NoKey)
        /\ \E k \in Keys : pos[c] \in {k, Lost} /\ Remove(k)
        /\ map' = Empty => Believed({c}) /\ eof'[c]
     \/ /\ pos[c] \notin Keys
        /\ Gives(IF pos[c] = Unset THEN "EINVAL" ELSE "NOTFOUND", NoKey)
        /\ UNCHANGED map /\ Stay({})

-----------------------------------------------------------------------------
(* mdb_cursor_get.                                                         *)

Answer(c, k)     == pos'[c] = k /\ Gives("SUCCESS", k)
Refuse(c, rc, p) == pos'[c] = p /\ Gives(rc, NoKey)
\* Afterwards the cursor believes that nothing follows it, or does not.
Ended(c, b) == eof'[c] = b
Same(c) == Ended(c, eof[c])

NextKeys(c) == CASE pos[c] = AtEnd -> {}
                 [] pos[c] = Unset -> Keys
                 [] OTHER -> {k \in Keys : k > pos[c] \/ (del[c] /\ k = pos[c])}
PrevKeys(c) == IF pos[c] \in {AtEnd, Unset} THEN Keys ELSE Before(Keys, pos[c])

\* No call finds anything in an empty map, where no cursor has a place.
Nothing(c) == Keys = {} /\ Refuse(c, "NOTFOUND", Unset) /\ Same(c)

First(c) == /\ Call(<<"first", c>>)
            /\ Nothing(c) \/ (Keys # {} /\ Answer(c, Least(Keys)) /\ Ended(c, FALSE))
Last(c)  == /\ Call(<<"last", c>>)
            /\ Nothing(c) \/ (Keys # {} /\ Answer(c, Greatest(Keys)) /\ Ended(c, TRUE))

Advance(c) ==
  /\ Call(<<"next", c>>)
  /\ \/ Nothing(c)
     \/ Keys # {} /\ NextKeys(c) = {} /\ Refuse(c, "NOTFOUND", pos[c]) /\ Ended(c, TRUE)
     \/ NextKeys(c) # {} /\ Answer(c, Least(NextKeys(c))) /\ Ended(c, FALSE)

Retreat(c) ==
  /\ Call(<<"prev", c>>)
  /\ \/ Nothing(c)
     \/ Keys # {} /\ PrevKeys(c) = {} /\ Refuse(c, "NOTFOUND", pos[c]) /\ Ended(c, FALSE)
     \/ PrevKeys(c) # {} /\ Answer(c, Greatest(PrevKeys(c))) /\ Ended(c, FALSE)

Current(c) ==
  /\ Call(<<"current", c>>)
  /\ CASE pos[c] = AtEnd -> Refuse(c, "NOTFOUND", AtEnd)
       [] pos[c] = Unset -> Refuse(c, "EINVAL", Unset)
       [] OTHER          -> Answer(c, pos[c])
  /\ Same(c)

Set(c, k) ==
  /\ Call(<<"set", c, k>>)
  /\ \/ Nothing(c)
     \/ k \in Keys /\ Answer(c, k) /\ Ended(c, FALSE)
     \/ Keys # {} /\ k \notin Keys /\ Refuse(c, "NOTFOUND", Lost) /\ (eof'[c] => eof[c])

SetRange(c, k) ==
  /\ Call(<<"range", c, k>>)
  /\ LET at == {j \in Keys : j >= k}
     IN  \/ Nothing(c)
         \/ at # {} /\ Answer(c, Least(at)) /\ Ended(c, FALSE)
         \/ Keys # {} /\ at = {} /\ Refuse(c, "NOTFOUND", AtEnd)

\* A cursor that missed its key is somewhere: a step of it may lead anywhere.
Anywhere(c) ==
  /\ \E op \in {"next", "prev", "current"} : Call(<<op, c>>)
  /\ \/ Refuse(c, "NOTFOUND", Lost)
     \/ \E k \in Keys : Answer(c, k) /\ (eof'[c] => Call(<<"current", c>>) /\ eof[c])

Get(c) == /\ \/ First(c) \/ Last(c)
             \/ IF pos[c] = Lost THEN Anywhere(c)
                ELSE Advance(c) \/ Retreat(c) \/ Current(c)
             \/ \E k \in Key : Set(c, k) \/ SetRange(c, k)
          /\ UNCHANGED map /\ ~del'[c] /\ Stay({c})

\* Not promised, but what mdb_cursor_next does (mdb.c:5958): a cursor that was
\* once told that nothing follows it says so again, although a key was stored
\* after it meanwhile, or the key it stands at is the one that follows the key
\* deleted under it.
Skips(c) == /\ Call(<<"next", c>>)
            /\ eof[c] /\ pos[c] # Lost /\ NextKeys(c) # {}
            /\ Refuse(c, "NOTFOUND", pos[c]) /\ Same(c)
            /\ UNCHANGED map /\ ~del'[c] /\ Stay({c})

Next == \/ \E k \in Key, v \in Val : Put(k, v)
        \/ \E k \in Key : Del(k)
        \/ Drop
        \/ \E c \in Cursors :
             \/ \E k \in Key, v \in Val : CursorPut(c, k, v)
             \/ CursorDel(c)
             \/ Get(c)

Init == /\ map \in UNION {[S -> Val] : S \in SUBSET Key}
        /\ pos = [c \in Cursors |-> Unset]
        /\ del = [c \in Cursors |-> FALSE]
        /\ eof = [c \in Cursors |-> FALSE]
        /\ ret = [op |-> <<"begin">>, rc |-> "SUCCESS", key |-> NoKey]

Spec == Init /\ [][Next]_vars
=============================================================================
