-------------------------- MODULE MapRecordsProofs --------------------------
(***************************************************************************)
(* Proofs about MapRecords, for any keys, hashes and iterators: the counts *)
(* of records, the hash table and "size" are exact, and a program sees     *)
(* what MapEntries promises.                                               *)
(***************************************************************************)
EXTENDS MapRecords, FiniteSetTheorems, NaturalsInduction, TLAPS

-----------------------------------------------------------------------------
(* The inductive invariant. A world is a map, its iterators and the calls  *)
(* in progress; in the middle of an operation the table may be without the *)
(* record d that is being deleted, and the record e may have a count for a *)
(* visitor that has left it.                                               *)

RecordType == [key : Key \cup {None}, value : Value, empty : BOOLEAN, ref_count : Nat \ {0}]
IterType == [state : {"none", "on", "done"}, cur : Nat, held : BOOLEAN]
FrameType == [at : {"callback", "returned", "moved", "looking", "thrown", "ended", "clear"},
              cur : Nat \cup {Freed}, arg : Value]

MapTyped(m) ==
  m \in [records : Seq(RecordType), hash_size : Nat \ {0}, table : {m.table}, count : Int, threshold : Nat]

(* A zombie has lost its key; no other two records have the same.          *)
KeysGood(m) ==
  /\ \A p \in DOMAIN m.records : m.records[p].empty <=> m.records[p].key = None
  /\ \A p, q \in Full(m) : m.records[p].key = m.records[q].key => p = q

TableBut(m, d) ==
  [h \in 0 .. m.hash_size - 1 |-> {p \in Full(m) \ {d} : Bucket(m.records[p].key, m.hash_size) = h}]

MapSane(m, d) == MapTyped(m) /\ KeysGood(m) /\ m.table = TableBut(m, d)

Counted(m) == m.count = Cardinality(Full(m))

(* A call that goes from one record to the next, which program code never  *)
(* interrupts.                                                             *)
Going(f) == f.at \in {"moved", "looking"}
OnTop(st) == \A j \in DOMAIN st : Going(st[j]) => j = Len(st)

(* Iterators and calls stand on records, or before the first.              *)
Standing(m, it, st) ==
  /\ it \in [Iter -> IterType] /\ st \in Seq(FrameType)
  /\ \A i \in Iter : it[i].cur \in 0 .. Len(m.records)
  /\ \A i \in Iter : it[i].state = "none" => it[i].cur = Head0
  /\ \A j \in DOMAIN st : Stands(st[j]) => st[j].cur \in 0 .. Len(m.records)
  /\ \A j \in DOMAIN st : ~Stands(st[j]) => st[j].cur \in -1 .. Len(m.records)
  /\ \A j \in DOMAIN st : st[j].at = "ended" => st[j].cur = Head0
  /\ OnTop(st)

Enumerating(it, r) == {i \in Iter : it[i].cur = r}
Calling(st, r) == {j \in DOMAIN st : Stands(st[j]) /\ st[j].cur = r}
Visits(it, st, r) == Cardinality(Enumerating(it, r)) + Cardinality(Calling(st, r))

OneIf(b) == IF b THEN 1 ELSE 0

Exact(m, it, st, e) ==
  \A r \in DOMAIN m.records :
    m.records[r].ref_count = Visits(it, st, r) + OneIf(~m.records[r].empty) + OneIf(r = e)

IsWorld(w) == w = [map |-> w.map, iter |-> w.iter, stack |-> w.stack]

Sane(w, d) == IsWorld(w) /\ MapSane(w.map, d) /\ Standing(w.map, w.iter, w.stack)
Balanced(w, e) == Exact(w.map, w.iter, w.stack, e)

Good(w) == Sane(w, Head0) /\ Counted(w.map) /\ Balanced(w, Head0)

IInv == Good(World) /\ Len(stack) <= MaxDepth

-----------------------------------------------------------------------------
(* Places, and sets of visitors.                                           *)

(* The least of a set of places, if there is any.                          *)
LEMMA Least ==
  ASSUME NEW S \in SUBSET (Nat \ {0})
  PROVE  /\ S = {} => Nearest(S) = Head0
         /\ S # {} => Nearest(S) \in S /\ \A p \in S : Nearest(S) <= p
<1>1. CASE S = {}
  BY <1>1 DEF Nearest
<1>2. CASE S # {}
  <2>1. \E x \in S : \A y \in S : ~ (<<y, x>> \in OpToRel(<, Nat))
    <3>1. S \subseteq Nat
      OBVIOUS
    <3> QED
      BY <1>2, <3>1, NatLessThanWellFounded, WFMin
  <2>2. \E x \in S : \A y \in S : x <= y
    <3>1. PICK x \in S : \A y \in S : ~ (<<y, x>> \in OpToRel(<, Nat))
      BY <2>1
    <3>2. ASSUME NEW y \in S
          PROVE  x <= y
      <4>1. x \in Nat /\ y \in Nat
        OBVIOUS
      <4>2. ~ (<<y, x>> \in OpToRel(<, Nat))
        BY <3>1
      <4>3. ~ (y < x)
        BY <4>1, <4>2 DEF OpToRel
      <4> QED
        BY <4>1, <4>3
    <3> QED
      BY <3>2
  <2> QED
    BY <1>2, <2>2 DEF Nearest, Min
<1> QED
  BY <1>1, <1>2

LEMMA Remainder ==
  ASSUME NEW a \in Nat, NEW b \in Nat \ {0}
  PROVE  a % b \in 0 .. b - 1
OBVIOUS

LEMMA RemovedAt ==
  ASSUME NEW S, NEW s \in Seq(S), NEW r \in 1 .. Len(s)
  PROVE  /\ RemoveAt(s, r) \in Seq(S)
         /\ Len(RemoveAt(s, r)) = Len(s) - 1
         /\ \A q \in 1 .. Len(s) - 1 : RemoveAt(s, r)[q] = s[IF q < r THEN q ELSE q + 1]
<1> DEFINE a == SubSeq(s, 1, r - 1)
           b == SubSeq(s, r + 1, Len(s))
<1>1. a \in Seq(S) /\ Len(a) = r - 1 /\ \A q \in 1 .. r - 1 : a[q] = s[q]
  OBVIOUS
<1>2. b \in Seq(S) /\ Len(b) = Len(s) - r /\ \A q \in 1 .. Len(s) - r : b[q] = s[q + r]
  OBVIOUS
<1> HIDE DEF a, b
<1>3. /\ a \o b \in Seq(S) /\ Len(a \o b) = Len(s) - 1
      /\ \A q \in 1 .. Len(s) - 1 : (a \o b)[q] = IF q < r THEN a[q] ELSE b[q - (r - 1)]
  <2>1. Len(s) \in Nat /\ r \in Nat /\ Len(a) + Len(b) = Len(s) - 1
    BY <1>1, <1>2
  <2>2. a \o b \in Seq(S) /\ Len(a \o b) = Len(s) - 1
    <3>1. a \in Seq(S) /\ b \in Seq(S)
      BY <1>1, <1>2
    <3>2. a \o b \in Seq(S)
      BY <3>1
    <3>3. Len(a \o b) = Len(a) + Len(b)
      BY <3>1
    <3> QED
      BY <2>1, <3>2, <3>3
  <2>3. ASSUME NEW q \in 1 .. Len(s) - 1
        PROVE  (a \o b)[q] = IF q < r THEN a[q] ELSE b[q - (r - 1)]
    <3>1. q \in 1 .. Len(a) + Len(b) /\ (q < r <=> q <= Len(a))
      BY <1>1, <2>1
    <3>2. (a \o b)[q] = IF q <= Len(a) THEN a[q] ELSE b[q - Len(a)]
      BY <1>1, <1>2, <3>1
    <3> QED
      BY <1>1, <3>1, <3>2
  <2> QED
    BY <2>2, <2>3
<1>4. RemoveAt(s, r) = a \o b
  BY DEF RemoveAt, a, b
<1>5. ASSUME NEW q \in 1 .. Len(s) - 1
      PROVE  (a \o b)[q] = s[IF q < r THEN q ELSE q + 1]
  <2>1. CASE q < r
    BY <1>1, <1>3, <2>1
  <2>2. CASE ~ (q < r)
    <3>1. q - (r - 1) \in 1 .. Len(s) - r /\ (q - (r - 1)) + r = q + 1
      BY <2>2
    <3> QED
      BY <1>2, <1>3, <2>2, <3>1
  <2> QED
    BY <2>1, <2>2
<1> QED
  BY <1>3, <1>4, <1>5

(* Sets that differ in one member at most differ by one in size.           *)
LEMMA OneMember ==
  ASSUME NEW S, NEW T, NEW x, IsFiniteSet(S), S \ {x} = T \ {x}
  PROVE  /\ IsFiniteSet(T) /\ Cardinality(S) \in Nat /\ Cardinality(T) \in Nat
         /\ Cardinality(T) = Cardinality(S) + OneIf(x \in T) - OneIf(x \in S)
<1> DEFINE B == S \ {x}
<1>1. IsFiniteSet(B) /\ Cardinality(B) \in Nat
  BY FS_RemoveElement, FS_CardinalityType
<1>2. IsFiniteSet(B \cup {x}) /\ Cardinality(B \cup {x}) = Cardinality(B) + 1
  BY <1>1, FS_AddElement
<1>3. S = (IF x \in S THEN B \cup {x} ELSE B) /\ T = (IF x \in T THEN B \cup {x} ELSE B)
  OBVIOUS
<1> HIDE DEF B
<1>4. Cardinality(S) = Cardinality(B) + OneIf(x \in S) /\ IsFiniteSet(S)
  <2>1. CASE x \in S
    BY <1>1, <1>2, <1>3, <2>1 DEF OneIf
  <2>2. CASE x \notin S
    BY <1>1, <1>3, <2>2 DEF OneIf
  <2> QED
    BY <2>1, <2>2
<1>5. Cardinality(T) = Cardinality(B) + OneIf(x \in T) /\ IsFiniteSet(T)
  <2>1. CASE x \in T
    BY <1>1, <1>2, <1>3, <2>1 DEF OneIf
  <2>2. CASE x \notin T
    BY <1>1, <1>3, <2>2 DEF OneIf
  <2> QED
    BY <2>1, <2>2
<1> QED
  BY <1>1, <1>4, <1>5 DEF OneIf

LEMMA VisitsNat ==
  ASSUME NEW it, NEW st \in Seq(FrameType), NEW r
  PROVE  /\ IsFiniteSet(Enumerating(it, r)) /\ Cardinality(Enumerating(it, r)) \in Nat
         /\ IsFiniteSet(Calling(st, r)) /\ Cardinality(Calling(st, r)) \in Nat
         /\ Visits(it, st, r) \in Nat
         /\ Visits(it, st, r) = 0 => Enumerating(it, r) = {} /\ Calling(st, r) = {}
<1>1. IsFiniteSet(Enumerating(it, r)) /\ Cardinality(Enumerating(it, r)) \in Nat
  BY MapAssumption, FS_Subset, FS_CardinalityType DEF Enumerating
<1>2. IsFiniteSet(DOMAIN st)
  BY FS_Interval
<1>3. IsFiniteSet(Calling(st, r)) /\ Cardinality(Calling(st, r)) \in Nat
  BY <1>2, FS_Subset, FS_CardinalityType DEF Calling
<1> QED
  BY <1>1, <1>3, FS_EmptySet DEF Visits

(* An iterator moves.                                                      *)
LEMMA VisitsMoved ==
  ASSUME NEW it, NEW it2, NEW i \in Iter, NEW st \in Seq(FrameType), NEW r,
         \A j \in Iter \ {i} : it2[j].cur = it[j].cur
  PROVE  Visits(it2, st, r) = Visits(it, st, r) + OneIf(it2[i].cur = r) - OneIf(it[i].cur = r)
<1>1. Enumerating(it, r) \ {i} = Enumerating(it2, r) \ {i}
  BY DEF Enumerating
<1>2. (i \in Enumerating(it, r) <=> it[i].cur = r) /\ (i \in Enumerating(it2, r) <=> it2[i].cur = r)
  BY DEF Enumerating
<1>3. IsFiniteSet(Enumerating(it, r)) /\ Cardinality(Calling(st, r)) \in Nat
  BY VisitsNat
<1> QED
  BY <1>1, <1>2, <1>3, OneMember DEF Visits, OneIf

(* One call is added, changed or removed.                                  *)
AlikeBut(st, st2, k) ==
  DOMAIN st \ {k} = DOMAIN st2 \ {k} /\ \A j \in DOMAIN st \ {k} : st2[j] = st[j]
At(st, k) == IF k \in DOMAIN st /\ Stands(st[k]) THEN st[k].cur ELSE Head0

LEMMA VisitsCalled ==
  ASSUME NEW it, NEW st \in Seq(FrameType), NEW st2 \in Seq(FrameType), NEW k, NEW r,
         AlikeBut(st, st2, k), r # Head0
  PROVE  Visits(it, st2, r) = Visits(it, st, r) + OneIf(r = At(st2, k)) - OneIf(r = At(st, k))
<1>1. Calling(st, r) \ {k} = Calling(st2, r) \ {k}
  BY DEF Calling, AlikeBut
<1>2. /\ k \in Calling(st, r) <=> r = At(st, k)
      /\ k \in Calling(st2, r) <=> r = At(st2, k)
  BY DEF Calling, At
<1>3. IsFiniteSet(Calling(st, r)) /\ Cardinality(Enumerating(it, r)) \in Nat
  BY VisitsNat
<1> QED
  BY <1>1, <1>2, <1>3, OneMember DEF Visits, OneIf

-----------------------------------------------------------------------------
(* A record is unlinked: those behind it move up.                          *)

Shift(r, p) == IF p > r THEN p - 1 ELSE IF p = r THEN Freed ELSE p
Back(r, q) == IF q < r THEN q ELSE q + 1

LEMMA ShiftBack ==
  ASSUME NEW n \in Nat, NEW r \in 1 .. n
  PROVE  /\ \A q \in 1 .. n - 1 : Back(r, q) \in (1 .. n) \ {r} /\ Shift(r, Back(r, q)) = q
         /\ \A p \in (1 .. n) \ {r} : Shift(r, p) \in 1 .. n - 1 /\ Back(r, Shift(r, p)) = p
         /\ \A p \in -1 .. n : \A q \in 1 .. n - 1 : Shift(r, p) = q <=> p = Back(r, q)
         /\ \A p \in -1 .. n : Shift(r, p) \in -1 .. n - 1
         /\ \A p \in 0 .. n : p # r => Shift(r, p) \in 0 .. n - 1
         /\ Shift(r, Head0) = Head0
BY DEF Shift, Back, Freed, Head0

LEMMA UnlinkFields ==
  ASSUME NEW w, NEW r \in DOMAIN w.map.records, IsWorld(w), MapTyped(w.map), w.iter \in [Iter -> IterType],
         w.stack \in Seq(FrameType)
  PROVE  LET u == Unlink(w, r) IN
         /\ IsWorld(u)
         /\ u.map = [records |-> RemoveAt(w.map.records, r), hash_size |-> w.map.hash_size,
                     table |-> [h \in DOMAIN w.map.table |-> {Shift(r, p) : p \in w.map.table[h]}],
                     count |-> w.map.count, threshold |-> w.map.threshold]
         /\ u.iter = [i \in Iter |-> [w.iter[i] EXCEPT !.cur = Shift(r, w.iter[i].cur)]]
         /\ u.stack = [j \in DOMAIN w.stack |-> [w.stack[j] EXCEPT !.cur = Shift(r, w.stack[j].cur)]]
<1>1. Unlink(w, r).map = [w.map EXCEPT !.records = RemoveAt(w.map.records, r),
                            !.table = [h \in DOMAIN w.map.table |-> {Shift(r, p) : p \in w.map.table[h]}]]
  BY DEF Unlink, Shift
<1>2. w.map = [records |-> w.map.records, hash_size |-> w.map.hash_size, table |-> w.map.table,
               count |-> w.map.count, threshold |-> w.map.threshold]
  BY DEF MapTyped
<1>3. Unlink(w, r).iter = [i \in Iter |-> [w.iter[i] EXCEPT !.cur = Shift(r, w.iter[i].cur)]]
  BY DEF Unlink, Shift
<1>4. Unlink(w, r).stack = [j \in DOMAIN w.stack |-> [w.stack[j] EXCEPT !.cur = Shift(r, w.stack[j].cur)]]
  BY DEF Unlink, Shift
<1>5. IsWorld(Unlink(w, r))
  BY DEF Unlink, IsWorld
<1> QED
  BY <1>1, <1>2, <1>3, <1>4, <1>5

(* Nobody stands on r, which is a zombie or the record being deleted.      *)
Lonely(w, d, r) ==
  /\ w.map.records[r].empty \/ r = d
  /\ Visits(w.iter, w.stack, r) = 0
  /\ \A p \in DOMAIN w.map.records \ {r} :
       w.map.records[p].ref_count = Visits(w.iter, w.stack, p) + OneIf(~w.map.records[p].empty)

LEMMA Unlinked ==
  ASSUME NEW w, NEW d, NEW r \in DOMAIN w.map.records, Sane(w, d), d = Head0 \/ d \in Full(w.map),
         Lonely(w, d, r)
  PROVE  LET u == Unlink(w, r) IN
         /\ Sane(u, IF r = d THEN Head0 ELSE Shift(r, d)) /\ Balanced(u, Head0)
         /\ Cardinality(Full(u.map)) = Cardinality(Full(w.map) \ {r}) /\ u.map.count = w.map.count
         /\ Len(u.stack) = Len(w.stack)
         /\ d \in Full(w.map) \ {r} =>
              Shift(r, d) \in Full(u.map) /\ u.map.records[Shift(r, d)] = w.map.records[d]
<1> DEFINE u == Unlink(w, r)
           n == Len(w.map.records)
           d2 == IF r = d THEN Head0 ELSE Shift(r, d)
<1>1. /\ IsWorld(u)
      /\ u.map = [records |-> RemoveAt(w.map.records, r), hash_size |-> w.map.hash_size,
                  table |-> [h \in DOMAIN w.map.table |-> {Shift(r, p) : p \in w.map.table[h]}],
                  count |-> w.map.count, threshold |-> w.map.threshold]
      /\ u.iter = [i \in Iter |-> [w.iter[i] EXCEPT !.cur = Shift(r, w.iter[i].cur)]]
      /\ u.stack = [j \in DOMAIN w.stack |-> [w.stack[j] EXCEPT !.cur = Shift(r, w.stack[j].cur)]]
  BY UnlinkFields DEF Sane, MapSane, Standing
<1>2. w.map.records \in Seq(RecordType) /\ n \in Nat /\ r \in 1 .. n /\ DOMAIN w.map.records = 1 .. n
  BY DEF Sane, MapSane, MapTyped
<1>3. /\ RemoveAt(w.map.records, r) \in Seq(RecordType) /\ Len(RemoveAt(w.map.records, r)) = n - 1
      /\ \A q \in 1 .. n - 1 : RemoveAt(w.map.records, r)[q] = w.map.records[IF q < r THEN q ELSE q + 1]
  BY <1>2, RemovedAt
<1>4. /\ u.map.records \in Seq(RecordType) /\ Len(u.map.records) = n - 1 /\ DOMAIN u.map.records = 1 .. n - 1
      /\ \A q \in 1 .. n - 1 : u.map.records[q] = w.map.records[Back(r, q)]
  BY <1>1, <1>2, <1>3 DEF Back
<1>5. /\ \A q \in 1 .. n - 1 : Back(r, q) \in (1 .. n) \ {r} /\ Shift(r, Back(r, q)) = q
      /\ \A p \in (1 .. n) \ {r} : Shift(r, p) \in 1 .. n - 1 /\ Back(r, Shift(r, p)) = p
      /\ \A p \in -1 .. n : \A q \in 1 .. n - 1 : Shift(r, p) = q <=> p = Back(r, q)
      /\ \A p \in -1 .. n : Shift(r, p) \in -1 .. n - 1
      /\ \A p \in 0 .. n : p # r => Shift(r, p) \in 0 .. n - 1
      /\ Shift(r, Head0) = Head0
  BY <1>2, ShiftBack
<1>6. /\ \A p \in Full(w.map) \ {r} : Shift(r, p) \in Full(u.map)
      /\ \A q \in Full(u.map) : Back(r, q) \in Full(w.map) \ {r}
      /\ Full(u.map) \subseteq 1 .. n - 1 /\ Full(w.map) \subseteq 1 .. n
  BY <1>2, <1>4, <1>5 DEF Full
<1>7. Enumerating(w.iter, r) = {} /\ Calling(w.stack, r) = {}
  BY VisitsNat DEF Lonely, Sane, Standing
<1>8. MapTyped(u.map)
  BY <1>1, <1>4 DEF MapTyped, Sane, MapSane
<1>9. KeysGood(u.map)
  <2>1. /\ \A p \in 1 .. n : w.map.records[p].empty <=> w.map.records[p].key = None
        /\ \A p, q \in Full(w.map) : w.map.records[p].key = w.map.records[q].key => p = q
    BY <1>2 DEF KeysGood, Sane, MapSane
  <2>2. ASSUME NEW q \in 1 .. n - 1
        PROVE  u.map.records[q].empty <=> u.map.records[q].key = None
    <3>1. Back(r, q) \in 1 .. n /\ u.map.records[q] = w.map.records[Back(r, q)]
      BY <1>4, <1>5
    <3> QED
      BY <2>1, <3>1
  <2>3. ASSUME NEW p \in Full(u.map), NEW q \in Full(u.map), u.map.records[p].key = u.map.records[q].key
        PROVE  p = q
    <3>1. /\ p \in 1 .. n - 1 /\ q \in 1 .. n - 1
          /\ Back(r, p) \in Full(w.map) /\ Back(r, q) \in Full(w.map)
          /\ Shift(r, Back(r, p)) = p /\ Shift(r, Back(r, q)) = q
      BY <1>5, <1>6
    <3>2. w.map.records[Back(r, p)].key = w.map.records[Back(r, q)].key
      BY <1>4, <2>3, <3>1
    <3>3. Back(r, p) = Back(r, q)
      BY <2>1, <3>1, <3>2
    <3> QED
      BY <3>1, <3>3
  <2> QED
    BY <1>4, <2>2, <2>3 DEF KeysGood
<1>10. u.map.table = TableBut(u.map, d2)
  <2>1. /\ DOMAIN w.map.table = 0 .. w.map.hash_size - 1
        /\ \A h \in 0 .. w.map.hash_size - 1 : w.map.table[h]
             = {p \in Full(w.map) \ {d} : Bucket(w.map.records[p].key, w.map.hash_size) = h}
    BY DEF Sane, MapSane, TableBut
  <2>2. ASSUME NEW h \in 0 .. w.map.hash_size - 1
        PROVE  {Shift(r, p) : p \in w.map.table[h]}
                 = {q \in Full(u.map) \ {d2} : Bucket(u.map.records[q].key, w.map.hash_size) = h}
    <3> DEFINE A == {Shift(r, p) : p \in w.map.table[h]}
               B == {q \in Full(u.map) \ {d2} : Bucket(u.map.records[q].key, w.map.hash_size) = h}
    <3>1. r \notin w.map.table[h]
      BY <2>1 DEF Full, Lonely
    <3>2. ASSUME NEW p \in w.map.table[h]
          PROVE  Shift(r, p) \in B
      <4>1. p \in Full(w.map) \ {r} /\ p # d /\ Bucket(w.map.records[p].key, w.map.hash_size) = h
        BY <2>1, <3>1
      <4>2. Shift(r, p) \in Full(u.map) /\ u.map.records[Shift(r, p)] = w.map.records[p]
        BY <1>4, <1>5, <1>6, <4>1
      <4>3. Shift(r, p) # d2
        BY <1>2, <1>5, <1>6, <4>1 DEF Head0
      <4> QED
        BY <4>1, <4>2, <4>3
    <3>3. ASSUME NEW q \in B
          PROVE  Back(r, q) \in w.map.table[h] /\ Shift(r, Back(r, q)) = q
      <4>1. q \in Full(u.map) /\ q \in 1 .. n - 1 /\ q # d2
        BY <1>6
      <4>2. Back(r, q) \in Full(w.map) \ {r} /\ u.map.records[q] = w.map.records[Back(r, q)] /\ Shift(r, Back(r, q)) = q
        BY <1>4, <1>5, <1>6, <4>1
      <4>3. Back(r, q) # d
        BY <4>1, <4>2
      <4> QED
        BY <2>1, <4>2, <4>3
    <3> QED
      BY <3>2, <3>3
  <2>3. u.map.table = [h \in 0 .. w.map.hash_size - 1 |-> {Shift(r, p) : p \in w.map.table[h]}]
        /\ u.map.hash_size = w.map.hash_size
    BY <1>1, <2>1
  <2> QED
    BY <2>2, <2>3 DEF TableBut
<1>11. Standing(u.map, u.iter, u.stack)
  <2>1. ASSUME NEW i \in Iter
        PROVE  /\ w.iter[i] \in IterType /\ w.iter[i].cur \in (0 .. n) \ {r}
               /\ u.iter[i] = [w.iter[i] EXCEPT !.cur = Shift(r, w.iter[i].cur)]
               /\ u.iter[i].cur = Shift(r, w.iter[i].cur) /\ u.iter[i].state = w.iter[i].state
    <3>1. w.iter \in [Iter -> IterType] /\ w.iter[i].cur \in 0 .. n
      BY DEF Sane, Standing
    <3>2. w.iter[i] \in IterType /\ w.iter[i].cur # r
      BY <1>7, <3>1 DEF Enumerating
    <3>3. u.iter[i] = [w.iter[i] EXCEPT !.cur = Shift(r, w.iter[i].cur)]
      BY <1>1
    <3>4. u.iter[i].cur = Shift(r, w.iter[i].cur) /\ u.iter[i].state = w.iter[i].state
      BY <3>2, <3>3 DEF IterType
    <3> QED
      BY <3>1, <3>2, <3>3, <3>4
  <2>2. u.iter \in [Iter -> IterType]
    <3>1. ASSUME NEW i \in Iter
          PROVE  [w.iter[i] EXCEPT !.cur = Shift(r, w.iter[i].cur)] \in IterType
      <4>1. Shift(r, w.iter[i].cur) \in 0 .. n - 1
        BY <1>5, <2>1
      <4> QED
        BY <2>1, <4>1 DEF IterType
    <3> QED
      BY <1>1, <3>1
  <2>3. /\ \A i \in Iter : u.iter[i].cur \in 0 .. n - 1
        /\ \A i \in Iter : u.iter[i].state = "none" => u.iter[i].cur = Head0
    <3>1. ASSUME NEW i \in Iter
          PROVE  u.iter[i].cur \in 0 .. n - 1 /\ (u.iter[i].state = "none" => u.iter[i].cur = Head0)
      <4>1. w.iter[i].state = "none" => w.iter[i].cur = Head0
        BY DEF Sane, Standing
      <4> QED
        <5>1. Shift(r, w.iter[i].cur) \in 0 .. n - 1 /\ Shift(r, Head0) = Head0
          BY <1>5, <2>1
        <5> QED
          BY <2>1, <4>1, <5>1
    <3> QED
      BY <3>1
  <2>4. w.stack \in Seq(FrameType) /\ u.stack = [j \in 1 .. Len(w.stack) |-> u.stack[j]]
    BY <1>1 DEF Sane, Standing
  <2>5. ASSUME NEW j \in DOMAIN w.stack
        PROVE  /\ w.stack[j] \in FrameType
               /\ u.stack[j] = [w.stack[j] EXCEPT !.cur = Shift(r, w.stack[j].cur)]
               /\ u.stack[j].cur = Shift(r, w.stack[j].cur) /\ u.stack[j].at = w.stack[j].at
               /\ Stands(u.stack[j]) => w.stack[j].cur \in (0 .. n) \ {r}
               /\ w.stack[j].cur \in -1 .. n
               /\ u.stack[j].at = "ended" => w.stack[j].cur = Head0
    <3>1. /\ w.stack[j] \in FrameType
          /\ Stands(w.stack[j]) => w.stack[j].cur \in 0 .. n
          /\ ~Stands(w.stack[j]) => w.stack[j].cur \in -1 .. n
          /\ w.stack[j].at = "ended" => w.stack[j].cur = Head0
      BY DEF Sane, Standing
    <3>2. Stands(w.stack[j]) => w.stack[j].cur # r
      BY <1>7 DEF Calling
    <3>3. u.stack[j] = [w.stack[j] EXCEPT !.cur = Shift(r, w.stack[j].cur)]
      BY <1>1
    <3>4. u.stack[j].cur = Shift(r, w.stack[j].cur) /\ u.stack[j].at = w.stack[j].at
      BY <3>1, <3>3 DEF FrameType
    <3>5. w.stack[j].cur \in -1 .. n
      BY <1>2, <3>1
    <3> QED
      BY <3>1, <3>2, <3>3, <3>4, <3>5 DEF Stands
  <2>6. ASSUME NEW j \in DOMAIN w.stack
        PROVE  /\ u.stack[j] \in FrameType /\ u.stack[j].cur \in -1 .. n - 1
               /\ Stands(u.stack[j]) => u.stack[j].cur \in 0 .. n - 1
               /\ u.stack[j].at = "ended" => u.stack[j].cur = Head0
    <3>1. Shift(r, w.stack[j].cur) \in -1 .. n - 1
          /\ (Stands(u.stack[j]) => Shift(r, w.stack[j].cur) \in 0 .. n - 1)
          /\ Shift(r, Head0) = Head0
      BY <1>2, <1>5, <2>5
    <3>2. Shift(r, w.stack[j].cur) \in Nat \cup {Freed}
      BY <1>2, <3>1 DEF Freed
    <3> QED
      BY <2>5, <3>1, <3>2 DEF FrameType
  <2>7. u.stack \in Seq(FrameType) /\ DOMAIN u.stack = DOMAIN w.stack
    <3>1. DOMAIN w.stack = 1 .. Len(w.stack) /\ Len(w.stack) \in Nat
      BY <2>4
    <3>2. \A j \in 1 .. Len(w.stack) : u.stack[j] \in FrameType
      BY <2>6, <3>1
    <3>3. [j \in 1 .. Len(w.stack) |-> u.stack[j]] \in Seq(FrameType)
      BY <3>1, <3>2
    <3> QED
      BY <2>4, <3>1, <3>3
  <2>8. OnTop(u.stack)
    <3>1. OnTop(w.stack)
      BY DEF Sane, Standing
    <3>2. Len(u.stack) = Len(w.stack)
      BY <2>4, <2>7
    <3>3. \A j \in DOMAIN w.stack : u.stack[j].at = w.stack[j].at
      BY <2>5
    <3> QED
      BY <2>7, <3>1, <3>2, <3>3 DEF OnTop, Going
  <2> QED
    BY <1>4, <2>2, <2>3, <2>6, <2>7, <2>8 DEF Standing
<1>12. Balanced(u, Head0)
  <2>1. ASSUME NEW q \in 1 .. n - 1
        PROVE  Visits(u.iter, u.stack, q) = Visits(w.iter, w.stack, Back(r, q))
    <3>1. Enumerating(u.iter, q) = Enumerating(w.iter, Back(r, q))
      <4>1. ASSUME NEW i \in Iter
            PROVE  u.iter[i].cur = Shift(r, w.iter[i].cur) /\ w.iter[i].cur \in -1 .. n
        BY <1>1, <1>2 DEF Sane, Standing, IterType
      <4> QED
        BY <1>5, <4>1 DEF Enumerating
    <3>2. Calling(u.stack, q) = Calling(w.stack, Back(r, q))
      <4>1. ASSUME NEW j \in DOMAIN w.stack
            PROVE  /\ u.stack[j].cur = Shift(r, w.stack[j].cur) /\ u.stack[j].at = w.stack[j].at
                   /\ w.stack[j].cur \in -1 .. n
        <5>1. /\ w.stack[j] \in FrameType
              /\ Stands(w.stack[j]) => w.stack[j].cur \in 0 .. n
              /\ ~Stands(w.stack[j]) => w.stack[j].cur \in -1 .. n
          BY DEF Sane, Standing
        <5>2. u.stack[j] = [w.stack[j] EXCEPT !.cur = Shift(r, w.stack[j].cur)]
          BY <1>1
        <5>3. u.stack[j].cur = Shift(r, w.stack[j].cur) /\ u.stack[j].at = w.stack[j].at
          BY <5>1, <5>2 DEF FrameType
        <5> QED
          BY <1>2, <5>1, <5>3
      <4>2. DOMAIN u.stack = DOMAIN w.stack
        BY <1>1
      <4> QED
        BY <1>5, <4>1, <4>2 DEF Calling, Stands
    <3> QED
      BY <3>1, <3>2 DEF Visits
  <2>2. ASSUME NEW q \in DOMAIN u.map.records
        PROVE  u.map.records[q].ref_count
                 = Visits(u.iter, u.stack, q) + OneIf(~u.map.records[q].empty) + OneIf(q = Head0)
    <3>1. q \in 1 .. n - 1 /\ q # Head0 /\ Back(r, q) \in DOMAIN w.map.records \ {r}
          /\ u.map.records[q] = w.map.records[Back(r, q)]
      <4>1. q \in 1 .. n - 1
        BY <1>4
      <4> QED
        <5>1. Back(r, q) \in (1 .. n) \ {r} /\ u.map.records[q] = w.map.records[Back(r, q)]
          BY <1>4, <1>5, <4>1
        <5>2. q # Head0
          BY <4>1 DEF Head0
        <5> QED
          BY <1>2, <4>1, <5>1, <5>2
    <3>2. w.map.records[Back(r, q)].ref_count
            = Visits(w.iter, w.stack, Back(r, q)) + OneIf(~w.map.records[Back(r, q)].empty)
      BY <3>1 DEF Lonely
    <3>3. Visits(w.iter, w.stack, Back(r, q)) \in Nat
      BY VisitsNat DEF Sane, Standing
    <3> QED
      BY <2>1, <3>1, <3>2, <3>3 DEF OneIf
  <2> QED
    BY <2>2 DEF Balanced, Exact
<1>13. Cardinality(Full(u.map)) = Cardinality(Full(w.map) \ {r})
  <2> DEFINE f == [p \in Full(w.map) \ {r} |-> Shift(r, p)]
  <2>1. IsFiniteSet(Full(w.map) \ {r})
    <3>1. IsFiniteSet(1 .. n) /\ Full(w.map) \ {r} \in SUBSET (1 .. n)
      BY <1>2, <1>6, FS_Interval
    <3> QED
      BY <3>1, FS_Subset
  <2>2. f \in [Full(w.map) \ {r} -> Full(u.map)]
    BY <1>6
  <2>3. \A p, q \in Full(w.map) \ {r} : f[p] = f[q] => p = q
    BY <1>5, <1>6
  <2>4. \A q \in Full(u.map) : \E p \in Full(w.map) \ {r} : f[p] = q
    BY <1>5, <1>6
  <2>5. f \in Bijection(Full(w.map) \ {r}, Full(u.map))
    BY <2>2, <2>3, <2>4 DEF Bijection, Injection, Surjection, IsInjective
  <2> QED
    BY <2>1, <2>5, FS_Bijection DEF ExistsBijection
<1>14. d \in Full(w.map) \ {r} => Shift(r, d) \in Full(u.map) /\ u.map.records[Shift(r, d)] = w.map.records[d]
  BY <1>4, <1>5, <1>6
<1>15. u.map.count = w.map.count /\ Len(u.stack) = Len(w.stack)
  BY <1>1 DEF Sane, Standing
<1>16. Sane(u, d2)
  BY <1>1, <1>8, <1>9, <1>10, <1>11 DEF Sane, MapSane
<1> HIDE DEF u, d2
<1> QED
  BY <1>12, <1>13, <1>14, <1>15, <1>16 DEF u, d2

-----------------------------------------------------------------------------
(* Operations on one record.                                               *)

WithRecord(w, r, rec) == [w EXCEPT !.map.records[r] = rec]
WithIter(w, i, x) == [w EXCEPT !.iter[i] = x]
WithStack(w, st) == [w EXCEPT !.stack = st]

(* A record keeps its key and whether it is a zombie.                      *)
LEMMA Rewritten ==
  ASSUME NEW w, NEW d, Sane(w, d), NEW r \in DOMAIN w.map.records, NEW rec \in RecordType,
         rec.key = w.map.records[r].key, rec.empty = w.map.records[r].empty
  PROVE  LET u == WithRecord(w, r, rec) IN
         /\ Sane(u, d) /\ Full(u.map) = Full(w.map) /\ u.map.count = w.map.count
         /\ u.iter = w.iter /\ u.stack = w.stack
         /\ DOMAIN u.map.records = DOMAIN w.map.records
         /\ \A p \in DOMAIN w.map.records : u.map.records[p] = IF p = r THEN rec ELSE w.map.records[p]
<1> DEFINE u == WithRecord(w, r, rec)
           rs == [w.map.records EXCEPT ![r] = rec]
<1>1. /\ IsWorld(w) /\ MapTyped(w.map) /\ KeysGood(w.map) /\ w.map.table = TableBut(w.map, d)
      /\ Standing(w.map, w.iter, w.stack) /\ w.map.records \in Seq(RecordType)
  BY DEF Sane, MapSane, MapTyped
<1>2. u.map = [w.map EXCEPT !.records = rs] /\ u.iter = w.iter /\ u.stack = w.stack /\ IsWorld(u)
  BY <1>1 DEF IsWorld, WithRecord
<1>3. /\ rs \in Seq(RecordType) /\ Len(rs) = Len(w.map.records) /\ DOMAIN rs = DOMAIN w.map.records
      /\ \A p \in DOMAIN w.map.records : rs[p] = IF p = r THEN rec ELSE w.map.records[p]
  BY <1>1
<1>4. /\ u.map.records = rs /\ u.map.hash_size = w.map.hash_size /\ u.map.table = w.map.table
      /\ u.map.count = w.map.count /\ MapTyped(u.map)
  <2>1. w.map \in [records : Seq(RecordType), hash_size : Nat \ {0}, table : {w.map.table},
                   count : Int, threshold : Nat]
    BY <1>1 DEF MapTyped
  <2>2. [w.map EXCEPT !.records = rs] \in [records : Seq(RecordType), hash_size : Nat \ {0},
                                           table : {w.map.table}, count : Int, threshold : Nat]
    BY <1>3, <2>1
  <2>3. /\ u.map.records = rs /\ u.map.hash_size = w.map.hash_size /\ u.map.table = w.map.table
        /\ u.map.count = w.map.count
    BY <1>2, <2>1
  <2> QED
    BY <1>2, <2>2, <2>3 DEF MapTyped
<1>5. \A p \in DOMAIN w.map.records : rs[p].key = w.map.records[p].key /\ rs[p].empty = w.map.records[p].empty
  BY <1>3
<1>6. Full(u.map) = Full(w.map) /\ Full(w.map) \subseteq DOMAIN w.map.records
  BY <1>3, <1>4, <1>5 DEF Full
<1>7. KeysGood(u.map)
  <2>1. /\ \A p \in DOMAIN w.map.records : w.map.records[p].empty <=> w.map.records[p].key = None
        /\ \A p, q \in Full(w.map) : w.map.records[p].key = w.map.records[q].key => p = q
    BY <1>1 DEF KeysGood
  <2>2. \A p \in DOMAIN rs : rs[p].empty <=> rs[p].key = None
    BY <1>3, <1>5, <2>1
  <2>3. \A p, q \in Full(w.map) : rs[p].key = rs[q].key => p = q
    BY <1>5, <1>6, <2>1
  <2> QED
    BY <1>4, <1>6, <2>2, <2>3 DEF KeysGood
<1>8. TableBut(u.map, d) = TableBut(w.map, d)
  BY <1>4, <1>5, <1>6 DEF TableBut
<1>9. Standing(u.map, u.iter, u.stack)
  BY <1>1, <1>2, <1>3, <1>4 DEF Standing
<1>10. Sane(u, d)
  BY <1>1, <1>2, <1>4, <1>7, <1>8, <1>9 DEF Sane, MapSane
<1> HIDE DEF u, rs
<1> QED
  BY <1>2, <1>3, <1>4, <1>6, <1>10 DEF u

(* What happens in the middle of a deletion of d, or of no deletion.       *)
Mid(w, d) == Sane(w, d) /\ Counted(w.map) /\ (d = Head0 \/ d \in Full(w.map))

(* u is what a step makes of w: all is in order, and the record that is    *)
(* being deleted is still there.                                           *)
Keeps(w, d, u) ==
  \E d2 : /\ Mid(u, d2) /\ Balanced(u, Head0) /\ Len(u.stack) = Len(w.stack)
          /\ d = Head0 => d2 = Head0
          /\ d # Head0 => d2 # Head0 /\ u.map.records[d2].key = w.map.records[d].key

LEMMA Decref ==
  ASSUME NEW w, NEW d, NEW r \in DOMAIN w.map.records, Mid(w, d), Balanced(w, r)
  PROVE  Keeps(w, d, map_decref_record(w, r))
<1>1. w.map.records \in Seq(RecordType) /\ w.stack \in Seq(FrameType) /\ r \in Nat \ {0}
  BY DEF Mid, Sane, MapSane, MapTyped, Standing
<1>2. /\ w.map.records[r].ref_count = Visits(w.iter, w.stack, r) + OneIf(~w.map.records[r].empty) + 1
      /\ Visits(w.iter, w.stack, r) \in Nat
      /\ w.map.records[r] \in RecordType /\ w.map.records[r].ref_count \in Nat
  <2>1. Visits(w.iter, w.stack, r) \in Nat
    BY <1>1, VisitsNat
  <2>2. w.map.records[r].ref_count
          = Visits(w.iter, w.stack, r) + OneIf(~w.map.records[r].empty) + OneIf(r = r)
    BY DEF Balanced, Exact
  <2>3. w.map.records[r] \in RecordType
    BY <1>1
  <2>4. w.map.records[r].ref_count \in Nat
    BY <2>3 DEF RecordType
  <2> QED
    BY <2>1, <2>2, <2>3, <2>4 DEF OneIf
<1>3. CASE w.map.records[r].ref_count = 1
  <2> DEFINE u == Unlink(w, r)
             d2 == IF r = d THEN Head0 ELSE Shift(r, d)
  <2>1. w.map.records[r].empty /\ Visits(w.iter, w.stack, r) = 0
    BY <1>2, <1>3 DEF OneIf
  <2>2. Lonely(w, d, r)
    <3>1. ASSUME NEW p \in DOMAIN w.map.records \ {r}
          PROVE  w.map.records[p].ref_count = Visits(w.iter, w.stack, p) + OneIf(~w.map.records[p].empty)
      <4>1. w.map.records[p].ref_count
              = Visits(w.iter, w.stack, p) + OneIf(~w.map.records[p].empty) + OneIf(p = r)
        BY DEF Balanced, Exact
      <4>2. Visits(w.iter, w.stack, p) \in Nat
        BY <1>1, VisitsNat
      <4> QED
        BY <4>1, <4>2 DEF OneIf
    <3> QED
      BY <2>1, <3>1 DEF Lonely
  <2>3. /\ Sane(u, d2) /\ Balanced(u, Head0)
        /\ Cardinality(Full(u.map)) = Cardinality(Full(w.map) \ {r}) /\ u.map.count = w.map.count
        /\ Len(u.stack) = Len(w.stack)
        /\ d \in Full(w.map) \ {r} =>
             Shift(r, d) \in Full(u.map) /\ u.map.records[Shift(r, d)] = w.map.records[d]
    BY <2>2, Unlinked DEF Mid
  <2>4. r \notin Full(w.map)
    BY <2>1 DEF Full
  <2>5. Counted(u.map)
    <3>1. Full(w.map) \ {r} = Full(w.map)
      BY <2>4
    <3> QED
      BY <2>3, <3>1 DEF Counted, Mid
  <2>6. d = Head0 => d2 = Head0
    BY <1>1 DEF Shift, Head0
  <2>7. d # Head0 => d \in Full(w.map) \ {r} /\ d2 = Shift(r, d)
    BY <2>4 DEF Mid
  <2>8. \A p \in Full(u.map) : p # Head0
    BY <2>3 DEF Full, Head0, Sane, MapSane, MapTyped
  <2>9. Keeps(w, d, u)
    <3> HIDE DEF u, d2
    <3> QED
      BY <2>3, <2>5, <2>6, <2>7, <2>8 DEF Keeps, Mid
  <2> QED
    BY <1>3, <2>9 DEF map_decref_record
<1>4. CASE w.map.records[r].ref_count # 1
  <2> DEFINE rec == [w.map.records[r] EXCEPT !.ref_count = w.map.records[r].ref_count - 1]
             u == WithRecord(w, r, rec)
  <2>1. /\ rec \in RecordType /\ rec.key = w.map.records[r].key /\ rec.empty = w.map.records[r].empty
        /\ rec.ref_count = w.map.records[r].ref_count - 1
    BY <1>2, <1>4 DEF RecordType
  <2>2. map_decref_record(w, r) = u
    BY <1>4 DEF map_decref_record, WithRecord
  <2> HIDE DEF rec
  <2>3. /\ Sane(u, d) /\ Full(u.map) = Full(w.map) /\ u.map.count = w.map.count
        /\ u.iter = w.iter /\ u.stack = w.stack
        /\ DOMAIN u.map.records = DOMAIN w.map.records
        /\ \A p \in DOMAIN w.map.records : u.map.records[p] = IF p = r THEN rec ELSE w.map.records[p]
    BY <2>1, Rewritten DEF Mid
  <2> HIDE DEF u
  <2>4. Balanced(u, Head0)
    <3>1. ASSUME NEW p \in DOMAIN u.map.records
          PROVE  u.map.records[p].ref_count
                   = Visits(u.iter, u.stack, p) + OneIf(~u.map.records[p].empty) + OneIf(p = Head0)
      <4>1. w.map.records[p].ref_count
              = Visits(w.iter, w.stack, p) + OneIf(~w.map.records[p].empty) + OneIf(p = r)
        BY <2>3 DEF Balanced, Exact
      <4>2. Visits(w.iter, w.stack, p) \in Nat /\ p # Head0
        <5>1. Visits(w.iter, w.stack, p) \in Nat
          BY <1>1, VisitsNat
        <5>2. p \in 1 .. Len(w.map.records)
          BY <1>1, <2>3
        <5> QED
          BY <5>1, <5>2 DEF Head0
      <4>3. u.map.records[p].empty = w.map.records[p].empty
            /\ u.map.records[p].ref_count = w.map.records[p].ref_count - OneIf(p = r)
        BY <1>2, <2>1, <2>3, <4>1, <4>2 DEF OneIf
      <4> QED
        BY <2>3, <4>1, <4>2, <4>3 DEF OneIf
    <3> QED
      BY <3>1 DEF Balanced, Exact
  <2>5. Mid(u, d)
    BY <2>3 DEF Mid, Counted
  <2>6. d # Head0 => u.map.records[d].key = w.map.records[d].key
    <3>1. d # Head0 => d \in DOMAIN w.map.records
      BY DEF Mid, Full
    <3> QED
      BY <2>1, <2>3, <3>1
  <2> QED
    BY <2>2, <2>3, <2>4, <2>5, <2>6 DEF Keeps
<1> QED
  BY <1>3, <1>4

(* r is still to be given the count of a visitor that came, e has that of  *)
(* one that left.                                                          *)
Owing(w, r, e) ==
  \A p \in DOMAIN w.map.records :
    w.map.records[p].ref_count + OneIf(p = r)
      = Visits(w.iter, w.stack, p) + OneIf(~w.map.records[p].empty) + OneIf(p = e)

LEMMA Settled ==
  ASSUME NEW w, NEW d, NEW p \in DOMAIN w.map.records, Mid(w, d)
  PROVE  /\ p \in 1 .. Len(w.map.records) /\ p # Head0 /\ Visits(w.iter, w.stack, p) \in Nat
         /\ w.map.records[p] \in RecordType /\ w.map.records[p].ref_count \in Nat \ {0}
<1>1. w.map.records \in Seq(RecordType) /\ w.stack \in Seq(FrameType)
  BY DEF Mid, Sane, MapSane, MapTyped, Standing
<1>2. Visits(w.iter, w.stack, p) \in Nat
  BY <1>1, VisitsNat
<1>3. p \in 1 .. Len(w.map.records) /\ w.map.records[p] \in RecordType
  BY <1>1
<1> QED
  BY <1>2, <1>3 DEF Head0, RecordType

LEMMA BalancedOwing ==
  ASSUME NEW w, NEW d, NEW e, Mid(w, d)
  PROVE  Balanced(w, e) <=> Owing(w, Head0, e)
<1>1. ASSUME NEW p \in DOMAIN w.map.records
      PROVE  w.map.records[p].ref_count + OneIf(p = Head0) = w.map.records[p].ref_count
  <2>1. p # Head0 /\ w.map.records[p].ref_count \in Nat
    BY Settled
  <2> QED
    BY <2>1 DEF OneIf
<1> QED
  BY <1>1 DEF Balanced, Exact, Owing

(* An iterator is set to x.                                                *)
LEMMA IterSet ==
  ASSUME NEW w, NEW d, NEW i \in Iter, NEW x \in IterType, Mid(w, d), Balanced(w, Head0),
         x.cur \in 0 .. Len(w.map.records), x.state = "none" => x.cur = Head0
  PROVE  LET u == WithIter(w, i, x) IN
         Mid(u, d) /\ Owing(u, x.cur, w.iter[i].cur) /\ u.map = w.map /\ u.stack = w.stack
<1> DEFINE u == WithIter(w, i, x)
<1>1. IsWorld(w) /\ MapSane(w.map, d) /\ Standing(w.map, w.iter, w.stack)
  BY DEF Mid, Sane
<1>2. u.map = w.map /\ u.stack = w.stack /\ IsWorld(u) /\ u.iter = [w.iter EXCEPT ![i] = x]
  BY <1>1 DEF IsWorld, WithIter
<1> HIDE DEF u
<1>3. w.iter \in [Iter -> IterType] /\ w.stack \in Seq(FrameType)
  BY <1>1 DEF Standing
<1>4. u.iter \in [Iter -> IterType] /\ u.iter[i] = x /\ \A j \in Iter \ {i} : u.iter[j] = w.iter[j]
  BY <1>2, <1>3
<1>5. Standing(u.map, u.iter, u.stack)
  BY <1>1, <1>2, <1>4 DEF Standing
<1>6. Mid(u, d)
  BY <1>1, <1>2, <1>5 DEF Mid, Sane
<1>7. ASSUME NEW p \in DOMAIN u.map.records
      PROVE  u.map.records[p].ref_count + OneIf(p = x.cur)
               = Visits(u.iter, u.stack, p) + OneIf(~u.map.records[p].empty) + OneIf(p = w.iter[i].cur)
  <2>1. p \in DOMAIN w.map.records
    BY <1>2
  <2>2. Visits(u.iter, w.stack, p) = Visits(w.iter, w.stack, p) + OneIf(x.cur = p) - OneIf(w.iter[i].cur = p)
    BY <1>3, <1>4, VisitsMoved
  <2>3. w.map.records[p].ref_count
          = Visits(w.iter, w.stack, p) + OneIf(~w.map.records[p].empty) + OneIf(p = Head0)
    BY <2>1 DEF Balanced, Exact
  <2>4. p # Head0 /\ Visits(w.iter, w.stack, p) \in Nat
    BY <2>1, Settled
  <2> QED
    BY <1>2, <2>2, <2>3, <2>4 DEF OneIf
<1> QED
  BY <1>2, <1>6, <1>7 DEF u, Owing

(* One call of the stack is added, changed or removed.                     *)
RightPlace(f, n) ==
  /\ Stands(f) => f.cur \in 0 .. n
  /\ ~Stands(f) => f.cur \in -1 .. n
  /\ f.at = "ended" => f.cur = Head0

LEMMA StackSet ==
  ASSUME NEW w, NEW d, NEW st \in Seq(FrameType), NEW k, Mid(w, d), Balanced(w, Head0),
         AlikeBut(w.stack, st, k), OnTop(st),
         k \in DOMAIN st => RightPlace(st[k], Len(w.map.records))
  PROVE  LET u == WithStack(w, st) IN
         /\ Mid(u, d) /\ Owing(u, At(st, k), At(w.stack, k))
         /\ u.map = w.map /\ u.iter = w.iter /\ u.stack = st
<1> DEFINE u == WithStack(w, st)
<1>1. IsWorld(w) /\ MapSane(w.map, d) /\ Standing(w.map, w.iter, w.stack)
  BY DEF Mid, Sane
<1>2. u.map = w.map /\ u.iter = w.iter /\ IsWorld(u) /\ u.stack = st
  BY <1>1 DEF IsWorld, WithStack
<1> HIDE DEF u
<1>3. w.stack \in Seq(FrameType)
  BY <1>1 DEF Standing
<1>4. ASSUME NEW j \in DOMAIN st
      PROVE  /\ Stands(st[j]) => st[j].cur \in 0 .. Len(w.map.records)
             /\ ~Stands(st[j]) => st[j].cur \in -1 .. Len(w.map.records)
             /\ st[j].at = "ended" => st[j].cur = Head0
  <2>1. CASE j = k
    BY <2>1 DEF RightPlace
  <2>2. CASE j # k
    BY <1>1, <2>2 DEF Standing, AlikeBut
  <2> QED
    BY <2>1, <2>2
<1>5. Standing(u.map, u.iter, u.stack)
  BY <1>1, <1>2, <1>4 DEF Standing
<1>6. Mid(u, d)
  BY <1>1, <1>2, <1>5 DEF Mid, Sane
<1>7. ASSUME NEW p \in DOMAIN u.map.records
      PROVE  u.map.records[p].ref_count + OneIf(p = At(st, k))
               = Visits(u.iter, u.stack, p) + OneIf(~u.map.records[p].empty) + OneIf(p = At(w.stack, k))
  <2>1. p \in DOMAIN w.map.records
    BY <1>2
  <2>2. w.map.records[p].ref_count
          = Visits(w.iter, w.stack, p) + OneIf(~w.map.records[p].empty) + OneIf(p = Head0)
    BY <2>1 DEF Balanced, Exact
  <2>3. p # Head0 /\ Visits(w.iter, w.stack, p) \in Nat
    BY <2>1, Settled
  <2>4. Visits(w.iter, st, p) = Visits(w.iter, w.stack, p) + OneIf(p = At(st, k)) - OneIf(p = At(w.stack, k))
    BY <1>3, <2>3, VisitsCalled
  <2> QED
    BY <1>2, <2>2, <2>3, <2>4 DEF OneIf
<1> QED
  BY <1>2, <1>6, <1>7 DEF u, Owing

LEMMA Locked ==
  ASSUME NEW w, NEW d, NEW r \in 0 .. Len(w.map.records), NEW e, Mid(w, d), Owing(w, r, e)
  PROVE  LET u == locked(w, r) IN
         Mid(u, d) /\ Balanced(u, e) /\ u.iter = w.iter /\ u.stack = w.stack
         /\ DOMAIN u.map.records = DOMAIN w.map.records /\ Len(u.map.records) = Len(w.map.records)
<1>0. w.map.records \in Seq(RecordType)
  BY DEF Mid, Sane, MapSane, MapTyped
<1>1. CASE r = Head0
  BY <1>1, BalancedOwing DEF locked
<1>2. CASE r # Head0
  <2> DEFINE rec == [w.map.records[r] EXCEPT !.ref_count = w.map.records[r].ref_count + 1]
             u == WithRecord(w, r, rec)
  <2>1. locked(w, r) = u
    BY <1>2 DEF locked, WithRecord
  <2>2. r \in DOMAIN w.map.records
    BY <1>0, <1>2 DEF Head0
  <2>3. w.map.records[r] \in RecordType /\ w.map.records[r].ref_count \in Nat \ {0}
    BY <2>2, Settled
  <2>4. /\ rec \in RecordType /\ rec.key = w.map.records[r].key /\ rec.empty = w.map.records[r].empty
        /\ rec.ref_count = w.map.records[r].ref_count + 1
    BY <2>3 DEF RecordType
  <2> HIDE DEF rec
  <2>5. /\ Sane(u, d) /\ Full(u.map) = Full(w.map) /\ u.map.count = w.map.count
        /\ u.iter = w.iter /\ u.stack = w.stack
        /\ DOMAIN u.map.records = DOMAIN w.map.records
        /\ \A p \in DOMAIN w.map.records : u.map.records[p] = IF p = r THEN rec ELSE w.map.records[p]
    <3>1. Sane(w, d)
      BY DEF Mid
    <3> QED
      BY <2>2, <2>4, <3>1, Rewritten
  <2> HIDE DEF u
  <2>6. Mid(u, d)
    BY <2>5 DEF Mid, Counted
  <2>7. ASSUME NEW p \in DOMAIN u.map.records
        PROVE  u.map.records[p].ref_count
                 = Visits(u.iter, u.stack, p) + OneIf(~u.map.records[p].empty) + OneIf(p = e)
    <3>1. w.map.records[p].ref_count + OneIf(p = r)
            = Visits(w.iter, w.stack, p) + OneIf(~w.map.records[p].empty) + OneIf(p = e)
      BY <2>5 DEF Owing
    <3>2. w.map.records[p].ref_count \in Nat
      BY <2>5, Settled
    <3>3. u.map.records[p].empty = w.map.records[p].empty
          /\ u.map.records[p].ref_count = w.map.records[p].ref_count + OneIf(p = r)
      BY <2>4, <2>5, <3>2 DEF OneIf
    <3> QED
      BY <2>5, <3>1, <3>3
  <2>8. Len(u.map.records) = Len(w.map.records)
    BY <1>0, <2>5, <2>6 DEF Mid, Sane, MapSane, MapTyped
  <2> QED
    BY <2>1, <2>5, <2>6, <2>7, <2>8 DEF Balanced, Exact
<1> QED
  BY <1>1, <1>2

LEMMA Kept ==
  ASSUME NEW w, NEW d, Mid(w, d), Balanced(w, Head0)
  PROVE  Keeps(w, d, w)
BY DEF Keeps

LEMMA Left ==
  ASSUME NEW w, NEW d, NEW r \in 0 .. Len(w.map.records), Mid(w, d), Balanced(w, r)
  PROVE  Keeps(w, d, left(w, r))
<1>1. CASE r = Head0
  BY <1>1, Kept DEF left
<1>2. CASE r # Head0
  <2>1. r \in DOMAIN w.map.records
    BY <1>2 DEF Mid, Sane, MapSane, MapTyped, Head0
  <2> QED
    BY <1>2, <2>1, Decref DEF left
<1> QED
  BY <1>1, <1>2

LEMMA Finalized ==
  ASSUME NEW w, NEW d, NEW i \in Iter, Mid(w, d), Balanced(w, Head0)
  PROVE  Keeps(w, d, js_map_iterator_finalizer(w, i))
<1> DEFINE gone == WithIter(w, i, NoIter)
           r == w.iter[i].cur
<1>1. NoIter \in IterType /\ NoIter.cur = Head0 /\ NoIter.cur \in 0 .. Len(w.map.records)
  BY DEF NoIter, IterType, Head0, Mid, Sane, MapSane, MapTyped
<1>2. Mid(gone, d) /\ Owing(gone, NoIter.cur, r) /\ gone.map = w.map /\ gone.stack = w.stack
  <2> DEFINE x == NoIter
  <2>1. x \in IterType /\ x.cur \in 0 .. Len(w.map.records) /\ (x.state = "none" => x.cur = Head0)
    BY <1>1
  <2> HIDE DEF x
  <2>2. LET u == WithIter(w, i, x) IN
        Mid(u, d) /\ Owing(u, x.cur, w.iter[i].cur) /\ u.map = w.map /\ u.stack = w.stack
    BY <2>1, IterSet
  <2> QED
    BY <2>2 DEF x
<1>3. r \in 0 .. Len(w.map.records)
  BY DEF Mid, Sane, Standing
<1>4. js_map_iterator_finalizer(w, i) = left(gone, r)
  BY DEF js_map_iterator_finalizer, left, WithIter
<1> HIDE DEF gone, r
<1>5. Balanced(gone, r)
  BY <1>1, <1>2, BalancedOwing
<1>6. Keeps(gone, d, left(gone, r))
  BY <1>2, <1>3, <1>5, Left
<1> QED
  BY <1>2, <1>4, <1>6 DEF Keeps

LEMMA FreedValue ==
  ASSUME NEW w, NEW d, NEW v, Mid(w, d), Balanced(w, Head0)
  PROVE  Keeps(w, d, JS_FreeValue(w, v))
BY Kept, Finalized DEF JS_FreeValue

-----------------------------------------------------------------------------
(* A record is deleted.                                                    *)

WithTable(w, t) == [w EXCEPT !.map.table = t]
WithCount(w, c) == [w EXCEPT !.map.count = c]

LEMMA Retabled ==
  ASSUME NEW w, NEW d, NEW d2, Mid(w, d), Balanced(w, Head0), d2 \in Full(w.map)
  PROVE  LET u == WithTable(w, TableBut(w.map, d2)) IN
         /\ Mid(u, d2) /\ Balanced(u, Head0) /\ u.iter = w.iter /\ u.stack = w.stack
         /\ u.map.records = w.map.records
<1> DEFINE t == TableBut(w.map, d2)
           u == WithTable(w, t)
<1>1. /\ IsWorld(w) /\ MapTyped(w.map) /\ KeysGood(w.map)
      /\ Standing(w.map, w.iter, w.stack) /\ Counted(w.map)
  BY DEF Mid, Sane, MapSane
<1>2. u.map = [w.map EXCEPT !.table = t] /\ u.iter = w.iter /\ u.stack = w.stack /\ IsWorld(u)
  BY <1>1 DEF IsWorld, WithTable
<1> HIDE DEF u
<1>3. w.map = [records |-> w.map.records, hash_size |-> w.map.hash_size, table |-> w.map.table,
               count |-> w.map.count, threshold |-> w.map.threshold]
  BY <1>1 DEF MapTyped
<1>4. u.map = [records |-> w.map.records, hash_size |-> w.map.hash_size, table |-> t,
               count |-> w.map.count, threshold |-> w.map.threshold]
  BY <1>2, <1>3
<1>5. /\ u.map.records = w.map.records /\ u.map.hash_size = w.map.hash_size /\ u.map.table = t
      /\ u.map.count = w.map.count
  BY <1>4
<1>6. MapTyped(u.map)
  BY <1>1, <1>4, <1>5 DEF MapTyped
<1>7. Full(u.map) = Full(w.map) /\ KeysGood(u.map) /\ Counted(u.map) /\ TableBut(u.map, d2) = t
  BY <1>1, <1>5 DEF Full, KeysGood, Counted, TableBut
<1>8. Standing(u.map, u.iter, u.stack)
  BY <1>1, <1>2, <1>5 DEF Standing
<1>9. Mid(u, d2)
  BY <1>2, <1>5, <1>6, <1>7, <1>8 DEF Mid, Sane, MapSane
<1>10. Balanced(u, Head0)
  BY <1>2, <1>5 DEF Balanced, Exact
<1> QED
  BY <1>2, <1>5, <1>9, <1>10 DEF u

LEMMA Recounted ==
  ASSUME NEW w, Sane(w, Head0), Balanced(w, Head0), NEW c \in Int, c = Cardinality(Full(w.map))
  PROVE  Good(WithCount(w, c)) /\ WithCount(w, c).stack = w.stack
<1> DEFINE u == WithCount(w, c)
<1>1. /\ IsWorld(w) /\ MapTyped(w.map) /\ KeysGood(w.map) /\ w.map.table = TableBut(w.map, Head0)
      /\ Standing(w.map, w.iter, w.stack)
  BY DEF Sane, MapSane
<1>2. u.map = [w.map EXCEPT !.count = c] /\ u.iter = w.iter /\ u.stack = w.stack /\ IsWorld(u)
  BY <1>1 DEF IsWorld, WithCount
<1> HIDE DEF u
<1>3. w.map = [records |-> w.map.records, hash_size |-> w.map.hash_size, table |-> w.map.table,
               count |-> w.map.count, threshold |-> w.map.threshold]
  BY <1>1 DEF MapTyped
<1>4. u.map = [records |-> w.map.records, hash_size |-> w.map.hash_size, table |-> w.map.table,
               count |-> c, threshold |-> w.map.threshold]
  BY <1>2, <1>3
<1>5. /\ u.map.records = w.map.records /\ u.map.hash_size = w.map.hash_size /\ u.map.table = w.map.table
      /\ u.map.count = c
  BY <1>4
<1>6. MapTyped(u.map)
  BY <1>1, <1>4, <1>5 DEF MapTyped
<1>7. Full(u.map) = Full(w.map) /\ KeysGood(u.map) /\ Counted(u.map)
      /\ TableBut(u.map, Head0) = TableBut(w.map, Head0)
  BY <1>1, <1>5 DEF Full, KeysGood, Counted, TableBut
<1>8. Standing(u.map, u.iter, u.stack)
  BY <1>1, <1>2, <1>5 DEF Standing
<1>9. Sane(u, Head0)
  BY <1>1, <1>2, <1>5, <1>6, <1>7, <1>8 DEF Sane, MapSane
<1>10. Balanced(u, Head0)
  BY <1>2, <1>5 DEF Balanced, Exact
<1> QED
  BY <1>2, <1>7, <1>9, <1>10 DEF u, Good

Zombie(n) == [key |-> None, value |-> None, empty |-> TRUE, ref_count |-> n]

(* The record being deleted becomes a zombie.                              *)
LEMMA Zombied ==
  ASSUME NEW w, NEW d \in Full(w.map), Sane(w, d), NEW n \in Nat \ {0}
  PROVE  LET u == WithRecord(w, d, Zombie(n)) IN
         /\ Sane(u, Head0) /\ Full(u.map) = Full(w.map) \ {d} /\ u.map.count = w.map.count
         /\ u.iter = w.iter /\ u.stack = w.stack
         /\ DOMAIN u.map.records = DOMAIN w.map.records
         /\ \A p \in DOMAIN w.map.records : u.map.records[p] = IF p = d THEN Zombie(n) ELSE w.map.records[p]
<1> DEFINE rec == Zombie(n)
           u == WithRecord(w, d, rec)
           rs == [w.map.records EXCEPT ![d] = rec]
<1>1. /\ IsWorld(w) /\ MapTyped(w.map) /\ KeysGood(w.map) /\ w.map.table = TableBut(w.map, d)
      /\ Standing(w.map, w.iter, w.stack) /\ w.map.records \in Seq(RecordType)
  BY DEF Sane, MapSane, MapTyped
<1>2. u.map = [w.map EXCEPT !.records = rs] /\ u.iter = w.iter /\ u.stack = w.stack /\ IsWorld(u)
  BY <1>1 DEF IsWorld, WithRecord
<1> HIDE DEF u
<1>3. d \in DOMAIN w.map.records /\ rec \in RecordType /\ rec.key = None /\ rec.empty
  BY DEF Full, Zombie, RecordType, Value
<1> HIDE DEF rec
<1>4. /\ rs \in Seq(RecordType) /\ Len(rs) = Len(w.map.records) /\ DOMAIN rs = DOMAIN w.map.records
      /\ \A p \in DOMAIN w.map.records : rs[p] = IF p = d THEN rec ELSE w.map.records[p]
  BY <1>1, <1>3
<1> HIDE DEF rs
<1>5. w.map = [records |-> w.map.records, hash_size |-> w.map.hash_size, table |-> w.map.table,
               count |-> w.map.count, threshold |-> w.map.threshold]
  BY <1>1 DEF MapTyped
<1>6. u.map = [records |-> rs, hash_size |-> w.map.hash_size, table |-> w.map.table,
               count |-> w.map.count, threshold |-> w.map.threshold]
  BY <1>2, <1>5
<1>7. /\ u.map.records = rs /\ u.map.hash_size = w.map.hash_size /\ u.map.table = w.map.table
      /\ u.map.count = w.map.count
  BY <1>6
<1>8. MapTyped(u.map)
  BY <1>1, <1>4, <1>6, <1>7 DEF MapTyped
<1>9. Full(u.map) = Full(w.map) \ {d}
  BY <1>3, <1>4, <1>7 DEF Full
<1>10. KeysGood(u.map)
  <2>1. /\ \A p \in DOMAIN w.map.records : w.map.records[p].empty <=> w.map.records[p].key = None
        /\ \A p, q \in Full(w.map) : w.map.records[p].key = w.map.records[q].key => p = q
    BY <1>1 DEF KeysGood
  <2>2. \A p \in DOMAIN rs : rs[p].empty <=> rs[p].key = None
    BY <1>3, <1>4, <2>1
  <2>3. \A p \in Full(w.map) \ {d} : rs[p].key = w.map.records[p].key
    BY <1>4 DEF Full
  <2>4. \A p, q \in Full(w.map) \ {d} : rs[p].key = rs[q].key => p = q
    BY <2>1, <2>3
  <2> QED
    BY <1>4, <1>7, <1>9, <2>2, <2>4 DEF KeysGood
<1>11. TableBut(u.map, Head0) = TableBut(w.map, d)
  <2>1. \A p \in Full(w.map) \ {d} : rs[p].key = w.map.records[p].key
    BY <1>4 DEF Full
  <2>2. (Full(w.map) \ {d}) \ {Head0} = Full(w.map) \ {d}
    BY <1>1 DEF Full, Head0
  <2> QED
    BY <1>7, <1>9, <2>1, <2>2 DEF TableBut
<1>12. Standing(u.map, u.iter, u.stack)
  BY <1>1, <1>2, <1>4, <1>7 DEF Standing
<1>13. Sane(u, Head0)
  BY <1>1, <1>2, <1>7, <1>8, <1>10, <1>11, <1>12 DEF Sane, MapSane
<1> QED
  BY <1>2, <1>4, <1>7, <1>9, <1>13 DEF u, rec

LEMMA FullFinite ==
  ASSUME NEW w, NEW d, Mid(w, d)
  PROVE  IsFiniteSet(Full(w.map)) /\ Full(w.map) \subseteq 1 .. Len(w.map.records)
<1>1. w.map.records \in Seq(RecordType)
  BY DEF Mid, Sane, MapSane, MapTyped
<1>2. Full(w.map) \in SUBSET (1 .. Len(w.map.records)) /\ IsFiniteSet(1 .. Len(w.map.records))
  BY <1>1, FS_Interval DEF Full
<1> QED
  BY <1>2, FS_Subset

(* The list gives up its count on the record being deleted.                *)
LEMMA Released ==
  ASSUME NEW w, NEW d \in Full(w.map), Mid(w, d), Balanced(w, Head0)
  PROVE  LET u == release(w, d) IN
         /\ Sane(u, Head0) /\ Balanced(u, Head0) /\ Len(u.stack) = Len(w.stack)
         /\ u.map.count - 1 \in Int /\ u.map.count - 1 = Cardinality(Full(u.map))
<1>1. d \in DOMAIN w.map.records /\ ~w.map.records[d].empty
  BY DEF Full
<1>2. /\ w.map.records[d].ref_count = Visits(w.iter, w.stack, d) + 1
      /\ Visits(w.iter, w.stack, d) \in Nat
  <2>1. d # Head0 /\ Visits(w.iter, w.stack, d) \in Nat
    BY <1>1, Settled
  <2>2. w.map.records[d].ref_count
          = Visits(w.iter, w.stack, d) + OneIf(~w.map.records[d].empty) + OneIf(d = Head0)
    BY <1>1 DEF Balanced, Exact
  <2> QED
    BY <1>1, <2>1, <2>2 DEF OneIf
<1>3. w.map.count - 1 = Cardinality(Full(w.map) \ {d}) /\ w.map.count \in Int
  <2>1. w.map.count = Cardinality(Full(w.map)) /\ w.map.count \in Int
    BY DEF Mid, Counted, Sane, MapSane, MapTyped
  <2>2. IsFiniteSet(Full(w.map))
    BY FullFinite
  <2>3. Cardinality(Full(w.map) \ {d}) = Cardinality(Full(w.map)) - 1
    BY <2>2, FS_RemoveElement
  <2> QED
    BY <2>1, <2>3
<1>4. CASE w.map.records[d].ref_count = 1
  <2>1. release(w, d) = Unlink(w, d)
    BY <1>4 DEF release
  <2>2. Lonely(w, d, d)
    <3>1. ASSUME NEW p \in DOMAIN w.map.records \ {d}
          PROVE  w.map.records[p].ref_count = Visits(w.iter, w.stack, p) + OneIf(~w.map.records[p].empty)
      <4>1. w.map.records[p].ref_count
              = Visits(w.iter, w.stack, p) + OneIf(~w.map.records[p].empty) + OneIf(p = Head0)
        BY DEF Balanced, Exact
      <4>2. Visits(w.iter, w.stack, p) \in Nat /\ p # Head0
        BY Settled
      <4> QED
        BY <4>1, <4>2 DEF OneIf
    <3>2. Visits(w.iter, w.stack, d) = 0
      BY <1>2, <1>4
    <3> QED
      BY <3>1, <3>2 DEF Lonely
  <2>3. Sane(w, d)
    BY DEF Mid
  <2>4. LET u == Unlink(w, d) IN
        /\ Sane(u, IF d = d THEN Head0 ELSE Shift(d, d)) /\ Balanced(u, Head0)
        /\ Cardinality(Full(u.map)) = Cardinality(Full(w.map) \ {d}) /\ u.map.count = w.map.count
        /\ Len(u.stack) = Len(w.stack)
        /\ d \in Full(w.map) \ {d} =>
             Shift(d, d) \in Full(u.map) /\ u.map.records[Shift(d, d)] = w.map.records[d]
    BY <1>1, <2>2, <2>3, Unlinked
  <2> QED
    BY <1>3, <2>1, <2>4
<1>5. CASE w.map.records[d].ref_count # 1
  <2> DEFINE n == w.map.records[d].ref_count - 1
             u == WithRecord(w, d, Zombie(n))
  <2>1. n \in Nat \ {0} /\ n = Visits(w.iter, w.stack, d)
    BY <1>2, <1>5
  <2>2. release(w, d) = u
    BY <1>5 DEF release, WithRecord, Zombie
  <2> HIDE DEF n
  <2>3. Sane(w, d)
    BY DEF Mid
  <2>4. /\ Sane(u, Head0) /\ Full(u.map) = Full(w.map) \ {d} /\ u.map.count = w.map.count
        /\ u.iter = w.iter /\ u.stack = w.stack
        /\ DOMAIN u.map.records = DOMAIN w.map.records
        /\ \A p \in DOMAIN w.map.records : u.map.records[p] = IF p = d THEN Zombie(n) ELSE w.map.records[p]
    BY <2>1, <2>3, Zombied
  <2> HIDE DEF u
  <2>5. ASSUME NEW p \in DOMAIN u.map.records
        PROVE  u.map.records[p].ref_count
                 = Visits(u.iter, u.stack, p) + OneIf(~u.map.records[p].empty) + OneIf(p = Head0)
    <3>1. p \in DOMAIN w.map.records /\ p # Head0 /\ Visits(w.iter, w.stack, p) \in Nat
      BY <2>4, Settled
    <3>2. CASE p = d
      BY <2>1, <2>4, <3>1, <3>2 DEF Zombie, OneIf
    <3>3. CASE p # d
      BY <2>4, <3>1, <3>3 DEF Balanced, Exact
    <3> QED
      BY <3>2, <3>3
  <2> QED
    BY <1>3, <2>2, <2>4, <2>5 DEF Balanced, Exact
<1> QED
  BY <1>4, <1>5

(* A deletion, step by step.                                               *)
Unhashed(w, r, b) == [w EXCEPT !.map.table[b] = @ \ {r}]
Blanked(w, r) == [w EXCEPT !.map.records[r].value = None]
Emptied(w, r) ==
  [w EXCEPT !.map.table[Hash[w.map.records[r].key] % w.map.hash_size] = @ \ {r}, !.map.records[r].value = None]
PlaceOf(w, key) == CHOOSE p \in DOMAIN w.map.records : w.map.records[p].key = key
Lifted(w, key) == WithCount(release(w, PlaceOf(w, key)), release(w, PlaceOf(w, key)).map.count - 1)

LEMMA DeleteSteps ==
  ASSUME NEW w, NEW r
  PROVE  map_delete_record(w, r)
           = IF w.map.records[r].empty THEN w
             ELSE Lifted(JS_FreeValue(Emptied(w, r), w.map.records[r].value), w.map.records[r].key)
BY Zenon DEF map_delete_record, Lifted, WithCount, PlaceOf, Emptied

LEMMA EmptiedSteps ==
  ASSUME NEW w, NEW r
  PROVE  Emptied(w, r) = Blanked(Unhashed(w, r, Hash[w.map.records[r].key] % w.map.hash_size), r)
BY Zenon DEF Emptied, Blanked, Unhashed

(* The value is taken out of the record, and the record out of its bucket. *)
LEMMA EmptiedGood ==
  ASSUME NEW w, NEW r \in Full(w.map), Good(w)
  PROVE  LET w1 == Emptied(w, r) IN
         /\ Mid(w1, r) /\ Balanced(w1, Head0) /\ w1.iter = w.iter /\ w1.stack = w.stack
         /\ r # Head0 /\ w.map.records[r].key \in Key /\ w.map.records[r].key # None
         /\ Full(w1.map) = Full(w.map)
         /\ \A p \in DOMAIN w.map.records :
              /\ w1.map.records[p].key = w.map.records[p].key
              /\ w1.map.records[p].value = IF p = r THEN None ELSE w.map.records[p].value
<1> DEFINE record == w.map.records[r]
           b == Hash[record.key] % w.map.hash_size
           blank == [record EXCEPT !.value = None]
           v == WithRecord(w, r, blank)
           w1 == Emptied(w, r)
<1>1. /\ IsWorld(w) /\ MapTyped(w.map) /\ KeysGood(w.map) /\ w.map.table = TableBut(w.map, Head0)
      /\ Sane(w, Head0) /\ Counted(w.map) /\ Balanced(w, Head0)
  BY DEF Good, Sane, MapSane
<1>2. record \in RecordType /\ record.key # None /\ r \in DOMAIN w.map.records
  BY <1>1 DEF MapTyped, KeysGood, Full
<1>3. /\ blank \in RecordType
      /\ blank.key = record.key /\ blank.empty = record.empty /\ blank.ref_count = record.ref_count
  BY <1>2 DEF RecordType, Value
<1>4. /\ Sane(v, Head0) /\ Full(v.map) = Full(w.map) /\ v.map.count = w.map.count
      /\ v.iter = w.iter /\ v.stack = w.stack
      /\ DOMAIN v.map.records = DOMAIN w.map.records
      /\ \A p \in DOMAIN w.map.records :
           v.map.records[p] = IF p = r THEN blank ELSE w.map.records[p]
  <2> HIDE DEF blank
  <2> QED
    BY <1>1, <1>2, <1>3, Rewritten
<1>5. Mid(v, Head0) /\ Balanced(v, Head0)
  <2>1. Mid(v, Head0)
    BY <1>1, <1>4 DEF Mid, Counted
  <2>2. \A p \in DOMAIN w.map.records :
          /\ v.map.records[p].ref_count = w.map.records[p].ref_count
          /\ v.map.records[p].empty = w.map.records[p].empty
    BY <1>3, <1>4
  <2> QED
    BY <1>1, <1>4, <2>1, <2>2 DEF Balanced, Exact
<1>6. LET u1 == WithTable(v, TableBut(v.map, r)) IN
      /\ Mid(u1, r) /\ Balanced(u1, Head0) /\ u1.iter = v.iter /\ u1.stack = v.stack
      /\ u1.map.records = v.map.records
  <2> HIDE DEF v
  <2> QED
    BY <1>2, <1>4, <1>5, Retabled
<1>7. w1 = WithTable(v, TableBut(v.map, r))
  <2>1. TableBut(v.map, r) = [w.map.table EXCEPT ![b] = @ \ {r}]
    <3>1. \A p \in Full(w.map) : v.map.records[p].key = w.map.records[p].key
      BY <1>3, <1>4 DEF Full
    <3>2. v.map.hash_size = w.map.hash_size
      BY <1>1 DEF WithRecord, IsWorld, MapTyped
    <3>3. r # Head0 /\ Head0 \notin Full(w.map)
      BY <1>1 DEF MapTyped, Head0, Full
    <3>4. b = Bucket(record.key, w.map.hash_size)
      BY DEF Bucket
    <3> HIDE DEF v, b
    <3>5. TableBut(v.map, r)
            = [h \in 0 .. w.map.hash_size - 1 |->
                 {p \in Full(w.map) \ {r} : Bucket(w.map.records[p].key, w.map.hash_size) = h}]
      BY <1>4, <3>1, <3>2 DEF TableBut
    <3>6. w.map.table = [h \in 0 .. w.map.hash_size - 1 |->
                           {p \in Full(w.map) : Bucket(w.map.records[p].key, w.map.hash_size) = h}]
      BY <1>1, <3>3 DEF TableBut
    <3>7. ASSUME NEW h \in 0 .. w.map.hash_size - 1
          PROVE  {p \in Full(w.map) \ {r} : Bucket(w.map.records[p].key, w.map.hash_size) = h}
                   = [w.map.table EXCEPT ![b] = @ \ {r}][h]
      BY <3>4, <3>6
    <3>8. DOMAIN w.map.table = 0 .. w.map.hash_size - 1
      BY <3>6
    <3> QED
      BY <3>5, <3>7, <3>8
  <2> DEFINE t == [w.map.table EXCEPT ![b] = @ \ {r}]
             rs == [w.map.records EXCEPT ![r] = blank]
             e == Unhashed(w, r, b)
             v1 == WithTable(v, t)
  <2>2. IsWorld(w) /\ w.map = [records |-> w.map.records, hash_size |-> w.map.hash_size, table |-> w.map.table,
                               count |-> w.map.count, threshold |-> w.map.threshold]
    BY <1>1 DEF MapTyped
  <2>3. w1 = Blanked(e, r)
    BY EmptiedSteps
  <2> HIDE DEF b, w1
  <2>4. e.map = [w.map EXCEPT !.table = t] /\ e.iter = w.iter /\ e.stack = w.stack /\ IsWorld(e)
    <3> DEFINE m == [w.map EXCEPT !.table = t]
    <3>1. e = [w EXCEPT !.map = m]
      BY Zenon DEF Unhashed
    <3> HIDE DEF m, e
    <3>2. e.map = m /\ e.iter = w.iter /\ e.stack = w.stack /\ IsWorld(e)
      BY <2>2, <3>1 DEF IsWorld
    <3> QED
      BY <3>2 DEF m
  <2>5. v.map = [w.map EXCEPT !.records = rs] /\ v.iter = w.iter /\ v.stack = w.stack /\ IsWorld(v)
    BY <2>2 DEF WithRecord, IsWorld
  <2> HIDE DEF e, v, t
  <2>6. e.map = [records |-> w.map.records, hash_size |-> w.map.hash_size, table |-> t,
                 count |-> w.map.count, threshold |-> w.map.threshold]
    BY <2>2, <2>4
  <2>7. w1.map = [e.map EXCEPT !.records = rs] /\ w1.iter = e.iter /\ w1.stack = e.stack /\ IsWorld(w1)
    <3>1. /\ w1.map = [e.map EXCEPT !.records = [e.map.records EXCEPT ![r].value = None]]
          /\ w1.iter = e.iter /\ w1.stack = e.stack /\ IsWorld(w1)
      BY <2>3, <2>4 DEF Blanked, IsWorld
    <3>2. e.map.records = w.map.records
      BY <2>6
    <3> QED
      BY <3>1, <3>2
  <2> HIDE DEF rs
  <2>8. v.map = [records |-> rs, hash_size |-> w.map.hash_size, table |-> w.map.table,
                 count |-> w.map.count, threshold |-> w.map.threshold]
    BY <2>2, <2>5
  <2>9. w1.map = [records |-> rs, hash_size |-> w.map.hash_size, table |-> t,
                  count |-> w.map.count, threshold |-> w.map.threshold]
    BY <2>6, <2>7
  <2>10. v1.map = [v.map EXCEPT !.table = t] /\ v1.iter = w.iter /\ v1.stack = w.stack /\ IsWorld(v1)
    BY <2>5 DEF WithTable, IsWorld
  <2> HIDE DEF v1
  <2>11. v1.map = w1.map
    BY <2>8, <2>9, <2>10
  <2>12. w1 = v1
    BY <2>4, <2>7, <2>10, <2>11 DEF IsWorld
  <2> QED
    BY <2>1, <2>12 DEF v1, t
<1> HIDE DEF w1, v
<1>8. /\ Mid(w1, r) /\ Balanced(w1, Head0) /\ w1.iter = w.iter /\ w1.stack = w.stack
      /\ w1.map.records = v.map.records
  BY <1>4, <1>6, <1>7
<1>9. r # Head0 /\ r \in DOMAIN w.map.records
  BY <1>1 DEF MapTyped, Head0, Full
<1>10. record.key \in Key
  BY <1>2 DEF RecordType
<1>11. Full(w1.map) = Full(w.map)
  BY <1>4, <1>8 DEF Full
<1>12. blank.value = None
  BY <1>2 DEF RecordType
<1>13. \A p \in DOMAIN w.map.records :
         /\ w1.map.records[p].key = w.map.records[p].key
         /\ w1.map.records[p].value = IF p = r THEN None ELSE w.map.records[p].value
  <2> HIDE DEF blank
  <2> QED
    BY <1>3, <1>4, <1>8, <1>12
<1> QED
  BY <1>2, <1>8, <1>9, <1>10, <1>11, <1>13 DEF w1

(* The record being deleted is found again by its key.                     *)
LEMMA PlaceKept ==
  ASSUME NEW w, NEW d \in Full(w.map), d # Head0, NEW key, key = w.map.records[d].key, key # None,
         NEW v, Mid(w, d), Balanced(w, Head0)
  PROVE  LET freed == JS_FreeValue(w, v)
             place == PlaceOf(freed, key)
         IN /\ Mid(freed, place) /\ Balanced(freed, Head0) /\ Len(freed.stack) = Len(w.stack)
            /\ place \in Full(freed.map) /\ freed.map.records[place].key = key
<1> DEFINE freed == JS_FreeValue(w, v)
           place == PlaceOf(freed, key)
<1>1. Keeps(w, d, freed)
  BY FreedValue
<1> HIDE DEF freed
<1>2. PICK d2 : /\ Mid(freed, d2) /\ Balanced(freed, Head0) /\ Len(freed.stack) = Len(w.stack)
                /\ d2 # Head0 /\ freed.map.records[d2].key = key
  BY <1>1 DEF Keeps
<1>3. d2 \in Full(freed.map) /\ d2 \in DOMAIN freed.map.records
  BY <1>2 DEF Mid, Full
<1>4. /\ \A p \in DOMAIN freed.map.records : freed.map.records[p].empty <=> freed.map.records[p].key = None
      /\ \A p, q \in Full(freed.map) : freed.map.records[p].key = freed.map.records[q].key => p = q
  BY <1>2 DEF Mid, Sane, MapSane, KeysGood
<1>5. \A p \in DOMAIN freed.map.records : freed.map.records[p].key = key => p \in Full(freed.map)
  BY <1>4 DEF Full
<1>6. place = d2
  BY <1>2, <1>3, <1>4, <1>5 DEF PlaceOf
<1> QED
  BY <1>2, <1>3, <1>6 DEF freed

LEMMA Deleted ==
  ASSUME NEW w, NEW r \in DOMAIN w.map.records, Good(w)
  PROVE  Good(map_delete_record(w, r)) /\ Len(map_delete_record(w, r).stack) = Len(w.stack)
<1> DEFINE record == w.map.records[r]
           w1 == Emptied(w, r)
           freed == JS_FreeValue(w1, record.value)
           place == PlaceOf(freed, record.key)
           u == release(freed, place)
<1>1. CASE record.empty
  <2>1. map_delete_record(w, r) = w
    BY <1>1, DeleteSteps
  <2> QED
    BY <2>1
<1>2. CASE ~record.empty
  <2>1. map_delete_record(w, r) = WithCount(u, u.map.count - 1)
    <3>1. map_delete_record(w, r) = Lifted(freed, record.key)
      BY <1>2, DeleteSteps
    <3> HIDE DEF freed
    <3> QED
      BY <3>1 DEF Lifted
  <2>2. r \in Full(w.map)
    BY <1>2 DEF Full
  <2>3. /\ Mid(w1, r) /\ Balanced(w1, Head0) /\ w1.stack = w.stack /\ r # Head0 /\ r \in Full(w1.map)
        /\ record.key = w1.map.records[r].key /\ record.key # None
    BY <2>2, EmptiedGood
  <2> HIDE DEF w1
  <2>4. /\ Mid(freed, place) /\ Balanced(freed, Head0) /\ Len(freed.stack) = Len(w1.stack)
        /\ place \in Full(freed.map)
    BY <2>3, PlaceKept
  <2> HIDE DEF freed, place
  <2>5. /\ Sane(u, Head0) /\ Balanced(u, Head0) /\ Len(u.stack) = Len(freed.stack)
        /\ u.map.count - 1 \in Int /\ u.map.count - 1 = Cardinality(Full(u.map))
    BY <2>4, Released
  <2> HIDE DEF u
  <2>6. Good(WithCount(u, u.map.count - 1)) /\ WithCount(u, u.map.count - 1).stack = u.stack
    BY <2>5, Recounted
  <2> QED
    BY <2>1, <2>3, <2>4, <2>5, <2>6
<1> QED
  BY <1>1, <1>2

-----------------------------------------------------------------------------
(* Finding and adding.                                                     *)

LEMMA GoodMid ==
  ASSUME NEW w
  PROVE  Good(w) <=> Mid(w, Head0) /\ Balanced(w, Head0)
BY DEF Good, Mid

LEMMA KeptGood ==
  ASSUME NEW w, NEW u, Keeps(w, Head0, u)
  PROVE  Good(u) /\ Len(u.stack) = Len(w.stack)
BY GoodMid DEF Keeps

LEMMA Found ==
  ASSUME NEW w, Good(w), NEW k \in Key
  PROVE  LET r == map_find_record(w.map, k) IN
         /\ r = Head0 => \A p \in Full(w.map) : w.map.records[p].key # k
         /\ r # Head0 => r \in Full(w.map) /\ w.map.records[r].key = k
<1> DEFINE b == Hash[k] % w.map.hash_size
           S == {p \in w.map.table[b] : w.map.records[p].key = k}
<1>1. MapTyped(w.map) /\ w.map.table = TableBut(w.map, Head0)
  BY DEF Good, Sane, MapSane
<1>2. w.map.hash_size \in Nat \ {0} /\ Full(w.map) \subseteq Nat \ {0}
  BY <1>1 DEF MapTyped, Full
<1>3. Hash[k] \in Nat
  BY MapAssumption
<1>4. b \in 0 .. w.map.hash_size - 1
  BY <1>2, <1>3, Remainder
<1>5. w.map.table[b] = {p \in Full(w.map) \ {Head0} : Bucket(w.map.records[p].key, w.map.hash_size) = b}
  BY <1>1, <1>4 DEF TableBut
<1>6. b = Bucket(k, w.map.hash_size)
  BY DEF Bucket
<1> HIDE DEF b
<1>7. S = {p \in Full(w.map) : w.map.records[p].key = k}
  BY <1>2, <1>5, <1>6 DEF Head0
<1>8. map_find_record(w.map, k) = Nearest(S)
  BY DEF map_find_record, b
<1> HIDE DEF S
<1>9. S \in SUBSET (Nat \ {0})
  BY <1>2, <1>7
<1>10. (S = {} => Nearest(S) = Head0) /\ (S # {} => Nearest(S) \in S)
  BY <1>9, Least
<1>11. S # {} => Nearest(S) # Head0
  BY <1>9, <1>10 DEF Head0
<1> QED
  BY <1>7, <1>8, <1>10, <1>11

(* The next record, of all or of those that are not zombies.               *)
LEMMA NextPlaces ==
  ASSUME NEW w, Good(w), NEW r
  PROVE  Succ(w.map, r) \in 0 .. Len(w.map.records) /\ NextRecord(w.map, r) \in 0 .. Len(w.map.records)
<1>1. w.map.records \in Seq(RecordType)
  BY DEF Good, Sane, MapSane, MapTyped
<1> DEFINE S == {p \in DOMAIN w.map.records : p > r}
           T == {p \in Full(w.map) : p > r}
<1>2. S \in SUBSET (Nat \ {0}) /\ T \in SUBSET (Nat \ {0}) /\ S \subseteq 1 .. Len(w.map.records) /\ T \subseteq S
  BY <1>1 DEF Full
<1> HIDE DEF S, T
<1>3. Nearest(S) = Head0 \/ Nearest(S) \in S
  BY <1>2, Least
<1>4. Nearest(T) = Head0 \/ Nearest(T) \in T
  BY <1>2, Least
<1>5. Nearest(S) \in 0 .. Len(w.map.records) /\ Nearest(T) \in 0 .. Len(w.map.records)
  <2>1. Len(w.map.records) \in Nat /\ Head0 \in 0 .. Len(w.map.records)
    BY <1>1 DEF Head0
  <2>2. \A p \in 1 .. Len(w.map.records) : p \in 0 .. Len(w.map.records)
    BY <2>1
  <2>3. Nearest(S) \in 0 .. Len(w.map.records)
    BY <1>2, <1>3, <2>1, <2>2
  <2>4. Nearest(T) \in 0 .. Len(w.map.records)
    BY <1>2, <1>4, <2>1, <2>2
  <2> QED
    BY <2>3, <2>4
<1> QED
  BY <1>5 DEF Succ, NextRecord, S, T

WithMap(w, m) == [map |-> m, iter |-> w.iter, stack |-> w.stack]

NewRecord(k, v) == [key |-> k, value |-> v, empty |-> FALSE, ref_count |-> 1]

(* What a record at the end adds. *)
Appended(m, m2, k, v) ==
  LET n == Len(m.records) + 1 IN
  /\ Full(m2) = Full(m) \cup {n} /\ m2.records[n].key = k /\ m2.records[n].value = v
  /\ \A p \in Full(m) : m2.records[p] = m.records[p]

LEMMA Added ==
  ASSUME NEW w, Good(w), NEW k \in Key, NEW v \in Value, \A p \in Full(w.map) : w.map.records[p].key # k
  PROVE  /\ Good(WithMap(w, map_add_record(w.map, k, v)))
         /\ Appended(w.map, map_add_record(w.map, k, v), k, v)
<1> DEFINE rec == NewRecord(k, v)
           n == Len(w.map.records)
           rs == Append(w.map.records, rec)
           b == Hash[k] % w.map.hash_size
           t == [w.map.table EXCEPT ![b] = @ \cup {n + 1}]
           u == WithMap(w, map_add_record(w.map, k, v))
<1>1. /\ IsWorld(w) /\ MapTyped(w.map) /\ KeysGood(w.map) /\ w.map.table = TableBut(w.map, Head0)
      /\ Standing(w.map, w.iter, w.stack) /\ Counted(w.map) /\ w.map.records \in Seq(RecordType)
      /\ w.map.hash_size \in Nat \ {0} /\ w.map.count \in Int
  BY DEF Good, Sane, MapSane, MapTyped
<1>2. u.iter = w.iter /\ u.stack = w.stack /\ IsWorld(u) /\ u.map = map_add_record(w.map, k, v)
  BY DEF WithMap, IsWorld
<1>3. w.map = [records |-> w.map.records, hash_size |-> w.map.hash_size, table |-> w.map.table,
               count |-> w.map.count, threshold |-> w.map.threshold]
  BY <1>1 DEF MapTyped
<1>4. map_add_record(w.map, k, v) = [records |-> rs, hash_size |-> w.map.hash_size, table |-> t,
                                     count |-> w.map.count + 1, threshold |-> w.map.threshold]
  <2> DEFINE m == w.map
  <2>1. map_add_record(m, k, v)
          = [m EXCEPT !.records = Append(m.records, rec), !.table = [m.table EXCEPT ![b] = @ \cup {n + 1}],
                      !.count = m.count + 1]
    BY Zenon DEF map_add_record, NewRecord
  <2> HIDE DEF rec, b
  <2> QED
    BY <1>3, <2>1
<1> HIDE DEF u
<1>5. /\ rec \in RecordType /\ rec.key = k /\ ~rec.empty /\ rec.ref_count = 1 /\ k # None
      /\ rec.value = v
  BY MapAssumption DEF NewRecord, RecordType, Value
<1> HIDE DEF rec
<1>6. /\ rs \in Seq(RecordType) /\ Len(rs) = n + 1 /\ n \in Nat /\ DOMAIN rs = 1 .. n + 1
      /\ rs[n + 1] = rec /\ \A p \in 1 .. n : rs[p] = w.map.records[p]
      /\ DOMAIN w.map.records = 1 .. n
  BY <1>1, <1>5
<1> HIDE DEF rs, n, t
<1>7. /\ u.map.records = rs /\ u.map.hash_size = w.map.hash_size /\ u.map.table = t
      /\ u.map.count = w.map.count + 1
  BY <1>2, <1>4
<1>8. MapTyped(u.map)
  <2>1. w.map.threshold \in Nat
    BY <1>1 DEF MapTyped
  <2> QED
    BY <1>1, <1>2, <1>4, <1>6, <1>7, <2>1 DEF MapTyped
<1>9. Full(u.map) = Full(w.map) \cup {n + 1} /\ n + 1 \notin Full(w.map) /\ Full(w.map) \subseteq 1 .. n
  <2>1. Full(w.map) = {p \in 1 .. n : ~w.map.records[p].empty}
    BY <1>6 DEF Full
  <2>2. Full(u.map) = {p \in 1 .. n + 1 : ~rs[p].empty}
    BY <1>6, <1>7 DEF Full
  <2> QED
    BY <1>5, <1>6, <2>1, <2>2
<1>10. KeysGood(u.map)
  <2>1. /\ \A p \in 1 .. n : w.map.records[p].empty <=> w.map.records[p].key = None
        /\ \A p, q \in Full(w.map) : w.map.records[p].key = w.map.records[q].key => p = q
    BY <1>1, <1>6 DEF KeysGood
  <2>2. ASSUME NEW p \in 1 .. n + 1
        PROVE  rs[p].empty <=> rs[p].key = None
    <3>1. CASE p = n + 1
      BY <1>5, <1>6, <3>1
    <3>2. CASE p # n + 1
      <4>1. p \in 1 .. n
        BY <1>6, <3>2
      <4> QED
        BY <1>6, <2>1, <4>1
    <3> QED
      BY <3>1, <3>2
  <2>3. \A p \in Full(w.map) : rs[p].key = w.map.records[p].key /\ rs[p].key # k
    BY <1>6, <1>9
  <2>4. rs[n + 1].key = k
    BY <1>5, <1>6
  <2>5. \A p, q \in Full(u.map) : rs[p].key = rs[q].key => p = q
    BY <1>9, <2>1, <2>3, <2>4
  <2> QED
    BY <1>6, <1>7, <2>2, <2>5 DEF KeysGood
<1>11. t = TableBut(u.map, Head0)
  <2>1. b = Bucket(k, w.map.hash_size) /\ b \in 0 .. w.map.hash_size - 1
    BY <1>1, MapAssumption, Remainder DEF Bucket
  <2> HIDE DEF b
  <2>2. /\ DOMAIN w.map.table = 0 .. w.map.hash_size - 1
        /\ \A h \in 0 .. w.map.hash_size - 1 : w.map.table[h]
             = {p \in Full(w.map) \ {Head0} : Bucket(w.map.records[p].key, w.map.hash_size) = h}
    BY <1>1 DEF TableBut
  <2>3. \A p \in Full(w.map) : rs[p].key = w.map.records[p].key
    BY <1>6, <1>9
  <2>4. rs[n + 1].key = k /\ n + 1 # Head0
    BY <1>5, <1>6 DEF Head0
  <2>5. ASSUME NEW h \in 0 .. w.map.hash_size - 1
        PROVE  t[h] = {p \in Full(u.map) \ {Head0} : Bucket(rs[p].key, w.map.hash_size) = h}
    <3>1. t[h] = IF h = b THEN w.map.table[h] \cup {n + 1} ELSE w.map.table[h]
      BY <2>1, <2>2 DEF t
    <3> QED
      BY <1>9, <2>1, <2>2, <2>3, <2>4, <3>1
  <2>6. t = [h \in 0 .. w.map.hash_size - 1 |-> t[h]]
    BY <2>2 DEF t
  <2> QED
    BY <1>7, <2>5, <2>6 DEF TableBut
<1>12. Standing(u.map, u.iter, u.stack)
  <2>1. \A x \in 0 .. n : x \in 0 .. n + 1
    BY <1>6
  <2>2. \A x \in -1 .. n : x \in -1 .. n + 1
    BY <1>6
  <2> QED
    BY <1>1, <1>2, <1>6, <1>7, <2>1, <2>2 DEF Standing, n
<1>13. Counted(u.map)
  <2>1. IsFiniteSet(Full(w.map))
    BY FullFinite, GoodMid
  <2>2. Cardinality(Full(w.map) \cup {n + 1}) = Cardinality(Full(w.map)) + 1
    BY <1>9, <2>1, FS_AddElement
  <2> QED
    BY <1>1, <1>7, <1>9, <2>2 DEF Counted
<1>14. Balanced(u, Head0)
  <2>1. ASSUME NEW p \in 1 .. n + 1
        PROVE  rs[p].ref_count = Visits(w.iter, w.stack, p) + OneIf(~rs[p].empty) + OneIf(p = Head0)
    <3>1. CASE p = n + 1
      <4>1. Enumerating(w.iter, p) = {}
        BY <1>1, <1>6, <3>1 DEF Enumerating, Standing, n
      <4>2. Calling(w.stack, p) = {}
        BY <1>1, <1>6, <3>1 DEF Calling, Standing, n
      <4>3. Visits(w.iter, w.stack, p) = 0
        BY <4>1, <4>2, FS_EmptySet DEF Visits
      <4>4. p # Head0
        BY <1>6, <3>1 DEF Head0
      <4> QED
        BY <1>5, <1>6, <3>1, <4>3, <4>4 DEF OneIf
    <3>2. CASE p # n + 1
      <4>1. p \in 1 .. n
        BY <1>6, <3>2
      <4> QED
        BY <1>6, <4>1 DEF Good, Balanced, Exact
    <3> QED
      BY <3>1, <3>2
  <2> QED
    BY <1>2, <1>6, <1>7, <2>1 DEF Balanced, Exact
<1>15. Sane(u, Head0)
  BY <1>2, <1>7, <1>8, <1>10, <1>11, <1>12 DEF Sane, MapSane
<1>16. Appended(w.map, map_add_record(w.map, k, v), k, v)
  BY <1>2, <1>5, <1>6, <1>7, <1>9 DEF Appended, n
<1> QED
  BY <1>13, <1>14, <1>15, <1>16 DEF Good, u

LEMMA Resized ==
  ASSUME NEW w, Good(w)
  PROVE  /\ Good(WithMap(w, map_hash_resize(w.map)))
         /\ map_hash_resize(w.map).records = w.map.records
<1> DEFINE size == IF w.map.hash_size = 1 THEN 4 ELSE w.map.hash_size * 2
           t == [h \in 0 .. size - 1 |-> {p \in Full(w.map) : Bucket(w.map.records[p].key, size) = h}]
           u == WithMap(w, map_hash_resize(w.map))
<1>1. /\ IsWorld(w) /\ MapTyped(w.map) /\ KeysGood(w.map)
      /\ Standing(w.map, w.iter, w.stack) /\ Counted(w.map) /\ w.map.records \in Seq(RecordType)
      /\ w.map.hash_size \in Nat \ {0} /\ w.map.count \in Int /\ Balanced(w, Head0)
  BY DEF Good, Sane, MapSane, MapTyped
<1>2. u.iter = w.iter /\ u.stack = w.stack /\ IsWorld(u) /\ u.map = map_hash_resize(w.map)
  BY DEF WithMap, IsWorld
<1>3. w.map = [records |-> w.map.records, hash_size |-> w.map.hash_size, table |-> w.map.table,
               count |-> w.map.count, threshold |-> w.map.threshold]
  BY <1>1 DEF MapTyped
<1>4. size \in Nat \ {0} /\ 2 * size \in Nat
  BY <1>1
<1>5. map_hash_resize(w.map) = [w.map EXCEPT !.hash_size = size, !.threshold = 2 * size, !.table = t]
  BY Zenon DEF map_hash_resize
<1> HIDE DEF u, size, t
<1>6. map_hash_resize(w.map) = [records |-> w.map.records, hash_size |-> size, table |-> t,
                                count |-> w.map.count, threshold |-> 2 * size]
  BY <1>3, <1>5
<1>7. /\ u.map.records = w.map.records /\ u.map.hash_size = size /\ u.map.table = t
      /\ u.map.count = w.map.count
  BY <1>2, <1>6
<1>8. MapTyped(u.map)
  BY <1>1, <1>2, <1>4, <1>6, <1>7 DEF MapTyped
<1>9. Full(u.map) = Full(w.map) /\ Head0 \notin Full(w.map)
  BY <1>1, <1>7 DEF Full, Head0
<1>10. KeysGood(u.map) /\ Counted(u.map)
  BY <1>1, <1>7, <1>9 DEF KeysGood, Counted
<1>11. t = TableBut(u.map, Head0)
  <2>1. Full(w.map) \ {Head0} = Full(w.map)
    BY <1>9
  <2> QED
    BY <1>7, <1>9, <2>1 DEF TableBut, t
<1>12. Standing(u.map, u.iter, u.stack)
  BY <1>1, <1>2, <1>7 DEF Standing
<1>13. Balanced(u, Head0)
  BY <1>1, <1>2, <1>7 DEF Balanced, Exact
<1>14. Sane(u, Head0)
  BY <1>2, <1>7, <1>8, <1>10, <1>11, <1>12 DEF Sane, MapSane
<1> QED
  BY <1>2, <1>7, <1>10, <1>13, <1>14 DEF Good, u

-----------------------------------------------------------------------------
(* The stack of calls.                                                     *)

LEMMA Pushed ==
  ASSUME NEW st \in Seq(FrameType), NEW f \in FrameType
  PROVE  LET k == Len(st) + 1
             st2 == Append(st, f)
         IN /\ st2 \in Seq(FrameType) /\ AlikeBut(st, st2, k) /\ Len(st2) = Len(st) + 1
            /\ st2[k] = f /\ At(st, k) = Head0 /\ At(st2, k) = IF Stands(f) THEN f.cur ELSE Head0
            /\ (\A j \in DOMAIN st : ~Going(st[j])) => OnTop(st2)
<1>1. /\ Append(st, f) \in Seq(FrameType) /\ Len(Append(st, f)) = Len(st) + 1
      /\ DOMAIN Append(st, f) = 1 .. Len(st) + 1 /\ DOMAIN st = 1 .. Len(st) /\ Len(st) \in Nat
      /\ Append(st, f)[Len(st) + 1] = f /\ \A j \in 1 .. Len(st) : Append(st, f)[j] = st[j]
  OBVIOUS
<1>2. Len(st) + 1 \notin 1 .. Len(st) /\ (1 .. Len(st)) \ {Len(st) + 1} = (1 .. Len(st) + 1) \ {Len(st) + 1}
  BY <1>1
<1>3. (\A j \in DOMAIN st : ~Going(st[j])) => OnTop(Append(st, f))
  <2>1. \A j \in 1 .. Len(st) + 1 : j \in 1 .. Len(st) \/ j = Len(st) + 1
    BY <1>1
  <2> QED
    BY <1>1, <2>1 DEF OnTop
<1> QED
  BY <1>1, <1>2, <1>3 DEF AlikeBut, At

LEMMA Popped ==
  ASSUME NEW st \in Seq(FrameType), st # <<>>
  PROVE  LET k == Len(st)
             st2 == Front(st)
         IN /\ st2 \in Seq(FrameType) /\ AlikeBut(st, st2, k) /\ Len(st2) = Len(st) - 1
            /\ k \notin DOMAIN st2 /\ k \in DOMAIN st /\ Last(st) = st[k]
            /\ At(st2, k) = Head0 /\ At(st, k) = IF Stands(Last(st)) THEN Last(st).cur ELSE Head0
            /\ OnTop(st) => OnTop(st2)
<1>1. Len(st) \in Nat \ {0} /\ DOMAIN st = 1 .. Len(st) /\ Last(st) = st[Len(st)]
  BY DEF Last
<1>2. /\ Front(st) \in Seq(FrameType) /\ Len(Front(st)) = Len(st) - 1
      /\ \A j \in 1 .. Len(st) - 1 : Front(st)[j] = st[j]
  BY <1>1 DEF Front
<1>3. DOMAIN Front(st) = 1 .. Len(st) - 1
  BY <1>2
<1>4. Len(st) \notin 1 .. Len(st) - 1 /\ Len(st) \in 1 .. Len(st)
      /\ (1 .. Len(st)) \ {Len(st)} = (1 .. Len(st) - 1) \ {Len(st)}
      /\ (1 .. Len(st)) \ {Len(st)} = 1 .. Len(st) - 1
  BY <1>1
<1>5. OnTop(st) => OnTop(Front(st))
  <2>1. \A j \in 1 .. Len(st) - 1 : j \in 1 .. Len(st) /\ j # Len(st)
    <3> DEFINE n == Len(st)
    <3>1. n \in Nat
      BY <1>1
    <3> HIDE DEF n
    <3>2. \A j \in 1 .. n - 1 : j \in 1 .. n /\ j # n
      BY <3>1
    <3> QED BY <3>2 DEF n
  <2> QED
    BY <1>1, <1>2, <1>3, <2>1 DEF OnTop
<1> QED
  BY <1>1, <1>2, <1>3, <1>4, <1>5 DEF AlikeBut, At

LEMMA Topped ==
  ASSUME NEW st \in Seq(FrameType), st # <<>>, NEW f \in FrameType
  PROVE  LET k == Len(st)
             st2 == [st EXCEPT ![Len(st)] = f]
         IN /\ st2 \in Seq(FrameType) /\ AlikeBut(st, st2, k) /\ Len(st2) = Len(st)
            /\ st2[k] = f /\ Last(st) = st[k] /\ k \in DOMAIN st
            /\ At(st2, k) = IF Stands(f) THEN f.cur ELSE Head0
            /\ At(st, k) = IF Stands(Last(st)) THEN Last(st).cur ELSE Head0
            /\ OnTop(st) => OnTop(st2)
<1> DEFINE k == Len(st)
           st2 == [st EXCEPT ![k] = f]
<1>1. k \in Nat \ {0} /\ DOMAIN st = 1 .. k /\ Last(st) = st[k]
  BY DEF Last
<1>2. k \in 1 .. k
  BY <1>1
<1>3. st2 \in Seq(FrameType) /\ Len(st2) = k
  OBVIOUS
<1>4. DOMAIN st2 = DOMAIN st /\ st2[k] = f /\ \A j \in DOMAIN st \ {k} : st2[j] = st[j]
  BY <1>1, <1>2
<1> HIDE DEF st2, k
<1>5. AlikeBut(st, st2, k)
  BY <1>4 DEF AlikeBut
<1>6. k \in DOMAIN st /\ k \in DOMAIN st2
  BY <1>1, <1>2, <1>4
<1>7. /\ At(st2, k) = IF Stands(f) THEN f.cur ELSE Head0
      /\ At(st, k) = IF Stands(Last(st)) THEN Last(st).cur ELSE Head0
  BY <1>1, <1>4, <1>6 DEF At
<1>8. OnTop(st) => OnTop(st2)
  BY <1>3, <1>4 DEF OnTop, k
<1> QED
  BY <1>1, <1>3, <1>4, <1>5, <1>6, <1>7, <1>8 DEF st2, k

-----------------------------------------------------------------------------
(* Steps from world to world.                                              *)

LEMMA Closing ==
  ASSUME NEW u, Good(u), Len(u.stack) <= MaxDepth, Becomes(u)
  PROVE  IInv'
<1>1. u = [map |-> u.map, iter |-> u.iter, stack |-> u.stack]
  BY DEF Good, Sane, IsWorld
<1>2. [map |-> map', iter |-> iter', stack |-> stack'] = u
  BY <1>1 DEF Becomes
<1> QED
  BY <1>2 DEF IInv, World, Becomes

LEMMA Opening ==
  ASSUME IInv
  PROVE  /\ Good(World) /\ Mid(World, Head0) /\ Balanced(World, Head0)
         /\ World.map = map /\ World.iter = iter /\ World.stack = stack
         /\ stack \in Seq(FrameType) /\ iter \in [Iter -> IterType] /\ map.records \in Seq(RecordType)
         /\ Len(stack) <= MaxDepth /\ Len(stack) \in Nat /\ OnTop(stack)
<1>1. Good(World) /\ World.map = map /\ World.iter = iter /\ World.stack = stack /\ Len(stack) <= MaxDepth
  BY DEF IInv, World
<1>2. Mid(World, Head0) /\ Balanced(World, Head0)
  BY <1>1, GoodMid
<1>3. stack \in Seq(FrameType) /\ iter \in [Iter -> IterType] /\ map.records \in Seq(RecordType)
      /\ OnTop(stack)
  BY <1>1 DEF Good, Sane, Standing, MapSane, MapTyped
<1> QED
  BY <1>1, <1>2, <1>3

(* No call is on its way to the next record while program code runs.       *)
LEMMA Waiting ==
  ASSUME IInv, InCode
  PROVE  \A j \in DOMAIN stack : ~Going(stack[j])
<1>1. stack \in Seq(FrameType) /\ OnTop(stack)
  BY Opening
<1>2. \A j \in DOMAIN stack : j = Len(stack) => stack[j].at = "callback"
  BY <1>1 DEF InCode, Last
<1> QED
  BY <1>1, <1>2 DEF OnTop, Going

(* A new map, without records and without visitors.                        *)
LEMMA EmptyGood == Good([map |-> NewMap, iter |-> [i \in Iter |-> NoIter], stack |-> <<>>])
<1> DEFINE it == [i \in Iter |-> NoIter]
           w == [map |-> NewMap, iter |-> it, stack |-> <<>>]
<1>1. /\ NewMap.records = <<>> /\ NewMap.hash_size = 1 /\ NewMap.table = [h \in {0} |-> {}]
      /\ NewMap.count = 0 /\ NewMap.threshold = Threshold
  BY DEF NewMap
<1>2. <<>> \in Seq(RecordType) /\ DOMAIN <<>> = {} /\ Len(<<>>) = 0 /\ <<>> \in Seq(FrameType)
      /\ OnTop(<<>>)
  BY DEF OnTop
<1>3. MapTyped(NewMap)
  BY <1>1, <1>2, MapAssumption DEF MapTyped, NewMap
<1>4. Full(NewMap) = {} /\ KeysGood(NewMap)
  BY <1>1, <1>2 DEF Full, KeysGood
<1>5. NewMap.table = TableBut(NewMap, Head0)
  <2>1. 0 .. NewMap.hash_size - 1 = {0}
    BY <1>1
  <2> QED
    BY <1>1, <1>4, <2>1 DEF TableBut
<1>6. Counted(NewMap)
  BY <1>1, <1>4, FS_EmptySet DEF Counted
<1>7. NoIter \in IterType /\ NoIter.cur = Head0 /\ Head0 = 0
  BY DEF NoIter, IterType, Head0
<1>8. Standing(NewMap, it, <<>>)
  BY <1>1, <1>2, <1>7 DEF Standing
<1>9. Exact(NewMap, it, <<>>, Head0)
  BY <1>1, <1>2 DEF Exact
<1> QED
  BY <1>3, <1>4, <1>5, <1>6, <1>8, <1>9 DEF Good, Sane, Balanced, MapSane, IsWorld

-----------------------------------------------------------------------------
(* What a Map promises.  The entries of a world are the keys of its        *)
(* records, their order and values, and what is left to visit.             *)

LEMMA FullPlaces ==
  ASSUME NEW m, MapTyped(m)
  PROVE  /\ m.records \in Seq(RecordType)
         /\ \A p \in Full(m) : /\ p \in DOMAIN m.records /\ p \in Nat /\ p > Head0
                               /\ m.records[p] \in RecordType
BY DEF MapTyped, Full, Head0

LEMMA KeysTyped ==
  ASSUME NEW m, MapTyped(m), KeysGood(m)
  PROVE  /\ \A p \in Full(m) : m.records[p].key \in Key
         /\ \A a : Keys(m, a) \in SUBSET Key
         /\ \A e \in Order(m) : e[1] \in Key /\ e[2] \in Key
<1>1. \A p \in Full(m) : m.records[p].key \in Key
  <2> SUFFICES ASSUME NEW p \in Full(m) PROVE m.records[p].key \in Key
    OBVIOUS
  <2>1. m.records[p] \in RecordType /\ ~m.records[p].empty /\ p \in DOMAIN m.records
    BY FullPlaces DEF Full
  <2> QED BY <2>1 DEF KeysGood, RecordType
<1>2. \A a : Keys(m, a) \in SUBSET Key
  BY <1>1 DEF Keys
<1>3. \A e \in Order(m) : e[1] \in Key /\ e[2] \in Key
  BY <1>1 DEF Order
<1> QED BY <1>1, <1>2, <1>3

(* Keys and orders, by records.                                            *)
LEMMA ViewAt ==
  ASSUME NEW m, MapTyped(m), KeysGood(m)
  PROVE  /\ \A a, k : k \in Keys(m, a) <=> \E p \in Full(m) : p > a /\ m.records[p].key = k
         /\ \A j, k : <<j, k>> \in Order(m) <=>
              \E p, q \in Full(m) : p < q /\ m.records[p].key = j /\ m.records[q].key = k
         /\ \A p \in Full(m) : ValueOf(m, m.records[p].key) = m.records[p].value
         /\ \A k : k \notin Keys(m, Head0) => ValueOf(m, k) = NoValue
<1>1. \A a, k : k \in Keys(m, a) <=> \E p \in Full(m) : p > a /\ m.records[p].key = k
  BY DEF Keys
<1>2. ASSUME NEW j, NEW k
      PROVE  <<j, k>> \in Order(m) <=>
               \E p, q \in Full(m) : p < q /\ m.records[p].key = j /\ m.records[q].key = k
  <2>1. ASSUME <<j, k>> \in Order(m)
        PROVE  \E p, q \in Full(m) : p < q /\ m.records[p].key = j /\ m.records[q].key = k
    <3>1. PICK x \in Full(m) \X Full(m) :
            x[1] < x[2] /\ <<j, k>> = <<m.records[x[1]].key, m.records[x[2]].key>>
      BY <2>1 DEF Order
    <3> QED BY <3>1
  <2>2. ASSUME NEW p \in Full(m), NEW q \in Full(m), p < q, m.records[p].key = j, m.records[q].key = k
        PROVE  <<j, k>> \in Order(m)
    <3>1. <<p, q>> \in Full(m) \X Full(m) /\ <<p, q>>[1] = p /\ <<p, q>>[2] = q
      OBVIOUS
    <3> QED BY <2>2, <3>1 DEF Order
  <2> QED BY <2>1, <2>2
<1>3. ASSUME NEW p \in Full(m) PROVE ValueOf(m, m.records[p].key) = m.records[p].value
  <2> DEFINE k == m.records[p].key
  <2>1. k \in Keys(m, Head0)
    BY <1>1, FullPlaces
  <2>2. PICK c : c = (CHOOSE q \in Full(m) : m.records[q].key = k)
    OBVIOUS
  <2>3. c \in Full(m) /\ m.records[c].key = k
    BY <2>2
  <2>4. c = p
    BY <2>3 DEF KeysGood
  <2> HIDE DEF k
  <2>5. ValueOf(m, k) = m.records[c].value
    BY <2>1, <2>2 DEF ValueOf
  <2> QED BY <2>4, <2>5 DEF k
<1>4. \A k : k \notin Keys(m, Head0) => ValueOf(m, k) = NoValue
  BY DEF ValueOf
<1> QED BY <1>1, <1>2, <1>3, <1>4

(* The records of m but r are those of m2, moved by f.                     *)
Carries(m, m2, f, r) ==
  /\ \A p \in Full(m) \ {r} : /\ f[p] \in Full(m2) /\ m2.records[f[p]].key = m.records[p].key
                              /\ m2.records[f[p]].value = m.records[p].value
  /\ \A q \in Full(m2) : \E p \in Full(m) \ {r} : q = f[p]
  /\ \A p, q \in Full(m) \ {r} : p < q <=> f[p] < f[q]

KeyOf(m, r) == IF r \in Full(m) THEN m.records[r].key ELSE None

OrderBut(m, k) == {e \in Order(m) : k \notin {e[1], e[2]}}
ValueBut(m, j, k) == IF j = k THEN NoValue ELSE ValueOf(m, j)

LEMMA Carried ==
  ASSUME NEW m, NEW m2, MapTyped(m), KeysGood(m), MapTyped(m2), KeysGood(m2),
         NEW f, NEW r, Carries(m, m2, f, r)
  PROVE  /\ Order(m2) = OrderBut(m, KeyOf(m, r))
         /\ \A j \in Key : ValueOf(m2, j) = ValueBut(m, j, KeyOf(m, r))
         /\ \A a, a2 : (\A p \in Full(m) \ {r} : p > a <=> f[p] > a2) =>
              Keys(m2, a2) = Keys(m, a) \ {KeyOf(m, r)}
<1> DEFINE k == KeyOf(m, r)
<1>1. /\ \A p \in Full(m) \ {r} : /\ f[p] \in Full(m2) /\ m2.records[f[p]].key = m.records[p].key
                                  /\ m2.records[f[p]].value = m.records[p].value
      /\ \A q \in Full(m2) : \E p \in Full(m) \ {r} : q = f[p]
      /\ \A p, q \in Full(m) \ {r} : p < q <=> f[p] < f[q]
  BY DEF Carries
<1>2. \A p \in Full(m) : p \in Full(m) \ {r} <=> m.records[p].key # k
  <2>1. \A p \in Full(m) : m.records[p].key \in Key
    BY KeysTyped
  <2>2. None \notin Key
    BY MapAssumption
  <2> QED BY <2>1, <2>2 DEF KeyOf, KeysGood
<1> HIDE DEF k
<1>3. Order(m2) = OrderBut(m, k)
  <2>1. ASSUME NEW e \in Order(m2) PROVE e \in OrderBut(m, k)
    <3>1. PICK p2 \in Full(m2), q2 \in Full(m2) : p2 < q2 /\ e = <<m2.records[p2].key, m2.records[q2].key>>
      BY <2>1 DEF Order
    <3>2. PICK p \in Full(m) \ {r}, q \in Full(m) \ {r} : p2 = f[p] /\ q2 = f[q]
      BY <1>1
    <3>3. p < q /\ e = <<m.records[p].key, m.records[q].key>>
      BY <1>1, <3>1, <3>2
    <3>4. m.records[p].key # k /\ m.records[q].key # k
      BY <1>2
    <3>5. <<m.records[p].key, m.records[q].key>> \in Order(m)
      BY <3>3, ViewAt
    <3> QED BY <3>3, <3>4, <3>5 DEF OrderBut
  <2>2. ASSUME NEW e \in OrderBut(m, k) PROVE e \in Order(m2)
    <3>1. e \in Order(m) /\ k # e[1] /\ k # e[2]
      BY DEF OrderBut
    <3>2. PICK p \in Full(m), q \in Full(m) : p < q /\ e = <<m.records[p].key, m.records[q].key>>
      BY <3>1 DEF Order
    <3>3. p \in Full(m) \ {r} /\ q \in Full(m) \ {r}
      BY <1>2, <3>1, <3>2
    <3>4. /\ f[p] \in Full(m2) /\ f[q] \in Full(m2) /\ f[p] < f[q]
          /\ m2.records[f[p]].key = m.records[p].key /\ m2.records[f[q]].key = m.records[q].key
      BY <1>1, <3>2, <3>3
    <3>5. <<m.records[p].key, m.records[q].key>> \in Order(m2)
      BY <3>4, ViewAt
    <3> QED BY <3>2, <3>5
  <2> QED BY <2>1, <2>2 DEF OrderBut
<1>4. ASSUME NEW a, NEW a2, \A p \in Full(m) \ {r} : p > a <=> f[p] > a2
      PROVE  Keys(m2, a2) = Keys(m, a) \ {k}
  <2>1. ASSUME NEW x \in Keys(m2, a2) PROVE x \in Keys(m, a) /\ x # k
    <3>1. PICK q \in Full(m2) : q > a2 /\ m2.records[q].key = x
      BY ViewAt
    <3>2. PICK p \in Full(m) \ {r} : q = f[p]
      BY <1>1
    <3>3. m.records[p].key = x /\ p > a
      BY <1>1, <1>4, <3>1, <3>2
    <3> QED BY <1>2, <3>3, ViewAt
  <2>2. ASSUME NEW x \in Keys(m, a), x # k PROVE x \in Keys(m2, a2)
    <3>1. PICK p \in Full(m) : p > a /\ m.records[p].key = x
      BY ViewAt
    <3>2. p \in Full(m) \ {r}
      BY <1>2, <2>2, <3>1
    <3>3. f[p] \in Full(m2) /\ f[p] > a2 /\ m2.records[f[p]].key = x
      BY <1>1, <1>4, <3>1, <3>2
    <3> QED BY <3>3, ViewAt
  <2> QED BY <2>1, <2>2
<1>5. Keys(m2, Head0) = Keys(m, Head0) \ {k}
  <2>1. \A p \in Full(m) \ {r} : p > Head0 <=> f[p] > Head0
    BY <1>1, FullPlaces
  <2> QED BY <1>4, <2>1
<1>6. ASSUME NEW j \in Key PROVE ValueOf(m2, j) = ValueBut(m, j, k)
  <2>1. CASE j \in Keys(m2, Head0)
    <3>1. PICK q \in Full(m2) : m2.records[q].key = j
      BY <2>1, ViewAt
    <3>2. PICK p \in Full(m) \ {r} : q = f[p]
      BY <1>1
    <3>3. m.records[p].key = j /\ m2.records[q].value = m.records[p].value
      BY <1>1, <3>1, <3>2
    <3>4. ValueOf(m2, j) = m2.records[q].value /\ ValueOf(m, j) = m.records[p].value
      BY <3>1, <3>3, ViewAt
    <3>5. j # k
      BY <1>2, <3>3
    <3> QED BY <3>3, <3>4, <3>5 DEF ValueBut
  <2>2. CASE j \notin Keys(m2, Head0)
    <3>1. ValueOf(m2, j) = NoValue
      BY <2>2, ViewAt
    <3>2. j = k \/ j \notin Keys(m, Head0)
      BY <1>5, <2>2
    <3>3. j \notin Keys(m, Head0) => ValueOf(m, j) = NoValue
      BY ViewAt
    <3> QED BY <3>1, <3>2, <3>3 DEF ValueBut
  <2> QED BY <2>1, <2>2
<1> QED BY <1>3, <1>4, <1>6 DEF k

(* A call that points to a record that has been freed.                     *)
Stray(f) == Going(f) /\ f.cur = Freed
Strays(w) == \E j \in DOMAIN w.stack : Stray(w.stack[j])

(* A world that has lost the key k, of which no zombie is; what it has     *)
(* given a value; and one where an enumeration has been set to R.  Nothing *)
(* is said of a world where a call is astray.                              *)
Cursors == Iter \cup 1 .. MaxDepth
Cut(R, k) == IF R \in {Idle, Done} THEN R ELSE R \ {k}

Loses(w, u, k) ==
  /\ Strays(w) => Strays(u)
  /\ ~Strays(u) => /\ Order(u.map) = OrderBut(w.map, k)
                   /\ \A j \in Key : ValueOf(u.map, j) = ValueBut(w.map, j, k)
                   /\ \A c \in Cursors : Rest(u, c) = Cut(Rest(w, c), k)

Sets(w, u, k, v) ==
  /\ Strays(w) => Strays(u)
  /\ Order(u.map) = Order(w.map)
  /\ \A j \in Key : ValueOf(u.map, j) = IF j = k THEN v ELSE ValueOf(w.map, j)
  /\ \A c \in Cursors : Rest(u, c) = Rest(w, c)

Turns(w, u, x, R) ==
  /\ Strays(w) => Strays(u)
  /\ ~Strays(u) => /\ Order(u.map) = Order(w.map)
                   /\ \A j \in Key : ValueOf(u.map, j) = ValueOf(w.map, j)
                   /\ \A c \in Cursors : Rest(u, c) = IF c = x THEN R ELSE Rest(w, c)

Same(w, u) ==
  /\ Strays(w) => Strays(u)
  /\ ~Strays(u) => /\ Order(u.map) = Order(w.map)
                   /\ \A j \in Key : ValueOf(u.map, j) = ValueOf(w.map, j)
                   /\ \A c \in Cursors : Rest(u, c) = Rest(w, c)

(* What is left to visit is a set of keys, Idle or Done.                   *)
LEMMA RestsTyped ==
  ASSUME NEW w, NEW d, Sane(w, d)
  PROVE  /\ \A c \in Cursors : Rest(w, c) \in {Idle, Done} \/ Rest(w, c) \in SUBSET Key
         /\ \A S \in SUBSET Key : S # Idle /\ S # Done
         /\ Idle # Done
<1>1. \A a : Keys(w.map, a) \in SUBSET Key
  BY KeysTyped DEF Sane, MapSane
<1>2. \A i \in Iter : IterRest(w.map, w.iter[i]) \in {Idle, Done} \/ IterRest(w.map, w.iter[i]) \in SUBSET Key
  <2> SUFFICES ASSUME NEW i \in Iter
               PROVE  IterRest(w.map, w.iter[i]) \in {Idle, Done} \/ IterRest(w.map, w.iter[i]) \in SUBSET Key
    OBVIOUS
  <2>1. w.iter[i].state \in {"none", "on", "done"}
    BY DEF Sane, Standing, IterType
  <2> QED
    BY <1>1, <2>1 DEF IterRest
<1>3. \A j : CallRest(w.map, w.stack, j) \in {Idle, Done} \/ CallRest(w.map, w.stack, j) \in SUBSET Key
  BY <1>1 DEF CallRest, KeysFrom
<1>4. /\ \A S \in SUBSET Key : S # Idle /\ S # Done
      /\ Idle # Done
  BY MapAssumption
<1> QED
  BY <1>2, <1>3, <1>4 DEF Rest

LEMMA LosesNothing ==
  ASSUME NEW w, NEW d, NEW u, Sane(w, d), Loses(w, u, None)
  PROVE  Same(w, u)
<1>1. None \notin Key
  BY MapAssumption
<1>2. OrderBut(w.map, None) = Order(w.map)
  <2>1. \A e \in Order(w.map) : e[1] \in Key /\ e[2] \in Key
    BY KeysTyped DEF Sane, MapSane
  <2> QED
    BY <1>1, <2>1 DEF OrderBut
<1>3. \A c \in Cursors : Cut(Rest(w, c), None) = Rest(w, c)
  BY <1>1, RestsTyped DEF Cut
<1> QED
  BY <1>1, <1>2, <1>3 DEF Loses, Same, ValueBut

(* What is behind a place is what is behind the place it has become.       *)
Ahead(m, f, r, a, b) == \A p \in Full(m) \ {r} : p > a <=> f[p] > b

Moved(w, u, f, r) ==
  /\ \A i \in Iter : /\ u.iter[i].state = w.iter[i].state
                     /\ Ahead(w.map, f, r, w.iter[i].cur, u.iter[i].cur)
  /\ DOMAIN u.stack = DOMAIN w.stack
  /\ \A j \in DOMAIN w.stack : /\ u.stack[j].at = w.stack[j].at
                               /\ Stands(w.stack[j]) => Ahead(w.map, f, r, w.stack[j].cur, u.stack[j].cur)
                               /\ w.stack[j].cur = Freed => u.stack[j].cur = Freed
                               /\ Going(w.stack[j]) /\ u.stack[j].cur # Freed =>
                                    /\ w.stack[j].cur = Head0 <=> u.stack[j].cur = Head0
                                    /\ Ahead(w.map, f, r, w.stack[j].cur - 1, u.stack[j].cur - 1)

LEMMA CarriedWorld ==
  ASSUME NEW w, NEW d, NEW u, NEW e, Sane(w, d), Sane(u, e), NEW f, NEW r,
         Carries(w.map, u.map, f, r), Moved(w, u, f, r)
  PROVE  Loses(w, u, KeyOf(w.map, r))
<1> DEFINE k == KeyOf(w.map, r)
<1>1. /\ Order(u.map) = OrderBut(w.map, k)
      /\ \A j \in Key : ValueOf(u.map, j) = ValueBut(w.map, j, k)
      /\ \A a, b : (\A p \in Full(w.map) \ {r} : p > a <=> f[p] > b) => Keys(u.map, b) = Keys(w.map, a) \ {k}
  BY Carried DEF Sane, MapSane
<1> HIDE DEF k
<1>2. \A a, b : Ahead(w.map, f, r, a, b) => Keys(u.map, b) = Keys(w.map, a) \ {k}
  BY <1>1 DEF Ahead
<1>3. \A a : Keys(w.map, a) # Idle /\ Keys(w.map, a) # Done
  BY KeysTyped, MapAssumption DEF Sane, MapSane
<1>4. \A i \in Iter : IterRest(u.map, u.iter[i]) = Cut(IterRest(w.map, w.iter[i]), k)
  <2> SUFFICES ASSUME NEW i \in Iter
               PROVE  IterRest(u.map, u.iter[i]) = Cut(IterRest(w.map, w.iter[i]), k)
    OBVIOUS
  <2>1. w.iter[i].state \in {"none", "on", "done"} /\ u.iter[i].state = w.iter[i].state
    BY DEF Sane, Standing, IterType, Moved
  <2>2. Keys(u.map, u.iter[i].cur) = Keys(w.map, w.iter[i].cur) \ {k}
    BY <1>2 DEF Moved
  <2> QED
    BY <1>3, <2>1, <2>2 DEF IterRest, Cut
<1>7. Strays(w) => Strays(u)
  BY DEF Strays, Stray, Going, Moved
<1> SUFFICES ASSUME ~Strays(u)
             PROVE  /\ Order(u.map) = OrderBut(w.map, k)
                    /\ \A j \in Key : ValueOf(u.map, j) = ValueBut(w.map, j, k)
                    /\ \A c \in Cursors : Rest(u, c) = Cut(Rest(w, c), k)
  BY <1>7 DEF Loses, k
<1>5. \A j : CallRest(u.map, u.stack, j) = Cut(CallRest(w.map, w.stack, j), k)
  <2> SUFFICES ASSUME NEW j PROVE CallRest(u.map, u.stack, j) = Cut(CallRest(w.map, w.stack, j), k)
    OBVIOUS
  <2>1. CASE j \notin DOMAIN w.stack
    BY <2>1 DEF CallRest, Cut, Moved
  <2>2. CASE j \in DOMAIN w.stack
    <3>1. u.stack[j].at = w.stack[j].at /\ j \in DOMAIN u.stack
      BY <2>2 DEF Moved
    <3>2. Stands(w.stack[j]) => Keys(u.map, u.stack[j].cur) = Keys(w.map, w.stack[j].cur) \ {k}
      BY <1>2, <2>2 DEF Moved
    <3>3. ASSUME Going(w.stack[j])
          PROVE  KeysFrom(u.map, u.stack[j].cur) = KeysFrom(w.map, w.stack[j].cur) \ {k}
      <4>1. u.stack[j].cur # Freed
        BY <3>1, <3>3 DEF Strays, Stray, Going
      <4>2. /\ w.stack[j].cur = Head0 <=> u.stack[j].cur = Head0
            /\ Ahead(w.map, f, r, w.stack[j].cur - 1, u.stack[j].cur - 1)
        BY <2>2, <3>3, <4>1 DEF Moved
      <4> QED
        BY <1>2, <4>2 DEF KeysFrom
    <3>4. {} # Idle /\ {} # Done
      BY MapAssumption
    <3>5. KeysFrom(w.map, w.stack[j].cur) # Idle /\ KeysFrom(w.map, w.stack[j].cur) # Done
      BY <1>3, <3>4 DEF KeysFrom
    <3>6. CASE Going(w.stack[j])
      BY <2>2, <3>1, <3>3, <3>5, <3>6 DEF CallRest, Cut, Going
    <3>7. CASE ~Going(w.stack[j])
      BY <1>3, <2>2, <3>1, <3>2, <3>7 DEF CallRest, Cut, Going, Stands
    <3> QED
      BY <3>6, <3>7
  <2> QED
    BY <2>1, <2>2
<1>6. \A c \in Cursors : Rest(u, c) = Cut(Rest(w, c), k)
  BY <1>4, <1>5 DEF Rest
<1> QED
  BY <1>1, <1>6

(* One after the other. *)
LEMMA SameSame ==
  ASSUME NEW w, NEW u, NEW v, Same(w, u), Same(u, v)
  PROVE  Same(w, v)
BY DEF Same

LEMMA TurnsSame ==
  ASSUME NEW w, NEW u, NEW v, NEW x, NEW R, Turns(w, u, x, R), Same(u, v)
  PROVE  Turns(w, v, x, R)
BY DEF Same, Turns

LEMMA SameTurns ==
  ASSUME NEW w, NEW u, NEW v, NEW x, NEW R, Same(w, u), Turns(u, v, x, R)
  PROVE  Turns(w, v, x, R)
BY DEF Same, Turns

LEMMA TurnsBack ==
  ASSUME NEW w, NEW u, NEW x, NEW R, Turns(w, u, x, R), R = Rest(w, x)
  PROVE  Same(w, u)
BY DEF Same, Turns

(* A record on which nobody stands is unlinked.                            *)
LEMMA UnlinkView ==
  ASSUME NEW w, NEW d, NEW e, NEW r \in DOMAIN w.map.records, Sane(w, d), Sane(Unlink(w, r), e),
         Visits(w.iter, w.stack, r) = 0
  PROVE  Loses(w, Unlink(w, r), KeyOf(w.map, r))
<1> DEFINE u == Unlink(w, r)
           n == Len(w.map.records)
           f == [p \in 1 .. n |-> Shift(r, p)]
<1>1. /\ u.map = [records |-> RemoveAt(w.map.records, r), hash_size |-> w.map.hash_size,
                  table |-> [h \in DOMAIN w.map.table |-> {Shift(r, p) : p \in w.map.table[h]}],
                  count |-> w.map.count, threshold |-> w.map.threshold]
      /\ u.iter = [i \in Iter |-> [w.iter[i] EXCEPT !.cur = Shift(r, w.iter[i].cur)]]
      /\ u.stack = [j \in DOMAIN w.stack |-> [w.stack[j] EXCEPT !.cur = Shift(r, w.stack[j].cur)]]
  BY UnlinkFields DEF Sane, MapSane, Standing
<1>2. w.map.records \in Seq(RecordType) /\ n \in Nat /\ r \in 1 .. n /\ DOMAIN w.map.records = 1 .. n
  BY DEF Sane, MapSane, MapTyped
<1>3. /\ RemoveAt(w.map.records, r) \in Seq(RecordType) /\ Len(RemoveAt(w.map.records, r)) = n - 1
      /\ \A q \in 1 .. n - 1 : RemoveAt(w.map.records, r)[q] = w.map.records[IF q < r THEN q ELSE q + 1]
  BY <1>2, RemovedAt
<1>4. /\ DOMAIN u.map.records = 1 .. n - 1
      /\ \A q \in 1 .. n - 1 : u.map.records[q] = w.map.records[Back(r, q)]
  BY <1>1, <1>2, <1>3 DEF Back
<1>5. /\ \A q \in 1 .. n - 1 : Back(r, q) \in (1 .. n) \ {r} /\ Shift(r, Back(r, q)) = q
      /\ \A p \in (1 .. n) \ {r} : Shift(r, p) \in 1 .. n - 1 /\ Back(r, Shift(r, p)) = p
      /\ \A p \in -1 .. n : \A q \in 1 .. n - 1 : Shift(r, p) = q <=> p = Back(r, q)
      /\ \A p \in -1 .. n : Shift(r, p) \in -1 .. n - 1
      /\ \A p \in 0 .. n : p # r => Shift(r, p) \in 0 .. n - 1
      /\ Shift(r, Head0) = Head0
  <2> HIDE DEF n, f, u
  <2> QED BY <1>2, ShiftBack
<1>6. Full(w.map) \subseteq 1 .. n /\ Full(u.map) \subseteq 1 .. n - 1
  BY <1>2, <1>4 DEF Full
<1>7. Enumerating(w.iter, r) = {} /\ Calling(w.stack, r) = {}
  BY VisitsNat DEF Sane, Standing
<1>8. \A p \in (1 .. n) \ {r} : \A a \in 0 .. n : a # r => (p > a <=> f[p] > Shift(r, a))
  BY <1>2 DEF Shift
<1>9. ASSUME NEW a \in 0 .. n, a # r PROVE Ahead(w.map, f, r, a, Shift(r, a))
  BY <1>6, <1>8, <1>9 DEF Ahead
<1>10. Carries(w.map, u.map, f, r)
  <2>1. ASSUME NEW p \in Full(w.map) \ {r}
        PROVE  /\ f[p] \in Full(u.map) /\ u.map.records[f[p]].key = w.map.records[p].key
               /\ u.map.records[f[p]].value = w.map.records[p].value
    <3>1. p \in (1 .. n) \ {r} /\ f[p] \in 1 .. n - 1 /\ Back(r, f[p]) = p
      BY <1>5, <1>6
    <3>2. u.map.records[f[p]] = w.map.records[p]
      BY <1>4, <3>1
    <3>3. f[p] \in Full(u.map)
      BY <1>4, <3>1, <3>2 DEF Full
    <3> QED BY <3>2, <3>3
  <2>2. ASSUME NEW q \in Full(u.map) PROVE \E p \in Full(w.map) \ {r} : q = f[p]
    <3>1. q \in 1 .. n - 1 /\ Back(r, q) \in (1 .. n) \ {r} /\ f[Back(r, q)] = q
      BY <1>5, <1>6
    <3>2. u.map.records[q] = w.map.records[Back(r, q)]
      BY <1>4, <3>1
    <3>3. Back(r, q) \in Full(w.map)
      BY <1>2, <3>1, <3>2 DEF Full
    <3> QED BY <3>1, <3>3
  <2>3. \A p, q \in (1 .. n) \ {r} : p < q <=> f[p] < f[q]
    BY <1>2 DEF Shift
  <2> HIDE DEF f
  <2> QED BY <1>6, <2>1, <2>2, <2>3 DEF Carries
<1> HIDE DEF f
<1>11. Moved(w, u, f, r)
  <2>1. ASSUME NEW i \in Iter
        PROVE  u.iter[i].state = w.iter[i].state /\ Ahead(w.map, f, r, w.iter[i].cur, u.iter[i].cur)
    <3>1. w.iter[i] \in IterType /\ w.iter[i].cur \in 0 .. n /\ w.iter[i].cur # r
      BY <1>7 DEF Sane, Standing, Enumerating
    <3>2. u.iter[i].state = w.iter[i].state /\ u.iter[i].cur = Shift(r, w.iter[i].cur)
      BY <1>1, <3>1 DEF IterType
    <3> QED BY <1>9, <3>1, <3>2
  <2>2. ASSUME NEW j \in DOMAIN w.stack
        PROVE  /\ u.stack[j].at = w.stack[j].at
               /\ Stands(w.stack[j]) => Ahead(w.map, f, r, w.stack[j].cur, u.stack[j].cur)
               /\ w.stack[j].cur = Freed => u.stack[j].cur = Freed
               /\ Going(w.stack[j]) /\ u.stack[j].cur # Freed =>
                    /\ w.stack[j].cur = Head0 <=> u.stack[j].cur = Head0
                    /\ Ahead(w.map, f, r, w.stack[j].cur - 1, u.stack[j].cur - 1)
    <3>1. w.stack[j] \in FrameType
      BY DEF Sane, Standing
    <3>2. Stands(w.stack[j]) => w.stack[j].cur \in 0 .. n /\ w.stack[j].cur # r
      BY <1>7 DEF Sane, Standing, Calling
    <3>3. u.stack[j].at = w.stack[j].at /\ u.stack[j].cur = Shift(r, w.stack[j].cur)
      BY <1>1, <3>1 DEF FrameType
    <3>4. Stands(w.stack[j]) => Ahead(w.map, f, r, w.stack[j].cur, u.stack[j].cur)
      BY <1>9, <3>2, <3>3
    <3>5. w.stack[j].cur = Freed => u.stack[j].cur = Freed
      BY <1>2, <3>3 DEF Shift, Freed
    <3>6. ASSUME Going(w.stack[j]), u.stack[j].cur # Freed
          PROVE  /\ w.stack[j].cur = Head0 <=> u.stack[j].cur = Head0
                 /\ Ahead(w.map, f, r, w.stack[j].cur - 1, u.stack[j].cur - 1)
      <4> DEFINE c == w.stack[j].cur
      <4>1. ~Stands(w.stack[j])
        BY <3>6 DEF Going, Stands
      <4>2. c \in -1 .. n
        BY <4>1 DEF Sane, Standing
      <4> HIDE DEF c
      <4>3. Shift(r, c) # Freed
        BY <3>3, <3>6 DEF c
      <4>4. c # Freed /\ c # r
        BY <1>2, <4>3 DEF Shift, Freed
      <4>5. c = Head0 <=> Shift(r, c) = Head0
        BY <1>2, <4>2, <4>4 DEF Shift, Head0, Freed
      <4>6. \A p \in (1 .. n) \ {r} : p > c - 1 <=> f[p] > Shift(r, c) - 1
        <5>1. \A p \in (1 .. n) \ {r} : p > c - 1 <=> Shift(r, p) > Shift(r, c) - 1
          BY <1>2, <4>2, <4>4 DEF Shift, Freed
        <5> QED BY <5>1 DEF f
      <4>7. Ahead(w.map, f, r, c - 1, Shift(r, c) - 1)
        BY <1>6, <4>6 DEF Ahead
      <4> QED BY <3>3, <4>5, <4>7 DEF c
    <3> QED BY <3>3, <3>4, <3>5, <3>6
  <2>3. DOMAIN u.stack = DOMAIN w.stack
    BY <1>1
  <2> QED BY <2>1, <2>2, <2>3 DEF Moved
<1> HIDE DEF u
<1>12. Sane(u, e)
  BY DEF u
<1> QED
  BY <1>10, <1>11, <1>12, CarriedWorld DEF u

(* The records keep their places, and all but r their keys and values.     *)
LEMMA InPlace ==
  ASSUME NEW w, NEW d, NEW u, NEW e, Sane(w, d), Sane(u, e), NEW r,
         Full(u.map) = Full(w.map) \ {r}, u.iter = w.iter, u.stack = w.stack,
         \A p \in Full(w.map) \ {r} : /\ u.map.records[p].key = w.map.records[p].key
                                      /\ u.map.records[p].value = w.map.records[p].value
  PROVE  Loses(w, u, KeyOf(w.map, r))
<1> DEFINE f == [p \in Full(w.map) |-> p]
<1>1. Carries(w.map, u.map, f, r)
  <2>1. \A p \in Full(w.map) : f[p] = p
    OBVIOUS
  <2> HIDE DEF f
  <2> QED BY <2>1 DEF Carries
<1>2. Moved(w, u, f, r)
  <2>1. \A a : Ahead(w.map, f, r, a, a)
    BY DEF Ahead
  <2> HIDE DEF f
  <2> QED BY <2>1 DEF Moved
<1> HIDE DEF f
<1> QED BY <1>1, <1>2, CarriedWorld

(* Only the count of a record changes.                                     *)
LEMMA CountView ==
  ASSUME NEW w, NEW d, NEW r \in DOMAIN w.map.records, Sane(w, d), NEW n \in Nat \ {0}
  PROVE  LET rec == [w.map.records[r] EXCEPT !.ref_count = n] IN
         /\ Sane(WithRecord(w, r, rec), d) /\ Same(w, WithRecord(w, r, rec))
<1> DEFINE rec == [w.map.records[r] EXCEPT !.ref_count = n]
           u == WithRecord(w, r, rec)
<1>1. w.map.records[r] \in RecordType /\ w.map.records \in Seq(RecordType)
  BY DEF Sane, MapSane, MapTyped
<1>2. /\ rec \in RecordType /\ rec.key = w.map.records[r].key /\ rec.empty = w.map.records[r].empty
      /\ rec.value = w.map.records[r].value
  BY <1>1 DEF RecordType
<1> HIDE DEF rec
<1>3. /\ Sane(u, d) /\ Full(u.map) = Full(w.map)
      /\ u.iter = w.iter /\ u.stack = w.stack
      /\ \A p \in DOMAIN w.map.records : u.map.records[p] = IF p = r THEN rec ELSE w.map.records[p]
  BY <1>2, Rewritten
<1> HIDE DEF u
<1>4. Head0 \notin Full(w.map) /\ Full(w.map) \subseteq DOMAIN w.map.records
  BY <1>1 DEF Full, Head0
<1>5. \A p \in Full(w.map) : /\ u.map.records[p].key = w.map.records[p].key
                             /\ u.map.records[p].value = w.map.records[p].value
  BY <1>2, <1>3, <1>4
<1>6. Full(u.map) = Full(w.map) \ {Head0}
  BY <1>3, <1>4
<1>7. Loses(w, u, KeyOf(w.map, Head0))
  BY <1>3, <1>5, <1>6, InPlace
<1>8. KeyOf(w.map, Head0) = None
  BY <1>4 DEF KeyOf
<1>9. Same(w, u)
  BY <1>7, <1>8, LosesNothing
<1> QED BY <1>3, <1>9 DEF u, rec

(* A visitor comes, leaves, or both: what there is to see stays the same.  *)
LEMMA LockedView ==
  ASSUME NEW w, NEW d, NEW r \in 0 .. Len(w.map.records), Mid(w, d)
  PROVE  Same(w, locked(w, r))
<1>1. CASE r = Head0
  BY <1>1 DEF locked, Same
<1>2. CASE r # Head0
  <2>1. r \in DOMAIN w.map.records
    BY <1>2 DEF Mid, Sane, MapSane, MapTyped, Head0
  <2>2. w.map.records[r].ref_count \in Nat \ {0}
    BY <2>1, Settled
  <2> DEFINE n == w.map.records[r].ref_count + 1
             rec == [w.map.records[r] EXCEPT !.ref_count = n]
  <2>3. locked(w, r) = WithRecord(w, r, rec)
    BY <1>2 DEF locked, WithRecord
  <2>4. n \in Nat \ {0} /\ Sane(w, d)
    BY <2>2 DEF Mid
  <2> HIDE DEF n
  <2>5. Same(w, WithRecord(w, r, rec))
    BY <2>1, <2>4, CountView
  <2> HIDE DEF rec
  <2> QED BY <2>3, <2>5
<1> QED BY <1>1, <1>2

(* What is freed because its last visitor leaves is a zombie.              *)
LEMMA DecrefView ==
  ASSUME NEW w, NEW d, NEW r \in DOMAIN w.map.records, Mid(w, d), Balanced(w, r)
  PROVE  Same(w, map_decref_record(w, r))
<1>1. /\ w.map.records[r].ref_count \in Nat \ {0} /\ Visits(w.iter, w.stack, r) \in Nat
      /\ Sane(w, d)
  BY Settled DEF Mid
<1>2. w.map.records[r].ref_count
        = Visits(w.iter, w.stack, r) + OneIf(~w.map.records[r].empty) + OneIf(r = r)
  BY DEF Balanced, Exact
<1>3. CASE w.map.records[r].ref_count = 1
  <2>1. w.map.records[r].empty /\ Visits(w.iter, w.stack, r) = 0
    BY <1>1, <1>2, <1>3 DEF OneIf
  <2>2. Lonely(w, d, r)
    <3>1. ASSUME NEW p \in DOMAIN w.map.records \ {r}
          PROVE  w.map.records[p].ref_count = Visits(w.iter, w.stack, p) + OneIf(~w.map.records[p].empty)
      <4>1. w.map.records[p].ref_count
              = Visits(w.iter, w.stack, p) + OneIf(~w.map.records[p].empty) + OneIf(p = r)
        BY DEF Balanced, Exact
      <4>2. Visits(w.iter, w.stack, p) \in Nat
        BY Settled
      <4> QED BY <4>1, <4>2 DEF OneIf
    <3> QED BY <2>1, <3>1 DEF Lonely
  <2>3. Sane(Unlink(w, r), IF r = d THEN Head0 ELSE Shift(r, d))
    BY <2>2, Unlinked DEF Mid
  <2>4. Loses(w, Unlink(w, r), KeyOf(w.map, r))
    <3> DEFINE e == IF r = d THEN Head0 ELSE Shift(r, d)
    <3>1. Sane(Unlink(w, r), e)
      BY <2>3
    <3> HIDE DEF e
    <3> QED BY <1>1, <2>1, <3>1, UnlinkView
  <2>5. KeyOf(w.map, r) = None
    BY <2>1 DEF KeyOf, Full
  <2>6. Same(w, Unlink(w, r))
    BY <1>1, <2>4, <2>5, LosesNothing
  <2> QED BY <1>3, <2>6 DEF map_decref_record
<1>4. CASE w.map.records[r].ref_count # 1
  <2> DEFINE n == w.map.records[r].ref_count - 1
             rec == [w.map.records[r] EXCEPT !.ref_count = n]
  <2>1. map_decref_record(w, r) = WithRecord(w, r, rec)
    BY <1>4 DEF map_decref_record, WithRecord
  <2>2. n \in Nat \ {0}
    BY <1>1, <1>4
  <2> HIDE DEF n
  <2>3. Same(w, WithRecord(w, r, rec))
    BY <1>1, <2>2, CountView
  <2> HIDE DEF rec
  <2> QED BY <2>1, <2>3
<1> QED BY <1>3, <1>4

LEMMA LeftView ==
  ASSUME NEW w, NEW d, NEW r \in 0 .. Len(w.map.records), Mid(w, d), Balanced(w, r)
  PROVE  Same(w, left(w, r))
<1>1. CASE r = Head0
  BY <1>1 DEF left, Same
<1>2. CASE r # Head0
  <2>1. r \in DOMAIN w.map.records
    BY <1>2 DEF Mid, Sane, MapSane, MapTyped, Head0
  <2> QED BY <1>2, <2>1, DecrefView DEF left
<1> QED BY <1>1, <1>2

(* An enumeration is set.                                                  *)
LEMMA IterView ==
  ASSUME NEW w, NEW d, NEW i \in Iter, NEW x \in IterType, Sane(w, d)
  PROVE  Turns(w, WithIter(w, i, x), i, IterRest(w.map, x))
<1> DEFINE u == WithIter(w, i, x)
<1>1. u.map = w.map /\ u.stack = w.stack /\ u.iter = [w.iter EXCEPT ![i] = x]
  BY DEF WithIter, Sane, IsWorld
<1>2. w.iter \in [Iter -> IterType]
  BY DEF Sane, Standing
<1> HIDE DEF u
<1>3. \A j \in Iter : u.iter[j] = IF j = i THEN x ELSE w.iter[j]
  BY <1>1, <1>2
<1>4. \A c \in Cursors : Rest(u, c) = IF c = i THEN IterRest(w.map, x) ELSE Rest(w, c)
  BY <1>1, <1>3 DEF Rest
<1>5. Strays(w) => Strays(u)
  BY <1>1 DEF Strays
<1> QED BY <1>1, <1>4, <1>5 DEF Turns, u

LEMMA StackView ==
  ASSUME NEW w, NEW d, NEW st, NEW k \in 1 .. MaxDepth, Sane(w, d), AlikeBut(w.stack, st, k),
         k \in DOMAIN w.stack /\ Stray(w.stack[k]) => k \in DOMAIN st /\ Stray(st[k])
  PROVE  Turns(w, WithStack(w, st), k, CallRest(w.map, st, k))
<1> DEFINE u == WithStack(w, st)
<1>1. u.map = w.map /\ u.iter = w.iter /\ u.stack = st
  BY DEF WithStack, Sane, IsWorld
<1> HIDE DEF u
<1>2. \A j : j # k => CallRest(w.map, st, j) = CallRest(w.map, w.stack, j)
  BY DEF AlikeBut, CallRest
<1>3. k \notin Iter
  BY MapAssumption
<1>4. \A c \in Cursors : Rest(u, c) = IF c = k THEN CallRest(w.map, st, k) ELSE Rest(w, c)
  BY <1>1, <1>2, <1>3 DEF Rest
<1>5. Strays(w) => Strays(u)
  <2> SUFFICES ASSUME NEW j \in DOMAIN w.stack, Stray(w.stack[j])
               PROVE  j \in DOMAIN st /\ Stray(st[j])
    BY <1>1 DEF Strays
  <2> QED BY DEF AlikeBut
<1> QED BY <1>1, <1>4, <1>5 DEF Turns, u

(* A reference to v goes, and with it perhaps an enumeration.              *)
Drops(w, u, v) == Same(w, u) \/ (v \in Iter /\ Turns(w, u, v, Idle))

LEMMA FreedView ==
  ASSUME NEW w, NEW d, NEW v, Mid(w, d), Balanced(w, Head0)
  PROVE  Drops(w, JS_FreeValue(w, v), v)
<1>1. CASE v \in Iter /\ ~Owned(w, v)
  <2> DEFINE gone == WithIter(w, v, NoIter)
             r == w.iter[v].cur
             x == NoIter
  <2>1. x \in IterType /\ x.cur = Head0 /\ x.state = "none" /\ x.cur \in 0 .. Len(w.map.records)
    BY DEF NoIter, IterType, Head0, Mid, Sane, MapSane, MapTyped
  <2>2. r \in 0 .. Len(w.map.records) /\ Sane(w, d)
    BY <1>1 DEF Mid, Sane, Standing
  <2>3. JS_FreeValue(w, v) = left(gone, r)
    BY <1>1 DEF JS_FreeValue, js_map_iterator_finalizer, left, WithIter
  <2>4. IterRest(w.map, x) = Idle
    BY <2>1 DEF IterRest
  <2> HIDE DEF x
  <2>5. LET u == WithIter(w, v, x) IN
        Mid(u, d) /\ Owing(u, x.cur, w.iter[v].cur) /\ u.map = w.map /\ u.stack = w.stack
    BY <1>1, <2>1, IterSet
  <2>6. Turns(w, WithIter(w, v, x), v, IterRest(w.map, x))
    BY <1>1, <2>1, <2>2, IterView
  <2>7. gone = WithIter(w, v, x)
    BY DEF x
  <2> HIDE DEF gone, r
  <2>8. Mid(gone, d) /\ Owing(gone, Head0, r) /\ gone.map = w.map
    BY <2>1, <2>5, <2>7 DEF r
  <2>9. Turns(w, gone, v, Idle)
    BY <2>4, <2>6, <2>7
  <2>10. Balanced(gone, r)
    BY <2>8, BalancedOwing
  <2>11. Same(gone, left(gone, r))
    BY <2>2, <2>8, <2>10, LeftView
  <2>12. Turns(w, left(gone, r), v, Idle)
    BY <2>9, <2>11, TurnsSame
  <2> QED BY <1>1, <2>3, <2>12 DEF Drops
<1>2. CASE ~(v \in Iter /\ ~Owned(w, v))
  BY <1>2 DEF JS_FreeValue, Drops, Same
<1> QED BY <1>1, <1>2

-----------------------------------------------------------------------------
(* A deletion, as the program sees it.                                     *)

LEMMA RestAlike ==
  ASSUME NEW w, NEW d, NEW u, Sane(w, d), u.iter = w.iter, u.stack = w.stack,
         \A a : Keys(u.map, a) = Keys(w.map, a)
  PROVE  \A c \in Cursors : Rest(u, c) = Rest(w, c)
<1>1. ASSUME NEW i \in Iter PROVE IterRest(u.map, u.iter[i]) = IterRest(w.map, w.iter[i])
  <2>1. w.iter[i].state \in {"none", "on", "done"}
    BY DEF Sane, Standing, IterType
  <2> QED BY <2>1 DEF IterRest
<1>2. \A j : CallRest(u.map, u.stack, j) = CallRest(w.map, w.stack, j)
  BY DEF CallRest, KeysFrom
<1> QED BY <1>1, <1>2 DEF Rest

(* The value of a record changes. *)
LEMMA ValueView ==
  ASSUME NEW w, NEW d, NEW r \in Full(w.map), NEW v, NEW u, NEW e, Sane(w, d), Sane(u, e),
         Full(u.map) = Full(w.map), u.iter = w.iter, u.stack = w.stack,
         \A p \in Full(w.map) : /\ u.map.records[p].key = w.map.records[p].key
                                /\ u.map.records[p].value = IF p = r THEN v ELSE w.map.records[p].value
  PROVE  /\ Sets(w, u, w.map.records[r].key, v)
         /\ ValueOf(w.map, w.map.records[r].key) = w.map.records[r].value
<1> DEFINE k == w.map.records[r].key
<1>1. MapTyped(w.map) /\ KeysGood(w.map) /\ MapTyped(u.map) /\ KeysGood(u.map)
  BY DEF Sane, MapSane
<1>2. \A a : Keys(u.map, a) = Keys(w.map, a)
  BY DEF Keys
<1>3. Order(u.map) = Order(w.map)
  <2>1. ASSUME NEW x \in Order(u.map) PROVE x \in Order(w.map)
    <3>1. PICK p \in Full(w.map), q \in Full(w.map) : p < q /\ x = <<u.map.records[p].key, u.map.records[q].key>>
      BY <2>1 DEF Order
    <3>2. x = <<w.map.records[p].key, w.map.records[q].key>>
      BY <3>1
    <3> QED BY <1>1, <3>1, <3>2, ViewAt
  <2>2. ASSUME NEW x \in Order(w.map) PROVE x \in Order(u.map)
    <3>1. PICK p \in Full(w.map), q \in Full(w.map) : p < q /\ x = <<w.map.records[p].key, w.map.records[q].key>>
      BY <2>2 DEF Order
    <3>2. x = <<u.map.records[p].key, u.map.records[q].key>>
      BY <3>1
    <3> QED BY <1>1, <3>1, <3>2, ViewAt
  <2> QED BY <2>1, <2>2
<1>4. \A c \in Cursors : Rest(u, c) = Rest(w, c)
  BY <1>2, RestAlike
<1>5. ASSUME NEW j \in Key PROVE ValueOf(u.map, j) = IF j = k THEN v ELSE ValueOf(w.map, j)
  <2>1. CASE j \notin Keys(w.map, Head0)
    <3>1. k \in Keys(w.map, Head0)
      BY <1>1, ViewAt, FullPlaces
    <3> QED BY <1>1, <1>2, <2>1, <3>1, ViewAt
  <2>2. CASE j \in Keys(w.map, Head0)
    <3>1. PICK p \in Full(w.map) : w.map.records[p].key = j
      BY <1>1, <2>2, ViewAt
    <3>2. ValueOf(w.map, j) = w.map.records[p].value /\ ValueOf(u.map, j) = u.map.records[p].value
      BY <1>1, <3>1, ViewAt
    <3>3. p = r <=> j = k
      BY <1>1, <3>1 DEF KeysGood
    <3> QED BY <3>2, <3>3
  <2> QED BY <2>1, <2>2
<1>6. ValueOf(w.map, k) = w.map.records[r].value
  BY <1>1, ViewAt
<1>7. Strays(w) => Strays(u)
  BY DEF Strays
<1> QED BY <1>3, <1>4, <1>5, <1>6, <1>7 DEF Sets

(* The list gives up the record d: its key is lost.                        *)
LEMMA ReleaseView ==
  ASSUME NEW w, NEW d \in Full(w.map), Mid(w, d), Balanced(w, Head0)
  PROVE  Loses(w, release(w, d), w.map.records[d].key)
<1>1. d \in DOMAIN w.map.records /\ ~w.map.records[d].empty /\ Sane(w, d)
  BY DEF Full, Mid
<1>2. /\ w.map.records[d].ref_count \in Nat \ {0} /\ Visits(w.iter, w.stack, d) \in Nat /\ d # Head0
  BY <1>1, Settled
<1>3. w.map.records[d].ref_count
        = Visits(w.iter, w.stack, d) + OneIf(~w.map.records[d].empty) + OneIf(d = Head0)
  BY <1>1 DEF Balanced, Exact
<1>4. KeyOf(w.map, d) = w.map.records[d].key
  BY DEF KeyOf
<1>5. CASE w.map.records[d].ref_count = 1
  <2>1. Visits(w.iter, w.stack, d) = 0
    BY <1>1, <1>2, <1>3, <1>5 DEF OneIf
  <2>2. Lonely(w, d, d)
    <3>1. ASSUME NEW p \in DOMAIN w.map.records \ {d}
          PROVE  w.map.records[p].ref_count = Visits(w.iter, w.stack, p) + OneIf(~w.map.records[p].empty)
      <4>1. w.map.records[p].ref_count
              = Visits(w.iter, w.stack, p) + OneIf(~w.map.records[p].empty) + OneIf(p = Head0)
        BY DEF Balanced, Exact
      <4>2. Visits(w.iter, w.stack, p) \in Nat /\ p # Head0
        BY Settled
      <4> QED BY <4>1, <4>2 DEF OneIf
    <3> QED BY <2>1, <3>1 DEF Lonely
  <2>3. Sane(Unlink(w, d), Head0)
    BY <1>1, <2>2, Unlinked
  <2>4. Loses(w, Unlink(w, d), KeyOf(w.map, d))
    BY <1>1, <2>1, <2>3, UnlinkView
  <2> QED BY <1>4, <1>5, <2>4 DEF release
<1>6. CASE w.map.records[d].ref_count # 1
  <2> DEFINE n == w.map.records[d].ref_count - 1
             u == WithRecord(w, d, Zombie(n))
  <2>1. release(w, d) = u
    BY <1>6 DEF release, WithRecord, Zombie
  <2>2. n \in Nat \ {0}
    BY <1>2, <1>6
  <2> HIDE DEF n
  <2>3. /\ Sane(u, Head0) /\ Full(u.map) = Full(w.map) \ {d}
        /\ u.iter = w.iter /\ u.stack = w.stack
        /\ \A p \in DOMAIN w.map.records : u.map.records[p] = IF p = d THEN Zombie(n) ELSE w.map.records[p]
    BY <1>1, <2>2, Zombied
  <2> HIDE DEF u
  <2>4. \A p \in Full(w.map) \ {d} : /\ u.map.records[p].key = w.map.records[p].key
                                     /\ u.map.records[p].value = w.map.records[p].value
    BY <2>3 DEF Full
  <2>5. Loses(w, u, KeyOf(w.map, d))
    BY <1>1, <2>3, <2>4, InPlace
  <2> QED BY <1>4, <2>1, <2>5
<1> QED BY <1>5, <1>6

(* Worlds with the same records are the same to see. *)
LEMMA RecordsView ==
  ASSUME NEW w, NEW d, NEW u, Sane(w, d),
         u.map.records = w.map.records, u.iter = w.iter, u.stack = w.stack
  PROVE  Same(w, u)
<1>1. Full(u.map) = Full(w.map)
  BY DEF Full
<1>2. Order(u.map) = Order(w.map) /\ (\A a : Keys(u.map, a) = Keys(w.map, a))
  BY <1>1 DEF Order, Keys
<1>3. \A j : ValueOf(u.map, j) = ValueOf(w.map, j)
  BY <1>1, <1>2 DEF ValueOf
<1>4. Strays(w) => Strays(u)
  BY DEF Strays
<1> QED BY <1>2, <1>3, <1>4, RestAlike DEF Same

(* A record is deleted: its key is lost, and with its value perhaps an     *)
(* enumeration.                                                            *)
Removes(w, u, k) ==
  /\ Strays(w) => Strays(u)
  /\ ~Strays(u) =>
       /\ Order(u.map) = OrderBut(w.map, k)
       /\ \A j \in Key : ValueOf(u.map, j) = ValueBut(w.map, j, k)
       /\ \/ \A c \in Cursors : Rest(u, c) = Cut(Rest(w, c), k)
          \/ /\ ValueOf(w.map, k) \in Iter
             /\ \A c \in Cursors :
                  Rest(u, c) = IF c = ValueOf(w.map, k) THEN Idle ELSE Cut(Rest(w, c), k)

LEMMA RemovesThus ==
  ASSUME NEW w, NEW w1, NEW freed, NEW u, NEW k \in Key, NEW d, Sane(w, d), NEW d1, Sane(w1, d1),
         Sets(w, w1, k, None), Drops(w1, freed, ValueOf(w.map, k)), Loses(freed, u, k)
  PROVE  Removes(w, u, k)
<1>7. Strays(w) => Strays(u)
  BY DEF Sets, Drops, Same, Turns, Loses
<1> SUFFICES ASSUME ~Strays(u) PROVE Removes(w, u, k)
  BY <1>7 DEF Removes
<1>8. ~Strays(freed)
  BY DEF Loses
<1>1. Order(freed.map) = Order(w.map)
  BY <1>8 DEF Sets, Drops, Same, Turns
<1>2. \A j \in Key : ValueOf(freed.map, j) = IF j = k THEN None ELSE ValueOf(w.map, j)
  BY <1>8 DEF Sets, Drops, Same, Turns
<1>3. Order(u.map) = OrderBut(w.map, k)
  BY <1>1 DEF Loses, OrderBut
<1>4. \A j \in Key : ValueOf(u.map, j) = ValueBut(w.map, j, k)
  BY <1>2 DEF Loses, ValueBut
<1>5. CASE Same(w1, freed)
  <2>1. \A c \in Cursors : Rest(freed, c) = Rest(w, c)
    BY <1>5, <1>8 DEF Same, Sets
  <2>2. \A c \in Cursors : Rest(u, c) = Cut(Rest(w, c), k)
    BY <2>1 DEF Loses
  <2> QED BY <1>3, <1>4, <1>7, <2>2 DEF Removes
<1>6. CASE ValueOf(w.map, k) \in Iter /\ Turns(w1, freed, ValueOf(w.map, k), Idle)
  <2>1. \A c \in Cursors : Rest(freed, c) = IF c = ValueOf(w.map, k) THEN Idle ELSE Rest(w, c)
    BY <1>6, <1>8 DEF Turns, Sets
  <2>2. Cut(Idle, k) = Idle
    BY DEF Cut
  <2>3. \A c \in Cursors : Rest(u, c) = Cut(Rest(freed, c), k)
    BY DEF Loses
  <2>4. \A c \in Cursors : Rest(u, c) = IF c = ValueOf(w.map, k) THEN Idle ELSE Cut(Rest(w, c), k)
    BY <2>1, <2>2, <2>3
  <2> QED BY <1>3, <1>4, <1>6, <1>7, <2>4 DEF Removes
<1> QED BY <1>5, <1>6 DEF Drops

(* What is left of a deletion once the value is no longer in the record.   *)
LEMMA DeleteMiddle ==
  ASSUME NEW w, NEW r \in Full(w.map), Good(w)
  PROVE  LET w1 == Emptied(w, r) IN
         /\ Mid(w1, r) /\ Balanced(w1, Head0) /\ w1.map.records[r].key = w.map.records[r].key
         /\ Sets(w, w1, w.map.records[r].key, None) /\ w.map.records[r].key \in Key
         /\ ValueOf(w.map, w.map.records[r].key) = w.map.records[r].value
<1> DEFINE w1 == Emptied(w, r)
           k == w.map.records[r].key
<1>1. /\ Mid(w1, r) /\ Balanced(w1, Head0) /\ w1.iter = w.iter /\ w1.stack = w.stack
      /\ k \in Key /\ Full(w1.map) = Full(w.map) /\ r \in DOMAIN w.map.records
      /\ \A p \in DOMAIN w.map.records :
           /\ w1.map.records[p].key = w.map.records[p].key
           /\ w1.map.records[p].value = IF p = r THEN None ELSE w.map.records[p].value
  BY EmptiedGood DEF Full
<1> HIDE DEF w1
<1>2. Sane(w, Head0) /\ Sane(w1, r)
  BY <1>1 DEF Good, Mid
<1>3. \A p \in Full(w.map) : /\ w1.map.records[p].key = w.map.records[p].key
                             /\ w1.map.records[p].value = IF p = r THEN None ELSE w.map.records[p].value
  BY <1>1 DEF Full
<1>4. Sets(w, w1, k, None) /\ ValueOf(w.map, k) = w.map.records[r].value
  BY <1>1, <1>2, <1>3, ValueView
<1> QED BY <1>1, <1>4 DEF w1

LEMMA DeleteView ==
  ASSUME NEW w, NEW r \in Full(w.map), Good(w)
  PROVE  Removes(w, map_delete_record(w, r), w.map.records[r].key)
<1> DEFINE k == w.map.records[r].key
           x == w.map.records[r].value
           w1 == Emptied(w, r)
           freed == JS_FreeValue(w1, x)
           place == PlaceOf(freed, k)
           u == release(freed, place)
           end == WithCount(u, u.map.count - 1)
<1>1. map_delete_record(w, r) = end
  <2>1. ~w.map.records[r].empty
    BY DEF Full
  <2>2. map_delete_record(w, r) = Lifted(freed, k)
    BY <2>1, DeleteSteps
  <2> HIDE DEF freed
  <2> QED BY <2>2 DEF Lifted
<1>2. /\ Mid(w1, r) /\ Balanced(w1, Head0) /\ w1.map.records[r].key = k
      /\ Sets(w, w1, k, None) /\ k \in Key /\ ValueOf(w.map, k) = x
  BY DeleteMiddle
<1>3. r # Head0 /\ k # None /\ r \in Full(w1.map)
  BY EmptiedGood
<1> HIDE DEF w1
<1>4. Drops(w1, freed, x)
  BY <1>2, FreedView
<1>5. /\ Mid(freed, place) /\ Balanced(freed, Head0) /\ place \in Full(freed.map)
      /\ freed.map.records[place].key = k
  BY <1>2, <1>3, PlaceKept
<1> HIDE DEF freed, place
<1>6. Loses(freed, u, k)
  BY <1>5, ReleaseView
<1>7. Sane(w, Head0) /\ Sane(w1, r)
  BY <1>2 DEF Good, Mid
<1>8. Removes(w, u, k)
  BY <1>2, <1>4, <1>6, <1>7, RemovesThus
<1>9. Sane(u, Head0)
  BY <1>5, Released
<1>10. Same(u, end)
  <2>1. end.map.records = u.map.records /\ end.iter = u.iter /\ end.stack = u.stack
    <3> DEFINE c == u.map.count - 1
    <3> HIDE DEF c, u
    <3> QED BY <1>9 DEF WithCount, Sane, IsWorld, MapSane, MapTyped
  <2> HIDE DEF u, end
  <2> QED BY <1>9, <2>1, RecordsView
<1> HIDE DEF u, end
<1>11. Removes(w, end, k)
  BY <1>8, <1>10 DEF Removes, Same
<1> QED BY <1>1, <1>11

LEMMA RemovesSame ==
  ASSUME NEW w, NEW w2, NEW u, NEW k \in Key, Same(w, w2), Removes(w2, u, k)
  PROVE  Removes(w, u, k)
BY DEF Same, Removes, OrderBut, ValueBut

-----------------------------------------------------------------------------
(* Going on, and adding.                                                   *)

(* The next record that is not a zombie is the first of what is left.      *)
LEMMA NextView ==
  ASSUME NEW w, NEW d, Sane(w, d), NEW a \in Int
  PROVE  LET n == NextRecord(w.map, a)
             k == w.map.records[n].key
         IN /\ n = Head0 => Keys(w.map, a) = {}
            /\ n # Head0 => /\ k \in Keys(w.map, a) /\ Keys(w.map, n) = Keys(w.map, a) \ {k}
                            /\ \A j \in Keys(w.map, a) \ {k} : <<k, j>> \in Order(w.map)
<1> DEFINE S == {p \in Full(w.map) : p > a}
           n == NextRecord(w.map, a)
           k == w.map.records[n].key
<1>1. MapTyped(w.map) /\ KeysGood(w.map)
  BY DEF Sane, MapSane
<1>2. S \in SUBSET (Nat \ {0}) /\ S \subseteq Full(w.map) /\ \A p \in Full(w.map) : p \in Nat
  BY <1>1, FullPlaces DEF Head0
<1>3. n = Nearest(S)
  BY DEF NextRecord
<1>4. CASE n = Head0
  <2>1. S = {}
    BY <1>2, <1>3, <1>4, Least DEF Head0
  <2>2. Keys(w.map, a) = {}
    BY <2>1 DEF Keys
  <2> QED BY <1>4, <2>2
<1>5. CASE n # Head0
  <2>1. n \in S /\ \A p \in S : n <= p
    <3> HIDE DEF S
    <3> QED BY <1>2, <1>3, <1>5, Least
  <2>2. n \in Full(w.map) /\ n > a /\ \A p \in Full(w.map) : p > a => n <= p
    BY <2>1
  <2> HIDE DEF n, S
  <2>3. k \in Keys(w.map, a)
    BY <1>1, <2>2, ViewAt
  <2>4. \A p \in Full(w.map) : p > a /\ p # n => p > n
    BY <1>2, <2>2
  <2>5. \A p \in Full(w.map) : p > n => p > a /\ p # n
    <3>1. \A p \in Full(w.map) : p > n => p # n
      BY <1>2, <2>2
    <3>2. \A p \in Full(w.map) : p > n => p > a
      BY <1>2, <2>2
    <3> QED BY <3>1, <3>2
  <2>6. \A p \in Full(w.map) : p = n <=> w.map.records[p].key = k
    BY <1>1, <2>2 DEF KeysGood
  <2>7. Keys(w.map, n) = Keys(w.map, a) \ {k}
    <3>1. \A x : x \in Keys(w.map, n) <=> \E p \in Full(w.map) : p > n /\ w.map.records[p].key = x
      BY <1>1, ViewAt
    <3>2. \A x : x \in Keys(w.map, a) <=> \E p \in Full(w.map) : p > a /\ w.map.records[p].key = x
      BY <1>1, ViewAt
    <3>3. ASSUME NEW x \in Keys(w.map, n) PROVE x \in Keys(w.map, a) \ {k}
      <4>1. PICK p \in Full(w.map) : p > n /\ w.map.records[p].key = x
        BY <3>1
      <4> QED BY <2>5, <2>6, <3>2, <4>1
    <3>4. ASSUME NEW x \in Keys(w.map, a) \ {k} PROVE x \in Keys(w.map, n)
      <4>1. PICK p \in Full(w.map) : p > a /\ w.map.records[p].key = x
        BY <3>2
      <4> QED BY <2>4, <2>6, <3>1, <4>1
    <3> QED BY <3>3, <3>4
  <2>8. ASSUME NEW j \in Keys(w.map, a) \ {k} PROVE <<k, j>> \in Order(w.map)
    <3>1. PICK p \in Full(w.map) : p > n /\ w.map.records[p].key = j
      BY <1>1, <2>7, <2>8, ViewAt
    <3>2. n < p
      BY <1>2, <2>2, <3>1
    <3> QED BY <1>1, <2>2, <3>1, <3>2, ViewAt
  <2> QED BY <1>5, <2>3, <2>7, <2>8 DEF n
<1> QED BY <1>4, <1>5

(* A key that was not in the map is added to it, after all that were.      *)
Adds(w, u, k, v) ==
  /\ Order(u.map) = Order(w.map) \cup (Keys(w.map, Head0) \X {k})
  /\ \A j \in Key : ValueOf(u.map, j) = IF j = k THEN v ELSE ValueOf(w.map, j)
  /\ \A c \in Cursors : Rest(u, c) = IF Rest(w, c) \in {Idle, Done} THEN Rest(w, c) ELSE Rest(w, c) \cup {k}

LEMMA AddView ==
  ASSUME NEW w, NEW d, NEW u, NEW e, Sane(w, d), Sane(u, e), NEW n, NEW k \in Key, NEW v,
         Full(u.map) = Full(w.map) \cup {n}, n \in Nat, n > Head0, u.iter = w.iter, u.stack = w.stack,
         \A p \in 0 .. Len(w.map.records) : p < n,
         \A p \in Full(w.map) : /\ u.map.records[p].key = w.map.records[p].key
                                /\ u.map.records[p].value = w.map.records[p].value
                                /\ p < n,
         u.map.records[n].key = k, u.map.records[n].value = v,
         \A j \in DOMAIN w.stack : ~Going(w.stack[j])
  PROVE  Adds(w, u, k, v)
<1>1. MapTyped(w.map) /\ KeysGood(w.map) /\ MapTyped(u.map) /\ KeysGood(u.map)
  BY DEF Sane, MapSane
<1>2. ASSUME NEW a, n > a PROVE Keys(u.map, a) = Keys(w.map, a) \cup {k}
  <2>1. \A x : x \in Keys(u.map, a) <=> \E p \in Full(u.map) : p > a /\ u.map.records[p].key = x
    BY <1>1, ViewAt
  <2>2. \A x : x \in Keys(w.map, a) <=> \E p \in Full(w.map) : p > a /\ w.map.records[p].key = x
    BY <1>1, ViewAt
  <2>3. ASSUME NEW x \in Keys(u.map, a) PROVE x \in Keys(w.map, a) \cup {k}
    BY <2>1, <2>2
  <2>4. ASSUME NEW x \in Keys(w.map, a) PROVE x \in Keys(u.map, a)
    BY <2>1, <2>2
  <2>5. k \in Keys(u.map, a)
    BY <1>2, <2>1
  <2> QED BY <2>3, <2>4, <2>5
<1>3. Order(u.map) = Order(w.map) \cup (Keys(w.map, Head0) \X {k})
  <2>1. ASSUME NEW x \in Order(u.map) PROVE x \in Order(w.map) \cup (Keys(w.map, Head0) \X {k})
    <3>1. PICK p \in Full(u.map), q \in Full(u.map) : p < q /\ x = <<u.map.records[p].key, u.map.records[q].key>>
      BY <2>1 DEF Order
    <3>2. p # n
      <4>1. \A z \in Full(w.map) : z \in Nat
        BY <1>1, FullPlaces
      <4> QED BY <3>1, <4>1
    <3>3. p \in Full(w.map) /\ u.map.records[p].key = w.map.records[p].key
      BY <3>2
    <3>4. CASE q = n
      <4>1. w.map.records[p].key \in Keys(w.map, Head0)
        BY <1>1, <3>3, ViewAt, FullPlaces
      <4> QED BY <3>1, <3>3, <3>4, <4>1
    <3>5. CASE q # n
      <4>1. q \in Full(w.map) /\ u.map.records[q].key = w.map.records[q].key
        BY <3>5
      <4> QED BY <1>1, <3>1, <3>3, <4>1, ViewAt
    <3> QED BY <3>4, <3>5
  <2>2. ASSUME NEW x \in Order(w.map) PROVE x \in Order(u.map)
    <3>1. PICK p \in Full(w.map), q \in Full(w.map) : p < q /\ x = <<w.map.records[p].key, w.map.records[q].key>>
      BY <2>2 DEF Order
    <3>2. x = <<u.map.records[p].key, u.map.records[q].key>>
      BY <3>1
    <3> QED BY <1>1, <3>1, <3>2, ViewAt
  <2>3. ASSUME NEW j \in Keys(w.map, Head0) PROVE <<j, k>> \in Order(u.map)
    <3>1. PICK p \in Full(w.map) : w.map.records[p].key = j
      BY <1>1, ViewAt
    <3>2. p \in Full(u.map) /\ n \in Full(u.map) /\ p < n /\ u.map.records[p].key = j
      BY <3>1
    <3> QED BY <1>1, <3>2, ViewAt
  <2> QED BY <2>1, <2>2, <2>3
<1>4. ASSUME NEW j \in Key PROVE ValueOf(u.map, j) = IF j = k THEN v ELSE ValueOf(w.map, j)
  <2>1. CASE j = k
    BY <1>1, <2>1, ViewAt
  <2>2. CASE j # k /\ j \in Keys(w.map, Head0)
    <3>1. PICK p \in Full(w.map) : w.map.records[p].key = j
      BY <1>1, <2>2, ViewAt
    <3>2. ValueOf(w.map, j) = w.map.records[p].value
      BY <1>1, <3>1, ViewAt
    <3>3. ValueOf(u.map, j) = u.map.records[p].value
      BY <1>1, <3>1, ViewAt
    <3> QED BY <2>2, <3>1, <3>2, <3>3
  <2>3. CASE j # k /\ j \notin Keys(w.map, Head0)
    <3>1. j \notin Keys(u.map, Head0)
      BY <1>2, <2>3
    <3> QED BY <1>1, <2>3, <3>1, ViewAt
  <2> QED BY <2>1, <2>2, <2>3
<1>5. \A a \in 0 .. Len(w.map.records) : /\ Keys(u.map, a) = Keys(w.map, a) \cup {k}
                                         /\ Keys(w.map, a) \notin {Idle, Done}
  <2>1. \A a \in 0 .. Len(w.map.records) : n > a
    BY FullPlaces, <1>1 DEF MapTyped
  <2> QED BY <1>1, <1>2, <2>1, KeysTyped, MapAssumption
<1>6. ASSUME NEW i \in Iter
      PROVE  IterRest(u.map, u.iter[i]) = IF IterRest(w.map, w.iter[i]) \in {Idle, Done}
                                            THEN IterRest(w.map, w.iter[i])
                                            ELSE IterRest(w.map, w.iter[i]) \cup {k}
  <2>1. w.iter[i].state \in {"none", "on", "done"} /\ w.iter[i].cur \in 0 .. Len(w.map.records)
    BY DEF Sane, Standing, IterType
  <2> QED BY <1>5, <2>1 DEF IterRest
<1>7. ASSUME NEW j
      PROVE  CallRest(u.map, u.stack, j) = IF CallRest(w.map, w.stack, j) \in {Idle, Done}
                                             THEN CallRest(w.map, w.stack, j)
                                             ELSE CallRest(w.map, w.stack, j) \cup {k}
  <2>1. j \in DOMAIN w.stack /\ Stands(w.stack[j]) => w.stack[j].cur \in 0 .. Len(w.map.records)
    BY DEF Sane, Standing
  <2> QED BY <1>5, <2>1 DEF CallRest, Going, Stands
<1>8. \A c \in Cursors :
        Rest(u, c) = IF Rest(w, c) \in {Idle, Done} THEN Rest(w, c) ELSE Rest(w, c) \cup {k}
  BY <1>6, <1>7 DEF Rest
<1> QED BY <1>3, <1>4, <1>8 DEF Adds

-----------------------------------------------------------------------------
(* What the program sees, and the steps of MapEntries.                     *)

Values == [k \in Key |-> ValueOf(map, k)]
Rests == [c \in Cursors |-> Rest(World, c)]

LEMMA Primed ==
  ASSUME NEW u, Becomes(u), Good(u)
  PROVE  /\ Values' = [k \in Key |-> ValueOf(u.map, k)]
         /\ Order(map)' = Order(u.map)
         /\ Rests' = [c \in Cursors |-> Rest(u, c)]
<1>1. u = [map |-> u.map, iter |-> u.iter, stack |-> u.stack]
  BY DEF Good, Sane, IsWorld
<1>2. map' = u.map
  BY DEF Becomes
<1>3. World' = u
  BY <1>1 DEF Becomes, World
<1> QED BY <1>2, <1>3 DEF Values, Rests

LEMMA Seen ==
  ASSUME IInv
  PROVE  /\ Sane(World, Head0) /\ World.map = map
         /\ \A k \in Key : Values[k] = ValueOf(map, k)
         /\ \A c \in Cursors : Rests[c] = Rest(World, c)
         /\ \A k \in Key : k \in Keys(map, Head0) <=> Values[k] # NoValue
<1>1. Sane(World, Head0) /\ World.map = map /\ MapTyped(map) /\ KeysGood(map)
  BY Opening DEF Good, Sane, MapSane
<1>2. ASSUME NEW k \in Key PROVE k \in Keys(map, Head0) <=> ValueOf(map, k) # NoValue
  <2>1. CASE k \in Keys(map, Head0)
    <3>1. PICK p \in Full(map) : map.records[p].key = k
      BY <1>1, <2>1, ViewAt
    <3>2. ValueOf(map, k) = map.records[p].value /\ map.records[p].value \in Value
      BY <1>1, <3>1, ViewAt, FullPlaces DEF RecordType
    <3> QED BY <2>1, <3>2, MapAssumption DEF Value
  <2>2. CASE k \notin Keys(map, Head0)
    BY <1>1, <2>2, ViewAt
  <2> QED BY <2>1, <2>2
<1> QED BY <1>1, <1>2 DEF Values, Rests

(* An enumeration is set, and nothing else. *)
LEMMA PrimedTurn ==
  ASSUME IInv, NEW u, Becomes(u), Good(u), NEW x \in Cursors, NEW R, Turns(World, u, x, R),
         ~Strays(u)
  PROVE  Values' = Values /\ Order(map)' = Order(map) /\ Rests' = [Rests EXCEPT ![x] = R]
<1>1. /\ Order(u.map) = Order(map)
      /\ \A j \in Key : ValueOf(u.map, j) = ValueOf(map, j)
      /\ \A c \in Cursors : Rest(u, c) = IF c = x THEN R ELSE Rest(World, c)
  BY Seen DEF Turns
<1>2. Rests' = [c \in Cursors |-> IF c = x THEN R ELSE Rest(World, c)]
  BY <1>1, Primed
<1>3. Values' = Values
  BY <1>1, Primed DEF Values
<1> QED BY <1>1, <1>2, <1>3, Primed DEF Rests

LEMMA PrimedSame ==
  ASSUME IInv, NEW u, Becomes(u), Good(u), Same(World, u), ~Strays(u)
  PROVE  Values' = Values /\ Order(map)' = Order(map) /\ Rests' = Rests
<1>1. /\ Order(u.map) = Order(map)
      /\ \A j \in Key : ValueOf(u.map, j) = ValueOf(map, j)
      /\ \A c \in Cursors : Rest(u, c) = Rest(World, c)
  BY Seen DEF Same
<1> QED BY <1>1, Primed DEF Rests, Values

LEMMA Stutter ==
  ASSUME Values' = Values, Order(map)' = Order(map), Rests' = Rests
  PROVE  UNCHANGED Entries!vars
BY DEF Values, Rests, Cursors, Entries!vars

LEMMA DropRefines ==
  ASSUME NEW c \in Cursors, Values' = Values, Order(map)' = Order(map), Rests' = [Rests EXCEPT ![c] = Idle]
  PROVE  Entries!Drop(c)
BY DEF Values, Rests, Cursors, Entries!Drop

LEMMA EndRefines ==
  ASSUME NEW c \in Cursors, Values' = Values, Order(map)' = Order(map), Rests[c] = {},
         Rests' = [Rests EXCEPT ![c] = Done]
  PROVE  Entries!End(c)
BY DEF Values, Rests, Cursors, Entries!End

(* An enumeration goes on in what it has left to visit.                    *)
LEMMA VisitRefines ==
  ASSUME NEW c \in Cursors, Values' = Values, Order(map)' = Order(map),
         Rests[c] # Idle, Rests[c] # Done, NEW k \in Rests[c],
         \A j \in Rests[c] \ {k} : <<k, j>> \in Order(map),
         Rests' = [Rests EXCEPT ![c] = Rests[c] \ {k}]
  PROVE  Entries!Visit(c)
<1>1. Entries!First(k, Rests[c])
  BY DEF Entries!First
<1>2. Entries!Active(c)
  BY DEF Entries!Active, Rests, Cursors
<1> QED BY <1>1, <1>2 DEF Values, Rests, Cursors, Entries!Visit

(* Enumerations begin, over all that is in the map. *)
LEMMA BeginRefines ==
  ASSUME IInv, NEW c \in Cursors, Values' = Values, Order(map)' = Order(map), Rests[c] = Idle,
         NEW R, Rests' = [Rests EXCEPT ![c] = R],
         \/ R = Keys(map, Head0)
         \/ \E k \in Keys(map, Head0) : /\ R = Keys(map, Head0) \ {k}
                                        /\ \A j \in Keys(map, Head0) \ {k} : <<k, j>> \in Order(map)
         \/ Keys(map, Head0) = {} /\ R = Done
  PROVE  Entries!Begin(c)
<1>1. Entries!Present = Keys(map, Head0)
  <2>1. \A k \in Key : k \in Keys(map, Head0) <=> Values[k] # NoValue
    BY Seen
  <2>2. Keys(map, Head0) \in SUBSET Key
    BY KeysTyped, Opening DEF Good, Sane, MapSane
  <2>3. Entries!Present = {k \in Key : Values[k] # NoValue}
    BY DEF Entries!Present, Values
  <2> QED BY <2>1, <2>2, <2>3
<1>2. \A k \in Keys(map, Head0) : (\A j \in Keys(map, Head0) \ {k} : <<k, j>> \in Order(map))
        => Entries!First(k, Entries!Present)
  BY <1>1 DEF Entries!First
<1>3. \/ Rests' = [Rests EXCEPT ![c] = Entries!Present]
      \/ \E k \in Entries!Present : Entries!First(k, Entries!Present)
           /\ Rests' = [Rests EXCEPT ![c] = Entries!Present \ {k}]
      \/ Entries!Present = {} /\ Rests' = [Rests EXCEPT ![c] = Done]
  BY <1>1, <1>2
<1> HIDE DEF Entries!Present, Entries!First
<1> QED BY <1>3 DEF Values, Rests, Cursors, Entries!Begin

(* A reference to v goes. *)
LEMMA DropsRefines ==
  ASSUME IInv, NEW u, Becomes(u), Good(u), NEW v, Drops(World, u, v), ~Strays(u)
  PROVE  UNCHANGED Entries!vars \/ \E c \in Cursors : Entries!Drop(c)
<1>1. CASE Same(World, u)
  BY <1>1, PrimedSame, Stutter
<1>2. CASE v \in Iter /\ Turns(World, u, v, Idle)
  <2>1. v \in Cursors
    BY <1>2 DEF Cursors
  <2>2. Values' = Values /\ Order(map)' = Order(map) /\ Rests' = [Rests EXCEPT ![v] = Idle]
    BY <1>2, <2>1, PrimedTurn
  <2> QED BY <2>1, <2>2, DropRefines
<1> QED BY <1>1, <1>2 DEF Drops

(* A key is lost, and perhaps the enumeration that was its value.          *)
LEMMA DeleteRefines ==
  ASSUME IInv, NEW u, Becomes(u), Good(u), NEW k \in Key, k \in Keys(map, Head0), Removes(World, u, k),
         ~Strays(u)
  PROVE  Entries!Delete(k)
<1> DEFINE left0 == [c \in Cursors |-> IF Entries!Active(c) THEN Rests[c] \ {k} ELSE Rests[c]]
<1>1. /\ \A j \in Key : Values[j] = ValueOf(map, j)
      /\ \A c \in Cursors : Rests[c] = Rest(World, c)
      /\ Values[k] # NoValue /\ World.map = map
  BY Seen
<1>2. \A c \in Cursors : Entries!Active(c) <=> Rests[c] \notin {Idle, Done}
  BY DEF Entries!Active, Rests, Cursors
<1>3. left0 = [c \in Cursors |-> Cut(Rest(World, c), k)]
  BY <1>1, <1>2 DEF Cut
<1>4. Values' = [Values EXCEPT ![k] = NoValue]
  <2>1. \A j \in Key : ValueOf(u.map, j) = IF j = k THEN NoValue ELSE ValueOf(map, j)
    BY <1>1 DEF Removes, ValueBut
  <2>2. Values' = [j \in Key |-> IF j = k THEN NoValue ELSE ValueOf(map, j)]
    BY <2>1, Primed
  <2> QED BY <2>2 DEF Values
<1>5. Order(map)' = {e \in Order(map) : k \notin {e[1], e[2]}}
  BY <1>1, Primed DEF Removes, OrderBut
<1>6. Rests' = left0 \/ \E c \in Cursors : Values[k] = c /\ Rests' = [left0 EXCEPT ![c] = Idle]
  <2>1. Rests' = [c \in Cursors |-> Rest(u, c)]
    BY Primed
  <2>2. CASE \A c \in Cursors : Rest(u, c) = Cut(Rest(World, c), k)
    BY <1>3, <2>1, <2>2
  <2>3. CASE /\ ValueOf(map, k) \in Iter
             /\ \A c \in Cursors : Rest(u, c) = IF c = ValueOf(map, k) THEN Idle ELSE Cut(Rest(World, c), k)
    <3>1. PICK x \in Cursors : x = ValueOf(map, k)
      BY <2>3 DEF Cursors
    <3>2. Rests' = [c \in Cursors |-> IF c = x THEN Idle ELSE Cut(Rest(World, c), k)]
      BY <2>1, <2>3, <3>1
    <3>3. Rests' = [left0 EXCEPT ![x] = Idle]
      BY <1>3, <3>2
    <3> QED BY <1>1, <3>1, <3>3
  <2> QED BY <1>1, <2>2, <2>3 DEF Removes
<1>7. \/ Rests' = left0
      \/ \E c \in Entries!Lost(k) : Rests' = [left0 EXCEPT ![c] = Idle]
  <2>1. Entries!Lost(k) = {c \in Cursors : Values[k] = c}
    BY DEF Entries!Lost, Values, Cursors
  <2> QED BY <1>6, <2>1
<1>8. left0 = [c \in Iter \cup 1 .. MaxDepth |->
                IF Entries!Active(c) THEN [x \in Iter \cup 1 .. MaxDepth |-> Rest(World, x)][c] \ {k}
                ELSE [x \in Iter \cup 1 .. MaxDepth |-> Rest(World, x)][c]]
  BY DEF Rests, Cursors
<1> HIDE DEF left0
<1> QED BY <1>1, <1>4, <1>5, <1>7, <1>8 DEF Values, Rests, Cursors, Entries!Delete

(* A key is given another value; the old one goes.                         *)
LEMMA SetRefines ==
  ASSUME IInv, NEW u, Becomes(u), Good(u), NEW k \in Key, NEW v \in Value, k \in Keys(map, Head0),
         NEW u0, Sets(World, u0, k, v), Drops(u0, u, ValueOf(map, k)), ~Strays(u)
  PROVE  Entries!Set(k, v)
<1>1. /\ \A j \in Key : Values[j] = ValueOf(map, j)
      /\ \A c \in Cursors : Rests[c] = Rest(World, c)
      /\ Values[k] # NoValue /\ World.map = map
  BY Seen
<1>2. Values' = [Values EXCEPT ![k] = v]
  <2>1. \A j \in Key : ValueOf(u.map, j) = IF j = k THEN v ELSE ValueOf(map, j)
    BY <1>1 DEF Sets, Drops, Same, Turns
  <2>2. Values' = [j \in Key |-> IF j = k THEN v ELSE ValueOf(map, j)]
    BY <2>1, Primed
  <2> QED BY <2>2 DEF Values
<1>3. Order(map)' = Order(map)
  BY <1>1, Primed DEF Sets, Drops, Same, Turns
<1>4. Rests' = Rests \/ \E c \in Cursors : Values[k] = c /\ Rests' = [Rests EXCEPT ![c] = Idle]
  <2>1. Rests' = [c \in Cursors |-> Rest(u, c)]
    BY Primed
  <2>2. \A c \in Cursors : Rest(u0, c) = Rest(World, c)
    BY DEF Sets
  <2>3. CASE Same(u0, u)
    BY <2>1, <2>2, <2>3 DEF Same, Rests
  <2>4. CASE ValueOf(map, k) \in Iter /\ Turns(u0, u, ValueOf(map, k), Idle)
    <3>1. PICK x \in Cursors : x = ValueOf(map, k)
      BY <2>4 DEF Cursors
    <3>2. \A c \in Cursors : Rest(u, c) = IF c = x THEN Idle ELSE Rest(World, c)
      BY <2>2, <2>4, <3>1 DEF Turns
    <3>3. Rests' = [Rests EXCEPT ![x] = Idle]
      BY <2>1, <3>2 DEF Rests
    <3> QED BY <1>1, <3>1, <3>3
  <2> QED BY <2>3, <2>4 DEF Drops
<1>5. Rests' = Rests \/ \E c \in Entries!Lost(k) : Rests' = [Rests EXCEPT ![c] = Idle]
  <2>1. Entries!Lost(k) = {c \in Cursors : Values[k] = c}
    BY DEF Entries!Lost, Values, Cursors
  <2> QED BY <1>4, <2>1
<1> QED BY <1>1, <1>2, <1>3, <1>5 DEF Values, Rests, Cursors, Entries!Set

(* A key is new. *)
LEMMA AddRefines ==
  ASSUME IInv, NEW u, Becomes(u), Good(u), NEW k \in Key, NEW v \in Value, k \notin Keys(map, Head0),
         Adds(World, u, k, v)
  PROVE  Entries!Set(k, v)
<1> DEFINE more == [c \in Cursors |-> IF Entries!Active(c) THEN Rests[c] \cup {k} ELSE Rests[c]]
<1>1. /\ \A j \in Key : Values[j] = ValueOf(map, j)
      /\ \A c \in Cursors : Rests[c] = Rest(World, c)
      /\ Values[k] = NoValue /\ World.map = map
      /\ \A j \in Key : j \in Keys(map, Head0) <=> Values[j] # NoValue
  BY Seen
<1>2. \A c \in Cursors : Entries!Active(c) <=> Rests[c] \notin {Idle, Done}
  BY DEF Entries!Active, Rests, Cursors
<1>3. Values' = [Values EXCEPT ![k] = v]
  <2>1. \A j \in Key : ValueOf(u.map, j) = IF j = k THEN v ELSE ValueOf(map, j)
    BY <1>1 DEF Adds
  <2>2. Values' = [j \in Key |-> IF j = k THEN v ELSE ValueOf(map, j)]
    BY <2>1, Primed
  <2> QED BY <2>2 DEF Values
<1>4. Order(map)' = Order(map) \cup (Entries!Present \X {k})
  <2>1. Entries!Present = Keys(map, Head0)
    <3>1. Keys(map, Head0) \in SUBSET Key
      BY KeysTyped, Opening DEF Good, Sane, MapSane
    <3>2. Entries!Present = {j \in Key : Values[j] # NoValue}
      BY DEF Entries!Present, Values
    <3> QED BY <1>1, <3>1, <3>2
  <2> QED BY <1>1, <2>1, Primed DEF Adds
<1>5. Rests' = more
  <2>1. \A c \in Cursors : Rest(u, c) = IF Entries!Active(c) THEN Rests[c] \cup {k} ELSE Rests[c]
    BY <1>1, <1>2 DEF Adds
  <2> QED BY <2>1, Primed
<1>6. more = [c \in Iter \cup 1 .. MaxDepth |->
               IF Entries!Active(c) THEN [x \in Iter \cup 1 .. MaxDepth |-> Rest(World, x)][c] \cup {k}
               ELSE [x \in Iter \cup 1 .. MaxDepth |-> Rest(World, x)][c]]
  BY DEF Rests, Cursors
<1> HIDE DEF more, Entries!Present
<1> QED BY <1>1, <1>3, <1>4, <1>5, <1>6 DEF Values, Rests, Cursors, Entries!Set

(* A map without records and visitors. *)
LEMMA EmptyView ==
  ASSUME NEW u, u = [map |-> NewMap, iter |-> [i \in Iter |-> NoIter], stack |-> <<>>]
  PROVE  /\ \A k : ValueOf(u.map, k) = NoValue
         /\ Order(u.map) = {}
         /\ \A c \in Cursors : Rest(u, c) = Idle
<1>1. u.map = NewMap /\ NewMap.records = <<>> /\ u.stack = <<>> /\ DOMAIN <<>> = {}
  BY DEF NewMap
<1>2. Full(u.map) = {}
  BY <1>1 DEF Full
<1>3. \A a : Keys(u.map, a) = {}
  BY <1>2 DEF Keys
<1>4. \A k : ValueOf(u.map, k) = NoValue
  BY <1>3 DEF ValueOf
<1>5. Order(u.map) = {}
  BY <1>2 DEF Order
<1>6. \A i \in Iter : IterRest(u.map, u.iter[i]) = Idle
  BY DEF IterRest, NoIter
<1>7. \A j : CallRest(u.map, u.stack, j) = Idle
  BY <1>1 DEF CallRest
<1> QED BY <1>4, <1>5, <1>6, <1>7 DEF Rest

LEMMA ForgetRefines ==
  ASSUME NEW u, u = [map |-> NewMap, iter |-> [i \in Iter |-> NoIter], stack |-> <<>>], Becomes(u)
  PROVE  Entries!Forget
<1>1. /\ \A k : ValueOf(u.map, k) = NoValue
      /\ Order(u.map) = {}
      /\ \A c \in Cursors : Rest(u, c) = Idle
  BY EmptyView
<1>2. Good(u)
  BY EmptyGood
<1>3. Values' = [k \in Key |-> NoValue] /\ Order(map)' = {} /\ Rests' = [c \in Cursors |-> Idle]
  BY <1>1, <1>2, Primed
<1> QED BY <1>3 DEF Values, Rests, Cursors, Entries!Forget

LEMMA InitRefines ==
  ASSUME Init
  PROVE  Entries!Init
<1>1. World = [map |-> NewMap, iter |-> [i \in Iter |-> NoIter], stack |-> <<>>] /\ World.map = map
  BY DEF Init, World
<1>2. /\ \A k : ValueOf(map, k) = NoValue
      /\ Order(map) = {}
      /\ \A c \in Cursors : Rest(World, c) = Idle
  BY <1>1, EmptyView
<1> QED BY <1>2 DEF Cursors, Entries!Init

(* A step of the map is a step of MapEntries, or does not show, or leaves  *)
(* a call astray.                                                          *)
Moves == Entries!Next \/ Astray' \/ UNCHANGED Entries!vars

LEMMA StrayMoves ==
  ASSUME NEW u, Becomes(u), Strays(u)
  PROVE  Moves
<1>1. \E j \in DOMAIN stack' : stack'[j].at \in {"moved", "looking"} /\ stack'[j].cur = Freed
  BY DEF Strays, Stray, Going, Becomes
<1> QED
  BY <1>1 DEF Astray, Moves

LEMMA MovesBy ==
  /\ \A k \in Key : Entries!Delete(k) => Moves
  /\ \A k \in Key, v \in Value : Entries!Set(k, v) => Moves
  /\ \A c \in Cursors : Entries!Begin(c) \/ Entries!Visit(c) \/ Entries!End(c) \/ Entries!Drop(c) => Moves
  /\ Entries!Forget => Moves
  /\ UNCHANGED Entries!vars => Moves
<1> USE DEF Moves, Cursors
<1>1. \A k \in Key : Entries!Delete(k) => Entries!Next
  BY Zenon DEF Entries!Next
<1>2. \A k \in Key, v \in Value : Entries!Set(k, v) => Entries!Next
  BY Zenon DEF Entries!Next
<1>3. \A c \in Iter \cup 1 .. MaxDepth :
        Entries!Begin(c) \/ Entries!Visit(c) \/ Entries!End(c) \/ Entries!Drop(c) => Entries!Next
  BY Zenon DEF Entries!Next
<1>4. Entries!Forget => Entries!Next
  BY Zenon DEF Entries!Next
<1> QED BY <1>1, <1>2, <1>3, <1>4

LEMMA SameMoves ==
  ASSUME IInv, NEW u, Becomes(u), Good(u), Same(World, u)
  PROVE  Moves
BY PrimedSame, Stutter, MovesBy, StrayMoves

LEMMA DropMoves ==
  ASSUME IInv, NEW u, Becomes(u), Good(u), NEW w2, Same(World, w2), NEW v, Drops(w2, u, v)
  PROVE  Moves
<1>1. Drops(World, u, v)
  BY SameSame, SameTurns DEF Drops
<1>2. Strays(u) \/ UNCHANGED Entries!vars \/ \E c \in Cursors : Entries!Drop(c)
  BY <1>1, DropsRefines
<1> QED BY <1>2, MovesBy, StrayMoves

LEMMA LeaveMoves ==
  ASSUME IInv, NEW u, Becomes(u), Good(u), NEW c \in Cursors, Turns(World, u, c, Idle)
  PROVE  Moves
BY PrimedTurn, DropRefines, MovesBy, StrayMoves

(* Where an enumeration gets to from a, and what is then left.             *)
Onward(m, a) == IF NextRecord(m, a) = Head0 THEN Done ELSE Keys(m, NextRecord(m, a))

LEMMA BeginMoves ==
  ASSUME IInv, NEW u, Becomes(u), Good(u), NEW c \in Cursors, Rest(World, c) = Idle, NEW R,
         R = Keys(map, Head0) \/ R = Onward(map, Head0), Turns(World, u, c, R)
  PROVE  Moves
<1>0. CASE Strays(u)
  BY <1>0, StrayMoves
<1> SUFFICES ASSUME ~Strays(u) PROVE Moves
  BY <1>0
<1>1. /\ Sane(World, Head0) /\ World.map = map /\ Rests[c] = Idle
  BY Seen
<1>2. Values' = Values /\ Order(map)' = Order(map) /\ Rests' = [Rests EXCEPT ![c] = R]
  BY PrimedTurn
<1>3. \/ R = Keys(map, Head0)
      \/ \E k \in Keys(map, Head0) : /\ R = Keys(map, Head0) \ {k}
                                     /\ \A j \in Keys(map, Head0) \ {k} : <<k, j>> \in Order(map)
      \/ Keys(map, Head0) = {} /\ R = Done
  <2> DEFINE n == NextRecord(map, Head0)
             k == map.records[n].key
  <2>1. Head0 \in Int
    BY DEF Head0
  <2>2. /\ n = Head0 => Keys(map, Head0) = {}
        /\ n # Head0 => /\ k \in Keys(map, Head0) /\ Keys(map, n) = Keys(map, Head0) \ {k}
                        /\ \A j \in Keys(map, Head0) \ {k} : <<k, j>> \in Order(map)
    BY <1>1, <2>1, NextView
  <2>3. R = Keys(map, Head0) \/ R = IF n = Head0 THEN Done ELSE Keys(map, n)
    BY DEF Onward
  <2> HIDE DEF n, k
  <2> QED BY <2>2, <2>3
<1>4. Entries!Begin(c)
  BY <1>1, <1>2, <1>3, BeginRefines
<1> QED BY <1>4, MovesBy

LEMMA OnwardMoves ==
  ASSUME IInv, NEW u, Becomes(u), Good(u), NEW c \in Cursors, NEW a \in Int, Rest(World, c) = Keys(map, a),
         Turns(World, u, c, Onward(map, a))
  PROVE  Moves
<1>0. CASE Strays(u)
  BY <1>0, StrayMoves
<1> SUFFICES ASSUME ~Strays(u) PROVE Moves
  BY <1>0
<1>1. /\ Sane(World, Head0) /\ World.map = map /\ Rests[c] = Keys(map, a)
  BY Seen
<1>2. Values' = Values /\ Order(map)' = Order(map) /\ Rests' = [Rests EXCEPT ![c] = Onward(map, a)]
  BY PrimedTurn
<1> DEFINE n == NextRecord(map, a)
           k == map.records[n].key
<1>3. /\ n = Head0 => Keys(map, a) = {}
      /\ n # Head0 => /\ k \in Keys(map, a) /\ Keys(map, n) = Keys(map, a) \ {k}
                      /\ \A j \in Keys(map, a) \ {k} : <<k, j>> \in Order(map)
  BY <1>1, NextView
<1>4. Onward(map, a) = IF n = Head0 THEN Done ELSE Keys(map, n)
  BY DEF Onward
<1> HIDE DEF n, k
<1>5. CASE n = Head0
  <2>1. Entries!End(c)
    BY <1>1, <1>2, <1>3, <1>4, <1>5, EndRefines
  <2> QED BY <2>1, MovesBy
<1>6. CASE n # Head0
  <2>1. Keys(map, a) # Idle /\ Keys(map, a) # Done
    BY <1>1, KeysTyped, MapAssumption DEF Sane, MapSane
  <2>2. Entries!Visit(c)
    BY <1>1, <1>2, <1>3, <1>4, <1>6, <2>1, VisitRefines
  <2> QED BY <2>2, MovesBy
<1> QED BY <1>5, <1>6

(* The calls in progress, by their depth.                                  *)
LEMMA Level ==
  ASSUME IInv
  PROVE  /\ stack # <<>> => Len(stack) \in 1 .. MaxDepth
         /\ Len(stack) < MaxDepth => Len(stack) + 1 \in 1 .. MaxDepth
         /\ \A k \in 1 .. MaxDepth : /\ k \in Cursors
                                     /\ \A w : Rest(w, k) = CallRest(w.map, w.stack, k)
<1>1. stack \in Seq(FrameType) /\ Len(stack) <= MaxDepth /\ Len(stack) \in Nat /\ MaxDepth \in Nat
  BY Opening, MapAssumption
<1>2. \A k \in 1 .. MaxDepth : k \in Cursors /\ k \notin Iter
  BY MapAssumption DEF Cursors
<1> QED BY <1>1, <1>2 DEF Rest

-----------------------------------------------------------------------------
(* Every action preserves the invariant, and is a step of MapEntries or    *)
(* does not show.                                                          *)

LEMMA Revalued ==
  ASSUME NEW w, Good(w), NEW r \in Full(w.map), NEW v \in Value
  PROVE  LET u == WithRecord(w, r, [w.map.records[r] EXCEPT !.value = v]) IN
         /\ Mid(u, Head0) /\ Balanced(u, Head0) /\ u.stack = w.stack
         /\ Sets(w, u, w.map.records[r].key, v)
         /\ ValueOf(w.map, w.map.records[r].key) = w.map.records[r].value
<1> DEFINE rec == [w.map.records[r] EXCEPT !.value = v]
           u == WithRecord(w, r, rec)
<1>1. /\ Sane(w, Head0) /\ Counted(w.map) /\ Balanced(w, Head0) /\ w.map.records[r] \in RecordType
      /\ r \in DOMAIN w.map.records /\ Full(w.map) \subseteq DOMAIN w.map.records
  BY DEF Good, Sane, MapSane, MapTyped, Full
<1>2. /\ rec \in RecordType /\ rec.key = w.map.records[r].key /\ rec.empty = w.map.records[r].empty
      /\ rec.ref_count = w.map.records[r].ref_count /\ rec.value = v
  BY <1>1 DEF RecordType
<1> HIDE DEF rec
<1>3. /\ Sane(u, Head0) /\ Full(u.map) = Full(w.map) /\ u.map.count = w.map.count
      /\ u.iter = w.iter /\ u.stack = w.stack
      /\ DOMAIN u.map.records = DOMAIN w.map.records
      /\ \A p \in DOMAIN w.map.records : u.map.records[p] = IF p = r THEN rec ELSE w.map.records[p]
  BY <1>1, <1>2, Rewritten
<1> HIDE DEF u
<1>4. Mid(u, Head0)
  BY <1>1, <1>3 DEF Mid, Counted
<1>5. \A p \in DOMAIN w.map.records : /\ u.map.records[p].ref_count = w.map.records[p].ref_count
                                      /\ u.map.records[p].empty = w.map.records[p].empty
  BY <1>2, <1>3
<1>6. Balanced(u, Head0)
  BY <1>1, <1>3, <1>5 DEF Balanced, Exact
<1>7. \A p \in Full(w.map) : /\ u.map.records[p].key = w.map.records[p].key
                             /\ u.map.records[p].value = IF p = r THEN v ELSE w.map.records[p].value
  BY <1>1, <1>2, <1>3
<1>8. Sets(w, u, w.map.records[r].key, v) /\ ValueOf(w.map, w.map.records[r].key) = w.map.records[r].value
  BY <1>1, <1>3, <1>7, ValueView
<1> QED
  BY <1>3, <1>4, <1>6, <1>8 DEF u, rec

LEMMA AppendView ==
  ASSUME NEW w, NEW u, Good(w), Good(u), u.iter = w.iter, u.stack = w.stack, NEW k \in Key, NEW v,
         Appended(w.map, u.map, k, v), \A j \in DOMAIN w.stack : ~Going(w.stack[j])
  PROVE  Adds(w, u, k, v)
<1> DEFINE n == Len(w.map.records) + 1
<1>1. /\ Sane(w, Head0) /\ Sane(u, Head0) /\ n \in Nat /\ n > Head0
      /\ \A p \in 0 .. Len(w.map.records) : p < n
      /\ \A p \in Full(w.map) : p < n
  BY DEF Good, Sane, MapSane, MapTyped, Full, Head0
<1>2. /\ Full(u.map) = Full(w.map) \cup {n} /\ u.map.records[n].key = k /\ u.map.records[n].value = v
      /\ \A p \in Full(w.map) : u.map.records[p] = w.map.records[p]
  BY DEF Appended
<1> HIDE DEF n
<1> QED
  BY <1>1, <1>2, AddView

LEMMA SetStep ==
  ASSUME IInv, NEW k \in Key, NEW v \in Value, js_map_set(k, v)
  PROVE  IInv' /\ Moves
<1> DEFINE w == World
           r == map_find_record(map, k)
           added == map_add_record(map, k, v)
<1>1. /\ Good(w) /\ w.map = map /\ w.iter = iter /\ w.stack = stack /\ Len(stack) <= MaxDepth
      /\ map.records \in Seq(RecordType)
  BY Opening
<1>2. /\ r = Head0 => \A p \in Full(map) : map.records[p].key # k
      /\ r # Head0 => r \in Full(map) /\ map.records[r].key = k
  BY <1>1, Found
<1>3. CASE r # Head0
  <2> DEFINE u0 == WithRecord(w, r, [w.map.records[r] EXCEPT !.value = v])
             u == JS_FreeValue(u0, map.records[r].value)
  <2>1. Becomes(u)
    <3>1. [World EXCEPT !.map.records[r].value = v] = u0
      BY Zenon DEF WithRecord
    <3>2. Becomes(JS_FreeValue([World EXCEPT !.map.records[r].value = v], map.records[r].value))
      BY <1>3 DEF js_map_set
    <3> HIDE DEF u0
    <3> QED
      BY <3>1, <3>2
  <2> HIDE DEF w
  <2>2. r \in Full(w.map) /\ w.map.records[r].key = k
    BY <1>1, <1>2, <1>3
  <2>6. k \in Keys(map, Head0)
    BY <1>1, <2>2, ViewAt, FullPlaces DEF Good, Sane, MapSane
  <2> HIDE DEF r
  <2>3. /\ Mid(u0, Head0) /\ Balanced(u0, Head0) /\ u0.stack = w.stack
        /\ Sets(w, u0, k, v) /\ ValueOf(map, k) = map.records[r].value
    BY <1>1, <2>2, Revalued
  <2> HIDE DEF u0
  <2>4. Keeps(u0, Head0, u) /\ Drops(u0, u, ValueOf(map, k))
    BY <2>3, FreedValue, FreedView
  <2> HIDE DEF u
  <2>5. Good(u) /\ Len(u.stack) = Len(u0.stack)
    BY <2>4, KeptGood
  <2>7. Strays(u) \/ Entries!Set(k, v)
    <3>1. Sets(World, u0, k, v)
      BY <2>3 DEF w
    <3> QED
      BY <2>1, <2>4, <2>5, <2>6, <3>1, SetRefines
  <2> QED
    BY <1>1, <2>1, <2>3, <2>5, <2>7, Closing, MovesBy, StrayMoves
<1>4. CASE r = Head0
  <2>1. map' \in {added, map_hash_resize(added)} /\ UNCHANGED <<iter, stack>>
    BY <1>4 DEF js_map_set
  <2> DEFINE u1 == WithMap(w, added)
             u2 == WithMap(u1, map_hash_resize(added))
  <2> HIDE DEF w, r
  <2>2. Good(u1) /\ Appended(w.map, added, k, v)
    BY <1>1, <1>2, <1>4, Added
  <2>3. u1.map = added /\ u1.iter = iter /\ u1.stack = stack
    BY <1>1 DEF WithMap
  <2> HIDE DEF u1, added
  <2>4. Good(u2) /\ map_hash_resize(added).records = added.records
    BY <2>2, <2>3, Resized
  <2>5. u2.map = map_hash_resize(added) /\ u2.iter = iter /\ u2.stack = stack
    BY <2>3 DEF WithMap
  <2> HIDE DEF u2
  <2>12. \A j \in DOMAIN stack : ~Going(stack[j])
    BY Waiting DEF js_map_set
  <2>8. Adds(w, u1, k, v)
    BY <1>1, <2>2, <2>3, <2>12, AppendView
  <2>9. Adds(w, u2, k, v)
    <3>1. Same(u1, u2)
      BY <2>2, <2>3, <2>4, <2>5, RecordsView DEF Good
    <3>2. ~Strays(u2)
      BY <2>5, <2>12 DEF Strays, Stray
    <3> QED
      BY <2>8, <3>1, <3>2 DEF Adds, Same
  <2>10. k \notin Keys(map, Head0)
    BY <1>1, <1>2, <1>4, ViewAt DEF Good, Sane, MapSane
  <2>11. ASSUME NEW u, u \in {u1, u2}, Good(u), Becomes(u) PROVE Moves
    <3>1. Adds(World, u, k, v)
      BY <2>8, <2>9, <2>11 DEF w
    <3>2. Entries!Set(k, v)
      BY <2>10, <2>11, <3>1, AddRefines
    <3> QED
      BY <3>2, MovesBy
  <2>6. CASE map' = added
    <3>1. Becomes(u1)
      BY <2>1, <2>3, <2>6 DEF Becomes
    <3> QED
      BY <1>1, <2>2, <2>3, <2>11, <3>1, Closing
  <2>7. CASE map' = map_hash_resize(added)
    <3>1. Becomes(u2)
      BY <2>1, <2>5, <2>7 DEF Becomes
    <3> QED
      BY <1>1, <2>4, <2>5, <2>11, <3>1, Closing
  <2> QED
    BY <2>1, <2>6, <2>7
<1> QED
  BY <1>3, <1>4

LEMMA DeleteStep ==
  ASSUME IInv, NEW k \in Key, js_map_delete(k)
  PROVE  IInv' /\ Moves
<1> DEFINE w == World
           r == map_find_record(map, k)
           u == map_delete_record(w, r)
<1>1. Good(w) /\ w.map = map /\ w.stack = stack /\ Len(stack) <= MaxDepth
  BY Opening
<1>2. r # Head0 /\ Becomes(u)
  BY DEF js_map_delete
<1> HIDE DEF w
<1>3. r \in Full(w.map) /\ w.map.records[r].key = k
  BY <1>1, <1>2, Found
<1>6. k \in Keys(map, Head0)
  BY <1>1, <1>3, ViewAt, FullPlaces DEF Good, Sane, MapSane
<1>4. r \in DOMAIN w.map.records
  BY <1>3 DEF Full
<1> HIDE DEF r
<1>5. Good(u) /\ Len(u.stack) = Len(w.stack) /\ Removes(w, u, k)
  BY <1>1, <1>3, <1>4, Deleted, DeleteView
<1> HIDE DEF u
<1>7. Strays(u) \/ Entries!Delete(k)
  <2>1. Removes(World, u, k)
    BY <1>5 DEF w
  <2> QED
    BY <1>2, <1>5, <1>6, <2>1, DeleteRefines
<1> QED
  BY <1>1, <1>2, <1>5, <1>7, Closing, MovesBy, StrayMoves

LEMMA ClearStarts ==
  ASSUME IInv, js_map_clear
  PROVE  IInv' /\ Moves
<1> DEFINE w == World
           f == Frame("clear", Succ(map, Head0), None)
           st == Append(stack, f)
           u == WithStack(w, st)
<1>1. /\ Good(w) /\ Mid(w, Head0) /\ Balanced(w, Head0) /\ w.map = map /\ w.iter = iter /\ w.stack = stack
      /\ stack \in Seq(FrameType) /\ Len(stack) \in Nat
  BY Opening
<1>2. Len(stack) < MaxDepth /\ map' = map /\ iter' = iter /\ stack' = st
  BY DEF js_map_clear
<1> HIDE DEF w
<1>3. Succ(map, Head0) \in 0 .. Len(w.map.records) /\ Len(w.map.records) \in Nat
  BY <1>1, NextPlaces DEF Good, Sane, MapSane, MapTyped
<1>4. f \in FrameType /\ RightPlace(f, Len(w.map.records)) /\ f.at = "clear" /\ ~Stands(f)
  BY <1>3 DEF Frame, FrameType, RightPlace, Value, Stands
<1> HIDE DEF f
<1>5. /\ st \in Seq(FrameType) /\ AlikeBut(stack, st, Len(stack) + 1) /\ Len(st) = Len(stack) + 1
      /\ st[Len(stack) + 1] = f /\ At(stack, Len(stack) + 1) = Head0 /\ At(st, Len(stack) + 1) = Head0
      /\ OnTop(st)
  BY <1>1, <1>4, Pushed, Waiting DEF js_map_clear
<1> HIDE DEF st
<1>6. /\ Mid(u, Head0) /\ Owing(u, At(st, Len(stack) + 1), At(w.stack, Len(stack) + 1))
      /\ u.map = w.map /\ u.iter = w.iter /\ u.stack = st
  BY <1>1, <1>4, <1>5, StackSet
<1> HIDE DEF u
<1>7. Good(u)
  BY <1>1, <1>5, <1>6, BalancedOwing, GoodMid
<1>8. Becomes(u)
  BY <1>1, <1>2, <1>6 DEF Becomes, st
<1>9. Same(World, u)
  <2> DEFINE k == Len(stack) + 1
  <2>1. k \in 1 .. MaxDepth /\ Rest(w, k) = CallRest(map, stack, k)
    BY <1>1, <1>2, Level
  <2>2. k \notin DOMAIN stack
    BY <1>1
  <2>3. Turns(w, u, k, CallRest(map, st, k))
    BY <1>1, <1>5, <2>1, StackView DEF Good, u
  <2>4. CallRest(map, st, k) = Idle /\ CallRest(map, stack, k) = Idle
    BY <1>4, <1>5, <2>2 DEF CallRest
  <2> HIDE DEF k
  <2> QED
    BY <2>1, <2>3, <2>4, TurnsBack DEF w
<1>10. Len(u.stack) <= MaxDepth
  BY <1>1, <1>2, <1>5, <1>6, MapAssumption
<1> QED
  BY <1>7, <1>8, <1>9, <1>10, Closing, SameMoves

LEMMA ClearAdvances ==
  ASSUME IInv, ClearStep
  PROVE  IInv' /\ Moves
<1> DEFINE w == World
           r == Last(stack).cur
           f == [Last(stack) EXCEPT !.cur = Succ(map, r)]
           st == [stack EXCEPT ![Len(stack)] = f]
           w2 == WithStack(w, st)
           u == map_delete_record(w2, r)
<1>1. /\ Good(w) /\ Mid(w, Head0) /\ Balanced(w, Head0) /\ w.map = map /\ w.iter = iter /\ w.stack = stack
      /\ stack \in Seq(FrameType) /\ Len(stack) <= MaxDepth /\ map.records \in Seq(RecordType)
      /\ OnTop(stack)
  BY Opening
<1>2. stack # <<>> /\ Last(stack).at = "clear" /\ r \in DOMAIN map.records
  BY DEF ClearStep, Clearing
<1>3. Becomes(u)
  <2>1. [World EXCEPT !.stack[Len(stack)].cur = Succ(map, r)] = w2
    <3>1. [World EXCEPT !.stack[Len(stack)].cur = Succ(map, r)]
            = WithStack(World, [World.stack EXCEPT ![Len(stack)] =
                                  [World.stack[Len(stack)] EXCEPT !.cur = Succ(map, r)]])
      BY Zenon DEF WithStack
    <3>2. World.stack = stack /\ Last(stack) = stack[Len(stack)]
      BY <1>1 DEF Last
    <3> QED
      BY <3>1, <3>2
  <2>2. Becomes(map_delete_record([World EXCEPT !.stack[Len(stack)].cur = Succ(map, r)], r))
    BY DEF ClearStep
  <2> HIDE DEF w2
  <2> QED
    BY <2>1, <2>2
<1> HIDE DEF w
<1>4. Succ(map, r) \in 0 .. Len(w.map.records) /\ Len(w.map.records) \in Nat
  BY <1>1, NextPlaces DEF Good, Sane, MapSane, MapTyped
<1>5. Last(stack) \in FrameType
  BY <1>1, <1>2 DEF Last
<1>6. /\ f \in FrameType /\ f.at = "clear" /\ RightPlace(f, Len(w.map.records))
      /\ ~Stands(f) /\ ~Stands(Last(stack))
  BY <1>2, <1>4, <1>5 DEF FrameType, RightPlace, Stands
<1> HIDE DEF f
<1>7. /\ st \in Seq(FrameType) /\ AlikeBut(stack, st, Len(stack)) /\ Len(st) = Len(stack)
      /\ st[Len(stack)] = f /\ At(stack, Len(stack)) = Head0 /\ At(st, Len(stack)) = Head0
      /\ OnTop(st)
  BY <1>1, <1>2, <1>6, Topped
<1> HIDE DEF st
<1>8. /\ Mid(w2, Head0) /\ Owing(w2, At(st, Len(stack)), At(w.stack, Len(stack)))
      /\ w2.map = w.map /\ w2.iter = w.iter /\ w2.stack = st
  BY <1>1, <1>6, <1>7, StackSet
<1> HIDE DEF w2
<1>9. Good(w2)
  BY <1>1, <1>7, <1>8, BalancedOwing, GoodMid
<1>10. r \in DOMAIN w2.map.records
  BY <1>1, <1>2, <1>8
<1> HIDE DEF r
<1>11. Good(u) /\ Len(u.stack) = Len(w2.stack)
  BY <1>9, <1>10, Deleted
<1>12. Same(World, w2)
  <2> DEFINE k == Len(stack)
  <2>1. k \in 1 .. MaxDepth /\ Rest(w, k) = CallRest(map, stack, k)
    BY <1>1, <1>2, Level
  <2>4. ~Stray(stack[k])
    BY <1>2 DEF Stray, Going, Last
  <2>2. Turns(w, w2, k, CallRest(map, st, k))
    BY <1>1, <1>7, <2>1, <2>4, StackView DEF Good, w2
  <2>3. CallRest(map, st, k) = Idle /\ CallRest(map, stack, k) = Idle
    <3>1. Last(stack) = stack[k]
      BY DEF Last
    <3> QED
      BY <1>2, <1>6, <1>7, <3>1 DEF CallRest
  <2> HIDE DEF k
  <2> QED
    BY <2>1, <2>2, <2>3, TurnsBack DEF w
<1>13. Moves
  <2>1. CASE map.records[r].empty
    <3>1. u = w2
      BY <1>1, <1>8, <2>1, DeleteSteps
    <3> QED
      BY <1>3, <1>11, <1>12, <3>1, SameMoves
  <2>2. CASE ~map.records[r].empty
    <3> DEFINE k == map.records[r].key
    <3>1. r \in Full(map) /\ r \in Full(w2.map) /\ w2.map.records[r].key = k
      BY <1>1, <1>8, <1>10, <2>2 DEF Full
    <3>2. k \in Key /\ k \in Keys(map, Head0)
      BY <1>1, <3>1, ViewAt, KeysTyped, FullPlaces DEF Good, Sane, MapSane
    <3>3. Removes(w2, u, k)
      BY <1>9, <3>1, DeleteView
    <3> HIDE DEF k, u
    <3>4. Removes(World, u, k)
      BY <1>12, <3>2, <3>3, RemovesSame
    <3> QED
      BY <1>3, <1>11, <3>2, <3>4, DeleteRefines, MovesBy, StrayMoves
  <2> QED
    BY <2>1, <2>2
<1> HIDE DEF u
<1> QED
  BY <1>1, <1>3, <1>7, <1>8, <1>11, <1>13, Closing

(* A call is left that stands on no record.                                *)
LEMMA CallEnds ==
  ASSUME IInv, stack # <<>>, At(stack, Len(stack)) = Head0, ~Going(stack[Len(stack)]),
         stack' = Front(stack), UNCHANGED <<map, iter>>
  PROVE  IInv' /\ Moves
<1> DEFINE w == World
           st == Front(stack)
           u == WithStack(w, st)
<1>1. /\ Good(w) /\ Mid(w, Head0) /\ Balanced(w, Head0) /\ w.map = map /\ w.iter = iter /\ w.stack = stack
      /\ stack \in Seq(FrameType) /\ Len(stack) <= MaxDepth /\ Len(stack) \in Nat /\ OnTop(stack)
  BY Opening
<1> HIDE DEF w
<1>2. /\ st \in Seq(FrameType) /\ AlikeBut(stack, st, Len(stack)) /\ Len(st) = Len(stack) - 1
      /\ Len(stack) \notin DOMAIN st /\ At(st, Len(stack)) = Head0 /\ OnTop(st)
  BY <1>1, Popped
<1> HIDE DEF st
<1>3. /\ Mid(u, Head0) /\ Owing(u, At(st, Len(stack)), At(w.stack, Len(stack)))
      /\ u.map = w.map /\ u.iter = w.iter /\ u.stack = st
  BY <1>1, <1>2, StackSet
<1> HIDE DEF u
<1>4. Good(u)
  BY <1>1, <1>2, <1>3, BalancedOwing, GoodMid
<1>5. stack' = st
  BY DEF st
<1>6. Becomes(u) /\ Len(u.stack) <= MaxDepth
  BY <1>1, <1>2, <1>3, <1>5, MapAssumption DEF Becomes
<1>7. Moves
  <2> DEFINE k == Len(stack)
  <2>1. k \in 1 .. MaxDepth /\ k \in Cursors
    BY Level
  <2>2. Turns(w, u, k, CallRest(map, st, k))
    BY <1>1, <1>2, <2>1, StackView DEF Good, u, Stray
  <2>3. CallRest(map, st, k) = Idle
    BY <1>2 DEF CallRest
  <2> HIDE DEF k
  <2> QED
    BY <1>4, <1>6, <2>1, <2>2, <2>3, LeaveMoves DEF w
<1> QED
  BY <1>4, <1>6, <1>7, Closing

LEMMA ClearEnd ==
  ASSUME IInv, ClearEnds
  PROVE  IInv' /\ Moves
<1>1. stack # <<>> /\ Last(stack).at = "clear" /\ stack \in Seq(FrameType)
  BY Opening DEF ClearEnds, Clearing
<1>2. At(stack, Len(stack)) = Head0 /\ ~Going(stack[Len(stack)])
  BY <1>1, Popped DEF Stands, Going, Last
<1> QED
  BY <1>1, <1>2, CallEnds DEF ClearEnds

LEMMA ForEachEnd ==
  ASSUME IInv, ForEachEnds
  PROVE  IInv' /\ Moves
<1>1. stack # <<>> /\ Last(stack).at = "ended" /\ stack \in Seq(FrameType)
  BY Opening DEF ForEachEnds, InForEach
<1>2. Len(stack) \in DOMAIN stack /\ Last(stack) = stack[Len(stack)]
  BY <1>1 DEF Last
<1>3. Last(stack).cur = Head0
  BY <1>1, <1>2 DEF IInv, World, Good, Sane, Standing
<1>4. At(stack, Len(stack)) = Head0 /\ ~Going(stack[Len(stack)])
  BY <1>1, <1>2, <1>3, Popped DEF Going
<1> QED
  BY <1>1, <1>4, CallEnds DEF ForEachEnds

LEMMA VisitFrame ==
  ASSUME IInv, NEW r \in 0 .. Len(map.records)
  PROVE  /\ visit(r) \in FrameType /\ Stands(visit(r)) /\ visit(r).cur = r
         /\ RightPlace(visit(r), Len(map.records))
<1>1. map.records \in Seq(RecordType) /\ Len(map.records) \in Nat
  BY Opening
<1>2. CASE r = Head0
  BY <1>1, <1>2 DEF visit, Frame, FrameType, RightPlace, Value, Head0, Stands
<1>3. CASE r # Head0
  <2>1. map.records[r].value \in Value
    <3>1. r \in DOMAIN map.records
      BY <1>1, <1>3 DEF Head0
    <3>2. map.records[r] \in RecordType
      BY <1>1, <3>1
    <3> QED
      BY <3>2 DEF RecordType
  <2> QED
    BY <1>1, <1>3, <2>1 DEF visit, Frame, FrameType, RightPlace, Stands
<1> QED
  BY <1>2, <1>3

LEMMA VisitRest ==
  ASSUME NEW a, NEW st, NEW k \in DOMAIN st, st[k] = visit(NextRecord(map, a))
  PROVE  CallRest(map, st, k) = Onward(map, a)
BY DEF CallRest, Onward, visit, Frame

LEMMA ForEachStarts ==
  ASSUME IInv, js_map_forEach
  PROVE  IInv' /\ Moves
<1> DEFINE w == World
           r == NextRecord(map, Head0)
           f == visit(r)
           st == Append(stack, f)
           w2 == WithStack(w, st)
           u == locked(w2, r)
<1>1. /\ Good(w) /\ Mid(w, Head0) /\ Balanced(w, Head0) /\ w.map = map /\ w.iter = iter /\ w.stack = stack
      /\ stack \in Seq(FrameType) /\ Len(stack) \in Nat
  BY Opening
<1>2. Len(stack) < MaxDepth
  BY DEF js_map_forEach
<1>3. Becomes(u)
  <2>1. [World EXCEPT !.stack = Append(@, visit(r))] = w2
    <3>1. [World EXCEPT !.stack = Append(@, visit(r))] = WithStack(World, Append(World.stack, visit(r)))
      BY Zenon DEF WithStack
    <3> QED
      BY <1>1, <3>1
  <2>2. Becomes(locked([World EXCEPT !.stack = Append(@, visit(r))], r))
    BY DEF js_map_forEach
  <2> HIDE DEF w2
  <2> QED
    BY <2>1, <2>2
<1> HIDE DEF w
<1>4. r \in 0 .. Len(w.map.records)
  BY <1>1, NextPlaces
<1> HIDE DEF r
<1>5. f \in FrameType /\ RightPlace(f, Len(w.map.records)) /\ Stands(f) /\ f.cur = r
  BY <1>1, <1>4, VisitFrame
<1> HIDE DEF f
<1>6. /\ st \in Seq(FrameType) /\ AlikeBut(stack, st, Len(stack) + 1) /\ Len(st) = Len(stack) + 1
      /\ st[Len(stack) + 1] = f /\ At(stack, Len(stack) + 1) = Head0 /\ At(st, Len(stack) + 1) = r
      /\ OnTop(st)
  BY <1>1, <1>5, Pushed, Waiting DEF js_map_forEach
<1> HIDE DEF st
<1>7. /\ Mid(w2, Head0) /\ Owing(w2, At(st, Len(stack) + 1), At(w.stack, Len(stack) + 1))
      /\ w2.map = w.map /\ w2.iter = w.iter /\ w2.stack = st
  BY <1>1, <1>5, <1>6, StackSet
<1> HIDE DEF w2
<1>8. Mid(u, Head0) /\ Balanced(u, Head0) /\ u.stack = st
  <2>1. Mid(w2, Head0) /\ Owing(w2, r, Head0) /\ r \in 0 .. Len(w2.map.records)
    BY <1>1, <1>4, <1>6, <1>7
  <2>2. Mid(u, Head0) /\ Balanced(u, Head0) /\ u.stack = w2.stack
    BY <2>1, Locked
  <2> QED
    BY <1>7, <2>2
<1> HIDE DEF u
<1>9. Good(u) /\ Len(u.stack) <= MaxDepth
  BY <1>1, <1>2, <1>6, <1>8, GoodMid, MapAssumption
<1>10. Moves
  <2> DEFINE k == Len(stack) + 1
             R == CallRest(map, st, k)
  <2>1. k \in 1 .. MaxDepth /\ k \in Cursors /\ Rest(w, k) = CallRest(map, stack, k)
    BY <1>1, <1>2, Level
  <2>2. Turns(w, w2, k, R)
    BY <1>1, <1>6, <2>1, StackView DEF Good, w2
  <2>3. Same(w2, u)
    BY <1>1, <1>4, <1>7, LockedView DEF u
  <2>4. Rest(w, k) = Idle
    BY <1>1, <2>1 DEF CallRest
  <2>5. R = Onward(map, Head0)
    BY <1>1, <1>6, VisitRest DEF r, f
  <2> HIDE DEF k, R
  <2>6. Turns(World, u, k, R)
    BY <2>2, <2>3, TurnsSame DEF w
  <2>7. Rest(World, k) = Idle
    BY <2>4 DEF w
  <2> QED
    BY <1>3, <1>9, <2>1, <2>5, <2>6, <2>7, BeginMoves
<1> QED
  BY <1>3, <1>9, <1>10, Closing

(* An iterator keeps its place.                                            *)
LEMMA IterStays ==
  ASSUME NEW w, NEW i \in Iter, NEW x \in IterType, Mid(w, Head0), Balanced(w, Head0),
         x.cur = w.iter[i].cur, x.state = "none" => x.cur = Head0
  PROVE  LET u == WithIter(w, i, x) IN
         Mid(u, Head0) /\ Balanced(u, Head0) /\ u.map = w.map /\ u.stack = w.stack
<1> DEFINE u == WithIter(w, i, x)
<1>1. w.iter[i].cur \in 0 .. Len(w.map.records)
  BY DEF Mid, Sane, Standing
<1>2. Mid(u, Head0) /\ Owing(u, x.cur, w.iter[i].cur) /\ u.map = w.map /\ u.stack = w.stack
  BY <1>1, IterSet
<1> HIDE DEF u
<1>3. \A p \in DOMAIN u.map.records : /\ OneIf(p = x.cur) \in {0, 1} /\ u.map.records[p].ref_count \in Nat
                                      /\ Visits(u.iter, u.stack, p) \in Nat /\ p # Head0
  BY <1>2, Settled DEF OneIf
<1>4. Owing(u, x.cur, x.cur)
  BY <1>2
<1>5. Balanced(u, Head0)
  BY <1>3, <1>4 DEF Owing, Balanced, Exact, OneIf
<1> QED
  BY <1>2, <1>5 DEF u

LEMMA IterOf ==
  ASSUME IInv, NEW i \in Iter
  PROVE  /\ iter[i] \in IterType /\ iter[i].cur \in 0 .. Len(map.records)
         /\ iter[i].state = "none" => iter[i].cur = Head0
BY DEF IInv, World, Good, Sane, Standing

(* The call on top is set to f.                                            *)
SetTop(f) == [stack EXCEPT ![Len(stack)] = f]

LEMMA TopSet ==
  ASSUME IInv, stack # <<>>, NEW f \in FrameType, RightPlace(f, Len(map.records)),
         Stray(Last(stack)) => Stray(f)
  PROVE  LET k == Len(stack)
             u == WithStack(World, SetTop(f))
         IN /\ Mid(u, Head0) /\ u.map = map /\ u.iter = iter /\ Len(u.stack) = Len(stack)
            /\ Owing(u, IF Stands(f) THEN f.cur ELSE Head0,
                        IF Stands(Last(stack)) THEN Last(stack).cur ELSE Head0)
            /\ k \in 1 .. MaxDepth /\ k \in Cursors /\ Rest(World, k) = CallRest(map, stack, k)
            /\ k \in DOMAIN SetTop(f) /\ SetTop(f)[k] = f /\ k \in DOMAIN stack /\ stack[k] = Last(stack)
            /\ Turns(World, u, k, CallRest(map, SetTop(f), k))
<1> DEFINE w == World
           k == Len(stack)
           st == SetTop(f)
           u == WithStack(w, st)
<1>1. /\ Good(w) /\ Mid(w, Head0) /\ Balanced(w, Head0) /\ w.map = map /\ w.iter = iter /\ w.stack = stack
      /\ stack \in Seq(FrameType) /\ OnTop(stack)
  BY Opening
<1> HIDE DEF w
<1>2. /\ st \in Seq(FrameType) /\ AlikeBut(stack, st, k) /\ Len(st) = Len(stack) /\ st[k] = f
      /\ Last(stack) = stack[k] /\ k \in DOMAIN stack /\ OnTop(st)
      /\ At(st, k) = (IF Stands(f) THEN f.cur ELSE Head0)
      /\ At(stack, k) = IF Stands(Last(stack)) THEN Last(stack).cur ELSE Head0
  BY <1>1, Topped DEF SetTop
<1>3. k \in 1 .. MaxDepth /\ k \in Cursors /\ Rest(w, k) = CallRest(map, stack, k)
  BY <1>1, Level
<1>4. k \in DOMAIN st
  BY <1>1, <1>2
<1> HIDE DEF st, k
<1>5. /\ Mid(u, Head0) /\ Owing(u, At(st, k), At(w.stack, k))
      /\ u.map = w.map /\ u.iter = w.iter /\ u.stack = st
  BY <1>1, <1>2, StackSet
<1>6. Turns(w, u, k, CallRest(map, st, k))
  BY <1>1, <1>2, <1>3, <1>4, StackView DEF Good
<1> HIDE DEF u
<1>7. Owing(u, IF Stands(f) THEN f.cur ELSE Head0, IF Stands(Last(stack)) THEN Last(stack).cur ELSE Head0)
  BY <1>1, <1>2, <1>5
<1> QED
  BY <1>1, <1>2, <1>3, <1>4, <1>5, <1>6, <1>7 DEF w, k, st, u

(* A debt for what is owed. *)
LEMMA Quits ==
  ASSUME NEW w, NEW r, Mid(w, Head0), Owing(w, r, r)
  PROVE  Balanced(w, Head0)
<1>1. \A p \in DOMAIN w.map.records : /\ OneIf(p = r) \in {0, 1} /\ w.map.records[p].ref_count \in Nat
                                      /\ Visits(w.iter, w.stack, p) \in Nat /\ p # Head0
  BY Settled DEF OneIf
<1> QED
  BY <1>1 DEF Owing, Balanced, Exact, OneIf

LEMMA TopPlace ==
  ASSUME IInv, stack # <<>>
  PROVE  /\ Last(stack) \in FrameType
         /\ Stands(Last(stack)) => Last(stack).cur \in 0 .. Len(map.records)
         /\ ~Stands(Last(stack)) => Last(stack).cur \in -1 .. Len(map.records)
         /\ Len(map.records) \in Nat
<1>1. /\ Good(World) /\ World.map = map /\ World.stack = stack /\ stack \in Seq(FrameType)
      /\ map.records \in Seq(RecordType)
  BY Opening
<1>2. Len(stack) \in DOMAIN stack /\ Last(stack) = stack[Len(stack)]
  BY <1>1 DEF Last
<1> QED
  BY <1>1, <1>2 DEF Good, Sane, Standing

(* The callback has returned or thrown, and its call stays where it is.    *)
LEMMA CallbackOver ==
  ASSUME IInv, InForEach("callback"), NEW how \in {"returned", "thrown"}, NEW v \in Value
  PROVE  LET u == WithStack(World, SetTop(Frame(how, Last(stack).cur, v))) IN
         /\ Mid(u, Head0) /\ Balanced(u, Head0) /\ Same(World, u)
         /\ u.map = map /\ u.iter = iter /\ Len(u.stack) = Len(stack)
<1> DEFINE c == Last(stack).cur
           f == Frame(how, c, v)
           u == WithStack(World, SetTop(f))
           k == Len(stack)
<1>1. stack # <<>> /\ Last(stack).at = "callback" /\ Stands(Last(stack)) /\ ~Stray(Last(stack))
  BY DEF InForEach, Stands, Stray, Going
<1>2. Last(stack) \in FrameType /\ c \in 0 .. Len(map.records) /\ Len(map.records) \in Nat
  BY <1>1, TopPlace
<1>3. f \in FrameType /\ RightPlace(f, Len(map.records)) /\ Stands(f) /\ f.cur = c /\ f.at = how
  BY <1>2 DEF Frame, FrameType, RightPlace, Stands
<1> HIDE DEF f
<1>4. /\ Mid(u, Head0) /\ u.map = map /\ u.iter = iter /\ Len(u.stack) = Len(stack) /\ Owing(u, c, c)
      /\ Rest(World, k) = CallRest(map, stack, k)
      /\ k \in DOMAIN SetTop(f) /\ SetTop(f)[k] = f /\ k \in DOMAIN stack /\ stack[k] = Last(stack)
      /\ Turns(World, u, k, CallRest(map, SetTop(f), k))
  BY <1>1, <1>3, TopSet
<1> HIDE DEF u, k
<1>5. Balanced(u, Head0)
  BY <1>4, Quits
<1>6. CallRest(map, SetTop(f), k) = CallRest(map, stack, k)
  BY <1>1, <1>3, <1>4 DEF CallRest
<1>7. Same(World, u)
  BY <1>4, <1>6, TurnsBack
<1> QED
  BY <1>4, <1>5, <1>7 DEF u, f

(* What is freed then, from a world w2 that looks like the one before.     *)
LEMMA FreedThen ==
  ASSUME IInv, NEW w2, NEW v, Mid(w2, Head0), Balanced(w2, Head0), Same(World, w2),
         Len(w2.stack) = Len(stack), Becomes(JS_FreeValue(w2, v))
  PROVE  IInv' /\ Moves
<1> DEFINE u == JS_FreeValue(w2, v)
<1>1. Keeps(w2, Head0, u) /\ Drops(w2, u, v)
  BY FreedValue, FreedView
<1> HIDE DEF u
<1>2. Good(u) /\ Len(u.stack) = Len(w2.stack)
  BY <1>1, KeptGood
<1>3. Becomes(u) /\ Len(stack) <= MaxDepth
  BY Opening DEF u
<1> QED
  BY <1>1, <1>2, <1>3, Closing, DropMoves

(* The stack of a world with another call on top. *)
LEMMA TopOf ==
  ASSUME IInv
  PROVE  /\ \A f : [World EXCEPT !.stack[Len(stack)] = f] = WithStack(World, SetTop(f))
         /\ stack # <<>> => World.stack[Len(stack)] = Last(stack)
<1>1. World.stack = stack
  BY DEF World
<1>2. ASSUME NEW f PROVE [World EXCEPT !.stack[Len(stack)] = f] = WithStack(World, SetTop(f))
  <2>1. [World EXCEPT !.stack[Len(stack)] = f] = WithStack(World, [World.stack EXCEPT ![Len(stack)] = f])
    BY Zenon DEF WithStack
  <2> QED
    BY <1>1, <2>1 DEF SetTop
<1> QED
  BY <1>1, <1>2 DEF Last

LEMMA CallbackThrowsStep ==
  ASSUME IInv, CallbackThrows
  PROVE  IInv' /\ Moves
<1> DEFINE f == Frame("thrown", Last(stack).cur, None)
           w2 == WithStack(World, SetTop(f))
<1>1. stack # <<>> /\ InForEach("callback")
  BY DEF CallbackThrows, InForEach
<1>2. [World EXCEPT !.stack[Len(stack)] = Frame("thrown", @.cur, None)] = w2
  <2>1. [World EXCEPT !.stack[Len(stack)] = Frame("thrown", @.cur, None)]
          = [World EXCEPT !.stack[Len(stack)] = Frame("thrown", World.stack[Len(stack)].cur, None)]
    BY Zenon
  <2> QED
    BY <1>1, <2>1, TopOf
<1>3. Becomes(JS_FreeValue(w2, Last(stack).arg))
  <2>1. Becomes(JS_FreeValue([World EXCEPT !.stack[Len(stack)] = Frame("thrown", @.cur, None)],
                             Last(stack).arg))
    BY DEF CallbackThrows
  <2> HIDE DEF w2
  <2> QED
    BY <1>2, <2>1
<1>4. None \in Value
  BY DEF Value
<1>5. Mid(w2, Head0) /\ Balanced(w2, Head0) /\ Same(World, w2) /\ Len(w2.stack) = Len(stack)
  BY <1>1, <1>4, CallbackOver
<1> HIDE DEF w2
<1> QED
  BY <1>3, <1>5, FreedThen

(* The result is given up by the program, if it is an iterator.            *)
LEMMA CallbackReturnsStep ==
  ASSUME IInv, NEW v \in Value, CallbackReturns(v)
  PROVE  IInv' /\ Moves
<1> DEFINE f == Frame("returned", Last(stack).cur, v)
           w2 == WithStack(World, SetTop(f))
           x == [iter[v] EXCEPT !.held = FALSE]
           it == [i \in Iter |-> IF i = v THEN [iter[i] EXCEPT !.held = FALSE] ELSE iter[i]]
           w3 == [w2 EXCEPT !.iter = it]
<1>1. stack # <<>> /\ InForEach("callback")
  BY DEF CallbackReturns, InForEach
<1>2. /\ Mid(w2, Head0) /\ Balanced(w2, Head0) /\ Same(World, w2)
      /\ w2.map = map /\ w2.iter = iter /\ Len(w2.stack) = Len(stack)
  BY <1>1, CallbackOver
<1>3. [World EXCEPT !.stack[Len(stack)] = Frame("returned", @.cur, v),
                    !.iter = [i \in Iter |-> IF i = v THEN [@[i] EXCEPT !.held = FALSE] ELSE @[i]]] = w3
  <2> DEFINE s2 == [World EXCEPT !.stack[Len(stack)] = Frame("returned", @.cur, v)]
  <2>1. s2 = w2
    <3>1. s2 = [World EXCEPT !.stack[Len(stack)] = Frame("returned", World.stack[Len(stack)].cur, v)]
      BY Zenon
    <3> QED
      BY <1>1, <3>1, TopOf
  <2>2. [World EXCEPT !.stack[Len(stack)] = Frame("returned", @.cur, v),
                      !.iter = [i \in Iter |-> IF i = v THEN [@[i] EXCEPT !.held = FALSE] ELSE @[i]]]
          = [s2 EXCEPT !.iter = [i \in Iter |-> IF i = v THEN [s2.iter[i] EXCEPT !.held = FALSE]
                                                          ELSE s2.iter[i]]]
    BY Zenon
  <2> HIDE DEF s2, w2
  <2> QED
    BY <1>2, <2>1, <2>2
<1>4. Becomes(JS_FreeValue(w3, Last(stack).arg))
  <2>1. Becomes(JS_FreeValue([World EXCEPT !.stack[Len(stack)] = Frame("returned", @.cur, v),
                                           !.iter = [i \in Iter |-> IF i = v THEN [@[i] EXCEPT !.held = FALSE]
                                                                             ELSE @[i]]],
                             Last(stack).arg))
    BY DEF CallbackReturns
  <2> HIDE DEF w3
  <2> QED
    BY <1>3, <2>1
<1>5. IsWorld(w2) /\ iter \in [Iter -> IterType]
  BY <1>2, Opening DEF Mid, Sane
<1> HIDE DEF w2
<1>6. /\ Mid(w3, Head0) /\ Balanced(w3, Head0) /\ Same(World, w3) /\ Len(w3.stack) = Len(stack)
  <2>1. CASE v \in Iter
    <3>1. iter[v] \in IterType /\ (iter[v].state = "none" => iter[v].cur = Head0)
      BY <2>1, IterOf
    <3>2. x \in IterType /\ x.cur = iter[v].cur /\ x.state = iter[v].state
      BY <3>1 DEF IterType
    <3>3. w3 = WithIter(w2, v, x)
      <4>1. it = [w2.iter EXCEPT ![v] = x]
        BY <1>2, <1>5, <2>1
      <4> HIDE DEF it, x
      <4> QED
        BY <1>5, <4>1 DEF WithIter, IsWorld
    <3> HIDE DEF x, w3
    <3>4. /\ Mid(w3, Head0) /\ Balanced(w3, Head0) /\ w3.stack = w2.stack
      BY <1>2, <2>1, <3>1, <3>2, <3>3, IterStays
    <3>5. Turns(w2, w3, v, IterRest(map, x)) /\ Rest(w2, v) = IterRest(map, iter[v])
      BY <1>2, <2>1, <3>2, <3>3, IterView DEF Mid, Rest
    <3>6. IterRest(map, x) = IterRest(map, iter[v])
      <4>1. iter[v].state \in {"none", "on", "done"}
        BY <3>1 DEF IterType
      <4> QED
        BY <3>2, <4>1 DEF IterRest
    <3>7. Same(w2, w3)
      BY <3>5, <3>6, TurnsBack
    <3> QED
      BY <1>2, <3>4, <3>7, SameSame
  <2>2. CASE v \notin Iter
    <3>1. it = iter
      BY <1>5, <2>2
    <3> HIDE DEF it
    <3>2. w3 = w2
      BY <1>2, <1>5, <3>1 DEF IsWorld
    <3> QED
      BY <1>2, <3>2
  <2> QED
    BY <2>1, <2>2
<1> HIDE DEF w3
<1> QED
  BY <1>4, <1>6, FreedThen

(* What is behind a place is what is there from the next place on.         *)
LEMMA FromNext ==
  ASSUME NEW w, NEW d, Sane(w, d), NEW a \in Int
  PROVE  KeysFrom(w.map, Succ(w.map, a)) = Keys(w.map, a)
<1> DEFINE S == {p \in DOMAIN w.map.records : p > a}
           n == Nearest(S)
<1>1. MapTyped(w.map) /\ w.map.records \in Seq(RecordType)
  BY DEF Sane, MapSane, MapTyped
<1>2. S \in SUBSET (Nat \ {0}) /\ Succ(w.map, a) = n
  BY <1>1 DEF Succ
<1>3. \A p \in Full(w.map) : p \in DOMAIN w.map.records /\ p \in Nat
  BY <1>1, FullPlaces
<1>4. CASE S = {}
  <2>1. n = Head0
    <3> HIDE DEF S
    <3> QED BY <1>2, <1>4, Least
  <2>2. \A p \in Full(w.map) : ~(p > a)
    BY <1>3, <1>4
  <2> QED
    BY <1>2, <2>1, <2>2 DEF KeysFrom, Keys
<1>5. CASE S # {}
  <2>1. n \in S /\ \A p \in S : n <= p
    <3> HIDE DEF S
    <3> QED BY <1>2, <1>5, Least
  <2>2. n \in Nat \ {0} /\ n > a /\ \A p \in Full(w.map) : p > a => n <= p
    BY <1>2, <1>3, <2>1
  <2> HIDE DEF n, S
  <2>3. \A p \in Full(w.map) : p > a <=> p > n - 1
    BY <1>3, <2>2
  <2>4. Keys(w.map, n - 1) = Keys(w.map, a)
    BY <2>3 DEF Keys
  <2> QED
    BY <1>2, <2>2, <2>4 DEF KeysFrom, Head0
<1> QED
  BY <1>4, <1>5

LEMMA TakeNextStep ==
  ASSUME IInv, TakeNext
  PROVE  IInv' /\ Moves
<1> DEFINE here == Last(stack).cur
           f == Frame("moved", Succ(map, here), Last(stack).arg)
           w2 == WithStack(World, SetTop(f))
           u == left(w2, here)
           k == Len(stack)
<1>1. stack # <<>> /\ Last(stack).at = "returned" /\ Stands(Last(stack)) /\ ~Stray(Last(stack))
  BY DEF TakeNext, InForEach, Stands, Stray, Going
<1>2. Becomes(u)
  <2>1. [World EXCEPT !.stack[Len(stack)] = Frame("moved", Succ(map, here), @.arg)] = w2
    <3>1. [World EXCEPT !.stack[Len(stack)] = Frame("moved", Succ(map, here), @.arg)]
            = [World EXCEPT !.stack[Len(stack)] = Frame("moved", Succ(map, here), World.stack[Len(stack)].arg)]
      BY Zenon
    <3> QED
      BY <1>1, <3>1, TopOf
  <2>2. Becomes(left([World EXCEPT !.stack[Len(stack)] = Frame("moved", Succ(map, here), @.arg)], here))
    BY DEF TakeNext
  <2> HIDE DEF w2
  <2> QED
    BY <2>1, <2>2
<1>3. /\ Last(stack) \in FrameType /\ here \in 0 .. Len(map.records) /\ Len(map.records) \in Nat
      /\ Good(World) /\ World.map = map /\ Len(stack) <= MaxDepth
  BY <1>1, TopPlace, Opening
<1>4. Succ(map, here) \in 0 .. Len(map.records)
  BY <1>3, NextPlaces
<1>5. /\ f \in FrameType /\ RightPlace(f, Len(map.records)) /\ ~Stands(f)
      /\ f.at = "moved" /\ f.cur = Succ(map, here)
  BY <1>3, <1>4 DEF Frame, FrameType, RightPlace, Stands
<1> HIDE DEF f
<1>6. /\ Mid(w2, Head0) /\ w2.map = map /\ w2.iter = iter /\ Len(w2.stack) = Len(stack)
      /\ Owing(w2, Head0, here) /\ Rest(World, k) = CallRest(map, stack, k)
      /\ k \in DOMAIN SetTop(f) /\ SetTop(f)[k] = f /\ k \in DOMAIN stack /\ stack[k] = Last(stack)
      /\ Turns(World, w2, k, CallRest(map, SetTop(f), k))
  BY <1>1, <1>5, TopSet
<1> HIDE DEF w2, k
<1>7. CallRest(map, SetTop(f), k) = CallRest(map, stack, k)
  <2>1. KeysFrom(map, Succ(map, here)) = Keys(map, here)
    BY <1>3, FromNext DEF Good
  <2> QED
    BY <1>1, <1>5, <1>6, <2>1 DEF CallRest
<1>8. Same(World, w2)
  BY <1>6, <1>7, TurnsBack
<1>9. Balanced(w2, here)
  BY <1>6, BalancedOwing
<1>10. Keeps(w2, Head0, u) /\ Same(w2, u)
  BY <1>3, <1>6, <1>9, Left, LeftView
<1> HIDE DEF u
<1>11. Good(u) /\ Len(u.stack) = Len(w2.stack)
  BY <1>10, KeptGood
<1>12. Same(World, u)
  BY <1>8, <1>10, SameSame
<1> QED
  BY <1>2, <1>3, <1>6, <1>11, <1>12, Closing, SameMoves

LEMMA FreeResultStep ==
  ASSUME IInv, FreeResult
  PROVE  IInv' /\ Moves
<1> DEFINE f == Frame("looking", Last(stack).cur, None)
           w2 == WithStack(World, SetTop(f))
           k == Len(stack)
<1>1. stack # <<>> /\ Last(stack).at = "moved" /\ ~Stands(Last(stack))
  BY DEF FreeResult, InForEach, Stands
<1>2. Becomes(JS_FreeValue(w2, Last(stack).arg))
  <2>1. [World EXCEPT !.stack[Len(stack)] = Frame("looking", @.cur, None)] = w2
    <3>1. [World EXCEPT !.stack[Len(stack)] = Frame("looking", @.cur, None)]
            = [World EXCEPT !.stack[Len(stack)] = Frame("looking", World.stack[Len(stack)].cur, None)]
      BY Zenon
    <3> QED
      BY <1>1, <3>1, TopOf
  <2>2. Becomes(JS_FreeValue([World EXCEPT !.stack[Len(stack)] = Frame("looking", @.cur, None)],
                             Last(stack).arg))
    BY DEF FreeResult
  <2> HIDE DEF w2
  <2> QED
    BY <2>1, <2>2
<1>3. /\ Last(stack) \in FrameType /\ Last(stack).cur \in -1 .. Len(map.records)
      /\ Len(map.records) \in Nat
  BY <1>1, TopPlace
<1>4. /\ f \in FrameType /\ RightPlace(f, Len(map.records)) /\ ~Stands(f)
      /\ f.at = "looking" /\ f.cur = Last(stack).cur
  BY <1>3 DEF Frame, FrameType, RightPlace, Stands, Value
<1> HIDE DEF f
<1>5. Stray(Last(stack)) => Stray(f)
  BY <1>4 DEF Stray, Going
<1>6. /\ Mid(w2, Head0) /\ w2.map = map /\ w2.iter = iter /\ Len(w2.stack) = Len(stack)
      /\ Owing(w2, Head0, Head0) /\ Rest(World, k) = CallRest(map, stack, k)
      /\ k \in DOMAIN SetTop(f) /\ SetTop(f)[k] = f /\ k \in DOMAIN stack /\ stack[k] = Last(stack)
      /\ Turns(World, w2, k, CallRest(map, SetTop(f), k))
  BY <1>1, <1>4, <1>5, TopSet
<1> HIDE DEF w2, k
<1>7. CallRest(map, SetTop(f), k) = CallRest(map, stack, k)
  BY <1>1, <1>4, <1>6 DEF CallRest
<1>8. Same(World, w2)
  BY <1>6, <1>7, TurnsBack
<1>9. Balanced(w2, Head0)
  BY <1>6, Quits
<1> QED
  BY <1>2, <1>6, <1>8, <1>9, FreedThen

(* Behind the last record there is none.                                   *)
LEMMA BehindLast ==
  ASSUME NEW w, NEW d, Sane(w, d)
  PROVE  /\ Keys(w.map, Len(w.map.records)) = {}
         /\ NextRecord(w.map, Len(w.map.records)) = Head0
<1>1. MapTyped(w.map) /\ w.map.records \in Seq(RecordType)
  BY DEF Sane, MapSane, MapTyped
<1>2. {p \in Full(w.map) : p > Len(w.map.records)} = {}
  BY <1>1 DEF Full
<1> QED
  BY <1>2 DEF Keys, NextRecord, Nearest

LEMMA NextEntryStep ==
  ASSUME IInv, NextEntry
  PROVE  IInv' /\ Moves
<1> DEFINE here == Last(stack).cur
           a == IF here = Head0 THEN Len(map.records) ELSE here - 1
           next == NextRecord(map, a)
           f == visit(next)
           w2 == WithStack(World, SetTop(f))
           u == locked(w2, next)
           k == Len(stack)
<1>1. /\ stack # <<>> /\ Last(stack).at = "looking" /\ ~Stands(Last(stack)) /\ ~Stray(Last(stack))
      /\ here # Freed
  BY DEF NextEntry, InForEach, Stands, Stray
<1>2. /\ Last(stack) \in FrameType /\ here \in 0 .. Len(map.records) /\ Len(map.records) \in Nat
      /\ Good(World) /\ Sane(World, Head0) /\ World.map = map /\ Len(stack) <= MaxDepth
  BY <1>1, TopPlace, Opening DEF Freed, Good
<1>3. /\ Keys(map, Len(map.records)) = {} /\ NextRecord(map, Len(map.records)) = Head0
      /\ a \in Int
  <2>1. /\ Keys(World.map, Len(World.map.records)) = {}
        /\ NextRecord(World.map, Len(World.map.records)) = Head0
    BY <1>2, BehindLast
  <2>2. a \in Int
    <3> DEFINE c == here
               n == Len(map.records)
    <3> HIDE DEF c, n
    <3>1. c \in 0 .. n /\ n \in Nat
      BY <1>2 DEF c, n
    <3>2. (IF c = Head0 THEN n ELSE c - 1) \in Int
      BY <3>1
    <3> QED BY <3>2 DEF c, n
  <2> QED BY <1>2, <2>1, <2>2
<1>4. Becomes(u)
  <2>1. next = IF here = Head0 THEN Head0 ELSE NextRecord(map, here - 1)
    BY <1>3
  <2>2. Becomes(locked([World EXCEPT !.stack[Len(stack)] = visit(next)], next))
    BY <2>1 DEF NextEntry
  <2> HIDE DEF next
  <2>3. [World EXCEPT !.stack[Len(stack)] = visit(next)] = w2
    BY TopOf
  <2> HIDE DEF w2
  <2> QED
    BY <2>2, <2>3
<1>5. next \in 0 .. Len(map.records)
  BY <1>2, NextPlaces
<1>6. Keys(map, a) = KeysFrom(map, here)
  BY <1>3 DEF KeysFrom
<1> HIDE DEF a, next
<1>7. f \in FrameType /\ RightPlace(f, Len(map.records)) /\ Stands(f) /\ f.cur = next
  BY <1>5, VisitFrame
<1> HIDE DEF f
<1>8. /\ Mid(w2, Head0) /\ w2.map = map /\ w2.iter = iter /\ Len(w2.stack) = Len(stack)
      /\ Owing(w2, next, Head0) /\ k \in Cursors /\ Rest(World, k) = CallRest(map, stack, k)
      /\ k \in DOMAIN SetTop(f) /\ SetTop(f)[k] = f /\ k \in DOMAIN stack /\ stack[k] = Last(stack)
      /\ Turns(World, w2, k, CallRest(map, SetTop(f), k))
  BY <1>1, <1>7, TopSet
<1> HIDE DEF w2, k
<1>9. Mid(u, Head0) /\ Balanced(u, Head0) /\ u.stack = w2.stack
  BY <1>5, <1>8, Locked
<1>10. Same(w2, u)
  BY <1>5, <1>8, LockedView
<1> HIDE DEF u
<1>11. Good(u) /\ Len(u.stack) <= MaxDepth
  BY <1>2, <1>8, <1>9, GoodMid
<1>12. Rest(World, k) = Keys(map, a)
  BY <1>1, <1>6, <1>8 DEF CallRest
<1>13. CallRest(map, SetTop(f), k) = Onward(map, a)
  <2> DEFINE st == SetTop(f)
  <2>1. st[k] = visit(NextRecord(map, a)) /\ k \in DOMAIN st
    BY <1>8 DEF next, f
  <2> HIDE DEF st
  <2> QED
    BY <2>1, VisitRest DEF st
<1>14. Turns(World, u, k, Onward(map, a))
  BY <1>8, <1>10, <1>13, TurnsSame
<1> QED
  BY <1>3, <1>4, <1>8, <1>11, <1>12, <1>14, Closing, OnwardMoves

LEMMA ForEachThrow ==
  ASSUME IInv, ForEachThrows
  PROVE  IInv' /\ Moves
<1> DEFINE w == World
           here == Last(stack).cur
           st == Front(stack)
           w2 == WithStack(w, st)
           u == left(w2, here)
<1>1. /\ Good(w) /\ Mid(w, Head0) /\ Balanced(w, Head0) /\ w.map = map /\ w.iter = iter /\ w.stack = stack
      /\ stack \in Seq(FrameType) /\ Len(stack) <= MaxDepth /\ Len(stack) \in Nat /\ OnTop(stack)
  BY Opening
<1>2. stack # <<>> /\ Last(stack).at = "thrown" /\ Stands(Last(stack)) /\ ~Going(Last(stack))
  BY DEF ForEachThrows, InForEach, Stands, Going
<1>3. Becomes(u)
  <2>1. [World EXCEPT !.stack = Front(@)] = w2
    <3>1. [World EXCEPT !.stack = Front(@)] = WithStack(World, Front(World.stack))
      BY Zenon DEF WithStack
    <3> QED
      BY <1>1, <3>1
  <2>2. Becomes(left([World EXCEPT !.stack = Front(@)], here))
    BY DEF ForEachThrows
  <2> HIDE DEF w2
  <2> QED
    BY <2>1, <2>2
<1> HIDE DEF w
<1>4. Len(stack) \in DOMAIN stack /\ Last(stack) = stack[Len(stack)]
  BY <1>1, <1>2 DEF Last
<1>5. here \in 0 .. Len(w.map.records)
  BY <1>1, <1>2, <1>4 DEF Good, Sane, Standing
<1>6. /\ st \in Seq(FrameType) /\ AlikeBut(stack, st, Len(stack)) /\ Len(st) = Len(stack) - 1
      /\ Len(stack) \notin DOMAIN st /\ At(st, Len(stack)) = Head0 /\ At(stack, Len(stack)) = here
      /\ OnTop(st)
  BY <1>1, <1>2, Popped
<1> HIDE DEF st
<1>7. /\ Mid(w2, Head0) /\ Owing(w2, At(st, Len(stack)), At(w.stack, Len(stack)))
      /\ w2.map = w.map /\ w2.iter = w.iter /\ w2.stack = st
  BY <1>1, <1>6, StackSet
<1> HIDE DEF w2, here
<1>8. Balanced(w2, here)
  BY <1>1, <1>6, <1>7, BalancedOwing
<1>9. Keeps(w2, Head0, u) /\ Same(w2, u)
  BY <1>1, <1>5, <1>7, <1>8, Left, LeftView
<1> HIDE DEF u
<1>10. Good(u) /\ Len(u.stack) = Len(w2.stack)
  BY <1>9, KeptGood
<1>11. Len(u.stack) <= MaxDepth
  BY <1>1, <1>6, <1>7, <1>10, MapAssumption
<1>12. Moves
  <2> DEFINE k == Len(stack)
  <2>1. k \in 1 .. MaxDepth /\ k \in Cursors
    BY <1>2, Level
  <2>2. Turns(w, w2, k, CallRest(map, st, k))
    BY <1>1, <1>2, <1>4, <1>6, <2>1, StackView DEF Good, w2, Stray
  <2>3. CallRest(map, st, k) = Idle
    BY <1>6 DEF CallRest
  <2> HIDE DEF k
  <2>4. Turns(World, u, k, Idle)
    BY <1>9, <2>2, <2>3, TurnsSame DEF w
  <2> QED
    BY <1>3, <1>10, <2>1, <2>4, LeaveMoves
<1> QED
  BY <1>3, <1>10, <1>11, <1>12, Closing

LEMMA GetStep ==
  ASSUME IInv, NEW i \in Iter, js_map_get(i)
  PROVE  IInv' /\ Moves
<1> DEFINE w == World
           x == [iter[i] EXCEPT !.held = TRUE]
           u == WithIter(w, i, x)
<1>1. /\ Mid(w, Head0) /\ Balanced(w, Head0) /\ w.map = map /\ w.iter = iter /\ w.stack = stack
      /\ Len(stack) <= MaxDepth /\ iter \in [Iter -> IterType]
  BY Opening
<1>2. /\ iter[i] \in IterType /\ (iter[i].state = "none" => iter[i].cur = Head0)
  BY IterOf
<1>3. x \in IterType /\ x.cur = iter[i].cur /\ x.state = iter[i].state
  BY <1>2 DEF IterType
<1>4. iter' = [iter EXCEPT ![i] = x] /\ map' = map /\ stack' = stack
  BY DEF js_map_get
<1>5. u.iter = [iter EXCEPT ![i] = x] /\ u.map = map /\ u.stack = stack
  BY <1>1 DEF WithIter, World
<1> HIDE DEF w, x
<1>6. Mid(u, Head0) /\ Balanced(u, Head0)
  BY <1>1, <1>2, <1>3, IterStays
<1> HIDE DEF u
<1>7. Becomes(u) /\ Good(u)
  BY <1>4, <1>5, <1>6, GoodMid DEF Becomes
<1>8. Same(World, u)
  <2>1. Turns(w, u, i, IterRest(map, x)) /\ Rest(w, i) = IterRest(map, iter[i])
    BY <1>1, <1>3, IterView DEF Mid, u, Rest
  <2>2. IterRest(map, x) = IterRest(map, iter[i])
    <3>1. iter[i].state \in {"none", "on", "done"}
      BY <1>2 DEF IterType
    <3> QED
      BY <1>3, <3>1 DEF IterRest
  <2> QED
    BY <2>1, <2>2, TurnsBack DEF w
<1> QED
  BY <1>1, <1>5, <1>7, <1>8, Closing, SameMoves

LEMMA CreateStep ==
  ASSUME IInv, NEW i \in Iter, js_create_map_iterator(i)
  PROVE  IInv' /\ Moves
<1> DEFINE w == World
           x == [state |-> "on", cur |-> Head0, held |-> TRUE]
           u == WithIter(w, i, x)
<1>1. /\ Mid(w, Head0) /\ Balanced(w, Head0) /\ w.map = map /\ w.iter = iter /\ w.stack = stack
      /\ Len(stack) <= MaxDepth /\ iter \in [Iter -> IterType]
  BY Opening
<1>2. iter[i].cur = Head0 /\ iter' = [iter EXCEPT ![i] = x] /\ map' = map /\ stack' = stack
  BY IterOf DEF js_create_map_iterator
<1>3. x \in IterType /\ x.cur = iter[i].cur /\ x.state # "none"
  BY <1>2 DEF IterType, Head0
<1>4. u.iter = [iter EXCEPT ![i] = x] /\ u.map = map /\ u.stack = stack
  BY <1>1 DEF WithIter, World
<1> HIDE DEF w, x
<1>5. Mid(u, Head0) /\ Balanced(u, Head0)
  BY <1>1, <1>3, IterStays
<1> HIDE DEF u
<1>6. Becomes(u) /\ Good(u)
  BY <1>2, <1>4, <1>5, GoodMid DEF Becomes
<1>7. Moves
  <2>1. Turns(w, u, i, IterRest(map, x)) /\ Rest(w, i) = IterRest(map, iter[i]) /\ i \in Cursors
    BY <1>1, <1>3, IterView DEF Mid, u, Rest, Cursors
  <2>2. IterRest(map, x) = Keys(map, Head0)
    BY DEF IterRest, x
  <2>3. IterRest(map, iter[i]) = Idle
    BY DEF IterRest, js_create_map_iterator
  <2>4. Turns(World, u, i, Keys(map, Head0)) /\ Rest(World, i) = Idle
    BY <2>1, <2>2, <2>3 DEF w
  <2> QED
    BY <1>6, <2>1, <2>4, BeginMoves
<1> QED
  BY <1>1, <1>4, <1>6, <1>7, Closing

LEMMA DropStep ==
  ASSUME IInv, NEW i \in Iter, DropIterator(i)
  PROVE  IInv' /\ Moves
<1> DEFINE w == World
           x == [iter[i] EXCEPT !.held = FALSE]
           w2 == WithIter(w, i, x)
           u == JS_FreeValue(w2, i)
<1>1. /\ Mid(w, Head0) /\ Balanced(w, Head0) /\ w.map = map /\ w.iter = iter /\ w.stack = stack
      /\ Len(stack) <= MaxDepth
  BY Opening
<1>2. /\ iter[i] \in IterType /\ (iter[i].state = "none" => iter[i].cur = Head0)
  BY IterOf
<1>3. x \in IterType /\ x.cur = iter[i].cur /\ x.state = iter[i].state
  BY <1>2 DEF IterType
<1>4. Becomes(u)
  <2>1. [World EXCEPT !.iter[i].held = FALSE] = w2
    <3>1. [World EXCEPT !.iter[i].held = FALSE] = WithIter(World, i, [World.iter[i] EXCEPT !.held = FALSE])
      BY Zenon DEF WithIter
    <3> QED
      BY <1>1, <3>1
  <2>2. Becomes(JS_FreeValue([World EXCEPT !.iter[i].held = FALSE], i))
    BY DEF DropIterator
  <2> HIDE DEF w2
  <2> QED
    BY <2>1, <2>2
<1> HIDE DEF w, x
<1>5. Mid(w2, Head0) /\ Balanced(w2, Head0) /\ w2.stack = stack
  BY <1>1, <1>2, <1>3, IterStays
<1>8. Same(World, w2)
  <2>1. Turns(w, w2, i, IterRest(map, x)) /\ Rest(w, i) = IterRest(map, iter[i])
    BY <1>1, <1>3, IterView DEF Mid, Rest
  <2>2. IterRest(map, x) = IterRest(map, iter[i])
    <3>1. iter[i].state \in {"none", "on", "done"}
      BY <1>2 DEF IterType
    <3> QED
      BY <1>3, <3>1 DEF IterRest
  <2> QED
    BY <2>1, <2>2, TurnsBack DEF w
<1> HIDE DEF w2
<1>6. Keeps(w2, Head0, u) /\ Drops(w2, u, i)
  BY <1>5, FreedValue, FreedView
<1> HIDE DEF u
<1>7. Good(u) /\ Len(u.stack) = Len(w2.stack)
  BY <1>6, KeptGood
<1> QED
  BY <1>1, <1>4, <1>5, <1>6, <1>7, <1>8, Closing, DropMoves

LEMMA IteratorStep ==
  ASSUME IInv, NEW i \in Iter, js_map_iterator_next(i)
  PROVE  IInv' /\ Moves
<1> DEFINE w == World
           here == iter[i].cur
           next == NextRecord(map, here)
           to == IF next = Head0 THEN "done" ELSE "on"
           x == [[iter[i] EXCEPT !.cur = next] EXCEPT !.state = to]
           w2 == WithIter(w, i, x)
           w3 == locked(w2, next)
           u == left(w3, here)
<1>1. /\ Good(w) /\ Mid(w, Head0) /\ Balanced(w, Head0) /\ w.map = map /\ w.iter = iter /\ w.stack = stack
      /\ Len(stack) <= MaxDepth /\ iter \in [Iter -> IterType]
  BY Opening
<1>2. iter[i] \in IterType /\ here \in 0 .. Len(map.records)
  BY IterOf
<1>3. Becomes(u)
  <2>1. [World EXCEPT !.iter[i].cur = next, !.iter[i].state = to] = w2
    <3> DEFINE e == WithIter(World, i, [World.iter[i] EXCEPT !.cur = next])
    <3>1. [World EXCEPT !.iter[i].cur = next, !.iter[i].state = to]
            = WithIter(e, i, [e.iter[i] EXCEPT !.state = to])
      BY Zenon DEF WithIter
    <3>2. e.iter[i] = [iter[i] EXCEPT !.cur = next] /\ e.map = map /\ e.stack = stack
          /\ e.iter = [iter EXCEPT ![i] = [iter[i] EXCEPT !.cur = next]] /\ IsWorld(e)
      BY <1>1 DEF WithIter, World, IsWorld
    <3> HIDE DEF e, next, to
    <3>3. WithIter(e, i, x) = [map |-> map, iter |-> [iter EXCEPT ![i] = x], stack |-> stack]
      <4>1. [e.iter EXCEPT ![i] = x] = [iter EXCEPT ![i] = x]
        BY <1>1, <3>2
      <4> HIDE DEF x
      <4>2. WithIter(e, i, x) = [map |-> e.map, iter |-> [e.iter EXCEPT ![i] = x], stack |-> e.stack]
        BY <3>2 DEF WithIter, IsWorld
      <4> QED
        BY <3>2, <4>1, <4>2
    <3>4. w2 = [map |-> map, iter |-> [iter EXCEPT ![i] = x], stack |-> stack]
      <4> HIDE DEF x
      <4> QED
        BY DEF WithIter, World
    <3> QED
      BY <3>1, <3>2, <3>3, <3>4
  <2>2. Becomes(left(locked([World EXCEPT !.iter[i].cur = next, !.iter[i].state = to], next), here))
    BY DEF js_map_iterator_next
  <2> HIDE DEF w2
  <2> QED
    BY <2>1, <2>2
<1> HIDE DEF w
<1>4. next \in 0 .. Len(w.map.records) /\ Len(w.map.records) \in Nat
  BY <1>1, NextPlaces DEF Good, Sane, MapSane, MapTyped
<1> HIDE DEF next
<1>5. x \in IterType /\ x.cur = next /\ x.state # "none"
  <2>1. next \in Nat /\ to \in {"done", "on"}
    BY <1>4
  <2> HIDE DEF to
  <2>2. [iter[i] EXCEPT !.cur = next] \in IterType
    BY <1>2, <2>1 DEF IterType
  <2>3. x \in IterType /\ x.cur = next /\ x.state = to
    BY <1>2, <2>1, <2>2 DEF IterType
  <2> QED
    BY <2>1, <2>3
<1>11. x.cur = next /\ x.state = IF next = Head0 THEN "done" ELSE "on"
  BY <1>2 DEF IterType
<1> HIDE DEF x
<1>6. Mid(w2, Head0) /\ Owing(w2, x.cur, w.iter[i].cur) /\ w2.map = w.map /\ w2.stack = w.stack
  BY <1>1, <1>4, <1>5, IterSet
<1> HIDE DEF w2, here
<1>7. /\ Mid(w3, Head0) /\ Balanced(w3, here) /\ w3.stack = w2.stack
      /\ Len(w3.map.records) = Len(w2.map.records)
  <2>1. Mid(w2, Head0) /\ Owing(w2, next, here) /\ next \in 0 .. Len(w2.map.records)
    BY <1>1, <1>4, <1>5, <1>6 DEF here
  <2> QED
    BY <2>1, Locked
<1> HIDE DEF w3
<1>8. Keeps(w3, Head0, u) /\ Same(w3, u)
  BY <1>1, <1>2, <1>6, <1>7, Left, LeftView DEF here
<1> HIDE DEF u
<1>9. Good(u) /\ Len(u.stack) = Len(w3.stack)
  BY <1>8, KeptGood
<1>10. Moves
  <2>1. Turns(w, w2, i, IterRest(map, x)) /\ Rest(w, i) = IterRest(map, iter[i]) /\ i \in Cursors
    BY <1>1, <1>5, IterView DEF Mid, w2, Rest, Cursors
  <2>2. Same(w2, w3)
    BY <1>4, <1>6, LockedView DEF w3
  <2>3. IterRest(map, iter[i]) = Keys(map, here) /\ here \in Int
    <3>1. iter[i].state = "on"
      BY DEF js_map_iterator_next
    <3>2. here \in Nat
      BY <1>2 DEF IterType, here
    <3> QED
      BY <3>1, <3>2 DEF IterRest, here
  <2>4. IterRest(map, x) = Onward(map, here)
    <3>1. x.cur = next /\ x.state = IF next = Head0 THEN "done" ELSE "on"
      BY <1>11
    <3> QED
      BY <3>1 DEF IterRest, Onward, next
  <2>5. Turns(World, u, i, Onward(map, here)) /\ Rest(World, i) = Keys(map, here)
    BY <1>8, <2>1, <2>2, <2>3, <2>4, TurnsSame DEF w
  <2> QED
    BY <1>3, <1>9, <2>1, <2>3, <2>5, OnwardMoves
<1> QED
  BY <1>1, <1>3, <1>6, <1>7, <1>9, <1>10, Closing

LEMMA Starts ==
  ASSUME Init
  PROVE  IInv
<1>1. World = [map |-> NewMap, iter |-> [i \in Iter |-> NoIter], stack |-> <<>>] /\ Len(stack) = 0
  BY DEF Init, World
<1> QED
  BY <1>1, EmptyGood, MapAssumption DEF IInv

LEMMA FinalizerStep ==
  ASSUME IInv, js_map_finalizer
  PROVE  IInv' /\ Moves
<1> DEFINE u == [map |-> NewMap, iter |-> [i \in Iter |-> NoIter], stack |-> <<>>]
<1>1. Becomes(u) /\ u.stack = <<>>
  BY DEF js_map_finalizer, Becomes
<1>2. Good(u) /\ Len(u.stack) <= MaxDepth
  BY <1>1, EmptyGood, MapAssumption
<1>3. Moves
  BY <1>1, ForgetRefines, MovesBy
<1> HIDE DEF u
<1> QED
  BY <1>1, <1>2, <1>3, Closing

LEMMA Steps ==
  ASSUME IInv, [Next]_vars
  PROVE  IInv' /\ Moves
<1>1. CASE UNCHANGED vars
  <2>1. IInv'
    BY <1>1 DEF vars, IInv, World
  <2>2. Values' = Values /\ Order(map)' = Order(map) /\ Rests' = Rests
    BY <1>1 DEF vars, Values, Rests, World
  <2> QED
    BY <2>1, <2>2, Stutter, MovesBy
<1>2. CASE Next
  <2>1. ASSUME NEW k \in Key, js_map_delete(k) PROVE IInv' /\ Moves
    BY <2>1, DeleteStep
  <2>2. ASSUME NEW k \in Key, NEW v \in Value, js_map_set(k, v) PROVE IInv' /\ Moves
    BY <2>2, SetStep
  <2>3. CASE js_map_clear
    BY <2>3, ClearStarts
  <2>4. CASE ClearStep
    BY <2>4, ClearAdvances
  <2>5. CASE ClearEnds
    BY <2>5, ClearEnd
  <2>6. CASE js_map_forEach
    BY <2>6, ForEachStarts
  <2>7. ASSUME NEW v \in Value, CallbackReturns(v) PROVE IInv' /\ Moves
    BY <2>7, CallbackReturnsStep
  <2>16. CASE CallbackThrows
    BY <2>16, CallbackThrowsStep
  <2>17. CASE TakeNext
    BY <2>17, TakeNextStep
  <2>18. CASE FreeResult
    BY <2>18, FreeResultStep
  <2>8. CASE NextEntry
    BY <2>8, NextEntryStep
  <2>9. CASE ForEachThrows
    BY <2>9, ForEachThrow
  <2>10. CASE ForEachEnds
    BY <2>10, ForEachEnd
  <2>11. ASSUME NEW i \in Iter, js_map_get(i) PROVE IInv' /\ Moves
    BY <2>11, GetStep
  <2>12. ASSUME NEW i \in Iter, js_create_map_iterator(i) PROVE IInv' /\ Moves
    BY <2>12, CreateStep
  <2>13. ASSUME NEW i \in Iter, js_map_iterator_next(i) PROVE IInv' /\ Moves
    BY <2>13, IteratorStep
  <2>14. ASSUME NEW i \in Iter, DropIterator(i) PROVE IInv' /\ Moves
    BY <2>14, DropStep
  <2>15. CASE js_map_finalizer
    BY <2>15, FinalizerStep
  <2> QED
    BY <1>2, <2>1, <2>2, <2>3, <2>4, <2>5, <2>6, <2>7, <2>8, <2>9, <2>10, <2>11, <2>12, <2>13,
       <2>14, <2>15, <2>16, <2>17, <2>18 DEF Next
<1> QED
  BY <1>1, <1>2

-----------------------------------------------------------------------------
(* What follows from the invariant.                                        *)

LEMMA InvCounts ==
  ASSUME IInv
  PROVE  CountsExact
<1>1. /\ Good(World) /\ Mid(World, Head0) /\ Balanced(World, Head0) /\ World.map = map
      /\ World.iter = iter /\ World.stack = stack /\ stack \in Seq(FrameType)
  BY Opening
<1>2. Visits(iter, stack, Freed) = 0
  <2>1. Enumerating(iter, Freed) = {}
    BY IterOf DEF Enumerating, Freed
  <2>2. Calling(stack, Freed) = {}
    BY <1>1 DEF Calling, Freed, Good, Sane, Standing
  <2> QED
    BY <2>1, <2>2, FS_EmptySet DEF Visits
<1>3. ASSUME NEW r \in DOMAIN map.records
      PROVE  map.records[r].ref_count = Visits(iter, stack, r) + (IF map.records[r].empty THEN 0 ELSE 1)
  <2>1. map.records[r].ref_count
          = Visits(iter, stack, r) + OneIf(~map.records[r].empty) + OneIf(r = Head0)
    BY <1>1 DEF Balanced, Exact
  <2>2. r # Head0 /\ Visits(iter, stack, r) \in Nat
    BY <1>1, Settled
  <2> QED
    BY <2>1, <2>2 DEF OneIf
<1> QED
  BY <1>2, <1>3 DEF CountsExact, Visits, Enumerating, Calling

LEMMA InvTable ==
  ASSUME IInv
  PROVE  TableComplete
<1>1. Good(World) /\ World.map = map
  BY Opening
<1>2. /\ map.count = Cardinality(Full(map)) /\ map.table = TableBut(map, Head0) /\ MapTyped(map)
      /\ map.records \in Seq(RecordType) /\ map.hash_size \in Nat \ {0}
      /\ \A p \in DOMAIN map.records : map.records[p].empty <=> map.records[p].key = None
      /\ \A p, q \in Full(map) : map.records[p].key = map.records[q].key => p = q
  BY <1>1 DEF Good, Sane, MapSane, Counted, MapTyped, KeysGood
<1>3. \A r \in Full(map) : map.records[r].key \in Key
  <2>1. ASSUME NEW r \in Full(map)
        PROVE  map.records[r].key \in Key
    <3>1. r \in DOMAIN map.records /\ ~map.records[r].empty
      BY DEF Full
    <3>2. map.records[r] \in RecordType /\ map.records[r].key # None
      BY <1>2, <3>1
    <3> QED
      BY <3>2 DEF RecordType
  <2> QED
    BY <2>1
<1>4. ASSUME NEW r \in Full(map)
      PROVE  map_find_record(map, map.records[r].key) = r
  <2> DEFINE k == map.records[r].key
             f == map_find_record(map, k)
  <2>1. k \in Key
    BY <1>3
  <2> HIDE DEF k
  <2>2. (f = Head0 => \A p \in Full(map) : map.records[p].key # k)
        /\ (f # Head0 => f \in Full(map) /\ map.records[f].key = k)
    BY <1>1, <2>1, Found
  <2> HIDE DEF f
  <2>3. f = r
    BY <1>2, <2>2 DEF k
  <2> QED
    BY <2>3 DEF f, k
<1>5. UNION {map.table[h] : h \in DOMAIN map.table} = Full(map)
  <2>1. DOMAIN map.table = 0 .. map.hash_size - 1
    BY <1>2 DEF TableBut
  <2>2. \A h \in DOMAIN map.table : map.table[h]
          = {p \in Full(map) \ {Head0} : Bucket(map.records[p].key, map.hash_size) = h}
    BY <1>2, <2>1 DEF TableBut
  <2>3. ASSUME NEW p \in Full(map)
        PROVE  Bucket(map.records[p].key, map.hash_size) \in DOMAIN map.table /\ p # Head0
    <3>1. Hash[map.records[p].key] \in Nat
      BY <1>3, MapAssumption
    <3>2. Hash[map.records[p].key] % map.hash_size \in 0 .. map.hash_size - 1
      BY <1>2, <3>1, Remainder
    <3>3. p # Head0
      BY <1>2 DEF Full, Head0
    <3> QED
      BY <2>1, <3>2, <3>3 DEF Bucket
  <2>4. ASSUME NEW p \in Full(map)
        PROVE  \E h \in DOMAIN map.table : p \in map.table[h]
    BY <2>2, <2>3
  <2> QED
    BY <2>2, <2>4
<1> QED
  BY <1>2, <1>4, <1>5 DEF TableComplete

LEMMA InvTyped ==
  ASSUME IInv
  PROVE  TypeOK
<1>1. /\ Good(World) /\ World.map = map /\ World.iter = iter /\ World.stack = stack
      /\ stack \in Seq(FrameType) /\ iter \in [Iter -> IterType] /\ map.records \in Seq(RecordType)
      /\ Len(stack) <= MaxDepth
  BY Opening
<1>2. map.records \in Seq([key : Key \cup {None}, value : Value, empty : BOOLEAN, ref_count : Nat \ {0}])
  BY <1>1 DEF RecordType
<1>3. \A h \in DOMAIN map.table : map.table[h] \subseteq DOMAIN map.records
  BY <1>1 DEF Good, Sane, MapSane, TableBut, Full
<1>4. \A i \in Iter : iter[i].state \in {"none", "on", "done"} /\ iter[i].held \in BOOLEAN
  BY <1>1 DEF IterType
<1>5. \A j \in DOMAIN stack : /\ stack[j].at \in {"callback", "returned", "moved", "looking", "thrown",
                                                 "ended", "clear"}
                              /\ stack[j].arg \in Value
  <2>1. ASSUME NEW j \in DOMAIN stack
        PROVE  stack[j] \in FrameType
    BY <1>1
  <2> QED
    BY <2>1 DEF FrameType
<1> QED
  BY <1>1, <1>2, <1>3, <1>4, <1>5 DEF TypeOK

LEMMA Always == Spec => []IInv
<1>1. IInv /\ [Next]_vars => IInv'
  BY Steps
<1> QED
  BY <1>1, Starts, PTL DEF Spec

(* Maps, iterators and the calls in progress are well formed.              *)
THEOREM RecordsTyped == Spec => []TypeOK
BY Always, InvTyped, PTL

(* The counts of the records, the hash table and "size" are exact.         *)
THEOREM RecordsSound == Spec => []RecordsCounted
<1>1. IInv => RecordsCounted
  BY InvCounts, InvTable DEF RecordsCounted
<1> QED
  BY <1>1, Always, PTL

(* PROPERTY: a program that changes a map while it enumerates it visits    *)
(* every entry once, in the order of insertion, with those added meanwhile *)
(* and without those deleted, whatever zombies are in the list and         *)
(* whichever iterators go with the values that are freed, unless one takes *)
(* the record away that a forEach has taken as its next.                   *)
THEOREM MapsKeepTheirPromise == Spec => ImplementsMapEntries
<1>1. Init => IInv /\ Entries!Init
  BY Starts, InitRefines
<1>2. IInv /\ [Next]_vars => IInv' /\ [Entries!Next \/ Astray']_(Entries!vars)
  BY Steps DEF Moves
<1> QED
  BY <1>1, <1>2, PTL DEF Spec, ImplementsMapEntries
=============================================================================
