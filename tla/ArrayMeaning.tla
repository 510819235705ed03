---------------------------- MODULE ArrayMeaning ----------------------------
(* What the methods of arrays mean, each as one change of the array and an *)
(* answer: a has its own elements (a function from indices), others that   *)
(* it inherits (above) and a length; len is the length that the method     *)
(* works with.                                                             *)
EXTENDS Integers, Sequences, FiniteSets
LOCAL INSTANCE SequencesExt
LOCAL INSTANCE FiniteSetsExt

Has(a, k) == k \in DOMAIN a.own \cup DOMAIN a.above
Get(a, k) == IF k \in DOMAIN a.own THEN a.own[k] ELSE IF k \in DOMAIN a.above THEN a.above[k] ELSE 0

(* The places k of some set where the array has the element at From(k).    *)
Moved(a, places, From(_)) ==
  LET there == {k \in places : Has(a, From(k))} IN [k \in there |-> Get(a, From(k))]

(* In a region the own elements are those of f, elsewhere what they were.  *)
Rewritten(a, region, f, n) ==
  [own |-> [k \in {x \in (DOMAIN a.own \ region) \cup DOMAIN f : x < n} |->
              IF k \in DOMAIN f THEN f[k] ELSE a.own[k]],
   len |-> n]
Same(a) == [own |-> a.own, len |-> a.len]

Larger(x, y) == IF x > y THEN x ELSE y
Smaller(x, y) == IF x < y THEN x ELSE y

(* An index counted from the end, or past it, is brought between 0 and len *)
Place(v, len) == IF v < 0 THEN Larger(len + v, 0) ELSE Smaller(v, len)
PlaceOf(args, i, len, default) == IF i > Len(args) THEN default ELSE Place(args[i], len)

Part(a, start, count) ==
  LET From(k) == k + start IN [own |-> Moved(a, 0 .. count - 1, From), len |-> Larger(count, 0)]

Splice(a, len, start, gone, items) ==
  LET shift == Len(items) - gone
      new_len == len + shift
      From(k) == k - shift
      tail == Moved(a, start + Len(items) .. new_len - 1, From)
      put == [k \in start .. start + Len(items) - 1 |-> items[k - start + 1]]
      moved == IF shift = 0 THEN {} ELSE start + Len(items) .. Larger(len, new_len) - 1
      f == [k \in DOMAIN put \cup (DOMAIN tail \cap moved) |-> IF k \in DOMAIN put THEN put[k] ELSE tail[k]]
  IN Rewritten(a, DOMAIN put \cup moved, f, new_len)

Reversed(a, len) ==
  LET places == {k \in 0 .. len - 1 : k # len - k - 1}
      From(k) == len - k - 1
  IN Rewritten(a, places, Moved(a, places, From), Larger(a.len, len))

Lengths(a, f) == UNION {{a.len}, {k + 1 : k \in DOMAIN f}}

Fill(a, start, end, v) ==
  LET f == [k \in start .. end - 1 |-> v] IN Rewritten(a, DOMAIN f, f, Max(Lengths(a, f)))

CopyWithin(a, to, from, count) ==
  LET places == to .. to + count - 1
      From(k) == k - to + from
      f == Moved(a, places, From)
  IN Rewritten(a, places, f, Max(Lengths(a, f)))

(* Numbers that are not what they look like: the two zeros are equal,      *)
(* except as the same value; NaN is equal to nothing, only the same as     *)
(* itself.                                                                 *)
NaN == 90
PlusZero == 91
MinusZero == 92
Magnitude(x) == IF x = MinusZero THEN PlusZero ELSE x
SameValueZero(x, y) == Magnitude(x) = Magnitude(y)
StrictlyEqual(x, y) == SameValueZero(x, y) /\ x # NaN

FirstOf(S) == IF S = {} THEN -1 ELSE Min(S)
LastOf(S) == IF S = {} THEN -1 ELSE Max(S)
Equal(a, range, v) == {k \in range : Has(a, k) /\ StrictlyEqual(Get(a, k), v)}

(* Arrays one behind the other.                                            *)
Ends(arrays, n) == FoldLeft(LAMBDA x, b : x + b.len, 0, SubSeq(arrays, 1, n))
Concat(arrays) ==
  LET total == Ends(arrays, Len(arrays))
      part(k) == CHOOSE n \in DOMAIN arrays : Ends(arrays, n - 1) <= k /\ k < Ends(arrays, n)
      local(k) == k - Ends(arrays, part(k) - 1)
      there == {k \in 0 .. total - 1 : Has(arrays[part(k)], local(k))}
  IN [own |-> [k \in there |-> Get(arrays[part(k)], local(k))], len |-> total]

(* The elements that are there, in order; those of inner arrays in place   *)
(* of the number of the array.                                             *)
Elements(a) == LET there == SetToSortSeq({k \in 0 .. a.len - 1 : Has(a, k)}, <)
               IN [i \in DOMAIN there |-> Get(a, there[i])]
Flattened(seq, inner) ==
  FlattenSeq([i \in DOMAIN seq |-> IF seq[i] \in DOMAIN inner THEN Elements(inner[seq[i]]) ELSE <<seq[i]>>])
Flat(a, depth, inner) ==
  LET seq == FoldLeft(LAMBDA s, i : Flattened(s, inner), Elements(a), [i \in 1 .. depth |-> i])
  IN [own |-> [k \in 0 .. Len(seq) - 1 |-> seq[k + 1]], len |-> Len(seq)]

(* Sorted: a table of the same elements in which none is before a smaller  *)
(* one and, where the order is stable, equal ones keep theirs.             *)
Permuted(t, slots) == DOMAIN t = DOMAIN slots /\ {t[i] : i \in DOMAIN t} = {slots[i] : i \in DOMAIN t}
SortedBy(t, table, stable) ==
  \A i, j \in DOMAIN t : i < j =>
    IF t[i].val = t[j].val \/ table[<<t[i].val, t[j].val>>] = 0 THEN stable => t[i].pos < t[j].pos
    ELSE table[<<t[i].val, t[j].val>>] < 0
=============================================================================
