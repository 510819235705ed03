----------------------------- MODULE MapRecords -----------------------------
(***************************************************************************)
(* The records of a Map or a Set, its hash table and its iterators         *)
(* (quickjs.c, JSMapState).                                                *)
(*                                                                         *)
(* Records are linked in the order of insertion.  An iterator and a call   *)
(* of forEach hold a count on the record they stand on; a record deleted   *)
(* meanwhile stays linked as a zombie, "empty", until that count is gone.  *)
(* The value of a record may be an iterator of the same map, and an        *)
(* iterator is finalized when the last reference to it goes, which may be  *)
(* in the middle of an operation on the map.                               *)
(*                                                                         *)
(* A record is named by its place in the list: when one is unlinked, those *)
(* behind it move up, and what still pointed to it points to no record.    *)
(*                                                                         *)
(* "stack" holds the calls of forEach and clear in progress.  Program code *)
(* runs at the top level and in the callbacks of forEach; none runs while  *)
(* clear goes through the list.                                            *)
(*                                                                         *)
(* Between two records forEach, and clear all the time, only point to the  *)
(* record that comes next: no count keeps it, and a value that is freed    *)
(* then may be an iterator that takes it away.  What the code does from    *)
(* there with freed memory is undefined, and the model stops.              *)
(***************************************************************************)
EXTENDS Integers, FiniteSets, SequencesExt

CONSTANTS
  Key,
  Hash,        \* map_hash_key of each key
  Iter,        \* iterator objects
  None,        \* JS_UNDEFINED
  MaxDepth,    \* bound on the calls of forEach and clear that are nested
  Threshold,   \* record_count_threshold of a new map; the code has 4
  NoValue, Idle, Done   \* see MapEntries

ASSUME MapAssumption ==
  /\ IsFiniteSet(Key) /\ IsFiniteSet(Iter) /\ Hash \in [Key -> Nat] /\ None \notin Key \cup Iter
  /\ MaxDepth \in Nat /\ Threshold \in Nat \ {0} /\ Iter \cap 1 .. MaxDepth = {}
  /\ NoValue \notin Iter \cup {None} /\ Idle # Done /\ \A S \in SUBSET Key : S \notin {Idle, Done}

VARIABLES
  map,     \* JSMapState
  iter,    \* the iterators: JSMapIteratorData, and whether the program has them
  stack    \* calls of forEach and clear, each with the record it stands on

vars == <<map, iter, stack>>

Head0 == 0          \* &s->records: before the first record and after the last
Freed == -1         \* what is left of a pointer to a record that was freed
Value == {None} \cup Iter

NoIter == [state |-> "none", cur |-> Head0, held |-> FALSE]

NewMap == [records |-> <<>>, hash_size |-> 1, table |-> [h \in {0} |-> {}],
           count |-> 0, threshold |-> Threshold]

InCode == stack # <<>> => Last(stack).at = "callback"

World == [map |-> map, iter |-> iter, stack |-> stack]
Becomes(w) == map' = w.map /\ iter' = w.iter /\ stack' = w.stack

-----------------------------------------------------------------------------
(* Lists and the hash table.                                               *)

Full(m) == {p \in DOMAIN m.records : ~m.records[p].empty}

Nearest(places) == IF places = {} THEN Head0 ELSE Min(places)

(* link.next of a record, and the next one that is not a zombie.           *)
Succ(m, r) == Nearest({p \in DOMAIN m.records : p > r})
NextRecord(m, r) == Nearest({p \in Full(m) : p > r})

(* map_find_record, in the bucket of the key.                              *)
map_find_record(m, k) ==
  Nearest({p \in m.table[Hash[k] % m.hash_size] : m.records[p].key = k})

Bucket(k, size) == Hash[k] % size          \* & (hash_size - 1)

(* map_hash_resize: the records that are not zombies are linked anew.      *)
map_hash_resize(m) ==
  LET size == IF m.hash_size = 1 THEN 4 ELSE m.hash_size * 2 IN
  [m EXCEPT !.hash_size = size, !.threshold = 2 * size,
            !.table = [h \in 0 .. size - 1 |->
                         {p \in Full(m) : Bucket(m.records[p].key, size) = h}]]

(* Slip: list_add in place of list_add_tail. *)
Slip_AddAtHead(m, k, v) ==
  [m EXCEPT !.records = <<[key |-> k, value |-> v, empty |-> FALSE, ref_count |-> 1]>> \o @,
            !.table = [h \in DOMAIN @ |-> {p + 1 : p \in @[h]} \cup
                                           (IF Hash[k] % m.hash_size = h THEN {1} ELSE {})],
            !.count = @ + 1]

map_add_record(m, k, v) ==
  [m EXCEPT !.records = Append(@, [key |-> k, value |-> v, empty |-> FALSE, ref_count |-> 1]),
            !.table[Hash[k] % m.hash_size] = @ \cup {Len(m.records) + 1},
            !.count = @ + 1]

(* list_del and js_free_rt. *)
Unlink(w, r) ==
  LET at(p) == IF p > r THEN p - 1 ELSE IF p = r THEN Freed ELSE p IN
  [map   |-> [w.map EXCEPT !.records = RemoveAt(@, r),
                           !.table = [h \in DOMAIN @ |-> {at(p) : p \in @[h]}]],
   iter  |-> [i \in Iter |-> [w.iter[i] EXCEPT !.cur = at(@)]],
   stack |-> [j \in DOMAIN w.stack |-> [w.stack[j] EXCEPT !.cur = at(@)]]]

map_decref_record(w, r) ==
  IF w.map.records[r].ref_count = 1
    THEN Unlink(w, r)
    ELSE [w EXCEPT !.map.records[r].ref_count = @ - 1]

-----------------------------------------------------------------------------
(* Values.  An iterator is referred to by the program, by records and by   *)
(* the arguments of callbacks.                                             *)

Owned(w, i) ==
  \/ w.iter[i].held
  \/ \E p \in DOMAIN w.map.records : w.map.records[p].value = i
  \/ \E j \in DOMAIN w.stack : w.stack[j].arg = i

(* js_map_iterator_finalizer: the map is alive, for the iterator owned it. *)
js_map_iterator_finalizer(w, i) ==
  LET gone == [w EXCEPT !.iter[i] = NoIter] IN
  IF w.iter[i].cur = Head0 THEN gone ELSE map_decref_record(gone, w.iter[i].cur)

(* JS_FreeValue, once v is no longer where it was. *)
JS_FreeValue(w, v) ==
  IF v \in Iter /\ ~Owned(w, v) THEN js_map_iterator_finalizer(w, v) ELSE w

-----------------------------------------------------------------------------
(* Slip: the record is freed, whoever stands on it. *)
Slip_NoZombie(w, r) == Unlink(w, r)

(* The list gives up its count: the record is freed, or becomes a zombie. *)
release(w, r) ==
  IF w.map.records[r].ref_count = 1
    THEN Unlink(w, r)
    ELSE [w EXCEPT !.map.records[r] =
                     [key |-> None, value |-> None, empty |-> TRUE, ref_count |-> @.ref_count - 1]]

(* map_delete_record: the value goes first, with all that it owns, which   *)
(* can be records before this one in the list.                             *)
map_delete_record(w, r) ==
  LET record == w.map.records[r]
      freed == JS_FreeValue([w EXCEPT !.map.table[Hash[record.key] % w.map.hash_size] = @ \ {r},
                                      !.map.records[r].value = None], record.value)
      place == CHOOSE p \in DOMAIN freed.map.records : freed.map.records[p].key = record.key
  IN IF record.empty THEN w ELSE [release(freed, place) EXCEPT !.map.count = @ - 1]

-----------------------------------------------------------------------------
(* What the program does.                                                  *)

(* Map.prototype.set and Set.prototype.add; there may be no memory for a   *)
(* larger table.                                                           *)
js_map_set(k, v) ==
  LET r == map_find_record(map, k)
      added == map_add_record(map, k, v)
  IN
  /\ InCode
  /\ v \in Iter => iter[v].held
  /\ IF r # Head0
       THEN Becomes(JS_FreeValue([World EXCEPT !.map.records[r].value = v],
                                 map.records[r].value))
       ELSE /\ map' \in IF added.count >= added.threshold
                           THEN {added, map_hash_resize(added)} ELSE {added}
            /\ UNCHANGED <<iter, stack>>

(* Map.prototype.get gives the program an iterator, and so do a step of an *)
(* iterator and the arguments of a callback.                               *)
js_map_get(i) ==
  /\ InCode
  /\ \/ \E k \in Key : LET r == map_find_record(map, k) IN
                         r # Head0 /\ map.records[r].value = i
     \/ stack # <<>> /\ Last(stack).arg = i
  /\ iter' = [iter EXCEPT ![i].held = TRUE]
  /\ UNCHANGED <<map, stack>>

js_map_delete(k) ==
  /\ InCode /\ map_find_record(map, k) # Head0
  /\ Becomes(map_delete_record(World, map_find_record(map, k)))

(* A call holds the arguments of the callback, then its result; the key    *)
(* and the map are no iterators.                                           *)
Frame(at, r, arg) == [at |-> at, cur |-> r, arg |-> arg]

(* list_for_each_safe takes the record that comes next, cur, before the    *)
(* one at hand is deleted.                                                 *)
js_map_clear ==
  /\ InCode /\ Len(stack) < MaxDepth
  /\ stack' = Append(stack, Frame("clear", Succ(map, Head0), None))
  /\ UNCHANGED <<map, iter>>

Clearing == stack # <<>> /\ Last(stack).at = "clear"

ClearStep ==
  LET r == Last(stack).cur IN
  /\ Clearing /\ r \in DOMAIN map.records
  /\ Becomes(map_delete_record([World EXCEPT !.stack[Len(stack)].cur = Succ(map, r)], r))

ClearEnds ==
  /\ Clearing /\ Last(stack).cur = Head0
  /\ stack' = Front(stack)
  /\ UNCHANGED <<map, iter>>

(* An enumeration that stood on r comes to the next record that is not a   *)
(* zombie and locks it; r is released.                                     *)
locked(w, r) == IF r = Head0 THEN w ELSE [w EXCEPT !.map.records[r].ref_count = @ + 1]
left(w, r) == IF r = Head0 THEN w ELSE map_decref_record(w, r)

(* forEach: the callback runs while its record is locked, and its          *)
(* arguments are freed when it has returned or thrown.                     *)
visit(r) ==
  IF r = Head0 THEN Frame("ended", r, None) ELSE Frame("callback", r, map.records[r].value)

js_map_forEach ==
  LET r == NextRecord(map, Head0) IN
  /\ InCode /\ Len(stack) < MaxDepth
  /\ Becomes(locked([World EXCEPT !.stack = Append(@, visit(r))], r))

InForEach(at) == stack # <<>> /\ Last(stack).at = at

(* The result may be an iterator that the program gives up as it returns;  *)
(* one it keeps cannot go with the result, which is None then.             *)
CallbackReturns(v) ==
  /\ InForEach("callback")
  /\ v \in Iter => iter[v].held
  /\ Becomes(JS_FreeValue([World EXCEPT !.stack[Len(stack)] = Frame("returned", @.cur, v),
                                        !.iter = [i \in Iter |-> IF i = v THEN [@[i] EXCEPT !.held = FALSE]
                                                                          ELSE @[i]]],
                          Last(stack).arg))

CallbackThrows ==
  /\ InForEach("callback")
  /\ Becomes(JS_FreeValue([World EXCEPT !.stack[Len(stack)] = Frame("thrown", @.cur, None)],
                          Last(stack).arg))

(* The call goes on to the record that is next in the list and releases    *)
(* the one it stood on; only then the result is freed.                     *)
TakeNext ==
  LET here == Last(stack).cur IN
  /\ InForEach("returned")
  /\ Becomes(left([World EXCEPT !.stack[Len(stack)] = Frame("moved", Succ(map, here), @.arg)], here))

FreeResult ==
  /\ InForEach("moved")
  /\ Becomes(JS_FreeValue([World EXCEPT !.stack[Len(stack)] = Frame("looking", @.cur, None)],
                          Last(stack).arg))

(* The first record from there on that is not a zombie is visited.         *)
NextEntry ==
  LET here == Last(stack).cur
      next == IF here = Head0 THEN Head0 ELSE NextRecord(map, here - 1)
  IN
  /\ InForEach("looking") /\ here # Freed
  /\ Becomes(locked([World EXCEPT !.stack[Len(stack)] = visit(next)], next))

ForEachThrows ==
  /\ InForEach("thrown")
  /\ Becomes(left([World EXCEPT !.stack = Front(@)], Last(stack).cur))

ForEachEnds ==
  /\ InForEach("ended")
  /\ stack' = Front(stack)
  /\ UNCHANGED <<map, iter>>

(* keys, values and entries; next; and the last reference that the program *)
(* itself has to an iterator goes.                                         *)
js_create_map_iterator(i) ==
  /\ InCode /\ iter[i].state = "none"
  /\ iter' = [iter EXCEPT ![i] = [state |-> "on", cur |-> Head0, held |-> TRUE]]
  /\ UNCHANGED <<map, stack>>

js_map_iterator_next(i) ==
  LET here == iter[i].cur
      next == NextRecord(map, here)
      on == [World EXCEPT !.iter[i].cur = next,
                          !.iter[i].state = IF next = Head0 THEN "done" ELSE "on"]
  IN
  /\ InCode /\ iter[i].held /\ iter[i].state = "on"
  /\ Becomes(left(locked(on, next), here))

DropIterator(i) ==
  /\ InCode /\ iter[i].held
  /\ Becomes(JS_FreeValue([World EXCEPT !.iter[i].held = FALSE], i))

(* The map is not referred to any more, but by iterators that it alone     *)
(* holds: js_map_finalizer frees every record, and in the same collection  *)
(* they go too and find that the map is no live object.                    *)
js_map_finalizer ==
  /\ stack = <<>> /\ \A i \in Iter : ~iter[i].held
  /\ map' = NewMap
  /\ iter' = [i \in Iter |-> NoIter]
  /\ UNCHANGED stack

Init ==
  /\ map = NewMap
  /\ iter = [i \in Iter |-> NoIter]
  /\ stack = <<>>

Next ==
  \/ \E k \in Key : js_map_delete(k) \/ \E v \in Value : js_map_set(k, v)
  \/ js_map_clear \/ ClearStep \/ ClearEnds
  \/ js_map_forEach \/ (\E v \in Value : CallbackReturns(v)) \/ CallbackThrows
  \/ TakeNext \/ FreeResult \/ NextEntry \/ ForEachThrows \/ ForEachEnds
  \/ \E i \in Iter : js_map_get(i) \/ js_create_map_iterator(i)
                     \/ js_map_iterator_next(i) \/ DropIterator(i)
  \/ js_map_finalizer

Spec == Init /\ [][Next]_vars

-----------------------------------------------------------------------------
(* Records, iterators and frames are well formed. *)
TypeOK ==
  /\ map.records \in Seq([key : Key \cup {None}, value : Value, empty : BOOLEAN,
                           ref_count : Nat \ {0}])
  /\ \A h \in DOMAIN map.table : map.table[h] \subseteq DOMAIN map.records
  /\ \A i \in Iter : iter[i].state \in {"none", "on", "done"} /\ iter[i].held \in BOOLEAN
  /\ Len(stack) <= MaxDepth
  /\ \A j \in DOMAIN stack : /\ stack[j].at \in {"callback", "returned", "moved", "looking", "thrown",
                                                  "ended", "clear"}
                               /\ stack[j].arg \in Value

(* A call that stands on its record, or that only points to the one that   *)
(* comes next.                                                             *)
Stands(f) == f.at \notin {"moved", "looking", "clear"}

(* "used during enumeration to avoid freeing the record": the count of a   *)
(* record is one for the list, unless it is a zombie, and one for each     *)
(* iterator and call of forEach that stands on it.  So what an enumeration *)
(* stands on is never freed, the assertion of map_decref_record that what  *)
(* it frees is empty holds, and no zombie outlives its last visitor.       *)
CountsExact ==
  LET visitors(r) == Cardinality({i \in Iter : iter[i].cur = r})
        + Cardinality({j \in DOMAIN stack : Stands(stack[j]) /\ stack[j].cur = r})
  IN /\ visitors(Freed) = 0
     /\ \A r \in DOMAIN map.records :
          map.records[r].ref_count = visitors(r) + (IF map.records[r].empty THEN 0 ELSE 1)

(* Every record that is not a zombie is in the bucket of its key, after    *)
(* every change of the table, nothing else is, and "size" counts them.     *)
TableComplete ==
  /\ map.count = Cardinality(Full(map))
  /\ \A r \in Full(map) : map_find_record(map, map.records[r].key) = r
  /\ UNION {map.table[h] : h \in DOMAIN map.table} = Full(map)

(* The counts, the table and "size" agree with what is in the list and     *)
(* with who stands on it.                                                  *)
RecordsCounted == CountsExact /\ TableComplete

-----------------------------------------------------------------------------
(* What a Map promises (MapEntries).                                       *)

(* The keys of the records behind a place in the list, their order and     *)
(* their values.                                                           *)
Keys(m, after) == {m.records[p].key : p \in {q \in Full(m) : q > after}}

Order(m) ==
  {<<m.records[p[1]].key, m.records[p[2]].key>> : p \in {q \in Full(m) \X Full(m) : q[1] < q[2]}}

ValueOf(m, k) ==
  IF k \notin Keys(m, Head0) THEN NoValue
  ELSE m.records[CHOOSE p \in Full(m) : m.records[p].key = k].value

(* What an iterator, or a call of forEach, has still to visit.             *)
IterRest(m, i) ==
  CASE i.state = "none" -> Idle
    [] i.state = "on"   -> Keys(m, i.cur)
    [] i.state = "done" -> Done

KeysFrom(m, r) == IF r = Head0 THEN {} ELSE Keys(m, r - 1)

CallRest(m, st, j) ==
  IF j \notin DOMAIN st \/ st[j].at = "clear" THEN Idle
  ELSE CASE st[j].at = "ended" -> Done
         [] st[j].at \in {"moved", "looking"} -> KeysFrom(m, st[j].cur)
         [] OTHER -> Keys(m, st[j].cur)

Rest(w, c) == IF c \in Iter THEN IterRest(w.map, w.iter[c]) ELSE CallRest(w.map, w.stack, c)

Entries == INSTANCE MapEntries WITH
  Cursor <- Iter \cup 1 .. MaxDepth,
  value <- [k \in Key |-> ValueOf(map, k)],
  order <- Order(map),
  rest <- [c \in Iter \cup 1 .. MaxDepth |-> Rest(World, c)]

(* forEach points to a record that has been freed, with the result of its  *)
(* callback: what it visits next is undefined.                             *)
Astray ==
  \E j \in DOMAIN stack : stack[j].at \in {"moved", "looking"} /\ stack[j].cur = Freed

(* An enumeration visits every entry once, in the order of insertion, with *)
(* those added meanwhile and without those deleted, whatever zombies are   *)
(* in the list, and the operations find and change the entry of their key, *)
(* as long as no forEach goes astray (el, taken before ret is freed).      *)
ImplementsMapEntries == Entries!Init /\ [][Entries!Next \/ Astray']_(Entries!vars)

-----------------------------------------------------------------------------
(* For TLC: two keys are always in one bucket, and may be exchanged; all   *)
(* are in the bucket of a new map.                                         *)
Odd == CHOOSE k \in Key : TRUE
TwoAlike == [k \in Key |-> IF k = Odd THEN 2 ELSE 5]
SameHash == Permutations(Key \ {Odd})
=============================================================================
