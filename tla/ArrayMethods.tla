---------------------------- MODULE ArrayMethods ----------------------------
(* The methods of arrays (quickjs.c 35330-36930, rqsort of cutils.c): each *)
(* works on the elements one by one, or, as long as the array is plain (a  *)
(* fast array), on its table. Conversions of arguments and callbacks run   *)
(* program code, which can change the array in between.                    *)
EXTENDS Computation, Integers, Sequences, FiniteSets
LOCAL INSTANCE SequencesExt
LOCAL INSTANCE FiniteSetsExt
LOCAL INSTANCE Functions
LOCAL INSTANCE TLC

CONSTANTS
  ArrayCalls,       \* the calls of methods: arrays, methods and arguments
  Touches,          \* what program code does to the array in a call
  MaxDepth          \* partitions in one another before rqsort gives up (50)

Meaning == INSTANCE ArrayMeaning

ASSUME ArraysAssumption == MaxDepth \in Nat

Undef == 0

-----------------------------------------------------------------------------
(* An array: its own elements (a function from indices), its length, and   *)
(* elements it inherits. That of a fast array are the first ones, without  *)
(* a gap.                                                                  *)

Count(a) == Cardinality(DOMAIN a.own)
JS_HasProperty(a, k) == k \in DOMAIN a.own \cup DOMAIN a.above
JS_GetPropertyInt64(a, k) ==
  IF k \in DOMAIN a.own THEN a.own[k] ELSE IF k \in DOMAIN a.above THEN a.above[k] ELSE Undef

JS_SetPropertyInt64(a, k, v) ==
  [a EXCEPT !.own = (k :> v) @@ @, !.len = IF k < @ THEN @ ELSE k + 1,
            !.fast = @ /\ k <= Count(a)]

JS_DeletePropertyInt64(a, k) ==
  IF k \notin DOMAIN a.own THEN a
  ELSE [a EXCEPT !.own = Restrict(@, DOMAIN @ \ {k}), !.fast = @ /\ k = Count(a) - 1]

SetLength(a, n) == [a EXCEPT !.own = Restrict(@, {k \in DOMAIN @ : k < n}), !.len = n]

js_get_fast_array(a) == a.fast
NewArray(n) == [own |-> << >>, above |-> << >>, len |-> n, fast |-> TRUE]

Repeat(Turn(_, _), a, n) == FoldLeft(Turn, a, [i \in 1 .. n |-> i - 1])

JS_ToInt64Clamp(v, min, max, neg_offset) ==
  LET w == IF v < 0 THEN v + neg_offset ELSE v
  IN IF w < min THEN min ELSE IF w > max THEN max ELSE w

(* An argument that was not given has a default.                           *)
Clamped(args, i, len, default) ==
  IF i > Len(args) THEN default ELSE JS_ToInt64Clamp(args[i], 0, len, len)

-----------------------------------------------------------------------------
(* Methods that change the array, from its length as it was before the     *)
(* arguments were converted: the array and the answer.                     *)
Result(a, ret) == [a |-> a, ret |-> ret]

(* Slip: elements are always moved from the first on. *)
Slip_Forward(a, to_pos, from_pos, count, dir) ==
  LET Copy(r, i) == IF JS_HasProperty(r, from_pos + i)
                    THEN JS_SetPropertyInt64(r, to_pos + i, JS_GetPropertyInt64(r, from_pos + i))
                    ELSE JS_DeletePropertyInt64(r, to_pos + i)
  IN Repeat(Copy, a, count)

JS_CopySubArray(a, to_pos, from_pos, count, dir) ==
  LET At(i) == IF dir < 0 THEN count - i - 1 ELSE i
      Copy(r, i) == IF JS_HasProperty(r, from_pos + At(i))
                    THEN JS_SetPropertyInt64(r, to_pos + At(i), JS_GetPropertyInt64(r, from_pos + At(i)))
                    ELSE JS_DeletePropertyInt64(r, to_pos + At(i))
  IN Repeat(Copy, a, count)

Whole(a, len) == js_get_fast_array(a) /\ Count(a) = len

js_array_pop(a, len) ==
  IF len = 0 THEN Result(SetLength(a, 0), Undef)
  ELSE Result(SetLength(JS_DeletePropertyInt64(a, len - 1), len - 1), JS_GetPropertyInt64(a, len - 1))

js_array_shift(a, len) ==
  LET moved == IF Whole(a, len) THEN [a EXCEPT !.own = [k \in 0 .. len - 2 |-> @[k + 1]]]
               ELSE JS_DeletePropertyInt64(JS_CopySubArray(a, 0, 1, len - 1, 1), len - 1)
  IN IF len = 0 THEN Result(SetLength(a, 0), Undef)
     ELSE Result(SetLength(moved, len - 1), JS_GetPropertyInt64(a, 0))

SetItems(a, from, items) ==
  LET Put(r, i) == JS_SetPropertyInt64(r, from + i, items[i + 1]) IN Repeat(Put, a, Len(items))

js_array_push(a, len, items) ==
  Result(SetLength(SetItems(a, len, items), len + Len(items)), len + Len(items))

js_array_unshift(a, len, items) ==
  Result(SetLength(SetItems(IF items = <<>> THEN a ELSE JS_CopySubArray(a, Len(items), 0, len, -1), 0, items),
                   len + Len(items)), len + Len(items))

js_array_reverse(a, len) ==
  LET Put(r, k, from) == IF JS_HasProperty(from, len - k - 1)
                         THEN JS_SetPropertyInt64(r, k, JS_GetPropertyInt64(from, len - k - 1))
                         ELSE JS_DeletePropertyInt64(r, k)
      Swap(r, l) == Put(Put(r, l, r), len - l - 1, r)
  IN IF Whole(a, len) THEN Result([a EXCEPT !.own = [k \in DOMAIN @ |-> @[len - k - 1]]], Undef)
     ELSE Result(Repeat(Swap, a, len \div 2), Undef)

js_array_fill(a, len, args) ==
  LET start == Clamped(args, 2, len, 0)
      Put(r, i) == JS_SetPropertyInt64(r, start + i, args[1])
  IN Result(Repeat(Put, a, Clamped(args, 3, len, len) - start), Undef)

js_array_copyWithin(a, len, args) ==
  LET to == Clamped(args, 1, len, 0)
      from == Clamped(args, 2, len, 0)
      count == Min({Clamped(args, 3, len, len) - from, len - to})
  IN Result(JS_CopySubArray(a, to, from, count, IF from < to /\ to < from + count THEN -1 ELSE 1), Undef)

(* The elements from start: those of the table first, if it is one.        *)
Taken(a, start, count) ==
  LET direct == IF js_get_fast_array(a) THEN Max({0, Min({start + count, Count(a)}) - start}) ELSE 0
      Direct(r, i) == JS_SetPropertyInt64(r, i, a.own[start + i])
      Rest(r, i) == IF i >= direct /\ JS_HasProperty(a, start + i)
                    THEN JS_SetPropertyInt64(r, i, JS_GetPropertyInt64(a, start + i)) ELSE r
  IN SetLength(Repeat(Rest, Repeat(Direct, NewArray(count), direct), count), Max({count, 0}))

js_array_slice(a, len, args) ==
  LET start == Clamped(args, 1, len, 0)
  IN Result(a, Taken(a, start, Max({Clamped(args, 2, len, len) - start, 0})))

Spliced(a, len, start, del_count, items, taken) ==
  LET new_len == len + Len(items) - del_count
      moved == JS_CopySubArray(a, start + Len(items), start + del_count, len - (start + del_count),
                               IF Len(items) <= del_count THEN 1 ELSE -1)
      Drop(r, i) == JS_DeletePropertyInt64(r, len - 1 - i)
  IN Result(SetLength(SetItems(IF Len(items) = del_count THEN a ELSE Repeat(Drop, moved, len - new_len),
                               start, items), new_len), taken)

js_array_splice(a, len, args, items) ==
  LET start == Clamped(args, 1, len, 0)
      del_count == CASE args = <<>> -> 0
                     [] Len(args) = 1 -> len - start
                     [] OTHER -> JS_ToInt64Clamp(args[2], 0, len - start, 0)
  IN Spliced(a, len, start, del_count, items, Taken(a, start, del_count))

-----------------------------------------------------------------------------
(* Methods that only read.                                                 *)

(* Tags decide first, then numbers are compared: as doubles, or as the     *)
(* same value with one zero or with two.                                   *)
Tag1(v) == CASE v = Undef -> "undefined" [] v \in {Meaning!NaN, Meaning!MinusZero} -> "float64" [] OTHER -> "int"
js_strict_eq2(op1, op2, eq_mode) ==
  LET zero == {Meaning!PlusZero, Meaning!MinusZero}
      numbers == {Tag1(op1), Tag1(op2)} \subseteq {"int", "float64"}
      nan == Meaning!NaN \in {op1, op2}
  IN CASE ~numbers -> op1 = op2
       [] numbers /\ nan -> eq_mode # "strict" /\ op1 = op2
       [] OTHER -> op1 = op2 \/ (eq_mode # "same_value" /\ {op1, op2} = zero)

(* Of a fast array all of the table is searched. Holes are skipped, or are *)
(* undefined.                                                              *)
Searched(a, from, len, v, holes, eq_mode) ==
  LET table == IF js_get_fast_array(a) THEN {k \in DOMAIN a.own : k >= from} ELSE {}
      rest == {k \in Max({from} \cup {k + 1 : k \in table}) .. len - 1 : holes \/ JS_HasProperty(a, k)}
      found == {k \in table \cup rest : js_strict_eq2(v, JS_GetPropertyInt64(a, k), eq_mode)}
  IN IF len = 0 \/ found = {} THEN -1 ELSE Min(found)

js_array_indexOf(a, len, args) ==
  Result(a, Searched(a, Clamped(args, 2, len, 0), len, args[1], FALSE, "strict"))
js_array_includes(a, len, args) ==
  Result(a, Searched(a, Clamped(args, 2, len, 0), len, args[1], TRUE, "same_value_zero") # -1)

js_array_lastIndexOf(a, len, args) ==
  LET n == IF Len(args) < 2 THEN len - 1 ELSE JS_ToInt64Clamp(args[2], -1, len - 1, len)
      found == {k \in 0 .. n : JS_HasProperty(a, k) /\ js_strict_eq2(args[1], JS_GetPropertyInt64(a, k), "strict")}
  IN Result(a, IF found = {} \/ len = 0 THEN -1 ELSE Max(found))

(* concat: arrays b in turn behind the array.                              *)
Appended(r, b, len) ==
  LET Copy(x, i) == IF JS_HasProperty(b, i)
                    THEN JS_SetPropertyInt64(x, r.n + i, JS_GetPropertyInt64(b, i)) ELSE x
  IN [arr |-> Repeat(Copy, r.arr, len), n |-> r.n + len]
js_array_concat(a, others) ==
  LET all == FoldLeft(LAMBDA r, b : Appended(r, b, b.len), [arr |-> NewArray(0), n |-> 0], <<a>> \o others)
  IN Result(a, SetLength(all.arr, all.n))

(* build_arg_list, for apply and spread arguments, and join: all elements. *)
build_arg_list(a, len) ==
  Result(a, [i \in 1 .. len |-> IF Whole(a, len) THEN a.own[i - 1] ELSE JS_GetPropertyInt64(a, i - 1)])

-----------------------------------------------------------------------------
(* sort: the elements with their place, sorted by rqsort in a table of     *)
(* their own and written back. A comparison c gives -1, 0 or 1 for every   *)
(* two values that differ, whether or not they make an order. Equal ones   *)
(* keep their places in arrays, not in typed arrays.                       *)

js_array_cmp_generic(c, x, y) ==
  IF x.val # y.val /\ c.table[<<x.val, y.val>>] # 0 THEN c.table[<<x.val, y.val>>]
  ELSE IF ~c.stable THEN 0
  ELSE IF x.pos > y.pos THEN 1 ELSE IF x.pos < y.pos THEN -1 ELSE 0

Exchanged(t, i, j) == [t EXCEPT ![i] = t[j], ![j] = t[i]]
SwapBlock(t, i, j, span) ==
  LET Swap(r, x) == Exchanged(r, i + x, j + x) IN Repeat(Swap, t, span)

med3(c, t, i, j, k) ==
  LET Cmp(x, y) == js_array_cmp_generic(c, t[x], t[y])
  IN IF Cmp(i, j) < 0 THEN IF Cmp(j, k) < 0 THEN j ELSE IF Cmp(i, k) < 0 THEN k ELSE i
     ELSE IF Cmp(j, k) > 0 THEN j ELSE IF Cmp(i, k) < 0 THEN i ELSE k

RECURSIVE Sifted(_, _, _, _, _)
Sifted(c, t, ptr, r, n) ==
  LET Cmp(x, y) == js_array_cmp_generic(c, t[ptr + x], t[ptr + y])
      first == r * 2 + 1
      child == IF first < n - 1 /\ Cmp(first, first + 1) <= 0 THEN first + 1 ELSE first
  IN IF first >= n \/ Cmp(r, child) > 0 THEN t
     ELSE Sifted(c, Exchanged(t, ptr + r, ptr + child), ptr, child, n)

heapsortx(c, t, ptr, n) ==
  LET Heap(r, i) == Sifted(c, r, ptr, n \div 2 - 1 - i, n)
      Take(r, i) == Sifted(c, Exchanged(r, ptr, ptr + n - 1 - i), ptr, 0, n - 1 - i)
  IN Repeat(Take, Repeat(Heap, t, n \div 2), n - 1)

RECURSIVE Sunk(_, _, _, _)
Sunk(c, t, ptr, j) ==
  IF j > ptr /\ js_array_cmp_generic(c, t[j - 1], t[j]) > 0
  THEN Sunk(c, Exchanged(t, j, j - 1), ptr, j - 1) ELSE t
InsertionSort(c, t, ptr, n) == LET Sink(r, i) == Sunk(c, r, ptr, ptr + i) IN Repeat(Sink, t, n)

(* Partition around the element at ptr: those behind pi that are not       *)
(* larger, those before pj that are not smaller, then both change places.  *)
(* Equal ones gather below plt and from pgt.                               *)
RECURSIVE Up(_, _), Down(_, _), Parted(_, _)
Up(c, x) ==
  IF x.pi >= x.pj \/ js_array_cmp_generic(c, x.t[x.ptr], x.t[x.pi]) < 0 THEN x
  ELSE IF js_array_cmp_generic(c, x.t[x.ptr], x.t[x.pi]) > 0 THEN Up(c, [x EXCEPT !.pi = @ + 1])
  ELSE Up(c, [x EXCEPT !.t = Exchanged(@, x.plt, x.pi), !.plt = @ + 1, !.pi = @ + 1])

Down(c, x) ==
  LET pj == x.pj - 1 IN
  IF x.pi >= pj \/ js_array_cmp_generic(c, x.t[x.ptr], x.t[pj]) > 0 THEN [x EXCEPT !.pj = pj]
  ELSE IF js_array_cmp_generic(c, x.t[x.ptr], x.t[pj]) < 0 THEN Down(c, [x EXCEPT !.pj = pj])
  ELSE Down(c, [x EXCEPT !.t = Exchanged(@, x.pgt - 1, pj), !.pgt = @ - 1, !.pj = pj])

Parted(c, x) ==
  LET y == Down(c, Up(c, x))
  IN IF y.pi >= y.pj THEN y
     ELSE Parted(c, [y EXCEPT !.t = Exchanged(@, y.pi, y.pj), !.pi = @ + 1])

Pivoted(c, t, ptr, n) ==
  LET m4 == n \div 4
  IN Parted(c, [t |-> Exchanged(t, ptr, med3(c, t, ptr + m4, ptr + 2 * m4, ptr + 3 * m4)),
                ptr |-> ptr, pi |-> ptr + 1, pj |-> ptr + n, plt |-> ptr + 1, pgt |-> ptr + n])

(* Those equal to the pivot go to the middle.                              *)
Centered(x, top) ==
  LET low == Min({x.plt - x.ptr, x.pi - x.plt})
      high == Min({top - x.pgt, x.pgt - x.pi})
  IN [x EXCEPT !.t = SwapBlock(SwapBlock(@, x.ptr, x.pi - low, low), x.pi, top - high, high)]

(* Which part is sorted first only matters for the use of the stack.       *)
RECURSIVE rqsort(_, _, _, _, _)
rqsort(c, t, ptr, n, depth) ==
  LET x == Centered(Pivoted(c, t, ptr, n), ptr + n) IN
  IF n <= 6 THEN InsertionSort(c, t, ptr, n)
  ELSE IF depth = MaxDepth THEN heapsortx(c, t, ptr, n)
  ELSE rqsort(c, rqsort(c, x.t, ptr, x.pi - x.plt, depth + 1),
              ptr + n - (x.pgt - x.pi), x.pgt - x.pi, depth + 1)

Slots(a, len) ==
  LET Slot(t, k) == IF JS_GetPropertyInt64(a, k) = Undef THEN t
                    ELSE (Cardinality(DOMAIN t) :> [val |-> JS_GetPropertyInt64(a, k), pos |-> k]) @@ t
  IN Repeat(Slot, << >>, len)

Sorted(c, slots) == rqsort(c, slots, 0, Cardinality(DOMAIN slots), 0)

(* The array may have changed while its elements were compared.            *)
js_array_sort(a, len, sorted, undefined_count) ==
  LET pos == Cardinality(DOMAIN sorted)
      Write(r, n) == IF sorted[n].pos = n THEN r ELSE JS_SetPropertyInt64(r, n, sorted[n].val)
      Fill(r, i) == JS_SetPropertyInt64(r, pos + i, Undef)
      Drop(r, i) == JS_DeletePropertyInt64(r, pos + undefined_count + i)
  IN Repeat(Drop, Repeat(Fill, Repeat(Write, a, pos), undefined_count), len - pos - undefined_count)

-----------------------------------------------------------------------------
(* flat: elements that are arrays (numbers of inner ones) are replaced by  *)
(* theirs.                                                                 *)
RECURSIVE JS_FlattenIntoArray(_, _, _, _)
JS_FlattenIntoArray(target, source, depth, inner) ==
  LET Turn(r, i) ==
        LET element == JS_GetPropertyInt64(source, i) IN
        IF ~JS_HasProperty(source, i) THEN r
        ELSE IF depth > 0 /\ element \in DOMAIN inner
        THEN JS_FlattenIntoArray(r, inner[element], depth - 1, inner)
        ELSE JS_SetPropertyInt64(r, r.len, element)
  IN Repeat(Turn, target, source.len)

-----------------------------------------------------------------------------
(* A call: len is the length read at its start, k the next element, log    *)
(* the callbacks so far; program code changes the array once at most.      *)

array == state.call
Waits(pc) == state.mode = "array" /\ state.pc = pc

CallbackMethods == {"every", "some", "forEach", "map", "filter", "find", "findIndex", "reduce",
                    "reduceRight", "from"}

ArrayInit ==
  state \in {[mode |-> "array", call |-> c, a |-> c.a, before |-> c.a, len |-> c.a.len, touched |-> "no",
              pc |-> CASE c.method \in CallbackMethods -> "turns" [] c.method = "iterator" -> "next"
                       [] c.method = "sort" -> "sort" [] OTHER -> "args",
              k |-> 0, log |-> <<>>, acc |-> <<>>, ret |-> Undef,
              out |-> NewArray(IF c.method \in {"map", "from"} THEN c.a.len ELSE 0)] : c \in ArrayCalls}

Touched(a, t) ==
  CASE t = "no" -> a
    [] t = "grow" -> JS_SetPropertyInt64(a, a.len, 2)
    [] t = "far" -> JS_SetPropertyInt64(a, a.len + 1, 2)
    [] t = "front" -> JS_SetPropertyInt64(a, 0, 2)
    [] t = "hole" -> JS_DeletePropertyInt64(a, 0)
    [] t = "shorter" -> SetLength(a, IF a.len = 0 THEN 0 ELSE a.len - 1)
    [] t = "empty" -> SetLength(a, 0)
Touch(t) == t \in Touches /\ (t = "no" \/ (state.touched = "no" /\ array.touch))
Noted(t) == IF t = "no" THEN state.touched ELSE t

(* An argument is converted, after the length was read.                    *)
ConvertArgument ==
  /\ Waits("args") /\ array.args # <<>>
  /\ \E t \in Touches \ {"no"} : /\ Touch(t)
       /\ state' = [state EXCEPT !.a = Touched(@, t), !.before = Touched(@, t), !.touched = t]

MethodRuns(a, len, c) ==
  CASE c.method = "pop" -> js_array_pop(a, len)
    [] c.method = "shift" -> js_array_shift(a, len)
    [] c.method = "push" -> js_array_push(a, len, c.items)
    [] c.method = "unshift" -> js_array_unshift(a, len, c.items)
    [] c.method = "reverse" -> js_array_reverse(a, len)
    [] c.method = "fill" -> js_array_fill(a, len, c.args)
    [] c.method = "copyWithin" -> js_array_copyWithin(a, len, c.args)
    [] c.method = "slice" -> js_array_slice(a, len, c.args)
    [] c.method = "splice" -> js_array_splice(a, len, c.args, c.items)
    [] c.method = "indexOf" -> js_array_indexOf(a, len, c.args)
    [] c.method = "includes" -> js_array_includes(a, len, c.args)
    [] c.method = "lastIndexOf" -> js_array_lastIndexOf(a, len, c.args)
    [] c.method = "concat" -> js_array_concat(a, c.others)
    [] c.method = "apply" -> build_arg_list(a, len)
    [] c.method = "flat" -> Result(a, JS_FlattenIntoArray(NewArray(0), a, c.args[1], c.others))

(* Not: a search of a table that has grown since the length was read (see  *)
(* README).                                                                *)
CallMethod ==
  /\ Waits("args")
  /\ ~(array.method \in {"indexOf", "includes"} /\ state.a.fast /\ Count(state.a) > state.len)
  /\ LET r == MethodRuns(state.a, state.len, array)
     IN state' = [state EXCEPT !.a = r.a, !.ret = r.ret, !.pc = "done"]

(* Elements are compared, and written back.                                *)
SortElements ==
  /\ Waits("sort")
  /\ \E t \in Touches : /\ Touch(t)
       /\ LET undefined_count == Cardinality({k \in 0 .. state.len - 1 :
                                   JS_HasProperty(state.a, k) /\ JS_GetPropertyInt64(state.a, k) = Undef})
              sorted == Sorted(array.compare, Slots(state.a, state.len))
          IN state' = [state EXCEPT !.ret = sorted, !.touched = Noted(t), !.pc = "done",
                         !.a = js_array_sort(Touched(@, t), state.len, sorted, undefined_count)]

-----------------------------------------------------------------------------
(* Methods with callbacks.                                                 *)
Index == IF array.method = "reduceRight" THEN state.len - state.k - 1 ELSE state.k
SkipsHoles == array.method \notin {"find", "findIndex", "from"}
Reduces == array.method \in {"reduce", "reduceRight"}
Present == JS_HasProperty(state.a, Index)

SkipHole ==
  /\ Waits("turns") /\ state.k < state.len
  /\ SkipsHoles /\ ~Present
  /\ state' = [state EXCEPT !.k = @ + 1]

(* Without a value to begin with, reduce begins with the first element.    *)
TakeFirst ==
  /\ Waits("turns") /\ state.k < state.len
  /\ Reduces /\ Present /\ state.acc = <<>> /\ array.args = <<>>
  /\ state' = [state EXCEPT !.k = @ + 1, !.acc = <<JS_GetPropertyInt64(state.a, Index)>>]

Decided(val, res) ==
  CASE array.method = "every" /\ ~res -> <<FALSE>>
    [] array.method = "some" /\ res -> <<TRUE>>
    [] array.method = "find" /\ res -> <<val>>
    [] array.method = "findIndex" /\ res -> <<Index>>
    [] OTHER -> <<>>

Collected(out, val, res) ==
  CASE array.method \in {"map", "from"} -> JS_SetPropertyInt64(out, state.k, IF res THEN 2 ELSE 1)
    [] array.method = "filter" /\ res -> JS_SetPropertyInt64(out, out.len, val)
    [] OTHER -> out

(* The n-th callback of reduce answers 10 + n.                             *)
CallFunction ==
  /\ Waits("turns") /\ state.k < state.len
  /\ SkipsHoles => Present
  /\ Reduces => state.acc # <<>> \/ array.args # <<>>
  /\ \E res \in BOOLEAN, t \in Touches : /\ Touch(t)
       /\ LET val == JS_GetPropertyInt64(state.a, Index)
              decided == Decided(val, res)
          IN state' = [state EXCEPT
               !.log = Append(@, [k |-> Index, val |-> val, res |-> res,
                                  acc |-> IF state.acc = <<>> THEN array.args ELSE state.acc]),
               !.k = @ + 1, !.a = Touched(@, t), !.touched = Noted(t),
               !.acc = <<10 + Len(state.log)>>, !.out = Collected(@, val, res),
               !.ret = IF decided = <<>> THEN @ ELSE decided[1],
               !.pc = IF decided = <<>> THEN @ ELSE "done"]

MethodEnds ==
  /\ Waits("turns") /\ state.k >= state.len
  /\ state' = [state EXCEPT !.pc = "done",
       !.ret = CASE array.method = "every" -> TRUE
                 [] array.method = "some" -> FALSE
                 [] array.method = "findIndex" -> -1
                 [] Reduces -> IF state.acc = <<>> THEN array.args ELSE state.acc
                 [] OTHER -> @,
       !.out = IF array.method = "from" THEN SetLength(@, state.k) ELSE @]

(* js_array_iterator_next. Once past the end the iterator lets the array   *)
(* go.                                                                     *)
NextElement ==
  /\ Waits("next") /\ Len(state.log) < 5
  /\ \E t \in Touches : /\ Touch(t)
       /\ LET ends == state.acc # <<>> \/ state.k >= state.a.len
          IN state' = [state EXCEPT !.k = IF ends THEN @ ELSE @ + 1, !.acc = IF ends THEN <<"done">> ELSE @,
               !.a = Touched(@, t), !.touched = Noted(t),
               !.log = Append(@, IF ends THEN <<"done">> ELSE <<state.k, JS_GetPropertyInt64(state.a, state.k)>>)]

ArrayNext ==
  \/ ConvertArgument \/ CallMethod \/ SortElements
  \/ SkipHole \/ TakeFirst \/ CallFunction \/ MethodEnds \/ NextElement

-----------------------------------------------------------------------------
(* What a method without callbacks means, given the array at the time its  *)
(* arguments had been converted.                                           *)
Meant(a, len, c) ==
  LET Start(i, default) == Meaning!PlaceOf(c.args, i, len, default)
      start == Start(1, 0)
      gone == CASE c.args = <<>> -> 0
                [] Len(c.args) = 1 -> len - start
                [] OTHER -> Meaning!Smaller(Meaning!Larger(c.args[2], 0), len - start)
      last == IF Len(c.args) < 2 THEN len - 1
              ELSE IF c.args[2] < 0 THEN len + c.args[2] ELSE Meaning!Smaller(c.args[2], len - 1)
      same == Meaning!Same(a)
  IN CASE c.method \in {"pop", "shift"} /\ len = 0 -> <<Meaning!Rewritten(a, {}, << >>, 0), Undef>>
       [] c.method = "pop" /\ len > 0 ->
            <<Meaning!Splice(a, len, len - 1, 1, <<>>), Meaning!Get(a, len - 1)>>
       [] c.method = "shift" /\ len > 0 -> <<Meaning!Splice(a, len, 0, 1, <<>>), Meaning!Get(a, 0)>>
       [] c.method = "push" -> <<Meaning!Splice(a, len, len, 0, c.items), len + Len(c.items)>>
       [] c.method = "unshift" -> <<Meaning!Splice(a, len, 0, 0, c.items), len + Len(c.items)>>
       [] c.method = "reverse" -> <<Meaning!Reversed(a, len), Undef>>
       [] c.method = "fill" -> <<Meaning!Fill(a, Start(2, 0), Start(3, len), c.args[1]), Undef>>
       [] c.method = "copyWithin" ->
            <<Meaning!CopyWithin(a, start, Start(2, 0),
                Meaning!Smaller(Start(3, len) - Start(2, 0), len - start)), Undef>>
       [] c.method = "slice" -> <<same, Meaning!Part(a, start, Start(2, len) - start)>>
       [] c.method = "splice" ->
            <<Meaning!Splice(a, len, start, gone, c.items), Meaning!Part(a, start, gone)>>
       [] c.method = "indexOf" ->
            <<same, Meaning!FirstOf(Meaning!Equal(a, Start(2, 0) .. len - 1, c.args[1]))>>
       [] c.method = "includes" ->
            <<same, \E k \in Start(2, 0) .. len - 1 : Meaning!SameValueZero(Meaning!Get(a, k), c.args[1])>>
       [] c.method = "lastIndexOf" -> <<same, Meaning!LastOf(Meaning!Equal(a, 0 .. last, c.args[1]))>>
       [] c.method = "concat" -> <<same, Meaning!Concat(<<a>> \o c.others)>>
       [] c.method = "apply" -> <<same, [i \in 1 .. len |-> Meaning!Get(a, i - 1)]>>
       [] c.method = "flat" -> <<same, Meaning!Flat(a, c.args[1], c.others)>>

Plainly(x) == IF array.method \in {"slice", "splice", "concat", "flat"} THEN Meaning!Same(x) ELSE x
AnsweredAsMeant ==
  <<Meaning!Same(state.a), Plainly(state.ret)>> = Meant(state.before, state.len, array)

(* A fast array has no gaps.                                               *)
Dense(a) == a.fast => DOMAIN a.own = 0 .. Count(a) - 1 /\ Count(a) <= a.len

Log == state.log
Stopped ==
  CASE array.method = "every" -> \E i \in DOMAIN Log : ~Log[i].res
    [] array.method \in {"some", "find", "findIndex"} -> \E i \in DOMAIN Log : Log[i].res
    [] OTHER -> FALSE

(* Every index is met once, in order; none past the length at the start,   *)
(* and none is missed (but for the one a reduction begins with) whose      *)
(* element is there before and after what program code does.               *)
CallbacksInOrder ==
  LET always == {k \in 0 .. state.len - 1 : Meaning!Has(state.before, k) /\ Meaning!Has(state.a, k)}
      missed == always \ {Log[i].k : i \in DOMAIN Log}
  IN /\ \A i, j \in DOMAIN Log :
          i < j => IF array.method = "reduceRight" THEN Log[i].k > Log[j].k ELSE Log[i].k < Log[j].k
     /\ \A i \in DOMAIN Log : Log[i].k \in 0 .. state.len - 1
     /\ Stopped \/ Cardinality(missed) <= IF Reduces /\ array.args = <<>> THEN 1 ELSE 0

CallbacksAnswered ==
  LET n == Len(Log)
      kept == SelectSeq(Log, LAMBDA x : x.res)
      Value(x) == IF x.res THEN 2 ELSE 1
      stored == [k \in {Log[i].k : i \in 1 .. n} |-> Value(Log[CHOOSE i \in 1 .. n : Log[i].k = k])]
  IN CASE array.method \in {"every", "some"} -> state.ret = ((array.method = "some") = Stopped)
       [] array.method = "find" -> state.ret = IF Stopped THEN Log[n].val ELSE Undef
       [] array.method = "findIndex" -> state.ret = IF Stopped THEN Log[n].k ELSE -1
       [] array.method \in {"map", "from"} -> state.out.own = stored /\ state.out.len = state.len
       [] array.method = "filter" ->
            state.out.own = [i \in 0 .. Len(kept) - 1 |-> kept[i + 1].val] /\ state.out.len = Len(kept)
       [] Reduces /\ n > 0 -> state.ret = <<9 + n>> /\ \A i \in 2 .. n : Log[i].acc = <<8 + i>>
       [] OTHER -> TRUE

SortedAsMeant ==
  LET slots == Slots(state.before, state.len)
      vals == {slots[i].val : i \in DOMAIN slots}
      T == array.compare.table
      order == \A x, y \in vals : /\ x # y => T[<<x, y>>] = -T[<<y, x>>]
                 /\ \A z \in vals : Cardinality({x, y, z}) = 3 /\ T[<<x, y>>] <= 0 /\ T[<<y, z>>] <= 0
                      => /\ T[<<x, z>>] <= 0
                         /\ T[<<x, z>>] = 0 => T[<<x, y>>] = 0 /\ T[<<y, z>>] = 0
      present == {k \in 0 .. state.len - 1 : Meaning!Has(state.before, k)}
  IN /\ Meaning!Permuted(state.ret, slots)
     /\ order => Meaning!SortedBy(state.ret, T, array.compare.stable)
     /\ state.touched = "no" => \A k \in 0 .. state.len - 1 :
          IF k \in DOMAIN state.ret THEN Meaning!Get(state.a, k) = state.ret[k].val
          ELSE /\ Meaning!Get(state.a, k) = Undef \/ k \in DOMAIN state.a.above
               /\ k \in DOMAIN state.a.own <=> k < Cardinality(present)

(* INVARIANT: a method leaves the array and answers as the language says,  *)
(* whatever is missing or inherited and whether or not it works on the     *)
(* table; callbacks see each element once, in order, and what they answer  *)
(* decides, even if they change the array; a table that is sorted stays a  *)
(* permutation under any comparison and is sorted if that is an order; an  *)
(* iterator goes through the indices and, once at the end, stays there.    *)
ArraysAsDefined ==
  state.mode = "array" =>
    /\ Dense(state.a) /\ Dense(state.out)
    /\ array.method = "iterator" =>
         \A i \in DOMAIN Log : IF Log[i] = <<"done">> THEN \A j \in i .. Len(Log) : Log[j] = Log[i]
                               ELSE Log[i][1] = i - 1
    /\ state.pc = "done" =>
         IF array.method = "sort" THEN SortedAsMeant
         ELSE IF array.method \in CallbackMethods THEN CallbacksInOrder /\ CallbacksAnswered
         ELSE AnsweredAsMeant
=============================================================================
