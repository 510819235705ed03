---------------------------- MODULE TypedArrays -----------------------------
(* ArrayBuffer, typed arrays and DataView (quickjs.c 47556-49842) and the  *)
(* operations of Atomics on elements: a buffer of bytes and the views of   *)
(* it. Conversions of arguments run program code, in which a host function *)
(* may detach the buffer. Not: arrays of floating point numbers, and the   *)
(* species constructor of ArrayBuffer.prototype.slice (47805-47835). The   *)
(* operations of Atomics are compiled only with CONFIG_ATOMICS (97).       *)
EXTENDS ArrayMethods
LOCAL INSTANCE SequencesExt
LOCAL INSTANCE FiniteSetsExt
LOCAL INSTANCE Bitwise
LOCAL INSTANCE TLC

CONSTANTS
  ByteValues,       \* how many values a byte has (256)
  TypedCalls,       \* for every operation, its arguments
  TypedPrograms     \* programs: a first memory and sets of operations

ASSUME TypedAssumption == ByteValues \in Nat /\ ByteValues > 1 /\ ByteValues % 2 = 0

-----------------------------------------------------------------------------
(* Elements in memory, the low byte first. Positions past the end are left *)
(* alone here; what an operation reaches is noted in the state.            *)

typed_array_size_log2(class) ==
  CASE class \in {"uint8c", "int8", "uint8"} -> 0 [] class \in {"int16", "uint16"} -> 1 [] OTHER -> 2
Width(class) == 2 ^ typed_array_size_log2(class)
Signed == {"int8", "int16", "int32"}
Modulus(class) == ByteValues ^ Width(class)

Positions(pos, n) == pos .. pos + n - 1
ByteAt(data, pos) == IF pos + 1 \in DOMAIN data THEN data[pos + 1] ELSE 0
get_u(data, pos, w) ==
  FoldLeft(LAMBDA v, i : v * ByteValues + ByteAt(data, pos + w - i), 0, [i \in 1 .. w |-> i])
put_u(data, pos, w, v) ==
  [i \in 1 .. Len(data) |-> IF i - 1 \in Positions(pos, w)
                            THEN (v \div ByteValues ^ (i - 1 - pos)) % ByteValues ELSE data[i]]
(* Bytes in the other order (bswap16, bswap32).                            *)
bswap(v, w) ==
  FoldLeft(LAMBDA x, i : x * ByteValues + ((v \div ByteValues ^ (i - 1)) % ByteValues), 0, [i \in 1 .. w |-> i])

ValueOf(class, n) ==
  IF class \in Signed /\ n >= Modulus(class) \div 2 THEN n - Modulus(class) ELSE n
JS_ToUint8Clamp(v) == JS_ToInt64Clamp(v, 0, ByteValues - 1, 0)
JS_ToUint32(class, v) == v % Modulus(class)
JS_ToElement(class, v) == IF class = "uint8c" THEN JS_ToUint8Clamp(v) ELSE JS_ToUint32(class, v)

(* memmove, and memcpy between buffers.                                    *)
memmove(to, at, from, pos, n) ==
  [i \in 1 .. Len(to) |-> IF i - 1 \in Positions(at, n) THEN ByteAt(from, pos + i - 1 - at) ELSE to[i]]

-----------------------------------------------------------------------------
(* Memory: buffers, with the list of their views, and views. DataViews are *)
(* views of class "dataview".                                              *)

Zeros(n) == [i \in 1 .. n |-> 0]
js_array_buffer_constructor(s, data, shared) ==
  [s EXCEPT !.bufs = Append(@, [data |-> data, detached |-> FALSE, shared |-> shared,
                                array_list |-> {}, live |-> TRUE])]

typed_array_init(s, class, b, offset, length, count) ==
  LET v == Len(s.views) + 1
  IN [s EXCEPT !.views = Append(@, [class |-> class, buffer |-> b, offset |-> offset, length |-> length,
                                    count |-> count, live |-> TRUE]),
               !.bufs[b].array_list = @ \cup {v}]
NewView(s, class, b, offset, len) == typed_array_init(s, class, b, offset, len * Width(class), len)
NewTyped(s, class, data) ==
  NewView(js_array_buffer_constructor(s, data, FALSE), class, Len(s.bufs) + 1, 0, Len(data) \div Width(class))

(* Slip: views keep their counts.                                          *)
Slip_Detach(s, b) ==
  IF s.bufs[b].detached \/ s.bufs[b].shared THEN s
  ELSE [s EXCEPT !.bufs[b].data = <<>>, !.bufs[b].detached = TRUE]

(* The length and the offset of a view stay, elements are no more.         *)
JS_DetachArrayBuffer(s, b) ==
  IF s.bufs[b].detached \/ s.bufs[b].shared THEN s
  ELSE [s EXCEPT !.bufs[b].data = <<>>, !.bufs[b].detached = TRUE,
                 !.views = [v \in DOMAIN @ |-> IF v \in s.bufs[b].array_list /\ @[v].class # "dataview"
                                               THEN [@[v] EXCEPT !.count = 0] ELSE @[v]]]

(* What an operation leaves and answers, and the bytes it reached.         *)
Reaching(s, ret, at) == [s |-> s, ret |-> ret, at |-> at, error |-> "none"]
Effect(s, ret) == Reaching(s, ret, {})
Throws(s, error) == [Effect(s, 0) EXCEPT !.error = error]

IsDetached(s, v) == s.bufs[s.views[v].buffer].detached
DataOf(s, v) == s.bufs[s.views[v].buffer].data
Position(s, v, idx) == s.views[v].offset + idx * Width(s.views[v].class)
Reach(s, v, idx, n) ==
  {<<s.views[v].buffer, p>> : p \in Positions(Position(s, v, idx), n * Width(s.views[v].class))}
ElementAt(s, v, idx) == ValueOf(s.views[v].class, get_u(DataOf(s, v), Position(s, v, idx), Width(s.views[v].class)))
Stored(s, v, idx, x) ==
  [s EXCEPT !.bufs[s.views[v].buffer].data = put_u(@, Position(s, v, idx), Width(s.views[v].class), x)]
StoredAll(s, v, from, xs) ==
  FoldLeft(LAMBDA r, i : Stored(r, v, from + i - 1, JS_ToElement(s.views[v].class, xs[i])),
           s, [i \in 1 .. Len(xs) |-> i])
AllElements(s, v, from, n) == [i \in 1 .. n |-> ElementAt(s, v, from + i - 1)]

-----------------------------------------------------------------------------
(* Constructors.                                                           *)

js_typed_array_constructor(s, c) ==
  LET w == Width(c.class)
      size == Len(s.bufs[c.b].data)
      n == IF c.len = <<>> THEN (size - c.offset) \div w ELSE c.len[1]
      bad_offset == c.offset % w # 0 \/ c.offset > size
      bad_length == IF c.len = <<>> THEN size % w # 0 ELSE n < 0 \/ c.offset + n * w > size
  IN IF c.offset < 0 THEN Throws(s, "RangeError")
     ELSE IF s.bufs[c.b].detached THEN Throws(s, "TypeError")
     ELSE IF bad_offset \/ bad_length THEN Throws(s, "RangeError")
     ELSE Effect(NewView(s, c.class, c.b, c.offset, n), "made")

js_typed_array_constructor_obj(s, c) ==
  LET made == NewTyped(s, c.class, Zeros(Len(c.items) * Width(c.class)))
  IN Effect(StoredAll(made, Len(made.views), 0, c.items), "made")

js_typed_array_constructor_ta(s, c) ==
  LET count == s.views[c.v].count
      made == NewTyped(s, c.class, Zeros(count * Width(c.class)))
      new == Len(made.views)
      same == c.class = s.views[c.v].class
      copied == [made EXCEPT !.bufs[Len(made.bufs)].data =
                   memmove(@, 0, DataOf(s, c.v), s.views[c.v].offset, Len(@))]
  IN IF IsDetached(s, c.v) THEN Throws(s, "TypeError")
     ELSE Effect(IF same THEN copied ELSE StoredAll(made, new, 0, AllElements(s, c.v, 0, count)), "made")

js_dataview_constructor(s, c) ==
  LET size == Len(s.bufs[c.b].data)
      len == IF c.len = <<>> THEN size - c.offset ELSE c.len[1]
  IN IF c.offset < 0 THEN Throws(s, "RangeError")
     ELSE IF s.bufs[c.b].detached THEN Throws(s, "TypeError")
     ELSE IF c.offset > size \/ len \notin 0 .. size - c.offset THEN Throws(s, "RangeError")
     ELSE Effect(typed_array_init(s, "dataview", c.b, c.offset, len, 0), "made")

(* The copy is allocated first, and stays when the buffer is detached.     *)
js_array_buffer_slice(s, c) ==
  LET size == Len(s.bufs[c.b].data)
      start == Clamped(c.args, 1, c.size, 0)
      new_len == Max({Clamped(c.args, 2, c.size, c.size) - start, 0})
      made == js_array_buffer_constructor(s, memmove(Zeros(new_len), 0, s.bufs[c.b].data, start, new_len),
                                          s.bufs[c.b].shared)
  IN IF s.bufs[c.b].detached THEN Throws(s, "TypeError")
     ELSE Reaching([made EXCEPT !.held = @ \cup {Len(made.bufs)}], "made",
                   {<<c.b, p>> : p \in Positions(start, new_len)})

-----------------------------------------------------------------------------
(* Elements, and values at any position of a DataView.                     *)

TypedGetPropertyValue(s, c) ==
  IF c.idx < s.views[c.v].count THEN Reaching(s, ElementAt(s, c.v, c.idx), Reach(s, c.v, c.idx, 1))
  ELSE IF IsDetached(s, c.v) THEN Throws(s, "TypeError") ELSE Effect(s, "undefined")

(* The bound is tested after the value was converted.                      *)
TypedSetPropertyValue(s, c) ==
  IF c.idx < s.views[c.v].count
  THEN Reaching(StoredAll(s, c.v, c.idx, <<c.x>>), "set", Reach(s, c.v, c.idx, 1))
  ELSE Throws(s, "TypeError")

AtView(s, c) == s.views[c.v].offset + c.pos
js_dataview_getValue(s, c) ==
  LET w == Width(c.class)
      v == get_u(DataOf(s, c.v), AtView(s, c), w)
  IN IF c.pos < 0 THEN Throws(s, "RangeError") ELSE IF IsDetached(s, c.v) THEN Throws(s, "TypeError")
     ELSE IF c.pos + w > s.views[c.v].length THEN Throws(s, "RangeError")
     ELSE Reaching(s, ValueOf(c.class, IF c.little THEN v ELSE bswap(v, w)),
                   {<<s.views[c.v].buffer, p>> : p \in Positions(AtView(s, c), w)})

js_dataview_setValue(s, c) ==
  LET w == Width(c.class)
      x == c.x % Modulus(c.class)
  IN IF c.pos < 0 THEN Throws(s, "RangeError") ELSE IF IsDetached(s, c.v) THEN Throws(s, "TypeError")
     ELSE IF c.pos + w > s.views[c.v].length THEN Throws(s, "RangeError")
     ELSE Reaching([s EXCEPT !.bufs[s.views[c.v].buffer].data =
                      put_u(@, AtView(s, c), w, IF c.little THEN x ELSE bswap(x, w))], "set",
                   {<<s.views[c.v].buffer, p>> : p \in Positions(AtView(s, c), w)})

(* Atomics: what was there, and a new element. The operations work on the  *)
(* unsigned number in memory.                                              *)
AtomicFetch(how, a, v, rep) ==
  CASE how = "add" -> a + v [] how = "sub" -> a - v
    [] how = "and" -> a & v [] how = "or" -> a | v [] how = "xor" -> a ^^ v
    [] how \in {"exchange", "store"} -> v
    [] how = "compareExchange" -> IF a = v THEN rep ELSE a
    [] how = "load" -> a

js_atomics_op(s, c) ==
  LET class == s.views[c.v].class
      a == get_u(DataOf(s, c.v), Position(s, c.v, c.idx), Width(class))
      new == AtomicFetch(c.how, a, JS_ToUint32(class, c.x), c.rep)
  IN IF s.views[c.v].class \in {"uint8c", "dataview"} \/ ~s.bufs[s.views[c.v].buffer].shared
     THEN Throws(s, "TypeError")
     ELSE IF c.idx >= s.views[c.v].count THEN Throws(s, "RangeError")
     ELSE Reaching(StoredAll(s, c.v, c.idx, <<new>>), IF c.how = "store" THEN c.x ELSE ValueOf(class, a),
                   Reach(s, c.v, c.idx, 1))

-----------------------------------------------------------------------------
(* Methods; len is the length before the arguments were converted.         *)

js_typed_array_fill(s, c, len) ==
  LET k == Clamped(c.args, 2, len, 0)
      n == Max({Clamped(c.args, 3, len, len) - k, 0})
  IN Reaching(StoredAll(s, c.v, k, [i \in 1 .. n |-> c.args[1]]), "done", Reach(s, c.v, k, n))

js_typed_array_copyWithin(s, c, len) ==
  LET to == Clamped(c.args, 1, len, 0)
      from == Clamped(c.args, 2, len, 0)
      count == Max({Min({Clamped(c.args, 3, len, len) - from, len - to}), 0})
      bytes == count * Width(s.views[c.v].class)
  IN Reaching([s EXCEPT !.bufs[s.views[c.v].buffer].data =
                 memmove(@, Position(s, c.v, to), @, Position(s, c.v, from), bytes)], "done",
              Reach(s, c.v, to, count) \cup Reach(s, c.v, from, count))

js_typed_array_reverse(s, c, len) ==
  Reaching(StoredAll(s, c.v, 0, Reverse(AllElements(s, c.v, 0, len))), "done", Reach(s, c.v, 0, len))

(* Only a value that the type has can be found.                            *)
CanHold(class, x) == ValueOf(class, x % Modulus(class)) = x
PlacesOf(s, v, there, x) ==
  IF CanHold(s.views[v].class, x) THEN {i \in there : ElementAt(s, v, i) = x} ELSE {}
js_typed_array_indexOf(s, c, len) ==
  LET last == c.how = "lastIndexOf"
      k == IF ~last THEN Clamped(c.args, 2, len, 0)
           ELSE IF Len(c.args) < 2 THEN len - 1
           ELSE IF c.args[2] >= 0 THEN Min({c.args[2], len - 1}) ELSE c.args[2] + len
      there == IF last THEN 0 .. k ELSE k .. len - 1
      found == PlacesOf(s, c.v, there, c.args[1])
      res == IF found = {} THEN -1 ELSE IF last THEN Max(found) ELSE Min(found)
  IN Reaching(s, IF c.how = "includes" THEN res >= 0 ELSE res,
              UNION {Reach(s, c.v, i, 1) : i \in there})

(* A species of the program answers a view of its own (c.own).             *)
js_typed_array_create(s, class, count, own) ==
  IF own = {} THEN Effect(NewTyped(s, class, Zeros(count * Width(class))), Len(s.views) + 1)
  ELSE LET v == CHOOSE x \in own : TRUE IN
       IF IsDetached(s, v) \/ s.views[v].count < count THEN Throws(s, "TypeError") ELSE Effect(s, v)

js_typed_array_slice(s, c, len) ==
  LET start == Clamped(c.args, 1, len, 0)
      count == Max({Clamped(c.args, 2, len, len) - start, 0})
      made == js_typed_array_create(s, s.views[c.v].class, count, c.own)
      arr == made.ret
      Size(v) == s.views[v].length \div Width(s.views[v].class)
      same == made.s.views[arr].class = s.views[c.v].class /\ Size(c.v) >= start + count
      copied == [made.s EXCEPT !.bufs[made.s.views[arr].buffer].data =
                   memmove(@, Position(made.s, arr, 0), DataOf(s, c.v), Position(s, c.v, start),
                           count * Width(s.views[c.v].class))]
  IN IF made.error # "none" \/ (count > 0 /\ IsDetached(s, c.v)) THEN Throws(s, "TypeError")
     ELSE IF count = 0 THEN Effect(made.s, arr)
     ELSE Reaching(IF same THEN copied ELSE StoredAll(made.s, arr, 0, AllElements(s, c.v, start, count)), arr,
                   Reach(s, c.v, start, count))

js_typed_array_subarray(s, c, len) ==
  LET start == Clamped(c.args, 1, len, 0)
      count == Max({Clamped(c.args, 2, len, len) - start, 0})
      offset == IF IsDetached(s, c.v) THEN 0 ELSE s.views[c.v].offset
      made == js_typed_array_constructor(s, [class |-> s.views[c.v].class, b |-> s.views[c.v].buffer,
                offset |-> offset + start * Width(s.views[c.v].class), len |-> <<count>>])
  IN [made EXCEPT !.ret = Len(made.s.views)]

(* set: of a view of the same type the bytes, else element by element.     *)
js_typed_array_set(s, c) ==
  LET src_len == s.views[c.from].count
      room == s.views[c.v].count - src_len
      at == Reach(s, c.v, c.offset, src_len) \cup Reach(s, c.from, 0, src_len)
      copied == [s EXCEPT !.bufs[s.views[c.v].buffer].data =
                   memmove(@, Position(s, c.v, c.offset), DataOf(s, c.from), s.views[c.from].offset,
                           src_len * Width(s.views[c.from].class))]
  IN IF c.offset < 0 THEN Throws(s, "RangeError")
     ELSE IF IsDetached(s, c.v) \/ IsDetached(s, c.from) THEN Throws(s, "TypeError")
     ELSE IF c.offset > room THEN Throws(s, "RangeError")
     ELSE IF s.views[c.v].class = s.views[c.from].class THEN Reaching(copied, "done", at)
     ELSE Reaching(StoredAll(s, c.v, c.offset, AllElements(s, c.from, 0, src_len)), "done", at)

(* set from a list; the getter of its element c.detach detaches, 0 is the  *)
(* conversion of the offset.                                               *)
SetItem(s, c, i) == TypedSetPropertyValue(s, [v |-> c.v, idx |-> c.offset + i - 1, x |-> c.items[i]])
js_typed_array_set_items(s, c) ==
  LET room == s.views[c.v].count - Len(c.items)
      Next1(e, i) ==
        LET turn == SetItem(IF c.detach = i THEN JS_DetachArrayBuffer(e.s, s.views[c.v].buffer) ELSE e.s, c, i)
        IN IF e.error # "none" THEN e ELSE [turn EXCEPT !.at = @ \cup e.at]
  IN IF c.offset < 0 THEN Throws(s, "RangeError")
     ELSE IF IsDetached(s, c.v) THEN Throws(s, "TypeError")
     ELSE IF c.offset > room THEN Throws(s, "RangeError")
     ELSE FoldLeft(Next1, Effect(s, "done"), [i \in 1 .. Len(c.items) |-> i])

(* sort: the elements themselves, or their indices by the comparison of a  *)
(* program, which may detach the buffer: then nothing is written.          *)
Ascending(vals) == [p \in vals \X vals |-> IF p[1] < p[2] THEN -1 ELSE IF p[1] > p[2] THEN 1 ELSE 0]
js_TA_cmp_generic(how, vals) ==
  [p \in vals \X vals |-> IF how = "descending" THEN -Ascending(vals)[p] ELSE Ascending(vals)[p]]
js_typed_array_sort(s, c, len) ==
  LET compare == js_TA_cmp_generic(c.how, {ElementAt(s, c.v, i) : i \in 0 .. len - 1})
      Slot(t, i) == (i :> [val |-> ElementAt(s, c.v, i), pos |-> i]) @@ t
      sorted == rqsort([table |-> compare, stable |-> c.how # "default"], Repeat(Slot, << >>, len), 0, len, 0)
  IN IF len > 1 /\ IsDetached(s, c.v) THEN Throws(s, "TypeError")
     ELSE IF len <= 1 THEN Effect(s, "done")
     ELSE Reaching(StoredAll(s, c.v, 0, [i \in 1 .. len |-> sorted[i - 1].val]), "done", Reach(s, c.v, 0, len))

-----------------------------------------------------------------------------
(* The end of a view and of a buffer. A view keeps its buffer; a buffer    *)
(* that is freed on its own has no views any more (the assertion).         *)

js_typed_array_finalizer(s, v) ==
  [s EXCEPT !.views[v].live = FALSE, !.bufs[s.views[v].buffer].array_list = @ \ {v}]
js_array_buffer_finalizer(s, b) ==
  [s EXCEPT !.bufs[b].live = FALSE, !.broken = @ \/ s.bufs[b].array_list # {}]
FreeBuffer(s, b) ==
  IF b \in s.held \/ \E v \in DOMAIN s.views : s.views[v].live /\ s.views[v].buffer = b THEN s
  ELSE js_array_buffer_finalizer(s, b)

-----------------------------------------------------------------------------
(* A program: one operation after the other, each of those its plan names. *)
(* Every conversion of its arguments may be the one that detaches.         *)

typed == state.mem
LiveViews == {v \in DOMAIN typed.views : typed.views[v].live}
LiveBuffers == {b \in DOMAIN typed.bufs : typed.bufs[b].live}
Arrays1 == {v \in LiveViews : typed.views[v].class # "dataview"}
Turn(op) == state.mode = "typed" /\ state.k <= Len(state.plan) /\ op \in state.plan[state.k]

TypedInit ==
  state \in {[mode |-> "typed", plan |-> p.plan, k |-> 1, mem |-> p.mem, was |-> p.mem, op |-> "none",
              call |-> <<>>, len |-> 0, ret |-> 0, at |-> {}, error |-> "none"] : p \in TypedPrograms}

(* Program code runs when a call detaches; s is the memory afterwards.     *)
Converted(b, detach) == IF detach THEN JS_DetachArrayBuffer(typed, b) ELSE typed
Ends1(op, c, s, len, e) ==
  state' = [state EXCEPT !.k = IF e.error = "none" THEN @ + 1 ELSE Len(state.plan) + 1, !.mem = e.s, !.was = s,
              !.op = op, !.call = c, !.len = len, !.ret = e.ret, !.at = e.at, !.error = e.error]

(* Not: a constructor whose prototype getter detaches (see README).        *)
ConstructView ==
  \E op \in {"view", "dataview"} : /\ Turn(op)
    /\ \E b \in LiveBuffers, x \in TypedCalls[op] :
         LET s == Converted(b, x.detach)
             c == [b |-> b] @@ x
         IN Ends1(op, c, s, 0, IF op = "view" THEN js_typed_array_constructor(s, c) ELSE js_dataview_constructor(s, c))

ConstructFrom ==
  \/ /\ Turn("from")
     /\ \E v \in Arrays1, x \in TypedCalls["from"] :
          LET s == Converted(typed.views[v].buffer, x.detach)
              c == [v |-> v] @@ x
          IN Ends1("from", c, s, 0, js_typed_array_constructor_ta(s, c))
  \/ /\ Turn("items")
     /\ \E c \in TypedCalls["items"] : Ends1("items", c, typed, 0, js_typed_array_constructor_obj(typed, c))

AccessElement ==
  \E op \in {"get", "put", "atomics"} : /\ Turn(op)
    /\ \E v \in Arrays1, x \in TypedCalls[op] :
         LET s == Converted(typed.views[v].buffer, op = "put" /\ x.detach)
             c == [v |-> v] @@ x
         IN Ends1(op, c, s, 0, CASE op = "get" -> TypedGetPropertyValue(s, c) [] op = "put" -> TypedSetPropertyValue(s, c)
                                 [] OTHER -> js_atomics_op(s, c))

AccessDataView ==
  \E op \in {"getValue", "setValue"} : /\ Turn(op)
    /\ \E v \in LiveViews \ Arrays1, x \in TypedCalls[op] :
         LET s == Converted(typed.views[v].buffer, x.detach)
             c == [v |-> v] @@ x
         IN Ends1(op, c, s, 0, IF op = "getValue" THEN js_dataview_getValue(s, c) ELSE js_dataview_setValue(s, c))

TypedMethods == {"fill", "copyWithin", "reverse", "indexOf", "subarray", "sort", "setItems"}
MethodEffect(op, s, c, len) ==
  CASE op = "fill" -> js_typed_array_fill(s, c, len) [] op = "copyWithin" -> js_typed_array_copyWithin(s, c, len)
    [] op = "reverse" -> js_typed_array_reverse(s, c, len) [] op = "indexOf" -> js_typed_array_indexOf(s, c, len)
    [] op = "subarray" -> js_typed_array_subarray(s, c, len) [] op = "sort" -> js_typed_array_sort(s, c, len)
    [] op = "setItems" -> js_typed_array_set_items(s, c)

(* They begin with the test of the buffer (but for subarray and set). Not: *)
(* fill, copyWithin, indexOf with an argument that detaches (see README).  *)
CallTypedMethod ==
  \E op \in TypedMethods : /\ Turn(op)
    /\ \E v \in Arrays1, x \in TypedCalls[op] :
         LET c == [v |-> v] @@ x
             detaches == IF op = "setItems" THEN x.detach = 0 ELSE op \in {"subarray", "sort"} /\ x.detach
             s == Converted(typed.views[v].buffer, detaches)
             len == typed.views[v].count
         IN Ends1(op, c, s, len, IF op \notin {"subarray", "setItems"} /\ IsDetached(typed, v)
                                 THEN Throws(typed, "TypeError") ELSE MethodEffect(op, s, c, len))

(* slice may be given a species; not one over the same bytes.              *)
CallSlice ==
  /\ Turn("slice")
  /\ \E v \in Arrays1, x \in TypedCalls["slice"] :
       LET other == {u \in Arrays1 : typed.views[u].buffer # typed.views[v].buffer} IN
       \E own \in {{}} \cup (IF x.species THEN {{u} : u \in other} ELSE {}) :
         LET s == Converted(typed.views[v].buffer, x.detach)
             c == [v |-> v, own |-> own] @@ x
             len == typed.views[v].count
         IN Ends1("slice", c, s, len, IF IsDetached(typed, v) THEN Throws(typed, "TypeError")
                                      ELSE js_typed_array_slice(s, c, len))

(* set from a view; not one of another type over the same buffer, which    *)
(* "would require a temporary buffer".                                     *)
CallSet ==
  /\ Turn("set")
  /\ \E v \in Arrays1, from \in Arrays1, x \in TypedCalls["set"] :
       /\ \/ typed.views[v].class = typed.views[from].class
          \/ typed.views[v].buffer # typed.views[from].buffer
       /\ LET s == Converted(typed.views[v].buffer, x.detach)
              c == [v |-> v, from |-> from] @@ x
          IN Ends1("set", c, s, 0, js_typed_array_set(s, c))

SliceBuffer ==
  /\ Turn("bufslice")
  /\ \E b \in LiveBuffers, x \in TypedCalls["bufslice"] :
       LET s == Converted(b, x.detach)
           c == [b |-> b, size |-> Len(typed.bufs[b].data)] @@ x
       IN Ends1("bufslice", c, s, 0, IF typed.bufs[b].detached THEN Throws(typed, "TypeError")
                                     ELSE js_array_buffer_slice(s, c))

DetachBuffer ==
  /\ Turn("detach")
  /\ \E b \in LiveBuffers : LET s == JS_DetachArrayBuffer(typed, b) IN Ends1("detach", <<>>, s, 0, Effect(s, 0))

(* The program lets a buffer go, or its last reference to a view.          *)
DropBuffer ==
  /\ Turn("drop")
  /\ \E b \in typed.held : LET s == FreeBuffer([typed EXCEPT !.held = @ \ {b}], b)
                           IN Ends1("drop", <<>>, s, 0, Effect(s, 0))
DropView ==
  /\ Turn("drop")
  /\ \E v \in LiveViews : LET s == FreeBuffer(js_typed_array_finalizer(typed, v), typed.views[v].buffer)
                          IN Ends1("drop", <<>>, s, 0, Effect(s, 0))

TypedNext ==
  \/ ConstructView \/ ConstructFrom \/ AccessElement \/ AccessDataView \/ CallTypedMethod
  \/ CallSlice \/ CallSet \/ SliceBuffer \/ DetachBuffer \/ DropBuffer \/ DropView

-----------------------------------------------------------------------------
(* What memory means: an element is the number of its type whose bytes are *)
(* there.                                                                  *)
TypeRange(class) ==
  IF class \in Signed THEN -(Modulus(class) \div 2) .. Modulus(class) \div 2 - 1 ELSE 0 .. Modulus(class) - 1
HasBytes(y, bytes) == \A j \in DOMAIN bytes : bytes[j] = (y \div ByteValues ^ (j - 1)) % ByteValues
Number(class, bytes) == CHOOSE y \in TypeRange(class) : HasBytes(y, bytes)
Converts(class, x) ==
  IF class = "uint8c" THEN Meaning!Smaller(Meaning!Larger(x, 0), ByteValues - 1)
  ELSE CHOOSE y \in TypeRange(class) : (y - x) % Modulus(class) = 0

BytesOf(m, v, from, n) == SubSeq(m.bufs[m.views[v].buffer].data, m.views[v].offset + from + 1,
                                 m.views[v].offset + from + n)
Elements(m, v) ==
  LET w == Width(m.views[v].class)
  IN [i \in 1 .. m.views[v].count |-> Number(m.views[v].class, BytesOf(m, v, (i - 1) * w, w))]

(* The elements a method leaves, out of those before it.                   *)
Changed(op, c, old, class) ==
  LET n == Len(old)
      Start(i, default) == Meaning!PlaceOf(c.args, i, n, default)
      Put(from, items) == [i \in 1 .. n |-> IF i - from \in DOMAIN items THEN Converts(class, items[i - from]) ELSE old[i]]
      count == Meaning!Smaller(Start(3, n) - Start(2, 0), n - Start(1, 0))
  IN CASE op = "fill" -> [i \in 1 .. n |-> IF Start(2, 0) < i /\ i <= Start(3, n)
                                           THEN Converts(class, c.args[1]) ELSE old[i]]
       [] op = "copyWithin" -> [i \in 1 .. n |-> IF Start(1, 0) < i /\ i <= Start(1, 0) + count
                                                 THEN old[i - Start(1, 0) + Start(2, 0)] ELSE old[i]]
       [] op = "reverse" -> [i \in 1 .. n |-> old[n + 1 - i]]
       [] op = "put" -> Put(c.idx, <<c.x>>)
       [] op = "setItems" -> Put(c.offset, c.items)
       [] op = "set" -> Put(c.offset, Elements(state.was, c.from))
       [] op = "sort" -> IF c.how = "descending" THEN SortSeq(old, >) ELSE SortSeq(old, <)
       [] op = "atomics" ->
            LET a == old[c.idx + 1]
                x == Converts(class, c.x)
                Bit(y, i) == (y \div 2 ^ i) % 2 = 1
                Bits(Of(_)) == CHOOSE y \in TypeRange(class) :
                                 \A i \in 0 .. ByteValues * Width(class) - 1 : Bit(y, i) <=> Of(i)
                InBoth(i) == Bit(a, i) /\ Bit(x, i)
                InAny(i) == Bit(a, i) \/ Bit(x, i)
                InOne(i) == Bit(a, i) # Bit(x, i)
            IN Put(c.idx, <<CASE c.how = "add" -> a + x [] c.how = "sub" -> a - x
                              [] c.how = "and" -> Bits(InBoth) [] c.how = "or" -> Bits(InAny) [] c.how = "xor" -> Bits(InOne)
                              [] c.how \in {"exchange", "store"} -> x
                              [] c.how = "compareExchange" -> IF a = x THEN c.rep ELSE a [] OTHER -> a>>)
       [] OTHER -> old

Inside(from, to, n) == [i \in 1 .. Meaning!Larger(to - from, 0) |-> from + i]
Answered1(op, c, old, class) ==
  LET n == Len(old)
      part == Inside(Meaning!PlaceOf(c.args, 1, n, 0), Meaning!PlaceOf(c.args, 2, n, n), n)
      first == Meaning!PlaceOf(c.args, 2, n, 0)
      last == IF Len(c.args) < 2 THEN n ELSE IF c.args[2] < 0 THEN n + c.args[2] + 1 ELSE c.args[2] + 1
      Found1(is, x) == {i - 1 : i \in {j \in is : old[j] = x}}
      arr == Elements(typed, state.ret)
  IN CASE op = "get" -> IF c.idx < n THEN state.ret = old[c.idx + 1] ELSE state.ret = "undefined"
       [] op = "atomics" -> state.ret = IF c.how = "store" THEN c.x ELSE old[c.idx + 1]
       [] op = "indexOf" /\ c.how = "indexOf" -> state.ret = Meaning!FirstOf(Found1(first + 1 .. n, c.args[1]))
       [] op = "indexOf" /\ c.how = "includes" -> state.ret = (Found1(first + 1 .. n, c.args[1]) # {})
       [] op = "indexOf" /\ c.how = "lastIndexOf" ->
            state.ret = Meaning!LastOf(Found1(1 .. Meaning!Smaller(last, n), c.args[1]))
       [] op \in {"slice", "subarray"} ->
            /\ op = "slice" /\ c.own # {} => state.ret \in c.own
            /\ \A i \in DOMAIN part : arr[i] = Converts(typed.views[state.ret].class, old[part[i]])
            /\ op = "subarray" => typed.views[state.ret].buffer = typed.views[c.v].buffer
       [] OTHER -> TRUE

(* A method changes the elements of its array as it means to, and no byte  *)
(* beside them; a copy has the bytes of what was copied.                   *)
MethodMeant(op, c) ==
  LET m == state.was
      old == Elements(m, c.v)
      written == IF op = "slice" /\ c.own # {} THEN state.ret ELSE c.v
      Within(b, p) == /\ m.views[written].buffer = b
                      /\ p \in Positions(m.views[written].offset, m.views[written].length)
  IN /\ op # "slice" => Elements(typed, c.v) = Changed(op, c, old, m.views[c.v].class)
     /\ Answered1(op, c, old, m.views[c.v].class)
     /\ \A b \in DOMAIN m.bufs : \A p \in 0 .. Len(m.bufs[b].data) - 1 :
          ~Within(b, p) => typed.bufs[b].data[p + 1] = m.bufs[b].data[p + 1]

DataViewMeant(op, c) ==
  LET bytes == BytesOf(typed, c.v, c.pos, Width(c.class))
      ordered == IF c.little THEN bytes ELSE [i \in DOMAIN bytes |-> bytes[Len(bytes) + 1 - i]]
      Range1 == Positions(typed.views[c.v].offset + c.pos, Width(c.class))
      b == typed.views[c.v].buffer
  IN /\ IF op = "getValue" THEN state.ret = Number(c.class, ordered) ELSE HasBytes(c.x, ordered)
     /\ \A p \in 0 .. Len(typed.bufs[b].data) - 1 :
          op = "getValue" \/ p \notin Range1 => typed.bufs[b].data[p + 1] = state.was.bufs[b].data[p + 1]

CopyMeant(op, c) ==
  LET new == Elements(typed, Len(typed.views))
      old == Elements(state.was, c.v)
      class == typed.views[Len(typed.views)].class
  IN CASE op = "items" -> new = [i \in DOMAIN c.items |-> Converts(class, c.items[i])]
       [] op = "from" -> new = [i \in DOMAIN old |-> Converts(class, old[i])]
       [] op = "bufslice" ->
            typed.bufs[Len(typed.bufs)].data =
              LET part == Inside(Meaning!PlaceOf(c.args, 1, c.size, 0), Meaning!PlaceOf(c.args, 2, c.size, c.size), 0)
              IN [i \in DOMAIN part |-> state.was.bufs[c.b].data[part[i]]]

(* A view is in the list of its buffer as long as it lives and lies within *)
(* it, or has no element once the buffer is detached.                      *)
ViewFits(v) ==
  LET x == typed.views[v]  b == typed.bufs[x.buffer]
  IN /\ b.live /\ v \in b.array_list
     /\ IF b.detached THEN x.count = 0
        ELSE /\ x.offset + x.length <= Len(b.data)
             /\ x.class # "dataview" => x.length = x.count * Width(x.class) /\ x.offset % Width(x.class) = 0

(* INVARIANT: whatever detaches a buffer and whenever, and in whatever     *)
(* order views and buffers go, no operation reaches outside a buffer and   *)
(* no view outlives its own; on numbers of any width, views of any types   *)
(* over the same bytes, each operation does what it does on numbers.       *)
BuffersAsDefined ==
  state.mode = "typed" =>
    /\ ~typed.broken
    /\ \A v \in LiveViews : ViewFits(v)
    /\ \A b \in LiveBuffers : typed.bufs[b].array_list \subseteq LiveViews
    /\ \A x \in state.at : x[1] \in DOMAIN state.was.bufs => x[2] \in 0 .. Len(state.was.bufs[x[1]].data) - 1
    /\ state.error = "none" =>
         CASE state.op \in {"getValue", "setValue"} -> DataViewMeant(state.op, state.call)
           [] state.op \in {"items", "from", "bufslice"} -> CopyMeant(state.op, state.call)
           [] state.op \in {"get", "put", "atomics", "slice", "set"} \cup TypedMethods ->
                MethodMeant(state.op, state.call)
           [] OTHER -> TRUE
=============================================================================
