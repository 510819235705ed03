----------------------------- MODULE MCLibrary ------------------------------
(* What TLC asks of the parts of the library.                              *)
EXTENDS RegexpExec, RegexpMethods, Properties, ArrayMethods, TypedArrays, AtomicsWait, Compiling, MCCompiler, Serialization, Proxies

-----------------------------------------------------------------------------
(* The calls of array methods: arrays of up to three elements with and     *)
(* without gaps, with and without an inherited element, fast ones in both  *)
(* representations.                                                        *)

LOCAL Owns(n) == UNION {[S -> {1, 2}] : S \in SUBSET (0 .. n - 1)}
LOCAL NoGap(own) == DOMAIN own = 0 .. Cardinality(DOMAIN own) - 1
LOCAL Above == {<< >>, [k \in {1} |-> 2]}
LOCAL ArraysOf(n, aboves) ==
  UNION {{[own |-> f, above |-> ab, len |-> n, fast |-> q] :
            q \in IF NoGap(f) THEN BOOLEAN ELSE {FALSE}} : f \in Owns(n), ab \in aboves}
LOCAL Confusable == {Meaning!NaN, Meaning!PlusZero, Meaning!MinusZero}
LOCAL Alike ==
  UNION {{[own |-> f, above |-> << >>, len |-> n, fast |-> q] : f \in [0 .. n - 1 -> Confusable \cup {0}], q \in BOOLEAN} : n \in 1 .. 2}
LOCAL Small == UNION {ArraysOf(n, Above) : n \in 0 .. 3}

LOCAL Direct(methods, as, args, items, touch) ==
  [method : methods, a : as, args : args, items : items, others : {<<>>}, touch : touch]
LOCAL WithOthers(methods, as, args, others) ==
  [method : methods, a : as, args : args, items : {<<>>}, others : others, touch : {FALSE}]

(* Indices from both ends and past them.                                   *)
LOCAL Changing ==
  Direct({"pop", "shift", "reverse", "apply"}, Small, {<<>>}, {<<>>}, {FALSE})
  \cup Direct({"push", "unshift"}, Small, {<<>>}, {<<>>, <<1>>, <<2, 1>>}, {FALSE})
  \cup Direct({"fill"}, Small, {<<1, s, e>> : s \in -1 .. 2, e \in {0, 2, -1}}, {<<>>}, {TRUE})
  \cup Direct({"copyWithin"}, Small, {<<t, s, e>> : t \in {0, 1, -1}, s \in {0, 1, -2}, e \in {3, -1}},
              {<<>>}, {TRUE})
  \cup Direct({"splice"}, Small, {<<>>, <<1>>, <<-2, 0>>, <<0, 1>>, <<1, 5>>, <<5, 1>>},
              {<<>>, <<1>>, <<2, 1>>}, {TRUE})

(* Element 1 of an array that is flattened stands for the first of others, *)
(* 2 for the second.                                                       *)
LOCAL Only(as, v) == {x \in as : \A k \in DOMAIN x.own : x.own[k] = v}
LOCAL ReadOnly ==
  Direct({"slice"}, Small, {<<s, e>> : s \in {0, 1, -2, 4}, e \in {1, 3, -1}}, {<<>>}, {TRUE})
  \cup Direct({"indexOf", "includes", "lastIndexOf"}, Small,
              {<<1>>, <<0>>} \cup {<<2, i>> : i \in {0, 1, 2, -1, -4, 5}}, {<<>>}, {TRUE})
  \cup Direct({"indexOf", "includes", "lastIndexOf"}, Alike, {<<v>> : v \in Confusable}, {<<>>}, {FALSE})
  \cup WithOthers({"concat"}, Small, {<<>>}, {<<>>} \cup {<<x>> : x \in ArraysOf(2, {<< >>})})
  \cup WithOthers({"flat"}, ArraysOf(3, Above), {<<d>> : d \in 0 .. 2},
         {<<y>> : y \in Only(ArraysOf(2, {<< >>}), 2)}
         \cup {<<y, x>> : y \in {z \in ArraysOf(1, {<< >>}) : z.own = << >>},
                          x \in Only(ArraysOf(2, {<< >>}), 1)})

LOCAL Some == {x \in ArraysOf(3, Above) : \A k \in DOMAIN x.own : x.own[k] = IF k = 0 THEN 1 ELSE 2}
LOCAL WithCallback ==
  Direct(CallbackMethods \cup {"iterator"}, Some, {<<>>}, {<<>>}, {TRUE})
  \cup Direct({"reduce", "reduceRight"}, Some, {<<5>>}, {<<>>}, {TRUE})

(* Every comparison of two or three values, orders or not; lengths at      *)
(* which rqsort partitions, and at which it gives up to heapsortx.         *)
LOCAL Comparisons(n) == [{p \in (1 .. n) \X (1 .. n) : p[1] # p[2]} -> -1 .. 1]
LOCAL Sort(as, tables, touch) ==
  [method : {"sort"}, a : as, args : {<<>>}, items : {<<>>}, others : {<<>>}, touch : touch,
   compare : [table : tables, stable : BOOLEAN]]
LOCAL Table(n, own) == [own |-> own, above |-> << >>, len |-> n, fast |-> TRUE]
LOCAL Gapped ==
  UNION {{[own |-> f, above |-> ab, len |-> 3, fast |-> FALSE] :
            f \in UNION {[S -> 0 .. 2] : S \in SUBSET (0 .. 2)}} : ab \in Above}
LOCAL Sorting ==
  Sort(Gapped, Comparisons(2), {TRUE})
  \cup Sort({Table(7, f) : f \in [0 .. 6 -> {1, 2}]}, Comparisons(2), {FALSE})
  \cup Sort({Table(8, [i \in 0 .. 7 |-> ((i * 5) % 3) + 1]), Table(9, [i \in 0 .. 8 |-> ((i * i) % 3) + 1]),
             Table(16, [i \in 0 .. 15 |-> ((i * 7 + i \div 3) % 3) + 1])}, Comparisons(3), {FALSE})

MCArrayCalls == Changing \cup ReadOnly \cup WithCallback \cup Sorting
MCTouches == {"no", "grow", "far", "front", "hole", "shorter", "empty"}

-----------------------------------------------------------------------------
(* The programs over buffers: bytes of two bits, buffers of up to four     *)
(* bytes, two views over them, then one operation (or a few, and the end   *)
(* of some). Threads that wait for one another.                            *)

LOCAL Buffer(data, shared) == [data |-> data, detached |-> FALSE, shared |-> shared, array_list |-> {}, live |-> TRUE]
LOCAL Memory(buffers) == [bufs |-> buffers, views |-> <<>>, held |-> DOMAIN buffers, broken |-> FALSE]
LOCAL OneBuffer(shared) == Memory(<<Buffer(<<1, 2, 3, 0>>, shared)>>)
LOCAL Two == Memory(<<Buffer(<<1, 2, 3, 0>>, FALSE), Buffer(<<3, 3, 1>>, FALSE)>>)

LOCAL Classes == {"uint8c", "int8", "uint8", "int16", "uint32"}
LOCAL Numbers == {-3, 1, 6, 300}
LOCAL Indices == {0, 1, -1, 7}
LOCAL Ranges == {<<>>} \cup {<<i>> : i \in Indices} \cup {<<i, j>> : i \in Indices, j \in Indices}

MCTypedCalls ==
  [op \in {"view", "dataview", "items", "from", "get", "put", "atomics", "getValue", "setValue", "bufslice",
           "slice", "set"} \cup TypedMethods |->
     CASE op = "view" -> [class : Classes, offset : -1 .. 5, len : {<<>>, <<0>>, <<1>>, <<2>>, <<-1>>}, detach : BOOLEAN]
       [] op = "dataview" -> [offset : {-1, 0, 1, 4, 5}, len : {<<>>, <<2>>, <<5>>}, detach : BOOLEAN]
       [] op = "items" -> [class : Classes \cup {"uint16", "int32"}, items : {<<>>} \cup {<<x, y>> : x \in Numbers, y \in Numbers}]
       [] op = "from" -> [class : Classes, detach : BOOLEAN]
       [] op = "get" -> [idx : 0 .. 4]
       [] op = "put" -> [idx : 0 .. 4, x : Numbers, detach : BOOLEAN]
       [] op = "atomics" -> [idx : 0 .. 2, x : Numbers, rep : {2},
                             how : {"add", "sub", "and", "or", "xor", "exchange", "store", "load", "compareExchange"}]
       [] op = "getValue" -> [class : Classes, pos : -1 .. 4, little : BOOLEAN, detach : BOOLEAN]
       [] op = "setValue" -> [class : Classes, pos : -1 .. 4, little : BOOLEAN, detach : BOOLEAN, x : Numbers]
       [] op = "bufslice" -> [args : Ranges, detach : BOOLEAN]
       [] op = "slice" -> [args : Ranges, detach : BOOLEAN, species : BOOLEAN]
       [] op = "set" -> [offset : -1 .. 3, detach : BOOLEAN]
       [] op = "fill" -> [args : {<<x>> \o r : x \in Numbers, r \in Ranges}]
       [] op = "copyWithin" -> [args : {<<t>> \o r : t \in Indices, r \in Ranges}]
       [] op = "reverse" -> [none : {0}]
       [] op = "indexOf" -> [how : {"indexOf", "lastIndexOf", "includes"}, args : {<<x>> \o r : x \in {-3, 1, 3}, r \in {<<>>} \cup {<<i>> : i \in Indices}}]
       [] op = "subarray" -> [args : Ranges, detach : BOOLEAN]
       [] op = "sort" -> [how : {"default"}, detach : {FALSE}] \cup [how : {"ascending", "descending"}, detach : BOOLEAN]
       [] op = "setItems" -> [offset : -1 .. 2, items : {<<1>>, <<6, -3>>}, detach : -1 .. 2]]

LOCAL P(mem, plan) == [mem |-> mem, plan |-> plan]
LOCAL Methods == {"get", "put", "slice", "from", "fill", "copyWithin", "reverse", "indexOf", "subarray", "sort", "setItems"}
LOCAL Viewed(mem, c1, b1, n, c2, b2, offset) ==
  NewView(NewView(mem, c1, b1, 0, n), c2, b2, offset, 1)
LOCAL Viewing == {Viewed(Two, c1, 1, n, c2, b2, offset) : c1 \in Classes \ {"uint32"}, n \in 1 .. 2,
                    c2 \in Classes \ {"uint32"}, b2 \in 1 .. 2, offset \in {0}}
MCTypedPrograms ==
  {P(OneBuffer(FALSE), <<{"view"}, Methods>>), P(OneBuffer(TRUE), <<{"view"}, {"atomics", "bufslice"}>>),
   P(OneBuffer(FALSE), <<{"view"}, {"view"}, {"set", "detach"}, {"get"}>>),
   P(OneBuffer(FALSE), <<{"dataview"}, {"getValue", "setValue"}>>), P(Two, <<{"items", "bufslice"}>>)}
  \cup {P(m, <<{"slice", "set"}>>) : m \in Viewing}
  \cup {P(Viewed(Two, "int8", 1, 2, "int16", b, 0), <<{"drop", "detach", "dataview"}, {"drop"}, {"drop"}, {"drop"}>>) : b \in 1 .. 2}

-----------------------------------------------------------------------------
LOCAL O(kind, ptr, v, count, timeout, spurious) ==
  [kind |-> kind, ptr |-> ptr, v |-> v, count |-> count, timeout |-> timeout, spurious |-> spurious]
LOCAL Sets(ptr, v) == O("store", ptr, v, 0, FALSE, FALSE)
LOCAL WaitsAt(ptr, timeout, spurious) == O("wait", ptr, 0, 0, timeout, spurious)
LOCAL Notify(ptr, count) == O("notify", ptr, 0, count, FALSE, FALSE)
LOCAL Both(ptr) == <<Sets(ptr, 1), Notify(ptr, INT32_MAX)>>
MCWaitPrograms ==
  {<< <<WaitsAt(1, t1, FALSE)>> \o rest, <<WaitsAt(p2, FALSE, s2), WaitsAt(1, t1, FALSE)>>,
      Both(1) \o <<Notify(1, n)>> \o Both(2), <<Notify(1, m)>> >> :
     t1 \in BOOLEAN, p2 \in 1 .. 2, s2 \in BOOLEAN, n \in 0 .. 1, m \in 0 .. 1, rest \in {<<>>, Both(2)}}

-----------------------------------------------------------------------------
(* Questions: families of expressions, each with strings and flags.        *)

Plain == [utf16 |-> FALSE, ignore_case |-> FALSE, dotall |-> FALSE, sticky |-> FALSE,
          multi_line |-> FALSE]
Ask(ds, fs, strs, from) ==
  UNION {{[d |-> d, f |-> f, str |-> str, cindex |-> i] : i \in from \cap 0 .. Len(str)} :
         d \in ds, f \in fs, str \in strs}

a == Chr("a")
b == Chr("b")
Or(x, y) == << <<x>>, <<y>> >>
Opt(x) == Quant(x, 0, 1, TRUE)
Star(x) == Quant(x, 0, Infinity, TRUE)
Plus(x) == Quant(x, 1, Infinity, TRUE)
EndOfLine == Assertion("line_end")

Bodies == {<< <<>>, <<a>> >>, Or(a, b), << <<a, b>>, <<a>> >>, << <<Opt(a)>> >>, << <<a>> >>,
           << <<Quant(a, 0, 1, FALSE), Star(b)>> >>,
           << <<Look(<< <<b>> >>, FALSE, FALSE), Dot>>, <<a>> >>, << <<EndOfLine>>, <<Dot>> >>}
Bounds == {<<0, Infinity>>, <<1, Infinity>>, <<0, 1>>, <<2, 2>>, <<0, 2>>, <<2, Infinity>>, <<0, 0>>, <<1, 2>>}
Terms == {Group(d) : d \in Bodies} \cup {Capture(d) : d \in Bodies} \cup {a}

(* Not: a lazy loop whose turns may be empty, which the engine never       *)
(* leaves (see README).                                                    *)
Advances == {Or(a, b), << <<a, b>>, <<a>> >>, << <<a>> >>}
Loops == {Quant(t, mm[1], mm[2], TRUE) : t \in Terms, mm \in Bounds}
         \cup {Quant(t, mm[1], mm[2], FALSE) : t \in Terms, mm \in {x \in Bounds : x[2] # Infinity}}
         \cup {Quant(Capture(d), n, Infinity, FALSE) : d \in Advances, n \in 0 .. 2}
Repeated == {<< <<q>> \o rest >> : q \in Loops, rest \in {<<>>, <<b>>, <<EndOfLine>>}}

Short == {<<>>, <<"b">>, <<"a", "a">>, <<"b", "a", "b">>, <<"a", "a", "b">>, <<"a", "a", "a", "b">>}

(* Loops in loops, groups that are read again. *)
Nested ==
  {<< <<Quant(Group(<< <<q, r>> >>), mm[1], mm[2], TRUE), b>> >> :
     q \in {Capture(Or(a, b)), Star(Capture(<< <<a>> >>)), Quant(Capture(Or(a, b)), 1, 2, FALSE),
            Opt(Capture(<< <<a>> >>))},
     r \in {BackReference(1), a, Opt(b), Look(<< <<BackReference(1)>> >>, TRUE, FALSE)},
     mm \in Bounds}

(* Lookaheads and lookbehinds. *)
Back1 == BackReference(1)
Looks ==
  {<< <<x, Look(<< <<y, z>>, <<b>> >>, neg, back), w>> >> :
     x \in {Capture(<< <<Dot>> >>), Star(Capture(<< <<Dot>> >>))},
     y \in {a, Capture(Or(a, b)), Star(a), Back1},
     z \in {Capture(<< <<>>, <<b>> >>), Quant(Capture(Or(a, b)), 1, 2, TRUE), Back1,
            Assertion("word_boundary")},
     w \in {Dot, EndOfLine, Back1}, neg \in BOOLEAN, back \in BOOLEAN}

(* Flags. *)
Flags == {[Plain EXCEPT !.ignore_case = i, !.multi_line = l, !.dotall = s, !.sticky = y] :
            i \in BOOLEAN, l \in BOOLEAN, s \in BOOLEAN, y \in BOOLEAN}
Flagged ==
  {<< <<x, y>> >> :
     x \in {Class({"a", "newline"}, FALSE), Class({"A"}, TRUE), Capture(<< <<Dot>> >>), Chr("A"), Star(Dot)},
     y \in {Assertion("line_start"), EndOfLine, Assertion("not_word_boundary"),
            Assertion("word_boundary"), Opt(a), BackReference(1)}}
Mixed == {<<"A", "newline", "a">>, <<"a", "A">>, <<"newline", "b">>, <<"b", "newline", "a", "a">>}
Groups1(d) == \E i \in DOMAIN d[1] : d[1][i].is = "capture"

Unicode == [Plain EXCEPT !.utf16 = TRUE]
Pairs == {<<"a", "hi", "lo">>, <<"hi", "lo", "hi", "lo">>, <<"hi", "a", "lo">>, <<"hi", "hi", "lo", "lo">>}
Paired ==
  {<< <<x, y>> >> :
     x \in {Star(Dot), Plus(Class({"a", "pair"}, FALSE)), Star(Capture(<< <<Dot>> >>))},
     y \in {Chr("pair"), Chr("lo"), Dot, Look(<< <<Dot, Chr("lo")>> >>, FALSE, TRUE),
            Look(<< <<Chr("pair")>> >>, TRUE, TRUE)}}

(* The one expression here that runs out of memory. *)
Endless == {<< <<Star(Group(<< <<Capture(<< <<Opt(a)>> >>), BackReference(1)>> >>)), b>> >>}

RefersBack(d) == \E i \in DOMAIN d[1] : d[1][i].is = "backreference"
MCQuestions ==
  Ask(Repeated, {Plain}, Short, {0})
  \cup Ask(Nested \cup Endless, {Plain}, Short, {0})
  \cup Ask(Looks, {Plain}, {<<"a", "b", "a">>, <<"a", "a", "b", "b">>}, {0, 2})
  \cup Ask({d \in Flagged : RefersBack(d) => Groups1(d)}, Flags, Mixed, {0, 1})
  \cup Ask(Paired, {Plain, Unicode}, Pairs, {0})

-----------------------------------------------------------------------------
(* Calls: every table of matches over short texts. With pairs read as      *)
(* characters no match begins or ends inside one.                          *)

Tables(n, pairs, u) ==
  {e \in [0 .. n -> -1 .. n] : \A i \in 0 .. n :
     /\ e[i] = -1 \/ e[i] >= i
     /\ u => (i - 1 \in pairs => e[i] = -1) /\ e[i] - 1 \notin pairs}

Standard ==
  UNION {[method : {"exec", "match", "matchAll", "replace", "search", "split"}, len : {n},
          pairs : {p}, ends : Tables(n, p, u), g : BOOLEAN, y : BOOLEAN, u : {u},
          lastIndex : {0, 1, n + 1}, own : {TRUE}, empty : BOOLEAN] :
         n \in 0 .. 3, p \in {{}, {1}}, u \in BOOLEAN}

(* An exec of the program's own. *)
Odd == [method : {"match", "replace", "split", "matchAll"}, len : {2}, pairs : {{}},
        ends : {[i \in 0 .. 2 |-> -1]}, g : BOOLEAN, y : {FALSE}, u : {FALSE},
        lastIndex : {0}, own : {FALSE}, empty : {FALSE}]

MCCalls == {c \in Standard \cup Odd : c.empty => c.method = "replace"}

-----------------------------------------------------------------------------
(* Programs over objects. Object 1 is the prototype of arrays; keys 0 to 3 *)
(* are tagged integers, 4 a larger index, 5 is length, the others names.   *)

Program == [ops |-> {}, steps |-> 0, objects |-> {1, 2, 3}, classes |-> {"object"}, protos |-> {1},
            atoms |-> {}, descs |-> {}, values |-> {1}]
AllTrue == [value |-> 1, writable |-> TRUE, enumerable |-> TRUE, configurable |-> TRUE]
Hidden == [enumerable |-> FALSE]
Fixed == [value |-> 2, configurable |-> FALSE]
Constant == [writable |-> FALSE]
Computed == [get |-> 5, set |-> 6, enumerable |-> TRUE, configurable |-> TRUE]
Parts(r) == {[f \in x |-> r[f]] : x \in SUBSET DOMAIN r}

Shapes == [Program EXCEPT !.ops = {"new", "set", "define", "delete"}, !.steps = 7,
             !.objects = {2, 3, 4}, !.atoms = {6, 7, 9}, !.descs = {Hidden}]
Arrays == [Program EXCEPT !.ops = {"new", "define", "element", "set", "delete", "prevent"},
             !.steps = 5, !.objects = {2}, !.classes = {"array"}, !.values = {0, 2},
             !.atoms = {0, 1, 2, LastIndex, length}, !.descs = {AllTrue, Fixed, Constant}]
Descriptors ==
  [Program EXCEPT !.ops = {"new", "define", "set"}, !.steps = 4, !.objects = {2}, !.atoms = {6},
     !.descs = UNION {Parts(r) : r \in
       [value : {1, 2}, writable : BOOLEAN, enumerable : BOOLEAN, configurable : BOOLEAN]
       \cup [get : {5, UNDEFINED}, set : {6, UNDEFINED}, enumerable : BOOLEAN, configurable : BOOLEAN]}]
Prototypes ==
  [Program EXCEPT !.ops = {"new", "define", "set", "element", "reflect", "prototype", "delete"},
     !.steps = 6, !.classes = {"array", "object"}, !.atoms = {0, 1}, !.descs = {Computed, Constant}]

MCScenarios ==
  [x \in {"shapes", "array", "descriptors", "prototypes"} |->
     CASE x = "shapes" -> Shapes [] x = "array" -> Arrays
       [] x = "descriptors" -> Descriptors [] OTHER -> Prototypes]

-----------------------------------------------------------------------------
(* Written and read: names are one letter; objects are numbers of a heap.  *)

MCPredefined == << <<97>>, <<98>> >>
Name(c) == [int |-> FALSE, name |-> <<c>>]
IndexKey(n) == [int |-> TRUE, n |-> n]
Tag(t) == [tag |-> t, of |-> <<>>]
Int32(n) == [tag |-> "int32", of |-> [n |-> n]]
Ref(n) == [tag |-> "object", o |-> n]
StringOf(wide, chars) == [tag |-> "string", of |-> [str |-> [is_wide_char |-> wide, chars |-> chars]]]
Prop(k, v) == [key |-> k, enumerable |-> TRUE, symbol |-> FALSE, accessor |-> FALSE, value |-> v]
ObjectOf(props) == [class |-> "object", props |-> props]
ArrayWith(elems) == [class |-> "array", elems |-> elems, extensible |-> TRUE, raw |-> Tag("undefined")]
Accessor(k) == [Prop(k, Tag("null")) EXCEPT !.accessor = TRUE]
X == Name(120)
Y == Name(121)
Z == Name(122)

Tree == <<ObjectOf(<<Prop(Y, Int32(-65)), Prop(Name(98), Ref(2)), Prop(IndexKey(3), StringOf(1, <<120, 8364>>)),
                     [Prop(Z, Tag("null")) EXCEPT !.enumerable = FALSE], [Prop(Z, Tag("null")) EXCEPT !.symbol = TRUE],
                     Prop(X, StringOf(0, <<122>>))>>),
          ArrayWith(<<Tag("bool_true"), Tag("bool_false"), Tag("hole"), [tag |-> "float64", of |-> [u64 |-> 7]], Ref(3), Ref(3), Int32(70000)>>),
          ObjectOf(<<Prop(Y, Tag("null")), Prop(X, Int32(63))>>)>>
Circle(v) == <<ObjectOf(<<Prop(X, Ref(2))>>), ArrayWith(<<Int32(0), v>>)>>
Getter(v) == <<ArrayWith(<<Ref(2), v>>), ObjectOf(<<Prop(Y, Ref(3)), Accessor(X)>>), ObjectOf(<<Accessor(Z)>>)>>
Frozen == <<[ArrayWith(<<StringOf(0, <<97>>)>>) EXCEPT !.extensible = FALSE, !.raw = Ref(2)],
            [ArrayWith(<<StringOf(0, <<98>>)>>) EXCEPT !.extensible = FALSE]>>
Long == <<ArrayWith(<<StringOf(0, [i \in 1 .. 70 |-> 97 + (i % 26)])>>)>>
Date == <<ArrayWith(<<Ref(2), Ref(2)>>), [class |-> "date"]>>

Bits(fields, on) == [f \in {fields[i][1] : i \in DOMAIN fields} |-> IF f \in on THEN 1 ELSE 0]
Var(k, next, kind) == [var_name |-> k, scope_level |-> 1, scope_next |-> next,
                       flags |-> [Bits(VarFlags, {"is_lexical", "is_captured"}) EXCEPT !.var_kind = kind]]
Function(on, kind, code, size, cpool, debug) ==
  [flags |-> [Bits(FunctionFlags, on) EXCEPT !.func_kind = kind], js_mode |-> 1, func_name |-> X, arg_count |-> 1,
   var_count |-> 1, defined_arg_count |-> 0, stack_size |-> 200, closure_var_count |-> 1, cpool_count |-> Len(cpool),
   byte_code_len |-> size, local_count |-> 2, vardefs |-> <<Var(Y, -1, 9), Var(X, 0, 2)>>,
   closure_var |-> <<[var_name |-> Z, var_idx |-> 130,
                      flags |-> [Bits(ClosureFlags, {"is_arg", "is_lexical"}) EXCEPT !.var_kind = 5]]>>,
   byte_code |-> code, debug |-> debug, cpool |-> cpool]
InnerFunction == [tag |-> "function_bytecode", of |->
  Function({"need_home_object", "super_allowed"}, 2, <<>>, 0, <<Int32(-1)>>, <<>>)]
OuterFunction == [tag |-> "function_bytecode", of |->
  Function({"has_prototype", "arguments_allowed", "has_debug"}, 3,
           <<[op |-> 5], [op |-> 200, atom |-> Z], [op |-> 201, atom |-> Name(98)], [op |-> 200, atom |-> IndexKey(6)],
             [op |-> 200, atom |-> X]>>, 9, <<InnerFunction, Ref(1)>>,
           [filename |-> Name(97), line_num |-> 128, pc2line_len |-> 3, pc2line_buf |-> <<1, 2, 200>>])]
Module == [tag |-> "module", of |->
  [module_name |-> Name(109), req_count |-> 2, reqs |-> <<[module_name |-> Z], [module_name |-> Name(97)]>>,
   export_count |-> 2,
   exports |-> <<[export_type |-> 0, u |-> [var_idx |-> 1, export_name |-> X]],
                 [export_type |-> 1, u |-> [req_module_idx |-> 1, local_name |-> Y, export_name |-> Name(98)]]>>,
   star_count |-> 1, stars |-> <<[req_module_idx |-> 0]>>,
   import_count |-> 1, imports |-> <<[var_idx |-> 0, import_name |-> Name(97), req_module_idx |-> 1]>>,
   func_obj |-> OuterFunction]]

(* The atoms of a runtime beyond the predefined ones.                      *)
Writer == << <<120>>, <<122>>, <<121>>, <<109>> >>
MCObjectCalls ==
  UNION {[heap : {q[1]}, value : {q[2]}, writer : {Writer}, bytecode : q[3], rom : BOOLEAN,
          reader : {Writer, << <<109>>, <<121>> >>, << <<122>>, <<120>>, <<121>>, <<109>> >>}] :
    q \in {<<Tree, Ref(1), BOOLEAN>>, << <<>>, Tag("symbol"), {FALSE}>>, <<Circle(Ref(1)), Ref(1), {FALSE}>>, <<Circle(Ref(2)), Ref(1), {FALSE}>>,
           <<Circle(Tag("null")), Ref(1), {FALSE}>>, <<Getter(Tag("null")), Ref(1), {FALSE}>>,
           <<Getter(Ref(2)), Ref(1), {FALSE}>>, <<Getter(Ref(1)), Ref(1), {FALSE}>>, <<Frozen, Ref(1), BOOLEAN>>,
           <<Long, Ref(1), {FALSE}>>, <<Date, Ref(1), {FALSE}>>, <<Frozen, OuterFunction, BOOLEAN>>,
           <<Frozen, Module, BOOLEAN>>, << <<>>, Int32(-64), BOOLEAN>>}}

-----------------------------------------------------------------------------
(* Answers of traps.                                                       *)
MCProxyValues == {1, UNDEFINED}
MCProxyDescs == {AllTrue, [AllTrue EXCEPT !.configurable = FALSE], [value |-> UNDEFINED], [writable |-> FALSE],
                 [get |-> UNDEFINED, set |-> 1, configurable |-> FALSE]}

-----------------------------------------------------------------------------
Init == EngineInit \/ MethodsInit \/ ObjectsInit \/ ArrayInit \/ TypedInit \/ AtomicsInit \/ CompilingInit \/ SerialInit \/ ProxyInit
Next == EngineNext \/ MethodsNext \/ ObjectsNext \/ ArrayNext \/ TypedNext \/ AtomicsNext \/ CompilingNext \/ SerialNext \/ ProxyNext
Spec == Init /\ [][Next]_state
=============================================================================
