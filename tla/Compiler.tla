------------------------------ MODULE Compiler ------------------------------
(* The parser's code for expressions and statements (quickjs.c 20054-20190 *)
(* and 21170-25300): one pass over the text of a function emits operations *)
(* with labels. A program is a tree of records; is names the form of one.  *)
(* What the pass does for a form is a sequence of items, each of which is  *)
(* an operation, a step on the state of the pass or a tree again. Names    *)
(* are resolved and the code is improved later (CodeOptimizer). Not:       *)
(* functions, classes, templates, super, with, private names, conversion   *)
(* of keys.                                                                *)
EXTENDS Integers, Sequences
LOCAL INSTANCE SequencesExt
LOCAL INSTANCE Functions

-----------------------------------------------------------------------------
(* A function being compiled (JSFunctionDef): its code, its labels, the    *)
(* place of the last operation or 0, the statements around (BlockEnv, the  *)
(* innermost last), whether it keeps the value of its statements for eval; *)
(* and what the functions of the parser hold in their own variables: the   *)
(* assignments, calls and moves that have begun.                           *)

JS_NewFunctionDef(kind, eval) ==
  [code |-> <<>>, labels |-> <<>>, last |-> 0, top_break |-> <<>>, eval_ret_idx |-> <<eval>>, func_kind |-> kind,
   scope_level |-> 0, error |-> FALSE, lvalues |-> <<>>, calls |-> <<>>, marks |-> <<>>]

OpcodeXN(op, x, n) == [is |-> "op", op |-> op, x |-> x, n |-> n]
Opc(op) == OpcodeXN(op, "", 0)
OpcX(op, x) == OpcodeXN(op, x, 0)
OpcN(op, n) == OpcodeXN(op, "", n)
Times(n, op) == [i \in 1 .. n |-> Opc(op)]

emit(fd, ops) == IF ops = <<>> THEN fd ELSE [fd EXCEPT !.code = @ \o ops, !.last = Len(fd.code) + Len(ops)]
emit_op(fd, op) == emit(fd, <<Opc(op)>>)
js_parse_error(fd) == [fd EXCEPT !.error = TRUE]

get_prev_opcode(fd) == IF fd.last = 0 THEN "invalid" ELSE fd.code[fd.last].op
Ending == {"return", "return_undef", "return_async", "throw", "goto", "ret"}
js_is_live_code(fd) == get_prev_opcode(fd) \notin Ending
WithoutLast(fd) == [fd EXCEPT !.code = SubSeq(@, 1, fd.last - 1), !.last = 0]
LastAs(fd, op) == [fd EXCEPT !.code[fd.last].op = op]

(* Labels of one construct are taken together: a jump whose label is made  *)
(* with it (emit_goto of -1) leaves the label unplaced in dead code.       *)
new_label(fd) == Len(fd.labels) + 1
new_labels(fd, n) == [fd EXCEPT !.labels = @ \o [i \in 1 .. n |-> [ref_count |-> 0, pos |-> 0]]]
update_label(fd, label, delta) == [fd EXCEPT !.labels[label].ref_count = @ + delta]
emit_label(fd, label) ==
  [emit(fd, <<OpcN("label", label)>>) EXCEPT !.labels[label].pos = Len(fd.code) + 1]
emit_goto(fd, op, label) ==
  IF js_is_live_code(fd) THEN update_label(emit(fd, <<OpcN(op, label)>>), label, 1) ELSE fd

close_scopes(fd, scope, scope_stop) == emit(fd, Times(scope - scope_stop, "leave_scope"))

(* Code from a mark to the next is moved to the end.                       *)
MovedChunk(fd, first_label) ==
  LET from == fd.marks[Len(fd.marks) - 1]
      to == Last(fd.marks)
      offset == Len(fd.code) + 1 - from
      blank == [i \in 1 .. Len(fd.code) |-> IF i \in from .. to - 1 THEN Opc("nop") ELSE fd.code[i]]
  IN [fd EXCEPT !.code = blank \o SubSeq(@, from, to - 1), !.last = Len(fd.code) + to - from,
        !.marks = SubSeq(@, 1, Len(@) - 2),
        !.labels = SubSeq(@, 1, first_label - 1) \o [l \in 1 .. Len(@) + 1 - first_label |->
          LET v == @[first_label - 1 + l] IN IF v.pos \in from .. to - 1 THEN [v EXCEPT !.pos = @ + offset] ELSE v]]

-----------------------------------------------------------------------------
(* What can be assigned to: the last operation says what it was.           *)

LValue(op, x, label, depth) == [op |-> op, x |-> x, label |-> label, depth |-> depth]
WithLValue(fd, v) == [fd EXCEPT !.lvalues = Append(@, v)]
lvalue_of(fd) ==
  LET op == get_prev_opcode(fd)
  IN CASE op = "scope_get_var" -> LValue("get_ref_value", fd.code[fd.last].x, new_label(fd), 2)
       [] op = "get_field" -> LValue(op, fd.code[fd.last].x, 0, 1)
       [] op = "get_array_el" -> LValue(op, "", 0, 2)
       [] OTHER -> LValue("invalid", "", 0, 0)
get_lvalue(fd, keep) ==
  LET v == lvalue_of(fd)
      rest == WithLValue(WithoutLast(fd), v)
      ref == update_label(emit(new_labels(rest, 1), <<OpcodeXN("scope_make_ref", v.x, v.label)>>), v.label, 1)
      Value == [get_ref_value |-> <<Opc("get_ref_value")>>, get_field |-> <<OpcX("get_field2", v.x)>>,
                get_array_el |-> <<Opc("to_propkey2"), Opc("dup2"), Opc("get_array_el")>>]
      Place == IF v.op = "get_array_el" THEN <<Opc("to_propkey2")>> ELSE <<>>
  IN IF v.op = "invalid" THEN js_parse_error(fd)
     ELSE emit(IF v.op = "get_ref_value" THEN ref ELSE rest, IF keep THEN Value[v.op] ELSE Place)

TopLValue(fd) == Last(fd.lvalues)
Stored(fd) == [fd EXCEPT !.lvalues = Front(@)]

(* special: the old value stays below (x++).                               *)
put_lvalue(fd, special) ==
  LET v == TopLValue(fd)
  IN CASE v.op = "get_field" ->
            emit(Stored(fd), <<Opc(IF special THEN "perm3" ELSE "insert2"), OpcX("put_field", v.x)>>)
       [] v.op = "get_array_el" ->
            emit(Stored(fd), <<Opc(IF special THEN "perm4" ELSE "insert3"), Opc("put_array_el")>>)
       [] v.op = "get_ref_value" ->
            emit(emit_label(Stored(fd), v.label),
                 <<Opc(IF special THEN "perm4" ELSE "insert3"), Opc("put_ref_value")>>)
put_lvalue_nokeep(fd, tok) ==
  LET v == TopLValue(fd)
      put == IF tok \in {"let", "const"} THEN "scope_put_var_init" ELSE "scope_put_var"
  IN CASE v.op = "scope_get_var" -> emit(Stored(fd), <<OpcX(put, v.x)>>)
       [] v.op = "get_field" -> emit(Stored(fd), <<OpcX("put_field", v.x)>>)
       [] v.op = "get_array_el" -> emit_op(Stored(fd), "put_array_el")
       [] v.op = "get_ref_value" -> emit_op(emit_label(Stored(fd), v.label), "put_ref_value")

-----------------------------------------------------------------------------
(* Leaving statements: break and continue, and return.                     *)

BlockEnv(fd, label_name, label_break, label_cont, drop_count, label_finally, up) ==
  [label_name |-> label_name, label_break |-> label_break, label_cont |-> label_cont, drop_count |-> drop_count,
   label_finally |-> label_finally, scope_level |-> fd.scope_level - up, has_iterator |-> FALSE]
push_break_entry(fd, be) == [fd EXCEPT !.top_break = Append(@, be)]
pop_break_entry(fd) == [fd EXCEPT !.top_break = Front(@)]

(* One statement is left: its iterator is closed, what it keeps on the     *)
(* stack dropped, its finally called.                                      *)
LeftBlock(fd, top) ==
  LET closed == IF top.has_iterator THEN emit_op(fd, "iterator_close") ELSE fd
      dropped == emit(closed, Times(top.drop_count - (IF top.has_iterator THEN 3 ELSE 0), "drop"))
  IN IF top.label_finally = 0 THEN dropped
     ELSE emit_op(emit_goto(emit_op(dropped, "undefined"), "gosub", top.label_finally), "drop")
emit_break(fd, name, is_cont) ==
  LET Target(be) == IF is_cont THEN be.label_cont ELSE be.label_break
      Meant == {i \in DOMAIN fd.top_break :
                  Target(fd.top_break[i]) # 0 /\ name \in {"", fd.top_break[i].label_name}}
      to == CHOOSE i \in Meant : \A j \in Meant : j <= i
      Level(i) == IF i = Len(fd.top_break) THEN fd.scope_level ELSE fd.top_break[i + 1].scope_level
      Closed(f, i) == close_scopes(f, Level(i), fd.top_break[i].scope_level)
      Left(f, k) == LET i == Len(fd.top_break) + 1 - k IN LeftBlock(Closed(f, i), fd.top_break[i])
      left == FoldLeft(Left, fd, [k \in 1 .. Len(fd.top_break) - to |-> k])
  IN IF Meant = {} THEN js_parse_error(fd)
     ELSE emit_goto(Closed(left, to), "goto", Target(fd.top_break[to]))

(* Slip: what is on the stack stays there when a finally is called.        *)
Slip_return_through(r, top) ==
  LET has == [r EXCEPT !.fd = IF r.hasval THEN @ ELSE emit_op(@, "undefined"), !.hasval = TRUE]
  IN IF top.label_finally = 0 THEN r ELSE [has EXCEPT !.fd = emit_goto(@, "gosub", top.label_finally)]

(* One statement around a return. With yield the number of values to drop  *)
(* is unknown: the place of the iterator is looked for.                    *)
return_through(r, top) ==
  LET Valued(x) == [x EXCEPT !.fd = IF x.hasval THEN @ ELSE emit_op(@, "undefined"), !.hasval = TRUE]
      Closing(fd) ==
        LET next == new_label(fd)
            flag == emit(new_labels(fd, 1), <<Opc("iterator_close_return"), Opc("async_iterator_close")>>)
        IN IF fd.func_kind = "async_generator"
           THEN emit_op(emit_label(emit_op(emit_goto(flag, "if_true", next), "await"), next), "drop")
           ELSE emit(fd, <<Opc("iterator_close_return"), Opc("iterator_close")>>)
      closed == IF top.has_iterator THEN [Valued(r) EXCEPT !.fd = Closing(@), !.drop_count = -3] ELSE r
      count == closed.drop_count + top.drop_count
      dropped == [closed EXCEPT !.fd = emit(@, Times(count, IF closed.hasval THEN "nip" ELSE "drop")), !.drop_count = 0]
  IN IF top.label_finally = 0 THEN [closed EXCEPT !.drop_count = count]
     ELSE [Valued(dropped) EXCEPT !.fd = emit_goto(@, "gosub", top.label_finally)]
emit_return(fd, hasval) ==
  LET r == FoldRight(LAMBDA top, x : return_through(x, top), fd.top_break,
                     [fd |-> fd, hasval |-> hasval, drop_count |-> 0])
      async == IF ~r.hasval THEN emit_op(r.fd, "undefined")
               ELSE IF fd.func_kind = "async_generator" THEN emit_op(r.fd, "await") ELSE r.fd
  IN IF fd.func_kind # "normal" THEN emit_op(async, "return_async")
     ELSE emit_op(r.fd, IF r.hasval THEN "return" ELSE "return_undef")

-----------------------------------------------------------------------------
(* Steps on the state of the pass, as items.                               *)

Goto(op, l) == [is |-> "goto", op |-> op, l |-> l]
Label(l) == [is |-> "label", l |-> l]          \* made by new_label
Landing(l) == [is |-> "landing", l |-> l]      \* made by a jump, if that is there
Step(is) == [is |-> is]
GetLValue(keep) == [is |-> "get_lvalue", keep |-> keep]
PutLValue(special) == [is |-> "put_lvalue", special |-> special]
PutNoKeep(tok) == [is |-> "put_nokeep", tok |-> tok]
Declared(x) == [is |-> "declared", x |-> x]
ByDepth(ops) == [is |-> "by_depth", ops |-> ops]
Env(name, break, cont, drop, finally, up) ==
  [is |-> "env", name |-> name, break |-> break, cont |-> cont, drop |-> drop, finally |-> finally, up |-> up]
Move(l) == [is |-> "move", l |-> l]
Live(items) == [is |-> "live", items |-> items]

(* The callee is what the last operation read: with its object or alone.   *)
Methods == [get_field |-> "get_field2", get_array_el |-> "get_array_el2"]
parse_callee(fd, new) ==
  LET op == get_prev_opcode(fd)
      method == ~new /\ op \in DOMAIN Methods
      kept == IF method THEN LastAs(fd, Methods[op]) ELSE IF new THEN emit_op(fd, "dup") ELSE fd
  IN [kept EXCEPT !.calls = Append(@, IF new THEN "new" ELSE IF method THEN "method" ELSE "call")]
emit_func_call(fd, n, spread) ==
  LET how == Last(fd.calls)
      Call == [call |-> "call", method |-> "call_method", new |-> "call_constructor"]
      Receiver == IF how = "call" THEN <<Opc("undefined"), Opc("swap")>> ELSE <<Opc("perm3")>>
  IN emit([fd EXCEPT !.calls = Front(@)],
          IF spread THEN <<Opc("drop")>> \o Receiver \o <<OpcN("apply", IF how = "new" THEN 1 ELSE 0)>>
          ELSE <<OpcN(Call[how], n)>>)

js_parse_delete(fd) ==
  LET op == get_prev_opcode(fd)
      name == OpcX("push_atom_value", fd.code[fd.last].x)
  IN CASE op = "get_field" -> emit(WithoutLast(fd), <<name, Opc("delete")>>)
       [] op = "get_array_el" -> emit_op(WithoutLast(fd), "delete")
       [] op = "scope_get_var" -> LastAs(fd, "scope_delete_var")
       [] OTHER -> emit(fd, <<Opc("drop"), Opc("push_true")>>)
js_parse_typeof(fd) ==
  emit_op(IF get_prev_opcode(fd) = "scope_get_var" THEN LastAs(fd, "scope_get_var_undef") ELSE fd, "typeof")

(* What remains of an iterator is put into an array.                       *)
js_emit_spread_code(fd) ==
  LET next == new_label(fd)
      done == next + 1
      start == emit_label(emit(new_labels(fd, 2), <<OpcN("array_from", 0), OpcN("push_i32", 0)>>), next)
      step == emit_goto(emit(start, <<OpcN("for_of_next", 2 + TopLValue(fd).depth)>>), "if_true", done)
      loop == emit_goto(emit(step, <<Opc("define_array_el"), Opc("inc")>>), "goto", next)
  IN emit(emit_label(loop, done), Times(2, "drop"))

(* One item. *)
parse_step(fd, t) ==
  CASE t.is = "op" -> emit(fd, <<t>>)
    [] t.is = "goto" -> emit_goto(fd, t.op, t.l)
    [] t.is = "label" -> emit_label(fd, t.l)
    [] t.is = "landing" -> IF fd.labels[t.l].ref_count = 0 THEN fd ELSE emit_label(fd, t.l)
    [] t.is = "push_scope" -> [emit_op(fd, "enter_scope") EXCEPT !.scope_level = @ + 1]
    [] t.is = "pop_scope" -> [emit_op(fd, "leave_scope") EXCEPT !.scope_level = @ - 1]
    [] t.is = "env" -> push_break_entry(fd, BlockEnv(fd, t.name, t.break, t.cont, t.drop, t.finally, t.up))
    [] t.is = "unenv" -> pop_break_entry(fd)
    [] t.is = "iterates" -> [fd EXCEPT !.top_break[Len(fd.top_break)] = [@ EXCEPT !.has_iterator = TRUE, !.drop_count = @ + 2]]
    [] t.is = "iterator" -> [fd EXCEPT !.top_break[Len(fd.top_break)].has_iterator = TRUE]
    [] t.is = "mark" -> [fd EXCEPT !.marks = Append(@, Len(fd.code) + 1)]
    [] t.is = "move" -> MovedChunk(fd, t.l)
    [] t.is = "get_lvalue" -> get_lvalue(fd, t.keep)
    [] t.is = "put_lvalue" -> put_lvalue(fd, t.special)
    [] t.is = "put_nokeep" -> put_lvalue_nokeep(fd, t.tok)
    [] t.is = "declared" -> WithLValue(fd, LValue("scope_get_var", t.x, 0, 0))
    [] t.is = "stored" -> Stored(fd)
    [] t.is = "by_depth" -> IF TopLValue(fd).depth = 0 THEN fd ELSE emit_op(fd, t.ops[TopLValue(fd).depth])
    [] t.is = "next_value" -> emit(fd, <<OpcN("for_of_next", TopLValue(fd).depth)>>)
    [] t.is = "copy_rest" ->
         emit(fd, <<OpcN("copy_data_properties", 4 * (TopLValue(fd).depth + 1) + 32 * (TopLValue(fd).depth + 2))>>)
    [] t.is = "spread" -> js_emit_spread_code(fd)
    [] t.is = "callee" -> parse_callee(fd, t.new)
    [] t.is = "apply" -> emit_func_call(fd, t.n, t.spread)
    [] t.is = "delete_last" -> js_parse_delete(fd)
    [] t.is = "typeof_last" -> js_parse_typeof(fd)
    [] t.is = "forget" -> [fd EXCEPT !.last = 0]
    [] t.is = "break" -> emit_break(fd, t.name, t.cont)
    [] t.is = "emit_return" -> emit_return(fd, t.hasval)
    [] t.is = "eval_undefined" ->
         IF Last(fd.eval_ret_idx) THEN emit(fd, <<Opc("undefined"), OpcX("put_loc", "ret")>>) ELSE fd
    [] t.is = "eval_put" -> emit(fd, IF Last(fd.eval_ret_idx) THEN <<OpcX("put_loc", "ret")>> ELSE <<Opc("drop")>>)
    [] t.is = "eval_ret" -> [fd EXCEPT !.eval_ret_idx = Append(@, t.on)]
    [] t.is = "eval_old" -> [fd EXCEPT !.eval_ret_idx = Front(@)]

-----------------------------------------------------------------------------
(* Expressions: l is the first label that is free.                         *)

Concat(parts) == FlattenSeq(parts)
Maybe(cond, items) == IF cond THEN items ELSE <<>>
EachOf(seq, F(_)) == Concat([i \in 1 .. Len(seq) |-> F(seq[i])])

Primary(t) ==
  CASE t.is = "id" -> <<OpcX("scope_get_var", t.x)>>
    [] t.is = "int" -> <<OpcN("push_i32", t.n)>>
    [] t.is = "str" -> <<OpcX("push_atom_value", t.x)>>
    [] t.is = "const" -> <<Opc(t.op)>>
    [] t.is = "field" -> <<t.o, OpcX("get_field", t.x)>>
    [] t.is = "el" -> <<t.o, t.k, Opc("get_array_el")>>

(* Up to 32 elements are put on the stack, then elements at known places,  *)
(* then, from the first spread, elements at a place that is counted. A     *)
(* hole has no value and sets the length when it is the last.              *)
ArrayLiteral(t) ==
  LET n == Len(t.es)
      Spread(i) == t.es[i].is = "spread_of"
      Hole(i) == t.es[i].is = "hole"
      small == SelectInSeq(t.es \o <<Step("hole")>>, LAMBDA e : e.is \in {"hole", "spread_of"}) - 1
      fixed == SelectInSeq(t.es \o <<Step("spread_of")>>, LAMBDA e : e.is = "spread_of") - 1
      AtIndex(i) == IF Hole(i) THEN <<>> ELSE <<t.es[i], OpcN("define_field", i - 1)>>
      AtPlace(i) == IF Spread(i) THEN <<t.es[i].e, Opc("append")>>
                    ELSE Maybe(~Hole(i), <<t.es[i], Opc("define_array_el")>>) \o <<Opc("inc")>>
      LastSet == {i \in small + 1 .. n : ~Spread(i)}     \* need_length is kept by a spread
      need == IF LastSet = {} THEN FALSE ELSE Hole(CHOOSE i \in LastSet : \A j \in LastSet : j <= i)
  IN SubSeq(t.es, 1, small) \o <<OpcN("array_from", small)>>
     \o Concat([i \in 1 .. fixed - small |-> AtIndex(small + i)])
     \o IF fixed = n
        THEN Maybe(fixed > small /\ Hole(n), <<Opc("dup"), OpcN("push_i32", n), OpcX("put_field", "length")>>)
        ELSE <<OpcN("push_i32", fixed)>> \o Concat([i \in 1 .. n - fixed |-> AtPlace(fixed + i)])
             \o IF need THEN <<Opc("dup1"), OpcX("put_field", "length")>> ELSE <<Opc("drop")>>
ObjectLiteral(t) ==
  <<Opc("object")>>
  \o EachOf(t.props, LAMBDA p :
       CASE p.is = "spread_of" -> <<p.e, Opc("null"), OpcN("copy_data_properties", 6), Opc("drop"), Opc("drop")>>
         [] p.is = "named" -> <<p.e, OpcX("define_field", p.x)>>
         [] p.is = "computed" -> <<p.k, p.e, Opc("define_array_el"), Opc("drop")>>)

CallArguments(t) ==
  LET first == SelectInSeq(t.args \o <<Step("spread_of")>>, LAMBDA e : e.is = "spread_of")
      Rest == SubSeq(t.args, first, Len(t.args))
  IN SubSeq(t.args, 1, first - 1)
     \o IF Rest = <<>> THEN <<>>
        ELSE <<OpcN("array_from", first - 1), OpcN("push_i32", first - 1)>>
             \o EachOf(Rest, LAMBDA e : IF e.is = "spread_of" THEN <<e.e, Opc("append")>>
                                        ELSE <<e, Opc("define_array_el"), Opc("inc")>>)
Call(t) ==
  LET spread == \E i \in 1 .. Len(t.args) : t.args[i].is = "spread_of"
  IN <<t.f, [is |-> "callee", new |-> t.new]>> \o CallArguments(t)
     \o <<[is |-> "apply", n |-> Len(t.args), spread |-> spread]>>
PostfixUpdate(t) == <<t.l, GetLValue(TRUE), Opc("post_" \o t.op), PutLValue(TRUE)>>

Unary(t) ==
  CASE t.is = "unary" -> <<t.e, Opc(t.op)>>
    [] t.is = "void" -> <<t.e, Opc("drop"), Opc("undefined")>>
    [] t.is = "prefix" -> <<t.l, GetLValue(TRUE), Opc(t.op), PutLValue(FALSE)>>
    [] t.is = "typeof" -> <<t.e, Step("typeof_last")>>
    [] t.is = "delete" -> <<t.e, Step("delete_last")>>
    [] t.is = "await" -> <<t.e, Opc("await")>>
Binary(t) == <<t.a, t.b, Opc(t.op)>>

LogicalAndOr(t, l) ==
  <<t.es[1]>>
  \o EachOf(Tail(t.es), LAMBDA e : <<Opc("dup"), Goto(IF t.is = "and" THEN "if_false" ELSE "if_true", l), Opc("drop"), e>>)
  \o <<Label(l)>>
Conditional(t, l) ==
  <<t.c, Goto("if_false", l), t.a, Goto("goto", l + 1), Landing(l), t.b, Landing(l + 1)>>
Comma(t) == <<t.es[1]>> \o EachOf(Tail(t.es), LAMBDA e : <<Opc("drop"), e, Step("forget")>>)

Assignment(t) ==
  <<t.l, GetLValue(t.op # ""), t.e>> \o Maybe(t.op # "", <<Opc(t.op)>>) \o <<PutLValue(FALSE)>>
Yield(t, l) ==
  <<t.e>> \o (CASE t.star -> <<Opc("for_of_start"), Opc("drop"), Opc("yield_star")>>
                [] t.kind = "async_generator" -> <<Opc("await"), Opc("yield")>>
                [] OTHER -> <<Opc("yield")>>)
  \o <<Goto("if_false", l), [is |-> "emit_return", hasval |-> TRUE], Landing(l)>>

-----------------------------------------------------------------------------
(* Destructuring. The value is on the stack, or comes with the initializer *)
(* that is written after the pattern; tok: how its names are declared, ""  *)
(* when they are assigned to.                                              *)

Default(e, l) ==
  <<Opc("dup"), Opc("undefined"), Opc("strict_eq"), Goto("if_false", l), Opc("drop"), e, Landing(l)>>
Target(p, tok) == IF tok = "" THEN <<p.target, GetLValue(FALSE)>> ELSE <<Declared(p.target.x)>>

(* The key is remembered for the rest of an object pattern.                *)
Excluded(p, rest) ==
  IF ~rest THEN <<>>
  ELSE IF p.is = "computed" THEN <<Opc("perm3"), Opc("null"), Opc("define_array_el"), Opc("perm3")>>
  ELSE <<Opc("swap"), Opc("null"), OpcX("define_field", p.x), Opc("swap")>>
Key(p) == IF p.is = "computed" THEN <<p.k>> ELSE <<>>
PropertyPart(p, tok, rest, l) ==
  LET computed == p.is = "computed"
      Under == IF computed THEN <<"rot3r", "swap2">> ELSE <<"swap", "rot3l">>
      Get == IF computed THEN Opc("get_array_el") ELSE OpcX("get_field", p.x)
      Value == IF p.short /\ tok \in {"let", "const"} THEN <<OpcX("get_field2", p.x), Declared(p.x)>>
               ELSE IF p.short THEN <<Opc("dup"), p.target, GetLValue(FALSE), ByDepth(Under), Get>>
               ELSE <<Opc(IF computed THEN "dup1" ELSE "dup")>> \o Target(p, tok)
                    \o Maybe(tok = "", <<ByDepth(Under)>>) \o <<Get>>
      Nested == IF computed THEN <<Opc("get_array_el2"), [p.target EXCEPT !.tok = tok]>>
                ELSE <<OpcX("get_field2", p.x), [p.target EXCEPT !.tok = tok]>>
  IN CASE p.is = "rest" -> Target(p, tok) \o <<Opc("object"), Step("copy_rest"), PutNoKeep(tok)>>
       [] p.is # "rest" /\ p.target.is = "pattern" ->
            Key(p) \o Maybe(computed /\ rest, <<Opc("to_propkey")>>) \o Excluded(p, rest) \o Nested
       [] OTHER -> Key(p) \o Maybe(computed, <<Opc("to_propkey2")>>) \o Excluded(p, rest) \o Value
                   \o Maybe(p.default # <<>>, Default(p.default[1], l)) \o <<PutNoKeep(tok)>>
ObjectPattern(t, l) ==
  LET rest == \E i \in 1 .. Len(t.ps) : t.ps[i].is = "rest"
  IN <<Opc("to_object")>> \o Maybe(rest, <<Opc("object"), Opc("swap")>>)
     \o Concat([i \in 1 .. Len(t.ps) |-> PropertyPart(t.ps[i], t.tok, rest, l + i)])
     \o <<Opc("drop")>> \o Maybe(rest, <<Opc("drop")>>)

ElementPart(p, tok, l) ==
  CASE p.is = "hole" -> <<OpcN("for_of_next", 0), Opc("drop"), Opc("drop")>>
    [] p.is # "hole" /\ p.target.is = "pattern" ->
         (IF p.is = "rest" THEN <<Declared(""), Step("spread"), Step("stored")>>
          ELSE <<OpcN("for_of_next", 0), Opc("drop")>>) \o <<[p.target EXCEPT !.tok = tok]>>
    [] OTHER ->
         Target(p, tok) \o (IF p.is = "rest" THEN <<Step("spread")>> ELSE <<Step("next_value"), Opc("drop")>>)
         \o Maybe(p.default # <<>>, Default(p.default[1], l)) \o <<PutNoKeep(tok)>>
ArrayPattern(t, l) ==
  <<Env("", 0, 0, 2, 0, 0), Step("iterator"), Opc("for_of_start")>>
  \o Concat([i \in 1 .. Len(t.ps) |-> ElementPart(t.ps[i], t.tok, l + i)])
  \o <<Opc("iterator_close"), Step("unenv")>>

Destructuring(t, l) ==
  LET parse == l
      assign == l + 1
      done == l + 2
      Test == <<Opc("dup"), Opc("undefined"), Opc("strict_eq")>>
      Pattern == IF t.array THEN ArrayPattern(t, done) ELSE ObjectPattern(t, done)
      Before == IF t.init = <<>> THEN Times(5, "nop")
                ELSE IF t.hasval THEN Test \o <<Goto("if_true", parse), Label(assign)>>
                ELSE <<Goto("goto", parse), Label(assign), Opc("dup")>>
      After == IF t.init = <<>> THEN <<>>
               ELSE <<Goto("goto", done), Label(parse)>> \o Maybe(t.hasval, <<Opc("drop")>>)
                    \o <<t.init[1], Goto("goto", assign), Landing(done)>>
  IN Before \o Pattern \o After

-----------------------------------------------------------------------------
(* Statements.                                                             *)

EvalUndefined == Step("eval_undefined")
Block(stmts) == IF stmts = <<>> THEN <<>> ELSE <<Step("push_scope")>> \o stmts \o <<Step("pop_scope")>>
Declarations(t) ==
  EachOf(t.decls, LAMBDA d :
    CASE d.target.is = "pattern" -> <<Opc("undefined"), [d.target EXCEPT !.tok = t.tok]>>
      [] d.target.is # "pattern" /\ t.tok = "var" ->
           IF d.e = <<>> THEN <<>> ELSE <<d.target, GetLValue(FALSE), d.e[1], PutLValue(FALSE), Opc("drop")>>
      [] OTHER -> (IF d.e = <<>> THEN <<Opc("undefined")>> ELSE d.e) \o <<OpcX("scope_put_var_init", d.target.x)>>)
(* The start of the iteration, the target moved behind it, the body, the   *)
(* next value and the end.                                                 *)
EachIteration(t, cont, body, break, next) ==
  LET Of == t.is = "for_of"
      Start == IF ~Of THEN <<Opc("for_in_start")>> ELSE IF t.await THEN <<Opc("for_await_of_start")>> ELSE <<Opc("for_of_start")>>
      Next == IF ~Of THEN <<Opc("for_in_next")>>
              ELSE IF t.await THEN <<Opc("for_await_of_next"), Opc("await"), Opc("iterator_get_value_done")>>
              ELSE <<OpcN("for_of_next", 0)>>
  IN Start \o <<Goto("goto", cont), Move(cont), Label(body), t.body, Opc("leave_scope"), Label(cont)>>
     \o Next \o <<Goto("if_false", next), Opc("drop"), Label(break), Opc(IF Of THEN "iterator_close" ELSE "drop"),
                   Step("unenv"), Step("pop_scope")>>
ForInOf(t, cont) ==
  LET body == cont + 1
      break == cont + 2
      next == cont + 3
      expr == cont + 4
      Of == t.is = "for_of"
      Put == IF t.target.is = "pattern" THEN <<[t.target EXCEPT !.tok = t.tok]>>
              ELSE IF t.tok = "" THEN <<t.target, GetLValue(FALSE), ByDepth(<<"swap", "rot3l">>), PutNoKeep("")>>
              ELSE <<Declared(t.target.x), PutNoKeep(t.tok)>>
  IN <<EvalUndefined, Step("push_scope"), Env(t.label, break, cont, 1, 0, 1), Goto("goto", expr), Step("mark"), Label(next)>>
     \o Put \o <<Goto("goto", body), Step("mark"), Landing(expr)>> \o Maybe(Of, <<Step("iterates")>>)
     \o <<t.e, Opc("leave_scope")>> \o EachIteration(t, cont, body, break, next)

If(t, l) ==
  <<Step("push_scope"), EvalUndefined, t.c, Goto("if_false", l), t.a>>
  \o (IF t.b = <<>> THEN <<Landing(l)>> ELSE <<Goto("goto", l + 1), Landing(l), t.b[1], Landing(l + 1)>>)
  \o <<Step("pop_scope")>>
While(t, cont) ==
  LET break == cont + 1
  IN <<Env(t.label, break, cont, 0, 0, 0), EvalUndefined, Label(cont), t.c, Goto("if_false", break), t.body,
       Goto("goto", cont), Label(break), Step("unenv")>>
DoWhile(t, cont) ==
  LET break == cont + 1
      again == cont + 2
  IN <<Env(t.label, break, cont, 0, 0, 0), Label(again), EvalUndefined, t.body, Label(cont), t.c,
       Goto("if_true", again), Label(break), Step("unenv")>>
For(t, l) ==
  LET body == l + 2
      break == l + 3
      test == IF t.test = <<>> THEN body ELSE l
      cont == IF t.step = <<>> THEN test ELSE l + 1
      moved == t.test # <<>> /\ t.step # <<>>
      Init == EachOf(t.init, LAMBDA i : IF i.is = "expr" THEN <<i.e, Opc("drop")>> ELSE <<i>>)
  IN <<EvalUndefined, Step("push_scope")>> \o Maybe(t.init # <<>>, Init \o <<Opc("leave_scope")>>)
     \o <<Env(t.label, break, cont, 0, 0, 0)>>
     \o Maybe(t.test # <<>>, <<Label(test)>> \o t.test \o <<Goto("if_false", break)>>)
     \o Maybe(t.step # <<>>, <<Goto("goto", body)>> \o Maybe(moved, <<Step("mark")>>) \o <<Label(cont)>> \o t.step
              \o <<Opc("drop")>> \o Maybe(test # body, <<Goto("goto", test)>>))
     \o Maybe(moved, <<Step("mark")>>) \o <<Label(body), t.body, Opc("leave_scope")>>
     \o (IF moved THEN <<Move(cont)>> ELSE <<Goto("goto", cont)>>) \o <<Label(break), Step("unenv"), Step("pop_scope")>>

(* A case that fails goes to the next one, and the last one that can fail  *)
(* to the default. Cases that follow each other share their body.          *)
Switch(t, break) ==
  LET n == Len(t.cases)
      Case(i) == i \in 1 .. n /\ ~t.cases[i].default
      Joined(i) == Case(i) /\ Case(i - 1) /\ t.cases[i - 1].body = <<>>
      Ends(i) == Case(i) /\ ~Joined(i + 1)
      Fails(i) == break + i
      Begins(i) == break + n + (CHOOSE j \in 1 .. i : ~Joined(j) /\ \A k \in j + 1 .. i : Joined(k))
      (* label_case before clause i. *)
      Pending(i) == LET ends == {j \in 1 .. i - 1 : Ends(j) \/ (~Case(j) /\ j = 1)}
                    IN IF ends = {} THEN 0 ELSE Fails(CHOOSE j \in ends : \A k \in ends : k <= j)
      Tested(i) ==
        Maybe(~Joined(i) /\ Pending(i) # 0, <<Goto("goto", Begins(i)), Landing(Pending(i))>>)
        \o <<Opc("dup"), t.cases[i].e, Opc("strict_eq")>>
        \o IF Ends(i) THEN <<Goto("if_false", Fails(i)), Landing(Begins(i))>> ELSE <<Goto("if_true", Begins(i))>>
      Otherwise(i) == Maybe(Pending(i) = 0, <<Goto("goto", Fails(i))>>) \o <<Label(Pending(n + 1))>>
      HasDefault == \E i \in 1 .. n : t.cases[i].default
  IN <<EvalUndefined, t.e, Step("push_scope"), Env("", break, 0, 1, 0, 0)>>
     \o Concat([i \in 1 .. n |-> (IF Case(i) THEN Tested(i) ELSE Otherwise(i)) \o t.cases[i].body])
     \o Maybe(~HasDefault /\ n > 0, <<Landing(Pending(n + 1))>>)
     \o <<Label(break), Opc("drop"), Step("unenv"), Step("pop_scope")>>

(* finally is a subroutine: it is called with the value to go on with.     *)
Protected(items, finally) == <<Env("", 0, 0, 1, finally, 0)>> \o items \o <<Step("unenv")>>
Finish(finally, end) ==
  Live(<<Opc("drop"), Opc("undefined"), Goto("gosub", finally), Opc("drop"), Goto("goto", end)>>)
CatchClause(t, l) ==
  LET finally == l + 2
      Param == CASE t.param = <<>> -> <<Opc("drop")>>
                 [] t.param # <<>> /\ t.param[1].is = "pattern" -> <<[t.param[1] EXCEPT !.tok = "let"]>>
                 [] OTHER -> <<OpcX("scope_put_var", t.param[1].x)>>
  IN <<Step("push_scope"), Label(l)>> \o Param \o <<Goto("catch", l + 1), Step("push_scope")>>
     \o Protected(Block(t.handler[1]), finally) \o <<Step("pop_scope"), Step("pop_scope"), Finish(finally, l + 3),
          Label(l + 1), Goto("gosub", finally), Opc("throw")>>
Try(t, l) ==
  LET finally == l + 2
      Final == <<Env("", 0, 0, 2, 0, 0), [is |-> "eval_ret", on |-> FALSE]>> \o EachOf(t.finally, Block)
               \o <<Step("eval_old"), Step("unenv")>>
  IN <<EvalUndefined, Goto("catch", l)>> \o Protected(Block(t.body), finally) \o <<Finish(finally, l + 3)>>
     \o (IF t.handler = <<>> THEN <<Label(l), Goto("gosub", finally), Opc("throw")>> ELSE CatchClause(t, l))
     \o <<Label(finally)>> \o Maybe(t.finally # <<>>, Final) \o <<Opc("ret"), Label(l + 3)>>

Statement(t, l) ==
  CASE t.is = "expr" -> <<t.e, Step("eval_put")>>
    [] t.is = "block" -> Block(t.stmts)
    [] t.is = "empty" -> <<>>
    [] t.is = "return" -> t.value \o <<[is |-> "emit_return", hasval |-> t.value # <<>>]>>
    [] t.is = "throw" -> <<t.e, Opc("throw")>>
    [] t.is = "labelled" -> <<Env(t.label, l, 0, 0, 0, 0), t.body, Label(l), Step("unenv")>>
js_parse_program(t) ==
  t.stmts \o IF t.eval THEN <<OpcX("get_loc", "ret"), Opc("return")>>
             ELSE <<Live(<<[is |-> "emit_return", hasval |-> FALSE]>>)>>

(* What is done for one form, and how many labels of its own it has.       *)
Items(fd, t) ==
  LET l == new_label(fd)
  IN CASE t.is \in {"id", "int", "str", "const", "field", "el"} -> Primary(t)
       [] t.is = "array" -> ArrayLiteral(t)
       [] t.is = "object" -> ObjectLiteral(t)
       [] t.is = "call" -> Call(t)
       [] t.is = "postfix" -> PostfixUpdate(t)
       [] t.is \in {"unary", "void", "prefix", "typeof", "delete", "await"} -> Unary(t)
       [] t.is = "binary" -> Binary(t)
       [] t.is \in {"and", "or"} -> LogicalAndOr(t, l)
       [] t.is = "cond" -> Conditional(t, l)
       [] t.is = "comma" -> Comma(t)
       [] t.is = "assign" -> Assignment(t)
       [] t.is = "yield" -> Yield([t EXCEPT !.kind = fd.func_kind], l)
       [] t.is = "pattern" -> Destructuring(t, l)
       [] t.is = "var" -> Declarations(t)
       [] t.is \in {"for_of", "for_in"} -> ForInOf(t, l)
       [] t.is = "if" -> If(t, l)
       [] t.is = "while" -> While(t, l)
       [] t.is = "do" -> DoWhile(t, l)
       [] t.is = "for" -> For(t, l)
       [] t.is = "switch" -> Switch(t, l)
       [] t.is = "try" -> Try(t, l)
       [] t.is = "live" -> IF js_is_live_code(fd) THEN t.items ELSE <<>>
       [] t.is = "program" -> js_parse_program(t)
       [] OTHER -> Statement(t, l)
Own == [and |-> 1, or |-> 1, cond |-> 2, yield |-> 1, for_of |-> 5, for_in |-> 5, if |-> 2, while |-> 2, do |-> 3,
        for |-> 4, try |-> 4, labelled |-> 1]
LabelsOf(t) ==
  CASE t.is \in DOMAIN Own -> Own[t.is]
    [] t.is = "pattern" -> 3 + Len(t.ps)
    [] t.is = "switch" -> 1 + 2 * Len(t.cases)
    [] OTHER -> 0
Forms == {"id", "int", "str", "const", "field", "el", "array", "object", "call", "postfix", "unary", "void", "prefix", "typeof",
          "delete", "await", "binary", "and", "or", "cond", "comma", "assign", "yield", "pattern", "var", "for_of",
          "for_in", "if", "while", "do", "for", "switch", "try", "live", "program", "expr", "block", "empty", "return",
          "throw", "labelled"}

RECURSIVE js_parse(_, _)
js_parse(fd, t) ==
  IF t.is \in Forms THEN FoldLeft(js_parse, new_labels(fd, LabelsOf(t)), Items(fd, t)) ELSE parse_step(fd, t)
Compiled(t) == js_parse(JS_NewFunctionDef(t.kind, t.eval), t)
=============================================================================
