------------------------------ MODULE CodeRun -------------------------------
(* What the interpreter does with the code of Compiler and CodeOptimizer   *)
(* (JS_CallInternal): a stack of values, with the places of catch,         *)
(* the return places of gosub and iterators with their marker on it. The   *)
(* environment is asked as in ProgramMeaning.                              *)
EXTENDS Integers, Sequences
LOCAL INSTANCE SequencesExt
CONSTANT LocalNames
LOCAL INSTANCE ProgramMeaning

-----------------------------------------------------------------------------
(* A frame. how: it runs, it unwinds, it waits for an outcome (cut), it    *)
(* has returned or thrown; ret is the value kept for eval.                 *)

Frame == [pc |-> 1, st |-> <<>>, vars |-> [x \in LocalNames |-> Undefined], ret |-> Undefined,
          log |-> <<>>, outs |-> <<>>, how |-> "run", v |-> Undefined,
          event |-> Event("", "", <<>>)]

CatchOffset(pos) == Value("catch", pos, "", <<>>)
ReturnPlace(pc) == Value("pc", pc, "", <<>>)
NextMethod == Atom("method")

Pick(m, i) == m.st[Len(m.st) + 1 - i]             \* 1 is the top
Below(m, n) == SubSeq(m.st, 1, Len(m.st) - n)
TopN(m, n) == SubSeq(m.st, Len(m.st) + 1 - n, Len(m.st))
Repl(m, n, vals) == [m EXCEPT !.st = Below(m, n) \o vals]
SetAt(m, i, v) == [m EXCEPT !.st[Len(m.st) + 1 - i] = v]
Raise(m, v) == [m EXCEPT !.how = "unwind", !.v = v]
Leave(m, how, v) == [m EXCEPT !.how = how, !.v = v]

Asked(m, e, x, args) ==
  LET asked == [m EXCEPT !.log = Append(@, Event(e, x, args))]
      told == [asked EXCEPT !.outs = Tail(@)]
  IN IF m.outs = <<>> THEN [asked EXCEPT !.how = "cut"]
     ELSE IF Head(m.outs) = "X" THEN Raise(told, Thrown(Len(told.log)))
     ELSE [told EXCEPT !.v = Answered(Head(m.outs), Len(told.log))]
(* The n topmost values are replaced by the answer. *)
Unless(m, next) == IF m.how = "run" THEN next ELSE m
Gives(m, n, e, x, args) == LET t == Asked(m, e, x, args) IN Unless(t, Repl(t, n, <<t.v>>))
Does(m, n, e, x, args) == LET t == Asked(m, e, x, args) IN Unless(t, Repl(t, n, <<>>))

-----------------------------------------------------------------------------
(* Moving values: how many are taken, and which of them are put back.      *)
Moves ==
  [drop |-> [n |-> 1, to |-> <<>>], nip |-> [n |-> 2, to |-> <<2>>], dup |-> [n |-> 1, to |-> <<1, 1>>],
   dup1 |-> [n |-> 2, to |-> <<1, 1, 2>>], dup2 |-> [n |-> 2, to |-> <<1, 2, 1, 2>>],
   insert2 |-> [n |-> 2, to |-> <<2, 1, 2>>], insert3 |-> [n |-> 3, to |-> <<3, 1, 2, 3>>],
   perm3 |-> [n |-> 3, to |-> <<2, 1, 3>>], perm4 |-> [n |-> 4, to |-> <<3, 1, 2, 4>>],
   rot3l |-> [n |-> 3, to |-> <<2, 3, 1>>], rot3r |-> [n |-> 3, to |-> <<3, 1, 2>>],
   swap |-> [n |-> 2, to |-> <<2, 1>>], swap2 |-> [n |-> 4, to |-> <<3, 4, 1, 2>>]]
Constants == [undefined |-> Undefined, null |-> Null, push_true |-> Bool(TRUE), push_false |-> Bool(FALSE),
              object |-> Record(<<>>)]
NoEffect == {"nop", "label", "enter_scope", "leave_scope", "to_propkey", "to_propkey2"}

Pushed(m, i) ==
  CASE i.op \in DOMAIN Constants -> Repl(m, 0, <<Constants[i.op]>>)
    [] i.op = "push_i32" -> Repl(m, 0, <<Integer(i.n)>>)
    [] i.op = "push_atom_value" -> Repl(m, 0, <<Str(i.x)>>)
    [] i.op = "array_from" -> Repl(m, i.n, <<Array(TopN(m, i.n))>>)
Moved(m, i) ==
  LET vals == TopN(m, Moves[i.op].n)
  IN Repl(m, Moves[i.op].n, [j \in 1 .. Len(Moves[i.op].to) |-> vals[Moves[i.op].to[j]]])

(* Variables. A reference is its name twice: where it is and as a key.     *)
Local(x) == x \in LocalNames
VarSet(m, x, v) == IF x = "ret" THEN [m EXCEPT !.ret = v] ELSE [m EXCEPT !.vars[x] = v]
VarGet(m, x) == IF x = "ret" THEN m.ret ELSE m.vars[x]
ReadName(m, e, x, n) == IF Local(x) THEN Repl(m, n, <<m.vars[x]>>) ELSE Gives(m, n, e, x, <<>>)
WriteName(m, x, n) == IF Local(x) THEN Repl(VarSet(m, x, Pick(m, 1)), n, <<>>) ELSE Does(m, n, "put", x, <<Pick(m, 1)>>)
MakesRef == {"scope_make_ref", "make_var_ref", "make_loc_ref"}
RefOps == MakesRef \cup {"get_ref_value", "put_ref_value"}
Variable(m, i) ==
  CASE i.op \in {"scope_get_var", "get_var"} -> ReadName(m, "get", i.x, 0)
    [] i.op \in {"scope_get_var_undef", "get_var_undef"} -> ReadName(m, "get_undef", i.x, 0)
    [] i.op \in {"scope_put_var", "scope_put_var_init", "put_var", "put_var_init"} -> WriteName(m, i.x, 1)
    [] i.op \in {"scope_delete_var", "delete_var"} ->
         IF Local(i.x) THEN Repl(m, 0, <<Bool(FALSE)>>) ELSE Gives(m, 0, "delete_var", i.x, <<>>)
    [] i.op = "get_loc" -> Repl(m, 0, <<VarGet(m, i.x)>>)
    [] i.op = "put_loc" -> Repl(VarSet(m, i.x, Pick(m, 1)), 1, <<>>)
    [] i.op = "set_loc" -> VarSet(m, i.x, Pick(m, 1))
    [] i.op \in MakesRef -> Repl(m, 0, <<Value("ref", 0, i.x, <<>>), Str(i.x)>>)
    [] i.op = "get_ref_value" -> LET x == Pick(m, 1).x
                                 IN IF Local(x) THEN Repl(m, 0, <<m.vars[x]>>) ELSE Gives(m, 0, "get", x, <<>>)
    [] i.op = "put_ref_value" -> WriteName(m, Pick(m, 2).x, 3)
    [] i.op \in {"inc_loc", "dec_loc"} ->
         LET t == Asked(m, IF i.op = "inc_loc" THEN "inc" ELSE "dec", "", <<m.vars[i.x]>>)
         IN Unless(t, VarSet(t, i.x, t.v))
    [] i.op = "add_loc" ->
         LET t == Asked(m, "add", "", <<m.vars[i.x], Pick(m, 1)>>) IN Unless(t, VarSet(Repl(t, 1, <<>>), i.x, t.v))
VariableOps == {"scope_get_var", "get_var", "scope_get_var_undef", "get_var_undef", "scope_put_var", "scope_put_var_init",
                "put_var", "put_var_init", "scope_delete_var", "delete_var", "get_loc", "put_loc", "set_loc", "inc_loc", "dec_loc",
                "add_loc"} \cup RefOps

(* Properties; what a literal is made of is put in without asking. The     *)
(* array whose length is set is on the stack twice.                        *)
OwnElement(m, key, v) ==
  LET o == Pick(m, 1)
  IN SetAt(m, 1, IF o.k = "array" THEN [o EXCEPT !.s = ElementAt(@, key.i, v)] ELSE [o EXCEPT !.s = Property(@, key, v)])
DataCopied(m, n) ==
  LET target == n % 4
      source == (n \div 4) % 8
      excluded == Pick(m, n \div 32 + 1)
      without == IF excluded = Null THEN Null ELSE Array(Keys(excluded.s))
      t == Asked(m, "copy", "", <<Pick(m, source + 1), without>>)
  IN Unless(t, SetAt(t, target + 1, Record(Pick(t, target + 1).s \o <<Absent, All(t.v)>>)))
Member(m, i) ==
  LET keep == IF i.op \in {"get_field2", "get_array_el2"} THEN 1 ELSE 0
  IN CASE i.op \in {"get_field", "get_field2"} -> Gives(m, 1 - keep, "field", i.x, TopN(m, 1))
       [] i.op \in {"get_array_el", "get_array_el2"} -> Gives(m, 2 - keep, "el", "", TopN(m, 2))
       [] i.op = "put_field" /\ Pick(m, 2).k = "array" ->
            SetAt(Repl(m, 2, <<>>), 1, Array(Padded(Pick(m, 2).s, Pick(m, 1).i)))
       [] i.op = "put_field" /\ Pick(m, 2).k # "array" -> Does(m, 2, "put_field", i.x, TopN(m, 2))
       [] i.op = "put_array_el" -> Does(m, 3, "put_el", "", TopN(m, 3))
       [] i.op = "delete" -> Gives(m, 2, "delete", "", TopN(m, 2))
       [] i.op = "define_field" ->
            OwnElement(Repl(m, 1, <<>>), IF i.x = "" THEN Integer(i.n) ELSE Str(i.x), Pick(m, 1))
       [] i.op = "define_array_el" ->
            Repl(OwnElement(Repl(m, 2, <<>>), Pick(m, 2), Pick(m, 1)), 0, <<Pick(m, 2)>>)
       [] i.op = "append" ->
            LET t == Asked(m, "spread", "", TopN(m, 1)) IN
            Unless(t, Repl(t, 3, <<Array(Append(Padded(Pick(t, 3).s, Pick(t, 2).i), All(t.v))),
                                   Integer(Pick(t, 2).i + 1)>>))
       [] i.op = "copy_data_properties" -> DataCopied(m, i.n)
       [] i.op = "to_object" -> IF Nullish(Pick(m, 1)) THEN Raise(m, TypeError) ELSE m
MemberOps == {"get_field", "get_field2", "get_array_el", "get_array_el2", "put_field", "put_array_el", "delete",
              "define_field", "define_array_el", "append", "copy_data_properties", "to_object"}

(* Calls, operators. The place of an array literal is counted.             *)
Tails == [tail_call |-> "call", tail_call_method |-> "call_method"]
CallOps == {"call", "call_method", "call_constructor", "apply"}
Invoke(m, op, n) ==
  LET args == TopN(m, n)
      f == Pick(m, n + 1)
  IN CASE op = "call" -> Gives(m, n + 1, "call", "", <<f, Undefined>> \o args)
       [] op = "call_method" -> Gives(m, n + 2, "call", "", <<f, Pick(m, n + 2)>> \o args)
       [] op = "call_constructor" -> Gives(m, n + 2, "new", "", <<Pick(m, n + 2)>> \o args)
       [] op = "apply" -> IF n = 1 THEN Gives(m, 3, "new", "", <<Pick(m, 3)>> \o Pick(m, 1).s)
                          ELSE Gives(m, 3, "call", "", <<Pick(m, 3), Pick(m, 2)>> \o Pick(m, 1).s)
Counted(m) == Pick(m, 1).k = "int" /\ Len(m.st) > 1 /\ Pick(m, 2).k = "array"
UnaryEvents == {"neg", "plus", "not", "inc", "dec"}
BinaryEvents == {"add", "sub", "lt"}
Posts == [post_inc |-> "inc", post_dec |-> "dec"]
OperatorOps == UnaryEvents \cup BinaryEvents \cup DOMAIN Posts
               \cup {"lnot", "typeof", "strict_eq", "strict_neq", "is_undefined", "is_function", "is_null", "await"}
Operator(m, i) ==
  LET v == Pick(m, 1)
      Is(b) == Repl(m, 1, <<Bool(b)>>)
      eq == StrictEqual([log |-> m.log, outs |-> m.outs, how |-> "normal", v |-> Undefined], Pick(m, 2), v)
  IN CASE i.op = "inc" /\ Counted(m) -> Repl(m, 1, <<Integer(v.i + 1)>>)
       [] i.op \in UnaryEvents /\ ~(i.op = "inc" /\ Counted(m)) -> Gives(m, 1, i.op, "", <<v>>)
       [] i.op \in BinaryEvents -> Gives(m, 2, i.op, "", TopN(m, 2))
       [] i.op \in DOMAIN Posts -> LET t == Asked(m, Posts[i.op], "", <<v>>) IN Unless(t, Repl(t, 1, <<Old(t.v), t.v>>))
       [] i.op = "lnot" -> Is(~Truth(v))
       [] i.op = "typeof" -> Repl(m, 1, <<TypeOf(v)>>)
       [] i.op = "is_undefined" -> Is(v = Undefined)
       [] i.op = "is_null" -> Is(v = Null)
       [] i.op = "strict_eq" -> IF eq.log = m.log THEN Repl(m, 2, <<eq.v>>) ELSE Gives(m, 2, "strict_eq", "", TopN(m, 2))
       [] i.op = "strict_neq" -> IF eq.log = m.log THEN Repl(m, 2, <<Bool(~Truth(eq.v))>>)
                                 ELSE Gives(m, 2, "strict_neq", "", TopN(m, 2))
       [] i.op = "is_function" -> Is(FALSE)          \* answers are other objects
       [] i.op = "await" -> Gives(m, 1, "await", "", <<v>>)

(* Iterators: the object or undefined, its next method, the marker.        *)
IteratorOps == {"for_of_start", "for_of_next", "iterator_close", "iterator_close_return", "for_in_start", "for_in_next"}
Iterator(m, i) ==
  LET at == i.n + 3
      it == Pick(m, at)
      markers == {j \in 2 .. Len(m.st) : Pick(m, j).k = "catch"}
      marker == CHOOSE j \in markers : \A k \in markers : j <= k
      Over(t) == SetAt(t, at, Undefined)
      Next(t) == IF t.how = "cut" THEN t ELSE IF t.how = "unwind" THEN Over(t)
                 ELSE IF Head(m.outs) = "D" THEN Repl(Over(t), 0, <<Undefined, Bool(TRUE)>>)
                 ELSE Repl(t, 0, <<t.v, Bool(FALSE)>>)
  IN CASE i.op = "for_of_start" ->
            LET t == Asked(m, "iter", "", TopN(m, 1)) IN Unless(t, Repl(t, 1, <<t.v, NextMethod, CatchOffset(0)>>))
       [] i.op = "for_of_next" ->
            IF it = Undefined THEN Repl(m, 0, <<Undefined, Bool(TRUE)>>)
            ELSE Next(Asked(m, "next", "", <<it>>))
       [] i.op = "iterator_close" ->
            IF Pick(m, 3) = Undefined THEN Repl(m, 3, <<>>)
            ELSE LET closed == Repl(m, 2, <<>>) IN Does(closed, 1, "close", "", TopN(closed, 1))
       [] i.op = "iterator_close_return" ->
            LET kept == Below(m, marker - 1)
                n == Len(kept)
            IN [m EXCEPT !.st = SubSeq(kept, 1, n - 3) \o <<Pick(m, 1)>> \o SubSeq(kept, n - 2, n)]
       [] i.op = "for_in_start" -> Gives(m, 1, "enum", "", TopN(m, 1))
       [] i.op = "for_in_next" ->
            LET t == Asked(m, "key", "", TopN(m, 1)) IN
            Unless(t, Repl(t, 0, IF Head(m.outs) = "D" THEN <<Undefined, Bool(TRUE)>> ELSE <<t.v, Bool(FALSE)>>))

(* Jumps and ends: pos are the places of the labels.                       *)
Goes(m, pos) == [m EXCEPT !.pc = pos]
ControlOps == {"goto", "if_true", "if_false", "catch", "gosub", "ret", "throw", "return", "return_undef", "return_async",
               "yield"}
Control(m, i, pos) ==
  LET v == Pick(m, 1)
      popped == Repl(m, 1, <<>>)
  IN CASE i.op = "goto" -> Goes(m, pos[i.n])
       [] i.op \in {"if_true", "if_false"} -> IF Truth(v) = (i.op = "if_true") THEN Goes(popped, pos[i.n]) ELSE popped
       [] i.op = "catch" -> Repl(m, 0, <<CatchOffset(pos[i.n])>>)
       [] i.op = "gosub" -> Goes(Repl(m, 0, <<ReturnPlace(m.pc)>>), pos[i.n])
       [] i.op = "ret" -> Goes(popped, v.i)
       [] i.op = "throw" -> Raise(popped, v)
       [] i.op = "return_undef" -> Leave(m, "return", Undefined)
       [] i.op \in {"return", "return_async"} -> Leave(popped, "return", v)
       [] i.op = "yield" -> LET t == Asked(m, "yield", "", <<v>>) IN
                               Unless(t, Repl(t, 1, <<t.v, Bool(Head(m.outs) = "R")>>))

(* exception: the stack is emptied down to a catch; iterators on the way   *)
(* are closed, and what that throws is lost.                               *)
Unwound(m) ==
  LET popped == Repl(m, 1, <<>>)
      marker == Pick(m, 1).k = "catch" /\ Pick(m, 1).i = 0
      it == Pick(m, 3)
  IN IF m.st = <<>> THEN Leave(m, "throw", m.v)
     ELSE IF marker /\ it # Undefined
     THEN LET closed == Asked(m, "close", "", <<it>>)
          IN IF closed.how = "cut" THEN closed ELSE [Repl(closed, 2, <<>>) EXCEPT !.how = "unwind", !.v = m.v]
     ELSE IF Pick(m, 1).k = "catch" /\ ~marker
     THEN [Goes(Repl(popped, 0, <<m.v>>), Pick(m, 1).i) EXCEPT !.how = "run"]
     ELSE popped

Executed(m, i, pos) ==
  CASE i.op \in NoEffect -> m
    [] i.op \in DOMAIN Moves -> Moved(m, i)
    [] i.op \in VariableOps -> Variable(m, i)
    [] i.op \in MemberOps -> Member(m, i)
    [] i.op \in CallOps -> Invoke(m, i.op, i.n)
    [] i.op \in DOMAIN Tails -> LET r == Invoke(m, Tails[i.op], i.n) IN IF r.how = "run" THEN Leave(r, "return", Pick(r, 1)) ELSE r
    [] i.op \in OperatorOps -> Operator(m, i)
    [] i.op \in IteratorOps -> Iterator(m, i)
    [] i.op \in ControlOps -> Control(m, i, pos)
    [] OTHER -> Pushed(m, i)

(* The frame goes on until an outcome is missing: then it is as it was     *)
(* before the operation, with its event.                                   *)
RECURSIVE Run(_, _, _)
Run(code, pos, m) ==
  LET next == IF m.how = "unwind" THEN Unwound(m) ELSE Executed([m EXCEPT !.pc = @ + 1], code[m.pc], pos)
  IN IF next.how = "cut" THEN [m EXCEPT !.event = Last(next.log)]
     ELSE IF next.how \in {"run", "unwind"} THEN Run(code, pos, next) ELSE next
=============================================================================
