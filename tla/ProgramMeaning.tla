--------------------------- MODULE ProgramMeaning ---------------------------
(* What the language says a program does, read from its tree (the trees of *)
(* Compiler). The environment is asked and answers: reading a global name, *)
(* a property, a call, a step of an iterator are events, and what comes    *)
(* back is given by a sequence of outcomes. So a meaning is the sequence   *)
(* of events a program causes and how it ends; with too few outcomes it is *)
(* cut at the event that waits for one.                                    *)
EXTENDS Integers, Sequences
LOCAL INSTANCE SequencesExt
LOCAL INSTANCE Functions

CONSTANT LocalNames   \* the other names are global

-----------------------------------------------------------------------------
(* Values. An answer is known by the number of its event and by its truth. *)

Value(k, i, x, s) == [k |-> k, i |-> i, x |-> x, s |-> s]
Atom(k) == Value(k, 0, "", <<>>)
Undefined == Atom("undefined")
Null == Atom("null")
Bool(b) == Value("bool", IF b THEN 1 ELSE 0, "", <<>>)
Integer(n) == Value("int", n, "", <<>>)
Str(x) == Value("str", 0, x, <<>>)
Answer(n, x) == Value("answer", n, x, <<>>)
Thrown(n) == Value("thrown", n, "", <<>>)
TypeError == Atom("type_error")
Old(v) == Value("old", v.i, "", <<v>>)                \* the number v was counted from
Array(s) == Value("array", 0, "", s)
Record(s) == Value("record", 0, "", s)                \* keys and values in turn
All(v) == Value("all", 0, "", <<v>>)                  \* what is in v, spread
Absent == Atom("absent")

Truth(v) == CASE v.k \in {"undefined", "null"} -> FALSE
              [] v.k \in {"bool", "int"} -> v.i # 0
              [] v.k = "answer" -> v.x # "F"
              [] OTHER -> TRUE
Nullish(v) == v.k \in {"undefined", "null"}
TypeOf(v) == Str(IF v.k \in {"undefined", "int", "bool"} THEN v.k ELSE "object")

(* An element at a place, the places before it that have none; a property. *)
Padded(s, n) == s \o [i \in 1 .. (IF n > Len(s) THEN n - Len(s) ELSE 0) |-> Absent]
ElementAt(s, i, v) == [Padded(s, i + 1) EXCEPT ![i + 1] = v]
Property(s, k, v) == s \o <<k, v>>
Keys(s) == [i \in 1 .. Len(s) \div 2 |-> s[2 * i - 1]]

Event(e, x, args) == [e |-> e, x |-> x, args |-> args]
Answered(out, n) == CASE out \in {"T", "F"} -> Answer(n, out)
                      [] out \in {"N", "R"} -> Answer(n, "T")
                      [] OTHER -> Undefined

-----------------------------------------------------------------------------
(* Evaluation carries what has happened, the outcomes that are left, the   *)
(* variables, how the last part ended (how), its value, the value of the   *)
(* statements (cv) and the label of a break or continue.                   *)

Begin(outs) == [log |-> <<>>, outs |-> outs, vars |-> [x \in LocalNames |-> Undefined], how |-> "normal",
                v |-> Undefined, cv |-> <<>>, label |-> ""]
With(s, v) == [s EXCEPT !.v = v]
Throw(s, v) == [s EXCEPT !.how = "throw", !.v = v]
Then(s, next) == IF s.how = "normal" THEN next ELSE s

Ask(s, e, x, args) ==
  LET asked == [s EXCEPT !.log = Append(@, Event(e, x, args))]
      n == Len(asked.log)
  IN IF s.how # "normal" THEN s
     ELSE IF s.outs = <<>> THEN [asked EXCEPT !.how = "cut"]
     ELSE LET told == [asked EXCEPT !.outs = Tail(@)]
          IN CASE Head(s.outs) = "X" -> Throw(told, Thrown(n))
               [] Head(s.outs) = "R" -> [With(told, Answer(n, "T")) EXCEPT !.how = "return"]
               [] OTHER -> With(told, Answered(Head(s.outs), n))

(* References.                                                             *)
GetRef(s, r) ==
  CASE r.k = "name" -> IF r.x \in LocalNames THEN With(s, s.vars[r.x]) ELSE Ask(s, "get", r.x, <<>>)
    [] r.k = "field" -> Ask(s, "field", r.x, r.s)
    [] r.k = "el" -> Ask(s, "el", "", r.s)
Read(r) == Then(r, GetRef(r, r.v))                \* of what r refers to
Giving(s, v) == Then(s, With(s, v))
PutRef(s, r, v) ==
  Then(s, Giving(CASE r.k = "name" -> IF r.x \in LocalNames THEN [s EXCEPT !.vars[r.x] = v] ELSE Ask(s, "put", r.x, <<v>>)
                   [] r.k = "field" -> Ask(s, "put_field", r.x, r.s \o <<v>>)
                   [] r.k = "el" -> Ask(s, "put_el", "", r.s \o <<v>>), v))

(* An iterator that is left with something to give is closed; an error of  *)
(* the closing counts unless the reason is an error.                       *)
ClosedBy(c, s) ==
  IF c.how = "cut" \/ (c.how = "throw" /\ s.how # "throw") THEN c
  ELSE [c EXCEPT !.how = s.how, !.v = s.v, !.cv = s.cv, !.label = s.label]
IteratorClose(s, it) ==
  IF it = Undefined \/ s.how = "cut" THEN s ELSE ClosedBy(Ask([s EXCEPT !.how = "normal"], "close", "", <<it>>), s)

(* A step of an iterator: the iterator is undefined when it is over.       *)
After(n, s, it) == [s |-> n, it |-> IF n.how # "cut" /\ Head(s.outs) \in {"D", "X"} THEN Undefined ELSE it]
Stepped(s, it) ==
  IF it = Undefined \/ s.how # "normal" THEN [s |-> With(s, Undefined), it |-> it]
  ELSE After(Ask(s, "next", "", <<it>>), s, it)
RECURSIVE Collected(_, _)
Collected(n, got) ==
  IF n.s.how # "normal" THEN n
  ELSE IF n.it = Undefined THEN [n EXCEPT !.s = With(@, Array(got))]
  ELSE Collected(Stepped(n.s, n.it), Append(got, n.s.v))
CollectedFrom(s, it) == Collected(Stepped(s, it), <<>>)

-----------------------------------------------------------------------------
(* Expressions. Eval is the evaluation of a part.                          *)

RECURSIVE Eval(_, _)
RECURSIVE Bind(_, _, _)
Evaluated(s, es) == FoldLeft(LAMBDA x, e : Eval(x, e), s, es)
List(s, es) ==
  LET Add(x, e) ==
        LET r == Eval(x.s, IF e.is = "spread_of" THEN e.e ELSE e)
            all == Ask(r, "spread", "", <<r.v>>)
        IN CASE e.is = "hole" -> [x EXCEPT !.got = Append(@, Absent)]
             [] e.is = "spread_of" -> [s |-> all, got |-> Append(x.got, All(all.v))]
             [] OTHER -> [s |-> r, got |-> Append(x.got, r.v)]
  IN FoldLeft(Add, [s |-> s, got |-> <<>>], es)
ReferenceTo(s, t) ==
  LET o == Eval(s, t.o)
      k == Eval(o, t.k)
  IN CASE t.is = "id" -> Then(s, With(s, Value("name", 0, t.x, <<>>)))
       [] t.is = "field" -> Then(o, With(o, Value("field", 0, t.x, <<o.v>>)))
       [] t.is = "el" -> Then(k, With(k, Value("el", 0, "", <<o.v, k.v>>)))
Reading(s, t) == Read(ReferenceTo(s, t))

CallWith(args, first, new) == Then(args.s, Ask(args.s, IF new THEN "new" ELSE "call", "", first \o args.got))
CallMethod(f, r, t) == CallWith(List(f, t.args), <<f.v, r.v.s[1]>>, FALSE)
CallMethodOf(r, t) == CallMethod(Read(r), r, t)
CallValue(f, t) == CallWith(List(f, t.args), IF t.new THEN <<f.v>> ELSE <<f.v, Undefined>>, t.new)
Calling(s, t) ==
  IF ~t.new /\ t.f.is \in {"field", "el"} THEN CallMethodOf(ReferenceTo(s, t.f), t) ELSE CallValue(Eval(s, t.f), t)

AddProperty(e, key, x) == Then(e, With(e, Record(Property(x.v.s, key, e.v))))
AddAll(all, x) == Then(all, With(all, Record(x.v.s \o <<Absent, All(all.v)>>)))
CopyAll(e) == Ask(e, "copy", "", <<e.v, Null>>)
AddComputed(k, p, x) == AddProperty(Eval(k, p.e), k.v, x)
AddOwn(x, p) ==
  CASE p.is = "spread_of" -> AddAll(CopyAll(Eval(x, p.e)), x)
    [] p.is = "computed" -> AddComputed(Eval(x, p.k), p, x)
    [] OTHER -> AddProperty(Eval(x, p.e), Str(p.x), x)
Making(s, t) == FoldLeft(LAMBDA x, p : Then(x, AddOwn(x, p)), With(s, Record(<<>>)), t.props)

PutAt(new, r) == Then(new, PutRef(new, r.v, new.v))
Operate(e, op, old) == Then(e, Ask(e, op, "", <<old.v, e.v>>))
AssignAt(r, t) == PutAt(Eval(r, t.e), r)
UpdateBy(old, r, t) == PutAt(Operate(Eval(old, t.e), t.op, old), r)
UpdateAt(r, t) == UpdateBy(Read(r), r, t)
Assigning(s, t) == IF t.op = "" THEN AssignAt(ReferenceTo(s, t.l), t) ELSE UpdateAt(ReferenceTo(s, t.l), t)
Stepping(new, r, t) == IF t.is = "postfix" THEN Giving(PutAt(new, r), Old(new.v)) ELSE PutAt(new, r)
StepFrom(old, r, t) == Stepping(Then(old, Ask(old, t.op, "", <<old.v>>)), r, t)
StepAt(r, t) == StepFrom(Read(r), r, t)
Counting(s, t) == StepAt(ReferenceTo(s, t.l), t)
Deleting(s, t) ==
  LET r == ReferenceTo(s, t.e)
      e == Eval(s, t.e)
  IN CASE t.e.is = "id" -> IF t.e.x \in LocalNames THEN With(s, Bool(FALSE)) ELSE Ask(s, "delete_var", t.e.x, <<>>)
       [] t.e.is = "field" -> Then(r, Ask(r, "delete", "", <<r.v.s[1], Str(t.e.x)>>))
       [] t.e.is = "el" -> Then(r, Ask(r, "delete", "", r.v.s))
       [] OTHER -> Then(e, With(e, Bool(TRUE)))
TypeOfName(s, t) ==
  LET e == IF t.e.is = "id" /\ t.e.x \notin LocalNames THEN Ask(s, "get_undef", t.e.x, <<>>) ELSE Eval(s, t.e)
  IN Then(e, With(e, TypeOf(e.v)))

AndOr(s, es, stop) ==
  FoldLeft(LAMBDA x, e : IF x.how # "normal" \/ Truth(x.v) = stop THEN x ELSE Eval(x, e), Eval(s, Head(es)), Tail(es))
StrictEqual(s, x, y) ==
  IF Nullish(x) \/ Nullish(y) \/ (x.k = "str" /\ y.k = "str") THEN With(s, Bool(x = y)) ELSE Ask(s, "strict_eq", "", <<x, y>>)
StrictUnequal(s, x, y) ==
  IF Nullish(x) \/ Nullish(y) \/ (x.k = "str" /\ y.k = "str") THEN With(s, Bool(x # y)) ELSE Ask(s, "strict_neq", "", <<x, y>>)
BinaryOf(s, t) ==
  LET x == Eval(s, t.a)
      y == Eval(x, t.b)
  IN Then(y, IF t.op = "strict_eq" THEN StrictEqual(y, x.v, y.v)
             ELSE IF t.op = "strict_neq" THEN StrictUnequal(y, x.v, y.v) ELSE Ask(y, t.op, "", <<x.v, y.v>>))

-----------------------------------------------------------------------------
(* Destructuring: val is taken apart.                                      *)

Defaulted(s, default) == IF s.how = "normal" /\ s.v = Undefined /\ default # <<>> THEN Eval(s, default[1]) ELSE s
TargetOf(s, p) == IF p.target.is = "pattern" THEN s ELSE ReferenceTo(s, p.target)
PutInto(s, p, target) == IF p.target.is = "pattern" THEN Bind(s, p.target, s.v) ELSE PutRef(s, target, s.v)

PutPart(d, p, target) == Then(d, PutInto(d, p, target))

TakeElement(p, r, n) == IF p.is = "hole" THEN n ELSE [n EXCEPT !.s = PutPart(Defaulted(@, p.default), p, r.v)]
BindElement(x, p, r) ==
  IF r.how # "normal" THEN [x EXCEPT !.s = r]
  ELSE TakeElement(p, r, IF p.is = "rest" THEN CollectedFrom(r, x.it) ELSE Stepped(r, x.it))
CloseAfter(x) == IteratorClose(x.s, x.it)
BindElements(s, ps) ==
  CloseAfter(FoldLeft(LAMBDA x, p : IF x.s.how = "normal" THEN BindElement(x, p, IF p.is = "hole" THEN x.s ELSE TargetOf(x.s, p)) ELSE x,
                      [s |-> s, it |-> s.v], ps))

AllBut(s) == Giving(s, Record(<<Absent, All(s.v)>>))
TakeProperty(r, p, key, x) ==
  PutPart(Defaulted(CASE p.is = "rest" -> AllBut(Ask(r, "copy", "", <<x.val, Array(x.keys)>>))
                      [] p.is = "computed" -> Ask(r, "el", "", <<x.val, key>>)
                      [] OTHER -> Ask(r, "field", p.x, <<x.val>>), p.default), p, r.v)
WithKey(s, p, key, x) == [x EXCEPT !.s = Then(s, TakeProperty(TargetOf(s, p), p, key, x)), !.keys = Append(@, key)]
BindComputed(k, p, x) == WithKey(k, p, k.v, x)
BindProperty(x, p) ==
  IF p.is = "computed" THEN BindComputed(Eval(x.s, p.k), p, x)
  ELSE WithKey(x.s, p, IF p.is = "rest" THEN Absent ELSE Str(p.x), x)
BindProperties(s, ps) ==
  IF Nullish(s.v) THEN Throw(s, TypeError)
  ELSE FoldLeft(LAMBDA x, p : IF x.s.how = "normal" THEN BindProperty(x, p) ELSE x, [s |-> s, keys |-> <<>>, val |-> s.v], ps).s
BindIterator(it, ps) == Then(it, BindElements(it, ps))
BindValue(v, t) ==
  Then(v, IF t.array THEN BindIterator(Ask(v, "iter", "", <<v.v>>), t.ps) ELSE BindProperties(v, t.ps))
BindPattern(s, t, val) == BindValue(IF t.hasval THEN Defaulted(With(s, val), t.init) ELSE With(s, val), t)

Bind(s, t, val) == IF s.how # "normal" THEN s ELSE BindPattern(s, t, val)
Expression(s, t) ==
  LET e == Eval(s, t.e)
      c == Eval(s, t.c)
  IN CASE t.is \in {"id", "field", "el"} -> Reading(s, t)
       [] t.is = "int" -> With(s, Integer(t.n))
       [] t.is = "str" -> With(s, Str(t.x))
       [] t.is = "const" -> With(s, CASE t.op = "undefined" -> Undefined [] t.op = "null" -> Null
                                      [] OTHER -> Bool(t.op = "push_true"))
       [] t.is = "array" -> LET r == List(s, t.es) IN Then(r.s, With(r.s, Array(r.got)))
       [] t.is = "object" -> Making(s, t)
       [] t.is = "call" -> Calling(s, t)
       [] t.is \in {"prefix", "postfix"} -> Counting(s, t)
       [] t.is = "unary" -> Then(e, IF t.op = "lnot" THEN With(e, Bool(~Truth(e.v))) ELSE Ask(e, t.op, "", <<e.v>>))
       [] t.is = "void" -> Then(e, With(e, Undefined))
       [] t.is = "typeof" -> TypeOfName(s, t)
       [] t.is = "delete" -> Deleting(s, t)
       [] t.is \in {"await", "yield"} -> Then(e, Ask(e, t.is, "", <<e.v>>))
       [] t.is = "binary" -> BinaryOf(s, t)
       [] t.is \in {"and", "or"} -> AndOr(s, t.es, t.is = "or")
       [] t.is = "cond" -> Then(c, Eval(c, IF Truth(c.v) THEN t.a ELSE t.b))
       [] t.is = "comma" -> Evaluated(s, t.es)
       [] t.is = "assign" -> Assigning(s, t)
       [] t.is = "pattern" -> LET v == Eval(s, t.init[1])
                                  b == Bind(v, t, v.v)
                              IN Then(v, Then(b, With(b, v.v)))

-----------------------------------------------------------------------------
(* Statements. A statement that gives no value leaves the one before       *)
(* (UpdateEmpty); a loop takes a continue that is meant for it.            *)

Afresh(s) == [s EXCEPT !.cv = <<>>]
UpdateEmpty(s, cv) == IF s.cv = <<>> THEN [s EXCEPT !.cv = cv] ELSE s
Undefined1 == <<Undefined>>
Leaves(s, how, label) == [s EXCEPT !.how = how, !.label = label]
Continues(s, t) == s.how = "normal" \/ (s.how = "continue" /\ s.label \in {"", t.label})
LoopLeft(s, t) == IF s.how = "break" /\ s.label \in {"", t.label} THEN Leaves(s, "normal", "") ELSE s

Statements(s, stmts) ==
  FoldLeft(LAMBDA x, t : IF x.how = "normal" THEN UpdateEmpty(Eval(Afresh(x), t), x.cv) ELSE x, Afresh(s), stmts)
Turn(s, t) == UpdateEmpty(Eval(Afresh(s), t.body), s.cv)

(* Loops: what is tested before a turn and done after it.                  *)
RECURSIVE Loop(_, _, _, _)
Loop(s, t, test, step) ==
  LET c == Evaluated(With(s, Bool(TRUE)), test)
      turn == Turn(c, t)
      next == Evaluated(Leaves(turn, "normal", ""), step)
  IN IF c.how # "normal" \/ ~Truth(c.v) THEN c
     ELSE IF Continues(turn, t) THEN (IF next.how = "normal" THEN Loop(next, t, test, step) ELSE next)
     ELSE LoopLeft(turn, t)
RECURSIVE DoLoop(_, _)
DoLoop(s, t) ==
  LET turn == Turn(s, t)
      c == Eval(Leaves(turn, "normal", ""), t.c)
  IN IF ~Continues(turn, t) THEN LoopLeft(turn, t)
     ELSE IF c.how = "normal" /\ Truth(c.v) THEN DoLoop(c, t) ELSE c

BoundTo(s, t, val) ==
  IF t.target.is = "pattern" THEN Bind(s, t.target, val)
  ELSE LET r == ReferenceTo(s, t.target) IN Then(r, PutRef(r, r.v, val))
TurnWith(bound, t) == IF bound.how = "normal" THEN Turn(bound, t) ELSE bound
RECURSIVE Iterated(_, _, _)
NextTurn(turn, t, it) ==
  IF Continues(turn, t) THEN Iterated(Leaves(turn, "normal", ""), t, it) ELSE LoopLeft(IteratorClose(turn, it), t)
Iterated(s, t, it) ==
  LET n == Stepped(s, it)
  IN IF n.s.how # "normal" \/ n.it = Undefined THEN n.s ELSE NextTurn(TurnWith(BoundTo(n.s, t, n.s.v), t), t, it)
RECURSIVE Enumerated(_, _, _)
NextKey(turn, t, keys) ==
  IF Continues(turn, t) THEN Enumerated(Leaves(turn, "normal", ""), t, keys) ELSE LoopLeft(turn, t)
Enumerated(s, t, keys) ==
  LET n == Ask(s, "key", "", <<keys>>)
  IN IF n.how # "normal" \/ Head(s.outs) = "D" THEN n ELSE NextKey(TurnWith(BoundTo(n, t, n.v), t), t, keys)

Declaring(s, t) ==
  LET One(x, d) ==
        LET e == IF d.e = <<>> THEN With(x, Undefined) ELSE Evaluated(x, d.e)
        IN CASE d.target.is = "pattern" -> Bind(x, d.target, Undefined)
             [] d.target.is # "pattern" /\ t.tok = "var" /\ d.e = <<>> -> x
             [] OTHER -> Then(e, PutRef(e, Value("name", 0, d.target.x, <<>>), e.v))
  IN FoldLeft(LAMBDA x, d : Then(x, One(x, d)), s, t.decls)

(* The first case that is equal, or the default; from there on.            *)
Switching(s, t) ==
  LET n == Len(t.cases)
      v == Eval(s, t.e)
      Test(x, i) ==
        LET c == Eval(x.s, t.cases[i].e)
            eq == Then(c, StrictEqual(c, v.v, c.v))
        IN IF x.s.how # "normal" \/ x.at # 0 \/ t.cases[i].default THEN x
           ELSE [s |-> eq, at |-> IF eq.how = "normal" /\ Truth(eq.v) THEN i ELSE 0]
      found == FoldLeft(Test, [s |-> v, at |-> 0], [i \in 1 .. n |-> i])
      default == SelectInSeq(t.cases, LAMBDA c : c.default)
      from == IF found.at # 0 THEN found.at ELSE IF default # 0 THEN default ELSE n + 1
      done == Statements(found.s, FlattenSeq([i \in 1 .. n + 1 - from |-> t.cases[from + i - 1].body]))
  IN IF v.how # "normal" THEN v ELSE IF found.s.how # "normal" THEN found.s
     ELSE LoopLeft(UpdateEmpty(done, Undefined1), [label |-> ""])

(* finally is done whatever happened, and counts when it does not end      *)
(* normally.                                                               *)
Handled(s, t) == Then(s, Statements(s, t.handler[1]))
Caught(s, t) ==
  IF s.how # "throw" \/ t.handler = <<>> THEN s
  ELSE Handled(IF t.param = <<>> THEN [s EXCEPT !.how = "normal"]
               ELSE IF t.param[1].is = "pattern" THEN Bind([s EXCEPT !.how = "normal"], t.param[1], s.v)
               ELSE PutRef([s EXCEPT !.how = "normal"], Value("name", 0, t.param[1].x, <<>>), s.v), t)
AsBefore(s, h) == IF s.how = "normal" THEN [s EXCEPT !.how = h.how, !.v = h.v, !.cv = h.cv, !.label = h.label] ELSE s
Finally(s, t) ==
  IF t.finally = <<>> \/ s.how = "cut" THEN s ELSE AsBefore(Statements([s EXCEPT !.how = "normal"], t.finally[1]), s)
Trying(s, t) == UpdateEmpty(Finally(Caught(Statements(s, t.body), t), t), Undefined1)

Performed(s, t) ==
  LET e == Eval(s, t.e)
      c == Eval(s, t.c)
      Valued(r) == UpdateEmpty(r, Undefined1)
  IN CASE t.is = "expr" -> IF e.how = "normal" THEN [e EXCEPT !.cv = <<e.v>>] ELSE e
       [] t.is = "block" -> Statements(s, t.stmts)
       [] t.is = "empty" -> s
       [] t.is = "var" -> Declaring(s, t)
       [] t.is = "if" -> Valued(IF c.how # "normal" THEN c ELSE IF Truth(c.v) THEN Eval(c, t.a)
                                ELSE IF t.b = <<>> THEN c ELSE Eval(c, t.b[1]))
       [] t.is = "while" -> Valued(Loop(s, t, <<t.c>>, <<>>))
       [] t.is = "do" -> Valued(DoLoop(s, t))
       [] t.is = "for" -> LET i == Statements(s, t.init) IN
                          Valued(IF i.how = "normal" THEN Loop(Afresh(i), t, t.test, t.step) ELSE i)
       [] t.is = "for_of" -> LET it == Ask(e, "iter", "", <<e.v>>) IN Valued(Then(it, Iterated(it, t, it.v)))
       [] t.is = "for_in" -> LET keys == Ask(e, "enum", "", <<e.v>>) IN Valued(Then(keys, Enumerated(keys, t, keys.v)))
       [] t.is = "switch" -> Switching(s, t)
       [] t.is = "try" -> Trying(s, t)
       [] t.is = "labelled" -> LET b == Eval(s, t.body) IN IF b.how = "break" /\ b.label = t.label THEN Leaves(b, "normal", "") ELSE b
       [] t.is = "break" -> Leaves(s, IF t.cont THEN "continue" ELSE "break", t.name)
       [] t.is = "return" -> IF t.value = <<>> THEN [s EXCEPT !.how = "return", !.v = Undefined]
                             ELSE LET r == Evaluated(s, t.value) IN Then(r, Leaves(r, "return", ""))
       [] t.is = "throw" -> Then(e, Throw(e, e.v))

Executable == {"expr", "block", "empty", "var", "if", "while", "do", "for", "for_of", "for_in", "switch", "try", "labelled", "break",
               "return", "throw"}
Eval(s, t) == IF s.how # "normal" THEN s ELSE IF t.is \in Executable THEN Performed(s, t) ELSE Expression(s, t)

(* How a whole program goes.                                               *)
Ended(s, result) ==
  IF s.how = "normal" THEN [log |-> s.log, how |-> "return", v |-> result]
  ELSE [log |-> s.log, how |-> s.how, v |-> IF s.how = "cut" THEN Undefined ELSE s.v]
Result(s, eval) == Ended(s, IF eval /\ s.cv # <<>> THEN s.cv[1] ELSE Undefined)
Meaning(t, outs) == Result(Statements(Begin(outs), t.stmts), t.eval)
=============================================================================
