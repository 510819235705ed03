--------------------------- MODULE CodeOptimizer ----------------------------
(* The second and third pass over the code of a function: names become     *)
(* variables and dead code goes (resolve_variables), then patterns are     *)
(* replaced by shorter ones and labels by places (resolve_labels,          *)
(* quickjs.c 28597-30270). A pass reads the code at pos and writes out; a  *)
(* label has its place in the code that is read (pos) and in the one that  *)
(* is written (pos2). Names are variables of the function or global ones;  *)
(* the numbers of lines and the sizes of operations are left out.          *)
EXTENDS Integers, Sequences
LOCAL INSTANCE SequencesExt
CONSTANT LocalNames
LOCAL INSTANCE Compiler

Pass(code, labels) == [code |-> code, pos |-> 1, out |-> <<>>, labels |-> labels]
OpAt(s, pos) == IF pos \in 1 .. Len(s.code) THEN s.code[pos].op ELSE "end"
code_match(s, pos, ops) == \A i \in 1 .. Len(ops) : OpAt(s, pos + i - 1) \in ops[i]
Follows(s, ops) == code_match(s, s.pos + 1, ops)
Nth(s, n) == s.code[s.pos + n]

At(s, pos) == [s EXCEPT !.pos = pos]
Past(s, n) == [s EXCEPT !.pos = @ + n]
Put(s, ops) == [s EXCEPT !.out = @ \o ops]
Emit(s, n, ops) == Past(Put(s, ops), n)           \* instead of n operations
Test == {"if_true", "if_false"}
Opposite(op) == IF op = "if_true" THEN "if_false" ELSE "if_true"
LabelOps == {"goto", "if_true", "if_false", "catch", "gosub", "scope_make_ref"}

(* What cannot be reached: up to a label that something jumps to.          *)
RECURSIVE skip_dead_code(_)
skip_dead_code(s) ==
  LET op == Nth(s, 0)
  IN IF s.pos > Len(s.code) \/ (op.op = "label" /\ s.labels[op.n].ref_count > 0) THEN s
     ELSE skip_dead_code(Past(IF op.op \in LabelOps THEN update_label(s, op.n, -1) ELSE s, 1))

(* Where a label leads: labels are passed and a bounded number of jumps    *)
(* followed. The label reached, and the operation there.                   *)
PastAll(s, pos, op) == CHOOSE p \in pos .. Len(s.code) + 1 : OpAt(s, p) # op /\ \A q \in pos .. p - 1 : OpAt(s, q) = op
Landed(s, pos) == PastAll(s, pos, "label")
Followed(s, label, n) ==
  FoldLeft(LAMBDA x, i : IF x.op # "goto" THEN x
                         ELSE LET pos == Landed(s, s.labels[x.label].pos)
                              IN [op |-> OpAt(s, pos), pos |-> pos, label |-> IF OpAt(s, pos) = "goto" THEN s.code[pos].n ELSE x.label],
           [op |-> "goto", pos |-> 0, label |-> label], [i \in 1 .. n |-> i])
get_label_pos(s, label) == Followed(s, label, 20).pos

-----------------------------------------------------------------------------
(* resolve_variables.                                                      *)

GlobalVariable(op, x) ==
  LET Var == [scope_get_var |-> "get_var", scope_get_var_undef |-> "get_var_undef", scope_put_var |-> "put_var",
              scope_put_var_init |-> "put_var_init", scope_delete_var |-> "delete_var"]
  IN OpcX(Var[op], x)
resolve_scope_var(op, x) ==
  LET Loc == [scope_get_var |-> "get_loc", scope_get_var_undef |-> "get_loc", scope_put_var |-> "put_loc",
              scope_put_var_init |-> "put_loc"]
  IN IF x \notin LocalNames THEN GlobalVariable(op, x)
     ELSE IF op = "scope_delete_var" THEN Opc("push_false") ELSE OpcX(Loc[op], x)

(* A reference whose value is put where its label says is a variable.      *)
can_opt_put_ref_value(s, label_pos) ==
  code_match(s, label_pos + 1, <<{"insert3", "perm4", "rot3l"}, {"put_ref_value"}>>)
optimize_scope_make_ref(s, x, label_pos) ==
  LET local == x \in LocalNames
      put == OpcX(IF local THEN "put_loc" ELSE "put_var", x)
      kept == OpAt(s, label_pos + 1) = "insert3"
      patch == IF kept THEN <<Opc("dup"), put, Opc("nop")>> ELSE <<put, Opc("nop"), Opc("nop")>>
      read == Follows(s, <<{"get_ref_value"}>>)
      patched == [s EXCEPT !.code = SubSeq(@, 1, label_pos - 1) \o patch \o SubSeq(@, label_pos + 3, Len(@))]
  IN IF read THEN Emit(patched, 2, <<OpcX(IF local THEN "get_loc" ELSE "get_var", x)>>) ELSE Past(patched, 1)
scope_make_ref(s) ==
  LET op == Nth(s, 0)
      left == update_label(s, op.n, -1)
      label_pos == s.labels[op.n].pos
  IN IF can_opt_put_ref_value(s, label_pos) THEN optimize_scope_make_ref(left, op.x, label_pos)
     ELSE Emit(left, 1, <<OpcX(IF op.x \in LocalNames THEN "make_loc_ref" ELSE "make_var_ref", op.x)>>)

(* dup if(l1) drop, l1: dup if(l2) drop, l2: if(l3) -> if(l3).              *)
ThreadedTest(s) ==
  LET op == OpAt(s, s.pos + 1)
      first == Nth(s, 1).n
      Next(l) == LET pos == get_label_pos(s, l)
                 IN IF code_match(s, pos, <<{"dup"}, {op}, {"drop"}>>) THEN s.code[pos + 1].n ELSE l
      last == FoldLeft(LAMBDA l, i : Next(l), first, s.labels)
      pos2 == get_label_pos(s, last)
  IN IF ~Follows(s, <<Test, {"drop"}>>) \/ ~code_match(s, pos2, <<{op}>>) THEN Emit(s, 1, <<Opc("dup")>>)
     ELSE Emit(update_label(update_label(s, first, -1), s.code[pos2].n, 1), 3, <<OpcN(op, s.code[pos2].n)>>)
Names == {"scope_get_var", "scope_get_var_undef", "scope_put_var", "scope_put_var_init", "scope_delete_var"}
Erased == {"nop", "enter_scope", "leave_scope"}
NeverPassed == {"goto", "return", "return_undef", "throw", "ret"}
ResolvedVariables(s) ==
  LET op == Nth(s, 0)
  IN CASE op.op \in Names -> Emit(s, 1, <<resolve_scope_var(op.op, op.x)>>)
       [] op.op = "scope_make_ref" -> scope_make_ref(s)
       [] op.op = "gosub" /\ code_match(s, s.labels[op.n].pos + 1, <<{"ret"}>>) -> Past(update_label(s, op.n, -1), 1)
       [] op.op = "insert3" /\ Follows(s, <<{"put_array_el", "put_ref_value"}, {"drop"}>>) -> Emit(s, 3, <<Nth(s, 1)>>)
       [] op.op \in NeverPassed -> skip_dead_code(Emit(s, 1, <<op>>))
       [] op.op = "label" -> [Emit(s, 1, <<op>>) EXCEPT !.labels[op.n] = [@ EXCEPT !.pos2 = Len(s.out) + 1]]
       [] op.op \in Erased -> Past(s, 1)
       [] op.op = "dup" -> ThreadedTest(s)
       [] OTHER -> Emit(s, 1, <<op>>)
EachPos(s, Resolve(_)) == FoldLeft(LAMBDA x, pos : IF x.pos = pos THEN Resolve(x) ELSE x, s, [i \in 1 .. Len(s.code) |-> i])
EachLabel(labels, Slot(_)) == FoldLeft(LAMBDA ls, l : Append(ls, Slot(l)), <<>>, labels)
resolve_variables(fd) ==
  EachPos(Pass(fd.code, EachLabel(fd.labels, LAMBDA l : [ref_count |-> l.ref_count, pos |-> l.pos, pos2 |-> 0])),
          ResolvedVariables)

-----------------------------------------------------------------------------
(* resolve_labels. The place of a label is now where it is in out.         *)

code_has_label(s, pos, label) ==
  \E p \in pos .. Len(s.code) :
    /\ \A q \in pos .. p - 1 : OpAt(s, q) = "label"
    /\ OpAt(s, p) \in {"label", "goto"} /\ s.code[p].n = label

find_jump_target(s, label) ==
  LET t == Followed(s, label, 10)
      past == PastAll(s, t.pos, "drop")
  IN [label |-> t.label, op |-> IF t.op = "drop" /\ OpAt(s, past) = "return_undef" THEN "return_undef" ELSE t.op,
      s |-> update_label(update_label(s, label, -1), t.label, 1)]

HasLabel(s, op, label) ==
  LET put == Put(s, <<OpcN(op, label)>>) IN IF op = "goto" THEN skip_dead_code(put) ELSE put

(* A jump; pos is behind it.                                               *)
HasGoto(s, label0) ==
  LET t == find_jump_target(s, label0)
      unused == update_label(t.s, t.label, -1)
  IN IF code_has_label(s, s.pos, t.label) THEN unused
     ELSE IF t.op \in {"return", "return_undef", "throw"} THEN skip_dead_code(Put(unused, <<Opc(t.op)>>))
     ELSE HasLabel(t.s, "goto", t.label)
HasTest(s, op) ==
  LET t == find_jump_target(s, Nth(s, 0).n)
      unused == update_label(t.s, t.label, -1)
      over == Follows(s, <<{"goto"}>>) /\ code_has_label(s, s.pos + 2, t.label)
  IN IF code_has_label(s, s.pos + 1, t.label) THEN Emit(unused, 1, <<Opc("drop")>>)
     ELSE IF over THEN HasLabel(Past(unused, 2), Opposite(op), Nth(s, 1).n)
     ELSE HasLabel(Past(t.s, 1), op, t.label)
Tested(s, val) ==
  LET test == Nth(s, 1)
      past == Past(s, 2)
  IN IF val = (test.op = "if_true") THEN HasGoto(past, test.n) ELSE update_label(past, test.n, -1)
IsTest(s, is) == IF Follows(s, <<{"strict_eq"}>>) THEN Emit(s, 2, <<Opc(is)>>)
                 ELSE HasLabel(Emit(s, 3, <<Opc(is)>>), Opposite(Nth(s, 2).op), Nth(s, 2).n)
IsTested(s) == Follows(s, <<{"strict_eq"}>>) \/ Follows(s, <<{"strict_neq"}, Test>>)

(* Constants and values that are dropped.                                  *)
Kept(s) == Emit(s, 1, <<Nth(s, 0)>>)
Dropped(s) == Follows(s, <<{"drop"}>>)
Constant(s) ==
  LET op == Nth(s, 0)
      constant_test == Follows(s, <<Test>>)
  IN CASE op.op = "null" /\ IsTested(s) -> IsTest(s, "is_null")
       [] op.op = "undefined" /\ Dropped(s) -> Past(s, 2)
       [] op.op = "undefined" /\ Follows(s, <<{"return"}>>) -> Emit(s, 2, <<Opc("return_undef")>>)
       [] op.op = "undefined" /\ ~constant_test /\ IsTested(s) -> IsTest(s, "is_undefined")
       [] op.op # "push_i32" /\ constant_test -> Tested(s, op.op = "push_true")
       [] op.op = "push_i32" /\ op.n # 0 /\ Follows(s, <<{"neg"}, {"drop"}>>) -> Past(s, 3)
       [] op.op = "push_i32" /\ op.n # 0 /\ Follows(s, <<{"neg"}>>) /\ ~Follows(s, <<{"neg"}, {"drop"}>>) ->
            Emit(s, 2, <<OpcN("push_i32", -op.n)>>)
       [] op.op = "push_i32" /\ Dropped(s) -> Past(s, 2)
       [] op.op = "push_i32" /\ constant_test -> Tested(s, op.n # 0)
       [] op.op = "push_atom_value" /\ Dropped(s) -> Past(s, 2)
       [] OTHER -> Kept(s)

(* Variables: dup put_loc drop get_loc -> set_loc and parts of it; x++ and *)
(* x += y for a variable.                                                  *)
Same(s, n, x) == Nth(s, n).x = x
StoredTwice(s) ==
  LET put == Nth(s, 1)
      kept == ~Follows(s, <<{"put_loc"}, {"drop"}>>)
      again == Follows(s, <<{"put_loc"}, {"drop"}, {"get_loc"}>>) /\ Same(s, 3, put.x)
  IN IF ~Follows(s, <<{"put_loc"}>>) THEN Kept(s)
     ELSE IF kept THEN Emit(s, 2, <<OpcX("set_loc", put.x)>>)
     ELSE IF again THEN Emit(s, 4, <<OpcX("set_loc", put.x)>>) ELSE Emit(s, 3, <<put>>)
FusedStep == [post_inc |-> "inc_loc", inc |-> "inc_loc", post_dec |-> "dec_loc", dec |-> "dec_loc"]
Added == {"push_atom_value", "push_i32", "get_loc"}
GotLocal(s) ==
  LET x == Nth(s, 0).x
  IN CASE Follows(s, <<{"post_dec", "post_inc"}, {"put_loc"}, {"drop"}>>) /\ Same(s, 2, x) ->
            Emit(s, 4, <<OpcX(FusedStep[Nth(s, 1).op], x)>>)
       [] Follows(s, <<{"dec", "inc"}, {"dup"}, {"put_loc"}, {"drop"}>>) /\ Same(s, 3, x) ->
            Emit(s, 5, <<OpcX(FusedStep[Nth(s, 1).op], x)>>)
       [] Follows(s, <<Added, {"add"}, {"dup"}, {"put_loc"}, {"drop"}>>) /\ Same(s, 4, x) ->
            Emit(s, 6, <<Nth(s, 1), OpcX("add_loc", x)>>)
       [] OTHER -> Kept(s)
PutLocal(s) ==
  IF Follows(s, <<{"get_loc"}>>) /\ Same(s, 1, Nth(s, 0).x) THEN Emit(s, 2, <<OpcX("set_loc", Nth(s, 0).x)>>) ELSE Kept(s)
Before == [post_inc |-> "inc", post_dec |-> "dec"]
StepsLocal(s) ==
  LET op == Opc(Before[Nth(s, 0).op])
      put == Nth(s, 1)
      again == Follows(s, <<{"put_loc"}, {"drop"}, {"get_loc"}>>) /\ Same(s, 3, put.x)
  IN CASE Follows(s, <<{"put_loc"}, {"drop"}>>) ->
            IF again THEN Emit(s, 4, <<op, OpcX("set_loc", put.x)>>) ELSE Emit(s, 3, <<op, put>>)
       [] Follows(s, <<{"perm3"}, {"put_field"}, {"drop"}>>) \/ Follows(s, <<{"perm4"}, {"put_array_el"}, {"drop"}>>) ->
            Emit(s, 4, <<op, Nth(s, 2)>>)
       [] OTHER -> Kept(s)

(* typeof x == "undefined" and "function".                                 *)
TypeTested(s) ==
  LET Is == [undefined |-> "is_undefined", function |-> "is_function"]
      name == Nth(s, 1).x
      equal == Nth(s, 2).op = "strict_eq"
  IN CASE Follows(s, <<{"push_atom_value"}, {"strict_eq", "strict_neq"}>>) /\ name \in DOMAIN Is /\ equal ->
            Emit(s, 3, <<Opc(Is[name])>>)
       [] Follows(s, <<{"push_atom_value"}, {"strict_neq"}, {"if_false"}>>) /\ name \in DOMAIN Is ->
            HasLabel(Emit(s, 4, <<Opc(Is[name])>>), "if_true", Nth(s, 3).n)
       [] Follows(s, <<{"push_atom_value"}, {"strict_neq"}>>) /\ ~Follows(s, <<{"push_atom_value"}, {"strict_neq"}, {"if_false"}>>)
            /\ name = "undefined" -> Emit(s, 3, <<Opc("undefined"), Nth(s, 2)>>)
       [] OTHER -> Kept(s)

Tail1 == [call |-> "tail_call", call_method |-> "tail_call_method"]
Constants1 == {"null", "undefined", "push_true", "push_false", "push_i32", "push_atom_value"}
Simple == {"get_loc", "push_i32", "push_atom_value", "undefined", "null", "push_true", "push_false"}
ResolvedLabels(s) ==
  LET op == Nth(s, 0)
  IN CASE op.op = "label" -> [Past(s, 1) EXCEPT !.labels[op.n] = [@ EXCEPT !.pos2 = Len(s.out) + 1]]
       [] op.op \in DOMAIN Tail1 /\ Follows(s, <<{"return"}>>) ->
            skip_dead_code(Emit(s, 2, <<OpcN(Tail1[op.op], op.n)>>))
       [] op.op \in {"return", "return_undef", "return_async", "throw"} -> skip_dead_code(Kept(s))
       [] op.op = "goto" -> HasGoto(Past(s, 1), op.n)
       [] op.op \in Test -> HasTest(s, op.op)
       [] op.op = "drop" /\ Follows(s, <<{"return_undef"}>>) -> Past(s, 1)
       [] op.op \in Constants1 -> Constant(s)
       [] op.op \in {"to_propkey", "to_propkey2"} /\ Follows(s, <<Simple, {"put_array_el"}>>) -> Past(s, 1)
       [] op.op = "insert2" /\ Follows(s, <<{"put_field"}, {"drop"}>>) -> Emit(s, 3, <<Nth(s, 1)>>)
       [] op.op = "dup" -> StoredTwice(s)
       [] op.op = "get_loc" -> GotLocal(s)
       [] op.op = "put_loc" -> PutLocal(s)
       [] op.op \in DOMAIN Before -> StepsLocal(s)
       [] op.op = "typeof" -> TypeTested(s)
       [] OTHER -> Kept(s)
resolve_labels(s) == EachPos(Pass(s.out, EachLabel(s.labels, LAMBDA l : [l EXCEPT !.pos = l.pos2])), ResolvedLabels)

(* What is run: operations and the places of the labels.                   *)
Emitted(fd) == [code |-> fd.code, pos |-> EachLabel(fd.labels, LAMBDA l : l.pos)]
Relocated(s) == [code |-> s.out, pos |-> EachLabel(s.labels, LAMBDA l : l.pos2)]
=============================================================================
