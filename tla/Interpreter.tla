---------------------------- MODULE Interpreter ----------------------------
(***************************************************************************)
(* The bytecode interpreter (quickjs.c: JS_CallInternal and what it calls) *)
(* on compiled functions: what each instruction does to the operand stack, *)
(* to the variables and to the references the frame owns; exceptions and   *)
(* how they are unwound; suspension and the release of the frame.          *)
(*                                                                         *)
(* A counted value is Ref(t), a reference of its own: JS_DupValue makes a  *)
(* new one, JS_FreeValue ends one, and a value given to the heap or to the *)
(* caller ends here too.  Which value program code returns is a choice.    *)
(* Allocations do not fail.                                                *)
(***************************************************************************)
EXTENDS Integers, Sequences, FiniteSets
LOCAL INSTANCE SequencesExt
LOCAL INSTANCE FiniteSetsExt

(* Names of functions |-> [args, vars, stack_size, code, closures].  An     *)
(* instruction is <<name, operand>>: a number or the target of a jump.     *)
(* "closures" are the variables of the frame that each closure captures.   *)
CONSTANT Programs

VARIABLE frame    \* a JSStackFrame, and what its references are good for

function   == Programs[frame.cur_func]
code       == function.code
Op         == code[frame.pc][1]
Arg        == code[frame.pc][2]
Running    == frame.status = "run"

-----------------------------------------------------------------------------
(* Values. *)
Ref(t)         == <<"ref", t>>
Number(n)         == <<"int", n>>          \* numbers and booleans
CatchOffset(p) == <<"catch", p>>        \* 0 for an enumerator
Undefined      == <<"undefined", 0>>
Null           == <<"null", 0>>
Uninitialized  == <<"uninitialized", 0>>

IsRef(v) == v[1] = "ref"
Fresh(f) == Ref(CHOOSE t \in 1..(Cardinality(f.live) + 1) :
                  t \notin f.live /\ \A u \in 1..(t - 1) : u \in f.live)

(* What an instruction pushes: one of the values of a kind. *)
Values(kind, f) ==
  CASE kind = "ref"       -> {Fresh(f)}
    [] kind = "any"       -> {Fresh(f), Undefined}
    [] kind = "number"    -> {Fresh(f), Number(0)}
    [] kind = "bool"      -> {Number(0), Number(1)}
    [] kind = "operand"   -> {Number(Arg)}
    [] kind = "false"     -> {Number(0)}
    [] kind = "true"      -> {Number(1)}
    [] kind = "undefined" -> {Undefined}
    [] kind = "null"      -> {Null}

Owning(f, v)  == IF IsRef(v) THEN [f EXCEPT !.live = @ \cup {v[2]}] ELSE f
JS_DupValue(v, f) == IF IsRef(v) THEN Fresh(f) ELSE v

(* The reference of v ends. *)
JS_FreeValue(f, v) ==
  IF ~IsRef(v) THEN f
  ELSE [f EXCEPT !.live   = @ \ {v[2]},
                 !.loops  = @ \ {v[2]},
                 !.closed = @ \ {v[2]},
                 !.faults = @ \cup (IF v[2] \notin f.live THEN {"freed twice"} ELSE {})
                              \cup (IF v[2] \in f.loops THEN {"not closed"} ELSE {})]

FreeAll(f, vs) == FoldLeft(JS_FreeValue, f, vs)

Depth(f)      == Len(f.stack)
Top(f, i)     == f.stack[Depth(f) + 1 - i]          \* sp[-i]
Drop(f, n)    == [f EXCEPT !.stack = SubSeq(@, 1, Len(@) - n)]
Push(f, v)    == Owning([f EXCEPT !.stack = Append(@, v)], v)
SetTop(f, i, v) == Owning([f EXCEPT !.stack[Depth(f) + 1 - i] = v], v)
TopValues(f, n) == SubSeq(f.stack, Depth(f) - n + 1, Depth(f))
Next_pc(f)    == [f EXCEPT !.pc = @ + 1]

PushKinds(f, kinds) ==
  FoldLeft(LAMBDA fs, kind : UNION {{Push(x, v) : v \in Values(kind, x)} : x \in fs}, {f}, kinds)

(* set_value: the new value is stored before the old one is freed. *)
set_value(f, l, v) == JS_FreeValue(Owning([f EXCEPT !.locals[l] = v], v), f.locals[l])

(* Program code may assign a variable that a closure has captured. *)
Ran(f) == {f} \cup UNION {{set_value(f, l, v) : v \in {Fresh(f), Number(0)}} : l \in f.captured}

(* JS_Throw: an exception is set, an interrupt cannot be caught. *)
JS_Throw(f, v, catchable) ==
  LET g == JS_FreeValue(f, f.exception)
  IN  Owning([g EXCEPT !.exception = v, !.catchable = catchable, !.status = "unwind"], v)
Throws(f) == {JS_Throw(f, Fresh(f), catchable) : catchable \in BOOLEAN}

-----------------------------------------------------------------------------
(* Most instructions release some operands from the top of the stack and   *)
(* push results.  They throw before they release anything, after, or with  *)
(* the operands freed but still on the stack as undefined; array_from may  *)
(* throw when it has given away some of them.                              *)
Effect(release, push, throws) == [release |-> release, push |-> push, throws |-> throws]

Released(f, n) == FreeAll(Drop(f, n), TopValues(f, n))

(* Slip: an exception leaves the freed operands on the stack. *)
Slip_NotCleared(f, from, to) == FreeAll(f, SubSeq(f.stack, from, to))

(* The slow cases of the operators: on an exception the operands are freed *)
(* and their slots set to undefined.                                       *)
Cleared(f, from, to) ==
  [FreeAll(f, SubSeq(f.stack, from, to)) EXCEPT
     !.stack = [i \in DOMAIN @ |-> IF i \in from..to THEN Undefined ELSE @[i]]]

Stopped(f, release, how) ==
  LET base == Depth(f) - release
  IN  CASE how = "before"  -> {f}
        [] how = "after"   -> {Released(f, release)}
        [] how = "cleared" -> {Cleared(f, base + 1, Depth(f))}
        [] how = "partly"  -> {Cleared(f, base + 1, base + i) : i \in 1..release}

Performed(f, e) ==
  LET ran == IF e.throws = {} THEN {f} ELSE Ran(f)
  IN  UNION {PushKinds(Next_pc(Released(x, e.release)), e.push) : x \in ran}
        \cup UNION {UNION {UNION {Throws(y) : y \in Stopped(x, e.release, how)} : x \in ran}
                    : how \in e.throws}

Step(table) == Running /\ Op \in DOMAIN table /\ \E f \in Performed(frame, table[Op]) : frame' = f

-----------------------------------------------------------------------------
Never  == {}
Before == {"before"}
After  == {"after"}
Get(n)  == Effect(n, <<"any">>, Before)
Make(n) == Effect(n, <<"ref">>, Before)
Put(n)  == Effect(n, <<>>, After)
Check   == Effect(0, <<>>, Before)
Literal(kind) == Effect(0, <<kind>>, Never)

PushOps ==
  [push_i32        |-> Literal("operand"),
   push_const      |-> Literal("ref"),
   push_atom_value |-> Literal("ref"),
   push_this       |-> Literal("any"),
   undefined       |-> Literal("undefined"),
   null            |-> Literal("null"),
   push_false      |-> Literal("false"),
   push_true       |-> Literal("true"),
   object          |-> Literal("ref"),
   rest            |-> Literal("ref"),
   get_length      |-> Get(1)]

CallOps(n) ==
  [call             |-> Get(n + 1),
   call_constructor |-> Make(n + 2),
   call_method      |-> Get(n + 2),
   array_from       |-> Effect(n, <<"ref">>, {"before", "partly"}),
   apply            |-> Get(3)]

CtorOps ==
  [check_ctor_return |-> Effect(0, <<"bool">>, Before),
   check_ctor        |-> Check]

(* Private methods: objects that have them carry the brand of the class.   *)
BrandOps ==
  [check_brand |-> Check,
   add_brand   |-> Effect(2, <<>>, Before)]

EvalOps(n) ==
  [eval           |-> Get(n + 1),
   apply_eval     |-> Get(2),
   regexp         |-> Effect(2, <<"ref">>, Never),
   get_super_ctor |-> Make(1),
   get_super      |-> Get(1),
   import         |-> Make(1)]

GlobalOps ==
  [check_var      |-> Effect(0, <<"bool">>, Before),
   get_var_undef  |-> Get(0),
   get_var        |-> Get(0),
   put_var        |-> Put(1),
   put_var_init   |-> Put(1),
   put_var_strict |-> Effect(2, <<>>, {"before", "after"}),
   make_var_ref   |-> Effect(0, <<"any", "ref">>, Before)]

(* Declarations of global variables and functions. *)
GlobalDeclarations ==
  [check_define_var |-> Check,
   define_var       |-> Check,
   define_func      |-> Effect(1, <<>>, Before)]

(* The variables of other frames, which a closure refers to. *)
VarRefOps ==
  [get_var_ref            |-> Effect(0, <<"any">>, Never),
   put_var_ref            |-> Effect(1, <<>>, Never),
   set_var_ref            |-> Effect(0, <<>>, Never),
   get_var_ref_check      |-> Get(0),
   put_var_ref_check      |-> Effect(1, <<>>, Before),
   put_var_ref_check_init |-> Effect(1, <<>>, Before),
   make_var_ref_ref       |-> Effect(0, <<"ref", "ref">>, Never)]

FieldOps ==
  [get_field            |-> Get(1),
   get_field2           |-> Get(0),
   put_field            |-> Put(2),
   private_symbol       |-> Literal("ref"),
   define_field         |-> Put(1),
   set_name             |-> Check,
   set_name_computed    |-> Check,
   set_proto            |-> Effect(1, <<>>, Before),
   set_home_object      |-> Effect(0, <<>>, Never)]

PrivateFieldOps ==
  [get_private_field    |-> Effect(2, <<"any">>, After),
   put_private_field    |-> Put(3),
   define_private_field |-> Put(2)]

MethodOps ==
  [define_method          |-> Put(1),
   define_method_computed |-> Effect(2, <<>>, {"before", "after"})]

ElementOps ==
  [get_array_el    |-> Effect(2, <<"any">>, After),
   get_array_el2   |-> Effect(1, <<"any">>, After),
   get_ref_value   |-> Get(0),
   get_super_value |-> Get(3),
   put_array_el    |-> Put(3),
   put_ref_value   |-> Effect(3, <<>>, {"before", "after"}),
   put_super_value |-> Effect(4, <<>>, {"before", "after"}),
   define_array_el |-> Put(1)]

(* ... in an array or object literal: an iteration, which is closed, or    *)
(* the properties of an object.                                            *)
SpreadOps ==
  [append               |-> Effect(1, <<>>, Before),
   copy_data_properties |-> Check]

OtherOps ==
  [in          |-> Effect(2, <<"bool">>, Before),
   instanceof  |-> Effect(2, <<"bool">>, Before),
   typeof      |-> Effect(1, <<"ref">>, Never),
   delete      |-> Effect(2, <<"bool">>, Before),
   delete_var  |-> Effect(0, <<"bool">>, Before),
   to_object   |-> Make(1),
   to_propkey  |-> Make(1),
   to_propkey2 |-> Make(1),
   strict_eq   |-> Effect(2, <<"bool">>, Never),
   strict_neq  |-> Effect(2, <<"bool">>, Never),
   lnot        |-> Effect(1, <<"bool">>, Never),
   is_function |-> Effect(1, <<"bool">>, Never),
   nop         |-> Effect(0, <<>>, Never)]

(* drop .. rot5l: the operands taken, and where each of the new ones is    *)
(* from.                                                                   *)
To(n, from) == [n |-> n, from |-> from]
Shuffles ==
  [drop    |-> To(1, <<>>),        nip     |-> To(2, <<2>>),
   nip1    |-> To(3, <<2, 3>>),    dup     |-> To(1, <<1, 1>>),
   dup1    |-> To(2, <<1, 1, 2>>), dup2    |-> To(2, <<1, 2, 1, 2>>),
   dup3    |-> To(3, <<1, 2, 3, 1, 2, 3>>),
   insert2 |-> To(2, <<2, 1, 2>>), insert3 |-> To(3, <<3, 1, 2, 3>>),
   insert4 |-> To(4, <<4, 1, 2, 3, 4>>),
   perm3   |-> To(3, <<2, 1, 3>>), perm4   |-> To(4, <<3, 1, 2, 4>>),
   perm5   |-> To(5, <<4, 1, 2, 3, 5>>),
   swap    |-> To(2, <<2, 1>>),    swap2   |-> To(4, <<3, 4, 1, 2>>),
   rot3l   |-> To(3, <<2, 3, 1>>), rot3r   |-> To(3, <<3, 1, 2>>),
   rot4l   |-> To(4, <<2, 3, 4, 1>>),
   rot5l   |-> To(5, <<2, 3, 4, 5, 1>>)]

(* An operand that is named twice is duplicated, one that is not is freed. *)
(* The loop of an enumerator whose catch offset is dropped is over.        *)
Shuffled(f, to) ==
  LET base      == Depth(f) - to.n
      operand   == TopValues(f, to.n)
      lost      == {i \in 1..to.n : \A j \in DOMAIN to.from : to.from[j] # i}
      unguarded == {f.stack[base + i - 2][2] : i \in {j \in lost : operand[j] = CatchOffset(0)}}
      place(g, j) == Push(g, IF \E k \in 1..(j - 1) : to.from[k] = to.from[j]
                               THEN JS_DupValue(operand[to.from[j]], g)
                               ELSE operand[to.from[j]])
      left      == FreeAll([Drop(f, to.n) EXCEPT !.loops = @ \ unguarded],
                           [i \in 1..Cardinality(lost) |-> operand[SetToSortSeq(lost, <)[i]]])
  IN  FoldLeft(place, left, [j \in DOMAIN to.from |-> j])

-----------------------------------------------------------------------------
(* Operators: numbers are computed in place, everything else by the slow   *)
(* functions, which may run valueOf or toString.                           *)
Unary   == {"neg", "plus", "dec", "inc", "not"}
PostOps == {"post_dec", "post_inc"}
Arithmetic == {"mul", "div", "mod", "add", "sub", "pow"}
Bitwise == {"shl", "sar", "shr", "and", "xor", "or"}
Binary  == Arithmetic \cup Bitwise
Compare == {"lt", "lte", "gt", "gte", "eq", "neq"}

Operands == IF Op \in Unary \cup PostOps THEN 1 ELSE 2
Result   == IF Op \in Compare THEN <<"bool">>
            ELSE IF Op \in PostOps THEN <<"number", "number">> ELSE <<"number">>

Operate ==
  /\ Running /\ Op \in Unary \cup PostOps \cup Binary \cup Compare
  /\ LET fast == \A i \in 1..Operands : Top(frame, i)[1] = "int"
     IN  \E f \in Performed(frame, Effect(Operands, Result, IF fast THEN {} ELSE {"cleared"})) :
           frame' = f

(* add_loc, inc_loc and dec_loc work on a variable.  They keep what it was *)
(* while program code converts an operand: if a closure has assigned the   *)
(* variable meanwhile, what they use and free again is freed memory.       *)
Overtaken(f) == {[f EXCEPT !.status = "undefined"]}

(* From the operands to the new value, or to undefined when that throws.   *)
Updated(f, l) ==
  LET g == JS_FreeValue(f, f.locals[l])
  IN  {Next_pc(Owning([g EXCEPT !.locals[l] = v], v)) : v \in Values("number", g)}
        \cup Throws([g EXCEPT !.locals[l] = Undefined])

UpdatedSlowly(f, l, popped) ==
  UNION {IF g.locals[l] # f.locals[l] THEN Overtaken(g)
         ELSE LET h == Released(g, popped)
              IN  Updated(h, l) \cup (IF popped = 1 THEN Throws(h) ELSE {}) : g \in Ran(f)}

UpdateVariable ==
  /\ Running /\ Op \in {"add_loc", "inc_loc", "dec_loc"}
  /\ LET popped == IF Op = "add_loc" THEN 1 ELSE 0
         ints   == frame.locals[Arg][1] = "int" /\ (popped = 1 => Top(frame, 1)[1] = "int")
     IN  IF ints
           THEN frame' = Next_pc(Drop([frame EXCEPT !.locals[Arg] = Number(0)], popped))
           ELSE \E f \in UpdatedSlowly(frame, Arg, popped) : frame' = f

-----------------------------------------------------------------------------
(* Variables of the frame: get, put and set, with a check for let, const   *)
(* and this.                                                               *)
GetVariable ==
  /\ Running
  /\ \/ Op = "get_loc"
     \/ Op = "get_loc_check" /\ frame.locals[Arg] # Uninitialized
  /\ frame' = Next_pc(Push(frame, JS_DupValue(frame.locals[Arg], frame)))

PutVariable ==
  /\ Running
  /\ \/ Op = "put_loc"
     \/ Op = "put_loc_check" /\ frame.locals[Arg] # Uninitialized
     \/ Op = "put_loc_check_init" /\ frame.locals[Arg] = Uninitialized
  /\ frame' = Next_pc(set_value(Drop(frame, 1), Arg, Top(frame, 1)))

SetVariable ==
  /\ Running
  /\ \/ /\ Op = "set_loc"
        /\ frame' = Next_pc(set_value(frame, Arg, JS_DupValue(Top(frame, 1), frame)))
     \/ /\ Op = "set_loc_uninitialized"
        /\ frame' = Next_pc(set_value(frame, Arg, Uninitialized))

VariableCheckFails ==
  /\ Running
  /\ \/ Op \in {"get_loc_check", "put_loc_check"} /\ frame.locals[Arg] = Uninitialized
     \/ Op = "put_loc_check_init" /\ frame.locals[Arg] # Uninitialized
  /\ \E f \in Throws(frame) : frame' = f

(* Closures, mapped arguments and references of a with statement share     *)
(* variables of the frame; close_lexical_var gives a variable its copy.    *)
MAPPED_ARGUMENTS == 1
Variables       == function.closures[Arg]
Capture(f, ls) == [f EXCEPT !.captured = @ \cup ls]

js_closure ==
  /\ Running /\ Op = "fclosure"
  /\ \E f \in PushKinds(Next_pc(frame), <<"ref">>) : frame' = Capture(f, Variables)

js_build_mapped_arguments ==
  /\ Running /\ Op = "special_object" /\ Arg = MAPPED_ARGUMENTS
  /\ \E f \in PushKinds(Next_pc(frame), <<"ref">>) : frame' = Capture(f, 1..function.args)

SpecialObject ==
  /\ Running /\ Op = "special_object" /\ Arg # MAPPED_ARGUMENTS
  /\ \E f \in PushKinds(Next_pc(frame), <<"any">>) : frame' = f

MakeReference ==
  /\ Running /\ Op = "make_loc_ref"
  /\ \E f \in PushKinds(Next_pc(frame), <<"ref", "ref">>) : frame' = Capture(f, {Arg})

js_op_define_class ==
  /\ Running /\ Op \in {"define_class", "define_class_computed"}
  /\ \E f \in Performed(frame, Effect(2, <<"ref", "ref">>, {"cleared"})) :
       frame' = IF f.status = "run" THEN Capture(f, Variables) ELSE f

close_lexical_var ==
  /\ Running /\ Op = "close_loc"
  /\ frame' = Next_pc([frame EXCEPT !.captured = @ \ {Arg}])

-----------------------------------------------------------------------------
(* Jumps.  Every jump polls for an interrupt, which cannot be caught.      *)
Jump(f, target) == [f EXCEPT !.pc = target]
Polled(f)       == {f, JS_Throw(f, Fresh(f), FALSE)}

(* The truth of an operand: JS_ToBoolFree of a reference is a choice.      *)
Truth(v) == CASE IsRef(v) -> BOOLEAN
              [] v[1] = "int" -> {v[2] # 0}
              [] OTHER -> {FALSE}

Goto == Running /\ Op = "goto" /\ \E f \in Polled(Jump(frame, Arg)) : frame' = f

If ==
  /\ Running /\ Op \in {"if_true", "if_false"}
  /\ \E b \in Truth(Top(frame, 1)) :
     \E f \in Polled(IF b = (Op = "if_true") THEN Jump(Released(frame, 1), Arg)
                                            ELSE Next_pc(Released(frame, 1))) : frame' = f

Is ==
  /\ Running /\ Op \in {"is_undefined", "is_null"}
  /\ LET yes == Top(frame, 1) = (IF Op = "is_null" THEN Null ELSE Undefined)
     IN  frame' = Next_pc(Push(Released(frame, 1), Number(IF yes THEN 1 ELSE 0)))

Catch == Running /\ Op = "catch" /\ frame' = Next_pc(Push(frame, CatchOffset(Arg)))

(* A finally block is called with the return address on the stack. *)
Gosub == Running /\ Op = "gosub" /\ frame' = Jump(Push(frame, Number(frame.pc + 1)), Arg)

Ret ==
  /\ Running /\ Op = "ret" /\ Top(frame, 1)[1] = "int"
  /\ frame' = Jump(Drop(frame, 1), Top(frame, 1)[2])

Throw ==
  /\ Running
  /\ \/ Op = "throw" /\ frame' = JS_Throw(Drop(frame, 1), Top(frame, 1), TRUE)
     \/ Op = "throw_var" /\ \E f \in Throws(frame) : frame' = f

-----------------------------------------------------------------------------
(* The end of a frame: variables and operands are freed, by the caller in  *)
(* a function that can be suspended.                                       *)
Left(f) ==
  [FreeAll(f, f.locals \o f.stack) EXCEPT
     !.locals = <<>>, !.stack = <<>>, !.captured = {}, !.status = "ended"]

Return ==
  /\ Running
  /\ \/ /\ Op \in {"return", "return_async"}
        /\ frame' = Left([Drop(frame, 1) EXCEPT !.result = Top(frame, 1)])
     \/ /\ Op = "return_undef"
        /\ frame' = Left(frame)
     \/ /\ Op \in {"tail_call", "tail_call_method"}      \* the operands are left on the stack
        /\ \E f \in Ran(frame) :
           \E g \in Throws(f) \cup {Left(Owning([f EXCEPT !.result = v], v)) : v \in Values("any", f)} :
             frame' = g

(* JS_IteratorClose: the method return is called, if there is one. *)
IteratorClosed(f, v) ==
  Ran(IF ~IsRef(v) THEN f
      ELSE [f EXCEPT !.loops = @ \ {v[2]}, !.closed = @ \cup ({v[2]} \cap f.loops),
                     !.faults = @ \cup (IF v[2] \in f.closed THEN {"closed twice"} ELSE {})])

(* The label exception: operands are freed until a catch offset. *)
Unwind ==
  /\ frame.status = "unwind" /\ frame.catchable /\ frame.stack # <<>>
  /\ LET v == Top(frame, 1)
         f == Drop(frame, 1)
     IN  CASE v = CatchOffset(0) -> \E g \in IteratorClosed(Released(f, 1), Top(f, 2)) : frame' = g
           [] v[1] = "catch" /\ v # CatchOffset(0) ->
                frame' = [f EXCEPT !.stack = Append(@, f.exception), !.exception = Null,
                                   !.pc = v[2], !.status = "run", !.slack = 0]
           [] OTHER -> frame' = JS_FreeValue(f, v)

(* Nothing has caught it.  Loops do not see an exception that cannot be    *)
(* caught.                                                                 *)
LeaveWithException ==
  /\ frame.status = "unwind" /\ (frame.catchable => frame.stack = <<>>)
  /\ frame' = Left([frame EXCEPT !.loops = {}])

-----------------------------------------------------------------------------
(* Iteration.  A for-of loop keeps iterator, next method and the catch     *)
(* offset 0 on the stack; "loops" are the iterators that must be closed    *)
(* unless they end, "closed" those that have been.                         *)
js_for_in_start ==
  /\ Running /\ Op = "for_in_start"
  /\ \E f \in Performed(frame, Effect(1, <<"ref">>, {"cleared"})) : frame' = f

IterOps ==
  [for_await_of_next       |-> Get(0),
   iterator_get_value_done |-> Effect(1, <<"any", "bool">>, Before),
   async_iterator_next     |-> Get(1)]

js_for_in_next ==
  /\ Running /\ Op = "for_in_next"
  /\ \E f \in UNION {PushKinds(Next_pc(x), <<"any", "false">>) : x \in Ran(frame)}
               \cup PushKinds(Next_pc(frame), <<"undefined", "true">>) \cup Throws(frame) :
       frame' = f

(* The iterator replaces the operand before its next method is read. *)
js_for_of_start ==
  /\ Running /\ Op \in {"for_of_start", "for_await_of_start"}
  /\ LET iterators == UNION {PushKinds(Released(f, 1), <<"ref">>) : f \in Ran(frame)}
         Looping(f) == IF Op = "for_of_start" THEN [f EXCEPT !.loops = @ \cup {Top(f, 2)[2]}] ELSE f
     IN  \/ \E f \in Throws(frame) \cup UNION {Throws(g) : g \in iterators} : frame' = f
         \/ \E g \in iterators : \E f \in PushKinds(Next_pc(g), <<"any">>) :
              frame' = Push(Looping(f), CatchOffset(0))

(* Slip: the iterator stays on the stack when it has ended. *)
Slip_IteratorKept(f, i) == [f EXCEPT !.loops = @ \ {Top(f, i)[2]}, !.closed = @ \cup {Top(f, i)[2]}]

(* An iterator that has ended or has failed is replaced by undefined. *)
IteratorEnded(f, i) ==
  SetTop(JS_FreeValue([f EXCEPT !.loops = @ \ {Top(f, i)[2]}], Top(f, i)), i, Undefined)

js_for_of_next ==
  /\ Running /\ Op = "for_of_next"
  /\ LET i == Arg + 3
     IN  IF Top(frame, i) = Undefined
           THEN \E f \in PushKinds(Next_pc(frame), <<"undefined", "true">>) : frame' = f
           ELSE \E x \in Ran(frame) :
                \E f \in PushKinds(Next_pc(x), <<"any", "false">>)
                          \cup PushKinds(Next_pc(IteratorEnded(x, i)), <<"any", "true">>)
                          \cup Throws(IteratorEnded(x, i)) : frame' = f

IteratorClose ==
  /\ Running /\ Op = "iterator_close"
  /\ LET f == Released(Drop(frame, 1), 1)
     IN  IF Top(f, 1) = Undefined
           THEN frame' = Next_pc(Drop(f, 1))
           ELSE \E x \in IteratorClosed(f, Top(f, 1)) :
                \E g \in {Next_pc(Released(x, 1))} \cup Throws(x) : frame' = g

(* A return out of the loop: the value goes below the loop's operands, and *)
(* what the statements inside have left is dropped.                        *)
IteratorCloseReturn ==
  /\ Running /\ Op = "iterator_close_return"
  /\ LET enum == CHOOSE d \in 1..(Depth(frame) - 1) :
                   /\ frame.stack[d][1] = "catch"
                   /\ \A e \in (d + 1)..(Depth(frame) - 1) : frame.stack[e][1] # "catch"
         left == Depth(frame) - 1 - enum
         f    == Released(Drop(frame, 1), left)
     IN  frame' = Next_pc([f EXCEPT
                    !.stack = SubSeq(@, 1, enum - 3) \o <<Top(frame, 1)>> \o SubSeq(@, enum - 2, enum),
                    !.slack = @ + left])

async_iterator ==
  /\ Running
  /\ LET absent  == IF Op = "async_iterator_close" THEN Effect(3, <<"undefined", "true">>, Before)
                                                   ELSE Effect(0, <<"true">>, Before)
         present == Effect(IF Op = "async_iterator_close" THEN 3 ELSE 1, <<"any", "false">>, Before)
     IN  \/ /\ Op = "async_iterator_close" \/ (Op = "async_iterator_get" /\ Arg # 2)
            /\ \E f \in Performed(frame, absent) \cup Performed(frame, present) : frame' = f
         \/ /\ Op = "async_iterator_get" /\ Arg = 2          \* there is no method throw
            /\ \E f \in Throws(frame) : frame' = f

(* The object of a with statement has the variable and the code is         *)
(* skipped, or it has not and the object is dropped.                       *)
WithOps ==
  [with_get_var       |-> Get(1),
   with_put_var       |-> Effect(2, <<>>, {"before", "after"}),
   with_delete_var    |-> Effect(1, <<"bool">>, Before),
   with_make_ref      |-> Effect(0, <<"ref">>, Before),
   with_get_ref       |-> Get(0),
   with_get_ref_undef |-> Effect(1, <<"undefined", "any">>, Before)]

With ==
  /\ Running /\ Op \in DOMAIN WithOps
  /\ \/ \E f \in Performed(frame, WithOps[Op]) :
          frame' = IF f.status = "run" THEN Jump(f, Arg) ELSE f
     \/ \E f \in Ran(frame) : frame' = Next_pc(Released(f, 1))

-----------------------------------------------------------------------------
(* Generators and async functions leave the interpreter with their frame;  *)
(* the caller takes the operand of a yield or an await.                    *)
Yields == {"yield", "async_yield_star"}

Suspend ==
  /\ Running
  /\ \/ /\ Op \in Yields \cup {"await"}
        /\ frame' = [SetTop(JS_FreeValue(frame, Top(frame, 1)), 1, Undefined) EXCEPT !.status = "suspended"]
     \/ /\ Op \in {"initial_yield", "yield_star"}
        /\ frame' = [frame EXCEPT !.status = "suspended"]

(* Closures may run while the frame is suspended. *)
Waited == {[f EXCEPT !.status = "run"] : f \in Ran(frame)}

(* The value sent, and for a yield how: next, return, or, to an async      *)
(* yield*, throw.                                                          *)
Resume ==
  /\ frame.status = "suspended"
  /\ \E x \in Waited :
       \/ Op = "initial_yield" /\ frame' = Next_pc(x)
       \/ Op = "await" /\ \E v \in Values("any", x) : frame' = Next_pc(SetTop(x, 1, v))
       \/ /\ Op \in Yields
          /\ \E v \in Values("any", x), how \in IF Op = "yield" THEN 0..1 ELSE 0..2 :
               frame' = Next_pc(Push(SetTop(x, 1, v), Number(how)))
       \/ /\ Op = "yield_star"
          /\ \E f \in PushKinds(Next_pc(Released(x, 2)), <<"any", "bool">>) : frame' = f

ResumeWithThrow ==
  /\ frame.status = "suspended" /\ Op \in {"yield", "await", "yield_star"}
  /\ \E x \in Waited : \E f \in Throws(x) : frame' = f

(* async_func_free of a frame that is never resumed; its loops are not     *)
(* told.                                                                   *)
Abandon ==
  /\ frame.status = "suspended"
  /\ frame' = Left([frame EXCEPT !.loops = {}])

-----------------------------------------------------------------------------
PushValue      == Step(PushOps)
Call           == Step(CallOps(Arg))
Evaluate       == Step(EvalOps(Arg))
CheckCtor      == Step(CtorOps)
Brand          == Step(BrandOps)
AccessGlobal   == Step(GlobalOps)
DeclareGlobal  == Step(GlobalDeclarations)
AccessVarRef   == Step(VarRefOps)
AccessField    == Step(FieldOps)
AccessPrivate  == Step(PrivateFieldOps)
DefineMethod   == Step(MethodOps)
AccessElement  == Step(ElementOps)
Spread         == Step(SpreadOps)
OtherOperation == Step(OtherOps)
Iterate        == Step(IterOps)
Rearrange ==
  Running /\ Op \in DOMAIN Shuffles /\ frame' = Next_pc(Shuffled(frame, Shuffles[Op]))

EmptyFrame(p) ==
  [cur_func |-> p, pc |-> 1, stack |-> <<>>, locals |-> <<>>, captured |-> {}, status |-> "run",
   result |-> Undefined, exception |-> Null, catchable |-> TRUE, live |-> {},
   loops |-> {}, closed |-> {}, slack |-> 0, faults |-> {}]

(* The arguments are duplicated, the variables undefined. *)
Called(p) ==
  {[f EXCEPT !.locals = f.stack \o [i \in 1..Programs[p].vars |-> Undefined], !.stack = <<>>] :
     f \in PushKinds(EmptyFrame(p), [i \in 1..Programs[p].args |-> "any"])}

Init == \E p \in DOMAIN Programs : frame \in Called(p)

Next ==
  \/ PushValue \/ Rearrange \/ Call \/ Evaluate \/ CheckCtor \/ Brand
  \/ AccessGlobal \/ DeclareGlobal \/ AccessVarRef \/ AccessField \/ AccessPrivate
  \/ DefineMethod \/ AccessElement \/ Spread \/ OtherOperation
  \/ Operate \/ UpdateVariable \/ GetVariable \/ PutVariable \/ SetVariable
  \/ VariableCheckFails \/ js_closure \/ js_build_mapped_arguments \/ SpecialObject
  \/ MakeReference \/ js_op_define_class \/ close_lexical_var
  \/ Goto \/ If \/ Is \/ Catch \/ Gosub \/ Ret \/ Throw \/ Return
  \/ Unwind \/ LeaveWithException
  \/ Iterate \/ js_for_in_start \/ js_for_in_next \/ js_for_of_start \/ js_for_of_next
  \/ IteratorClose \/ IteratorCloseReturn \/ async_iterator \/ With
  \/ Suspend \/ Resume \/ ResumeWithThrow \/ Abandon

Spec == Init /\ [][Next]_frame

-----------------------------------------------------------------------------
(* compute_stack_size: the depth of the stack before each instruction, as  *)
(* the compiler finds it by following the code from its start.             *)
OpcodeInfo ==
  LET Info(n_pop, n_push, ops) == [op \in ops |-> <<n_pop, n_push>>]
  IN  FoldLeft(LAMBDA a, b : a @@ b, <<>>, <<
    Info(0, 0, {"return_undef", "check_ctor", "throw_var", "define_var", "check_define_var",
                "set_loc_uninitialized", "close_loc", "goto", "gosub", "initial_yield",
                "dec_loc", "inc_loc", "nop"}),
    Info(0, 1, {"push_i32", "push_const", "fclosure", "push_atom_value", "private_symbol",
                "undefined", "null", "push_this", "push_false", "push_true", "object",
                "special_object", "rest", "array_from", "check_var", "get_var_undef", "get_var",
                "get_loc", "get_var_ref", "get_loc_check", "get_var_ref_check", "catch",
                "delete_var"}),
    Info(0, 2, {"make_loc_ref", "make_var_ref_ref", "make_var_ref"}),
    Info(1, 0, {"drop", "tail_call", "return", "return_async", "throw", "put_var",
                "put_var_init", "define_func", "put_loc", "put_var_ref", "put_loc_check",
                "put_loc_check_init", "put_var_ref_check", "put_var_ref_check_init",
                "if_false", "if_true", "ret", "with_get_var", "with_delete_var",
                "with_make_ref", "with_get_ref", "with_get_ref_undef", "add_loc"}),
    Info(1, 1, {"call", "eval", "get_super_ctor", "get_super", "import", "get_field",
                "get_length", "set_name", "set_loc", "set_var_ref", "to_object", "to_propkey",
                "for_in_start", "await", "neg", "plus", "dec", "inc", "not", "lnot", "typeof",
                "is_undefined", "is_null", "is_function"}),
    Info(1, 2, {"dup", "check_ctor_return", "get_field2", "iterator_get_value_done", "yield",
                "async_yield_star", "post_dec", "post_inc"}),
    Info(1, 3, {"for_of_start", "for_await_of_start", "for_in_next"}),
    Info(2, 0, {"tail_call_method", "add_brand", "put_var_strict", "put_field"}),
    Info(2, 1, Binary \cup Compare \cup
               {"nip", "call_constructor", "call_method", "apply_eval", "regexp",
                "get_private_field", "get_array_el", "define_field", "set_proto",
                "define_method", "with_put_var", "delete", "instanceof", "in", "strict_eq",
                "strict_neq"}),
    Info(2, 2, {"swap", "check_brand", "get_array_el2", "set_name_computed", "set_home_object",
                "define_class", "to_propkey2", "yield_star"}),
    Info(2, 3, {"dup1", "insert2", "get_ref_value"}),
    Info(2, 4, {"dup2"}),
    Info(3, 0, {"put_ref_value", "put_private_field", "put_array_el", "iterator_close"}),
    Info(3, 1, {"apply", "define_private_field", "get_super_value", "define_method_computed"}),
    Info(3, 2, {"nip1", "define_array_el", "append", "async_iterator_close"}),
    Info(3, 3, {"perm3", "rot3l", "rot3r", "copy_data_properties", "define_class_computed"}),
    Info(3, 4, {"insert3", "for_await_of_next"}),
    Info(3, 5, {"for_of_next"}),
    Info(3, 6, {"dup3"}),
    Info(4, 0, {"put_super_value"}),
    Info(4, 4, {"perm4", "swap2", "rot4l", "iterator_close_return", "async_iterator_next"}),
    Info(4, 5, {"insert4", "async_iterator_get"}),
    Info(5, 5, {"perm5", "rot5l"})>>)

CountsArguments ==
  {"call", "call_method", "call_constructor", "tail_call", "tail_call_method", "array_from", "eval"}
Final == {"tail_call", "tail_call_method", "return", "return_undef", "return_async", "throw",
          "throw_var", "ret"}

(* What a jump taken finds on the stack beyond what stays without it. *)
Jumps ==
  [if_true |-> 0, if_false |-> 0, catch |-> 0, goto |-> 0, gosub |-> 1, with_put_var |-> -1,
   with_get_var |-> 1, with_delete_var |-> 1, with_make_ref |-> 2, with_get_ref |-> 2,
   with_get_ref_undef |-> 2]

Following(text, pos, stack_len) ==
  LET op   == text[pos][1]
      arg  == text[pos][2]
      info == OpcodeInfo[op]
      left == stack_len - info[1] - (IF op \in CountsArguments THEN arg ELSE 0) + info[2]
  IN  (IF op \in Final \cup {"goto"} THEN {} ELSE {<<pos + 1, left>>})
        \cup (IF op \in DOMAIN Jumps THEN {<<arg, left + Jumps[op]>>} ELSE {})

stack_level_tab ==
  [p \in DOMAIN Programs |->
     LET text == Programs[p].code
         Explored[n \in Nat] ==     \* <<all that is known, what is new>>
           IF n = 0 THEN <<{<<1, 0>>}, {<<1, 0>>}>>
           ELSE LET prev == Explored[n - 1]
                    next == UNION {Following(text, e[1], e[2]) : e \in prev[2]} \ prev[1]
                IN  <<prev[1] \cup next, next>>
     IN  Explored[Len(text)][1]]

-----------------------------------------------------------------------------
(* Every reference the frame owns is in exactly one of its slots, whatever *)
(* instruction threw, on which path a block was left and when the frame is *)
(* freed; nothing is freed twice.  A frame in which a variable was         *)
(* overtaken by program code is left out: see UpdateVariable.              *)
Balanced ==
  frame.status # "undefined" =>
    LET slots == frame.locals \o frame.stack \o <<frame.exception, frame.result>>
        held  == {i \in DOMAIN slots : IsRef(slots[i])}
    IN  /\ "freed twice" \notin frame.faults
        /\ {slots[i][2] : i \in held} = frame.live
        /\ Cardinality(held) = Cardinality(frame.live)

(* The compiler's count of the operands is right: the code has one depth   *)
(* at each instruction, the size of the frame is the largest of them, and  *)
(* the stack is at that depth when the instruction runs, after exceptions, *)
(* finally blocks and resumptions too.                                     *)
StackFits ==
  LET levels == stack_level_tab[frame.cur_func]
  IN  /\ \A d, e \in levels : d[1] = e[1] => d = e
      /\ \E e \in levels : e[2] = function.stack_size
      /\ \A e \in levels : e[2] \in 0..function.stack_size
      /\ Depth(frame) <= function.stack_size
      /\ Running => <<frame.pc, Depth(frame) + frame.slack>> \in levels

(* What the frame owns, and how much room it has for it.                   *)
FrameSound == Balanced /\ StackFits

(* The iterator of a for-of loop or of a destructuring that is left before *)
(* its end is closed once; one that has ended or has failed is not.        *)
IteratorsClosedOnce == frame.faults \cap {"not closed", "closed twice"} = {}
=============================================================================
