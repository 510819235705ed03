----------------------------- MODULE RegexpExec -----------------------------
(* lre_exec_backtrack (libregexp.c 1866-2490): the machine that runs the   *)
(* instructions of a compiled regular expression over a string, with the   *)
(* states it comes back to kept on a stack of its own. With the            *)
(* instructions of RegexpCompile it finds what RegexpMatch defines.        *)
EXTENDS RegexpCompile, Computation
LOCAL INSTANCE SequencesExt

CONSTANTS
  MaxStates,   \* the states there is memory for
  Questions    \* an expression d, its flags f, a string, a position

ASSUME RegexpAssumption == MaxStates \in Nat

NULL == -1
NoQuant == [on |-> FALSE]

(* lre_exec: nothing is captured, the stacks are empty. An input is a      *)
(* compiled expression (bc), its flags (f), a string and a position.       *)
Started(input) ==
  [input |-> input, pc |-> 1, cptr |-> input.cindex,
   capture |-> [i \in 0 .. 2 * input.bc.capture_count - 1 |-> NULL],
   stack |-> <<>>, state_stack |-> <<>>, quant |-> NoQuant, mode |-> "run", ret |-> NULL]

-----------------------------------------------------------------------------
flags == state.input.f
cbuf == state.input.str
cbuf_end == Len(cbuf)
bc == state.input.bc
opcode == bc.code[state.pc].op
arg == bc.code[state.pc].arg

(* The instruction is an op and the machine is about to run it; after is   *)
(* the machine past it.                                                    *)
Runs(op) == state.mode = "run" /\ opcode = op
after == [state EXCEPT !.pc = @ + 1]

(* no_match and the end of the call for one character of a simple          *)
(* quantifier, which is an inner call of the same function (no_recurse).   *)
push_state(r, pc, type, count) ==
  IF Len(r.state_stack) = MaxStates THEN [r EXCEPT !.mode = "done", !.ret = -1]
  ELSE [r EXCEPT !.state_stack =
          Append(@, [type |-> type, count |-> count, cptr |-> r.cptr, pc |-> pc,
                     capture |-> r.capture, stack |-> r.stack])]

Recurses(r, ret) == [r EXCEPT !.mode = "recurse", !.ret = ret]

(* The atom of a simple quantifier has been read as often as it can be.    *)
QuantEnds(r) ==
  LET q == r.quant
      outer == [r EXCEPT !.quant = NoQuant, !.pc = q.next, !.cptr = q.cptr]
  IN IF q.q < q.min THEN Recurses(outer, 0)
     ELSE IF q.q > q.min THEN push_state(outer, q.pc, "greedy", q.q - q.min)
     ELSE outer

no_match(r) == IF r.quant.on THEN QuantEnds(r) ELSE Recurses(r, 0)

(* The machine goes on if a test holds.                                    *)
Tested(holds, r) == state' = IF holds THEN r ELSE no_match(state)

-----------------------------------------------------------------------------
(* The instructions.                                                       *)

Match ==
  /\ Runs("match") /\ ~state.quant.on
  /\ state' = Recurses(state, 1)

(* The inner call has read one more; it is made again until the maximum.   *)
MatchOne ==
  /\ Runs("match") /\ state.quant.on
  /\ LET q == [state.quant EXCEPT !.q = @ + 1, !.cptr = state.cptr]
         r == [state EXCEPT !.quant = q, !.pc = q.pc + 1]
     IN state' = IF q.q >= q.max /\ q.max # Infinity THEN QuantEnds(r) ELSE r

Got == GET_CHAR(cbuf, state.cptr, cbuf_end, flags.utf16)
AfterGot == [after EXCEPT !.cptr = Got.at]
Canonical(c, f) == IF f.ignore_case THEN lre_canonicalize(c, f.utf16) ELSE c

Char == Runs("char") /\ Tested(state.cptr < cbuf_end /\ arg = Canonical(Got.c, flags), AfterGot)
RangeOf == Runs("range") /\ Tested(state.cptr < cbuf_end /\ Canonical(Got.c, flags) \in arg, AfterGot)
DotChar == Runs("dot") /\ Tested(state.cptr # cbuf_end /\ ~is_line_terminator(Got.c), AfterGot)
AnyChar == Runs("any") /\ Tested(state.cptr # cbuf_end, AfterGot)

(* REOP_prev: a step back, over a whole pair.                              *)
Stepped(i) == GET_PREV_CHAR(cbuf, i, 0, flags.utf16).at
Prev == Runs("prev") /\ Tested(state.cptr # 0, [after EXCEPT !.cptr = Stepped(state.cptr)])

AtBreak(i) == flags.multi_line /\ is_line_terminator(cbuf[i])
LineStart == Runs("line_start") /\ Tested(state.cptr = 0 \/ AtBreak(state.cptr), after)
LineEnd == Runs("line_end") /\ Tested(state.cptr = cbuf_end \/ AtBreak(state.cptr + 1), after)

WordBoundary ==
  LET before == state.cptr # 0 /\ is_word_char(cbuf[state.cptr])
      current == state.cptr < cbuf_end /\ is_word_char(cbuf[state.cptr + 1])
  IN \/ Runs("word_boundary") /\ Tested(before # current, after)
     \/ Runs("not_word_boundary") /\ Tested(before = current, after)

Jump == [after EXCEPT !.pc = @ + arg]

Goto == Runs("goto") /\ state' = Jump

(* One branch is taken, the other kept for later.                          *)
Split ==
  \/ Runs("split_goto_first") /\ state' = push_state(Jump, after.pc, "split", 0)
  \/ Runs("split_next_first") /\ state' = push_state(after, Jump.pc, "split", 0)

Lookahead ==
  \/ Runs("lookahead") /\ state' = push_state(after, Jump.pc, "lookahead", 0)
  \/ Runs("negative_lookahead") /\ state' = push_state(after, Jump.pc, "negative", 0)

Save ==
  \/ Runs("save_start") /\ state' = [after EXCEPT !.capture[2 * arg] = state.cptr]
  \/ Runs("save_end") /\ state' = [after EXCEPT !.capture[2 * arg + 1] = state.cptr]

SaveReset ==
  /\ Runs("save_reset")
  /\ state' = [after EXCEPT !.capture = [i \in DOMAIN @ |->
                IF i \in 2 * arg[1] .. 2 * arg[2] + 1 THEN NULL ELSE @[i]]]

PushI32 == Runs("push_i32") /\ state' = [after EXCEPT !.stack = Append(@, arg)]
PushCharPos == Runs("push_char_pos") /\ state' = [after EXCEPT !.stack = Append(@, state.cptr)]
Drop == Runs("drop") /\ state' = [after EXCEPT !.stack = Front(@)]

(* Whether the loop turns again is read after the count is one less.       *)
Loop ==
  /\ Runs("loop")
  /\ LET left == Last(state.stack) - 1
         r == IF left # 0 THEN Jump ELSE after
     IN state' = [r EXCEPT !.stack[Len(state.stack)] = left]

BneCharPos ==
  /\ Runs("bne_char_pos")
  /\ LET r == IF Last(state.stack) # state.cptr THEN Jump ELSE after
     IN state' = [r EXCEPT !.stack = Front(@)]

-----------------------------------------------------------------------------
(* A captured text is compared character by character with what is here.   *)
Compared(str, f, start, end, from) ==
  LET F[cptr1 \in Nat, at \in Nat] ==
        LET c1 == GET_CHAR(str, cptr1, end, f.utf16)
            c2 == GET_CHAR(str, at, Len(str), f.utf16)
        IN IF cptr1 >= end THEN [ok |-> TRUE, at |-> at]
           ELSE IF at >= Len(str) \/ Canonical(c1.c, f) # Canonical(c2.c, f) THEN [ok |-> FALSE]
           ELSE F[c1.at, c2.at]
  IN F[start, from]

ComparedBack(str, f, start, end, from) ==
  LET F[cptr1 \in Nat, at \in Nat] ==
        LET c1 == GET_PREV_CHAR(str, cptr1, start, f.utf16)
            c2 == GET_PREV_CHAR(str, at, 0, f.utf16)
        IN IF cptr1 <= start THEN [ok |-> TRUE, at |-> at]
           ELSE IF at = 0 \/ Canonical(c1.c, f) # Canonical(c2.c, f) THEN [ok |-> FALSE]
           ELSE F[c1.at, c2.at]
  IN F[end, from]

BackRef ==
  LET start == state.capture[2 * arg]
      end == state.capture[2 * arg + 1]
      unset == start = NULL \/ end = NULL
      forward == Compared(cbuf, flags, start, end, state.cptr)
      backward == ComparedBack(cbuf, flags, start, end, state.cptr)
  IN \/ Runs("back_reference")
        /\ IF unset THEN state' = after ELSE Tested(forward.ok, [after EXCEPT !.cptr = forward.at])
     \/ Runs("backward_back_reference")
        /\ IF unset THEN state' = after ELSE Tested(backward.ok, [after EXCEPT !.cptr = backward.at])

SimpleGreedyQuant ==
  /\ Runs("simple_greedy_quant")
  /\ state' = [after EXCEPT !.quant = [on |-> TRUE, q |-> 0, min |-> arg[2], max |-> arg[3],
                                pc |-> state.pc, next |-> after.pc + arg[1], cptr |-> state.cptr]]

-----------------------------------------------------------------------------
(* The loop "recurse": the last state is taken back, or passed over.       *)

rs == Last(state.state_stack)
Popped(r) == [r EXCEPT !.state_stack = Front(@)]

(* pop_state1: a lookahead that held keeps what it captured.               *)
Resumed == [Popped(state) EXCEPT !.mode = "run", !.pc = rs.pc, !.cptr = rs.cptr, !.stack = rs.stack]

Exhausted == /\ state.mode = "recurse" /\ state.state_stack = <<>>
        /\ state' = [state EXCEPT !.mode = "done"]

Takes(type) == state.mode = "recurse" /\ state.state_stack # <<>> /\ rs.type = type

TakeSplit ==
  /\ Takes("split")
  /\ state' = IF state.ret = 0 THEN [Resumed EXCEPT !.capture = rs.capture] ELSE Popped(state)

(* One repetition less, by so many characters back as the atom reads.      *)
TakeGreedy ==
  /\ Takes("greedy")
  /\ IF state.ret = 1 THEN state' = Popped(state)
     ELSE LET ins == bc.code[rs.pc].arg
              cptr == FoldLeft(LAMBDA at, n : Stepped(at), rs.cptr, [n \in 1 .. ins[4] |-> n])
              kept == [rs EXCEPT !.cptr = cptr, !.count = @ - 1]
          IN state' = [Resumed EXCEPT
                      !.capture = rs.capture, !.cptr = cptr, !.pc = rs.pc + 1 + ins[1],
                      !.state_stack = IF kept.count = 0 THEN @ ELSE Append(@, kept)]

TakeLookahead ==
  /\ Takes("lookahead")
  /\ state' = IF state.ret = 1 THEN Resumed ELSE Popped(state)

(* Slip: a negative lookahead that matched leaves the result of the inside. *)
Slip_ResultKept ==
  /\ Takes("negative")
  /\ state' = IF state.ret = 0 THEN [Resumed EXCEPT !.capture = rs.capture] ELSE Popped(state)

TakeNegative ==
  /\ Takes("negative")
  /\ state' = IF state.ret = 0 THEN [Resumed EXCEPT !.capture = rs.capture]
           ELSE [Popped(state) EXCEPT !.ret = 0]

-----------------------------------------------------------------------------
EngineNext ==
  \/ Match \/ MatchOne \/ Char \/ RangeOf \/ DotChar \/ AnyChar \/ Prev
  \/ LineStart \/ LineEnd \/ WordBoundary \/ Goto \/ Split \/ Lookahead
  \/ Save \/ SaveReset \/ PushI32 \/ PushCharPos \/ Drop \/ Loop \/ BneCharPos
  \/ BackRef \/ SimpleGreedyQuant
  \/ Exhausted \/ TakeSplit \/ TakeGreedy \/ TakeLookahead \/ TakeNegative

-----------------------------------------------------------------------------
(* Compiler and machine together.                                          *)
Reference == INSTANCE RegexpMatch

Compiled(q) == [d |-> q.d, f |-> q.f, str |-> q.str, cindex |-> q.cindex, bc |-> lre_compile(q.d, q.f)]
EngineInit == state \in {Started(Compiled(q)) : q \in Questions}

Defined == Reference!FirstMatch([str |-> cbuf, f |-> flags], state.input.d, state.input.cindex)

Captured(i) ==
  LET start == state.capture[2 * i]
      end == state.capture[2 * i + 1]
  IN IF start = NULL \/ end = NULL THEN Reference!Undefined ELSE <<start, end>>

FoundByRun ==
  IF state.ret = 1
  THEN [found |-> TRUE, start |-> state.capture[0], end |-> state.capture[1],
        caps |-> [i \in 1 .. bc.capture_count - 1 |-> Captured(i)]]
  ELSE Reference!NoMatch

(* INVARIANT: a run that ends has found exactly what the expression means: *)
(* the leftmost match, the preferred one of those that begin there, and    *)
(* the text of every group (offsets and splits of the compiler, captures   *)
(* restored on the way back, the cut of a lookahead, the repetitions given *)
(* back by a greedy quantifier). It runs out of memory only in a loop      *)
(* whose turns may be empty and refer to their own groups.                 *)
FindsDefined ==
  state.mode = "done" =>
    IF state.ret = -1 THEN \E i \in DOMAIN bc.code : bc.code[i].op = "back_reference"
    ELSE FoundByRun = Defined

(* INVARIANT: the values on the stack of counters and positions fit in the *)
(* space computed at compile time, and none is taken from an empty stack   *)
(* (stack_buf is alloca of that size: nothing is checked at run time).     *)
CountersFit ==
  state.mode = "run" =>
    /\ Len(state.stack) <= bc.stack_size
    /\ opcode \in {"drop", "loop", "bne_char_pos"} => state.stack # <<>>

(* INVARIANT: a run finds what is meant in the space it has. *)
RunsAsDefined == FindsDefined /\ CountersFit
=============================================================================
