--------------------------- MODULE RegexpCompile ----------------------------
(* lre_compile (libregexp.c 1199-1860): from an expression to the          *)
(* instructions that RegexpExec runs. An offset counts instructions where  *)
(* the code counts bytes. Recursive as the parser is.                      *)
EXTENDS RegexpText, Integers, FiniteSets
LOCAL INSTANCE SequencesExt

I(op, arg) == [op |-> op, arg |-> arg]

(* The compiler's state: byte_code and capture_count.                      *)
Emit(s, ins) == [s EXCEPT !.code = @ \o ins]
CodeFrom(s, start) == SubSeq(s.code, start + 1, Len(s.code))

(* dbuf_insert, then the instructions written there.                       *)
dbuf_insert(s, pos, ins) ==
  [s EXCEPT !.code = SubSeq(@, 1, pos) \o ins \o SubSeq(@, pos + 1, Len(@))]

SimpleChar == {"char", "dot", "any", "range"}

(* Whether the instructions advance: 1 always, 0 perhaps not, -1 when it   *)
(* depends on what they captured before.                                   *)
re_check_advance(code) ==
  LET plain == SimpleChar
      silent == {"line_start", "line_end", "push_i32", "push_char_pos", "drop",
                 "word_boundary", "not_word_boundary", "prev", "save_start",
                 "save_end", "save_reset", "back_reference",
                 "backward_back_reference"}
      deciding == {i \in DOMAIN code : code[i].op \notin silent}
      saved ==
        {code[i].arg : i \in {j \in DOMAIN code : code[j].op \in {"save_start", "save_end"}}}
        \cup UNION {code[i].arg[1] .. code[i].arg[2] - 1 :
                    i \in {j \in DOMAIN code : code[j].op = "save_reset"}}
      referred ==
        {code[i].arg : i \in {j \in DOMAIN code :
           code[j].op \in {"back_reference", "backward_back_reference"}}}
  IN IF saved \cap referred # {} THEN -1
     ELSE IF deciding = {} THEN 0
     ELSE LET first == CHOOSE i \in deciding : \A j \in deciding : i <= j
          IN IF code[first].op \in plain THEN 1 ELSE 0

(* How many characters the instructions read, -1 if they may do more.      *)
re_is_simple_quantifier(code) ==
  LET read == {i \in DOMAIN code : code[i].op \in SimpleChar}
      tested == {i \in DOMAIN code : code[i].op \in
                   {"line_start", "line_end", "word_boundary", "not_word_boundary"}}
  IN IF read \cup tested = DOMAIN code THEN Cardinality(read) ELSE -1

(* The quantifier of an atom that begins at start; before is the number of *)
(* captures the parser had seen there.                                     *)
Quantified(s, start, before, q) ==
  LET atom == CodeFrom(s, start)
      len == Len(atom)
      count == re_is_simple_quantifier(atom)
      check == q.greedy /\ re_check_advance(atom) = 0   \* add_zero_advance_check
      z == IF check THEN 1 ELSE 0
      mark == IF check THEN <<I("push_char_pos", 0)>> ELSE <<>>
      Split(n) == I(IF q.greedy THEN "split_next_first" ELSE "split_goto_first", n)
      Again(n) == <<I(IF check THEN "bne_char_pos" ELSE "goto", n)>>
      Counted(n) == <<I("loop", n), I("drop", 0)>>
      reset == IF before # s.captures
               THEN <<I("save_reset", <<before, s.captures - 1>>)>> ELSE <<>>
      optional == dbuf_insert(s, start, reset)
      at == start + Len(reset)
  IN CASE q.greedy /\ q.max > 0 /\ count > 0 ->
            dbuf_insert(Emit(s, <<I("match", 0)>>), start,
                        <<I("simple_greedy_quant", <<len + 1, q.min, q.max, count>>)>>)
       [] q.min = 0 /\ q.max = 0 -> [optional EXCEPT !.code = SubSeq(@, 1, at)]
       [] q.min = 0 /\ q.max = 1 -> dbuf_insert(optional, at, <<Split(len)>>)
       [] q.min = 0 /\ q.max = Infinity ->
            Emit(dbuf_insert(optional, at, <<Split(len + 1 + z)>> \o mark),
                 Again(-(len + 2 + z)))
       [] q.min = 0 /\ q.max \notin {0, 1, Infinity} ->
            Emit(dbuf_insert(optional, at, <<I("push_i32", q.max), Split(len + 1)>>),
                 Counted(-(len + 2)))
       [] q.min = 1 /\ q.max = Infinity /\ ~check ->
            Emit(s, <<I(IF q.greedy THEN "split_goto_first" ELSE "split_next_first",
                        -(len + 1))>>)
       [] OTHER ->
            LET least == IF q.min = 1 THEN s
                         ELSE Emit(dbuf_insert(s, start, <<I("push_i32", q.min)>>),
                                   Counted(-(len + 1)))
            IN CASE q.min > 0 /\ q.max = Infinity ->
                      Emit(least, <<Split(len + 1 + z)>> \o mark \o atom
                                  \o Again(-(len + 2 + z)))
                 [] q.min > 0 /\ q.max # Infinity /\ q.max > q.min ->
                      Emit(least, <<I("push_i32", q.max - q.min), Split(len + 1)>>
                                  \o atom \o Counted(-(len + 2)))
                 [] OTHER -> least

(* cr_canonicalize: upper case is added, lower case stays.                 *)
cr_canonicalize(cs) == cs \cup {Upper(c) : c \in cs}

(* The characters of a class as the instruction range holds them.          *)
re_parse_char_class(t, f) ==
  LET cs == IF f.ignore_case THEN cr_canonicalize(t.cs) ELSE t.cs
  IN IF t.invert THEN Character \ cs ELSE cs

(* A character is read backwards between two steps back.                   *)
ReadsChar(s, ins, back) ==
  LET prev == IF back THEN <<I("prev", 0)>> ELSE <<>> IN Emit(s, prev \o <<ins>> \o prev)

(* Annex B: a lookahead is an atom, except in Unicode mode.                *)
IsAtom(t, f) ==
  CASE t.is = "assert" -> FALSE
    [] t.is = "look" -> ~f.utf16 /\ ~t.back
    [] OTHER -> TRUE

RECURSIVE re_parse_disjunction(_, _, _, _), re_parse_term(_, _, _, _)

(* In a lookbehind each term goes before the ones parsed already.          *)
re_parse_alternative(s, terms, f, back) ==
  LET start == Len(s.code)
      Parsed(u, t) ==
        LET v == re_parse_term(u, t, f, back) IN
        IF ~back THEN v
        ELSE [v EXCEPT !.code = SubSeq(@, 1, start) \o CodeFrom(v, Len(u.code))
                                \o SubSeq(@, start + 1, Len(u.code))]
  IN FoldLeft(Parsed, s, terms)

re_parse_disjunction(s, d, f, back) ==
  LET start == Len(s.code)
      Alternative(u, terms) ==
        LET len == Len(u.code) - start
            split == Emit(dbuf_insert(u, start, <<I("split_next_first", len + 1)>>),
                          <<I("goto", 0)>>)
            pos == Len(split.code)
            both == re_parse_alternative(split, terms, f, back)
        IN [both EXCEPT !.code[pos] = I("goto", Len(both.code) - pos)]
  IN FoldLeft(Alternative, re_parse_alternative(s, Head(d), f, back), Tail(d))

re_parse_term(s, t, f, back) ==
  CASE t.is = "assert" -> Emit(s, <<I(t.a, 0)>>)
    [] t.is = "dot" -> ReadsChar(s, I(IF f.dotall THEN "any" ELSE "dot", 0), back)
    [] t.is = "char" ->
         ReadsChar(s, I("char", IF f.ignore_case THEN lre_canonicalize(t.c, f.utf16) ELSE t.c),
                   back)
    [] t.is = "class" -> ReadsChar(s, I("range", re_parse_char_class(t, f)), back)
    [] t.is = "backreference" ->
         Emit(s, <<I(IF back THEN "backward_back_reference" ELSE "back_reference", t.n)>>)
    [] t.is = "group" -> re_parse_disjunction(s, t.d, f, back)
    [] t.is = "capture" ->
         LET n == s.captures
             open == Emit([s EXCEPT !.captures = n + 1],
                          <<I(IF back THEN "save_end" ELSE "save_start", n)>>)
         IN Emit(re_parse_disjunction(open, t.d, f, back),
                 <<I(IF back THEN "save_start" ELSE "save_end", n)>>)
    [] t.is = "look" ->
         LET look == IF t.neg THEN "negative_lookahead" ELSE "lookahead"
             pos == Len(s.code) + 1
             body == Emit(re_parse_disjunction(Emit(s, <<I(look, 0)>>), t.d, f, t.back),
                          <<I("match", 0)>>)
         IN [body EXCEPT !.code[pos] = I(look, Len(body.code) - pos)]
    [] t.is = "quant" ->
         Quantified(re_parse_term(s, t.of, f, back), Len(s.code), s.captures, t)

(* One walk is enough: pushes and drops nest as the quantifiers do.        *)
re_compute_stack_size(code) ==
  LET Walk(w, ins) ==
        LET n == CASE ins.op \in {"push_i32", "push_char_pos"} -> w.now + 1
                   [] ins.op \in {"drop", "bne_char_pos"} -> w.now - 1
                   [] OTHER -> w.now
        IN [now |-> n, max |-> IF n > w.max THEN n ELSE w.max]
  IN FoldLeft(Walk, [now |-> 0, max |-> 0], code).max

(* Unless it is sticky the expression is tried at each position in turn.   *)
lre_compile(d, f) ==
  LET search == IF f.sticky THEN <<>>
                ELSE <<I("split_goto_first", 2), I("any", 0), I("goto", -3)>>
      begin == [code |-> search \o <<I("save_start", 0)>>, captures |-> 1]
      s == Emit(re_parse_disjunction(begin, d, f, FALSE),
                <<I("save_end", 0), I("match", 0)>>)
  IN [code |-> s.code, capture_count |-> s.captures,
      stack_size |-> re_compute_stack_size(s.code)]
=============================================================================
