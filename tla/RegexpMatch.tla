---------------------------- MODULE RegexpMatch -----------------------------
(* What a regular expression matches, without instructions, stack or       *)
(* backtracking: the outcomes of an expression at a place, in the order in *)
(* which they are preferred. The reference for RegexpExec.                 *)
(* It follows this engine where it departs from ECMAScript: captures of an *)
(* earlier turn of a loop stay, and a turn of an unbounded loop that reads *)
(* nothing ends it (comment in libregexp.c 1556).                          *)
EXTENDS RegexpText, Integers
LOCAL INSTANCE SequencesExt

Undefined == <<>>
NoMatch == [found |-> FALSE]

(* The outcomes of Op at each of the given places, in order.               *)
Each(places, Op(_)) == FoldLeft(LAMBDA all, x : all \o Op(x), <<>>, places)

RECURSIVE GroupsOfTerm(_)
GroupsOf(d) ==
  FoldLeft(LAMBDA n, terms : FoldLeft(LAMBDA k, t : k + GroupsOfTerm(t), n, terms), 0, d)
GroupsOfTerm(t) ==
  CASE t.is \in {"group", "look"} -> GroupsOf(t.d)
    [] t.is = "capture" -> 1 + GroupsOf(t.d)
    [] t.is = "quant" -> GroupsOfTerm(t.of)
    [] OTHER -> 0

(* A text is a string with the flags of the expression. *)
Read(text, x, back) ==
  IF back THEN IF x.at = 0 THEN NoMatch ELSE GET_PREV_CHAR(text.str, x.at, 0, text.f.utf16)
  ELSE IF x.at = Len(text.str) THEN NoMatch
       ELSE GET_CHAR(text.str, x.at, Len(text.str), text.f.utf16)

Same(text, c, e) ==
  IF text.f.ignore_case
  THEN lre_canonicalize(c, text.f.utf16) = lre_canonicalize(e, text.f.utf16)
  ELSE c = e

Accepts(text, t, c) ==
  CASE t.is = "char" -> Same(text, t.c, c)
    [] t.is = "dot" -> text.f.dotall \/ ~is_line_terminator(c)
    [] t.is = "class" -> (\E e \in t.cs : Same(text, e, c)) # t.invert

WordAt(str, i) == i \in 0 .. Len(str) - 1 /\ is_word_char(str[i + 1])

Holds(text, a, i) ==
  LET str == text.str
      atBreak(k) == text.f.multi_line /\ is_line_terminator(str[k])
      boundary == WordAt(str, i - 1) # WordAt(str, i)
  IN CASE a = "line_start" -> i = 0 \/ atBreak(i)
       [] a = "line_end" -> i = Len(str) \/ atBreak(i + 1)
       [] a = "word_boundary" -> boundary
       [] a = "not_word_boundary" -> ~boundary

(* The text a group captured, read again from x.                           *)
Repeats(text, x, cap, back) ==
  LET n == cap[2] - cap[1]
      from == IF back THEN x.at - n ELSE x.at
  IN IF from < 0 \/ from + n > Len(text.str) THEN <<>>
     ELSE IF \A i \in 1 .. n : Same(text, text.str[cap[1] + i], text.str[from + i])
          THEN <<[x EXCEPT !.at = IF back THEN from ELSE from + n]>>
          ELSE <<>>

RECURSIVE OfDisjunction(_, _, _, _, _), OfAlternative(_, _, _, _, _),
          OfTerm(_, _, _, _, _), Turns(_, _, _, _, _, _, _)

(* n is the number of the first group of the expression.                   *)
OfDisjunction(text, d, n, back, x) ==
  IF d = <<>> THEN <<>>
  ELSE OfAlternative(text, d[1], n, back, x)
       \o OfDisjunction(text, Tail(d), n + GroupsOf(<<d[1]>>), back, x)

OfAlternative(text, terms, n, back, x) ==
  IF terms = <<>> THEN <<x>>
  ELSE LET k == Len(terms)
           others == IF back THEN SubSeq(terms, 1, k - 1) ELSE Tail(terms)
           one == IF back THEN terms[k] ELSE terms[1]
           n1 == IF back THEN n + GroupsOf(<<others>>) ELSE n
           n2 == IF back THEN n ELSE n + GroupsOfTerm(one)
       IN Each(OfTerm(text, one, n1, back, x),
               LAMBDA y : OfAlternative(text, others, n2, back, y))

(* A quantified term; least and most turns are left.                       *)
Turns(text, t, n, back, least, most, x) ==
  LET Further(k) == IF k = Infinity THEN Infinity ELSE k - 1
      Turn(y) == IF least = 0 /\ most = Infinity /\ y.at = x.at THEN <<y>>
                 ELSE Turns(text, t, n, back, IF least = 0 THEN 0 ELSE least - 1,
                            Further(most), y)
      more == IF most = 0 THEN <<>> ELSE Each(OfTerm(text, t.of, n, back, x), Turn)
  IN IF least > 0 THEN more
     ELSE IF t.greedy THEN more \o <<x>> ELSE <<x>> \o more

OfTerm(text, t, n, back, x) ==
  CASE t.is \in {"char", "dot", "class"} ->
         LET r == Read(text, x, back) IN
         IF r # NoMatch /\ Accepts(text, t, r.c) THEN <<[x EXCEPT !.at = r.at]>> ELSE <<>>
    [] t.is = "assert" -> IF Holds(text, t.a, x.at) THEN <<x>> ELSE <<>>
    [] t.is = "backreference" ->
         IF x.caps[t.n] = Undefined THEN <<x>> ELSE Repeats(text, x, x.caps[t.n], back)
    [] t.is = "group" -> OfDisjunction(text, t.d, n, back, x)
    [] t.is = "capture" ->
         LET Close(y) == <<[y EXCEPT !.caps[n] = IF back THEN <<y.at, x.at>>
                                                 ELSE <<x.at, y.at>>]>>
         IN Each(OfDisjunction(text, t.d, n + 1, back, [x EXCEPT !.caps[n] = Undefined]), Close)
    [] t.is = "look" ->
         LET there == OfDisjunction(text, t.d, n, t.back, x) IN
         IF t.neg THEN IF there = <<>> THEN <<x>> ELSE <<>>
         ELSE IF there = <<>> THEN <<>> ELSE <<[there[1] EXCEPT !.at = x.at]>>
    [] t.is = "quant" ->
         LET inside == n .. n + GroupsOfTerm(t.of) - 1
             y == IF t.min > 0 THEN x
                  ELSE [x EXCEPT !.caps = [i \in DOMAIN @ |->
                                             IF i \in inside THEN Undefined ELSE @[i]]]
         IN Turns(text, t, n, back, t.min, t.max, y)

(* The match of lowest start from a position, its preferred outcome.       *)
RECURSIVE FirstMatch(_, _, _)
FirstMatch(text, d, from) ==
  LET none == [i \in 1 .. GroupsOf(d) |-> Undefined]
      here == OfDisjunction(text, d, 1, FALSE, [at |-> from, caps |-> none])
  IN IF here # <<>>
     THEN [found |-> TRUE, start |-> from, end |-> here[1].at, caps |-> here[1].caps]
     ELSE IF text.f.sticky \/ from = Len(text.str) THEN NoMatch
     ELSE FirstMatch(text, d, GET_CHAR(text.str, from, Len(text.str), text.f.utf16).at)
=============================================================================
