----------------------------- MODULE RegexpText -----------------------------
(* What the compiler, the matcher and the reference definition of regular  *)
(* expressions share: characters, their classes, how a string is read      *)
(* forwards and backwards (libregexp.c), and how expressions are written.  *)
(* A string is a sequence of 16 bit units; "hi" and "lo" are the halves of *)
(* a surrogate pair, "pair" the character they encode. A position is the   *)
(* number of units before it.                                              *)
EXTENDS Naturals, Sequences

Unit == {"a", "b", "A", "B", "newline", "hi", "lo"}
Character == Unit \cup {"pair"}

is_line_terminator(c) == c = "newline"
is_word_char(c) == c \in {"a", "b", "A", "B"}

Upper(c) == CASE c = "a" -> "A" [] c = "b" -> "B" [] OTHER -> c
Lower(c) == CASE c = "A" -> "a" [] c = "B" -> "b" [] OTHER -> c

lre_canonicalize(c, utf16) == IF utf16 THEN Lower(c) ELSE Upper(c)

(* A pair begins at i and ends before the bound.                           *)
PairAt(str, i, bound, utf16) ==
  utf16 /\ i + 2 <= bound /\ str[i + 1] = "hi" /\ str[i + 2] = "lo"

(* GET_CHAR, GET_PREV_CHAR: the character and the position beyond it.      *)
GET_CHAR(str, i, bound, utf16) ==
  IF PairAt(str, i, bound, utf16) THEN [c |-> "pair", at |-> i + 2]
  ELSE [c |-> str[i + 1], at |-> i + 1]

GET_PREV_CHAR(str, i, bound, utf16) ==
  IF i >= bound + 2 /\ PairAt(str, i - 2, i, utf16)
  THEN [c |-> "pair", at |-> i - 2]
  ELSE [c |-> str[i], at |-> i - 1]

-----------------------------------------------------------------------------
(* Expressions. A disjunction is a sequence of alternatives, an            *)
(* alternative a sequence of terms.                                        *)

Infinity == 99   \* INT32_MAX as a bound of a quantifier

Chr(c) == [is |-> "char", c |-> c]
Dot == [is |-> "dot"]
Class(cs, invert) == [is |-> "class", cs |-> cs, invert |-> invert]
Assertion(a) == [is |-> "assert", a |-> a]
Group(d) == [is |-> "group", d |-> d]
Capture(d) == [is |-> "capture", d |-> d]
Look(d, neg, back) == [is |-> "look", d |-> d, neg |-> neg, back |-> back]
BackReference(n) == [is |-> "backreference", n |-> n]
Quant(t, min, max, greedy) ==
  [is |-> "quant", of |-> t, min |-> min, max |-> max, greedy |-> greedy]

(* One alternative. *)
One(terms) == <<terms>>
=============================================================================
