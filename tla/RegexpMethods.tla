--------------------------- MODULE RegexpMethods ----------------------------
(* The methods of RegExp objects (quickjs.c 39997-41240): exec, match,     *)
(* matchAll, replace with its short cut, search and split, over lastIndex. *)
(* Which text an expression matches is a table: ends[i] is the end of the  *)
(* match that begins at i (RegexpExec finds it). Of a text only its length *)
(* and its surrogate pairs count. An object with an exec of its own        *)
(* answers what it likes and leaves lastIndex where it likes.              *)
EXTENDS Computation, Integers, Sequences

CONSTANTS
  Calls,       \* the calls asked: method, length, pairs, ends, flags, lastIndex
  MaxResults   \* bound on what an exec of the program's own finds in one call

ASSUME MethodsAssumption == MaxResults \in Nat

None == [start |-> -1, end |-> -1]
New == -1   \* in a text: where a replacement stands

Called(c) ==
  [in |-> c, mode |-> "begin", lastIndex |-> c.lastIndex, results |-> <<>>,
   out |-> <<>>, p |-> 0, q |-> 0, answer |-> None]

MethodsInit == state \in {Called(c) : c \in Calls}

regexp == state.in
len == regexp.len
At(mode) == state.mode = mode
Asked(method) == At("begin") /\ regexp.method = method

string_advance_index(i, unicode) ==
  IF unicode /\ i \in regexp.pairs THEN i + 2 ELSE i + 1

(* lre_exec, leftmost from i unless sticky. *)
lre_exec(i, sticky) ==
  LET from == {j \in i .. len : regexp.ends[j] # -1 /\ (sticky => j = i)}
  IN IF from = {} THEN None
     ELSE LET j == CHOOSE j \in from : \A k \in from : j <= k
          IN [start |-> j, end |-> regexp.ends[j]]

(* js_regexp_exec: what it finds and what lastIndex becomes.               *)
js_regexp_exec(lastIndex, sticky) ==
  LET kept == regexp.g \/ sticky
      last_index == IF kept THEN lastIndex ELSE 0
      found == IF last_index > len THEN None ELSE lre_exec(last_index, sticky)
  IN [found |-> found,
      lastIndex |-> IF ~kept THEN lastIndex ELSE IF found = None THEN 0 ELSE found.end]

(* JS_RegExpExec: the method exec, perhaps of the program's own.           *)
Any == [found : {None} \cup [start : 0 .. len + 1, end : 0 .. len + 1], lastIndex : 0 .. len + 1]
JS_RegExpExec(lastIndex, sticky) ==
  IF regexp.own THEN {js_regexp_exec(lastIndex, sticky)}
  ELSE {x \in Any : /\ x.found.start <= x.found.end
                    /\ Len(state.results) >= MaxResults => x.found = None}

Ends(answer) == [state EXCEPT !.mode = "answered", !.answer = answer]

(* Past an empty match, so that the loop advances.                         *)
Past(x) == IF x.found.start = x.found.end
           THEN string_advance_index(x.lastIndex, regexp.u) ELSE x.lastIndex

-----------------------------------------------------------------------------
js_regexp_test ==
  /\ Asked("exec")
  /\ \E x \in JS_RegExpExec(state.lastIndex, regexp.y) :
       state' = [Ends(x.found) EXCEPT !.lastIndex = x.lastIndex]

js_regexp_Symbol_match ==
  /\ Asked("match")
  /\ IF regexp.g THEN state' = [state EXCEPT !.mode = "match", !.lastIndex = 0]
     ELSE \E x \in JS_RegExpExec(state.lastIndex, regexp.y) :
            state' = [Ends(<<x.found>>) EXCEPT !.lastIndex = x.lastIndex]

MatchTurn ==
  /\ At("match")
  /\ \E x \in JS_RegExpExec(state.lastIndex, regexp.y) :
       IF x.found = None THEN state' = [Ends(state.results) EXCEPT !.lastIndex = x.lastIndex]
       ELSE state' = [state EXCEPT !.results = Append(@, x.found), !.lastIndex = Past(x)]

(* matchAll works with a new expression; lastIndex is that one's.          *)
js_regexp_Symbol_matchAll ==
  /\ Asked("matchAll")
  /\ state' = [state EXCEPT !.mode = "iterator"]

js_regexp_string_iterator_next ==
  /\ At("iterator")
  /\ \E x \in JS_RegExpExec(state.lastIndex, regexp.y) :
       LET more == Append(state.results, x.found) IN
       IF x.found = None THEN state' = [Ends(state.results) EXCEPT !.lastIndex = x.lastIndex]
       ELSE IF ~regexp.g THEN state' = [Ends(more) EXCEPT !.lastIndex = x.lastIndex]
       ELSE state' = [state EXCEPT !.results = more, !.lastIndex = Past(x)]

-----------------------------------------------------------------------------
(* replace collects the matches first; only then replacers run.            *)

js_regexp_Symbol_replace ==
  /\ Asked("replace")
  /\ LET last == IF regexp.g THEN 0 ELSE state.lastIndex
         short == regexp.empty /\ regexp.g /\ regexp.own   \* js_is_standard_regexp
     IN state' = [state EXCEPT !.lastIndex = last, !.mode = IF short THEN "delete" ELSE "replace"]

ReplaceTurn ==
  /\ At("replace")
  /\ \E x \in JS_RegExpExec(state.lastIndex, regexp.y) :
       LET more == Append(state.results, x.found) IN
       IF x.found = None THEN state' = [state EXCEPT !.mode = "build", !.lastIndex = x.lastIndex]
       ELSE IF ~regexp.g
       THEN state' = [state EXCEPT !.mode = "build", !.results = more, !.lastIndex = x.lastIndex]
       ELSE state' = [state EXCEPT !.results = more, !.lastIndex = Past(x)]

Text(from, to) == [i \in 1 .. (IF to > from THEN to - from ELSE 0) |-> from + i - 1]

(* Slip: a result that begins before nextSourcePosition is not left out.   *)
Slip_Backwards ==
  /\ At("build") /\ state.results # <<>>
  /\ LET result == Head(state.results)
         position == IF result.start > len THEN len ELSE result.start
     IN state' = [state EXCEPT !.results = Tail(@), !.p = position + result.end - result.start,
                             !.out = @ \o Text(state.p, position) \o <<New>>]

(* One result: the text before it and what replaces it, unless it goes     *)
(* backwards. p is nextSourcePosition. A replacer may change lastIndex.    *)
BuildTurn ==
  /\ At("build") /\ state.results # <<>>
  /\ LET result == Head(state.results)
         position == IF result.start > len THEN len ELSE result.start
         size == result.end - result.start
         done == [state EXCEPT !.results = Tail(@)]
     IN \E i \in {state.lastIndex} \cup (IF regexp.empty THEN {} ELSE {0, len}) :
          state' = IF position < state.p THEN [done EXCEPT !.lastIndex = i]
                  ELSE [done EXCEPT !.p = position + size, !.lastIndex = i,
                                    !.out = @ \o Text(state.p, position) \o <<New>>]

BuildEnds ==
  /\ At("build") /\ state.results = <<>>
  /\ state' = Ends(state.out \o Text(state.p, len))

(* JS_RegExpDelete: q is last_index, p is next_src_pos.                    *)
JS_RegExpDelete ==
  /\ At("delete")
  /\ LET found == lre_exec(state.q, regexp.y)
         next == IF found.start = found.end THEN string_advance_index(found.end, regexp.u)
                 ELSE found.end
         rest == state.out \o Text(state.p, len)
     IN IF state.q > len THEN state' = Ends(rest)
        ELSE IF found = None THEN state' = [Ends(rest) EXCEPT !.lastIndex = 0]
        ELSE state' = [state EXCEPT !.out = @ \o Text(state.p, found.start) \o <<New>>,
                                  !.p = found.end, !.q = next]

-----------------------------------------------------------------------------
(* search leaves lastIndex as it found it.                                 *)
js_regexp_Symbol_search ==
  /\ Asked("search")
  /\ \E x \in JS_RegExpExec(0, regexp.y) : state' = Ends(x.found.start)

(* split: p ends the last piece, q is where a separator is looked for, by  *)
(* a sticky copy of the expression.                                        *)
js_regexp_Symbol_split ==
  /\ Asked("split")
  /\ IF len > 0 THEN state' = [state EXCEPT !.mode = "split"]
     ELSE \E x \in JS_RegExpExec(0, TRUE) :
            state' = Ends(IF x.found = None THEN << <<0, 0>> >> ELSE <<>>)

SplitTurn ==
  /\ At("split") /\ state.q < len
  /\ \E x \in JS_RegExpExec(state.q, TRUE) :
       LET e == IF x.lastIndex > len THEN len ELSE x.lastIndex
       IN state' = IF x.found = None \/ e = state.p
                  THEN [state EXCEPT !.q = string_advance_index(@, regexp.u)]
                  ELSE [state EXCEPT !.results = Append(@, <<state.p, state.q>>), !.p = e, !.q = e]

SplitEnds ==
  /\ At("split") /\ state.q >= len
  /\ state' = Ends(Append(state.results, <<IF state.p > len THEN len ELSE state.p, len>>))

-----------------------------------------------------------------------------
MethodsNext ==
  \/ js_regexp_test \/ js_regexp_Symbol_match \/ MatchTurn
  \/ js_regexp_Symbol_matchAll \/ js_regexp_string_iterator_next
  \/ js_regexp_Symbol_replace \/ ReplaceTurn \/ BuildTurn \/ BuildEnds \/ JS_RegExpDelete
  \/ js_regexp_Symbol_search \/ js_regexp_Symbol_split \/ SplitTurn \/ SplitEnds

-----------------------------------------------------------------------------
(* What the methods promise.                                               *)

(* The matches that do not overlap, from a position on.                    *)
Successive(from, y) ==
  LET F[i \in Nat] ==
        LET found == IF i > len THEN None ELSE lre_exec(i, y) IN
        IF found = None THEN <<>>
        ELSE <<found>> \o F[IF found.end > found.start THEN found.end
                             ELSE string_advance_index(found.end, regexp.u)]
  IN F[from]

Start == IF regexp.g \/ regexp.y THEN regexp.lastIndex ELSE 0
First(i) == IF i > len THEN None ELSE lre_exec(i, regexp.y)
Found(i) == IF regexp.g THEN Successive(i, regexp.y)
            ELSE IF First(Start) = None THEN <<>> ELSE <<First(Start)>>

(* The text with the matches replaced.                                     *)
Replaced(found) ==
  LET Rest[k \in Nat] ==
        LET from == IF k = 0 THEN 0 ELSE found[k].end IN
        IF k = Len(found) THEN Text(from, len)
        ELSE Text(from, found[k + 1].start) \o <<New>> \o Rest[k + 1]
  IN Rest[0]

(* The pieces between separators: a separator is no empty text where a     *)
(* piece begins, nor at the end.                                           *)
Pieces[p \in Nat] ==
  LET at == {q \in p .. len - 1 : regexp.ends[q] \notin {-1, p}} IN
  IF at = {} THEN << <<p, len>> >>
  ELSE LET q == CHOOSE q \in at : \A r \in at : q <= r
       IN << <<p, q>> >> \o Pieces[regexp.ends[q]]

Expected ==
  CASE regexp.method = "exec" -> First(Start)
    [] regexp.method = "match" -> IF regexp.g THEN Successive(0, regexp.y) ELSE <<First(Start)>>
    [] regexp.method = "matchAll" -> Found(regexp.lastIndex)
    [] regexp.method = "replace" -> Replaced(Found(0))
    [] regexp.method = "search" -> First(0).start
    [] regexp.method = "split" ->
         IF len > 0 THEN Pieces[0] ELSE IF regexp.ends[0] = -1 THEN << <<0, 0>> >> ELSE <<>>

(* INVARIANT: with the exec of the engine every method answers what the    *)
(* leftmost, not overlapping matches of the text say, also by the short    *)
(* cut of replace, after empty matches, inside surrogate pairs and         *)
(* wherever a replacer moves lastIndex (js_regexp_Symbol_replace and the   *)
(* other loops over JS_RegExpExec). With an exec of the program's own,     *)
(* replace never repeats or reorders the text it keeps.                    *)
MethodsAgree ==
  At("answered") =>
    IF regexp.own THEN state.answer = Expected
    ELSE regexp.method = "replace" =>
           \A i, j \in DOMAIN state.answer :
             i < j /\ New \notin {state.answer[i], state.answer[j]} => state.answer[i] < state.answer[j]
=============================================================================
