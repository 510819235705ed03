----------------------------- MODULE MCCompiler -----------------------------
(* The programs TLC compiles and runs. Names: c is true or false, u may    *)
(* have the value undefined, x may be missing, l and m are local.          *)
EXTENDS Integers, Sequences
LOCAL INSTANCE FiniteSets

LOCAL Id(x) == [is |-> "id", x |-> x]
LOCAL N(n) == [is |-> "int", n |-> n]
LOCAL K(op) == [is |-> "const", op |-> op]
LOCAL S(x) == [is |-> "str", x |-> x]
LOCAL Of(o, x) == [is |-> "field", o |-> o, x |-> x]
LOCAL At(o, k) == [is |-> "el", o |-> o, k |-> k]
LOCAL Sets(l, e) == [is |-> "assign", op |-> "", l |-> l, e |-> e]
LOCAL Adds(l, e) == [is |-> "assign", op |-> "add", l |-> l, e |-> e]
LOCAL Counts(is, l) == [is |-> is, op |-> "inc", l |-> l]
LOCAL CallOf(f, args) == [is |-> "call", new |-> FALSE, f |-> f, args |-> args]
LOCAL NewOf(f, args) == [is |-> "call", new |-> TRUE, f |-> f, args |-> args]
LOCAL Un(op, e) == [is |-> "unary", op |-> op, e |-> e]
LOCAL With1(is, e) == [is |-> is, e |-> e]
LOCAL Bin(op, a, b) == [is |-> "binary", op |-> op, a |-> a, b |-> b]
LOCAL Logic(is, es) == [is |-> is, es |-> es]
LOCAL Cond(c, a, b) == [is |-> "cond", c |-> c, a |-> a, b |-> b]
LOCAL Arr(es) == [is |-> "array", es |-> es]
LOCAL Own(x, e) == [is |-> "named", x |-> x, e |-> e]
LOCAL OwnAt(k, e) == [is |-> "computed", k |-> k, e |-> e]
LOCAL Obj(ps) == [is |-> "object", props |-> ps]
LOCAL Spread(e) == [is |-> "spread_of", e |-> e]
LOCAL Hole == [is |-> "hole"]
LOCAL YieldOf(e) == [is |-> "yield", star |-> FALSE, kind |-> "", e |-> e]

LOCAL Pattern(array, ps, hasval, init) ==
  [is |-> "pattern", array |-> array, ps |-> ps, hasval |-> hasval, init |-> init, tok |-> ""]
LOCAL Elem(t, d) == [is |-> "one", target |-> t, default |-> d]
LOCAL RestOf(t) == [is |-> "rest", target |-> t, default |-> <<>>]
LOCAL Prop(x, t, d) == [is |-> "named", x |-> x, target |-> t, default |-> d, short |-> FALSE]
LOCAL Short(x, d) == [is |-> "named", x |-> x, target |-> Id(x), default |-> d, short |-> TRUE]
LOCAL Computed(k, t, d) == [is |-> "computed", k |-> k, target |-> t, default |-> d, short |-> FALSE]
LOCAL RestProps(t) == [is |-> "rest", target |-> t, default |-> <<>>, short |-> FALSE]

LOCAL Ex(e) == [is |-> "expr", e |-> e]
LOCAL Blk(ss) == [is |-> "block", stmts |-> ss]
LOCAL Cut(cont, name) == [is |-> "break", cont |-> cont, name |-> name]
LOCAL Ret(e) == [is |-> "return", value |-> e]
LOCAL IfOf(c, a, b) == [is |-> "if", c |-> c, a |-> a, b |-> b]
LOCAL Loops(is, label, c, body) == [is |-> is, label |-> label, c |-> c, body |-> body]
LOCAL ForOf(label, tok, target, e, body) ==
  [is |-> "for_of", label |-> label, await |-> FALSE, tok |-> tok, target |-> target, e |-> e, body |-> body]
LOCAL ForIn(label, tok, target, e, body) ==
  [is |-> "for_in", label |-> label, await |-> FALSE, tok |-> tok, target |-> target, e |-> e, body |-> body]
LOCAL ForOf3(label, init, test, step, body) ==
  [is |-> "for", label |-> label, init |-> init, test |-> test, step |-> step, body |-> body]
LOCAL Case(e, body) == [default |-> FALSE, e |-> e, body |-> body]
LOCAL Otherwise(body) == [default |-> TRUE, body |-> body]
LOCAL SwitchOf(e, cases) == [is |-> "switch", e |-> e, cases |-> cases]
LOCAL TryOf(body, param, handler, finally) ==
  [is |-> "try", body |-> body, param |-> param, handler |-> handler, finally |-> finally]
LOCAL Vars(tok, decls) == [is |-> "var", tok |-> tok, decls |-> decls]
LOCAL Decl(t, e) == [target |-> t, e |-> e]
LOCAL Prog(kind, eval, ss) == [is |-> "program", kind |-> kind, eval |-> eval, stmts |-> ss]

-----------------------------------------------------------------------------
LOCAL X == Id("x")
LOCAL C == Id("c")
LOCAL U == Id("u")
LOCAL L == Id("l")
LOCAL M == Id("m")
LOCAL CallF == CallOf(Id("f"), <<>>)

(* Expressions. *)
LOCAL Places == {X, L, Of(X, "p"), At(X, L), Of(Of(L, "p"), "q")}
LOCAL Argument == {<<>>, <<X>>, <<Spread(X)>>, <<L, Spread(C), N(1)>>}
LOCAL Exprs1 ==
  {Sets(p, e) : p \in Places, e \in {X, N(1), Sets(L, X), Counts("postfix", L), Cond(C, X, K("null"))}}
  \cup {Adds(p, e) : p \in Places, e \in {X, N(1), Counts("postfix", L)}}
  \cup {Counts(is, p) : is \in {"prefix", "postfix"}, p \in Places}
  \cup {Logic(is, es) : is \in {"and", "or"}, es \in {<<C, X>>, <<C, U, C>>, <<Logic("and", <<C, X>>), Logic("or", <<U, C>>)>>, <<Un("lnot", C), K("push_true"), X>>}}
  \cup {Cond(c, a, b) : c \in {C, Un("lnot", U), Logic("and", <<C, U>>), K("push_true"), K("null"), N(0)}, a \in {X, Sets(L, N(1))}, b \in {X, CallF}}
  \cup {CallOf(f, as) : f \in {Id("f"), Of(L, "p"), At(X, L), Of(X, "p"), CallF}, as \in Argument}
  \cup {NewOf(f, as) : f \in {Id("f"), Of(L, "p")}, as \in Argument}
  \cup {Logic("comma", es) : es \in {<<X, L>>, <<C, Sets(L, X), L>>}}
  \cup {With1("delete", e) : e \in Places \cup {N(1), CallF}} \cup {With1("typeof", e) : e \in Places}
  \cup {With1("void", e) : e \in {X, L}} \cup {Un(op, e) : op \in {"neg", "lnot", "plus", "not"}, e \in {X, L}}
  \cup {Bin("add", a, b) : a \in {X, L}, b \in {X, Of(L, "p")}}
  \cup {Bin("strict_eq", a, b) : a \in {X, L, K("null")}, b \in {U, With1("void", N(0)), K("null"), L}}
  \cup {Bin(op, a, b) : op \in {"strict_neq"}, a \in {X, L}, b \in {U, K("null"), K("undefined")}}
  \cup {Bin(op, With1("typeof", a), S(x)) : op \in {"strict_eq", "strict_neq"}, a \in {L, U}, x \in {"undefined", "function", "object"}}
  \cup {Cond(Bin(op, a, b), X, L) : op \in {"strict_eq", "strict_neq"}, a \in {U, With1("typeof", U)}, b \in {S("undefined"), K("null"), K("undefined")}}
  \cup {CallOf(Logic("comma", <<N(0), Of(L, "p")>>), <<>>)}
  \cup {Arr(es) : es \in {<<>>, <<X, L>>, <<X, Hole>>, <<Hole, X>>, <<X, Spread(L)>>, <<Hole, Spread(L), N(1), Hole>>,
                          <<X, Hole, N(1), Hole, Spread(L)>>, <<Spread(X), Hole, Spread(L)>>}}
  \cup {Obj(ps) : ps \in {<<>>, <<Own("p", X), OwnAt(X, L)>>, <<OwnAt(L, X), Spread(X), Own("q", L)>>}}

(* Patterns: assigned and declared. *)
LOCAL Deep(hasval) == Pattern(TRUE, <<Elem(X, <<>>)>>, hasval, <<>>)
LOCAL Deeper(init) == Pattern(FALSE, <<Prop("q", X, <<>>)>>, TRUE, init)
LOCAL Elems(Target, e) ==
  {<<>>, <<Hole>>, <<Elem(Target[1], <<>>)>>, <<Elem(Target[2], <<e>>), RestOf(Target[1])>>,
   <<Hole, Elem(Target[1], <<Sets(L, X)>>), Elem(Target[2], <<>>)>>}
LOCAL Props(Target, e) ==
  {<<>>, <<Prop("p", Target[1], <<>>)>>, <<Prop("p", Target[2], <<e>>), RestProps(Target[1])>>,
   <<Computed(X, Target[1], <<e>>)>>, <<Computed(L, Target[2], <<>>), RestProps(Target[1])>>,
   <<Short("l", <<e>>), Short("x", <<>>)>>, <<Short("m", <<>>), RestProps(Target[1])>>}
LOCAL NestedIn(Target) ==
  {Pattern(TRUE, <<Elem(Deep(TRUE), <<>>), Elem(Deeper(<<U>>), <<>>)>>, h, <<X>>) : h \in {FALSE}}
  \cup {Pattern(FALSE, <<Prop("p", Deep(TRUE), <<>>), Computed(L, Deeper(<<X>>), <<>>)>> \o r, FALSE, <<U>>) :
          r \in {<<>>, <<RestProps(Target[1])>>}}
  \cup {Pattern(TRUE, <<RestOf(Deep(TRUE))>>, FALSE, <<X>>)}
LOCAL Assigned == {<<L, X>>, <<Of(X, "p"), L>>, <<At(L, X), Of(L, "p")>>}
LOCAL Exprs2 ==
  {Pattern(TRUE, ps, FALSE, <<U>>) : ps \in UNION {Elems(t, X) : t \in Assigned}}
  \cup {Pattern(FALSE, ps, FALSE, <<U>>) : ps \in UNION {Props(t, X) : t \in Assigned}}
  \cup UNION {NestedIn(t) : t \in Assigned}
LOCAL Declares(tok) ==
  {Vars(tok, <<Decl(Pattern(TRUE, ps, TRUE, <<U>>), <<>>)>>) : ps \in Elems(<<L, M>>, X)}
  \cup {Vars(tok, <<Decl(Pattern(FALSE, ps, TRUE, <<U>>), <<>>)>>) : ps \in Props(<<L, M>>, X)}
  \cup {Vars(tok, <<Decl(L, e)>>) : e \in {<<X>>} \cup (IF tok = "const" THEN {} ELSE {<<>>})}

(* Statements, and ways to leave them. *)
LOCAL Leaving == {Cut(FALSE, ""), Cut(TRUE, ""), Cut(FALSE, "a"), Cut(TRUE, "a"), Ret(<<X>>), Ret(<<>>), With1("throw", C), Ex(X)}
LOCAL Over(label, body) ==
  {Loops("while", label, C, body), Loops("do", label, C, body), ForOf(label, "", L, C, body), ForOf(label, "var", M, C, body),
   ForIn(label, "", Of(L, "p"), C, body), ForOf3(label, <<>>, <<C>>, <<X>>, body), ForOf3(label, <<Ex(X)>>, <<C>>, <<>>, body),
   ForOf3(label, <<Vars("var", <<Decl(L, <<N(0)>>)>>)>>, <<>>, <<Counts("postfix", L)>>, Blk(<<IfOf(C, Cut(FALSE, ""), <<>>), body>>))}
LOCAL Inside(s) ==
  {TryOf(<<s>>, <<>>, <<>>, << <<Ex(CallF)>> >>), TryOf(<<s>>, <<>>, << <<Ex(C)>> >>, <<>>),
   TryOf(<<Ex(CallF), s>>, <<M>>, << <<s>> >>, << <<Ex(C)>> >>), TryOf(<<Ex(X)>>, <<M>>, << <<Ex(M)>> >>, << <<s>> >>),
   SwitchOf(L, <<Case(C, <<s>>), Otherwise(<<Ex(X)>>)>>), ForOf("", "", L, C, Blk(<<s, Ex(M)>>)), ForIn("", "var", M, L, s),
   Blk(<<Vars("let", <<Decl(L, <<X>>)>>), s>>), Loops("while", "", C, s)}
LOCAL Guarded == {IfOf(C, s, <<>>) : s \in Leaving}
LOCAL Unlabelled == {IfOf(C, Cut(k, ""), <<>>) : k \in BOOLEAN} \cup {IfOf(C, Ret(<<X>>), <<Ex(L)>>)}
LOCAL Twice == UNION {Inside(s) : s \in UNION {Inside(t) : t \in Guarded}}
LOCAL FunctionBodies ==
  UNION {Over("a", s) : s \in UNION {Inside(t) : t \in Guarded}}
  \cup {ForOf("a", "", L, C, s) : s \in Twice}
LOCAL Cases(D) == {<<>>, <<Case(C, <<Ex(X)>>)>>, <<Case(C, <<>>), Case(U, <<Ex(X)>>)>>, <<D>>, <<D, Case(C, <<Ex(N(1))>>)>>,
  <<Case(C, <<Cut(FALSE, "")>>), D, Case(U, <<Ex(N(2))>>)>>, <<Case(C, <<>>), D, Case(U, <<>>)>>,
  <<Case(U, <<Ex(X)>>), Case(C, <<>>), Case(L, <<Cut(FALSE, "")>>), D>>, <<D, Case(C, <<>>), Case(U, <<>>), Case(X, <<Ex(X)>>)>>}
LOCAL EvalBodies ==
  UNION {Over("", Ex(X)) : x \in {1}} \cup UNION {Over("", s) : s \in Unlabelled \ {IfOf(C, Ret(<<X>>), <<Ex(L)>>)}}
  \cup {SwitchOf(e, cs) : e \in {U, C}, cs \in Cases(Otherwise(<<Ex(L)>>)) \cup Cases(Otherwise(<<Cut(FALSE, "")>>))}
  \cup {IfOf(c, Ex(X), b) : c \in {C, Logic("or", <<Un("lnot", C), U>>)}, b \in {<<>>, <<Blk(<<>>)>>, <<Ex(L)>>}}
  \cup {[is |-> "labelled", label |-> "a", body |-> Blk(<<IfOf(C, Cut(FALSE, "a"), <<>>), Ex(X)>>)]}
  \cup {TryOf(<<Ex(C)>>, <<p>>, << <<Ex(L)>> >>, f) : p \in {L, Pattern(TRUE, <<Elem(L, <<X>>)>>, TRUE, <<>>)}, f \in {<<>>, << <<Ex(X)>> >>}}
LOCAL Yields == YieldOf(X)
LOCAL Generators ==
  UNION {Over("a", s) : s \in Inside(Ex(Yields))} \cup {Ex(e) : e \in {Sets(L, Yields), CallOf(Id("f"), <<X, Yields>>)}}
  \cup {ForOf("a", "", L, C, s) : s \in UNION {Inside(t) : t \in Inside(Ex(Yields))}}
  \cup {Ex(Pattern(TRUE, ps, FALSE, <<X>>)) : ps \in UNION {Elems(t, Yields) : t \in Assigned}}
LOCAL Awaiting == {TryOf(<<Ret(<<With1("await", X)>>)>>, <<M>>, << <<Ex(With1("await", M))>> >>, << <<Ex(With1("await", C))>> >>)}
MCPrograms ==
  {Prog("normal", TRUE, <<Ex(e)>>) : e \in Exprs1 \cup Exprs2}
  \cup {Prog("normal", FALSE, <<s>>) : s \in Declares("var") \cup Declares("let") \cup Declares("const") \cup FunctionBodies}
  \cup {Prog("normal", TRUE, <<Ex(N(7)), s>>) : s \in EvalBodies}
  \cup {Prog("generator", FALSE, <<s>>) : s \in Generators} \cup {Prog("async", FALSE, <<s>>) : s \in Awaiting}
=============================================================================
