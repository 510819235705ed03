--------------------------- MODULE ModuleLinking ----------------------------
(***************************************************************************)
(* Loading, linking and evaluating ECMAScript modules (quickjs.c,          *)
(* JSModuleDef).                                                           *)
(*                                                                         *)
(* A module is loaded under its name and then resolved (its requests are   *)
(* loaded), instantiated (its imports are bound to variables of other      *)
(* modules) and evaluated (its body runs), each by a recursive walk along  *)
(* the requests that a flag of the module keeps from going round a cycle.  *)
(* "stack" holds the calls in progress and "ret" what the last one has     *)
(* returned.  Program code runs in a body, where it can import(), which    *)
(* begins another walk in the middle of this one.                          *)
(*                                                                         *)
(* What fails frees modules, also those that others still refer to.  A     *)
(* call that would use a freed module, or a variable that does not exist   *)
(* yet, does nothing here: what the program does then is undefined.        *)
(***************************************************************************)
EXTENDS Naturals, FiniteSets, SequencesExt

CONSTANTS
  Module,       \* names of modules
  Programs,     \* what their files say, in the programs considered
  Null,         \* no variable, no namespace, a freed module
  MaxImports    \* bound on the calls of import()

Default == "default"
Star == "*"

(***************************************************************************)
(* A file: req are the modules it requests, in order; star those of its    *)
(* "export * from"; import its imports, each from a module and a name and  *)
(* as a variable; export its export entries.  An entry is local, for a     *)
(* variable (its own, or an import), or indirect, for a name of another    *)
(* module.  "c" is a C module, which the host makes itself; a module       *)
(* without a file cannot be loaded.                                        *)
(***************************************************************************)
ASSUME ModuleAssumption ==
  /\ MaxImports \in Nat /\ Null \notin Module
  /\ \A p \in Programs : \A m \in DOMAIN p :
       /\ m \in Module /\ p[m].kind \in {"js", "c"}
       /\ p[m].req \in Seq(Module) /\ Range(p[m].star) \subseteq Range(p[m].req)
       /\ \A k \in DOMAIN p[m].import : p[m].import[k].from \in Range(p[m].req)

VARIABLES
  file,      \* the files
  mod,       \* JSModuleDef of each module
  stack,     \* calls in progress
  ret,       \* what the last call has returned
  imports    \* calls of import() so far

vars == <<file, mod, stack, ret, imports>>

Absent == [loaded |-> FALSE, resolved |-> FALSE, instantiated |-> FALSE,
           evaluated |-> FALSE, eval_mark |-> FALSE, eval_has_exception |-> FALSE,
           func |-> "none", linked |-> {}, lost |-> {}, bound |-> <<>>, exported |-> <<>>,
           ns |-> Null, ran |-> 0]

(* js_new_module_def, and the code compiled for it. *)
NewModule(m) ==
  [Absent EXCEPT !.loaded = TRUE, !.func = IF file[m].kind = "c" THEN "init" ELSE "bytecode",
                 !.bound = [k \in DOMAIN file[m].import |-> Null],
                 !.exported = [x \in DOMAIN file[m].export |-> Null]]

World == [mod |-> mod, stack |-> stack, ret |-> ret]
Becomes(w) == mod' = w.mod /\ stack' = w.stack /\ ret' = w.ret

Call(w, fn, m) ==
  [w EXCEPT !.stack = Append(@, [fn |-> fn, m |-> m, i |-> 0]), !.ret = "none"]
Return(w, r) == [w EXCEPT !.stack = Front(@), !.ret = r]
Next0(w) == [w EXCEPT !.stack[Len(w.stack)].i = @ + 1, !.ret = "none"]

At(fn) == stack # <<>> /\ Last(stack).fn = fn /\ Last(stack).m # Null
M == Last(stack).m
I == Last(stack).i

(* js_free_modules and js_free_module_def, whoever refers to the modules;  *)
(* the function of a body that is running has a reference of its own, and  *)
(* an import() that is still looking for its module has only the name.     *)
Free(w, S) ==
  [w EXCEPT !.mod = [m \in Module |->
                       IF m \in S THEN Absent
                       ELSE [w.mod[m] EXCEPT !.linked = @ \ S,
                                             !.lost = @ \cup (w.mod[m].linked \cap S)]],
            !.stack = [j \in DOMAIN @ |->
                         IF @[j].m \in S /\ @[j].fn # "body" /\ (@[j].fn = "import" => @[j].i > 0)
                           THEN [@[j] EXCEPT !.m = Null] ELSE @[j]]]

NotEvaluated(w) == {m \in Module : w.mod[m].loaded /\ ~w.mod[m].evaluated}
NotResolved(w)  == {m \in Module : w.mod[m].loaded /\ ~w.mod[m].resolved}

-----------------------------------------------------------------------------
(* Looking an export up.                                                   *)

(* Slip: the first star export that has the name is taken. *)
Slip_FirstStar(w, found, r) == found

(* Two star exports have the name: they must mean one variable. *)
Same(w, found, r) ==
  IF found.m = r.m /\ file[found.m].export[found.x].local = file[r.m].export[r.x].local
    THEN found ELSE [r EXCEPT !.how = "ambiguous"]

(* js_resolve_export: the entry, of m or of a module behind it, that has   *)
(* the variable or the namespace.  "seen" is JSResolveState.               *)
js_resolve_export(w, m0, x0) ==
  LET found(how, m, x, seen) == [how |-> how, m |-> m, x |-> x, seen |-> seen]
      res[m \in Module, x \in STRING, seen \in SUBSET (Module \X STRING)] ==
        LET now == seen \cup {<<m, x>>}
            through(m1, x1, s) ==
              IF m1 \in w.mod[m].lost THEN found("freed", m, x, s) ELSE res[m1, x1, s]
            star(acc, m1) ==
              LET r == through(m1, x, acc.seen) IN
              IF acc.how \in {"ambiguous", "freed"} THEN acc
              ELSE IF r.how \in {"ambiguous", "freed"} THEN r
              ELSE IF r.how = "found" /\ acc.how = "found"
                THEN [Same(w, acc, r) EXCEPT !.seen = r.seen]
              ELSE IF r.how = "found" THEN r ELSE [acc EXCEPT !.seen = r.seen]
        IN IF <<m, x>> \in seen THEN found("circular", m, x, seen)
           ELSE IF x \in DOMAIN file[m].export
             THEN LET e == file[m].export[x] IN
                  IF e.type = "local" \/ e.local = Star
                    THEN found("found", m, x, now)
                    ELSE through(e.from, e.local, now)
           ELSE IF x = Default THEN found("none", m, x, now)
           ELSE FoldLeft(star, found("none", m, x, now), file[m].star)
  IN res[m0, x0, {}]

(* The variable of a local entry: the one kept in the entry, else that of  *)
(* the module's function, which a module has while it is instantiated and  *)
(* which has variables for all but the imports of a name.                  *)
ImportAs(m, v) == {k \in DOMAIN file[m].import : file[m].import[k].as = v}

Variable(w, m, x) ==
  LET v == file[m].export[x].local IN
  IF w.mod[m].exported[x] # Null THEN w.mod[m].exported[x]
  ELSE IF w.mod[m].func # "function" THEN Null
  ELSE IF ImportAs(m, v) = {} THEN <<m, v>>
  ELSE LET k == CHOOSE k \in ImportAs(m, v) : TRUE IN
       IF file[m].import[k].name = Star THEN <<file[m].import[k].from, Star>>
                                        ELSE w.mod[m].bound[k]

-----------------------------------------------------------------------------
(* Namespaces and linking.                                                 *)

(* The modules behind m by "export * from", and get_exported_names.        *)
Behind(m) ==
  LET reach[S \in SUBSET Module] ==
        LET T == S \cup UNION {Range(file[s].star) : s \in S} IN IF T = S THEN S ELSE reach[T]
  IN reach[{m}]

get_exported_names(m) ==
  DOMAIN file[m].export \cup UNION {DOMAIN file[s].export \ {Default} : s \in Behind(m)}

(* What an entry means once it is found: a variable or a namespace.        *)
Meaning(w, r) ==
  LET e == file[r.m].export[r.x] IN
  IF e.type = "indirect" THEN <<e.from, Star>> ELSE Variable(w, r.m, r.x)

(* js_build_module_ns: exports that are ambiguous are left out.  A result  *)
(* is "ok", "fail", or what makes it undefined: a module on the way that   *)
(* was freed, a variable that does not exist.                              *)
MakeNamespace(w, m, r) ==
  LET good == {x \in DOMAIN r : r[x].how = "found"}
      how == {r[x].how : x \in DOMAIN r}
      out == IF "freed" \in how \/ \E b \in Behind(m) : w.mod[b].lost \cap Range(file[b].star) # {}
               THEN "freed"
             ELSE IF how \cap {"none", "circular"} # {} THEN "fail"
             ELSE IF \E x \in good : Meaning(w, r[x]) = Null THEN "unbound" ELSE "ok"
  IN [out |-> out,
      w |-> IF out = "ok" THEN [w EXCEPT !.mod[m].ns = [x \in good |-> Meaning(w, r[x])]] ELSE w]

js_get_module_ns(w, m) ==
  IF w.mod[m].ns # Null THEN [out |-> "ok", w |-> w]
  ELSE MakeNamespace(w, m, [x \in get_exported_names(m) |-> js_resolve_export(w, m, x)])

(* Import k of m becomes a variable, or the namespace of m2 by a request   *)
(* of m1.                                                                  *)
Bound(m, k, n, variable) ==
  IF n.out = "ok" THEN [n EXCEPT !.w.mod[m].bound[k] = variable] ELSE n

BindNamespace(m, acc, k, m1, m2) ==
  IF m2 \in acc.w.mod[m1].lost THEN [acc EXCEPT !.out = "freed"]
  ELSE Bound(m, k, js_get_module_ns(acc.w, m2), <<m2, Star>>)

BindVariable(m, acc, k, variable) ==
  IF variable = Null THEN [acc EXCEPT !.out = "unbound"] ELSE Bound(m, k, acc, variable)

BindFound(m, acc, k, r) ==
  CASE r.how = "freed" -> [acc EXCEPT !.out = "freed"]
    [] r.how \notin {"freed", "found"} -> [acc EXCEPT !.out = "fail"]
    [] r.how = "found" ->
         IF file[r.m].export[r.x].type = "indirect"
           THEN BindNamespace(m, acc, k, r.m, file[r.m].export[r.x].from)
           ELSE BindVariable(m, acc, k, Variable(acc.w, r.m, r.x))

(* Binds import k of m, unless an import before it has failed.             *)
Bind(m, acc, k) ==
  LET imp == file[m].import[k] IN
  IF acc.out # "ok" THEN acc
  ELSE IF imp.from \in acc.w.mod[m].lost THEN [acc EXCEPT !.out = "freed"]
  ELSE IF imp.name = Star THEN BindNamespace(m, acc, k, m, imp.from)
  ELSE BindFound(m, acc, k, js_resolve_export(acc.w, imp.from, imp.name))

(* The indirect exports are checked, the imports bound, and the variables  *)
(* of the exports kept in their entries.                                   *)
Keep(m, l) ==
  IF l.out # "ok" THEN l
  ELSE [l EXCEPT !.w.mod[m].exported = [x \in DOMAIN file[m].export |->
          IF file[m].export[x].type = "local" THEN Variable(l.w, m, x) ELSE Null]]

Link(w, m) ==
  LET passes_on == {x \in DOMAIN file[m].export : file[m].export[x].type = "indirect"
                                                   /\ file[m].export[x].local # Star}
      how == {js_resolve_export(w, m, x).how : x \in passes_on}
  IN IF how \subseteq {"found"}
       THEN Keep(m, FoldLeft(LAMBDA acc, k : Bind(m, acc, k), [out |-> "ok", w |-> w],
                             [k \in DOMAIN file[m].import |-> k]))
     ELSE [out |-> IF "freed" \in how THEN "freed" ELSE "fail", w |-> w]

(* What becomes of the program: linking changes nothing but what imports,  *)
(* exports and namespaces stand for.                                       *)
Binds(w) ==
  [World EXCEPT !.mod = [m \in Module |->
     [@[m] EXCEPT !.bound = w.mod[m].bound, !.exported = w.mod[m].exported,
                  !.ns = w.mod[m].ns]]]

-----------------------------------------------------------------------------
(* The three walks: what a call does at once.                              *)

js_resolve_module(w, m) ==
  IF w.mod[m].resolved THEN [w EXCEPT !.ret = "ok"]
  ELSE Call([w EXCEPT !.mod[m].resolved = TRUE], "resolve", m)

js_instantiate_module(w, m) ==
  IF w.mod[m].instantiated THEN [w EXCEPT !.ret = "ok"]
  ELSE LET made == IF file[m].kind = "js" THEN [w EXCEPT !.mod[m].func = "function"]
                   ELSE [w EXCEPT !.mod[m].exported = [x \in DOMAIN @ |-> <<m, x>>]]
       IN Call([made EXCEPT !.mod[m].instantiated = TRUE], "instantiate", m)

(* Slip: nothing marks a module whose evaluation is in progress. *)
Slip_NoMark(w, m) ==
  IF w.mod[m].evaluated THEN [w EXCEPT !.ret = IF w.mod[m].eval_has_exception THEN "fail" ELSE "ok"]
  ELSE Call([w EXCEPT !.mod[m].eval_mark = TRUE], "evaluate", m)

js_evaluate_module(w, m) ==
  IF w.mod[m].eval_mark THEN [w EXCEPT !.ret = "ok"]          \* avoid cycles
  ELSE IF w.mod[m].evaluated
    THEN [w EXCEPT !.ret = IF w.mod[m].eval_has_exception THEN "fail" ELSE "ok"]
  ELSE Call([w EXCEPT !.mod[m].eval_mark = TRUE], "evaluate", m)

(* js_module_loader: the file is compiled by JS_Eval, which resolves it.   *)
Loadable(m) == m \in DOMAIN file /\ file[m].kind = "js"
Load(w, fn, m) ==
  js_resolve_module([Call(w, fn, m) EXCEPT !.mod[m] = NewModule(m), !.stack[Len(w.stack) + 1].i = 1], m)

-----------------------------------------------------------------------------
(* What the host and the program do.                                       *)

JS_NewCModule(m) ==
  /\ stack = <<>> /\ m \in DOMAIN file /\ file[m].kind = "c" /\ ~mod[m].loaded
  /\ mod' = [mod EXCEPT ![m] = NewModule(m)]
  /\ UNCHANGED <<file, stack, ret, imports>>

JS_Eval(m) ==
  /\ stack = <<>> /\ Loadable(m) /\ ~mod[m].loaded
  /\ Becomes(Load(World, "run", m))
  /\ UNCHANGED <<file, imports>>

(* js_dynamic_import, of a body or of other code.                          *)
js_dynamic_import(m) ==
  /\ imports < MaxImports /\ (stack # <<>> => Last(stack).fn = "body" /\ file[M].kind = "js")
  /\ Becomes(Call(IF stack = <<>> THEN World ELSE Next0(World), "import", m))
  /\ imports' = imports + 1
  /\ UNCHANGED file

BodyEnds(r) ==
  /\ stack # <<>> /\ Last(stack).fn = "body"
  /\ Becomes(Return(World, r))
  /\ UNCHANGED <<file, imports>>

-----------------------------------------------------------------------------
(* The calls go on.                                                        *)

js_host_resolve_imported_module ==
  /\ At("import") /\ I = 0
  /\ CASE mod[M].loaded -> Becomes(js_resolve_module(Next0(World), M))
       [] ~mod[M].loaded /\ ret = "none" /\ Loadable(M) -> Becomes(Load(World, "compile", M))
       [] OTHER -> Becomes(Return(World, "none"))         \* the promise is rejected
  /\ UNCHANGED <<file, imports>>

ResolveStep ==
  /\ At("resolve") /\ ret # "fail" /\ I < Len(file[M].req)
  /\ LET x == file[M].req[I + 1] IN
     CASE mod[x].loaded ->
            Becomes(js_resolve_module([Next0(World) EXCEPT !.mod[M].linked = @ \cup {x}], x))
       [] ~mod[x].loaded /\ Loadable(x) -> Becomes(Load(World, "compile", x))
       [] OTHER -> Becomes(Return(World, "fail"))
  /\ UNCHANGED <<file, imports>>

ResolveEnds ==
  /\ At("resolve") /\ (ret = "fail" \/ I = Len(file[M].req))
  /\ Becomes(Return(World, IF ret = "fail" THEN "fail" ELSE "ok"))
  /\ UNCHANGED <<file, imports>>

(* __JS_EvalInternal, JS_EVAL_FLAG_COMPILE_ONLY.                           *)
Compiled ==
  /\ At("compile")
  /\ Becomes(Return(IF ret = "fail" THEN Free(World, {M}) ELSE World, ret))
  /\ UNCHANGED <<file, imports>>

(* Slip: a module that cannot be instantiated is left as it is. *)
Slip_KeepFailed(w) == IF w.stack[Len(w.stack)].i = 2 THEN w ELSE Free(w, NotEvaluated(w))

EvalFailed(w) == Free(w, NotEvaluated(w))

Imported(n) == n.out \in {"ok", "fail"} /\ Becomes(Return(Binds(n.w), "none"))

(* JS_EvalFunctionInternal, for JS_Eval and for import(); what becomes of  *)
(* the modules when a part of it fails.                                    *)
JS_EvalFunctionInternal ==
  /\ \E fn \in {"run", "import"} : At(fn) /\ I > 0
  /\ LET failed == IF I > 1 THEN EvalFailed(World)
                   ELSE Free(World, IF Last(stack).fn = "run" THEN {M} ELSE NotResolved(World))
     IN CASE ret = "fail"          -> Becomes(Return(failed, "none"))
          [] ret = "ok" /\ I = 1   -> Becomes(js_instantiate_module(Next0(World), M))
          [] ret = "ok" /\ I = 2   -> Becomes(js_evaluate_module(Next0(World), M))
          [] ret = "ok" /\ I = 3   ->
               IF Last(stack).fn = "run" THEN Becomes(Return(World, "none"))
               ELSE Imported(js_get_module_ns(World, M))
  /\ UNCHANGED <<file, imports>>

InstantiateStep ==
  /\ At("instantiate") /\ ret # "fail" /\ I < Len(file[M].req)
  /\ file[M].req[I + 1] \in mod[M].linked
  /\ Becomes(js_instantiate_module(Next0(World), file[M].req[I + 1]))
  /\ UNCHANGED <<file, imports>>

Linking == At("instantiate") /\ ret # "fail" /\ I = Len(file[M].req)

Linked(l) == l.out \in {"ok", "fail"} /\ Becomes(Return(Binds(l.w), l.out))

InstantiateEnds ==
  /\ Linking /\ Linked(Link(World, M))
  /\ UNCHANGED <<file, imports>>

InstantiateFails ==
  /\ At("instantiate") /\ ret = "fail"
  /\ Becomes(Return(World, "fail"))
  /\ UNCHANGED <<file, imports>>

EvaluateStep ==
  /\ At("evaluate") /\ ret # "fail" /\ I < Len(file[M].req)
  /\ file[M].req[I + 1] \in mod[M].linked
  /\ Becomes(js_evaluate_module(Next0(World), file[M].req[I + 1]))
  /\ UNCHANGED <<file, imports>>

BodyStarts ==
  /\ At("evaluate") /\ ret # "fail" /\ I = Len(file[M].req)
  /\ Becomes(Call([Next0(World) EXCEPT !.mod[M].ran = @ + 1], "body", M))
  /\ UNCHANGED <<file, imports>>

(* Slip: the exception of a dependency is not passed on. *)
Slip_GoOn(w, m) == [w EXCEPT !.ret = "none"]

dependency_fails(w, m) == Return([w EXCEPT !.mod[m].eval_mark = FALSE], "fail")

DependencyFails ==
  /\ At("evaluate") /\ ret = "fail" /\ I <= Len(file[M].req)
  /\ Becomes(dependency_fails(World, M))
  /\ UNCHANGED <<file, imports>>

EvaluateEnds ==
  /\ At("evaluate") /\ I > Len(file[M].req)
  /\ Becomes(Return([World EXCEPT !.mod[M].eval_has_exception = (ret = "fail"),
                                  !.mod[M].eval_mark = FALSE, !.mod[M].evaluated = TRUE,
                                  !.mod[M].func = IF @ = "init" THEN @ ELSE "deleted"], ret))
  /\ UNCHANGED <<file, imports>>

Init ==
  /\ file \in Programs
  /\ mod = [m \in Module |-> Absent]
  /\ stack = <<>> /\ ret = "none" /\ imports = 0

Next ==
  \/ \E m \in Module : JS_NewCModule(m) \/ JS_Eval(m) \/ js_dynamic_import(m)
  \/ BodyEnds("ok") \/ BodyEnds("fail")
  \/ js_host_resolve_imported_module \/ ResolveStep \/ ResolveEnds
  \/ Compiled \/ JS_EvalFunctionInternal
  \/ InstantiateStep \/ InstantiateEnds \/ InstantiateFails
  \/ EvaluateStep \/ BodyStarts \/ DependencyFails \/ EvaluateEnds

Spec == Init /\ [][Next]_vars

-----------------------------------------------------------------------------
(* A program whose modules import each other in a circle comes to an end:  *)
(* no module is in two calls of the same walk, and eval_mark, "temporary   *)
(* use during js_evaluate_module()", is set exactly during one.            *)
OneWalk ==
  LET in(fn, m) == Cardinality({j \in DOMAIN stack : stack[j].fn = fn /\ stack[j].m = m})
  IN \A m \in Module :
       /\ in("resolve", m) <= 1 /\ in("instantiate", m) <= 1
       /\ in("evaluate", m) = (IF mod[m].eval_mark THEN 1 ELSE 0)

(* A body runs once in the life of a module, after those of all that the   *)
(* module requests have run without an exception; only a module it is in a *)
(* circle with may still be waiting for it.                                *)
BodiesInOrder ==
  /\ \A m \in Module : mod[m].ran <= 1
  /\ At("body") /\ I = 0 =>
       \A x \in Range(file[M].req) :
         mod[x].eval_mark \/ (mod[x].evaluated /\ ~mod[x].eval_has_exception)

(* Where a name of a module comes from, by the files alone: through        *)
(* "export from" and stars, and, for a variable, through imports.          *)
PassedOn(n) ==
  LET m == n[1]  x == n[2] IN
  IF x \in DOMAIN file[m].export
    THEN {<<e.from, e.local>> : e \in {d \in {file[m].export[x]} : d.type = "indirect"}}
  ELSE IF x = Default THEN {} ELSE {<<s, x>> : s \in Range(file[m].star)}

BroughtIn(n) ==
  LET m == n[1]  x == n[2]
      own == {d \in {file[m].export[y] : y \in {x} \cap DOMAIN file[m].export} : d.type = "local"}
  IN {<<file[m].import[k].from, file[m].import[k].name>> : k \in UNION {ImportAs(m, d.local) : d \in own}}

Sources(m, x, imported) ==
  LET open(S) == {n \in S : n[2] # Star /\ n[1] \in DOMAIN file}
      reach[S \in SUBSET (Module \X STRING)] ==
        LET T == S \cup UNION {PassedOn(n) \cup IF imported THEN BroughtIn(n) ELSE {} : n \in open(S)}
        IN IF T = S THEN S ELSE reach[T]
  IN reach[{<<m, x>>}]

(* The entries of m and of the modules behind it that have the name, and   *)
(* the variables or namespaces it can stand for.                           *)
HasEntry(n) == n[1] \in DOMAIN file /\ n[2] \in DOMAIN file[n[1]].export
Exporters(m, x) ==
  {<<n[1], file[n[1]].export[n[2]].local>> : n \in
     {o \in Sources(m, x, FALSE) : HasEntry(o) /\ (PassedOn(o) = {} \/ file[o[1]].export[o[2]].local = Star)}}
StandsFor(m, x) ==
  LET all == Sources(m, x, TRUE) IN
  {n \in all : n[2] = Star}
    \cup {<<n[1], file[n[1]].export[n[2]].local>> : n \in
           {o \in all : HasEntry(o) /\ PassedOn(o) = {} /\ BroughtIn(o) = {}}}

Names == UNION {DOMAIN file[m].export : m \in DOMAIN file}

(* When a body starts, each of its imports is bound to the one variable or *)
(* namespace that the files say, through whatever exports and stars it was *)
(* found and in whatever order the modules were linked; and a namespace    *)
(* has, of all the names in the program, exactly those for which the files *)
(* have one entry, each with what that entry stands for: no name is lost,  *)
(* and none that two stars find in different modules is there.             *)
ImportsBound ==
  /\ At("body") /\ I = 0 /\ mod[M].loaded =>
       \A k \in DOMAIN mod[M].bound :
         {mod[M].bound[k]} = StandsFor(file[M].import[k].from, file[M].import[k].name)
  /\ \A m \in Module : mod[m].ns # Null =>
       /\ DOMAIN mod[m].ns = {x \in Names : Cardinality(Exporters(m, x)) = 1}
       /\ \A x \in DOMAIN mod[m].ns : {mod[m].ns[x]} = StandsFor(m, x)

(* Between two calls of the host every module has been evaluated, with or  *)
(* without an exception, or has not been touched since it was loaded.      *)
NoHalfLinked ==
  stack = <<>> => \A m \in Module : mod[m].instantiated => mod[m].evaluated

(* "Prepare a module to be executed by resolving all the imported          *)
(* variables" (js_instantiate_module): a variable that an import resolves  *)
(* to exists by then.                                                      *)
VariableExists == Linking => Link(World, M).out # "unbound"
=============================================================================
