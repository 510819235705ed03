---------------------------- MODULE ValueHandles ----------------------------
(***************************************************************************)
(* The C++ wrappers of the engine: quickjspp.hpp (qjs) and easyBinding.hpp *)
(* (jsb).                                                                  *)
(*                                                                         *)
(* A Value is a JSValue and a context; it frees its reference when it is   *)
(* destroyed, unless its context is gone because the reference was given   *)
(* away.  References are given to the properties of objects, to the class  *)
(* prototype of the context and to the exports of a C module, which are    *)
(* kept by the wrapper until the module is evaluated.  The program is any  *)
(* sequence of these operations; in the end its Values are destroyed, then *)
(* the context, then the runtime.                                          *)
(*                                                                         *)
(* What a Value does once its context is gone is only defined while the    *)
(* object is there; objects have one property, modules one export, and a   *)
(* module that is freed leaves an address no later module has.             *)
(***************************************************************************)
EXTENDS Integers, FiniteSets, SequencesExt

CONSTANTS
  Handle,       \* Values of the program
  Object,       \* objects of the engine
  None,         \* no object
  global,       \* the global object
  MaxModules,   \* bound on the modules added
  MaxLost       \* bound on the references that nobody will free

ASSUME HandleAssumption ==
  /\ IsFiniteSet(Handle) /\ IsFiniteSet(Object) /\ {MaxModules, MaxLost} \subseteq Nat
  /\ None \notin Object /\ global \in Object

VARIABLES
  wrapper,   \* which of the two headers the program includes
  handle,    \* Values: their object, whether they have a context, whether they hold
             \* a reference (a copy of a Value without context has one all the same)
  rc,        \* reference counts
  prop,      \* the property of each object
  slot,      \* JSContext: global_obj and class_proto
  modules,   \* Context::modules: the export, what has become of the module
  lost,      \* references that nobody will free, of each object
  phase      \* "run", "context" freed, "runtime" freed

vars == <<wrapper, handle, rc, prop, slot, modules, lost, phase>>

Gone == [v |-> None, ctx |-> FALSE, owns |-> FALSE]
Slot == {"global", "proto"}

TypeOK ==
  /\ wrapper \in {"qjs", "jsb"} /\ phase \in {"run", "context", "runtime"}
  /\ handle \in [Handle -> [v : Object \cup {None}, ctx : BOOLEAN, owns : BOOLEAN]]
  /\ rc \in [Object -> Nat] /\ prop \in [Object -> Object \cup {None}]
  /\ slot \in [Slot -> Object \cup {None}] /\ lost \in [Object -> Nat]
  /\ modules \in Seq([value : Object, given : BOOLEAN, freed : BOOLEAN])

Init ==
  /\ wrapper \in {"qjs", "jsb"} /\ phase = "run"
  /\ handle = [h \in Handle |-> Gone]
  /\ rc = [o \in Object |-> IF o = global THEN 1 ELSE 0]
  /\ prop = [o \in Object |-> None]
  /\ slot = [s \in Slot |-> IF s = "global" THEN global ELSE None]
  /\ modules = <<>> /\ lost = [o \in Object |-> 0]

-----------------------------------------------------------------------------
(* The engine's side.                                                      *)

World == [rc |-> rc, prop |-> prop]
Becomes(w) == rc' = w.rc /\ prop' = w.prop

JS_DupValue(w, o) == [w EXCEPT !.rc[o] = @ + 1]

(* free_object: objects that nobody refers to let go of their properties;  *)
(* each does so once.                                                      *)
Dead(w) == {o \in Object : w.rc[o] = 0 /\ w.prop[o] # None}

LetGo(w) ==
  IF Dead(w) = {} THEN w
  ELSE LET o == CHOOSE o \in Dead(w) : TRUE
       IN [w EXCEPT !.prop[o] = None, !.rc[w.prop[o]] = @ - 1]

free_object(w) ==
  LET freed[n \in Nat] == IF n = 0 THEN w ELSE LetGo(freed[n - 1])
  IN freed[Cardinality(Object)]

JS_FreeValue(w, o) ==
  IF o = None THEN w ELSE free_object([w EXCEPT !.rc[o] = @ - 1])

(* JS_SetPropertyStr takes the reference, and frees what was there.        *)
JS_SetPropertyStr(w, o, val) ==
  JS_FreeValue([w EXCEPT !.prop[o] = val], w.prop[o])

(* Objects that can be reached from those of S, when their properties are p. *)
ReachedOnce(p, S) == S \cup ({p[o] : o \in S} \ {None})
Reached(p, S) ==
  LET reach[n \in Nat] == IF n = 0 THEN S ELSE ReachedOnce(p, reach[n - 1])
  IN reach[Cardinality(Object)]

(* JS_RunGC: an object stays if a reference that is no property leads to it. *)
JS_RunGC ==
  LET held == {o \in Object : rc[o] > Cardinality({q \in Object : prop[q] = o})}
      kept == Reached(prop, held)
      from(o) == Cardinality({q \in Object \ kept : prop[q] = o})
  IN [rc   |-> [o \in Object |-> IF o \in kept THEN rc[o] - from(o) ELSE 0],
      prop |-> [o \in Object |-> IF o \in kept THEN prop[o] ELSE None]]

-----------------------------------------------------------------------------
(* Values, in both headers.                                                *)

Free(h) == handle[h] = Gone
Alive(h) == handle[h].v # None
Usable(h) == Alive(h) /\ handle[h].ctx
Fresh(o) == rc[o] = 0 /\ \A h \in Handle : handle[h].v # o

Value(o) == [v |-> o, ctx |-> TRUE, owns |-> TRUE]

(* release: the caller has the reference, the Value keeps the object. *)
release(x) == [x EXCEPT !.ctx = FALSE, !.owns = FALSE]

newObject(h) ==
  \E o \in Object :
    /\ Free(h) /\ Fresh(o)
    /\ handle' = [handle EXCEPT ![h] = Value(o)]
    /\ Becomes(JS_DupValue(World, o))
    /\ UNCHANGED <<wrapper, slot, modules, lost, phase>>

global_(h) ==
  /\ Free(h)
  /\ handle' = [handle EXCEPT ![h] = Value(slot["global"])]
  /\ Becomes(JS_DupValue(World, slot["global"]))
  /\ UNCHANGED <<wrapper, slot, modules, lost, phase>>

(* Value(const Value&): the copy of a Value without context duplicates the *)
(* reference and will not free it.                                         *)
Copied(x) == [x EXCEPT !.owns = TRUE]
Unfreed == {h \in Handle : handle[h].owns /\ ~handle[h].ctx}
Copyable(x) ==
  /\ x.v # None /\ rc[x.v] > 0
  /\ x.ctx \/ SumFunction(lost) + Cardinality(Unfreed) < MaxLost

copy(h, h1) ==
  /\ Free(h) /\ Copyable(handle[h1])
  /\ handle' = [handle EXCEPT ![h] = Copied(handle[h1])]
  /\ Becomes(JS_DupValue(World, handle[h1].v))
  /\ UNCHANGED <<wrapper, slot, modules, lost, phase>>

(* Value(Value&&): the contexts are exchanged. *)
move(h, h1) ==
  /\ Free(h) /\ Alive(h1)
  /\ handle' = [handle EXCEPT ![h] = handle[h1], ![h1] = release(@)]
  /\ UNCHANGED <<wrapper, rc, prop, slot, modules, lost, phase>>

(* ~Value: what a Value without context holds is held for ever. *)
Destroyed(w, x) == IF x.ctx THEN JS_FreeValue(w, x.v) ELSE w
LostWith(x) == IF x.owns /\ ~x.ctx THEN [lost EXCEPT ![x.v] = @ + 1] ELSE lost

destroy(h) ==
  /\ Alive(h)
  /\ handle' = [handle EXCEPT ![h] = Gone]
  /\ Becomes(Destroyed(World, handle[h]))
  /\ lost' = LostWith(handle[h])
  /\ UNCHANGED <<wrapper, slot, modules, phase>>

(* property_proxy, getProperty: the property's value, duplicated. *)
getProperty(h, h1) ==
  /\ Free(h) /\ Usable(h1) /\ prop[handle[h1].v] # None
  /\ handle' = [handle EXCEPT ![h] = Value(prop[handle[h1].v])]
  /\ Becomes(JS_DupValue(World, prop[handle[h1].v]))
  /\ UNCHANGED <<wrapper, slot, modules, lost, phase>>

-----------------------------------------------------------------------------
(* quickjspp.hpp only.                                                     *)

(* A reference to its object that h gives away: its own, or a copy's; what *)
(* becomes of the counts and the Values.                                   *)
Givings(h) ==
  IF ~Alive(h) \/ rc[handle[h].v] = 0 THEN {}
  ELSE {<<JS_DupValue(World, handle[h].v), handle>>}
       \cup (IF handle[h].owns THEN {<<World, [handle EXCEPT ![h] = release(@)]>>} ELSE {})

(* o["x"] = v.release() *)
assign_property(h, h1) ==
  /\ wrapper = "qjs" /\ Usable(h) /\ h # h1
  /\ \E g \in Givings(h1) :
       /\ handle' = g[2]
       /\ Becomes(JS_SetPropertyStr(g[1], handle[h].v, handle[h1].v))
  /\ UNCHANGED <<wrapper, slot, modules, lost, phase>>

(* registerClass: JS_SetClassProto takes the reference. *)
registerClass(h) ==
  /\ wrapper = "qjs"
  /\ \E g \in Givings(h) :
       /\ handle' = g[2]
       /\ Becomes(JS_FreeValue(g[1], slot["proto"]))
  /\ slot' = [slot EXCEPT !["proto"] = handle[h].v]
  /\ UNCHANGED <<wrapper, modules, lost, phase>>

(* addModule, add *)
addModule(h) ==
  /\ wrapper = "qjs" /\ Len(modules) < MaxModules
  /\ \E g \in Givings(h) : handle' = g[2] /\ Becomes(g[1])
  /\ modules' = Append(modules, [value |-> handle[h].v, given |-> FALSE, freed |-> FALSE])
  /\ UNCHANGED <<wrapper, slot, lost, phase>>

(* Slip: every evaluation initialises the module. *)
Slip_Initialised(k) == ~modules[k].freed

(* The module is imported by what eval runs: its initialisation gives the  *)
(* export to a variable of the module.  js_evaluate_module calls it once.  *)
Uninitialised(k) == ~modules[k].given /\ ~modules[k].freed

(* Setting a variable takes the reference, and frees what was there. *)
eval(k) ==
  /\ wrapper = "qjs" /\ Uninitialised(k)
  /\ Becomes(IF modules[k].given THEN JS_FreeValue(World, modules[k].value) ELSE World)
  /\ modules' = [modules EXCEPT ![k].given = TRUE]
  /\ UNCHANGED <<wrapper, handle, slot, lost, phase>>

(* An evaluation fails: modules not evaluated are freed, those the program *)
(* has added included; their exports stay with the wrapper.                *)
eval_fails ==
  /\ wrapper = "qjs" /\ \E k \in DOMAIN modules : Uninitialised(k)
  /\ modules' = [k \in DOMAIN modules |->
                   [modules[k] EXCEPT !.freed = @ \/ ~modules[k].given]]
  /\ UNCHANGED <<wrapper, handle, rc, prop, slot, lost, phase>>

-----------------------------------------------------------------------------
(* easyBinding.hpp only.                                                   *)

(* operator=(Value rhs): h and a copy of h1 are exchanged, and the copy,   *)
(* which now has what h had, is destroyed.                                 *)
assign(h, h1) ==
  /\ wrapper = "jsb" /\ Alive(h) /\ Copyable(handle[h1])
  /\ handle' = [handle EXCEPT ![h] = Copied(handle[h1])]
  /\ Becomes(Destroyed(JS_DupValue(World, handle[h1].v), handle[h]))
  /\ lost' = LostWith(handle[h])
  /\ UNCHANGED <<wrapper, slot, modules, phase>>

(* setProperty duplicates the reference that the property takes. *)
setProperty(h, h1) ==
  /\ wrapper = "jsb" /\ Usable(h) /\ Alive(h1) /\ rc[handle[h1].v] > 0
  /\ Becomes(JS_SetPropertyStr(JS_DupValue(World, handle[h1].v), handle[h].v, handle[h1].v))
  /\ UNCHANGED <<wrapper, handle, slot, modules, lost, phase>>

(* JSBClass: a constructor c and a prototype p, each a property of the     *)
(* other, and the constructor as prototype of the class.                   *)
JSBClass(h, h1) ==
  \E c, p \in Object :
    /\ wrapper = "jsb" /\ Free(h) /\ Free(h1) /\ h # h1
    /\ Fresh(c) /\ Fresh(p) /\ c # p
    /\ handle' = [handle EXCEPT ![h] = Value(c), ![h1] = Value(p)]
    /\ LET w == [rc   |-> [rc EXCEPT ![c] = 3, ![p] = 2],
                 prop |-> [prop EXCEPT ![c] = p, ![p] = c]]
       IN Becomes(JS_FreeValue(w, slot["proto"]))
    /\ slot' = [slot EXCEPT !["proto"] = c]
    /\ UNCHANGED <<wrapper, modules, lost, phase>>

-----------------------------------------------------------------------------
(* The end.                                                                *)

FreeAll(w, s) ==
  LET freed[n \in 0 .. Len(s)] == IF n = 0 THEN w ELSE JS_FreeValue(freed[n - 1], s[n])
  IN freed[Len(s)]

(* The slots of the context that JS_FreeContext frees. *)
FreedSlots == <<slot["global"], slot["proto"]>>

(* JS_FreeContext, called by qjs's ~Context, and by JS_FreeRuntime for the *)
(* contexts that are left, as those of jsb are.                            *)
JS_FreeContext ==
  /\ phase = "run" /\ \A h \in Handle : Free(h)
  /\ LET vals == [k \in DOMAIN modules |->
                    IF modules[k].given /\ ~modules[k].freed THEN modules[k].value ELSE None]
     IN Becomes(FreeAll(FreeAll(World, vals), FreedSlots))
  /\ modules' = [k \in DOMAIN modules |-> [modules[k] EXCEPT !.freed = TRUE]]
  /\ slot' = [s \in Slot |-> None] /\ phase' = "context"
  /\ UNCHANGED <<wrapper, handle, lost>>

JS_FreeRuntime ==
  /\ phase = "context" /\ Becomes(JS_RunGC) /\ phase' = "runtime"
  /\ UNCHANGED <<wrapper, handle, slot, modules, lost>>

Use(h) ==
  \/ newObject(h) \/ global_(h) \/ destroy(h) \/ registerClass(h) \/ addModule(h)
  \/ \E h1 \in Handle :
       \/ copy(h, h1) \/ move(h, h1) \/ getProperty(h, h1) \/ assign_property(h, h1)
       \/ assign(h, h1) \/ setProperty(h, h1) \/ JSBClass(h, h1)

Next ==
  \/ phase = "run" /\ \E h \in Handle : Use(h)
  \/ phase = "run" /\ \E k \in DOMAIN modules : eval(k)
  \/ phase = "run" /\ eval_fails
  \/ JS_FreeContext
  \/ JS_FreeRuntime

Spec == Init /\ [][Next]_vars

-----------------------------------------------------------------------------
Count(S) == Cardinality(S)

(* References to o by owner: Values, properties, the context, the exports  *)
(* and the variables of modules, nobody.                                   *)
Owners(o) ==
  Count({h \in Handle : handle[h].v = o /\ handle[h].owns})
  + Count({q \in Object : prop[q] = o}) + Count({s \in Slot : slot[s] = o})
  + Count({k \in DOMAIN modules : modules[k].value = o
                                    /\ (modules[k].given => ~modules[k].freed)})
  + lost[o]

(* Whatever the program copies, moves, assigns and gives away, each        *)
(* reference has one owner: no object is freed that a Value, a property,   *)
(* the context or a module still has, and none is counted twice.  A slip   *)
(* in one operation shows only when a later one frees.                     *)
OneOwner ==
  /\ \A o \in Object : rc[o] = Owners(o)
  /\ \A h \in Handle : handle[h].ctx => handle[h].owns

(* When the runtime is freed, the objects that are left, for which         *)
(* JS_FreeRuntime asserts that there are none, are those reached from the  *)
(* exports of modules that were never initialised, and from copies of      *)
(* Values whose reference had been given away.                             *)
OnlyLostLeft ==
  phase = "runtime" =>
    {o \in Object : rc[o] > 0}
      = Reached(prop, {o \in Object : lost[o] > 0} \cup
                      {modules[k].value : k \in {j \in DOMAIN modules : ~modules[j].given}})

(* Nothing is freed early, and what is never freed is accounted for.       *)
OwnedOrLost == OneOwner /\ OnlyLostLeft

-----------------------------------------------------------------------------
(* For TLC: Values are alike, and so are the objects but the global one.   *)
Alike == Permutations(Handle) \cup Permutations(Object \ {global})
=============================================================================
