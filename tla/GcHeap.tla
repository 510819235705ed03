------------------------------- MODULE GcHeap -------------------------------
(***************************************************************************)
(* The heap of a JSRuntime: reference counts, recursive freeing, weak map  *)
(* records and the cycle collector JS_RunGC (quickjs.c).                   *)
(*                                                                         *)
(* A cell is a counted structure.  Objects (JSObject) are linked in        *)
(* rt->obj_list; the other counted structures that mark_children() walks   *)
(* through (shapes, closed variable references, function bytecode) are     *)
(* not, and are freed only by their count.  A cell owns the references     *)
(* held in its slots; a reference owned by anything outside the heap (the  *)
(* C stack, a JSContext, a C++ handle) is counted in "held".               *)
(*                                                                         *)
(* The recursion of mark_children() and of __JS_FreeValueRT() is a set of  *)
(* pending calls, one step per call, taken in any order: the order of the  *)
(* code (depth first, in property order) is one of them.                   *)
(***************************************************************************)
EXTENDS Integers, FiniteSets

CONSTANTS
  Obj,       \* structures on the object lists (JSObject)
  Aux,       \* counted structures that are not (JSShape, JSVarRef, bytecode)
  Strong,    \* the places <<cell, name>> that own a reference
  Record,    \* the places <<weak map, name>> of the records of a WeakMap
  Null,      \* no reference (a value that is not counted)
  MaxHeld    \* bound on the outside references to one cell

Cell == Obj \cup Aux
Edge == Strong \cup Record       \* e[1] is the owner of the reference

ASSUME HeapAssumption ==
  /\ IsFiniteSet(Obj) /\ IsFiniteSet(Aux) /\ Obj \cap Aux = {} /\ Null \notin Cell
  /\ IsFiniteSet(Strong) /\ \A e \in Strong : e[1] \in Cell
  /\ IsFiniteSet(Record) /\ \A e \in Record : e[1] \in Obj
  /\ Strong \cap Record = {}
  /\ MaxHeld \in Nat

VARIABLES
  status,    \* "free": no memory; "live"; "freeing": free_mark is set
  slot,      \* the reference each slot owns
  weakKey,   \* the key of a WeakMap record, which it does not count
  held,      \* the references owned from outside the heap
  rc,        \* header.ref_count
  mark,      \* gc_header.mark
  phase,     \* the pass of JS_RunGC in progress, "run" outside of it
  work,      \* pending calls of the mark function that change a count
  visit,     \* pending calls of gc_scan_obj, which changes none
  teardown   \* JS_FreeRuntime has started its last collection

vars == <<status, slot, weakKey, held, rc, mark, phase, work, visit, teardown>>

Status == {"free", "live", "freeing"}
Phase  == {"run", "decref", "scan", "restore", "sweep"}

Live     == {c \in Cell : status[c] = "live"}
LiveObj  == Live \cap Obj                \* obj_list and tmp_obj_list together

(* Slip: mark_children without its case for shapes and bytecode. *)
Slip_NoAuxChildren(c) == {e \in Edge : e[1] = c /\ c \in Obj /\ slot[e] # Null}

(* What mark_children() calls its mark function with. *)
Children(c) == {e \in Edge : e[1] = c /\ slot[e] # Null}

(* Slip: free_object_struct without reset_weak_ref. *)
Slip_NoWeakReset(e) == status[e[1]] = "freeing" /\ (slot[e] # Null \/ weakKey[e] # Null)

(* The references a structure being freed has still to give up: those in   *)
(* its own slots, and the records its weak reference list names.           *)
Doomed(e) ==
  \/ status[e[1]] = "freeing" /\ (slot[e] # Null \/ weakKey[e] # Null)
  \/ weakKey[e] # Null /\ status[weakKey[e]] = "freeing"

Draining == \E e \in Edge : Doomed(e)

(* A structure with nothing left to give up; in the sweep an object then   *)
(* waits on free_obj_list, everything else is returned to the allocator.   *)
Emptied(c) ==
  /\ status[c] = "freeing"
  /\ \A e \in Edge : Doomed(e) => e[1] # c /\ weakKey[e] # c

(* Slip: the sweep returns each object at once. *)
Slip_ReturnAtOnce(c) == Emptied(c)

Returnable(c) == Emptied(c) /\ (c \in Aux \/ phase # "sweep")

Mutating == phase = "run" /\ ~teardown /\ ~Draining /\ ~ \E c \in Cell : Returnable(c)

-----------------------------------------------------------------------------
(* Reference counting.                                                     *)

(* The counts once a reference to "old" is given up and one to "new" taken *)
Recount(new, old) ==
  [c \in Cell |-> rc[c] + (IF c = new THEN 1 ELSE 0) - (IF c = old THEN 1 ELSE 0)]

(* free_object does nothing during the sweep: the object stays where it is *)
FreedAtZero(c) == c \in Aux \/ phase # "sweep"

(* __JS_FreeValueRT, called for each cell whose count has just become zero *)
FreeDropped(old, counts) ==
  [c \in Cell |-> IF c = old /\ counts[c] = 0 /\ FreedAtZero(c)
                    THEN "freeing" ELSE status[c]]

(* One reference a freed structure owns is given up: free_property,        *)
(* js_free_shape, the class finalizer, or reset_weak_ref for a record      *)
(* whose key is being freed.  The structure it pointed to may follow.      *)
Release(e) ==
  LET counts == Recount(Null, slot[e]) IN
  /\ Doomed(e)
  /\ slot' = [slot EXCEPT ![e] = Null]
  /\ weakKey' = [weakKey EXCEPT ![e] = Null]
  /\ rc' = counts
  /\ status' = FreeDropped(slot[e], counts)
  /\ UNCHANGED <<held, mark, phase, work, visit, teardown>>

(* js_free_rt of a structure that has given up everything. *)
FreeStruct(c) ==
  /\ Returnable(c)
  /\ status' = [status EXCEPT ![c] = "free"]
  /\ mark' = [mark EXCEPT ![c] = 0]
  /\ UNCHANGED <<slot, weakKey, held, rc, phase, work, visit, teardown>>

-----------------------------------------------------------------------------
(* The operations of the program, all between collections.                 *)

(* JS_NewObjectFromShape, js_new_shape2, var reference creation: a new     *)
(* structure, owned by its creator.                                        *)
New(c) ==
  /\ Mutating /\ status[c] = "free" /\ MaxHeld > 0
  /\ status' = [status EXCEPT ![c] = "live"]
  /\ rc' = [rc EXCEPT ![c] = 1]
  /\ held' = [held EXCEPT ![c] = 1]
  /\ mark' = [mark EXCEPT ![c] = 0]
  /\ UNCHANGED <<slot, weakKey, phase, work, visit, teardown>>

Holds(v) == v # Null => held[v] > 0

(* JS_DupValue of a value in hand. *)
JS_DupValue(c) ==
  /\ Mutating /\ held[c] \in 1 .. MaxHeld - 1
  /\ held' = [held EXCEPT ![c] = @ + 1]
  /\ rc' = [rc EXCEPT ![c] = @ + 1]
  /\ UNCHANGED <<status, slot, weakKey, mark, phase, work, visit, teardown>>

(* JS_GetProperty: the value of a slot, with a reference for the caller. *)
JS_GetProperty(e) ==
  /\ Mutating /\ held[e[1]] > 0 /\ slot[e] # Null /\ held[slot[e]] < MaxHeld
  /\ held' = [held EXCEPT ![slot[e]] = @ + 1]
  /\ rc' = [rc EXCEPT ![slot[e]] = @ + 1]
  /\ UNCHANGED <<status, slot, weakKey, mark, phase, work, visit, teardown>>

(* JS_FreeValue of a value in hand. *)
JS_FreeValue(c) ==
  LET counts == Recount(Null, c) IN
  /\ Mutating /\ held[c] > 0
  /\ held' = [held EXCEPT ![c] = @ - 1]
  /\ rc' = counts
  /\ status' = FreeDropped(c, counts)
  /\ UNCHANGED <<slot, weakKey, mark, phase, work, visit, teardown>>

(* Structures that are not objects refer to each other in layers, without  *)
(* cycles: bytecode enters the constant pool of bytecode created later,    *)
(* and shapes, variables and async functions refer to objects.             *)
Layered(s) ==
  \A S \in SUBSET Aux : S # {} =>
    \E c \in S : \A e \in Edge : e[1] \in S => s[e] # c

(* set_value: the reference in hand moves into the slot, and the old value *)
(* of the slot is freed after the new one is in place.                     *)
set_value(e, v) ==
  LET counts == Recount(Null, slot[e]) IN
  /\ Mutating /\ held[e[1]] > 0 /\ Holds(v)
  /\ slot' = [slot EXCEPT ![e] = v]
  /\ Layered(slot')
  /\ held' = IF v = Null THEN held ELSE [held EXCEPT ![v] = @ - 1]
  /\ rc' = counts
  /\ status' = FreeDropped(slot[e], counts)
  /\ UNCHANGED <<weakKey, mark, phase, work, visit, teardown>>

(* js_map_set on a WeakMap: the record of the key is found or added, its   *)
(* old value is freed, and the new value is duplicated into it.            *)
js_map_set(e, k, v) ==
  LET counts == Recount(v, slot[e]) IN
  /\ Mutating /\ held[e[1]] > 0 /\ held[k] > 0 /\ Holds(v)
  /\ \/ weakKey[e] = k
     \/ weakKey[e] = Null /\ \A r \in Record : r[1] = e[1] => weakKey[r] # k
  /\ slot' = [slot EXCEPT ![e] = v]
  /\ weakKey' = [weakKey EXCEPT ![e] = k]
  /\ rc' = counts
  /\ status' = FreeDropped(slot[e], counts)
  /\ UNCHANGED <<held, mark, phase, work, visit, teardown>>

(* js_map_delete on a WeakMap: map_delete_record of the record of the key. *)
js_map_delete(e) ==
  LET counts == Recount(Null, slot[e]) IN
  /\ Mutating /\ held[e[1]] > 0 /\ weakKey[e] # Null /\ held[weakKey[e]] > 0
  /\ slot' = [slot EXCEPT ![e] = Null]
  /\ weakKey' = [weakKey EXCEPT ![e] = Null]
  /\ rc' = counts
  /\ status' = FreeDropped(slot[e], counts)
  /\ UNCHANGED <<held, mark, phase, work, visit, teardown>>

Mutator ==
  \/ \E c \in Cell : New(c) \/ JS_DupValue(c) \/ JS_FreeValue(c)
  \/ \E e \in Edge : JS_GetProperty(e)
  \/ \E e \in Strong, v \in Cell \cup {Null} : set_value(e, v)
  \/ \E e \in Record : js_map_delete(e)
  \/ \E e \in Record, k \in Obj, v \in Cell \cup {Null} : js_map_set(e, k, v)

-----------------------------------------------------------------------------
(* JS_RunGC.                                                               *)

(* The collection begins: js_trigger_gc above the threshold when an object *)
(* is allocated, std.gc(), or the last one, in JS_FreeRuntime.             *)
JS_RunGC ==
  /\ Mutating
  /\ phase' = "decref"
  /\ UNCHANGED <<status, slot, weakKey, held, rc, mark, work, visit>>
  /\ UNCHANGED teardown

(* Slip: JS_FreeRuntime without its JS_RunGC. *)
Slip_NoLastGC ==
  /\ Mutating /\ teardown' = TRUE
  /\ UNCHANGED <<status, slot, weakKey, held, rc, mark, phase, work, visit>>

JS_FreeRuntime ==
  /\ Mutating
  /\ phase' = "decref"
  /\ teardown' = TRUE
  /\ UNCHANGED <<status, slot, weakKey, held, rc, mark, work, visit>>

(* Slip: gc_decref_mark without its test of the mark. *)
Slip_DecrefTwice(e) ==
  LET c == slot[e] IN
  /\ phase = "decref" /\ e \in work
  /\ rc' = [rc EXCEPT ![c] = @ - 1]
  /\ mark' = [mark EXCEPT ![c] = 1]
  /\ work' = (work \ {e}) \cup Children(c)
  /\ UNCHANGED <<status, slot, weakKey, held, phase, visit, teardown>>

(* gc_decref: the loop over obj_list. *)
gc_decref(o) ==
  /\ phase = "decref" /\ work = {}
  /\ o \in LiveObj /\ mark[o] = 0
  /\ mark' = [mark EXCEPT ![o] = 1]
  /\ work' = Children(o)
  /\ UNCHANGED <<status, slot, weakKey, held, rc, phase, visit, teardown>>

(* gc_decref_child, with gc_decref_mark of the child. *)
gc_decref_child(e) ==
  LET c == slot[e] IN
  /\ phase = "decref" /\ e \in work
  /\ rc' = [rc EXCEPT ![c] = @ - 1]
  /\ mark' = [mark EXCEPT ![c] = 1]
  /\ work' = (work \ {e}) \cup (IF mark[c] = 0 THEN Children(c) ELSE {})
  /\ UNCHANGED <<status, slot, weakKey, held, phase, visit, teardown>>

gc_decref_end ==
  /\ phase = "decref" /\ work = {}
  /\ \A o \in LiveObj : mark[o] # 0
  /\ phase' = "scan"
  /\ UNCHANGED <<status, slot, weakKey, held, rc, mark, work, visit, teardown>>

(* Slip: gc_scan_obj without its test of the mark. *)
Slip_ScanAgain(c, w, p) ==
  IF rc[c] > 0
    THEN /\ mark' = [mark EXCEPT ![c] = 0] /\ work' = w \cup Children(c) /\ visit' = p
    ELSE /\ mark' = [mark EXCEPT ![c] = 2] /\ work' = w /\ visit' = p \cup Children(c)

(* gc_scan_obj: the structure is kept (gc_scan_incref) when something that *)
(* is not a candidate still refers to it, else it becomes a member of a    *)
(* cycle until proven otherwise.                                           *)
gc_scan_obj(c, w, p) ==
  IF mark[c] # 1
    THEN /\ mark' = mark /\ work' = w /\ visit' = p
    ELSE IF rc[c] > 0
           THEN /\ mark' = [mark EXCEPT ![c] = 0]
                /\ work' = w \cup Children(c)
                /\ visit' = p
           ELSE /\ mark' = [mark EXCEPT ![c] = 2]
                /\ work' = w
                /\ visit' = p \cup Children(c)

(* gc_scan: the first loop over tmp_obj_list ... *)
gc_scan(o) ==
  /\ phase = "scan" /\ work = {} /\ visit = {}
  /\ o \in LiveObj /\ mark[o] = 1
  /\ gc_scan_obj(o, {}, {})
  /\ UNCHANGED <<status, slot, weakKey, held, rc, phase, teardown>>

(* ... gc_scan_obj of a child ... *)
gc_scan_child(e) ==
  /\ phase = "scan" /\ e \in visit
  /\ gc_scan_obj(slot[e], work, visit \ {e})
  /\ UNCHANGED <<status, slot, weakKey, held, rc, phase, teardown>>

(* Slip: gc_scan_incref does not go on to the children. *)
Slip_KeepOneLevel(e) ==
  LET c == slot[e] IN
  /\ phase = "scan" /\ e \in work
  /\ rc' = [rc EXCEPT ![c] = @ + 1]
  /\ mark' = [mark EXCEPT ![c] = 0]
  /\ work' = work \ {e}
  /\ UNCHANGED <<status, slot, weakKey, held, phase, visit, teardown>>

(* Slip: gc_scan_incref resets the mark only where it moves a list link. *)
Slip_MarkLeft(e) ==
  LET c == slot[e] IN
  /\ phase = "scan" /\ e \in work
  /\ rc' = [rc EXCEPT ![c] = @ + 1]
  /\ mark' = IF mark[c] = 2 THEN [mark EXCEPT ![c] = 0] ELSE mark
  /\ work' = (work \ {e}) \cup (IF mark[c] # 0 THEN Children(c) ELSE {})
  /\ UNCHANGED <<status, slot, weakKey, held, phase, visit, teardown>>

(* ... and gc_scan_incref_child, with gc_scan_incref of the child. *)
gc_scan_incref_child(e) ==
  LET c == slot[e] IN
  /\ phase = "scan" /\ e \in work
  /\ rc' = [rc EXCEPT ![c] = @ + 1]
  /\ mark' = [mark EXCEPT ![c] = 0]
  /\ work' = (work \ {e}) \cup (IF mark[c] # 0 THEN Children(c) ELSE {})
  /\ UNCHANGED <<status, slot, weakKey, held, phase, visit, teardown>>

gc_scan_end ==
  /\ phase = "scan" /\ work = {} /\ visit = {}
  /\ \A o \in LiveObj : mark[o] # 1
  /\ phase' = "restore"
  /\ UNCHANGED <<status, slot, weakKey, held, rc, mark, work, visit, teardown>>

(* gc_scan: the second loop over tmp_obj_list, gc_scan_obj2 of a member ... *)
gc_scan2(o) ==
  /\ phase = "restore" /\ work = {}
  /\ o \in LiveObj /\ mark[o] = 2
  /\ mark' = [mark EXCEPT ![o] = 3]
  /\ work' = Children(o)
  /\ UNCHANGED <<status, slot, weakKey, held, rc, phase, visit, teardown>>

(* Slip: the pass that restores counts restores one per structure. *)
Slip_RestoreOnce(e) ==
  LET c == slot[e] IN
  /\ phase = "restore" /\ e \in work
  /\ rc' = [rc EXCEPT ![c] = IF mark[c] = 2 THEN @ + 1 ELSE @]
  /\ mark' = IF mark[c] = 2 THEN [mark EXCEPT ![c] = 3] ELSE mark
  /\ work' = (work \ {e}) \cup (IF mark[c] = 2 THEN Children(c) ELSE {})
  /\ UNCHANGED <<status, slot, weakKey, held, phase, visit, teardown>>

(* Slip: it raises the mark without testing it. *)
Slip_MarkRaised(e) ==
  LET c == slot[e] IN
  /\ phase = "restore" /\ e \in work
  /\ rc' = [rc EXCEPT ![c] = @ + 1]
  /\ mark' = [mark EXCEPT ![c] = @ + 1]
  /\ work' = (work \ {e}) \cup (IF mark[c] = 2 THEN Children(c) ELSE {})
  /\ UNCHANGED <<status, slot, weakKey, held, phase, visit, teardown>>

(* ... and gc_scan_incref_child2, with gc_scan_obj2 of the child. *)
gc_scan_incref_child2(e) ==
  LET c == slot[e] IN
  /\ phase = "restore" /\ e \in work
  /\ rc' = [rc EXCEPT ![c] = @ + 1]
  /\ mark' = IF mark[c] = 2 THEN [mark EXCEPT ![c] = 3] ELSE mark
  /\ work' = (work \ {e}) \cup (IF mark[c] = 2 THEN Children(c) ELSE {})
  /\ UNCHANGED <<status, slot, weakKey, held, phase, visit, teardown>>

gc_scan2_end ==
  /\ phase = "restore" /\ work = {}
  /\ \A o \in LiveObj : mark[o] # 2
  /\ phase' = "sweep"
  /\ UNCHANGED <<status, slot, weakKey, held, rc, mark, work, visit, teardown>>

(* gc_free_cycles: free_object2 of the next member of tmp_obj_list, once   *)
(* the previous one has given up all it owned.                             *)
gc_free_cycles(o) ==
  /\ phase = "sweep" /\ ~Draining /\ ~ \E c \in Aux : Returnable(c)
  /\ o \in LiveObj /\ mark[o] # 0
  /\ status' = [status EXCEPT ![o] = "freeing"]
  /\ UNCHANGED <<slot, weakKey, held, rc, mark, phase, work, visit, teardown>>

(* gc_free_cycles: the structures of free_obj_list are freed, and the      *)
(* program goes on.                                                        *)
gc_free_cycles_end ==
  /\ phase = "sweep" /\ ~Draining /\ ~ \E c \in Aux : Returnable(c)
  /\ \A o \in LiveObj : mark[o] = 0
  /\ phase' = "run"
  /\ status' = [c \in Cell |-> IF status[c] = "freeing" THEN "free" ELSE status[c]]
  /\ mark' = [c \in Cell |-> IF status[c] = "freeing" THEN 0 ELSE mark[c]]
  /\ UNCHANGED <<slot, weakKey, held, rc, work, visit, teardown>>

Collector ==
  \/ \E o \in Obj : gc_decref(o) \/ gc_scan(o) \/ gc_scan2(o) \/ gc_free_cycles(o)
  \/ \E e \in Edge : \/ gc_decref_child(e) \/ gc_scan_child(e)
                     \/ gc_scan_incref_child(e) \/ gc_scan_incref_child2(e)
  \/ gc_decref_end \/ gc_scan_end \/ gc_scan2_end \/ gc_free_cycles_end

Freeing ==
  \/ \E e \in Edge : Release(e)
  \/ \E c \in Cell : FreeStruct(c)

(* After the last collection nothing runs. *)
Finished == teardown /\ phase = "run" /\ UNCHANGED vars

Init ==
  /\ status = [c \in Cell |-> "free"]
  /\ slot = [e \in Edge |-> Null]
  /\ weakKey = [e \in Edge |-> Null]
  /\ held = [c \in Cell |-> 0]
  /\ rc = [c \in Cell |-> 0]
  /\ mark = [c \in Cell |-> 0]
  /\ phase = "run"
  /\ work = {}
  /\ visit = {}
  /\ teardown = FALSE

Next == Mutator \/ JS_RunGC \/ JS_FreeRuntime \/ Collector \/ Freeing \/ Finished

Spec == Init /\ [][Next]_vars

(* JS_RunGC and the recursion of a free run to their end in the caller. *)
FairSpec == Spec /\ WF_vars(Collector) /\ WF_vars(Freeing)

-----------------------------------------------------------------------------
(* Counts are integers, marks are 0 .. 3, and slots refer to structures.   *)
TypeOK ==
  /\ status \in [Cell -> Status]
  /\ slot \in [Edge -> Cell \cup {Null}]
  /\ weakKey \in [Edge -> Obj \cup {Null}]
  /\ held \in [Cell -> 0 .. MaxHeld]
  /\ rc \in [Cell -> Int]
  /\ mark \in [Cell -> 0 .. 3]
  /\ phase \in Phase
  /\ work \subseteq Edge
  /\ visit \subseteq Edge
  /\ teardown \in BOOLEAN

(* The references that the pass in progress has subtracted from the counts *)
(* of what they refer to and not added back.                               *)
Uncounted(e) ==
  CASE phase = "decref"  -> mark[e[1]] # 0 /\ e \notin work
    [] phase = "scan"    -> mark[e[1]] # 0 \/ e \in work
    [] phase = "restore" -> mark[e[1]] \in {1, 2} \/ e \in work
    [] OTHER             -> FALSE

CountedRefs(c) == {e \in Edge : slot[e] = c /\ ~Uncounted(e)}

(* A count is never lost or invented: outside a collection header.ref_count *)
(* is the number of references, and inside it differs by exactly the       *)
(* references gc_decref has taken off and gc_scan has not put back.        *)
RefCountExact ==
  \A c \in Live : rc[c] = held[c] + Cardinality(CountedRefs(c))

(* No reference the program can follow leads to freed memory: what is held *)
(* from outside is intact, what an intact structure refers to is intact,   *)
(* and even a structure being freed refers to memory not yet returned.     *)
Intact(c) == status[c] = "live" /\ (phase = "sweep" => mark[c] = 0)

NoDangling ==
  /\ \A c \in Cell : held[c] > 0 => Intact(c)
  /\ \A e \in Edge : slot[e] # Null =>
       /\ status[slot[e]] # "free"
       /\ Intact(e[1]) => Intact(slot[e])

(* A WeakMap record never names a key whose memory is gone, and at any     *)
(* moment the program runs its key is a live object.                       *)
WeakKeysLive ==
  \A e \in Edge : weakKey[e] # Null =>
    /\ status[weakKey[e]] # "free"
    /\ Mutating => status[weakKey[e]] = "live"

(* What survives a collection is unmarked: a mark left behind would make   *)
(* the next gc_decref skip the structure.                                  *)
SurvivorsUnmarked == phase = "run" => \A c \in Live : mark[c] = 0

(* The assertions of gc_decref_child (ref_count > 0) and gc_free_cycles    *)
(* (mark == 3).                                                            *)
CollectorAssertions ==
  /\ phase = "decref" => \A e \in work : rc[slot[e]] > 0
  /\ phase = "sweep" => \A o \in LiveObj : mark[o] \in {0, 3}

(* A set of structures that nothing outside of it refers to. *)
Unreachable(S) ==
  /\ \A c \in S : held[c] = 0
  /\ \A e \in Edge : slot[e] \in S => e[1] \in S

(* Every cycle is found: when the sweep begins, each structure that cannot *)
(* be reached is marked as a member of a cycle, also an object whose       *)
(* freeing an earlier sweep had put off.                                   *)
CollectionComplete ==
  [][phase = "restore" /\ phase' = "sweep" =>
       \A S \in SUBSET Live : Unreachable(S) => \A c \in S : mark[c] = 3]_vars

(* The assertion of JS_FreeRuntime: with every outside reference returned, *)
(* its one collection leaves no object on obj_list.                        *)
FreeRuntimeListEmpty ==
  teardown /\ phase = "run" /\ (\A c \in Cell : held[c] = 0) => LiveObj = {}

(* A collection comes to its end. *)
CollectionEnds == phase # "run" ~> phase = "run"

Promise == INSTANCE ReachableHeap WITH exists <- {c \in Cell : status[c] # "free"}

(* Counting and collecting are invisible to the program: the heap behaves  *)
(* as one from which only unreachable structures disappear.                *)
ImplementsReachableHeap == Promise!Spec
=============================================================================
