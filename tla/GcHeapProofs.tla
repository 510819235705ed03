---------------------------- MODULE GcHeapProofs ----------------------------
(***************************************************************************)
(* Proofs about GcHeap for any finite heap: the counts are exact, no       *)
(* reference dangles, the assertions of the collector hold, every cycle is *)
(* found, and the heap implements one without counts (ReachableHeap).      *)
(***************************************************************************)
EXTENDS GcHeap, FiniteSetTheorems, TLAPS

-----------------------------------------------------------------------------
(* The inductive invariant.                                                *)

(* Memory that is not allocated is not referred to and owns nothing. *)
FreeIsBlank ==
  \A c \in Cell : status[c] = "free" =>
    /\ held[c] = 0 /\ mark[c] = 0
    /\ \A e \in Edge : /\ slot[e] # c /\ weakKey[e] # c
                       /\ e[1] = c => slot[e] = Null /\ weakKey[e] = Null

(* Structures that are not objects form no cycle among themselves. *)
AuxLayered == Layered(slot)

(* The counts of every cell, allocated or not. *)
Exact == \A c \in Cell : rc[c] = held[c] + Cardinality(CountedRefs(c))

(* Structures are freed between or at the end of collections, and but for  *)
(* the members of a cycle only when the count is zero.                     *)
FreeingDead ==
  \A c \in Cell : status[c] = "freeing" =>
    /\ phase \in {"run", "sweep"}
    /\ c \in Aux \/ phase = "run" => rc[c] = 0
    /\ c \in Obj /\ phase = "sweep" => mark[c] = 3

(* Only an object can stay live without a reference to it. *)
AuxReferred ==
  \A c \in Aux : status[c] = "live" => held[c] > 0 \/ \E e \in Edge : slot[e] = c

(* What each pass of JS_RunGC has established so far. *)
RunPass ==
  phase = "run" => work = {} /\ visit = {} /\ \A c \in Cell : mark[c] = 0

DecrefPass ==
  phase = "decref" =>
    /\ visit = {}
    /\ \A c \in Cell : mark[c] \in {0, 1}
    /\ \A e \in work : mark[e[1]] = 1 /\ slot[e] # Null
    /\ \A c \in Aux : mark[c] = 1 => \E e \in Edge : slot[e] = c /\ mark[e[1]] = 1

ScanPass ==
  phase = "scan" =>
    /\ \A c \in Cell : mark[c] \in {0, 1, 2}
    /\ \A c \in Cell : mark[c] = 2 => rc[c] = 0
    /\ \A e \in work : mark[e[1]] = 0 /\ slot[e] # Null
    /\ \A e \in visit : slot[e] # Null
    /\ \A c \in Aux : mark[c] = 1 =>
         \E e \in Edge : slot[e] = c /\ (mark[e[1]] = 1 \/ e \in visit \/ e \in work)

RestorePass ==
  phase = "restore" =>
    /\ visit = {}
    /\ \A c \in Cell : mark[c] \in {0, 2, 3}
    /\ \A c \in Cell : mark[c] # 0 => held[c] = 0
    /\ \A e \in work : mark[e[1]] = 3 /\ slot[e] # Null
    /\ \A e \in Edge : mark[e[1]] = 0 /\ slot[e] # Null => mark[slot[e]] = 0
    /\ \A c \in Aux : mark[c] = 2 =>
         \E e \in Edge : slot[e] = c /\ (mark[e[1]] = 2 \/ e \in work)

SweepPass ==
  phase = "sweep" =>
    /\ work = {} /\ visit = {}
    /\ \A c \in Cell : mark[c] \in {0, 3}

IInv ==
  /\ TypeOK
  /\ Exact
  /\ NoDangling
  /\ FreeIsBlank /\ AuxLayered /\ FreeingDead /\ AuxReferred
  /\ RunPass /\ DecrefPass /\ ScanPass /\ RestorePass /\ SweepPass

-----------------------------------------------------------------------------
(* Sets of references are finite, and counting them is counting one by one. *)

LEMMA EdgeFacts ==
  /\ IsFiniteSet(Edge)
  /\ \A e \in Edge : e[1] \in Cell
  /\ \A e \in Record : e \in Edge /\ e[1] \in Obj
  /\ \A e \in Strong : e \in Edge
BY HeapAssumption, FS_Union DEF Edge, Cell

LEMMA RefSetCard ==
  ASSUME NEW S \in SUBSET Edge
  PROVE  /\ IsFiniteSet(S)
         /\ Cardinality(S) \in Nat
         /\ Cardinality(S) = 0 <=> S = {}
BY EdgeFacts, FS_Subset, FS_CardinalityType, FS_EmptySet

LEMMA RefSetAdd ==
  ASSUME NEW S \in SUBSET Edge, NEW e \in Edge, e \notin S
  PROVE  Cardinality(S \cup {e}) = Cardinality(S) + 1
BY RefSetCard, FS_AddElement

LEMMA RefSetRemove ==
  ASSUME NEW S \in SUBSET Edge, NEW e \in S
  PROVE  Cardinality(S \ {e}) = Cardinality(S) - 1
BY RefSetCard, FS_RemoveElement

(* When one place changes from f[e] to v, f[e] has one reference less and  *)
(* v one more.                                                             *)
LEMMA RefMove ==
  ASSUME NEW f \in [Edge -> Cell \cup {Null}], NEW e \in Edge,
         NEW v \in Cell \cup {Null}, NEW c \in Cell
  PROVE  Cardinality({x \in Edge : [f EXCEPT ![e] = v][x] = c})
           = Cardinality({x \in Edge : f[x] = c})
             + (IF c = v THEN 1 ELSE 0) - (IF c = f[e] THEN 1 ELSE 0)
<1> DEFINE old == {x \in Edge : f[x] = c}
           new == {x \in Edge : [f EXCEPT ![e] = v][x] = c}
<1>0. old \in SUBSET Edge /\ new \in SUBSET Edge
  OBVIOUS
<1>00. Cardinality(old) \in Nat /\ Cardinality(new) \in Nat
  BY <1>0, RefSetCard
<1>1. CASE c = v /\ c # f[e]
  <2>1. new = old \cup {e} /\ e \notin old
    BY <1>1
  <2> QED BY <2>1, <1>0, <1>00, <1>1, RefSetAdd
<1>2. CASE c # v /\ c = f[e]
  <2>1. new = old \ {e} /\ e \in old
    BY <1>2
  <2> QED BY <2>1, <1>0, <1>00, <1>2, RefSetRemove
<1>3. CASE (c = v) <=> (c = f[e])
  <2>1. new = old
    BY <1>3
  <2> QED BY <2>1, <1>00, <1>3
<1> QED BY <1>1, <1>2, <1>3

-----------------------------------------------------------------------------
(* Type correctness.                                                       *)

LEMMA TypeInit == Init => TypeOK
<1> USE HeapAssumption, EdgeFacts DEF TypeOK, Status, Phase
<1>1. 0 \in 0 .. MaxHeld /\ 0 \in 0 .. 3
  OBVIOUS
<1> SUFFICES ASSUME Init PROVE TypeOK
  OBVIOUS
<1>2. /\ status \in [Cell -> Status] /\ slot \in [Edge -> Cell \cup {Null}]
      /\ weakKey \in [Edge -> Obj \cup {Null}]
  BY DEF Init
<1>3. /\ held \in [Cell -> 0 .. MaxHeld] /\ rc \in [Cell -> Int]
      /\ mark \in [Cell -> 0 .. 3]
  BY <1>1 DEF Init
<1>4. /\ phase \in Phase /\ work \subseteq Edge /\ visit \subseteq Edge
      /\ teardown \in BOOLEAN
  BY DEF Init
<1> QED BY <1>2, <1>3, <1>4

LEMMA TypeStep ==
  ASSUME TypeOK, [Next]_vars
  PROVE  TypeOK'
<1> USE HeapAssumption, EdgeFacts DEF TypeOK, Status, Phase
<1>1. ASSUME Mutator PROVE TypeOK'
  <2>1. ASSUME NEW c \in Cell, New(c) PROVE TypeOK'
    BY <2>1 DEF New
  <2>2. ASSUME NEW c \in Cell, JS_DupValue(c) PROVE TypeOK'
    BY <2>2 DEF JS_DupValue
  <2>3. ASSUME NEW c \in Cell, JS_FreeValue(c) PROVE TypeOK'
    BY <2>3 DEF JS_FreeValue, Recount, FreeDropped
  <2>4. ASSUME NEW e \in Edge, JS_GetProperty(e) PROVE TypeOK'
    BY <2>4 DEF JS_GetProperty
  <2>5. ASSUME NEW e \in Strong, NEW v \in Cell \cup {Null}, set_value(e, v) PROVE TypeOK'
    BY <2>5 DEF set_value, Recount, FreeDropped, Holds
  <2>6. ASSUME NEW e \in Record, js_map_delete(e) PROVE TypeOK'
    BY <2>6 DEF js_map_delete, Recount, FreeDropped
  <2>7. ASSUME NEW e \in Record, NEW k \in Obj, NEW v \in Cell \cup {Null}, js_map_set(e, k, v)
        PROVE  TypeOK'
    BY <2>7 DEF js_map_set, Recount, FreeDropped
  <2> QED BY <1>1, <2>1, <2>2, <2>3, <2>4, <2>5, <2>6, <2>7 DEF Mutator
<1>2. ASSUME JS_RunGC \/ JS_FreeRuntime PROVE TypeOK'
  BY <1>2 DEF JS_RunGC, JS_FreeRuntime
<1>3. ASSUME Collector PROVE TypeOK'
  <2>1. ASSUME NEW o \in Obj, gc_decref(o) \/ gc_scan2(o) \/ gc_free_cycles(o) PROVE TypeOK'
    BY <2>1 DEF gc_decref, gc_scan2, gc_free_cycles, Children
  <2>2. ASSUME NEW o \in Obj, gc_scan(o) PROVE TypeOK'
    BY <2>2 DEF gc_scan, gc_scan_obj, Children
  <2>3. ASSUME NEW e \in Edge, gc_scan_child(e) PROVE TypeOK'
    BY <2>3 DEF gc_scan_child, gc_scan_obj, Children
  <2>4. ASSUME NEW e \in Edge,
               gc_decref_child(e) \/ gc_scan_incref_child(e) \/ gc_scan_incref_child2(e)
        PROVE  TypeOK'
    BY <2>4 DEF gc_decref_child, gc_scan_incref_child, gc_scan_incref_child2, Children
  <2>5. ASSUME gc_decref_end \/ gc_scan_end \/ gc_scan2_end \/ gc_free_cycles_end PROVE TypeOK'
    BY <2>5 DEF gc_decref_end, gc_scan_end, gc_scan2_end, gc_free_cycles_end
  <2> QED BY <1>3, <2>1, <2>2, <2>3, <2>4, <2>5 DEF Collector
<1>4. ASSUME NEW e \in Edge, Release(e) PROVE TypeOK'
  BY <1>4 DEF Release, Recount, FreeDropped
<1>5. ASSUME NEW c \in Cell, FreeStruct(c) PROVE TypeOK'
  BY <1>5 DEF FreeStruct
<1>6. ASSUME UNCHANGED vars PROVE TypeOK'
  BY <1>6 DEF vars
<1> QED BY <1>1, <1>2, <1>3, <1>4, <1>5, <1>6 DEF Next, Freeing, Finished

(* The type invariant, for any finite heap: counts stay integers, marks    *)
(* stay in 0 .. 3 and every slot refers to a structure of the heap.        *)
THEOREM TypeCorrect == Spec => []TypeOK
BY TypeInit, TypeStep, PTL DEF Spec

-----------------------------------------------------------------------------
(* Steps that drop a reference.                                            *)

(* While the program runs nothing is half freed. *)
LEMMA Quiet ==
  ASSUME IInv, Mutating
  PROVE  /\ phase = "run" /\ work = {} /\ visit = {}
         /\ \A c \in Cell : mark[c] = 0 /\ status[c] # "freeing"
         /\ \A c \in Cell : Intact(c) <=> status[c] = "live"
<1>1. phase = "run" /\ work = {} /\ visit = {} /\ \A c \in Cell : mark[c] = 0
  BY DEF Mutating, IInv, RunPass
<1>2. ASSUME NEW c \in Cell PROVE status[c] # "freeing"
  BY <1>1 DEF Mutating, Draining, Returnable, Emptied
<1> QED BY <1>1, <1>2 DEF Intact

(* Outside the passes that subtract, every reference is counted. *)
LEMMA AllCounted ==
  ASSUME phase \in {"run", "sweep"}
  PROVE  \A c \in Cell : CountedRefs(c) = {x \in Edge : slot[x] = c}
BY DEF CountedRefs, Uncounted

LEMMA CountIsPositive ==
  ASSUME IInv, NEW c \in Cell
  PROVE  /\ rc[c] \in Nat
         /\ rc[c] = 0 <=> held[c] = 0 /\ CountedRefs(c) = {}
<1>1. CountedRefs(c) \in SUBSET Edge
  BY DEF CountedRefs
<1>2. held[c] \in Nat
  BY HeapAssumption DEF IInv, TypeOK
<1> QED BY <1>1, <1>2, RefSetCard DEF IInv, Exact

(* In a set of such structures some member is not referred to from it. *)
LEMMA NoOrphans ==
  ASSUME AuxLayered, NEW S \in SUBSET Aux,
         \A a \in S : \E x \in Edge : slot[x] = a /\ x[1] \in S
  PROVE  S = {}
BY DEF AuxLayered, Layered

(* Emptying places, or changing those of objects, closes no such cycle. *)
LEMMA LayeredKeeps ==
  ASSUME AuxLayered, \A e \in Edge : e[1] \in Aux => slot'[e] \in {slot[e], Null}
  PROVE  Layered(slot')
<1>1. Null \notin Aux
  BY HeapAssumption DEF Cell
<1> SUFFICES ASSUME NEW S \in SUBSET Aux, S # {}
             PROVE  \E c \in S : \A e \in Edge : e[1] \in S => slot'[e] # c
  BY DEF Layered
<1>2. PICK c \in S : \A e \in Edge : e[1] \in S => slot[e] # c
  BY DEF AuxLayered, Layered
<1> QED BY <1>1, <1>2

(* A step that edits places, and lets go of what lost its last reference.  *)
LEMMA DropKeeps ==
  ASSUME IInv, TypeOK', Exact', phase \in {"run", "sweep"},
         NEW old \in Cell \cup {Null},
         status' = FreeDropped(old, rc'),
         UNCHANGED <<mark, phase, work, visit, teardown>>,
         \A c \in Cell : held'[c] > 0 => Intact(c),
         \A c \in Cell : c # old => rc'[c] >= rc[c],
         \A x \in Edge : slot'[x] \in {slot[x], Null} \/ Intact(slot'[x]),
         Layered(slot'),
         \A x \in Edge : weakKey'[x] \in {weakKey[x], Null} \/ Intact(weakKey'[x]),
         \A x \in Edge : status[x[1]] = "free" => slot'[x] = Null /\ weakKey'[x] = Null,
         \A c \in Cell : status[c] = "free" => held'[c] = 0
  PROVE  IInv'
<1>1. ASSUME NEW c \in Cell
      PROVE  /\ status'[c] = "live" => status[c] = "live" /\ (c = old => rc'[c] # 0 \/ ~FreedAtZero(c))
             /\ status'[c] = "free" => status[c] = "free"
             /\ status'[c] = "freeing" =>
                  status[c] = "freeing" \/ (c = old /\ rc'[c] = 0 /\ FreedAtZero(c))
             /\ status[c] = "live" => status'[c] = "live" \/ (c = old /\ rc'[c] = 0)
  BY DEF FreeDropped
<1>2. ASSUME NEW c \in Cell, NEW x \in Edge, slot'[x] = c
      PROVE  rc'[c] > 0
  <2>1. CountedRefs(c)' = {y \in Edge : slot'[y] = c}
    BY DEF CountedRefs, Uncounted
  <2>2. CountedRefs(c)' \in SUBSET Edge /\ CountedRefs(c)' # {}
    BY <1>2, <2>1
  <2>3. held'[c] \in Nat
    BY HeapAssumption DEF TypeOK
  <2> QED BY <2>2, <2>3, RefSetCard DEF Exact
<1>3. ASSUME NEW c \in Cell, held'[c] > 0
      PROVE  rc'[c] > 0
  <2>1. CountedRefs(c)' \in SUBSET Edge
    BY DEF CountedRefs
  <2>2. held'[c] \in Nat
    BY HeapAssumption DEF TypeOK
  <2> QED BY <1>3, <2>1, <2>2, RefSetCard DEF Exact
<1>4. ASSUME NEW c \in Cell, Intact(c), rc'[c] > 0 PROVE Intact(c)'
  BY <1>1, <1>4 DEF Intact
<1>5. NoDangling'
  <2>1. ASSUME NEW c \in Cell, held'[c] > 0 PROVE Intact(c)'
    BY <2>1, <1>3, <1>4
  <2>2. ASSUME NEW x \in Edge, slot'[x] # Null PROVE status'[slot'[x]] # "free"
    <3>1. slot'[x] \in Cell
      BY <2>2 DEF TypeOK
    <3>2. status[slot'[x]] # "free"
      BY <2>2 DEF IInv, NoDangling, Intact
    <3> QED BY <3>1, <3>2, <1>1
  <2>3. ASSUME NEW x \in Edge, slot'[x] # Null, Intact(x[1])' PROVE Intact(slot[x])'
    <3>1. slot'[x] \in Cell /\ x[1] \in Cell
      BY <2>3, EdgeFacts DEF TypeOK
    <3>2. Intact(x[1])
      BY <2>3, <3>1, <1>1 DEF Intact
    <3>3. Intact(slot'[x])
      BY <2>3, <3>2 DEF IInv, NoDangling
    <3>4. rc'[slot'[x]] > 0
      BY <3>1, <1>2
    <3>5. status'[slot'[x]] = "live" /\ (phase' = "sweep" => mark'[slot'[x]] = 0)
      BY <3>1, <3>3, <3>4, <1>1 DEF Intact
    <3> QED BY <3>5 DEF Intact
  <2> QED BY <2>1, <2>2, <2>3 DEF NoDangling
<1>6. FreeIsBlank'
  <2> SUFFICES ASSUME NEW c \in Cell, status'[c] = "free"
               PROVE  /\ held'[c] = 0 /\ mark'[c] = 0
                      /\ \A x \in Edge : /\ slot'[x] # c /\ weakKey'[x] # c
                                         /\ x[1] = c => slot'[x] = Null /\ weakKey'[x] = Null
    BY DEF FreeIsBlank
  <2>1. status[c] = "free"
    BY <1>1
  <2>2. c # Null
    BY HeapAssumption
  <2> QED BY <2>1, <2>2 DEF IInv, FreeIsBlank, Intact
<1>7. AuxLayered'
  BY DEF AuxLayered
<1>8. FreeingDead'
  <2> SUFFICES ASSUME NEW c \in Cell, status'[c] = "freeing"
               PROVE  /\ c \in Aux \/ phase = "run" => rc'[c] = 0
                      /\ c \in Obj /\ phase = "sweep" => mark[c] = 3
    BY DEF FreeingDead
  <2>1. CASE c = old /\ rc'[c] = 0 /\ FreedAtZero(c)
    BY <2>1, HeapAssumption DEF FreedAtZero
  <2>2. CASE status[c] = "freeing"
    <3>1. c \in Obj /\ phase = "sweep" => mark[c] = 3
      BY <2>2 DEF IInv, FreeingDead
    <3>2. ASSUME c \in Aux \/ phase = "run" PROVE rc'[c] = 0
      <4>1. rc[c] = 0
        BY <2>2, <3>2 DEF IInv, FreeingDead
      <4>2. held'[c] = 0
        <5>1. ~ Intact(c)
          BY <2>2 DEF Intact
        <5>2. held'[c] \in Nat
          BY HeapAssumption DEF TypeOK
        <5> QED BY <5>1, <5>2
      <4>3. \A x \in Edge : slot[x] # c
        BY <4>1, CountIsPositive, AllCounted
      <4>4. \A x \in Edge : slot'[x] # c
        BY <4>3, <2>2, HeapAssumption DEF Intact
      <4>5. CountedRefs(c)' = {}
        BY <4>4 DEF CountedRefs
      <4>6. Cardinality(CountedRefs(c)') = 0
        BY <4>5, FS_EmptySet
      <4> QED BY <4>2, <4>6 DEF Exact
    <3> QED BY <3>1, <3>2
  <2> QED BY <2>1, <2>2, <1>1
<1>9. AuxReferred'
  <2> SUFFICES ASSUME NEW c \in Aux, status'[c] = "live"
               PROVE  held'[c] > 0 \/ \E x \in Edge : slot'[x] = c
    BY DEF AuxReferred
  <2>0. c \in Cell /\ held'[c] \in Nat /\ rc'[c] \in Int
    BY HeapAssumption DEF Cell, TypeOK
  <2>1. rc'[c] # 0
    <3>1. CASE c = old
      BY <3>1, <1>1, <2>0 DEF FreedAtZero
    <3>2. CASE c # old
      <4>1. status[c] = "live"
        BY <2>0, <1>1
      <4>2. held[c] > 0 \/ CountedRefs(c) # {}
        BY <4>1, <2>0, AllCounted DEF IInv, AuxReferred
      <4>3. rc[c] \in Nat /\ rc[c] # 0
        BY <4>2, <2>0, CountIsPositive
      <4> QED BY <4>3, <3>2, <2>0
    <3> QED BY <3>1, <3>2
  <2>2. held'[c] # 0 \/ CountedRefs(c)' # {}
    <3>1. CountedRefs(c)' = {} => Cardinality(CountedRefs(c)') = 0
      BY FS_EmptySet
    <3> QED BY <3>1, <2>1, <2>0 DEF Exact
  <2> QED BY <2>2, <2>0 DEF CountedRefs
<1>10. RunPass' /\ DecrefPass' /\ ScanPass' /\ RestorePass' /\ SweepPass'
  BY DEF IInv, RunPass, DecrefPass, ScanPass, RestorePass, SweepPass
<1> QED BY <1>5, <1>6, <1>7, <1>8, <1>9, <1>10 DEF IInv

(* The counts after a place changes from slot[e] to v. *)
LEMMA ExactEdit ==
  ASSUME TypeOK, Exact, phase \in {"run", "sweep"}, phase' = phase,
         NEW e \in Edge, NEW v \in Cell \cup {Null},
         slot' = [slot EXCEPT ![e] = v],
         \A c \in Cell : rc'[c] - held'[c]
             = rc[c] - held[c] + (IF c = v THEN 1 ELSE 0) - (IF c = slot[e] THEN 1 ELSE 0),
         \A c \in Cell : rc'[c] \in Int /\ held'[c] \in Int
  PROVE  Exact'
<1> SUFFICES ASSUME NEW c \in Cell
             PROVE  rc'[c] = held'[c] + Cardinality(CountedRefs(c)')
  BY DEF Exact
<1>1. CountedRefs(c) = {x \in Edge : slot[x] = c}
  BY AllCounted
<1>2. CountedRefs(c)' = {x \in Edge : [slot EXCEPT ![e] = v][x] = c}
  BY DEF CountedRefs, Uncounted
<1>3. slot \in [Edge -> Cell \cup {Null}]
  BY DEF TypeOK
<1>4. Cardinality(CountedRefs(c)')
        = Cardinality(CountedRefs(c)) + (IF c = v THEN 1 ELSE 0) - (IF c = slot[e] THEN 1 ELSE 0)
  BY <1>1, <1>2, <1>3, RefMove
<1>5. rc[c] = held[c] + Cardinality(CountedRefs(c)) /\ rc[c] \in Int /\ held[c] \in Int
  BY DEF Exact, TypeOK
<1>6. Cardinality(CountedRefs(c)) \in Int
  <2>1. CountedRefs(c) \in SUBSET Edge
    BY DEF CountedRefs
  <2> QED BY <2>1, RefSetCard
<1>7. rc'[c] \in Int /\ held'[c] \in Int
  OBVIOUS
<1>8. rc'[c] - held'[c]
        = rc[c] - held[c] + (IF c = v THEN 1 ELSE 0) - (IF c = slot[e] THEN 1 ELSE 0)
  OBVIOUS
<1> QED BY <1>4, <1>5, <1>6, <1>7, <1>8

LEMMA ReleaseInv ==
  ASSUME IInv, TypeOK', NEW e \in Edge, Release(e)
  PROVE  IInv'
<1>0. /\ slot' = [slot EXCEPT ![e] = Null]
      /\ weakKey' = [weakKey EXCEPT ![e] = Null]
      /\ rc' = Recount(Null, slot[e])
      /\ status' = FreeDropped(slot[e], rc')
      /\ UNCHANGED <<held, mark, phase, work, visit, teardown>>
      /\ Doomed(e)
  BY DEF Release
<1>1. \A c \in Cell : c # Null
  BY HeapAssumption
<1>2. TypeOK /\ Exact /\ e[1] \in Cell
  BY EdgeFacts DEF IInv
<1>3. phase \in {"run", "sweep"}
  BY <1>0, <1>2 DEF Doomed, IInv, FreeingDead, TypeOK, Cell
<1>4. \A c \in Cell : rc'[c] = rc[c] - (IF c = slot[e] THEN 1 ELSE 0)
  BY <1>0, <1>1, <1>2 DEF Recount, TypeOK
<1>5. \A c \in Cell : rc'[c] \in Int /\ held'[c] \in Int /\ rc[c] \in Int /\ held[c] \in Int
  BY <1>2 DEF TypeOK
<1>6. Exact'
  <2>1. \A c \in Cell : rc'[c] - held'[c]
             = rc[c] - held[c] + (IF c = Null THEN 1 ELSE 0) - (IF c = slot[e] THEN 1 ELSE 0)
    BY <1>0, <1>1, <1>4, <1>5
  <2> QED BY <2>1, <1>0, <1>2, <1>3, <1>5, ExactEdit
<1>7. \A c \in Cell : held'[c] > 0 => Intact(c)
  BY <1>0 DEF IInv, NoDangling
<1>8. \A x \in Edge : status[x[1]] = "free" => slot'[x] = Null /\ weakKey'[x] = Null
  BY <1>0, <1>2, EdgeFacts DEF IInv, FreeIsBlank, TypeOK
<1>9. \A c \in Cell : status[c] = "free" => held'[c] = 0
  BY <1>0 DEF IInv, FreeIsBlank
<1>10. \A x \in Edge : slot'[x] \in {slot[x], Null} /\ weakKey'[x] \in {weakKey[x], Null}
  BY <1>0, <1>2 DEF TypeOK
<1>11. \A c \in Cell : c # slot[e] => rc'[c] >= rc[c]
  BY <1>4, <1>5
<1>12. slot[e] \in Cell \cup {Null}
  BY <1>2 DEF TypeOK
<1>13. Layered(slot')
  BY <1>0, <1>2, LayeredKeeps DEF IInv, TypeOK
<1> QED BY <1>0, <1>3, <1>6, <1>7, <1>8, <1>9, <1>10, <1>11, <1>12, <1>13, DropKeeps

LEMMA set_valueInv ==
  ASSUME IInv, TypeOK', NEW e \in Strong, NEW v \in Cell \cup {Null}, set_value(e, v)
  PROVE  IInv'
<1>0. /\ slot' = [slot EXCEPT ![e] = v]
      /\ held' = IF v = Null THEN held ELSE [held EXCEPT ![v] = @ - 1]
      /\ rc' = Recount(Null, slot[e])
      /\ status' = FreeDropped(slot[e], rc')
      /\ UNCHANGED <<weakKey, mark, phase, work, visit, teardown>>
      /\ Mutating /\ held[e[1]] > 0 /\ Holds(v)
      /\ Layered(slot')
  BY DEF set_value
<1>1. (\A c \in Cell : c # Null) /\ e \in Edge /\ e[1] \in Cell
  BY HeapAssumption, EdgeFacts
<1>2. TypeOK /\ Exact
  BY DEF IInv
<1>3. phase = "run" /\ \A c \in Cell : Intact(c) <=> status[c] = "live"
  BY <1>0, Quiet
<1>4. \A c \in Cell : rc'[c] = rc[c] - (IF c = slot[e] THEN 1 ELSE 0)
  BY <1>0, <1>1, <1>2 DEF Recount, TypeOK
<1>5. \A c \in Cell : rc'[c] \in Int /\ held'[c] \in Int /\ rc[c] \in Int /\ held[c] \in Int
  BY <1>2 DEF TypeOK
<1>6. \A c \in Cell : held'[c] = held[c] - (IF c = v THEN 1 ELSE 0)
  BY <1>0, <1>1, <1>2, <1>5 DEF TypeOK
<1>7. Exact'
  <2>1. \A c \in Cell : rc'[c] - held'[c]
             = rc[c] - held[c] + (IF c = v THEN 1 ELSE 0) - (IF c = slot[e] THEN 1 ELSE 0)
    BY <1>4, <1>5, <1>6
  <2> QED BY <2>1, <1>0, <1>1, <1>2, <1>3, <1>5, ExactEdit
<1>8. \A c \in Cell : held'[c] > 0 => Intact(c)
  BY <1>5, <1>6 DEF IInv, NoDangling
<1>9. v # Null => Intact(v)
  BY <1>0, <1>2 DEF Holds, IInv, NoDangling
<1>10. \A x \in Edge : status[x[1]] = "free" => slot'[x] = Null /\ weakKey'[x] = Null
  <2>1. status[e[1]] = "live"
    BY <1>0, <1>1 DEF IInv, NoDangling, Intact
  <2> QED BY <2>1, <1>0, <1>2, EdgeFacts DEF IInv, FreeIsBlank, TypeOK
<1>11. \A c \in Cell : status[c] = "free" => held'[c] = 0
  <2>1. \A c \in Cell : held'[c] \in Nat
    BY HeapAssumption DEF TypeOK
  <2> QED BY <2>1, <1>8, <1>3
<1>12. \A x \in Edge : slot'[x] \in {slot[x], Null} \/ Intact(slot'[x])
  BY <1>0, <1>2, <1>9 DEF TypeOK
<1>13. \A c \in Cell : c # slot[e] => rc'[c] >= rc[c]
  BY <1>4, <1>5
<1>14. slot[e] \in Cell \cup {Null} /\ \A x \in Edge : weakKey'[x] \in {weakKey[x], Null}
  BY <1>0, <1>1, <1>2 DEF TypeOK
<1> QED BY <1>0, <1>3, <1>7, <1>8, <1>10, <1>11, <1>12, <1>13, <1>14, DropKeeps

LEMMA js_map_setInv ==
  ASSUME IInv, TypeOK', NEW e \in Record, NEW k \in Obj, NEW v \in Cell \cup {Null},
         js_map_set(e, k, v)
  PROVE  IInv'
<1>0. /\ slot' = [slot EXCEPT ![e] = v]
      /\ weakKey' = [weakKey EXCEPT ![e] = k]
      /\ rc' = Recount(v, slot[e])
      /\ status' = FreeDropped(slot[e], rc')
      /\ UNCHANGED <<held, mark, phase, work, visit, teardown>>
      /\ Mutating /\ held[e[1]] > 0 /\ held[k] > 0 /\ Holds(v)
  BY DEF js_map_set
<1>1. /\ \A c \in Cell : c # Null
      /\ e \in Edge /\ e[1] \in Cell /\ e[1] \notin Aux /\ k \in Cell
  BY HeapAssumption, EdgeFacts DEF Cell
<1>2. TypeOK /\ Exact
  BY DEF IInv
<1>3. phase = "run" /\ \A c \in Cell : Intact(c) <=> status[c] = "live"
  BY <1>0, Quiet
<1>4. \A c \in Cell : rc'[c] = rc[c] + (IF c = v THEN 1 ELSE 0) - (IF c = slot[e] THEN 1 ELSE 0)
  BY <1>0, <1>1, <1>2 DEF Recount, TypeOK
<1>5. \A c \in Cell : rc'[c] \in Int /\ held'[c] \in Int /\ rc[c] \in Int /\ held[c] \in Int
  BY <1>2 DEF TypeOK
<1>6. Exact'
  <2>1. \A c \in Cell : rc'[c] - held'[c]
             = rc[c] - held[c] + (IF c = v THEN 1 ELSE 0) - (IF c = slot[e] THEN 1 ELSE 0)
    BY <1>0, <1>4, <1>5
  <2> QED BY <2>1, <1>0, <1>1, <1>2, <1>3, <1>5, ExactEdit
<1>7. \A c \in Cell : held'[c] > 0 => Intact(c)
  BY <1>0 DEF IInv, NoDangling
<1>8. Intact(k) /\ (v # Null => Intact(v))
  BY <1>0, <1>1, <1>2 DEF Holds, IInv, NoDangling
<1>9. \A x \in Edge : status[x[1]] = "free" => slot'[x] = Null /\ weakKey'[x] = Null
  <2>1. status[e[1]] = "live"
    BY <1>0, <1>1 DEF IInv, NoDangling, Intact
  <2> QED BY <2>1, <1>0, <1>2, EdgeFacts DEF IInv, FreeIsBlank, TypeOK
<1>10. \A c \in Cell : status[c] = "free" => held'[c] = 0
  BY <1>0 DEF IInv, FreeIsBlank
<1>11. \A x \in Edge : \/ slot'[x] \in {slot[x], Null}
                       \/ Intact(slot'[x]) /\ (x[1] \in Aux => slot'[x] \notin Aux)
  BY <1>0, <1>1, <1>2, <1>8 DEF TypeOK
<1>12. \A x \in Edge : weakKey'[x] \in {weakKey[x], Null} \/ Intact(weakKey'[x])
  BY <1>0, <1>2, <1>8 DEF TypeOK
<1>13. \A c \in Cell : c # slot[e] => rc'[c] >= rc[c]
  BY <1>4, <1>5
<1>14. slot[e] \in Cell \cup {Null}
  BY <1>1, <1>2 DEF TypeOK
<1>15. Layered(slot')
  <2>1. e[1] \notin Aux
    BY HeapAssumption
  <2> QED BY <2>1, <1>0, <1>2, LayeredKeeps DEF IInv, TypeOK
<1> QED BY <1>0, <1>3, <1>6, <1>7, <1>9, <1>10, <1>11, <1>12, <1>13, <1>14, <1>15, DropKeeps

LEMMA js_map_deleteInv ==
  ASSUME IInv, TypeOK', NEW e \in Record, js_map_delete(e)
  PROVE  IInv'
<1>0. /\ slot' = [slot EXCEPT ![e] = Null]
      /\ weakKey' = [weakKey EXCEPT ![e] = Null]
      /\ rc' = Recount(Null, slot[e])
      /\ status' = FreeDropped(slot[e], rc')
      /\ UNCHANGED <<held, mark, phase, work, visit, teardown>>
      /\ Mutating
  BY DEF js_map_delete
<1>1. (\A c \in Cell : c # Null) /\ e \in Edge
  BY HeapAssumption, EdgeFacts
<1>2. TypeOK /\ Exact
  BY DEF IInv
<1>3. phase \in {"run", "sweep"}
  BY <1>0, Quiet
<1>4. \A c \in Cell : rc'[c] = rc[c] - (IF c = slot[e] THEN 1 ELSE 0)
  BY <1>0, <1>1, <1>2 DEF Recount, TypeOK
<1>5. \A c \in Cell : rc'[c] \in Int /\ held'[c] \in Int /\ rc[c] \in Int /\ held[c] \in Int
  BY <1>2 DEF TypeOK
<1>6. Exact'
  <2>1. \A c \in Cell : rc'[c] - held'[c]
             = rc[c] - held[c] + (IF c = Null THEN 1 ELSE 0) - (IF c = slot[e] THEN 1 ELSE 0)
    BY <1>0, <1>1, <1>4, <1>5
  <2> QED BY <2>1, <1>0, <1>1, <1>2, <1>3, <1>5, ExactEdit
<1>7. \A c \in Cell : held'[c] > 0 => Intact(c)
  BY <1>0 DEF IInv, NoDangling
<1>8. \A x \in Edge : status[x[1]] = "free" => slot'[x] = Null /\ weakKey'[x] = Null
  BY <1>0, <1>2, EdgeFacts DEF IInv, FreeIsBlank, TypeOK
<1>9. \A c \in Cell : status[c] = "free" => held'[c] = 0
  BY <1>0 DEF IInv, FreeIsBlank
<1>10. \A x \in Edge : slot'[x] \in {slot[x], Null} /\ weakKey'[x] \in {weakKey[x], Null}
  BY <1>0, <1>2 DEF TypeOK
<1>11. \A c \in Cell : c # slot[e] => rc'[c] >= rc[c]
  BY <1>4, <1>5
<1>12. slot[e] \in Cell \cup {Null}
  BY <1>1, <1>2 DEF TypeOK
<1>13. Layered(slot')
  BY <1>0, <1>2, LayeredKeeps DEF IInv, TypeOK
<1> QED BY <1>0, <1>3, <1>6, <1>7, <1>8, <1>9, <1>10, <1>11, <1>12, <1>13, DropKeeps

LEMMA JS_FreeValueInv ==
  ASSUME IInv, TypeOK', NEW c \in Cell, JS_FreeValue(c)
  PROVE  IInv'
<1>0. /\ held' = [held EXCEPT ![c] = @ - 1]
      /\ rc' = Recount(Null, c)
      /\ status' = FreeDropped(c, rc')
      /\ UNCHANGED <<slot, weakKey, mark, phase, work, visit, teardown>>
      /\ Mutating
  BY DEF JS_FreeValue
<1>1. TypeOK /\ Exact /\ c # Null
  BY HeapAssumption DEF IInv
<1>2. phase = "run" /\ \A d \in Cell : Intact(d) <=> status[d] = "live"
  BY <1>0, Quiet
<1>3. \A d \in Cell : /\ rc'[d] = rc[d] - (IF d = c THEN 1 ELSE 0)
                      /\ held'[d] = held[d] - (IF d = c THEN 1 ELSE 0)
                      /\ rc[d] \in Int /\ held[d] \in Int /\ held'[d] \in Nat
  BY <1>0, <1>1, HeapAssumption DEF Recount, TypeOK
<1>4. Exact'
  <2> SUFFICES ASSUME NEW d \in Cell
               PROVE  rc'[d] = held'[d] + Cardinality(CountedRefs(d)')
    BY DEF Exact
  <2>1. CountedRefs(d)' = CountedRefs(d) /\ CountedRefs(d) \in SUBSET Edge
    BY <1>0, <1>2 DEF CountedRefs, Uncounted
  <2>2. Cardinality(CountedRefs(d)) \in Nat
    BY <2>1, RefSetCard
  <2>3. rc[d] = held[d] + Cardinality(CountedRefs(d))
    BY <1>1 DEF Exact
  <2> QED BY <2>1, <2>2, <2>3, <1>3
<1>5. \A d \in Cell : held'[d] > 0 => Intact(d)
  BY <1>3 DEF IInv, NoDangling
<1>6. \A x \in Edge : status[x[1]] = "free" => slot'[x] = Null /\ weakKey'[x] = Null
  BY <1>0, EdgeFacts DEF IInv, FreeIsBlank
<1>7. \A d \in Cell : status[d] = "free" => held'[d] = 0
  BY <1>5, <1>2, <1>3
<1>8. \A d \in Cell : d # c => rc'[d] >= rc[d]
  BY <1>3
<1>9. Layered(slot')
  BY <1>0, LayeredKeeps DEF IInv
<1> QED BY <1>0, <1>2, <1>4, <1>5, <1>6, <1>7, <1>8, <1>9, DropKeeps

(* JS_DupValue and JS_GetProperty: one more reference to an intact cell. *)
LEMMA TakeInv ==
  ASSUME IInv, TypeOK', Mutating, NEW c \in Cell, Intact(c),
         held' = [held EXCEPT ![c] = @ + 1],
         rc' = [rc EXCEPT ![c] = @ + 1],
         UNCHANGED <<status, slot, weakKey, mark, phase, work, visit, teardown>>
  PROVE  IInv'
<1>1. phase = "run"
  BY Quiet
<1>2. TypeOK
  BY DEF IInv
<1>3. \A d \in Cell : /\ rc'[d] = rc[d] + (IF d = c THEN 1 ELSE 0)
                      /\ held'[d] = held[d] + (IF d = c THEN 1 ELSE 0)
                      /\ rc[d] \in Int /\ held[d] \in Nat
  BY <1>2, HeapAssumption DEF TypeOK
<1>4. Exact'
  <2> SUFFICES ASSUME NEW d \in Cell
               PROVE  rc'[d] = held'[d] + Cardinality(CountedRefs(d)')
    BY DEF Exact
  <2>1. CountedRefs(d)' = CountedRefs(d) /\ CountedRefs(d) \in SUBSET Edge
    BY <1>1 DEF CountedRefs, Uncounted
  <2>2. Cardinality(CountedRefs(d)) \in Nat
    BY <2>1, RefSetCard
  <2>3. rc[d] = held[d] + Cardinality(CountedRefs(d))
    BY DEF IInv, Exact
  <2> QED BY <2>1, <2>2, <2>3, <1>3
<1>5. NoDangling'
  BY <1>3 DEF IInv, NoDangling, Intact
<1>6. FreeIsBlank' /\ AuxLayered'
  BY <1>3 DEF IInv, FreeIsBlank, AuxLayered, Intact
<1>7. FreeingDead'
  BY <1>1, <1>3 DEF IInv, FreeingDead, Intact
<1>8. AuxReferred'
  BY <1>3 DEF IInv, AuxReferred, Cell
<1>9. RunPass' /\ DecrefPass' /\ ScanPass' /\ RestorePass' /\ SweepPass'
  BY <1>1 DEF IInv, RunPass, DecrefPass, ScanPass, RestorePass, SweepPass
<1> QED BY <1>4, <1>5, <1>6, <1>7, <1>8, <1>9 DEF IInv

LEMMA NewInv ==
  ASSUME IInv, TypeOK', NEW c \in Cell, New(c)
  PROVE  IInv'
<1>0. /\ Mutating /\ status[c] = "free"
      /\ status' = [status EXCEPT ![c] = "live"]
      /\ rc' = [rc EXCEPT ![c] = 1]
      /\ held' = [held EXCEPT ![c] = 1]
      /\ mark' = [mark EXCEPT ![c] = 0]
      /\ UNCHANGED <<slot, weakKey, phase, work, visit, teardown>>
  BY DEF New
<1>1. phase = "run" /\ \A d \in Cell : mark[d] = 0
  BY <1>0, Quiet
<1>2. TypeOK
  BY DEF IInv
<1>3. \A d \in Cell : /\ status'[d] = IF d = c THEN "live" ELSE status[d]
                      /\ rc'[d] = IF d = c THEN 1 ELSE rc[d]
                      /\ held'[d] = IF d = c THEN 1 ELSE held[d]
                      /\ mark'[d] = 0
  BY <1>0, <1>1, <1>2 DEF TypeOK
<1>4. \A x \in Edge : slot[x] # c /\ weakKey[x] # c /\ (x[1] = c => slot[x] = Null)
  BY <1>0 DEF IInv, FreeIsBlank
<1>5. Exact'
  <2> SUFFICES ASSUME NEW d \in Cell
               PROVE  rc'[d] = held'[d] + Cardinality(CountedRefs(d)')
    BY DEF Exact
  <2>1. CountedRefs(d)' = CountedRefs(d)
    BY <1>0, <1>1 DEF CountedRefs, Uncounted
  <2>2. CASE d = c
    <3>1. CountedRefs(d)' = {}
      BY <2>1, <2>2, <1>4 DEF CountedRefs
    <3>2. Cardinality(CountedRefs(d)') = 0
      BY <3>1, FS_EmptySet
    <3> QED BY <3>2, <2>2, <1>3
  <2>3. CASE d # c
    <3>1. rc[d] = held[d] + Cardinality(CountedRefs(d))
      BY DEF IInv, Exact
    <3> QED BY <2>1, <2>3, <3>1, <1>3
  <2> QED BY <2>2, <2>3
<1>6. NoDangling'
  <2>1. \A x \in Edge : x[1] \in Cell /\ (slot[x] # Null => slot[x] \in Cell)
    BY <1>2, EdgeFacts DEF TypeOK
  <2> QED BY <2>1, <1>0, <1>1, <1>3, <1>4 DEF IInv, NoDangling, Intact
<1>7. FreeIsBlank'
  BY <1>0, <1>3 DEF IInv, FreeIsBlank
<1>8. AuxLayered'
  BY <1>0 DEF IInv, AuxLayered
<1>9. FreeingDead'
  BY <1>0, <1>1, <1>3 DEF IInv, FreeingDead
<1>10. AuxReferred'
  BY <1>0, <1>3 DEF IInv, AuxReferred, Cell
<1>11. RunPass' /\ DecrefPass' /\ ScanPass' /\ RestorePass' /\ SweepPass'
  BY <1>0, <1>1, <1>3 DEF IInv, RunPass, DecrefPass, ScanPass, RestorePass, SweepPass
<1> QED BY <1>5, <1>6, <1>7, <1>8, <1>9, <1>10, <1>11 DEF IInv

LEMMA FreeStructInv ==
  ASSUME IInv, TypeOK', NEW c \in Cell, FreeStruct(c)
  PROVE  IInv'
<1>0. /\ Emptied(c) /\ (c \in Aux \/ phase # "sweep") /\ status[c] = "freeing"
      /\ status' = [status EXCEPT ![c] = "free"]
      /\ mark' = [mark EXCEPT ![c] = 0]
      /\ UNCHANGED <<slot, weakKey, held, rc, phase, work, visit, teardown>>
  BY DEF FreeStruct, Returnable, Emptied
<1>1. TypeOK
  BY DEF IInv
<1>2. phase \in {"run", "sweep"} /\ rc[c] = 0
  BY <1>0 DEF IInv, FreeingDead, TypeOK
<1>3. held[c] = 0 /\ \A x \in Edge : slot[x] # c
  BY <1>2, CountIsPositive, AllCounted
<1>4. \A x \in Edge : weakKey[x] # c /\ (x[1] = c => slot[x] = Null /\ weakKey[x] = Null)
  <2>1. c # Null
    BY HeapAssumption
  <2> QED BY <2>1, <1>0 DEF Emptied, Doomed
<1>5. \A d \in Cell : /\ status'[d] = IF d = c THEN "free" ELSE status[d]
                      /\ mark'[d] = IF d = c THEN 0 ELSE mark[d]
  BY <1>0, <1>1 DEF TypeOK
<1>6. Exact'
  BY <1>0, <1>2 DEF IInv, Exact, CountedRefs, Uncounted
<1>7. NoDangling'
  <2>1. \A x \in Edge : x[1] \in Cell /\ (slot[x] # Null => slot[x] \in Cell)
    BY <1>1, EdgeFacts DEF TypeOK
  <2> QED BY <2>1, <1>0, <1>3, <1>5 DEF IInv, NoDangling, Intact
<1>8. FreeIsBlank'
  BY <1>0, <1>3, <1>4, <1>5 DEF IInv, FreeIsBlank
<1>9. AuxLayered'
  BY <1>0 DEF IInv, AuxLayered
<1>10. FreeingDead'
  BY <1>0, <1>5 DEF IInv, FreeingDead
<1>11. AuxReferred'
  BY <1>0, <1>5 DEF IInv, AuxReferred, Cell
<1>12. RunPass' /\ DecrefPass' /\ ScanPass' /\ RestorePass' /\ SweepPass'
  BY <1>0, <1>2, <1>5 DEF IInv, RunPass, DecrefPass, ScanPass, RestorePass, SweepPass
<1> QED BY <1>6, <1>7, <1>8, <1>9, <1>10, <1>11, <1>12 DEF IInv

-----------------------------------------------------------------------------
(* Steps of the collector.                                                 *)

LEMMA StartInv ==
  ASSUME IInv, TypeOK', JS_RunGC \/ JS_FreeRuntime
  PROVE  IInv'
<1>0. /\ Mutating /\ phase' = "decref"
      /\ UNCHANGED <<status, slot, weakKey, held, rc, mark, work, visit>>
  BY DEF JS_RunGC, JS_FreeRuntime
<1>1. /\ phase = "run" /\ work = {} /\ visit = {}
      /\ \A c \in Cell : mark[c] = 0 /\ status[c] # "freeing"
      /\ \A c \in Cell : Intact(c) <=> status[c] = "live"
  BY <1>0, Quiet
<1>2. \A c \in Cell : CountedRefs(c)' = CountedRefs(c)
  BY <1>0, <1>1, EdgeFacts DEF CountedRefs, Uncounted
<1>3. Exact'
  <2> SUFFICES ASSUME NEW c \in Cell
               PROVE  rc'[c] = held'[c] + Cardinality(CountedRefs(c)')
    BY DEF Exact
  <2>1. rc[c] = held[c] + Cardinality(CountedRefs(c))
    BY DEF IInv, Exact
  <2> QED BY <2>1, <1>0, <1>2
<1>4. NoDangling' /\ FreeIsBlank' /\ AuxLayered' /\ FreeingDead' /\ AuxReferred'
  BY <1>0, <1>1 DEF IInv, NoDangling, Intact, FreeIsBlank, AuxLayered, FreeingDead, AuxReferred
<1>5. RunPass' /\ DecrefPass' /\ ScanPass' /\ RestorePass' /\ SweepPass'
  BY <1>0, <1>1 DEF RunPass, DecrefPass, ScanPass, RestorePass, SweepPass, Cell
<1> QED BY <1>3, <1>4, <1>5 DEF IInv

(* During the passes nothing is freed, so every reference is between live  *)
(* structures ...                                                          *)
LEMMA PassOwners ==
  ASSUME IInv, phase \in {"decref", "scan", "restore"}
  PROVE  /\ \A c \in Cell : status[c] # "freeing"
         /\ \A e \in Edge : slot[e] # Null =>
              /\ e[1] \in Cell /\ status[e[1]] = "live"
              /\ slot[e] \in Cell /\ status[slot[e]] = "live"
         /\ \A c \in Cell : status[c] # "live" => mark[c] = 0
<1>1. \A c \in Cell : status[c] # "freeing"
  BY DEF IInv, FreeingDead
<1>2. \A c \in Cell : status[c] \in {"free", "live"}
  BY <1>1 DEF IInv, TypeOK, Status
<1>3. \A e \in Edge : e[1] \in Cell /\ slot[e] \in Cell \cup {Null}
  BY EdgeFacts DEF IInv, TypeOK
<1> QED BY <1>1, <1>2, <1>3 DEF IInv, FreeIsBlank

(* ... and the shape of the heap does not change. *)
LEMMA PassFrame ==
  ASSUME IInv, phase \in {"decref", "scan", "restore"},
         phase' \in {"decref", "scan", "restore"},
         UNCHANGED <<status, slot, weakKey, held>>,
         \A c \in Cell : status[c] # "live" => mark'[c] = 0
  PROVE  /\ NoDangling' /\ FreeIsBlank' /\ AuxLayered' /\ FreeingDead' /\ AuxReferred'
         /\ RunPass' /\ SweepPass'
<1>1. \A c \in Cell : status[c] # "freeing"
  BY PassOwners
<1>2. NoDangling' /\ AuxLayered' /\ AuxReferred'
  BY DEF IInv, NoDangling, Intact, AuxLayered, AuxReferred
<1>3. FreeIsBlank' /\ FreeingDead'
  BY <1>1 DEF IInv, FreeIsBlank, FreeingDead
<1> QED BY <1>2, <1>3 DEF RunPass, SweepPass

(* The counts after one reference e is taken off or put back. *)
LEMMA ExactDecref ==
  ASSUME TypeOK, Exact, NEW e \in Edge, slot[e] \in Cell, held' = held,
         rc' = [rc EXCEPT ![slot[e]] = @ - 1],
         e \in CountedRefs(slot[e]),
         \A c \in Cell : CountedRefs(c)' = CountedRefs(c) \ {e}
  PROVE  Exact'
<1> SUFFICES ASSUME NEW c \in Cell
             PROVE  rc'[c] = held'[c] + Cardinality(CountedRefs(c)')
  BY DEF Exact
<1>1. CountedRefs(c) \in SUBSET Edge
  BY DEF CountedRefs
<1>2. /\ Cardinality(CountedRefs(c)) \in Nat
      /\ held[c] \in Int /\ rc[c] \in Int
      /\ rc[c] = held[c] + Cardinality(CountedRefs(c))
  BY <1>1, RefSetCard DEF TypeOK, Exact
<1>3. CASE c = slot[e]
  <2>1. Cardinality(CountedRefs(c)') = Cardinality(CountedRefs(c)) - 1
    BY <1>1, <1>3, RefSetRemove
  <2>2. rc'[c] = rc[c] - 1
    BY <1>3 DEF TypeOK
  <2> QED BY <2>1, <2>2, <1>2
<1>4. CASE c # slot[e]
  <2>1. CountedRefs(c)' = CountedRefs(c)
    BY <1>4 DEF CountedRefs
  <2>2. rc'[c] = rc[c]
    BY <1>4 DEF TypeOK
  <2> QED BY <2>1, <2>2, <1>2
<1> QED BY <1>3, <1>4

LEMMA ExactIncref ==
  ASSUME TypeOK, Exact, NEW e \in Edge, slot[e] \in Cell, held' = held,
         rc' = [rc EXCEPT ![slot[e]] = @ + 1],
         e \notin CountedRefs(slot[e]),
         \A c \in Cell : CountedRefs(c)' = IF c = slot[e] THEN CountedRefs(c) \cup {e}
                                                         ELSE CountedRefs(c)
  PROVE  Exact'
<1> SUFFICES ASSUME NEW c \in Cell
             PROVE  rc'[c] = held'[c] + Cardinality(CountedRefs(c)')
  BY DEF Exact
<1>1. CountedRefs(c) \in SUBSET Edge
  BY DEF CountedRefs
<1>2. /\ Cardinality(CountedRefs(c)) \in Nat
      /\ held[c] \in Int /\ rc[c] \in Int
      /\ rc[c] = held[c] + Cardinality(CountedRefs(c))
  BY <1>1, RefSetCard DEF TypeOK, Exact
<1>3. CASE c = slot[e]
  <2>1. Cardinality(CountedRefs(c)') = Cardinality(CountedRefs(c)) + 1
    BY <1>1, <1>3, RefSetAdd
  <2>2. rc'[c] = rc[c] + 1
    BY <1>3 DEF TypeOK
  <2> QED BY <2>1, <2>2, <1>2
<1>4. CASE c # slot[e]
  <2>1. CountedRefs(c)' = CountedRefs(c)
    BY <1>4
  <2>2. rc'[c] = rc[c]
    BY <1>4 DEF TypeOK
  <2> QED BY <2>1, <2>2, <1>2
<1> QED BY <1>3, <1>4

LEMMA ExactSame ==
  ASSUME Exact, held' = held, rc' = rc,
         \A c \in Cell : CountedRefs(c)' = CountedRefs(c)
  PROVE  Exact'
<1> SUFFICES ASSUME NEW c \in Cell
             PROVE  rc'[c] = held'[c] + Cardinality(CountedRefs(c)')
  BY DEF Exact
<1>1. rc[c] = held[c] + Cardinality(CountedRefs(c))
  BY DEF Exact
<1> QED BY <1>1

LEMMA gc_decrefInv ==
  ASSUME IInv, TypeOK', NEW o \in Obj, gc_decref(o)
  PROVE  IInv'
<1>0. /\ phase = "decref" /\ work = {} /\ o \in LiveObj /\ mark[o] = 0
      /\ mark' = [mark EXCEPT ![o] = 1]
      /\ work' = Children(o)
      /\ UNCHANGED <<status, slot, weakKey, held, rc, phase, visit, teardown>>
  BY DEF gc_decref
<1>1. o \in Cell /\ status[o] = "live" /\ o \notin Aux
  BY <1>0, HeapAssumption DEF LiveObj, Live, Cell
<1>2. \A c \in Cell : mark'[c] = IF c = o THEN 1 ELSE mark[c]
  BY <1>0 DEF IInv, TypeOK
<1>3. \A c \in Cell : CountedRefs(c)' = CountedRefs(c)
  <2>1. \A c \in Cell : c # Null
    BY HeapAssumption
  <2> QED BY <2>1, <1>0, <1>2, EdgeFacts DEF CountedRefs, Uncounted, Children
<1>4. Exact'
  BY <1>0, <1>3, ExactSame DEF IInv
<1>5. \A c \in Cell : status[c] # "live" => mark'[c] = 0
  BY <1>0, <1>1, <1>2, PassOwners
<1>6. /\ NoDangling' /\ FreeIsBlank' /\ AuxLayered' /\ FreeingDead' /\ AuxReferred'
      /\ RunPass' /\ SweepPass'
  BY <1>0, <1>5, PassFrame
<1>7. DecrefPass'
  BY <1>0, <1>1, <1>2, EdgeFacts DEF IInv, DecrefPass, Children, Cell
<1>8. ScanPass' /\ RestorePass'
  BY <1>0 DEF ScanPass, RestorePass
<1> QED BY <1>4, <1>6, <1>7, <1>8 DEF IInv

LEMMA gc_decref_childInv ==
  ASSUME IInv, TypeOK', NEW e \in Edge, gc_decref_child(e)
  PROVE  IInv'
<1> DEFINE c == slot[e]
<1>0. /\ phase = "decref" /\ e \in work
      /\ rc' = [rc EXCEPT ![c] = @ - 1]
      /\ mark' = [mark EXCEPT ![c] = 1]
      /\ work' = (work \ {e}) \cup (IF mark[c] = 0 THEN Children(c) ELSE {})
      /\ UNCHANGED <<status, slot, weakKey, held, phase, visit, teardown>>
  BY DEF gc_decref_child
<1>1. /\ mark[e[1]] = 1 /\ c # Null /\ c \in Cell /\ status[c] = "live" /\ e[1] \in Cell
      /\ \A d \in Cell : mark[d] \in {0, 1}
      /\ \A x \in work : mark[x[1]] = 1 /\ slot[x] # Null
  BY <1>0, PassOwners DEF IInv, DecrefPass
<1>2. \A d \in Cell : mark'[d] = IF d = c THEN 1 ELSE mark[d]
  BY <1>0 DEF IInv, TypeOK
<1>3. \A d \in Cell : CountedRefs(d)' = CountedRefs(d) \ {e}
  <2>1. \A d \in Cell : d # Null
    BY HeapAssumption
  <2>2. ASSUME NEW x \in Edge, slot[x] # Null
        PROVE  (mark'[x[1]] # 0 /\ x \notin work') <=> ((mark[x[1]] # 0 /\ x \notin work) \/ x = e)
    <3>1. x[1] \in Cell
      BY EdgeFacts
    <3>2. CASE mark[c] = 0
      BY <3>1, <3>2, <2>2, <1>0, <1>1, <1>2 DEF Children
    <3>3. CASE mark[c] # 0
      BY <3>1, <3>3, <1>0, <1>1, <1>2
    <3> QED BY <3>2, <3>3
  <2> QED BY <2>1, <2>2, <1>0 DEF CountedRefs, Uncounted
<1>4. Exact'
  <2>1. e \in CountedRefs(c)
    BY <1>0, <1>1 DEF CountedRefs, Uncounted
  <2> QED BY <2>1, <1>0, <1>1, <1>3, ExactDecref DEF IInv
<1>5. \A d \in Cell : status[d] # "live" => mark'[d] = 0
  BY <1>0, <1>1, <1>2, PassOwners
<1>6. /\ NoDangling' /\ FreeIsBlank' /\ AuxLayered' /\ FreeingDead' /\ AuxReferred'
      /\ RunPass' /\ SweepPass'
  BY <1>0, <1>5, PassFrame
<1>7. DecrefPass'
  <2>1. visit' = {} /\ \A d \in Cell : mark'[d] \in {0, 1}
    BY <1>0, <1>1, <1>2 DEF IInv, DecrefPass
  <2>2. \A x \in work' : mark'[x[1]] = 1 /\ slot'[x] # Null
    BY <1>0, <1>1, <1>2, EdgeFacts DEF Children, IInv, TypeOK
  <2>3. ASSUME NEW a \in Aux, mark'[a] = 1
        PROVE  \E x \in Edge : slot'[x] = a /\ mark'[x[1]] = 1
    <3>1. a \in Cell
      BY DEF Cell
    <3>2. CASE a = c
      BY <3>2, <1>0, <1>1, <1>2
    <3>3. CASE a # c
      <4>1. PICK x \in Edge : slot[x] = a /\ mark[x[1]] = 1
        BY <3>1, <3>3, <2>3, <1>0, <1>2 DEF IInv, DecrefPass
      <4> QED BY <4>1, <1>0, <1>2, EdgeFacts
    <3> QED BY <3>2, <3>3
  <2> QED BY <2>1, <2>2, <2>3 DEF DecrefPass
<1>8. ScanPass' /\ RestorePass'
  BY <1>0 DEF ScanPass, RestorePass
<1> QED BY <1>4, <1>6, <1>7, <1>8 DEF IInv

LEMMA gc_decref_endInv ==
  ASSUME IInv, TypeOK', gc_decref_end
  PROVE  IInv'
<1>0. /\ phase = "decref" /\ work = {} /\ phase' = "scan"
      /\ \A o \in LiveObj : mark[o] # 0
      /\ UNCHANGED <<status, slot, weakKey, held, rc, mark, work, visit, teardown>>
  BY DEF gc_decref_end
<1>1. \A c \in Cell : CountedRefs(c)' = CountedRefs(c)
  BY <1>0 DEF CountedRefs, Uncounted
<1>2. Exact'
  BY <1>0, <1>1, ExactSame DEF IInv
<1>3. \A c \in Cell : status[c] # "live" => mark'[c] = 0
  BY <1>0, PassOwners
<1>4. /\ NoDangling' /\ FreeIsBlank' /\ AuxLayered' /\ FreeingDead' /\ AuxReferred'
      /\ RunPass' /\ SweepPass'
  BY <1>0, <1>3, PassFrame
<1>5. DecrefPass' /\ RestorePass'
  BY <1>0 DEF DecrefPass, RestorePass
<1>6. ScanPass'
  BY <1>0 DEF IInv, DecrefPass, ScanPass
<1> QED BY <1>2, <1>4, <1>5, <1>6 DEF IInv

(* gc_scan_obj of a live cell c, dropping from the pending visits only     *)
(* visits of c.                                                            *)
LEMMA ScanObjInv ==
  ASSUME IInv, TypeOK', phase = "scan",
         NEW c \in Cell, status[c] = "live",
         NEW p \in SUBSET visit, \A x \in visit \ p : slot[x] = c,
         gc_scan_obj(c, work, p),
         UNCHANGED <<status, slot, weakKey, held, rc, phase, teardown>>
  PROVE  IInv'
<1>1. /\ \A d \in Cell : mark[d] \in {0, 1, 2}
      /\ \A d \in Cell : mark[d] = 2 => rc[d] = 0
      /\ \A x \in work : mark[x[1]] = 0 /\ slot[x] # Null
      /\ \A x \in visit : slot[x] # Null
  BY DEF IInv, ScanPass
<1>2. TypeOK /\ rc[c] \in Nat /\ \A x \in Edge : x[1] \in Cell
  BY CountIsPositive, EdgeFacts DEF IInv
<1>3. \/ mark[c] # 1 /\ mark' = mark /\ work' = work /\ visit' = p
      \/ /\ mark[c] = 1 /\ rc[c] > 0
         /\ mark' = [mark EXCEPT ![c] = 0] /\ work' = work \cup Children(c) /\ visit' = p
      \/ /\ mark[c] = 1 /\ rc[c] = 0
         /\ mark' = [mark EXCEPT ![c] = 2] /\ work' = work /\ visit' = p \cup Children(c)
  BY <1>2 DEF gc_scan_obj
<1>4. \A d \in Cell : d # c => mark'[d] = mark[d]
  BY <1>2, <1>3 DEF TypeOK
<1>5. \A d \in Cell : CountedRefs(d)' = CountedRefs(d)
  <2>1. \A d \in Cell : d # Null
    BY HeapAssumption
  <2>2. ASSUME NEW x \in Edge, slot[x] # Null
        PROVE  (mark'[x[1]] # 0 \/ x \in work') <=> (mark[x[1]] # 0 \/ x \in work)
    BY <2>2, <1>1, <1>2, <1>3 DEF Children, TypeOK
  <2> QED BY <2>1, <2>2 DEF CountedRefs, Uncounted
<1>6. Exact'
  BY <1>5, ExactSame DEF IInv
<1>7. \A d \in Cell : status[d] # "live" => mark'[d] = 0
  BY <1>4, PassOwners
<1>8. /\ NoDangling' /\ FreeIsBlank' /\ AuxLayered' /\ FreeingDead' /\ AuxReferred'
      /\ RunPass' /\ SweepPass'
  BY <1>7, PassFrame
<1>9. ScanPass'
  <2>1. \A d \in Cell : mark'[d] \in {0, 1, 2} /\ (mark'[d] = 2 => rc'[d] = 0)
    BY <1>1, <1>2, <1>3 DEF TypeOK
  <2>2. /\ \A x \in work' : mark'[x[1]] = 0 /\ slot'[x] # Null
        /\ \A x \in visit' : slot'[x] # Null
    BY <1>1, <1>2, <1>3 DEF TypeOK, Children
  <2>3. ASSUME NEW a \in Aux, mark'[a] = 1
        PROVE  \E x \in Edge : slot'[x] = a /\ (mark'[x[1]] = 1 \/ x \in visit' \/ x \in work')
    <3>1. a \in Cell /\ a # c /\ mark[a] = 1
      BY <2>3, <1>2, <1>3 DEF Cell, TypeOK
    <3>2. PICK x \in Edge : slot[x] = a /\ (mark[x[1]] = 1 \/ x \in visit \/ x \in work)
      BY <3>1 DEF IInv, ScanPass
    <3>3. a # Null
      BY <3>1, HeapAssumption
    <3> QED BY <3>1, <3>2, <3>3, <1>2, <1>3, <1>4 DEF Children
  <2> QED BY <2>1, <2>2, <2>3 DEF ScanPass
<1>10. DecrefPass' /\ RestorePass'
  BY DEF DecrefPass, RestorePass
<1> QED BY <1>6, <1>8, <1>9, <1>10 DEF IInv

LEMMA gc_scanInv ==
  ASSUME IInv, TypeOK', NEW o \in Obj, gc_scan(o)
  PROVE  IInv'
<1>1. /\ phase = "scan" /\ work = {} /\ visit = {} /\ o \in LiveObj
      /\ gc_scan_obj(o, work, visit)
      /\ UNCHANGED <<status, slot, weakKey, held, rc, phase, teardown>>
  BY DEF gc_scan
<1>2. o \in Cell /\ status[o] = "live"
  BY <1>1 DEF LiveObj, Live
<1> QED BY <1>1, <1>2, ScanObjInv

LEMMA gc_scan_childInv ==
  ASSUME IInv, TypeOK', NEW e \in Edge, gc_scan_child(e)
  PROVE  IInv'
<1>1. /\ phase = "scan" /\ e \in visit
      /\ gc_scan_obj(slot[e], work, visit \ {e})
      /\ UNCHANGED <<status, slot, weakKey, held, rc, phase, teardown>>
  BY DEF gc_scan_child
<1>2. slot[e] # Null
  BY <1>1 DEF IInv, ScanPass
<1>3. slot[e] \in Cell /\ status[slot[e]] = "live"
  BY <1>1, <1>2, PassOwners
<1> QED BY <1>1, <1>3, ScanObjInv

LEMMA gc_scan_incref_childInv ==
  ASSUME IInv, TypeOK', NEW e \in Edge, gc_scan_incref_child(e)
  PROVE  IInv'
<1> DEFINE c == slot[e]
<1>0. /\ phase = "scan" /\ e \in work
      /\ rc' = [rc EXCEPT ![c] = @ + 1]
      /\ mark' = [mark EXCEPT ![c] = 0]
      /\ work' = (work \ {e}) \cup (IF mark[c] # 0 THEN Children(c) ELSE {})
      /\ UNCHANGED <<status, slot, weakKey, held, phase, visit, teardown>>
  BY DEF gc_scan_incref_child
<1>1. /\ mark[e[1]] = 0 /\ c # Null /\ c \in Cell /\ status[c] = "live"
      /\ \A d \in Cell : mark[d] \in {0, 1, 2}
      /\ \A d \in Cell : mark[d] = 2 => rc[d] = 0
      /\ \A x \in work : mark[x[1]] = 0 /\ slot[x] # Null
      /\ \A x \in visit : slot[x] # Null
  BY <1>0, PassOwners DEF IInv, ScanPass
<1>2. /\ \A d \in Cell : mark'[d] = IF d = c THEN 0 ELSE mark[d]
      /\ \A d \in Cell : d # c => rc'[d] = rc[d]
  BY <1>0 DEF IInv, TypeOK
<1>3. \A d \in Cell : CountedRefs(d)' = IF d = c THEN CountedRefs(d) \cup {e} ELSE CountedRefs(d)
  <2>1. \A d \in Cell : d # Null
    BY HeapAssumption
  <2>2. ASSUME NEW x \in Edge, slot[x] # Null
        PROVE  ~(mark'[x[1]] # 0 \/ x \in work') <=> (~(mark[x[1]] # 0 \/ x \in work) \/ x = e)
    <3>1. x[1] \in Cell
      BY EdgeFacts
    <3>2. CASE mark[c] = 0
      BY <3>1, <3>2, <1>0, <1>1, <1>2
    <3>3. CASE mark[c] # 0
      BY <3>1, <3>3, <2>2, <1>0, <1>1, <1>2 DEF Children
    <3> QED BY <3>2, <3>3
  <2> QED BY <2>1, <2>2, <1>0 DEF CountedRefs, Uncounted
<1>4. Exact'
  <2>1. e \notin CountedRefs(c)
    BY <1>0 DEF CountedRefs, Uncounted
  <2> QED BY <2>1, <1>0, <1>1, <1>3, ExactIncref DEF IInv
<1>5. \A d \in Cell : status[d] # "live" => mark'[d] = 0
  BY <1>0, <1>1, <1>2, PassOwners
<1>6. /\ NoDangling' /\ FreeIsBlank' /\ AuxLayered' /\ FreeingDead' /\ AuxReferred'
      /\ RunPass' /\ SweepPass'
  BY <1>0, <1>5, PassFrame
<1>7. ScanPass'
  <2>1. \A d \in Cell : mark'[d] \in {0, 1, 2} /\ (mark'[d] = 2 => rc'[d] = 0)
    BY <1>1, <1>2
  <2>2. /\ \A x \in work' : mark'[x[1]] = 0 /\ slot'[x] # Null
        /\ \A x \in visit' : slot'[x] # Null
    BY <1>0, <1>1, <1>2, EdgeFacts DEF Children, IInv, TypeOK
  <2>3. ASSUME NEW a \in Aux, mark'[a] = 1
        PROVE  \E x \in Edge : slot'[x] = a /\ (mark'[x[1]] = 1 \/ x \in visit' \/ x \in work')
    <3>1. a \in Cell /\ a # c /\ mark[a] = 1 /\ a # Null
      BY <2>3, <1>2, HeapAssumption DEF Cell
    <3>2. PICK x \in Edge : slot[x] = a /\ (mark[x[1]] = 1 \/ x \in visit \/ x \in work)
      BY <3>1, <1>0 DEF IInv, ScanPass
    <3>3. x[1] = c => x \in Children(c)
      BY <3>1, <3>2 DEF Children
    <3> QED BY <3>1, <3>2, <3>3, <1>0, <1>1, <1>2, EdgeFacts
  <2> QED BY <2>1, <2>2, <2>3 DEF ScanPass
<1>8. DecrefPass' /\ RestorePass'
  BY <1>0 DEF DecrefPass, RestorePass
<1> QED BY <1>4, <1>6, <1>7, <1>8 DEF IInv

LEMMA gc_scan_endInv ==
  ASSUME IInv, TypeOK', gc_scan_end
  PROVE  IInv'
<1>0. /\ phase = "scan" /\ work = {} /\ visit = {} /\ phase' = "restore"
      /\ \A o \in LiveObj : mark[o] # 1
      /\ UNCHANGED <<status, slot, weakKey, held, rc, mark, work, visit, teardown>>
  BY DEF gc_scan_end
<1>1. /\ \A d \in Cell : mark[d] \in {0, 1, 2}
      /\ \A d \in Cell : mark[d] = 2 => rc[d] = 0
  BY <1>0 DEF IInv, ScanPass
<1>2. \A o \in Obj : mark[o] # 1
  BY <1>0, PassOwners DEF LiveObj, Live, Cell
<1>3. \A d \in Cell : mark[d] # 1
  <2> DEFINE S == {a \in Aux : mark[a] = 1}
  <2>1. ASSUME NEW a \in S PROVE \E x \in Edge : slot[x] = a /\ x[1] \in S
    <3>1. PICK x \in Edge : slot[x] = a /\ mark[x[1]] = 1
      BY <1>0 DEF IInv, ScanPass
    <3> QED BY <3>1, <1>2, EdgeFacts DEF Cell
  <2>2. S = {}
    BY <2>1, NoOrphans DEF IInv
  <2> QED BY <2>2, <1>2 DEF Cell
<1>4. ASSUME NEW d \in Cell, mark[d] # 0
      PROVE  held[d] = 0 /\ \A x \in Edge : slot[x] = d => mark[x[1]] # 0
  <2>1. rc[d] = 0
    BY <1>1, <1>3, <1>4
  <2>2. held[d] = 0 /\ CountedRefs(d) = {}
    BY <2>1, CountIsPositive
  <2> QED BY <2>2, <1>0 DEF CountedRefs, Uncounted
<1>5. \A c \in Cell : CountedRefs(c)' = CountedRefs(c)
  BY <1>0, <1>1, <1>3, EdgeFacts DEF CountedRefs, Uncounted
<1>6. Exact'
  BY <1>0, <1>5, ExactSame DEF IInv
<1>7. \A c \in Cell : status[c] # "live" => mark'[c] = 0
  BY <1>0, PassOwners
<1>8. /\ NoDangling' /\ FreeIsBlank' /\ AuxLayered' /\ FreeingDead' /\ AuxReferred'
      /\ RunPass' /\ SweepPass'
  BY <1>0, <1>7, PassFrame
<1>9. RestorePass'
  <2>1. /\ visit' = {} /\ work' = {}
        /\ \A d \in Cell : mark'[d] \in {0, 2, 3} /\ (mark'[d] # 0 => held'[d] = 0)
    BY <1>0, <1>1, <1>3, <1>4
  <2>2. ASSUME NEW x \in Edge, mark'[x[1]] = 0, slot'[x] # Null PROVE mark'[slot'[x]] = 0
    BY <2>2, <1>0, <1>4 DEF IInv, TypeOK
  <2>3. ASSUME NEW a \in Aux, mark'[a] = 2
        PROVE  \E x \in Edge : slot'[x] = a /\ mark'[x[1]] = 2
    <3>1. a \in Cell /\ status[a] = "live" /\ held[a] = 0
      BY <2>3, <1>0, <1>4, PassOwners DEF Cell
    <3>2. PICK x \in Edge : slot[x] = a
      BY <3>1 DEF IInv, AuxReferred
    <3>3. mark[x[1]] # 0 /\ x[1] \in Cell
      BY <3>1, <3>2, <2>3, <1>0, <1>4, EdgeFacts
    <3> QED BY <3>2, <3>3, <1>0, <1>1, <1>3
  <2> QED BY <2>1, <2>2, <2>3 DEF RestorePass
<1>10. DecrefPass' /\ ScanPass'
  BY <1>0 DEF DecrefPass, ScanPass
<1> QED BY <1>6, <1>8, <1>9, <1>10 DEF IInv

LEMMA gc_scan2Inv ==
  ASSUME IInv, TypeOK', NEW o \in Obj, gc_scan2(o)
  PROVE  IInv'
<1>0. /\ phase = "restore" /\ work = {} /\ o \in LiveObj /\ mark[o] = 2
      /\ mark' = [mark EXCEPT ![o] = 3]
      /\ work' = Children(o)
      /\ UNCHANGED <<status, slot, weakKey, held, rc, phase, visit, teardown>>
  BY DEF gc_scan2
<1>1. o \in Cell /\ status[o] = "live" /\ o \notin Aux
  BY <1>0, HeapAssumption DEF LiveObj, Live, Cell
<1>2. /\ \A c \in Cell : mark'[c] = IF c = o THEN 3 ELSE mark[c]
      /\ \A c \in Cell : mark[c] \in {0, 2, 3}
  BY <1>0 DEF IInv, TypeOK, RestorePass
<1>3. \A c \in Cell : CountedRefs(c)' = CountedRefs(c)
  <2>1. \A c \in Cell : c # Null
    BY HeapAssumption
  <2> QED BY <2>1, <1>0, <1>2, EdgeFacts DEF CountedRefs, Uncounted, Children
<1>4. Exact'
  BY <1>0, <1>3, ExactSame DEF IInv
<1>5. \A c \in Cell : status[c] # "live" => mark'[c] = 0
  BY <1>0, <1>1, <1>2, PassOwners
<1>6. /\ NoDangling' /\ FreeIsBlank' /\ AuxLayered' /\ FreeingDead' /\ AuxReferred'
      /\ RunPass' /\ SweepPass'
  BY <1>0, <1>5, PassFrame
<1>7. RestorePass'
  <2>1. /\ visit' = {}
        /\ \A d \in Cell : mark'[d] \in {0, 2, 3} /\ (mark'[d] # 0 => held'[d] = 0)
    BY <1>0, <1>2 DEF IInv, RestorePass
  <2>2. \A x \in work' : mark'[x[1]] = 3 /\ slot'[x] # Null
    BY <1>0, <1>1, <1>2 DEF Children
  <2>3. ASSUME NEW x \in Edge, mark'[x[1]] = 0, slot'[x] # Null PROVE mark'[slot'[x]] = 0
    <3>1. x[1] \in Cell /\ slot[x] \in Cell
      BY <2>3, <1>0, EdgeFacts DEF IInv, TypeOK
    <3>2. mark[x[1]] = 0 /\ mark[slot[x]] = 0
      BY <3>1, <2>3, <1>0, <1>2 DEF IInv, RestorePass
    <3> QED BY <3>1, <3>2, <1>0, <1>2
  <2>4. ASSUME NEW a \in Aux, mark'[a] = 2
        PROVE  \E x \in Edge : slot'[x] = a /\ (mark'[x[1]] = 2 \/ x \in work')
    <3>1. a \in Cell /\ mark[a] = 2 /\ a # Null
      BY <2>4, <1>1, <1>2, HeapAssumption DEF Cell
    <3>2. PICK x \in Edge : slot[x] = a /\ mark[x[1]] = 2
      BY <3>1, <1>0 DEF IInv, RestorePass
    <3> QED BY <3>1, <3>2, <1>0, <1>2, EdgeFacts DEF Children
  <2> QED BY <2>1, <2>2, <2>3, <2>4 DEF RestorePass
<1>8. DecrefPass' /\ ScanPass'
  BY <1>0 DEF DecrefPass, ScanPass
<1> QED BY <1>4, <1>6, <1>7, <1>8 DEF IInv

LEMMA gc_scan_incref_child2Inv ==
  ASSUME IInv, TypeOK', NEW e \in Edge, gc_scan_incref_child2(e)
  PROVE  IInv'
<1> DEFINE c == slot[e]
<1>0. /\ phase = "restore" /\ e \in work
      /\ rc' = [rc EXCEPT ![c] = @ + 1]
      /\ mark' = IF mark[c] = 2 THEN [mark EXCEPT ![c] = 3] ELSE mark
      /\ work' = (work \ {e}) \cup (IF mark[c] = 2 THEN Children(c) ELSE {})
      /\ UNCHANGED <<status, slot, weakKey, held, phase, visit, teardown>>
  BY DEF gc_scan_incref_child2
<1>1. /\ mark[e[1]] = 3 /\ c # Null /\ c \in Cell /\ status[c] = "live"
      /\ \A d \in Cell : mark[d] \in {0, 2, 3}
      /\ \A x \in work : mark[x[1]] = 3 /\ slot[x] # Null
  BY <1>0, PassOwners DEF IInv, RestorePass
<1>2. \A d \in Cell : mark'[d] = IF d = c /\ mark[c] = 2 THEN 3 ELSE mark[d]
  BY <1>0 DEF IInv, TypeOK
<1>3. \A d \in Cell : CountedRefs(d)' = IF d = c THEN CountedRefs(d) \cup {e} ELSE CountedRefs(d)
  <2>1. \A d \in Cell : d # Null
    BY HeapAssumption
  <2>2. ASSUME NEW x \in Edge, slot[x] # Null
        PROVE  ~(mark'[x[1]] \in {1, 2} \/ x \in work')
                 <=> (~(mark[x[1]] \in {1, 2} \/ x \in work) \/ x = e)
    <3>1. x[1] \in Cell
      BY EdgeFacts
    <3>2. CASE mark[c] # 2
      BY <3>1, <3>2, <1>0, <1>1, <1>2
    <3>3. CASE mark[c] = 2
      BY <3>1, <3>3, <2>2, <1>0, <1>1, <1>2 DEF Children
    <3> QED BY <3>2, <3>3
  <2> QED BY <2>1, <2>2, <1>0 DEF CountedRefs, Uncounted
<1>4. Exact'
  <2>1. e \notin CountedRefs(c)
    BY <1>0 DEF CountedRefs, Uncounted
  <2> QED BY <2>1, <1>0, <1>1, <1>3, ExactIncref DEF IInv
<1>5. \A d \in Cell : status[d] # "live" => mark'[d] = 0
  BY <1>0, <1>1, <1>2, PassOwners
<1>6. /\ NoDangling' /\ FreeIsBlank' /\ AuxLayered' /\ FreeingDead' /\ AuxReferred'
      /\ RunPass' /\ SweepPass'
  BY <1>0, <1>5, PassFrame
<1>7. RestorePass'
  <2>1. /\ visit' = {}
        /\ \A d \in Cell : mark'[d] \in {0, 2, 3} /\ (mark'[d] # 0 => held'[d] = 0)
    BY <1>0, <1>1, <1>2 DEF IInv, RestorePass
  <2>2. \A x \in work' : mark'[x[1]] = 3 /\ slot'[x] # Null
    BY <1>0, <1>1, <1>2, EdgeFacts DEF Children, IInv, TypeOK
  <2>3. ASSUME NEW x \in Edge, mark'[x[1]] = 0, slot'[x] # Null PROVE mark'[slot'[x]] = 0
    <3>1. x[1] \in Cell /\ slot[x] \in Cell
      BY <2>3, <1>0, EdgeFacts DEF IInv, TypeOK
    <3>2. mark[x[1]] = 0 /\ mark[slot[x]] = 0
      BY <3>1, <2>3, <1>0, <1>2 DEF IInv, RestorePass
    <3> QED BY <3>1, <3>2, <1>0, <1>2
  <2>4. ASSUME NEW a \in Aux, mark'[a] = 2
        PROVE  \E x \in Edge : slot'[x] = a /\ (mark'[x[1]] = 2 \/ x \in work')
    <3>1. a \in Cell /\ mark[a] = 2 /\ a # Null /\ a # c
      BY <2>4, <1>2, HeapAssumption DEF Cell
    <3>2. PICK x \in Edge : slot[x] = a /\ (mark[x[1]] = 2 \/ x \in work)
      BY <3>1, <1>0 DEF IInv, RestorePass
    <3>3. x[1] = c => x \in Children(c)
      BY <3>1, <3>2 DEF Children
    <3> QED BY <3>1, <3>2, <3>3, <1>0, <1>2, EdgeFacts
  <2> QED BY <2>1, <2>2, <2>3, <2>4 DEF RestorePass
<1>8. DecrefPass' /\ ScanPass'
  BY <1>0 DEF DecrefPass, ScanPass
<1> QED BY <1>4, <1>6, <1>7, <1>8 DEF IInv

LEMMA gc_scan2_endInv ==
  ASSUME IInv, TypeOK', gc_scan2_end
  PROVE  IInv'
<1>0. /\ phase = "restore" /\ work = {} /\ phase' = "sweep"
      /\ \A o \in LiveObj : mark[o] # 2
      /\ UNCHANGED <<status, slot, weakKey, held, rc, mark, work, visit, teardown>>
  BY DEF gc_scan2_end
<1>1. \A d \in Cell : mark[d] \in {0, 2, 3} /\ (mark[d] # 0 => held[d] = 0)
  BY <1>0 DEF IInv, RestorePass
<1>2. \A o \in Obj : mark[o] # 2
  BY <1>0, PassOwners DEF LiveObj, Live, Cell
<1>3. \A d \in Cell : mark[d] # 2
  <2> DEFINE S == {a \in Aux : mark[a] = 2}
  <2>1. ASSUME NEW a \in S PROVE \E x \in Edge : slot[x] = a /\ x[1] \in S
    <3>1. PICK x \in Edge : slot[x] = a /\ mark[x[1]] = 2
      BY <1>0 DEF IInv, RestorePass
    <3> QED BY <3>1, <1>2, EdgeFacts DEF Cell
  <2>2. S = {}
    BY <2>1, NoOrphans DEF IInv
  <2> QED BY <2>2, <1>2 DEF Cell
<1>4. \A c \in Cell : CountedRefs(c)' = CountedRefs(c)
  BY <1>0, <1>1, <1>3, EdgeFacts DEF CountedRefs, Uncounted
<1>5. Exact'
  BY <1>0, <1>4, ExactSame DEF IInv
<1>6. NoDangling'
  <2>1. \A e \in Edge : slot[e] # Null =>
          /\ e[1] \in Cell /\ slot[e] \in Cell /\ status[slot[e]] = "live"
          /\ mark[e[1]] = 0 => mark[slot[e]] = 0
    BY <1>0, PassOwners DEF IInv, RestorePass
  <2>2. \A c \in Cell : held[c] > 0 => status[c] = "live" /\ mark[c] = 0
    BY <1>1 DEF IInv, NoDangling, Intact
  <2> QED BY <2>1, <2>2, <1>0 DEF NoDangling, Intact
<1>7. FreeIsBlank' /\ AuxLayered' /\ AuxReferred'
  BY <1>0 DEF IInv, FreeIsBlank, AuxLayered, AuxReferred
<1>8. FreeingDead'
  BY <1>0, PassOwners DEF FreeingDead
<1>9. SweepPass'
  BY <1>0, <1>1, <1>3 DEF IInv, RestorePass, SweepPass
<1>10. RunPass' /\ DecrefPass' /\ ScanPass' /\ RestorePass'
  BY <1>0 DEF RunPass, DecrefPass, ScanPass, RestorePass
<1> QED BY <1>5, <1>6, <1>7, <1>8, <1>9, <1>10 DEF IInv

LEMMA gc_free_cyclesInv ==
  ASSUME IInv, TypeOK', NEW o \in Obj, gc_free_cycles(o)
  PROVE  IInv'
<1>0. /\ phase = "sweep" /\ o \in LiveObj /\ mark[o] # 0
      /\ status' = [status EXCEPT ![o] = "freeing"]
      /\ UNCHANGED <<slot, weakKey, held, rc, mark, phase, work, visit, teardown>>
  BY DEF gc_free_cycles
<1>1. /\ o \in Cell /\ status[o] = "live" /\ o \notin Aux /\ mark[o] = 3
      /\ \A c \in Cell : status'[c] = IF c = o THEN "freeing" ELSE status[c]
  BY <1>0, HeapAssumption DEF LiveObj, Live, Cell, IInv, SweepPass, TypeOK
<1>2. \A c \in Cell : Intact(c) => Intact(c)' /\ c # o
  BY <1>0, <1>1 DEF Intact
<1>3. \A c \in Cell : CountedRefs(c)' = CountedRefs(c)
  BY <1>0 DEF CountedRefs, Uncounted
<1>4. Exact'
  BY <1>0, <1>3, ExactSame DEF IInv
<1>5. NoDangling'
  <2>1. \A e \in Edge : e[1] \in Cell /\ slot[e] \in Cell \cup {Null}
    BY EdgeFacts DEF IInv, TypeOK
  <2> QED BY <2>1, <1>0, <1>1 DEF IInv, NoDangling, Intact
<1>6. FreeIsBlank' /\ AuxLayered' /\ AuxReferred'
  BY <1>0, <1>1 DEF IInv, FreeIsBlank, AuxLayered, AuxReferred, Cell
<1>7. FreeingDead'
  BY <1>0, <1>1 DEF IInv, FreeingDead
<1>8. RunPass' /\ DecrefPass' /\ ScanPass' /\ RestorePass' /\ SweepPass'
  BY <1>0 DEF IInv, RunPass, DecrefPass, ScanPass, RestorePass, SweepPass
<1> QED BY <1>4, <1>5, <1>6, <1>7, <1>8 DEF IInv

(* When the sweep is over nothing marked is left and nothing refers to     *)
(* what waits on free_obj_list.                                            *)
LEMMA SweepOver ==
  ASSUME IInv, phase = "sweep", ~Draining, ~ \E c \in Aux : Returnable(c),
         \A o \in LiveObj : mark[o] = 0
  PROVE  /\ \A c \in Cell : status[c] = "live" => Intact(c)
         /\ \A e \in Edge : slot[e] # Null => Intact(e[1]) /\ Intact(slot[e])
         /\ \A e \in Edge : status[e[1]] # "live" => slot[e] = Null /\ weakKey[e] = Null
         /\ \A e \in Edge : weakKey[e] # Null => status[weakKey[e]] = "live"
<1>1. \A e \in Edge : e[1] \in Cell /\ slot[e] \in Cell \cup {Null} /\ weakKey[e] \in Cell \cup {Null}
  BY EdgeFacts DEF IInv, TypeOK, Cell
<1>2. \A e \in Edge : status[e[1]] # "live" => slot[e] = Null /\ weakKey[e] = Null
  BY <1>1 DEF Draining, Doomed, IInv, FreeIsBlank, TypeOK, Status
<1>3. \A e \in Edge : weakKey[e] # Null => status[weakKey[e]] = "live"
  BY <1>1 DEF Draining, Doomed, IInv, FreeIsBlank, TypeOK, Status
<1>4. \A o \in Obj : status[o] = "live" => Intact(o)
  BY DEF Intact, LiveObj, Live, Cell
<1>5. \A a \in Aux : status[a] = "live" => Intact(a)
  <2> DEFINE S == {a \in Aux : status[a] = "live" /\ ~Intact(a)}
  <2>1. ASSUME NEW a \in S PROVE \E x \in Edge : slot[x] = a /\ x[1] \in S
    <3>1. PICK x \in Edge : slot[x] = a
      BY DEF IInv, AuxReferred, NoDangling, Cell
    <3>2. slot[x] # Null /\ status[x[1]] = "live"
      BY <3>1, <1>2, HeapAssumption DEF Cell
    <3>3. ~Intact(x[1])
      BY <3>1, <3>2 DEF IInv, NoDangling
    <3> QED BY <3>1, <3>2, <3>3, <1>1, <1>4 DEF Cell
  <2>2. S = {}
    BY <2>1, NoOrphans DEF IInv
  <2> QED BY <2>2
<1>6. \A c \in Cell : status[c] = "live" => Intact(c)
  BY <1>4, <1>5 DEF Cell
<1>7. ASSUME NEW e \in Edge, slot[e] # Null PROVE Intact(e[1]) /\ Intact(slot[e])
  <2>1. Intact(e[1])
    BY <1>7, <1>1, <1>2, <1>6
  <2> QED BY <2>1, <1>7 DEF IInv, NoDangling
<1> QED BY <1>2, <1>3, <1>6, <1>7

LEMMA gc_free_cycles_endInv ==
  ASSUME IInv, TypeOK', gc_free_cycles_end
  PROVE  IInv'
<1>0. /\ phase = "sweep" /\ phase' = "run"
      /\ status' = [c \in Cell |-> IF status[c] = "freeing" THEN "free" ELSE status[c]]
      /\ mark' = [c \in Cell |-> IF status[c] = "freeing" THEN 0 ELSE mark[c]]
      /\ UNCHANGED <<slot, weakKey, held, rc, work, visit, teardown>>
  BY DEF gc_free_cycles_end
<1>1. /\ \A c \in Cell : status[c] = "live" => Intact(c)
      /\ \A e \in Edge : slot[e] # Null => Intact(e[1]) /\ Intact(slot[e])
      /\ \A e \in Edge : status[e[1]] # "live" => slot[e] = Null /\ weakKey[e] = Null
      /\ \A e \in Edge : weakKey[e] # Null => status[weakKey[e]] = "live"
  BY SweepOver DEF gc_free_cycles_end
<1>2. \A c \in Cell : /\ status'[c] = IF status[c] = "live" THEN "live" ELSE "free"
                      /\ mark'[c] = 0
  BY <1>0, <1>1 DEF IInv, TypeOK, Status, Intact, FreeIsBlank
<1>3. \A c \in Cell : CountedRefs(c)' = CountedRefs(c)
  BY <1>0 DEF CountedRefs, Uncounted
<1>4. Exact'
  BY <1>0, <1>3, ExactSame DEF IInv
<1>5. NoDangling'
  <2>1. \A e \in Edge : e[1] \in Cell /\ slot[e] \in Cell \cup {Null}
    BY EdgeFacts DEF IInv, TypeOK
  <2> QED BY <2>1, <1>0, <1>1, <1>2 DEF IInv, NoDangling, Intact
<1>6. FreeIsBlank'
  <2> SUFFICES ASSUME NEW c \in Cell, status[c] # "live"
               PROVE  /\ held[c] = 0
                      /\ \A e \in Edge : /\ slot[e] # c /\ weakKey[e] # c
                                         /\ e[1] = c => slot[e] = Null /\ weakKey[e] = Null
    BY <1>0, <1>2 DEF FreeIsBlank
  <2>1. held[c] \in Nat /\ c # Null
    BY HeapAssumption DEF IInv, TypeOK
  <2>2. ~(held[c] > 0)
    BY DEF IInv, NoDangling, Intact
  <2> QED BY <2>1, <2>2, <1>1 DEF Intact
<1>7. AuxLayered' /\ AuxReferred'
  BY <1>0, <1>2 DEF IInv, AuxLayered, AuxReferred, Cell
<1>8. FreeingDead'
  BY <1>2 DEF FreeingDead
<1>9. RunPass'
  BY <1>0, <1>2 DEF IInv, SweepPass, RunPass
<1>10. DecrefPass' /\ ScanPass' /\ RestorePass' /\ SweepPass'
  BY <1>0 DEF DecrefPass, ScanPass, RestorePass, SweepPass
<1> QED BY <1>4, <1>5, <1>6, <1>7, <1>8, <1>9, <1>10 DEF IInv

-----------------------------------------------------------------------------
(* The invariant, and what it says of the program.                         *)

LEMMA InitInv == Init => IInv
<1> SUFFICES ASSUME Init PROVE IInv
  OBVIOUS
<1>1. TypeOK
  BY TypeInit
<1>2. /\ \A c \in Cell : status[c] = "free" /\ held[c] = 0 /\ rc[c] = 0 /\ mark[c] = 0
      /\ \A e \in Edge : slot[e] = Null /\ weakKey[e] = Null
      /\ phase = "run" /\ work = {} /\ visit = {}
  BY DEF Init
<1>3. Null \notin Cell
  BY HeapAssumption
<1>4. Exact
  <2> SUFFICES ASSUME NEW c \in Cell
               PROVE  rc[c] = held[c] + Cardinality(CountedRefs(c))
    BY DEF Exact
  <2>1. CountedRefs(c) = {}
    BY <1>2, <1>3 DEF CountedRefs
  <2>2. Cardinality(CountedRefs(c)) = 0
    BY <2>1, FS_EmptySet
  <2> QED BY <1>2, <2>2
<1>5. NoDangling /\ FreeIsBlank /\ FreeingDead /\ AuxReferred
  BY <1>2, <1>3, EdgeFacts DEF NoDangling, FreeIsBlank, FreeingDead, AuxReferred, Cell
<1>6. AuxLayered
  BY <1>2, <1>3, EdgeFacts DEF AuxLayered, Layered, Cell
<1>7. RunPass /\ DecrefPass /\ ScanPass /\ RestorePass /\ SweepPass
  BY <1>2 DEF RunPass, DecrefPass, ScanPass, RestorePass, SweepPass
<1> QED BY <1>1, <1>4, <1>5, <1>6, <1>7 DEF IInv

LEMMA MutatorInv ==
  ASSUME IInv, TypeOK', Mutator
  PROVE  IInv'
<1>1. ASSUME NEW c \in Cell, New(c) PROVE IInv'
  BY <1>1, NewInv
<1>2. ASSUME NEW c \in Cell, JS_DupValue(c) PROVE IInv'
  <2>1. held[c] > 0
    BY <1>2, HeapAssumption DEF JS_DupValue, IInv, TypeOK
  <2>2. Intact(c)
    BY <2>1 DEF IInv, NoDangling
  <2> QED BY <1>2, <2>2, TakeInv DEF JS_DupValue
<1>3. ASSUME NEW c \in Cell, JS_FreeValue(c) PROVE IInv'
  BY <1>3, JS_FreeValueInv
<1>4. ASSUME NEW e \in Edge, JS_GetProperty(e) PROVE IInv'
  <2>1. slot[e] \in Cell /\ e[1] \in Cell
    BY <1>4, EdgeFacts DEF JS_GetProperty, IInv, TypeOK
  <2>2. Intact(slot[e])
    BY <1>4, <2>1 DEF JS_GetProperty, IInv, NoDangling
  <2> QED BY <1>4, <2>1, <2>2, TakeInv DEF JS_GetProperty
<1>5. ASSUME NEW e \in Strong, NEW v \in Cell \cup {Null}, set_value(e, v) PROVE IInv'
  BY <1>5, set_valueInv
<1>6. ASSUME NEW e \in Record, js_map_delete(e) PROVE IInv'
  BY <1>6, js_map_deleteInv
<1>7. ASSUME NEW e \in Record, NEW k \in Obj, NEW v \in Cell \cup {Null}, js_map_set(e, k, v)
      PROVE  IInv'
  BY <1>7, js_map_setInv
<1> QED BY <1>1, <1>2, <1>3, <1>4, <1>5, <1>6, <1>7 DEF Mutator

LEMMA CollectorInv ==
  ASSUME IInv, TypeOK', Collector
  PROVE  IInv'
<1>1. ASSUME NEW o \in Obj, gc_decref(o) PROVE IInv'
  BY <1>1, gc_decrefInv
<1>2. ASSUME NEW o \in Obj, gc_scan(o) PROVE IInv'
  BY <1>2, gc_scanInv
<1>3. ASSUME NEW o \in Obj, gc_scan2(o) PROVE IInv'
  BY <1>3, gc_scan2Inv
<1>4. ASSUME NEW o \in Obj, gc_free_cycles(o) PROVE IInv'
  BY <1>4, gc_free_cyclesInv
<1>5. ASSUME NEW e \in Edge, gc_decref_child(e) PROVE IInv'
  BY <1>5, gc_decref_childInv
<1>6. ASSUME NEW e \in Edge, gc_scan_child(e) PROVE IInv'
  BY <1>6, gc_scan_childInv
<1>7. ASSUME NEW e \in Edge, gc_scan_incref_child(e) PROVE IInv'
  BY <1>7, gc_scan_incref_childInv
<1>8. ASSUME NEW e \in Edge, gc_scan_incref_child2(e) PROVE IInv'
  BY <1>8, gc_scan_incref_child2Inv
<1>9. ASSUME gc_decref_end \/ gc_scan_end \/ gc_scan2_end \/ gc_free_cycles_end PROVE IInv'
  BY <1>9, gc_decref_endInv, gc_scan_endInv, gc_scan2_endInv, gc_free_cycles_endInv
<1> QED BY <1>1, <1>2, <1>3, <1>4, <1>5, <1>6, <1>7, <1>8, <1>9 DEF Collector

LEMMA StepInv ==
  ASSUME IInv, [Next]_vars
  PROVE  IInv'
<1>0. TypeOK'
  BY TypeStep DEF IInv
<1>1. CASE Mutator
  BY <1>0, <1>1, MutatorInv
<1>2. CASE JS_RunGC \/ JS_FreeRuntime
  BY <1>0, <1>2, StartInv
<1>3. CASE Collector
  BY <1>0, <1>3, CollectorInv
<1>4. ASSUME NEW e \in Edge, Release(e) PROVE IInv'
  BY <1>0, <1>4, ReleaseInv
<1>5. ASSUME NEW c \in Cell, FreeStruct(c) PROVE IInv'
  BY <1>0, <1>5, FreeStructInv
<1>6. CASE UNCHANGED vars
  BY <1>6 DEF vars, IInv, TypeOK, Exact, CountedRefs, Uncounted, NoDangling, Intact, FreeIsBlank,
       AuxLayered, FreeingDead, AuxReferred, RunPass, DecrefPass, ScanPass, RestorePass, SweepPass
<1> QED BY <1>1, <1>2, <1>3, <1>4, <1>5, <1>6 DEF Next, Freeing, Finished

(* The counts are exact, nothing dangles and each pass of JS_RunGC has     *)
(* done its part, in any finite heap and any order of the mark calls.      *)
THEOREM HeapInvariant == Spec => []IInv
BY InitInv, StepInv, PTL DEF Spec

(* header.ref_count is the number of references to a structure, less       *)
(* exactly those gc_decref has taken off and gc_scan not put back.         *)
THEOREM CountsExact == Spec => []RefCountExact
<1>1. IInv => RefCountExact
  BY DEF IInv, Exact, RefCountExact, Live
<1> QED BY <1>1, HeapInvariant, PTL

(* Following references from what the program holds never leads to memory  *)
(* that __JS_FreeValueRT or gc_free_cycles has freed.                      *)
THEOREM MemorySafe == Spec => []NoDangling
<1>1. IInv => NoDangling
  BY DEF IInv
<1> QED BY <1>1, HeapInvariant, PTL

(* JS_RunGC leaves every survivor unmarked for the next collection. *)
THEOREM MarksReset == Spec => []SurvivorsUnmarked
<1>1. IInv => SurvivorsUnmarked
  BY DEF IInv, RunPass, SurvivorsUnmarked, Live
<1> QED BY <1>1, HeapInvariant, PTL

(* No assertion of gc_decref_child or gc_free_cycles can fail. *)
THEOREM AssertionsHold == Spec => []CollectorAssertions
<1>1. ASSUME IInv PROVE CollectorAssertions
  <2>1. ASSUME phase = "decref", NEW e \in work PROVE rc[slot[e]] > 0
    <3>1. e \in Edge /\ slot[e] \in Cell
      BY <1>1, <2>1 DEF IInv, TypeOK, DecrefPass
    <3>2. e \in CountedRefs(slot[e])
      BY <2>1, <3>1 DEF CountedRefs, Uncounted
    <3>3. rc[slot[e]] \in Nat /\ rc[slot[e]] # 0
      BY <1>1, <3>1, <3>2, CountIsPositive
    <3> QED BY <3>3
  <2>2. phase = "sweep" => \A o \in LiveObj : mark[o] \in {0, 3}
    BY <1>1 DEF IInv, SweepPass, LiveObj, Live
  <2> QED BY <2>1, <2>2 DEF CollectorAssertions
<1> QED BY <1>1, HeapInvariant, PTL

(* A WeakMap record never names a key whose memory is gone. *)
THEOREM WeakKeysSafe == Spec => []WeakKeysLive
<1>1. ASSUME IInv PROVE WeakKeysLive
  <2> SUFFICES ASSUME NEW e \in Edge, weakKey[e] # Null
               PROVE  /\ status[weakKey[e]] # "free"
                      /\ Mutating => status[weakKey[e]] = "live"
    BY DEF WeakKeysLive
  <2>1. weakKey[e] \in Cell
    BY <1>1 DEF IInv, TypeOK, Cell
  <2>2. status[weakKey[e]] # "free"
    BY <1>1, <2>1 DEF IInv, FreeIsBlank
  <2>3. Mutating => status[weakKey[e]] # "freeing"
    BY <1>1, <2>1, Quiet
  <2> QED BY <1>1, <2>1, <2>2, <2>3 DEF IInv, TypeOK, Status
<1> QED BY <1>1, HeapInvariant, PTL

-----------------------------------------------------------------------------
(* The collection is complete.  On top of IInv, what each pass has already *)
(* established about structures that nothing outside of them refers to.    *)

(* gc_decref goes on from every structure it marks. *)
DecrefReached ==
  phase = "decref" =>
    \A e \in Edge : mark[e[1]] # 0 /\ slot[e] # Null /\ e \notin work => mark[slot[e]] # 0

(* gc_scan never takes the mark from a structure that cannot be reached. *)
CyclesMarked ==
  phase \in {"scan", "restore"} =>
    \A S \in SUBSET Live : Unreachable(S) => \A c \in S : mark[c] # 0

(* With nothing held outside, everything is marked when the sweep of the   *)
(* last collection begins.                                                 *)
LastCollection ==
  teardown /\ (\A c \in Cell : held[c] = 0) =>
    /\ phase = "sweep" => \A c \in Live : mark[c] # 0
    /\ phase = "run" => LiveObj = {}

CInv == DecrefReached /\ CyclesMarked /\ LastCollection

(* What refers to a member of a set nothing outside refers to is a member. *)
LEMMA UnreachableFacts ==
  ASSUME IInv, NEW S \in SUBSET Live, Unreachable(S), NEW c \in S
  PROVE  /\ c \in Cell /\ c # Null /\ status[c] = "live" /\ held[c] = 0
         /\ \A e \in Edge : slot[e] = c => e[1] \in S
BY HeapAssumption DEF Live, Unreachable

LEMMA gc_decref_childReached ==
  ASSUME IInv, CInv, NEW e \in Edge, gc_decref_child(e)
  PROVE  DecrefReached'
<1> DEFINE c == slot[e]
<1>0. /\ phase = "decref" /\ e \in work
      /\ mark' = [mark EXCEPT ![c] = 1]
      /\ work' = (work \ {e}) \cup (IF mark[c] = 0 THEN Children(c) ELSE {})
      /\ slot' = slot
  BY DEF gc_decref_child
<1>1. c \in Cell
  BY <1>0 DEF IInv, TypeOK, DecrefPass
<1>2. \A d \in Cell : mark'[d] = IF d = c THEN 1 ELSE mark[d]
  BY <1>0, <1>1 DEF IInv, TypeOK
<1> SUFFICES ASSUME NEW x \in Edge, mark'[x[1]] # 0, slot[x] # Null, x \notin work'
             PROVE  mark'[slot[x]] # 0
  BY <1>0 DEF DecrefReached
<1>3. x[1] \in Cell /\ slot[x] \in Cell
  BY EdgeFacts DEF IInv, TypeOK
<1>4. CASE x = e
  BY <1>4, <1>1, <1>2
<1>5. CASE x # e
  <2>1. x \notin work
    BY <1>5, <1>0
  <2>2. mark[x[1]] # 0
    BY <1>0, <1>2, <1>3 DEF Children
  <2>3. mark[slot[x]] # 0
    BY <2>1, <2>2, <1>0 DEF CInv, DecrefReached
  <2> QED BY <2>3, <1>2, <1>3
<1> QED BY <1>4, <1>5

(* When gc_decref is over, no unreachable structure is without a mark.     *)
LEMMA gc_decref_endMarks ==
  ASSUME IInv, CInv, gc_decref_end
  PROVE  CyclesMarked'
<1>0. /\ phase = "decref" /\ work = {} /\ \A o \in LiveObj : mark[o] # 0
      /\ UNCHANGED <<status, slot, held, mark>>
  BY DEF gc_decref_end
<1> SUFFICES ASSUME NEW S \in SUBSET Live, Unreachable(S)
             PROVE  \A c \in S : mark[c] # 0
  BY <1>0 DEF CyclesMarked, Live, Unreachable
<1> DEFINE U == {a \in S : mark[a] = 0}
<1>1. U \in SUBSET Aux
  BY <1>0 DEF LiveObj, Live, Cell
<1>2. ASSUME NEW a \in U PROVE \E x \in Edge : slot[x] = a /\ x[1] \in U
  <2>1. /\ a \in Cell /\ a # Null /\ status[a] = "live" /\ held[a] = 0
        /\ \A x \in Edge : slot[x] = a => x[1] \in S
    BY UnreachableFacts
  <2>2. PICK x \in Edge : slot[x] = a
    BY <2>1, <1>1 DEF IInv, AuxReferred
  <2>3. mark[x[1]] = 0
    BY <2>1, <2>2, <1>0 DEF CInv, DecrefReached
  <2> QED BY <2>1, <2>2, <2>3
<1>3. U = {}
  BY <1>1, <1>2, NoOrphans DEF IInv
<1> QED BY <1>3

(* In gc_scan, the count of a member of an unreachable set is zero.        *)
LEMMA CycleUncounted ==
  ASSUME IInv, CInv, phase = "scan",
         NEW S \in SUBSET Live, Unreachable(S), NEW c \in S
  PROVE  rc[c] = 0
<1>1. /\ c \in Cell /\ held[c] = 0
      /\ \A x \in Edge : slot[x] = c => x[1] \in S
  BY UnreachableFacts
<1>2. \A x \in Edge : slot[x] = c => mark[x[1]] # 0
  BY <1>1 DEF CInv, CyclesMarked
<1>3. CountedRefs(c) = {}
  BY <1>2 DEF CountedRefs, Uncounted
<1> QED BY <1>1, <1>3, CountIsPositive

LEMMA ScanObjMarks ==
  ASSUME IInv, CInv, phase = "scan", NEW d \in Cell, NEW w, NEW p, gc_scan_obj(d, w, p),
         NEW S \in SUBSET Live, Unreachable(S), NEW c \in S
  PROVE  mark'[c] # 0
<1>1. c \in Cell
  BY UnreachableFacts
<1>2. mark[c] # 0 /\ rc[c] = 0
  BY CycleUncounted DEF CInv, CyclesMarked
<1>3. mark' = mark \/ (mark' = [mark EXCEPT ![d] = 0] /\ rc[d] > 0)
        \/ mark' = [mark EXCEPT ![d] = 2]
  BY DEF gc_scan_obj
<1> QED BY <1>1, <1>2, <1>3 DEF IInv, TypeOK

LEMMA CyclesMarkedStep ==
  ASSUME IInv, CInv, [Next]_vars
  PROVE  CyclesMarked'
<1> SUFFICES ASSUME phase' \in {"scan", "restore"},
                    ~ gc_decref_end
             PROVE  CyclesMarked'
  BY gc_decref_endMarks DEF CyclesMarked
<1>0. /\ phase \in {"scan", "restore"}
      /\ UNCHANGED <<status, slot, held>>
      /\ \A S \in SUBSET Live : Unreachable(S) => \A c \in S : mark'[c] # 0
  <2> DEFINE Kept == /\ phase \in {"scan", "restore"}
                     /\ UNCHANGED <<status, slot, held>>
                     /\ \A S \in SUBSET Live : Unreachable(S) => \A c \in S : mark'[c] # 0
  <2> SUFFICES Kept
    OBVIOUS
  <2>0. ASSUME phase \in {"scan", "restore"}, UNCHANGED <<status, slot, held, mark>> PROVE Kept
    BY <2>0 DEF CInv, CyclesMarked
  <2>1. ASSUME NEW o \in Obj, gc_scan(o) PROVE Kept
    <3>1. o \in Cell
      BY DEF Cell
    <3>2. phase = "scan" /\ UNCHANGED <<status, slot, held>> /\ gc_scan_obj(o, {}, {})
      BY <2>1 DEF gc_scan
    <3> QED BY <3>1, <3>2, ScanObjMarks
  <2>2. ASSUME NEW e \in Edge, gc_scan_child(e) PROVE Kept
    <3>1. phase = "scan" /\ e \in visit /\ UNCHANGED <<status, slot, held>>
          /\ gc_scan_obj(slot[e], work, visit \ {e})
      BY <2>2 DEF gc_scan_child
    <3>2. slot[e] \in Cell
      BY <3>1 DEF IInv, TypeOK, ScanPass
    <3> QED BY <3>1, <3>2, ScanObjMarks
  <2>3. ASSUME NEW e \in Edge, gc_scan_incref_child(e) PROVE Kept
    <3>1. /\ phase = "scan" /\ e \in work /\ UNCHANGED <<status, slot, held>>
          /\ mark' = [mark EXCEPT ![slot[e]] = 0]
      BY <2>3 DEF gc_scan_incref_child
    <3>2. mark[e[1]] = 0
      BY <3>1 DEF IInv, ScanPass
    <3>3. ASSUME NEW S \in SUBSET Live, Unreachable(S), NEW c \in S PROVE mark'[c] # 0
      <4>1. c \in Cell /\ (slot[e] = c => e[1] \in S)
        BY <3>3, UnreachableFacts
      <4>2. \A d \in S : mark[d] # 0
        BY <3>1, <3>3 DEF CInv, CyclesMarked
      <4> QED BY <3>1, <3>2, <3>3, <4>1, <4>2 DEF IInv, TypeOK
    <3> QED BY <3>1, <3>3
  <2>4. ASSUME NEW o \in Obj, gc_scan2(o) PROVE Kept
    <3>1. /\ phase = "restore" /\ UNCHANGED <<status, slot, held>>
          /\ mark' = [mark EXCEPT ![o] = 3]
      BY <2>4 DEF gc_scan2
    <3>2. \A d \in Cell : mark[d] # 0 => mark'[d] # 0
      BY <3>1 DEF IInv, TypeOK
    <3> QED BY <3>1, <3>2 DEF CInv, CyclesMarked, Live
  <2>5. ASSUME NEW e \in Edge, gc_scan_incref_child2(e) PROVE Kept
    <3>1. /\ phase = "restore" /\ UNCHANGED <<status, slot, held>>
          /\ mark' = mark \/ mark' = [mark EXCEPT ![slot[e]] = 3]
      BY <2>5 DEF gc_scan_incref_child2
    <3>2. \A d \in Cell : mark[d] # 0 => mark'[d] # 0
      BY <3>1 DEF IInv, TypeOK
    <3> QED BY <3>1, <3>2 DEF CInv, CyclesMarked, Live
  <2>6. CASE gc_scan_end
    BY <2>0, <2>6 DEF gc_scan_end
  <2>7. ASSUME NEW o \in Obj, gc_decref(o) \/ gc_free_cycles(o) PROVE FALSE
    BY <2>7 DEF gc_decref, gc_free_cycles
  <2>8. ASSUME NEW e \in Edge, gc_decref_child(e) PROVE FALSE
    BY <2>8 DEF gc_decref_child
  <2>9. CASE gc_scan2_end \/ gc_free_cycles_end \/ JS_RunGC \/ JS_FreeRuntime
    BY <2>9 DEF gc_scan2_end, gc_free_cycles_end, JS_RunGC, JS_FreeRuntime
  <2>10. CASE Mutator
    BY <2>10 DEF Mutator, New, JS_DupValue, JS_FreeValue, JS_GetProperty, set_value,
         js_map_delete, js_map_set, Mutating
  <2>11. ASSUME NEW e \in Edge, Release(e) PROVE Kept
    <3>1. phase \in {"scan", "restore"} /\ Doomed(e)
      BY <2>11 DEF Release
    <3>2. e[1] \in Cell /\ weakKey[e] \in Cell \cup {Null}
      BY EdgeFacts DEF IInv, TypeOK, Cell
    <3> QED BY <3>1, <3>2 DEF Doomed, IInv, FreeingDead
  <2>12. ASSUME NEW c \in Cell, FreeStruct(c) PROVE Kept
    <3>1. phase \in {"scan", "restore"} /\ status[c] = "freeing"
      BY <2>12 DEF FreeStruct, Returnable, Emptied
    <3> QED BY <3>1 DEF IInv, FreeingDead
  <2>13. CASE UNCHANGED vars
    BY <2>0, <2>13 DEF vars
  <2> QED BY <2>1, <2>2, <2>3, <2>4, <2>5, <2>6, <2>7, <2>8, <2>9, <2>10, <2>11, <2>12, <2>13
       DEF Next, Collector, Freeing, Finished
<1> QED BY <1>0 DEF CyclesMarked, Live, Unreachable

(* At the end of gc_scan everything unreachable has the mark of a member.  *)
LEMMA gc_scan2_endMarks ==
  ASSUME IInv, CInv, gc_scan2_end, NEW S \in SUBSET Live, Unreachable(S), NEW c \in S
  PROVE  mark[c] = 3
<1>1. phase' = "sweep" /\ mark' = mark /\ phase = "restore"
  BY DEF gc_scan2_end
<1>2. SweepPass'
  <2>1. TypeOK' /\ IInv
    BY TypeStep DEF IInv, Next, Collector
  <2> QED BY <2>1, gc_scan2_endInv DEF IInv
<1>3. c \in Cell /\ mark[c] # 0
  BY <1>1, UnreachableFacts DEF CInv, CyclesMarked
<1> QED BY <1>1, <1>2, <1>3 DEF SweepPass

LEMMA DecrefReachedStep ==
  ASSUME IInv, CInv, [Next]_vars
  PROVE  DecrefReached'
<1> SUFFICES ASSUME phase' = "decref" PROVE DecrefReached'
  BY DEF DecrefReached
<1>1. ASSUME NEW o \in Obj, gc_decref(o) PROVE DecrefReached'
  <2>1. /\ phase = "decref" /\ work = {} /\ slot' = slot
        /\ mark' = [mark EXCEPT ![o] = 1] /\ work' = Children(o)
    BY <1>1 DEF gc_decref
  <2>2. \A d \in Cell : mark'[d] = IF d = o THEN 1 ELSE mark[d]
    BY <2>1 DEF IInv, TypeOK
  <2> SUFFICES ASSUME NEW x \in Edge, mark'[x[1]] # 0, slot[x] # Null, x \notin work'
               PROVE  mark'[slot[x]] # 0
    BY <2>1 DEF DecrefReached
  <2>3. x[1] \in Cell /\ slot[x] \in Cell
    BY EdgeFacts DEF IInv, TypeOK
  <2>4. mark[x[1]] # 0
    BY <2>1, <2>2, <2>3 DEF Children
  <2>5. mark[slot[x]] # 0
    BY <2>1, <2>4 DEF CInv, DecrefReached
  <2> QED BY <2>2, <2>3, <2>5
<1>2. ASSUME NEW e \in Edge, gc_decref_child(e) PROVE DecrefReached'
  BY <1>2, gc_decref_childReached
<1>3. CASE JS_RunGC \/ JS_FreeRuntime
  <2>1. phase = "run" /\ mark' = mark
    BY <1>3 DEF JS_RunGC, JS_FreeRuntime, Mutating
  <2> QED BY <2>1, EdgeFacts DEF DecrefReached, IInv, RunPass
<1>4. CASE UNCHANGED vars
  BY <1>4 DEF vars, CInv, DecrefReached
<1>5. ASSUME NEW e \in Edge, Release(e) PROVE FALSE
  <2>1. phase = "decref" /\ Doomed(e)
    BY <1>5 DEF Release
  <2>2. e[1] \in Cell /\ weakKey[e] \in Cell \cup {Null}
    BY EdgeFacts DEF IInv, TypeOK, Cell
  <2> QED BY <2>1, <2>2 DEF Doomed, IInv, FreeingDead
<1>6. ASSUME NEW c \in Cell, FreeStruct(c) PROVE FALSE
  <2>1. phase = "decref" /\ status[c] = "freeing"
    BY <1>6 DEF FreeStruct, Returnable, Emptied
  <2> QED BY <2>1 DEF IInv, FreeingDead
<1>7. CASE Mutator
  BY <1>7 DEF Mutator, New, JS_DupValue, JS_FreeValue, JS_GetProperty, set_value,
     js_map_delete, js_map_set, Mutating
<1>8. ASSUME NEW o \in Obj, gc_scan(o) \/ gc_scan2(o) \/ gc_free_cycles(o) PROVE FALSE
  BY <1>8 DEF gc_scan, gc_scan2, gc_free_cycles
<1>9. ASSUME NEW e \in Edge,
             gc_scan_child(e) \/ gc_scan_incref_child(e) \/ gc_scan_incref_child2(e)
      PROVE  FALSE
  BY <1>9 DEF gc_scan_child, gc_scan_incref_child, gc_scan_incref_child2
<1>10. ~(gc_decref_end \/ gc_scan_end \/ gc_scan2_end \/ gc_free_cycles_end)
  BY DEF gc_decref_end, gc_scan_end, gc_scan2_end, gc_free_cycles_end
<1> QED BY <1>1, <1>2, <1>3, <1>4, <1>5, <1>6, <1>7, <1>8, <1>9, <1>10
     DEF Next, Collector, Freeing, Finished

(* With nothing held outside, the whole heap is unreachable.               *)
LEMMA NothingHeldFound ==
  ASSUME IInv, CInv, gc_scan2_end, \A c \in Cell : held[c] = 0
  PROVE  \A c \in Live : mark[c] = 3
<1>1. phase = "restore"
  BY DEF gc_scan2_end
<1>2. ASSUME NEW e \in Edge, slot[e] \in Live PROVE e[1] \in Live
  <2>1. slot[e] # Null /\ e[1] \in Cell
    BY <1>2, EdgeFacts, HeapAssumption DEF Live
  <2>2. status[e[1]] # "free" /\ status[e[1]] # "freeing"
    BY <1>1, <2>1 DEF IInv, FreeIsBlank, FreeingDead
  <2> QED BY <2>1, <2>2 DEF Live, IInv, TypeOK, Status
<1>3. Unreachable(Live)
  BY <1>2 DEF Unreachable, Live
<1> QED BY <1>3, gc_scan2_endMarks

LEMMA LastCollectionStep ==
  ASSUME IInv, CInv, [Next]_vars
  PROVE  LastCollection'
<1> SUFFICES ASSUME teardown', \A c \in Cell : held'[c] = 0, phase' \in {"run", "sweep"}
             PROVE  /\ phase' = "sweep" => \A c \in Live' : mark'[c] # 0
                    /\ phase' = "run" => LiveObj' = {}
  BY DEF LastCollection
<1> DEFINE Goal == /\ phase' = "sweep" => \A c \in Live' : mark'[c] # 0
                   /\ phase' = "run" => LiveObj' = {}
<1> SUFFICES Goal
  OBVIOUS
(* A step within the sweep or after it: nothing comes to life. *)
<1>0. ASSUME phase' = phase, teardown' = teardown, held' = held,
             \A c \in Cell : status'[c] = "live" => status[c] = "live" /\ mark'[c] = mark[c]
      PROVE  Goal
  BY <1>0 DEF CInv, LastCollection, Live, LiveObj
<1>1. CASE Mutator
  BY <1>1 DEF Mutator, New, JS_DupValue, JS_FreeValue, JS_GetProperty, set_value,
     js_map_delete, js_map_set, Mutating
<1>2. CASE JS_RunGC \/ JS_FreeRuntime
  BY <1>2 DEF JS_RunGC, JS_FreeRuntime
<1>3. CASE gc_scan2_end
  <2>1. /\ phase' = "sweep" /\ UNCHANGED <<status, held, mark>>
    BY <1>3 DEF gc_scan2_end
  <2>2. \A c \in Live : mark[c] = 3
    BY <1>3, <2>1, NothingHeldFound
  <2> QED BY <2>1, <2>2 DEF Live
<1>4. CASE gc_free_cycles_end
  <2>1. /\ phase = "sweep" /\ phase' = "run" /\ \A o \in LiveObj : mark[o] = 0
        /\ UNCHANGED <<held, teardown>>
        /\ status' = [c \in Cell |-> IF status[c] = "freeing" THEN "free" ELSE status[c]]
    BY <1>4 DEF gc_free_cycles_end
  <2>2. LiveObj = {}
    BY <2>1 DEF CInv, LastCollection, Live, LiveObj
  <2> QED BY <2>1, <2>2 DEF Live, LiveObj
<1>5. ASSUME NEW o \in Obj, gc_free_cycles(o) PROVE Goal
  <2>1. /\ UNCHANGED <<held, mark, phase, teardown>>
        /\ status' = [status EXCEPT ![o] = "freeing"]
    BY <1>5 DEF gc_free_cycles
  <2>2. \A c \in Cell : status'[c] = "live" => status[c] = "live"
    BY <2>1 DEF IInv, TypeOK
  <2> QED BY <1>0, <2>1, <2>2
<1>6. ASSUME NEW e \in Edge, Release(e) PROVE Goal
  <2>1. /\ UNCHANGED <<held, mark, phase, teardown>>
        /\ \A c \in Cell : status'[c] = "live" => status[c] = "live"
    BY <1>6 DEF Release, FreeDropped
  <2> QED BY <1>0, <2>1
<1>7. ASSUME NEW d \in Cell, FreeStruct(d) PROVE Goal
  <2>1. /\ UNCHANGED <<held, phase, teardown>>
        /\ status' = [status EXCEPT ![d] = "free"]
        /\ mark' = [mark EXCEPT ![d] = 0]
    BY <1>7 DEF FreeStruct
  <2>2. \A c \in Cell : status'[c] = "live" => status[c] = "live" /\ mark'[c] = mark[c]
    BY <2>1 DEF IInv, TypeOK
  <2> QED BY <1>0, <2>1, <2>2
<1>8. CASE UNCHANGED vars
  BY <1>0, <1>8 DEF vars
<1>9. ASSUME NEW o \in Obj, gc_decref(o) \/ gc_scan(o) \/ gc_scan2(o) PROVE FALSE
  BY <1>9 DEF gc_decref, gc_scan, gc_scan2
<1>10. ASSUME NEW e \in Edge,
              \/ gc_decref_child(e) \/ gc_scan_child(e)
              \/ gc_scan_incref_child(e) \/ gc_scan_incref_child2(e)
       PROVE  FALSE
  BY <1>10 DEF gc_decref_child, gc_scan_child, gc_scan_incref_child, gc_scan_incref_child2
<1>11. ~(gc_decref_end \/ gc_scan_end)
  BY DEF gc_decref_end, gc_scan_end
<1> QED BY <1>1, <1>2, <1>3, <1>4, <1>5, <1>6, <1>7, <1>8, <1>9, <1>10, <1>11
     DEF Next, Collector, Freeing, Finished

LEMMA InitC == Init => CInv
BY DEF Init, CInv, DecrefReached, CyclesMarked, LastCollection

LEMMA StepC ==
  ASSUME IInv, CInv, [Next]_vars
  PROVE  CInv'
BY DecrefReachedStep, CyclesMarkedStep, LastCollectionStep DEF CInv

(* gc_decref reaches, and gc_scan leaves marked, every set of structures   *)
(* that only its own members refer to.                                     *)
THEOREM CollectorInvariant == Spec => []CInv
BY InitInv, StepInv, InitC, StepC, PTL DEF Spec

(* JS_RunGC finds every cycle: when its sweep begins, each structure of    *)
(* any set that nothing outside refers to is marked to be freed.           *)
THEOREM EveryCycleFound == Spec => CollectionComplete
<1> DEFINE Found == \A S \in SUBSET Live : Unreachable(S) => \A c \in S : mark[c] = 3
<1>1. ASSUME IInv, CInv, [Next]_vars, phase = "restore", phase' = "sweep"
      PROVE  Found
  <2>1. gc_scan2_end
    BY <1>1 DEF Next, Mutator, New, JS_DupValue, JS_FreeValue, JS_GetProperty, set_value,
       js_map_delete, js_map_set, JS_RunGC, JS_FreeRuntime, Collector, gc_decref, gc_scan,
       gc_scan2, gc_free_cycles, gc_decref_child, gc_scan_child, gc_scan_incref_child,
       gc_scan_incref_child2, gc_decref_end, gc_scan_end, gc_free_cycles_end,
       Freeing, Release, FreeStruct, Finished, vars
  <2> QED BY <1>1, <2>1, gc_scan2_endMarks
<1>2. IInv /\ CInv /\ [Next]_vars => [phase = "restore" /\ phase' = "sweep" => Found]_vars
  BY <1>1
<1> QED BY <1>2, HeapInvariant, CollectorInvariant, PTL DEF Spec, CollectionComplete

(* The assertion of JS_FreeRuntime holds: when the program has given up    *)
(* all it held, the last collection leaves no object.                      *)
THEOREM LastCollectionEmpties == Spec => []FreeRuntimeListEmpty
<1>1. CInv => FreeRuntimeListEmpty
  BY DEF CInv, LastCollection, FreeRuntimeListEmpty
<1> QED BY <1>1, CollectorInvariant, PTL

-----------------------------------------------------------------------------
(* The heap implements ReachableHeap: every step is a step or a stutter of *)
(* a heap without counts or marks.                                         *)

(* A WeakMap has at most one record for a key. *)
OneRecordPerKey ==
  \A e, r \in Record :
    e[1] = r[1] /\ weakKey[e] = weakKey[r] /\ weakKey[e] # Null => e = r

LEMMA OneRecordStep ==
  ASSUME IInv, OneRecordPerKey, [Next]_vars
  PROVE  OneRecordPerKey'
<1>0. weakKey \in [Edge -> Obj \cup {Null}] /\ \A r \in Record : r \in Edge
  BY EdgeFacts DEF IInv, TypeOK
<1>1. ASSUME NEW e \in Edge, weakKey' = [weakKey EXCEPT ![e] = Null] PROVE OneRecordPerKey'
  BY <1>0, <1>1 DEF OneRecordPerKey
<1>2. CASE weakKey' = weakKey
  BY <1>2 DEF OneRecordPerKey
<1>3. ASSUME NEW e \in Record, NEW k \in Obj, NEW v \in Cell \cup {Null}, js_map_set(e, k, v)
      PROVE  OneRecordPerKey'
  <2>1. /\ weakKey' = [weakKey EXCEPT ![e] = k]
        /\ \/ weakKey[e] = k
           \/ weakKey[e] = Null /\ \A r \in Record : r[1] = e[1] => weakKey[r] # k
    BY <1>3 DEF js_map_set
  <2>2. CASE weakKey[e] = k
    <3>1. weakKey' = weakKey
      BY <1>0, <2>1, <2>2
    <3> QED BY <3>1 DEF OneRecordPerKey
  <2>3. CASE \A r \in Record : r[1] = e[1] => weakKey[r] # k
    BY <1>0, <2>1, <2>3 DEF OneRecordPerKey
  <2> QED BY <2>1, <2>2, <2>3
<1>4. ASSUME NEW e \in Edge, Release(e) PROVE OneRecordPerKey'
  BY <1>1, <1>4 DEF Release
<1>5. ASSUME NEW e \in Record, js_map_delete(e) PROVE OneRecordPerKey'
  BY <1>0, <1>1, <1>5 DEF js_map_delete
<1>6. CASE Mutator
  BY <1>2, <1>3, <1>5, <1>6 DEF Mutator, New, JS_DupValue, JS_FreeValue, JS_GetProperty, set_value
<1>7. CASE JS_RunGC \/ JS_FreeRuntime \/ Collector
  BY <1>2, <1>7 DEF JS_RunGC, JS_FreeRuntime, Collector, gc_decref, gc_scan, gc_scan2,
     gc_free_cycles, gc_decref_child, gc_scan_child, gc_scan_incref_child,
     gc_scan_incref_child2, gc_decref_end, gc_scan_end, gc_scan2_end, gc_free_cycles_end
<1>8. ASSUME NEW c \in Cell, FreeStruct(c) PROVE OneRecordPerKey'
  BY <1>2, <1>8 DEF FreeStruct
<1>9. CASE UNCHANGED vars
  BY <1>2, <1>9 DEF vars
<1> QED BY <1>4, <1>6, <1>7, <1>8, <1>9 DEF Next, Freeing, Finished

LEMMA SameHeap == Promise!Cell = Cell /\ Promise!Edge = Edge
BY DEF Promise!Cell, Promise!Edge, Cell, Edge

(* Letting go of a reference returns no memory. *)
LEMMA DropKeepsMemory ==
  ASSUME IInv, NEW old \in Cell \cup {Null}, NEW counts, status' = FreeDropped(old, counts),
         old = Null \/ status[old] # "free"
  PROVE  {c \in Cell : status'[c] # "free"} = {c \in Cell : status[c] # "free"}
<1>1. \A c \in Cell : status'[c] = status[c] \/ (c = old /\ status'[c] = "freeing")
  BY DEF FreeDropped
<1>2. Null \notin Cell
  BY HeapAssumption
<1> QED BY <1>1, <1>2

(* What a slot refers to and what is held occupies memory. *)
LEMMA NotFree ==
  ASSUME IInv
  PROVE  /\ \A e \in Edge : slot[e] \in Cell \cup {Null} /\ (slot[e] = Null \/ status[slot[e]] # "free")
         /\ \A c \in Cell : held[c] > 0 => status[c] # "free"
BY DEF IInv, TypeOK, NoDangling, Intact

LEMMA MutatorImplements ==
  ASSUME IInv, OneRecordPerKey, Mutator
  PROVE  Promise!Next
<1> USE SameHeap
<1>0. /\ \A c \in Cell : held[c] \in Nat
      /\ held \in [Cell -> 0 .. MaxHeld] /\ status \in [Cell -> Status]
      /\ \A e \in Strong : e \in Edge
      /\ \A e \in Record : e \in Edge
      /\ \A e \in Edge : e[1] \in Cell
      /\ Null \notin Cell
  BY HeapAssumption, EdgeFacts DEF IInv, TypeOK
<1>1. ASSUME NEW c \in Cell, New(c) PROVE Promise!Allocate(c)
  <2>1. /\ status[c] = "free" /\ status' = [status EXCEPT ![c] = "live"]
        /\ held' = [held EXCEPT ![c] = 1] /\ UNCHANGED <<slot, weakKey>>
    BY <1>1 DEF New
  <2>2. {d \in Cell : status'[d] # "free"} = {d \in Cell : status[d] # "free"} \cup {c}
    BY <2>1, <1>0
  <2> QED BY <2>1, <2>2 DEF Promise!Allocate
<1>2. ASSUME NEW c \in Cell, JS_DupValue(c) PROVE Promise!Take(c)
  <2>1. /\ held[c] \in 1 .. MaxHeld - 1 /\ UNCHANGED <<status, slot, weakKey>>
        /\ held' = [held EXCEPT ![c] = @ + 1]
    BY <1>2 DEF JS_DupValue
  <2>2. held[c] < MaxHeld /\ held[c] > 0
    BY <2>1, <1>0, HeapAssumption
  <2> QED BY <2>1, <2>2 DEF Promise!Take
<1>3. ASSUME NEW c \in Cell, JS_FreeValue(c) PROVE Promise!Drop(c)
  <2>1. /\ held[c] > 0 /\ UNCHANGED <<slot, weakKey>>
        /\ held' = [held EXCEPT ![c] = @ - 1]
        /\ status' = FreeDropped(c, Recount(Null, c))
    BY <1>3 DEF JS_FreeValue
  <2>2. {d \in Cell : status'[d] # "free"} = {d \in Cell : status[d] # "free"}
    BY <2>1, NotFree, DropKeepsMemory
  <2> QED BY <2>1, <2>2 DEF Promise!Drop
<1>4. ASSUME NEW e \in Edge, JS_GetProperty(e)
      PROVE  slot[e] \in Cell /\ Promise!Take(slot[e])
  <2>1. /\ held[e[1]] > 0 /\ slot[e] # Null /\ held[slot[e]] < MaxHeld
        /\ UNCHANGED <<status, slot, weakKey>>
        /\ held' = [held EXCEPT ![slot[e]] = @ + 1]
    BY <1>4 DEF JS_GetProperty
  <2>2. slot[e] \in Cell
    BY <2>1 DEF IInv, TypeOK
  <2> QED BY <2>1, <2>2 DEF Promise!Take
<1>5. ASSUME NEW e \in Strong, NEW v \in Cell \cup {Null}, set_value(e, v)
      PROVE  Promise!Store(e, v)
  <2>1. /\ held[e[1]] > 0 /\ (v # Null => held[v] > 0)
        /\ slot' = [slot EXCEPT ![e] = v] /\ weakKey' = weakKey
        /\ held' = IF v = Null THEN held ELSE [held EXCEPT ![v] = @ - 1]
        /\ status' = FreeDropped(slot[e], Recount(Null, slot[e]))
    BY <1>5 DEF set_value, Holds
  <2>2. {d \in Cell : status'[d] # "free"} = {d \in Cell : status[d] # "free"}
    BY <2>1, <1>0, NotFree, DropKeepsMemory
  <2>3. held' = [c \in Cell |-> IF c = v THEN held[c] - 1 ELSE held[c]]
    BY <2>1, <1>0
  <2> QED BY <2>1, <2>2, <2>3 DEF Promise!Store, Promise!InHand
<1>6. ASSUME NEW e \in Record, js_map_delete(e) PROVE Promise!MapDelete(e)
  <2>1. /\ held[e[1]] > 0 /\ weakKey[e] # Null /\ held[weakKey[e]] > 0
        /\ slot' = [slot EXCEPT ![e] = Null] /\ weakKey' = [weakKey EXCEPT ![e] = Null]
        /\ held' = held
        /\ status' = FreeDropped(slot[e], Recount(Null, slot[e]))
    BY <1>6 DEF js_map_delete
  <2>2. {d \in Cell : status'[d] # "free"} = {d \in Cell : status[d] # "free"}
    BY <2>1, <1>0, NotFree, DropKeepsMemory
  <2> QED BY <2>1, <2>2 DEF Promise!MapDelete
<1>7. ASSUME NEW e \in Record, NEW k \in Obj, NEW v \in Cell \cup {Null}, js_map_set(e, k, v)
      PROVE  Promise!MapSet(e, k, v)
  <2>1. /\ held[e[1]] > 0 /\ held[k] > 0 /\ (v # Null => held[v] > 0)
        /\ \/ weakKey[e] = k
           \/ weakKey[e] = Null /\ \A r \in Record : r[1] = e[1] => weakKey[r] # k
        /\ slot' = [slot EXCEPT ![e] = v] /\ weakKey' = [weakKey EXCEPT ![e] = k]
        /\ held' = held
        /\ status' = FreeDropped(slot[e], Recount(v, slot[e]))
    BY <1>7 DEF js_map_set, Holds
  <2>2. {d \in Cell : status'[d] # "free"} = {d \in Cell : status[d] # "free"}
    BY <2>1, <1>0, NotFree, DropKeepsMemory
  <2>3. \A r \in Record \ {e} : r[1] = e[1] => weakKey[r] # k
    <3>1. k # Null
      BY HeapAssumption DEF Cell
    <3> QED BY <3>1, <2>1 DEF OneRecordPerKey
  <2> QED BY <2>1, <2>2, <2>3 DEF Promise!MapSet, Promise!InHand
<1> QED BY <1>1, <1>2, <1>3, <1>4, <1>5, <1>6, <1>7 DEF Mutator, Promise!Next

(* What is not intact is unreachable: nothing held and nothing intact      *)
(* refers to it.                                                           *)
LEMMA DyingIsUnreachable ==
  ASSUME IInv, NEW c \in Cell, status[c] = "freeing"
  PROVE  Promise!Unreachable(c)
<1> DEFINE memory == {d \in Cell : status[d] # "free"}
           S == {d \in Cell : status[d] # "free" /\ ~Intact(d)}
<1>1. S \in SUBSET memory /\ c \in S
  BY DEF Intact
<1>2. \A x \in S : held[x] = 0
  BY HeapAssumption DEF IInv, TypeOK, NoDangling
<1>3. ASSUME NEW e \in Edge, slot[e] \in S PROVE e[1] \in S
  <2>1. slot[e] # Null /\ e[1] \in Cell
    BY <1>3, EdgeFacts, HeapAssumption
  <2>2. ~Intact(e[1])
    BY <1>3, <2>1 DEF IInv, NoDangling
  <2>3. status[e[1]] # "free"
    BY <2>1 DEF IInv, FreeIsBlank
  <2> QED BY <2>1, <2>2, <2>3
<1> QED BY <1>1, <1>2, <1>3, SameHeap DEF Promise!Unreachable

LEMMA ReleaseImplements ==
  ASSUME IInv, NEW e \in Edge, Release(e)
  PROVE  Promise!Next
<1>1. /\ Doomed(e) /\ held' = held
      /\ slot' = [slot EXCEPT ![e] = Null] /\ weakKey' = [weakKey EXCEPT ![e] = Null]
      /\ status' = FreeDropped(slot[e], Recount(Null, slot[e]))
  BY DEF Release
<1>2. {d \in Cell : status'[d] # "free"} = {d \in Cell : status[d] # "free"}
  BY <1>1, NotFree, DropKeepsMemory
<1>3. Promise!Unreachable(e[1]) \/ (weakKey[e] # Null /\ Promise!Unreachable(weakKey[e]))
  <2>1. e[1] \in Cell /\ weakKey[e] \in Cell \cup {Null}
    BY EdgeFacts DEF IInv, TypeOK, Cell
  <2> QED BY <1>1, <2>1, DyingIsUnreachable DEF Doomed
<1>4. Promise!TakeApart(e)
  BY <1>1, <1>2, <1>3 DEF Promise!TakeApart
<1> QED BY <1>4, SameHeap DEF Promise!Next

(* Returning structures with a count of zero, and the members of a cycle   *)
(* when the sweep is over.                                                 *)
LEMMA ReclaimStep ==
  ASSUME IInv, NEW S \in SUBSET Cell, S # {},
         \A c \in S : status[c] = "freeing",
         \A e \in Edge : /\ slot[e] \notin S /\ weakKey[e] \notin S
                         /\ e[1] \in S => slot[e] = Null /\ weakKey[e] = Null,
         \A c \in Cell : (status'[c] = "free") <=> (status[c] = "free" \/ c \in S),
         UNCHANGED <<slot, weakKey, held>>
  PROVE  Promise!Next
<1> DEFINE memory == {d \in Cell : status[d] # "free"}
<1>1. S \in SUBSET memory
  OBVIOUS
<1>2. {d \in Cell : status'[d] # "free"} = memory \ S
  OBVIOUS
<1>3. \A c \in S : held[c] = 0
  BY HeapAssumption DEF IInv, TypeOK, NoDangling, Intact
<1>4. Promise!Reclaim(S)
  BY <1>2, <1>3, SameHeap DEF Promise!Reclaim
<1> QED BY <1>1, <1>4 DEF Promise!Next

LEMMA FreeStructImplements ==
  ASSUME IInv, NEW c \in Cell, FreeStruct(c)
  PROVE  Promise!Next
<1>1. /\ Returnable(c) /\ status[c] = "freeing"
      /\ status' = [status EXCEPT ![c] = "free"]
      /\ UNCHANGED <<slot, weakKey, held>>
  BY DEF FreeStruct, Returnable, Emptied
<1>2. rc[c] = 0 /\ phase \in {"run", "sweep"}
  BY <1>1 DEF IInv, FreeingDead, Returnable, Cell
<1>3. \A e \in Edge : slot[e] # c
  BY <1>2, CountIsPositive, AllCounted
<1>4. \A e \in Edge : weakKey[e] # c /\ (e[1] = c => slot[e] = Null /\ weakKey[e] = Null)
  BY <1>1, HeapAssumption DEF Returnable, Emptied, Doomed
<1>5. \A d \in Cell : (status'[d] = "free") <=> (status[d] = "free" \/ d \in {c})
  BY <1>1 DEF IInv, TypeOK
<1> QED BY <1>1, <1>3, <1>4, <1>5, ReclaimStep

LEMMA gc_free_cycles_endImplements ==
  ASSUME IInv, gc_free_cycles_end
  PROVE  [Promise!Next]_(Promise!vars)
<1> DEFINE S == {c \in Cell : status[c] = "freeing"}
<1>1. /\ status' = [c \in Cell |-> IF status[c] = "freeing" THEN "free" ELSE status[c]]
      /\ UNCHANGED <<slot, weakKey, held>>
  BY DEF gc_free_cycles_end
<1>2. /\ \A e \in Edge : slot[e] # Null => Intact(slot[e])
      /\ \A e \in Edge : status[e[1]] # "live" => slot[e] = Null /\ weakKey[e] = Null
      /\ \A e \in Edge : weakKey[e] # Null => status[weakKey[e]] = "live"
  BY SweepOver DEF gc_free_cycles_end
<1>3. \A e \in Edge : /\ slot[e] \notin S /\ weakKey[e] \notin S
                      /\ e[1] \in S => slot[e] = Null /\ weakKey[e] = Null
  BY <1>2, HeapAssumption DEF Intact
<1>4. \A c \in Cell : (status'[c] = "free") <=> (status[c] = "free" \/ c \in S)
  BY <1>1
<1>5. CASE S = {}
  <2>1. {d \in Cell : status'[d] # "free"} = {d \in Cell : status[d] # "free"}
    BY <1>4, <1>5
  <2> QED BY <2>1, <1>1 DEF Promise!vars
<1>6. CASE S # {}
  BY <1>1, <1>3, <1>4, <1>6, ReclaimStep
<1> QED BY <1>5, <1>6

(* The passes of the collector change nothing the program can see. *)
LEMMA CollectorImplements ==
  ASSUME IInv, Collector \/ JS_RunGC \/ JS_FreeRuntime
  PROVE  [Promise!Next]_(Promise!vars)
<1>1. CASE UNCHANGED <<status, slot, weakKey, held>>
  BY <1>1 DEF Promise!vars
<1>2. ASSUME NEW o \in Obj, gc_free_cycles(o) PROVE UNCHANGED Promise!vars
  <2>1. /\ status' = [status EXCEPT ![o] = "freeing"] /\ status[o] = "live" /\ o \in Cell
        /\ UNCHANGED <<slot, weakKey, held>>
    BY <1>2 DEF gc_free_cycles, LiveObj, Live
  <2>2. {d \in Cell : status'[d] # "free"} = {d \in Cell : status[d] # "free"}
    BY <2>1 DEF IInv, TypeOK
  <2> QED BY <2>1, <2>2 DEF Promise!vars
<1>3. CASE JS_RunGC \/ JS_FreeRuntime \/ gc_decref_end \/ gc_scan_end \/ gc_scan2_end
  BY <1>1, <1>3 DEF JS_RunGC, JS_FreeRuntime, gc_decref_end, gc_scan_end, gc_scan2_end
<1>4. ASSUME NEW o \in Obj, gc_decref(o) \/ gc_scan(o) \/ gc_scan2(o)
      PROVE  UNCHANGED <<status, slot, weakKey, held>>
  BY <1>4 DEF gc_decref, gc_scan, gc_scan2
<1>5. ASSUME NEW e \in Edge,
             \/ gc_decref_child(e) \/ gc_scan_child(e)
             \/ gc_scan_incref_child(e) \/ gc_scan_incref_child2(e)
      PROVE  UNCHANGED <<status, slot, weakKey, held>>
  BY <1>5 DEF gc_decref_child, gc_scan_child, gc_scan_incref_child, gc_scan_incref_child2
<1> QED BY <1>1, <1>2, <1>3, <1>4, <1>5, gc_free_cycles_endImplements DEF Collector

LEMMA StepImplements ==
  ASSUME IInv, OneRecordPerKey, [Next]_vars
  PROVE  [Promise!Next]_(Promise!vars)
<1>1. CASE UNCHANGED vars
  BY <1>1 DEF vars, Promise!vars
<1> QED BY <1>1, MutatorImplements, CollectorImplements, ReleaseImplements, FreeStructImplements
     DEF Next, Freeing, Finished

LEMMA InitImplements == Init => Promise!Init /\ OneRecordPerKey
<1> SUFFICES ASSUME Init PROVE Promise!Init /\ OneRecordPerKey
  OBVIOUS
<1>1. {c \in Cell : status[c] # "free"} = {}
  BY DEF Init
<1>2. OneRecordPerKey
  BY EdgeFacts DEF Init, OneRecordPerKey
<1> QED BY <1>1, <1>2, SameHeap DEF Init, Promise!Init

(* Counting, freeing and collecting are invisible: the heap of the runtime *)
(* behaves as one from which only what cannot be reached disappears.       *)
THEOREM HeapImplementsPromise == Spec => ImplementsReachableHeap
BY InitImplements, StepImplements, OneRecordStep, HeapInvariant, PTL
   DEF Spec, ImplementsReachableHeap, Promise!Spec
=============================================================================
