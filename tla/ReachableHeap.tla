---------------------------- MODULE ReachableHeap ----------------------------
(***************************************************************************)
(* What the heap of QuickJS promises to the program, without counts or     *)
(* marks: the program works on the structures it holds and on those it can *)
(* reach from them; only what it cannot reach is ever taken apart, a       *)
(* structure is returned to the allocator only when nothing refers to it,  *)
(* and the record of a WeakMap disappears only with its map or its key.    *)
(* GcHeap (reference counts and JS_RunGC) implements this.                 *)
(***************************************************************************)
EXTENDS Integers, FiniteSets

CONSTANTS Obj, Aux, Strong, Record, Null, MaxHeld

Cell == Obj \cup Aux
Edge == Strong \cup Record

VARIABLES
  exists,    \* the structures that occupy memory
  slot,      \* the reference in each place
  weakKey,   \* the key of each WeakMap record
  held       \* the references the program has in hand

vars == <<exists, slot, weakKey, held>>

Init ==
  /\ exists = {}
  /\ slot = [e \in Edge |-> Null]
  /\ weakKey = [e \in Edge |-> Null]
  /\ held = [c \in Cell |-> 0]

(* c belongs to a set of structures that nothing outside of it refers to. *)
Unreachable(c) ==
  \E S \in SUBSET exists :
    /\ c \in S
    /\ \A x \in S : held[x] = 0
    /\ \A e \in Edge : slot[e] \in S => e[1] \in S

InHand(v) == v # Null => held[v] > 0

Allocate(c) ==
  /\ c \notin exists
  /\ exists' = exists \cup {c}
  /\ held' = [held EXCEPT ![c] = 1]
  /\ UNCHANGED <<slot, weakKey>>

Take(c) ==
  /\ held[c] < MaxHeld
  /\ \/ held[c] > 0
     \/ \E e \in Edge : held[e[1]] > 0 /\ slot[e] = c
  /\ held' = [held EXCEPT ![c] = @ + 1]
  /\ UNCHANGED <<exists, slot, weakKey>>

Drop(c) ==
  /\ held[c] > 0
  /\ held' = [held EXCEPT ![c] = @ - 1]
  /\ UNCHANGED <<exists, slot, weakKey>>

Store(e, v) ==
  /\ held[e[1]] > 0 /\ InHand(v)
  /\ slot' = [slot EXCEPT ![e] = v]
  /\ held' = [c \in Cell |-> IF c = v THEN held[c] - 1 ELSE held[c]]
  /\ UNCHANGED <<exists, weakKey>>

MapSet(e, k, v) ==
  /\ held[e[1]] > 0 /\ held[k] > 0 /\ InHand(v)
  /\ weakKey[e] \in {Null, k}
  /\ \A r \in Record \ {e} : r[1] = e[1] => weakKey[r] # k
  /\ slot' = [slot EXCEPT ![e] = v]
  /\ weakKey' = [weakKey EXCEPT ![e] = k]
  /\ UNCHANGED <<exists, held>>

MapDelete(e) ==
  /\ held[e[1]] > 0 /\ weakKey[e] # Null /\ held[weakKey[e]] > 0
  /\ slot' = [slot EXCEPT ![e] = Null]
  /\ weakKey' = [weakKey EXCEPT ![e] = Null]
  /\ UNCHANGED <<exists, held>>

(* A place of an unreachable structure, or a record whose key is           *)
(* unreachable, is emptied.                                                *)
TakeApart(e) ==
  /\ \/ Unreachable(e[1])
     \/ weakKey[e] # Null /\ Unreachable(weakKey[e])
  /\ slot' = [slot EXCEPT ![e] = Null]
  /\ weakKey' = [weakKey EXCEPT ![e] = Null]
  /\ UNCHANGED <<exists, held>>

(* Structures that own nothing and that nothing refers to or is keyed by. *)
Reclaim(S) ==
  /\ S # {}
  /\ \A c \in S : held[c] = 0
  /\ \A e \in Edge :
       /\ slot[e] \notin S /\ weakKey[e] \notin S
       /\ e[1] \in S => slot[e] = Null /\ weakKey[e] = Null
  /\ exists' = exists \ S
  /\ UNCHANGED <<slot, weakKey, held>>

Next ==
  \/ \E c \in Cell : Allocate(c) \/ Take(c) \/ Drop(c)
  \/ \E e \in Strong, v \in Cell \cup {Null} : Store(e, v)
  \/ \E e \in Record : MapDelete(e)
  \/ \E e \in Record, k \in Obj, v \in Cell \cup {Null} : MapSet(e, k, v)
  \/ \E e \in Edge : TakeApart(e)
  \/ \E S \in SUBSET exists : Reclaim(S)

Spec == Init /\ [][Next]_vars
=============================================================================
