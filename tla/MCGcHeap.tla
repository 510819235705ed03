------------------------------ MODULE MCGcHeap ------------------------------
(* Constants for GcHeap: which places the structures of each run have.     *)
EXTENDS GcHeap, TLC

CONSTANTS s1, s2, map

Symmetric == Permutations(Obj)

(* Every object has two properties. *)
PairStrong == Obj \X {s1, s2}

(* One object is a WeakMap of one record, the other structures have one    *)
(* property.                                                               *)
MapStrong == (Cell \ {map}) \X {s1}
OneRecord == {map} \X {s1}
=============================================================================
