---------------------------- MODULE Computation -----------------------------
(* One call of a function of the engine's library at a time. The modules   *)
(* that extend this one each model the calls of one part of the library:   *)
(* the state of a call is a record, with a field mode that says how far    *)
(* the call is and, with its other values, which part it belongs to.       *)
VARIABLE state
=============================================================================
