----------------------------- MODULE PromiseFate -----------------------------
(***************************************************************************)
(* What a promise promises: its fate is open, for the program to decide,   *)
(* until it is resolved with another promise; from then on it follows that *)
(* promise and takes its outcome.  An outcome is a pair: whether it is a   *)
(* rejection, and the value.                                               *)
(***************************************************************************)
EXTENDS Integers

CONSTANTS MaxPromises, Prim, Object, Error

Promise == 1 .. MaxPromises

VARIABLE fate

Unborn     == [is |-> "none"]
Open       == [is |-> "open"]
FollowsTo(q) == [is |-> "follows", of |-> q]
Takes(o)   == [is |-> "takes", by |-> o]
Settled(o) == [is |-> "settled", by |-> o]

(* The values of an outcome: never a promise. *)
Fulfilled(v) == <<FALSE, v>>
Outcome == {Fulfilled(Prim), Fulfilled(Object), <<TRUE, Error>>}

Fates == {Unborn, Open} \cup {FollowsTo(q) : q \in Promise}
                        \cup {Takes(o) : o \in Outcome} \cup {Settled(o) : o \in Outcome}

Create(p) == fate[p] = Unborn /\ fate' = [fate EXCEPT ![p] = Open]

Follow(p, q) ==
  /\ fate[p] = Open /\ p # q /\ fate[q] # Unborn
  /\ fate' = [fate EXCEPT ![p] = FollowsTo(q)]

(* A promise settles, and some of those that follow it are told at once;   *)
Settle(q, o) ==
  /\ fate[q] \in {Open, Takes(o)}
  /\ fate' \in [Promise -> Fates]
  /\ fate'[q] = Settled(o)
  /\ \A p \in Promise \ {q} :
       fate'[p] = fate[p] \/ (fate[p] = FollowsTo(q) /\ fate'[p] = Takes(o))

(* the others find out later, by calling the promise's then(), which makes *)
(* a promise nobody uses.                                                  *)
Take(p, q, o, born) ==
  /\ fate[p] = FollowsTo(q) /\ fate[q] = Settled(o) /\ fate[born] = Unborn
  /\ fate' = [fate EXCEPT ![p] = Takes(o), ![born] = Open]

(* An object is looked at anew: it may have become thenable. *)
Reopen(p) ==
  /\ fate[p] = Takes(Fulfilled(Object))
  /\ fate' = [fate EXCEPT ![p] = Open]

Init == fate = [p \in Promise |-> Unborn]

Next ==
  \E p \in Promise : fate'[p] # fate[p] /\
    \/ Create(p) \/ Reopen(p)
    \/ \E q \in Promise : Follow(p, q)
    \/ \E q \in Promise, born \in Promise, o \in Outcome : Take(p, q, o, born)
    \/ \E o \in Outcome : Settle(p, o)

Spec == Init /\ [][Next]_fate

(* Whoever follows a settled promise ends with its outcome, unless that is *)
(* an object.                                                              *)
Taken ==
  \A p \in Promise, q \in Promise, o \in Outcome \ {Fulfilled(Object)} :
    (\/ fate[p] = FollowsTo(q) /\ fate[q] = Settled(o)
     \/ fate[p] = Takes(o)) ~> fate[p] = Settled(o)
=============================================================================
