----------------------------- MODULE MapEntries -----------------------------
(***************************************************************************)
(* What a Map promises to a program that changes it while it enumerates    *)
(* it: keys keep the order in which they were first set, and an            *)
(* enumeration visits every entry once, in that order, those added after   *)
(* it began included and those deleted before it got there left out.       *)
(***************************************************************************)
CONSTANTS
  Key, Value,   \* what the program sets
  Cursor,       \* enumerations: iterators and calls of forEach
  NoValue,      \* the value of a key that is not in the map
  Idle, Done    \* no enumeration, and one that has come to the end

VARIABLES
  value,   \* the values of the keys
  order,   \* pairs of keys in the map, of which the first was set before the other
  rest     \* what each enumeration has still to visit

vars == <<value, order, rest>>

Present == {k \in Key : value[k] # NoValue}
Active(c) == rest[c] \notin {Idle, Done}
First(k, S) == k \in S /\ \A j \in S \ {k} : <<k, j>> \in order

(* An iterator that was the value of k alone goes with that value. *)
Lost(k) == {c \in Cursor : value[k] = c}

Set(k, v) ==
  /\ value' = [value EXCEPT ![k] = v]
  /\ IF value[k] # NoValue
       THEN /\ UNCHANGED order
            /\ \/ UNCHANGED rest
               \/ \E c \in Lost(k) : rest' = [rest EXCEPT ![c] = Idle]
       ELSE /\ order' = order \cup (Present \X {k})
            /\ rest' = [c \in Cursor |-> IF Active(c) THEN rest[c] \cup {k} ELSE rest[c]]

Delete(k) ==
  LET left == [c \in Cursor |-> IF Active(c) THEN rest[c] \ {k} ELSE rest[c]] IN
  /\ value[k] # NoValue
  /\ value' = [value EXCEPT ![k] = NoValue]
  /\ order' = {e \in order : k \notin {e[1], e[2]}}
  /\ \/ rest' = left
     \/ \E c \in Lost(k) : rest' = [left EXCEPT ![c] = Idle]

(* An enumeration begins, goes on to the next entry, ends, and is dropped. *)
Begin(c) ==
  /\ rest[c] = Idle
  /\ \/ rest' = [rest EXCEPT ![c] = Present]
     \/ \E k \in Present : First(k, Present) /\ rest' = [rest EXCEPT ![c] = Present \ {k}]
     \/ Present = {} /\ rest' = [rest EXCEPT ![c] = Done]
  /\ UNCHANGED <<value, order>>

Visit(c) ==
  /\ Active(c)
  /\ \E k \in rest[c] : First(k, rest[c]) /\ rest' = [rest EXCEPT ![c] = @ \ {k}]
  /\ UNCHANGED <<value, order>>

End(c) ==
  /\ rest[c] = {}
  /\ rest' = [rest EXCEPT ![c] = Done]
  /\ UNCHANGED <<value, order>>

Drop(c) ==
  /\ rest' = [rest EXCEPT ![c] = Idle]
  /\ UNCHANGED <<value, order>>

(* The map itself is dropped, with every enumeration of it. *)
Forget ==
  /\ value' = [k \in Key |-> NoValue]
  /\ order' = {}
  /\ rest' = [c \in Cursor |-> Idle]

Init ==
  /\ value = [k \in Key |-> NoValue]
  /\ order = {}
  /\ rest = [c \in Cursor |-> Idle]

Next ==
  \/ \E k \in Key : Delete(k) \/ \E v \in Value : Set(k, v)
  \/ \E c \in Cursor : Begin(c) \/ Visit(c) \/ End(c) \/ Drop(c)
  \/ Forget

Spec == Init /\ [][Next]_vars
=============================================================================
