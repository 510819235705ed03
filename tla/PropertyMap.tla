---------------------------- MODULE PropertyMap -----------------------------
(* What the language defines of an object: a map from keys to properties,  *)
(* which an array keeps in step with its length. Keys are numbers: the     *)
(* indices of arrays, of which the last stands for one of 2^31 or more,    *)
(* the name "length" after them, and other names.                          *)
EXTENDS Integers, Sequences
LOCAL INSTANCE TLC
LOCAL INSTANCE SequencesExt
LOCAL INSTANCE FiniteSetsExt

CONSTANT LastIndex

Index == 0 .. LastIndex
Length == LastIndex + 1
Undefined == -1

(* A map: the properties (a function from keys), the names in the order in *)
(* which they were added, and whether there can be more.                   *)
Ordinary == [array |-> FALSE, ext |-> TRUE, proto |-> 0, names |-> <<>>, props |-> << >>]
DataProperty(v, w, e, c) == [value |-> v, writable |-> w, enumerable |-> e, configurable |-> c]
EmptyArray == [Ordinary EXCEPT !.array = TRUE, !.names = <<Length>>,
                 !.props = Length :> DataProperty(0, TRUE, FALSE, FALSE)]

Has(m, k) == k \in DOMAIN m.props
OwnKeys(m) == SetToSortSeq(DOMAIN m.props \cap Index, <) \o m.names

IsData(d) == "value" \in DOMAIN d \/ "writable" \in DOMAIN d
IsAccessor(d) == "get" \in DOMAIN d \/ "set" \in DOMAIN d

-----------------------------------------------------------------------------
(* ValidateAndApplyPropertyDescriptor. A descriptor has some of the fields *)
(* of a property; those it does not have keep their value, or get the one  *)
(* of a new property.                                                      *)
Field(d, old, f, default) ==
  IF f \in DOMAIN d THEN d[f] ELSE IF f \in DOMAIN old THEN old[f] ELSE default

Completed(d, old) ==
  LET both == Field(d, old, "enumerable", FALSE)
      conf == Field(d, old, "configurable", FALSE)
  IN IF IsAccessor(d) \/ (~IsData(d) /\ IsAccessor(old))
     THEN [get |-> Field(d, old, "get", Undefined), set |-> Field(d, old, "set", Undefined),
           enumerable |-> both, configurable |-> conf]
     ELSE DataProperty(Field(d, old, "value", Undefined), Field(d, old, "writable", FALSE), both, conf)

Same(d, old, f) == f \in DOMAIN d /\ f \in DOMAIN old => d[f] = old[f]

Allowed(d, old) ==
  \/ old.configurable
  \/ /\ Same(d, old, "configurable") /\ Same(d, old, "enumerable")
     /\ IsAccessor(d) => IsAccessor(old) /\ Same(d, old, "get") /\ Same(d, old, "set")
     /\ IsData(d) => IsData(old) /\ (old.writable \/ (Same(d, old, "value") /\ Same(d, old, "writable")))

Put(m, k, p) ==
  [m EXCEPT !.props = (k :> p) @@ @,
            !.names = IF Has(m, k) \/ k \in Index THEN @ ELSE Append(@, k)]

OrdinaryDefine(m, k, d) ==
  IF ~Has(m, k)
  THEN IF m.ext THEN [m |-> Put(m, k, Completed(d, << >>)), ok |-> TRUE] ELSE [m |-> m, ok |-> FALSE]
  ELSE IF Allowed(d, m.props[k]) THEN [m |-> Put(m, k, Completed(d, m.props[k])), ok |-> TRUE]
  ELSE [m |-> m, ok |-> FALSE]

Delete(m, k) ==
  IF ~Has(m, k) THEN [m |-> m, ok |-> TRUE]
  ELSE IF ~m.props[k].configurable THEN [m |-> m, ok |-> FALSE]
  ELSE [m |-> [m EXCEPT !.props = [x \in DOMAIN @ \ {k} |-> @[x]],
                        !.names = SelectSeq(@, LAMBDA x : x # k)], ok |-> TRUE]

-----------------------------------------------------------------------------
(* ArraySetLength: the elements go from the end, down to the first that    *)
(* cannot be deleted.                                                      *)
Cut(m, r, len, ok) ==
  IF ~r.ok THEN [m |-> m, ok |-> FALSE]
  ELSE [m |-> [r.m EXCEPT !.props = [x \in {y \in DOMAIN @ : y \in Index => y < len} |-> @[x]]],
        ok |-> ok]

SetLength(m, d) ==
  LET stays == {i \in DOMAIN m.props \cap Index : i >= d.value /\ ~m.props[i].configurable}
      len == IF stays = {} THEN d.value ELSE Max(stays) + 1
  IN IF "value" \notin DOMAIN d \/ d.value >= m.props[Length].value THEN OrdinaryDefine(m, Length, d)
     ELSE IF ~m.props[Length].writable THEN [m |-> m, ok |-> FALSE]
     ELSE Cut(m, OrdinaryDefine(m, Length, [d EXCEPT !.value = len]), len, stays = {})

DefineElement(m, i, d) ==
  LET len == m.props[Length]
      r == OrdinaryDefine(m, i, d)
  IN IF i >= len.value /\ ~len.writable THEN [m |-> m, ok |-> FALSE]
     ELSE IF r.ok /\ i >= len.value
     THEN [r EXCEPT !.m.props[Length].value = i + 1] ELSE r

Define(m, k, d) ==
  CASE m.array /\ k = Length -> SetLength(m, d)
    [] m.array /\ k \in Index -> DefineElement(m, k, d)
    [] OTHER -> OrdinaryDefine(m, k, d)

-----------------------------------------------------------------------------
(* Objects o in maps, each with the number of its prototype, or 0.         *)

Holder(maps, o, k) ==
  LET F[p \in DOMAIN maps \cup {0}] ==
        IF p = 0 THEN 0 ELSE IF Has(maps[p], k) THEN p ELSE F[maps[p].proto]
  IN F[o]

Above(maps, o) ==
  LET F[p \in DOMAIN maps \cup {0}] == IF p = 0 THEN {} ELSE {p} \cup F[maps[p].proto] IN F[o]

(* OrdinaryGet: a value, or the getter that is called.                     *)
Get(maps, o, k) ==
  LET h == Holder(maps, o, k) IN
  IF h = 0 THEN <<"value", Undefined>>
  ELSE IF IsData(maps[h].props[k]) THEN <<"value", maps[h].props[k].value>>
  ELSE <<"call", maps[h].props[k].get>>

(* OrdinarySet with a receiver r: the maps, and "done", "refused" or the   *)
(* setter that is called.                                                  *)
Stored(maps, r, result) ==
  [maps |-> [maps EXCEPT ![r] = result.m], ret |-> IF result.ok THEN <<"done">> ELSE <<"refused">>]

Set(maps, o, k, v, r) ==
  LET h == Holder(maps, o, k)
      p == maps[h].props[k]
      own == maps[r].props[k]
      d == IF Has(maps[r], k) THEN [value |-> v] ELSE DataProperty(v, TRUE, TRUE, TRUE)
      readonly == h # 0 /\ (IF IsAccessor(p) THEN p.set = Undefined ELSE ~p.writable)
      barred == Has(maps[r], k) /\ (IsAccessor(own) \/ ~own.writable)
  IN IF readonly THEN [maps |-> maps, ret |-> <<"refused">>]
     ELSE IF h # 0 /\ IsAccessor(p) THEN [maps |-> maps, ret |-> <<"call", p.set, r, v>>]
     ELSE IF barred THEN [maps |-> maps, ret |-> <<"refused">>]
     ELSE Stored(maps, r, Define(maps[r], k, d))

SetPrototype(maps, o, proto) ==
  IF maps[o].proto = proto THEN [maps |-> maps, ret |-> <<"done">>]
  ELSE IF ~maps[o].ext \/ o \in Above(maps, proto) THEN [maps |-> maps, ret |-> <<"refused">>]
  ELSE [maps |-> [maps EXCEPT ![o].proto = proto], ret |-> <<"done">>]
=============================================================================
