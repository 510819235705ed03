----------------------------- MODULE Properties -----------------------------
(* The properties of objects (quickjs.c 3919-4325, 6315-9104): a shape,    *)
(* shared by the objects that got the same properties in the same order,   *)
(* says where a property is; arrays keep elements apart from it as long as *)
(* they are plain (fast arrays).                                           *)
EXTENDS Computation, Integers, Sequences, FiniteSets
LOCAL INSTANCE SequencesExt
LOCAL INSTANCE FiniteSetsExt
LOCAL INSTANCE TLC

CONSTANTS
  LastIndex,        \* the only index that is not a tagged integer
  MaxObjects,       \* objects in existence
  InitialSize,      \* JS_PROP_INITIAL_SIZE, properties there is room for at first
  InitialHashSize,  \* JS_PROP_INITIAL_HASH_SIZE
  Scenarios         \* what programs there are, by name

Map == INSTANCE PropertyMap

ASSUME PropertiesAssumption ==
  /\ LastIndex \in Nat /\ MaxObjects \in Nat
  /\ InitialSize \in Nat \ {0} /\ InitialHashSize \in Nat \ {0}

length == Map!Length
UNDEFINED == Map!Undefined
JS_ATOM_NULL == -1
C_W_E == {"configurable", "writable", "enumerable"}

JS_AtomIsArrayIndex(atom) == atom \in Map!Index
AtomIsTaggedInt(atom) == atom \in Map!Index \ {LastIndex}

-----------------------------------------------------------------------------
(* Shapes. A state s has shapes (allocated ones by number, number 0 the    *)
(* shape of new arrays) and objects; prop[h] of a shape is found from the  *)
(* head of the chain for its atom.                                         *)

(* The hash of a shape: all that it is made of, without collisions.        *)
shape_hash(hash, atom, flags) == Append(hash, <<atom, flags>>)
shape_initial_hash(proto) == <<proto>>

FreshShape(s) == Min((1 .. Cardinality(DOMAIN s.shapes) + 1) \ DOMAIN s.shapes)

Bucket(sh, atom) == (atom % Len(sh.heads)) + 1

js_new_shape2(proto, hash_size, prop_size) ==
  [ref_count |-> 1, proto |-> proto, prop |-> <<>>, prop_size |-> prop_size,
   heads |-> [i \in 1 .. hash_size |-> 0], hash |-> shape_initial_hash(proto),
   is_hashed |-> TRUE, has_small_array_index |-> FALSE]

js_clone_shape(sh) == [sh EXCEPT !.ref_count = 1, !.is_hashed = FALSE]

js_free_shape(s, i) ==
  IF s.shapes[i].ref_count > 1 THEN [s EXCEPT !.shapes[i].ref_count = @ - 1]
  ELSE [s EXCEPT !.shapes = [x \in DOMAIN @ \ {i} |-> @[x]]]

(* The entry i of the shape becomes the head of its chain.                 *)
Linked(sh, i) ==
  LET h == Bucket(sh, sh.prop[i].atom)
  IN [sh EXCEPT !.prop[i].hash_next = sh.heads[h], !.heads[h] = i]

resize_properties(sh, count) ==
  LET new_size == Max({count, (sh.prop_size * 3) \div 2})
      double[n \in Nat] == IF n < new_size THEN double[2 * n] ELSE n
      new_hash_size == double[Len(sh.heads)]
      emptied == [sh EXCEPT !.prop_size = new_size, !.heads = [i \in 1 .. new_hash_size |-> 0]]
      Rehash(r, i) == IF r.prop[i].atom = JS_ATOM_NULL THEN r ELSE Linked(r, i)
  IN IF new_hash_size = Len(sh.heads) THEN [sh EXCEPT !.prop_size = new_size]
     ELSE FoldLeft(Rehash, emptied, [i \in DOMAIN sh.prop |-> i])

add_shape_property(sh, atom, flags) ==
  LET room == IF Len(sh.prop) < sh.prop_size THEN sh
              ELSE resize_properties(sh, Len(sh.prop) + 1)
      new == [atom |-> atom, flags |-> flags, hash_next |-> 0]
  IN Linked([room EXCEPT !.prop = Append(@, new),
                         !.hash = IF sh.is_hashed THEN shape_hash(@, atom, flags) ELSE @,
                         !.has_small_array_index = @ \/ AtomIsTaggedInt(atom)],
            Len(sh.prop) + 1)

find_hashed_shape_proto(s, proto) ==
  {i \in DOMAIN s.shapes : /\ s.shapes[i].is_hashed /\ s.shapes[i].hash = shape_initial_hash(proto)
                           /\ s.shapes[i].proto = proto /\ s.shapes[i].prop = <<>>}

Atoms(prop) == [i \in DOMAIN prop |-> <<prop[i].atom, prop[i].flags>>]

find_hashed_shape_prop(s, sh, atom, flags) ==
  {i \in DOMAIN s.shapes :
     LET sh1 == s.shapes[i] IN
     /\ sh1.is_hashed /\ sh1.hash = shape_hash(sh.hash, atom, flags)
     /\ sh1.proto = sh.proto
     /\ Atoms(sh1.prop) = Append(Atoms(sh.prop), <<atom, flags>>)}

-----------------------------------------------------------------------------
Shape(s, o) == s.shapes[s.objects[o].shape]

find_own_property(s, o, atom) ==
  LET sh == Shape(s, o)
      Follow[h \in Nat] ==
        IF h = 0 \/ sh.prop[h].atom = atom THEN h ELSE Follow[sh.prop[h].hash_next]
  IN Follow[sh.heads[Bucket(sh, atom)]]

(* The object o moves to the shape sh, and leaves the one it has.          *)
Moved(s, o, sh) ==
  LET i == FreshShape(s)
  IN [js_free_shape([s EXCEPT !.shapes = (i :> sh) @@ @], s.objects[o].shape)
      EXCEPT !.objects[o].shape = i]

(* Slip: a shape that several objects have is changed in place. *)
Slip_ChangedInPlace(s, o) == [s EXCEPT !.shapes[s.objects[o].shape].is_hashed = FALSE]

js_shape_prepare_update(s, o) ==
  IF ~Shape(s, o).is_hashed THEN s
  ELSE IF Shape(s, o).ref_count # 1 THEN Moved(s, o, js_clone_shape(Shape(s, o)))
  ELSE [s EXCEPT !.shapes[s.objects[o].shape].is_hashed = FALSE]

(* The object takes the shape i, which has the property.                   *)
Joined(s, o, i) ==
  LET size == s.shapes[i].prop_size
  IN [js_free_shape([s EXCEPT !.shapes[i].ref_count = @ + 1], s.objects[o].shape)
      EXCEPT !.objects[o].shape = i,
             !.objects[o].room = IF size # Shape(s, o).prop_size THEN size ELSE @]

(* The shape of the object, which no other has, grows to sh.               *)
Grown(s, o, sh) ==
  [s EXCEPT !.shapes[s.objects[o].shape] = sh,
            !.objects[o].room = IF sh.prop_size # Shape(s, o).prop_size THEN sh.prop_size ELSE @]
Extended(s, o, atom, flags) == Grown(s, o, add_shape_property(Shape(s, o), atom, flags))

(* add_property and the assignment of its value by the caller. room is the *)
(* number of properties the object has memory for.                         *)
AddTo(s, o, atom, flags, value, found) ==
  LET sh == Shape(s, o) IN
  [(IF found # {} THEN Joined(s, o, CHOOSE x \in found : TRUE)
    ELSE Extended(IF sh.is_hashed /\ sh.ref_count # 1
                  THEN Moved(s, o, [js_clone_shape(sh) EXCEPT !.is_hashed = TRUE]) ELSE s,
                  o, atom, flags))
   EXCEPT !.objects[o].prop = Append(@, value)]

add_property(s, o, atom, flags, value) ==
  LET sh == Shape(s, o) IN
  AddTo(s, o, atom, flags, value,
        IF sh.is_hashed THEN find_hashed_shape_prop(s, sh, atom, flags) ELSE {})

(* The elements of a fast array become properties.                         *)
Roomy(s, o, count) ==
  IF count <= Shape(s, o).prop_size THEN s ELSE Grown(s, o, resize_properties(Shape(s, o), count))

convert_fast_array_to_array(s, o) ==
  LET tab == s.objects[o].values
      Added(r, i) == add_property(r, o, i - 1, C_W_E, tab[i])
  IN [FoldLeft(Added, Roomy(js_shape_prepare_update(s, o), o, Len(s.objects[o].prop) + Len(tab)),
               [i \in DOMAIN tab |-> i])
      EXCEPT !.objects[o].values = <<>>, !.objects[o].fast_array = FALSE]

-----------------------------------------------------------------------------
(* Operations answer with TRUE, FALSE or an exception, here both "refused" *)
(* (they are called with JS_PROP_THROW), or with the setter they called.   *)
Done(s) == [s EXCEPT !.ret = <<"done">>]
Refused(s) == [s EXCEPT !.ret = <<"refused">>]

JS_NewObject(s, proto, class) ==
  LET same == find_hashed_shape_proto(s, proto)
      i == IF class = "array" THEN 0 ELSE IF same # {} THEN CHOOSE x \in same : TRUE ELSE FreshShape(s)
      shared == IF i \in DOMAIN s.shapes THEN [s EXCEPT !.shapes[i].ref_count = @ + 1]
                ELSE [s EXCEPT !.shapes = (i :> js_new_shape2(proto, InitialHashSize, InitialSize)) @@ @]
      object == [class |-> class, extensible |-> TRUE, fast_array |-> class = "array",
                 shape |-> i, prop |-> IF class = "array" THEN <<0>> ELSE <<>>,
                 room |-> shared.shapes[i].prop_size, values |-> <<>>]
  IN [shared EXCEPT !.objects = Append(@, object)]

(* The entry i is taken out of its chain and left empty.                   *)
Emptied(s, o, i) ==
  LET sh == Shape(s, o)
      Past(x) == IF x = i THEN sh.prop[i].hash_next ELSE x
  IN [s EXCEPT !.shapes[s.objects[o].shape] =
        [sh EXCEPT !.heads = [h \in DOMAIN @ |-> Past(@[h])],
                   !.prop = [x \in DOMAIN @ |->
                               IF x = i THEN [atom |-> JS_ATOM_NULL, flags |-> {}, hash_next |-> 0]
                               ELSE [@[x] EXCEPT !.hash_next = Past(@)]]],
      !.objects[o].prop[i] = UNDEFINED]

DeleteNamed(s, o, i) ==
  IF i = 0 THEN Done(s)
  ELSE IF "configurable" \notin Shape(s, o).prop[i].flags THEN Refused(s)
  ELSE Done(Emptied(js_shape_prepare_update(s, o), o, i))

DeleteIn(s, o, atom) == DeleteNamed(s, o, find_own_property(s, o, atom))

(* Of a fast array only the last element can be deleted.                   *)
delete_property(s, o, atom) ==
  LET last == Len(s.objects[o].values) - 1
  IN IF s.objects[o].fast_array /\ atom = last THEN Done([s EXCEPT !.objects[o].values = Front(@)])
     ELSE DeleteIn(IF s.objects[o].fast_array /\ atom \in 0 .. last
                   THEN convert_fast_array_to_array(s, o) ELSE s, o, atom)

call_setter(s, setter, this, v) ==
  IF setter = UNDEFINED THEN Refused(s) ELSE [s EXCEPT !.ret = <<"call", setter, this, v>>]

(* The length of a slow array: the elements go one by one from the end if  *)
(* they are few, and otherwise all those behind the last that stays.       *)
ShortenByIndex(s, o, len) ==
  LET old == s.objects[o].prop[1]
      Dropped(x, i) == IF x.ret = <<"refused">> THEN x ELSE [x EXCEPT !.objects[o].prop[1] = i]
      Drop(r, i) == IF r.objects[o].prop[1] = i + 1 THEN Dropped(delete_property(r, o, i), i) ELSE r
  IN FoldLeft(Drop, s, Reverse([i \in 1 .. old - len |-> len + i - 1]))

ShortenByEntry(s, o, len) ==
  LET prop == Shape(s, o).prop
      Element(i) == prop[i].atom # JS_ATOM_NULL /\ JS_AtomIsArrayIndex(prop[i].atom)
      stays == {prop[i].atom + 1 : i \in {x \in DOMAIN prop :
                  Element(x) /\ "configurable" \notin prop[x].flags}}
      Drop(r, i) == IF Element(i) /\ prop[i].atom >= r.objects[o].prop[1]
                    THEN delete_property(r, o, prop[i].atom) ELSE r
  IN FoldLeft(Drop, [s EXCEPT !.objects[o].prop[1] = Max(stays \cup {len})], [i \in DOMAIN prop |-> i])

Shortened(s, o, len) == IF s.objects[o].prop[1] > len THEN Refused(s) ELSE Done(s)

set_array_length(s, o, len) ==
  LET cur_len == s.objects[o].prop[1]
  IN IF s.objects[o].fast_array
     THEN Done([s EXCEPT !.objects[o].prop[1] = len,
                         !.objects[o].values = SubSeq(@, 1, Min({len, Len(@)}))])
     ELSE IF len >= cur_len THEN Done([s EXCEPT !.objects[o].prop[1] = len])
     ELSE Shortened(IF cur_len - len <= Len(Shape(s, o).prop) THEN ShortenByIndex(s, o, len)
                    ELSE ShortenByEntry(s, o, len), o, len)

add_fast_array_element(s, o, v) ==
  LET new_len == Len(s.objects[o].values) + 1
      added == [s EXCEPT !.objects[o].values = Append(@, v)]
  IN IF new_len <= s.objects[o].prop[1] THEN Done(added)
     ELSE IF "writable" \notin Shape(s, o).prop[1].flags THEN Refused(s)
     ELSE Done([added EXCEPT !.objects[o].prop[1] = new_len])

-----------------------------------------------------------------------------
(* JS_CreateProperty: a property that is not there yet. A descriptor d has *)
(* the fields that the flags JS_PROP_HAS_* name.                           *)
get_prop_flags(d, def) == {f \in C_W_E : IF f \in DOMAIN d THEN d[f] ELSE f \in def}
Given(d, f) == IF f \in DOMAIN d THEN d[f] ELSE UNDEFINED
IsGetSet(d) == "get" \in DOMAIN d \/ "set" \in DOMAIN d

AddDefined(s, o, atom, d) ==
  LET flags == get_prop_flags(d, {}) IN
  IF ~s.objects[o].extensible THEN Refused(s)
  ELSE Done(add_property(s, o, atom,
              IF IsGetSet(d) THEN (flags \ {"writable"}) \cup {"getset"} ELSE flags,
              IF IsGetSet(d) THEN [get |-> Given(d, "get"), set |-> Given(d, "set")]
              ELSE Given(d, "value")))

(* The length grows before the property is defined.                        *)
GenericArray(s, o, atom, d) ==
  LET len == s.objects[o].prop[1] IN
  IF atom >= len /\ "writable" \notin Shape(s, o).prop[1].flags THEN Refused(s)
  ELSE AddDefined(IF atom < len THEN s ELSE [s EXCEPT !.objects[o].prop[1] = atom + 1], o, atom, d)

JS_CreateProperty(s, o, atom, d) ==
  LET p == s.objects[o]
      next == p.fast_array /\ AtomIsTaggedInt(atom) /\ atom = Len(p.values)
  IN IF p.class # "array" \/ ~JS_AtomIsArrayIndex(atom) THEN AddDefined(s, o, atom, d)
     ELSE IF next /\ ~p.extensible THEN Refused(s)
     ELSE IF next /\ ~IsGetSet(d) /\ get_prop_flags(d, {}) = C_W_E
     THEN add_fast_array_element(s, o, Given(d, "value"))
     ELSE GenericArray(IF p.fast_array THEN convert_fast_array_to_array(s, o) ELSE s, o, atom, d)

-----------------------------------------------------------------------------
(* JS_DefineProperty. *)

check_define_prop_flags(flags, d) ==
  LET Has(f) == f \in DOMAIN d
      has_accessor == IsGetSet(d)
      is_getset == "getset" \in flags
  IN \/ "configurable" \in flags
     \/ /\ ~(Has("configurable") /\ d.configurable)
        /\ Has("enumerable") => d.enumerable = ("enumerable" \in flags)
        /\ (Has("value") \/ Has("writable") \/ has_accessor) =>
             /\ has_accessor = is_getset
             /\ ~has_accessor /\ "writable" \notin flags => ~(Has("writable") /\ d.writable)

js_update_property_flags(s, o, i, flags) ==
  IF flags = Shape(s, o).prop[i].flags THEN s
  ELSE LET r == js_shape_prepare_update(s, o)
       IN [r EXCEPT !.shapes[r.objects[o].shape].prop[i].flags = flags]

(* What a descriptor says of some of the flags replaces what they are.     *)
FlagsReplaced(s, o, i, d, which) ==
  LET given == which \cap DOMAIN d
  IN js_update_property_flags(s, o, i,
       (Shape(s, o).prop[i].flags \ given) \cup {f \in given : d[f]})

SetGetSet(s, o, i, d) ==
  LET old == s.objects[o].prop[i]
      flags == Shape(s, o).prop[i].flags
      Changes(f) == f \in DOMAIN d /\ d[f] # old[f]
      Field(f) == IF f \in DOMAIN d THEN d[f] ELSE IF "getset" \in flags THEN old[f] ELSE UNDEFINED
  IN IF flags \cap {"getset", "configurable"} = {"getset"} /\ (Changes("get") \/ Changes("set"))
     THEN Refused(s)
     ELSE Done([js_update_property_flags(s, o, i,
                  IF "getset" \in flags THEN flags
                  ELSE (flags \cap {"configurable", "enumerable"}) \cup {"getset"})
                EXCEPT !.objects[o].prop[i] = [get |-> Field("get"), set |-> Field("set")]])

(* Once the length is not writable it is a property like others.           *)
LengthFixed(s, o, d) ==
  IF "writable" \in DOMAIN d /\ ~d.writable
  THEN js_update_property_flags(s, o, 1, Shape(s, o).prop[1].flags \ {"writable", "length"}) ELSE s

DefineLength(s, o, d) ==
  LengthFixed(IF "value" \in DOMAIN d THEN set_array_length(s, o, d.value) ELSE Done(s), o, d)

SetData(s, o, i, d) ==
  LET flags == Shape(s, o).prop[i].flags
      old == IF "getset" \in flags THEN UNDEFINED ELSE s.objects[o].prop[i]
  IN IF flags \cap {"getset", "configurable", "writable"} = {} /\ "value" \in DOMAIN d /\ d.value # old
     THEN Refused(s)
     ELSE Done(FlagsReplaced(
            [js_update_property_flags(s, o, i,
               IF "getset" \in flags THEN flags \ {"getset", "writable"} ELSE flags)
             EXCEPT !.objects[o].prop[i] = IF "value" \in DOMAIN d THEN d.value ELSE old],
            o, i, d, {"writable"}))

AttributesSet(s, o, i, d) ==
  IF s.ret = <<"refused">> THEN s ELSE FlagsReplaced(s, o, i, d, {"configurable", "enumerable"})

DefineExisting(s, o, i, d) ==
  LET flags == Shape(s, o).prop[i].flags
      data == ~IsGetSet(d) /\ ("value" \in DOMAIN d \/ "writable" \in DOMAIN d)
  IN IF ~check_define_prop_flags(flags, d) THEN Refused(s)
     ELSE IF data /\ "length" \in flags THEN DefineLength(s, o, d)
     ELSE AttributesSet(IF IsGetSet(d) THEN SetGetSet(s, o, i, d)
                        ELSE IF data THEN SetData(s, o, i, d) ELSE Done(s), o, i, d)

IsElement(p, atom) == p.fast_array /\ AtomIsTaggedInt(atom) /\ atom < Len(p.values)

DefineIn(s, o, atom, d, i) ==
  IF i # 0 THEN DefineExisting(s, o, i, d)
  ELSE IF ~IsElement(s.objects[o], atom) THEN JS_CreateProperty(s, o, atom, d)
  ELSE IF "value" \in DOMAIN d THEN Done([s EXCEPT !.objects[o].values[atom + 1] = d.value])
  ELSE Done(s)

DefineFound(s, o, atom, d) == DefineIn(s, o, atom, d, find_own_property(s, o, atom))

(* An element that will not be plain any more makes the array slow.        *)
JS_DefineProperty(s, o, atom, d) ==
  DefineFound(IF /\ IsElement(s.objects[o], atom)
                 /\ IsGetSet(d) \/ get_prop_flags(d, C_W_E) # C_W_E
              THEN convert_fast_array_to_array(s, o) ELSE s, o, atom, d)

-----------------------------------------------------------------------------
(* Reading and setting.                                                    *)

JS_GetPropertyInternal(s, obj, atom) ==
  LET F[o \in Nat] ==
        LET i == find_own_property(s, o, atom)
            v == s.objects[o].prop[i]
        IN IF o = 0 THEN <<"value", UNDEFINED>>
           ELSE IF i # 0 THEN IF "getset" \in Shape(s, o).prop[i].flags THEN <<"call", v.get>>
                              ELSE <<"value", v>>
           ELSE IF IsElement(s.objects[o], atom) THEN <<"value", s.objects[o].values[atom + 1]>>
           ELSE F[Shape(s, o).proto]
  IN F[obj]

JS_GetOwnPropertyInternal(s, o, atom) ==
  LET i == find_own_property(s, o, atom)
      pr == s.objects[o].prop[i]
      flags == Shape(s, o).prop[i].flags
      both == [enumerable |-> "enumerable" \in flags, configurable |-> "configurable" \in flags]
  IN IF i = 0 THEN Map!DataProperty(s.objects[o].values[atom + 1], TRUE, TRUE, TRUE)
     ELSE IF "getset" \in flags THEN both @@ [get |-> pr.get, set |-> pr.set]
     ELSE both @@ [value |-> pr, writable |-> "writable" \in flags]

HasOwnProperty(s, o, atom) == find_own_property(s, o, atom) # 0 \/ IsElement(s.objects[o], atom)

(* The table of the names: those of an object that are indices, then the   *)
(* elements of a fast array, then the other names. It is sorted only where *)
(* an index is a property.                                                 *)
FilledNames(num, str, elements) ==
  (IF num = <<>> THEN elements ELSE SortSeq(num \o elements, <)) \o str
(* Indices in ascending order, the other names as they were added.         *)
JS_GetOwnPropertyNamesInternal(s, o) ==
  LET atoms == SelectSeq([i \in DOMAIN Shape(s, o).prop |-> Shape(s, o).prop[i].atom], LAMBDA a : a # JS_ATOM_NULL)
      elements == [i \in DOMAIN s.objects[o].values |-> i - 1]
  IN FilledNames(SelectSeq(atoms, JS_AtomIsArrayIndex), SelectSeq(atoms, LAMBDA a : ~JS_AtomIsArrayIndex(a)), elements)

(* Setting through the prototypes of p: the first that has the property    *)
(* decides, and the elements of a fast array can always be set.            *)
Lookup(s, obj, atom) ==
  LET F[o \in Nat] ==
        LET i == find_own_property(s, o, atom)
            flags == Shape(s, o).prop[i].flags
        IN IF o = 0 THEN <<"add">>
           ELSE IF i # 0 /\ "getset" \in flags THEN <<"setter", s.objects[o].prop[i].set>>
           ELSE IF i # 0 /\ "writable" \notin flags THEN <<"readonly">>
           ELSE IF IsElement(s.objects[o], atom) THEN <<"add">>
           ELSE F[Shape(s, o).proto]
  IN F[Shape(s, obj).proto]

AllGiven(v) == Map!DataProperty(v, TRUE, TRUE, TRUE)

AddBySet(s, o, atom, v) ==
  LET p == s.objects[o] IN
  IF ~p.extensible THEN Refused(s)
  ELSE IF p.class # "array" THEN Done(add_property(s, o, atom, C_W_E, v))
  ELSE IF p.fast_array /\ AtomIsTaggedInt(atom) /\ atom = Len(p.values)
  THEN add_fast_array_element(s, o, v)
  ELSE JS_CreateProperty(s, o, atom, AllGiven(v))

JS_SetPropertyInternal(s, o, atom, v) ==
  LET i == find_own_property(s, o, atom)
      flags == Shape(s, o).prop[i].flags
      above == Lookup(s, o, atom)
  IN IF i # 0
     THEN IF "getset" \in flags THEN call_setter(s, s.objects[o].prop[i].set, o, v)
          ELSE IF "writable" \notin flags THEN Refused(s)
          ELSE IF "length" \in flags THEN set_array_length(s, o, v)
          ELSE Done([s EXCEPT !.objects[o].prop[i] = v])
     ELSE IF IsElement(s.objects[o], atom) THEN Done([s EXCEPT !.objects[o].values[atom + 1] = v])
     ELSE CASE above[1] = "add" -> AddBySet(s, o, atom, v)
            [] above[1] = "setter" -> call_setter(s, above[2], o, v)
            [] above[1] = "readonly" -> Refused(s)

(* No prototype can have the index: none but fast arrays and plain objects *)
(* that never had one.                                                     *)
NoIndexAbove(s, o) ==
  LET F[p \in Nat] ==
        \/ p = 0
        \/ /\ IF s.objects[p].class = "array" THEN s.objects[p].fast_array
              ELSE ~Shape(s, p).has_small_array_index
           /\ F[Shape(s, p).proto]
  IN F[Shape(s, o).proto]

JS_SetPropertyValue(s, o, idx, v) ==
  LET p == s.objects[o]
      array == p.class = "array"
  IN IF array /\ idx < Len(p.values) THEN Done([s EXCEPT !.objects[o].values[idx + 1] = v])
     ELSE IF array /\ idx = Len(p.values) /\ p.fast_array /\ p.extensible /\ NoIndexAbove(s, o)
     THEN add_fast_array_element(s, o, v)
     ELSE JS_SetPropertyInternal(s, o, idx, v)

(* Reflect.set and super: the properties of obj, the receiver this.        *)
JS_SetPropertyGeneric(s, obj, atom, v, this) ==
  LET F[o \in Nat] == IF o = 0 THEN 0 ELSE IF HasOwnProperty(s, o, atom) THEN o ELSE F[Shape(s, o).proto]
      holder == F[obj]
      desc == JS_GetOwnPropertyInternal(s, holder, atom)
      own == JS_GetOwnPropertyInternal(s, this, atom)
  IN IF holder # 0 /\ IsGetSet(desc) THEN call_setter(s, desc.set, this, v)
     ELSE IF holder # 0 /\ ~desc.writable THEN Refused(s)
     ELSE IF ~HasOwnProperty(s, this, atom) THEN JS_CreateProperty(s, this, atom, AllGiven(v))
     ELSE IF IsGetSet(own) \/ ~own.writable THEN Refused(s)
     ELSE JS_DefineProperty(s, this, atom, [value |-> v])

JS_SetPrototypeInternal(s, o, proto) ==
  LET F[p \in Nat] == p # 0 /\ (p = o \/ F[Shape(s, p).proto])
      r == js_shape_prepare_update(s, o)
  IN IF Shape(s, o).proto = proto THEN Done(s)
     ELSE IF ~s.objects[o].extensible \/ F[proto] THEN Refused(s)
     ELSE Done([r EXCEPT !.shapes[r.objects[o].shape].proto = proto])

JS_PreventExtensions(s, o) == Done([s EXCEPT !.objects[o].extensible = FALSE])

-----------------------------------------------------------------------------
(* Programs. Object 1 is the prototype of arrays; maps is what the         *)
(* language says the objects are, and due the answer it says they give.    *)

Begun(x) ==
  LET empty == js_new_shape2(0, InitialHashSize, InitialSize)
      first == add_shape_property(empty, length, {"writable", "length"})
      array_shape == add_shape_property(js_new_shape2(1, InitialHashSize, 1),
                                        length, {"writable", "length"})
  IN [mode |-> "objects", scenario |-> x, left |-> Scenarios[x].steps,
      shapes |-> (0 :> array_shape) @@ (1 :> first),
      objects |-> << [class |-> "array", extensible |-> TRUE, fast_array |-> TRUE, shape |-> 1,
                      prop |-> <<0>>, room |-> first.prop_size, values |-> <<>>] >>,
      maps |-> <<Map!EmptyArray>>, ret |-> <<"done">>, due |-> <<"done">>]

ObjectsInit == state \in {Begun(x) : x \in DOMAIN Scenarios}

objects == state.objects
scenario == Scenarios[state.scenario]
Active(op) == state.mode = "objects" /\ state.left > 0 /\ op \in scenario.ops
Object == scenario.objects \cap DOMAIN objects
Answered(r, m) == state' = [r EXCEPT !.maps = m.maps, !.due = m.ret, !.left = @ - 1]

(* The map of one object changes to m.m, and m.ok if it could.             *)
OneMap(o, m) ==
  [maps |-> [state.maps EXCEPT ![o] = m.m], ret |-> IF m.ok THEN <<"done">> ELSE <<"refused">>]

NewObject ==
  /\ Active("new") /\ Len(objects) < MaxObjects
  /\ \E class \in scenario.classes : \E proto \in scenario.protos \cap (0 .. Len(objects)) :
       /\ class = "array" => proto = 1
       /\ LET m == IF class = "array" THEN Map!EmptyArray ELSE Map!Ordinary
          IN Answered(Done(JS_NewObject(state, proto, class)),
                      [maps |-> Append(state.maps, [m EXCEPT !.proto = proto]), ret |-> <<"done">>])

(* Not: a definition that an array which is not extensible refuses after   *)
(* its length has grown (see README).                                      *)
GrowsFirst(o, atom) ==
  /\ objects[o].class = "array" /\ ~objects[o].extensible
  /\ JS_AtomIsArrayIndex(atom) /\ atom >= objects[o].prop[1]

DefineProperty ==
  /\ Active("define")
  /\ \E o \in Object, atom \in scenario.atoms, d \in scenario.descs :
       /\ ~GrowsFirst(o, atom)
       /\ Answered(JS_DefineProperty(state, o, atom, d),
                   OneMap(o, Map!Define(state.maps[o], atom, d)))

(* Nor: a property that a writable one of a nearer prototype should hide.  *)
HiddenAbove(o, atom) ==
  LET above == Shape(state, o).proto
      holder == IF above = 0 THEN 0 ELSE Map!Holder(state.maps, above, atom)
  IN /\ holder # 0 /\ ~Map!Has(state.maps[o], atom)
     /\ "writable" \in DOMAIN state.maps[holder].props[atom]
     /\ state.maps[holder].props[atom].writable
     /\ Lookup(state, holder, atom) # <<"add">>

SetProperty ==
  /\ Active("set")
  /\ \E o \in Object, atom \in scenario.atoms, v \in scenario.values :
       /\ ~HiddenAbove(o, atom)
       /\ Answered(JS_SetPropertyInternal(state, o, atom, v), Map!Set(state.maps, o, atom, v, o))

SetElement ==
  /\ Active("element")
  /\ \E o \in Object, atom \in scenario.atoms, v \in scenario.values :
       /\ AtomIsTaggedInt(atom) /\ ~HiddenAbove(o, atom)
       /\ Answered(JS_SetPropertyValue(state, o, atom, v), Map!Set(state.maps, o, atom, v, o))

ReflectSet ==
  /\ Active("reflect")
  /\ \E o \in Object, this \in Object, atom \in scenario.atoms, v \in scenario.values :
       /\ ~GrowsFirst(this, atom)
       /\ Answered(JS_SetPropertyGeneric(state, o, atom, v, this),
                   Map!Set(state.maps, o, atom, v, this))

DeleteProperty ==
  /\ Active("delete")
  /\ \E o \in Object, atom \in scenario.atoms :
       Answered(delete_property(state, o, atom), OneMap(o, Map!Delete(state.maps[o], atom)))

SetPrototype ==
  /\ Active("prototype")
  /\ \E o \in Object, proto \in Object \cup {0} :
       Answered(JS_SetPrototypeInternal(state, o, proto), Map!SetPrototype(state.maps, o, proto))

PreventExtensions ==
  /\ Active("prevent")
  /\ \E o \in Object :
       Answered(JS_PreventExtensions(state, o),
                [maps |-> [state.maps EXCEPT ![o].ext = FALSE], ret |-> <<"done">>])

ObjectsNext ==
  \/ NewObject \/ DefineProperty \/ SetProperty \/ SetElement \/ ReflectSet
  \/ DeleteProperty \/ SetPrototype \/ PreventExtensions

-----------------------------------------------------------------------------
(* INVARIANT: whatever the operations were, every object is the map that   *)
(* the language defines, from the own names in their order and every       *)
(* property of theirs to what a read through its prototypes finds, and the *)
(* last operation answered as defined (fast and slow arrays, shapes found, *)
(* cloned and changed, chains with entries taken out).                     *)
ObjectsAreMaps ==
  state.mode = "objects" =>
    /\ state.ret = state.due
    /\ \A o \in DOMAIN objects :
         LET m == state.maps[o] IN
         /\ JS_GetOwnPropertyNamesInternal(state, o) = Map!OwnKeys(m)
         /\ \A k \in DOMAIN m.props : JS_GetOwnPropertyInternal(state, o, k) = m.props[k]
         /\ m.proto = Shape(state, o).proto /\ m.ext = objects[o].extensible
         /\ \A k \in scenario.atoms :
              JS_GetPropertyInternal(state, o, k) = Map!Get(state.maps, o, k)

(* INVARIANT: a shape counts the objects that have it (and the context has *)
(* that of arrays), one that is not in the table belongs to one object,    *)
(* the hash of one that is is that of its contents, every property is in   *)
(* the chain of its atom, and an object has the memory for as many         *)
(* properties as its shape was made for.                                   *)
ShapesShared ==
  state.mode = "objects" =>
    /\ \A i \in DOMAIN state.shapes :
         LET sh == state.shapes[i]
             owners == {o \in DOMAIN objects : objects[o].shape = i}
         IN /\ sh.ref_count = Cardinality(owners) + (IF i = 0 THEN 1 ELSE 0)
            /\ ~sh.is_hashed => sh.ref_count = 1
            /\ sh.is_hashed => sh.hash = shape_initial_hash(sh.proto) \o Atoms(sh.prop)
            /\ Len(sh.prop) <= sh.prop_size
            /\ (\E x \in DOMAIN sh.prop : sh.prop[x].atom # JS_ATOM_NULL /\ AtomIsTaggedInt(sh.prop[x].atom))
                 => sh.has_small_array_index
    /\ \A o \in DOMAIN objects :
         /\ objects[o].room = Shape(state, o).prop_size
         /\ Len(objects[o].prop) = Len(Shape(state, o).prop)
         /\ \A x \in DOMAIN objects[o].prop :
              LET atom == Shape(state, o).prop[x].atom
              IN atom # JS_ATOM_NULL => find_own_property(state, o, atom) = x

(* INVARIANT: the objects and the shapes they share. *)
ObjectsSound == ObjectsAreMaps /\ ShapesShared
=============================================================================
