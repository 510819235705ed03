------------------------------ MODULE Proxies -------------------------------
(* Proxies (quickjs.c 42192-43106): an operation on a proxy calls a trap,  *)
(* which is program code and may answer what it likes; the proxy refuses   *)
(* an answer that contradicts what the target cannot change any more. The  *)
(* target is an ordinary object, whose properties the program changes too  *)
(* (PropertyMap); a handler without a trap answers as the target does.     *)
(* Not: a target that is a proxy itself, apply, construct, exceptions.     *)
EXTENDS Properties

CONSTANTS
  ProxyKeys,      \* keys of the target
  ProxyValues,    \* values of properties and of traps, UNDEFINED among them
  ProxyProtos,    \* prototypes, null among them
  ProxyDescs      \* descriptors that programs make

Own(t, k) == k \in DOMAIN t.props
DescFlags(t, k) ==
  LET p == t.props[k] IN {f \in C_W_E \cap DOMAIN p : p[f]} \cup (IF "get" \in DOMAIN p THEN {"getset"} ELSE {})
IsConstant(flags) == flags \cap {"getset", "configurable", "writable"} = {}
FixedAccessor(flags) == flags \cap {"getset", "configurable"} = {"getset"}

-----------------------------------------------------------------------------
(* Which answers of a trap are accepted, with the target as it is after    *)
(* the call of the trap.                                                   *)
AcceptPrototype(t, ret) == t.ext \/ ret = t.proto
AcceptSetPrototype(t, proto, ret) == ret => t.ext \/ proto = t.proto
AcceptIsExtensible(t, ret) == ret = t.ext
AcceptPreventExtensions(t, ret) == ret => ~t.ext

AcceptHas(t, k, ret) == ~ret /\ Own(t, k) => "configurable" \in DescFlags(t, k) /\ t.ext
(* Slip: of an object that is not extensible too. *)
Slip_Configurable(t, k, ret) == ret /\ Own(t, k) => "configurable" \in DescFlags(t, k)
AcceptDelete(t, k, ret) == ret /\ Own(t, k) => "configurable" \in DescFlags(t, k) /\ t.ext

AcceptGet(t, k, ret) ==
  Own(t, k) =>
    /\ IsConstant(DescFlags(t, k)) => ret = t.props[k].value
    /\ FixedAccessor(DescFlags(t, k)) /\ t.props[k].get = UNDEFINED => ret = UNDEFINED
AcceptSet(t, k, v, ret) ==
  ret /\ Own(t, k) =>
    /\ IsConstant(DescFlags(t, k)) => v = t.props[k].value
    /\ FixedAccessor(DescFlags(t, k)) => t.props[k].set # UNDEFINED

(* A descriptor that leaves out "writable" counts as not writable, and one *)
(* that names it is refused for every property that must stay writable.    *)
AcceptDefine(t, k, d, ret) ==
  LET flags == DescFlags(t, k)
      setting_not_configurable == "configurable" \in DOMAIN d /\ ~d.configurable
      Stays(f) == f \in DOMAIN d => d[f] = t.props[k][f]
      writable_fixed == flags \cap {"configurable", "writable"} = {"writable"}
  IN ~ret \/ IF ~Own(t, k) THEN t.ext /\ ~setting_not_configurable
             ELSE /\ check_define_prop_flags(flags, d)
                  /\ ~("configurable" \in flags /\ setting_not_configurable)
                  /\ IF IsGetSet(d) THEN FixedAccessor(flags) => Stays("get") /\ Stays("set")
                     ELSE "value" \in DOMAIN d =>
                            /\ writable_fixed => "writable" \in DOMAIN d /\ d.writable
                            /\ IsConstant(flags) => Stays("value")
                  /\ "writable" \in DOMAIN d => ~(writable_fixed /\ "getset" \notin flags)

(* The descriptor that getOwnPropertyDescriptor answers with is compared   *)
(* with the property as it was before the descriptor was read: reading it  *)
(* runs program code. Values, getters and setters are not compared.        *)
Completion(d) ==
  [f \in DOMAIN d \cup {"configurable", "enumerable"}
         \cup (IF IsGetSet(d) THEN {"get", "set"} ELSE {"value", "writable"}) |->
     IF f \in DOMAIN d THEN d[f] ELSE IF f \in C_W_E THEN FALSE ELSE UNDEFINED]
AcceptDescriptor(had, flags, ext, d) ==
  LET w == Completion(d)
  IN /\ IF had THEN check_define_prop_flags(flags, w) ELSE ext
     /\ ~w.configurable => /\ had /\ "configurable" \notin flags
                           /\ ~IsGetSet(d) /\ ~w.writable => "writable" \notin flags
AcceptNoDescriptor(t, k) == Own(t, k) => "configurable" \in DescFlags(t, k) /\ t.ext

AcceptOwnKeys(t, revoked, tab) ==
  /\ \A i, j \in DOMAIN tab : tab[i] = tab[j] => i = j
  /\ ~revoked
  /\ \A k \in DOMAIN t.props : "configurable" \notin DescFlags(t, k) \/ ~t.ext => \E i \in DOMAIN tab : tab[i] = k
  /\ ~t.ext => \A i \in DOMAIN tab : Own(t, tab[i])

-----------------------------------------------------------------------------
(* What the program has been told for good (facts), and whether an answer  *)
(* went back on what had been told before the call.                        *)

ProxyInit ==
  state = [mode |-> "proxy", target |-> [props |-> <<>>, ext |-> TRUE, proto |-> 0], revoked |-> FALSE,
           reading |-> <<>>, facts |-> {}, contradicted |-> FALSE]

Calling == state.mode = "proxy" /\ state.reading = <<>> /\ ~state.revoked

TrapAnswered(accepted, seen, learned, denied) ==
  state' = IF accepted THEN [state EXCEPT !.reading = <<>>, !.facts = @ \cup learned,
                                          !.contradicted = @ \/ denied \cap seen # {}]
           ELSE [state EXCEPT !.reading = <<>>]

Closed == <<"inextensible">> \in state.facts
Others(what, k, S, v) == {<<what, k, x>> : x \in S \ {v}}

js_proxy_getPrototypeOf ==
  /\ Calling
  /\ \E ret \in ProxyProtos :
       TrapAnswered(AcceptPrototype(state.target, ret), state.facts,
                IF Closed THEN {<<"proto", 0, ret>>} ELSE {}, Others("proto", 0, ProxyProtos, ret))
js_proxy_setPrototypeOf ==
  /\ Calling
  /\ \E proto \in ProxyProtos, ret \in BOOLEAN :
       TrapAnswered(AcceptSetPrototype(state.target, proto, ret), state.facts, {},
                IF ret THEN Others("proto", 0, ProxyProtos, proto) ELSE {})
js_proxy_isExtensible ==
  /\ Calling
  /\ \E ret \in BOOLEAN :
       TrapAnswered(AcceptIsExtensible(state.target, ret), state.facts,
                IF ret THEN {} ELSE {<<"inextensible">>}, IF ret THEN {<<"inextensible">>} ELSE {})
js_proxy_preventExtensions ==
  /\ Calling
  /\ \E ret \in BOOLEAN :
       TrapAnswered(AcceptPreventExtensions(state.target, ret), state.facts,
                IF ret THEN {<<"inextensible">>} ELSE {}, {})

Missing(k) == IF Closed THEN {<<"missing", k>>} ELSE {}
js_proxy_has(k) ==
  /\ Calling
  /\ \E ret \in BOOLEAN :
       TrapAnswered(AcceptHas(state.target, k, ret), state.facts,
                IF ret THEN {} ELSE Missing(k), IF ret THEN {} ELSE {<<"fixed", k>>})
js_proxy_delete_property(k) ==
  /\ Calling
  /\ \E ret \in BOOLEAN :
       TrapAnswered(AcceptDelete(state.target, k, ret), state.facts,
                IF ret THEN Missing(k) ELSE {}, IF ret THEN {<<"fixed", k>>} ELSE {})
js_proxy_get(k) ==
  /\ Calling
  /\ \E ret \in ProxyValues :
       TrapAnswered(AcceptGet(state.target, k, ret), state.facts,
                IF <<"readonly", k>> \in state.facts THEN {<<"value", k, ret>>} ELSE {},
                Others("value", k, ProxyValues, ret))
js_proxy_set(k) ==
  /\ Calling
  /\ \E v \in ProxyValues, ret \in BOOLEAN :
       TrapAnswered(AcceptSet(state.target, k, v, ret), state.facts, {},
                IF ret THEN Others("value", k, ProxyValues, v) ELSE {})

(* What a descriptor says of a property for good, and what it denies.      *)
Fixes(k, d) ==
  IF d.configurable THEN {}
  ELSE {<<"fixed", k>>} \cup (IF "writable" \in DOMAIN d /\ ~d.writable THEN {<<"readonly", k>>} ELSE {})
Denies(k, d) ==
  {<<"missing", k>>} \cup (IF "configurable" \in DOMAIN d /\ d.configurable THEN {<<"fixed", k>>} ELSE {})
  \cup (IF IsGetSet(d) \/ ("writable" \in DOMAIN d /\ d.writable) THEN {<<"readonly", k>>} ELSE {})
js_proxy_define_own_property(k) ==
  /\ Calling
  /\ \E d \in ProxyDescs, ret \in BOOLEAN :
       TrapAnswered(AcceptDefine(state.target, k, d, ret), state.facts,
                IF ret /\ "configurable" \in DOMAIN d THEN Fixes(k, d) ELSE {}, IF ret THEN Denies(k, d) ELSE {})

js_proxy_get_own_property(k) ==
  /\ Calling
  /\ \/ TrapAnswered(AcceptNoDescriptor(state.target, k), state.facts, Missing(k), {<<"fixed", k>>})
     \/ LET t == state.target
        IN state' = [state EXCEPT !.reading =
                       <<[key |-> k, had |-> Own(t, k), flags |-> IF Own(t, k) THEN DescFlags(t, k) ELSE {},
                          ext |-> t.ext, seen |-> state.facts]>>]
js_obj_to_desc ==
  /\ state.mode = "proxy" /\ state.reading # <<>>
  /\ LET r == state.reading[1]
     IN \E d \in ProxyDescs :
          TrapAnswered(AcceptDescriptor(r.had, r.flags, r.ext, d), r.seen, Fixes(r.key, Completion(d)), Denies(r.key, Completion(d)))

js_proxy_get_own_property_names ==
  /\ Calling
  /\ \E n \in 0 .. Cardinality(ProxyKeys) + 1 : \E tab \in [1 .. n -> ProxyKeys], revoked \in BOOLEAN :
       LET told == {tab[i] : i \in 1 .. n}
       IN TrapAnswered(AcceptOwnKeys(state.target, revoked, tab), state.facts,
                   UNION {Missing(k) : k \in ProxyKeys \ told},
                   {<<"fixed", k>> : k \in ProxyKeys \ told} \cup {<<"missing", k>> : k \in told})

js_proxy_revoke == state.mode = "proxy" /\ ~state.revoked /\ state' = [state EXCEPT !.revoked = TRUE]

(* The program changes the target itself, within a trap or outside.        *)
TargetIs(t) == state' = [state EXCEPT !.target = t]
TargetDefine(k) ==
  /\ state.mode = "proxy"
  /\ \E d \in ProxyDescs :
       LET t == state.target
           new == Map!Completed(d, IF Own(t, k) THEN t.props[k] ELSE <<>>)
       IN /\ IF Own(t, k) THEN Map!Allowed(d, t.props[k]) ELSE t.ext
          /\ TargetIs([t EXCEPT !.props = [x \in DOMAIN @ \cup {k} |-> IF x = k THEN new ELSE @[x]]])
TargetDelete(k) ==
  /\ state.mode = "proxy" /\ Own(state.target, k) /\ state.target.props[k].configurable
  /\ TargetIs([state.target EXCEPT !.props = [x \in DOMAIN @ \ {k} |-> @[x]]])
TargetPreventExtensions == state.mode = "proxy" /\ TargetIs([state.target EXCEPT !.ext = FALSE])
TargetSetPrototype ==
  state.mode = "proxy" /\ state.target.ext /\ \E p \in ProxyProtos : TargetIs([state.target EXCEPT !.proto = p])

ProxyNext ==
  \/ js_proxy_getPrototypeOf \/ js_proxy_setPrototypeOf \/ js_proxy_isExtensible \/ js_proxy_preventExtensions
  \/ \E k \in ProxyKeys : js_proxy_has(k)
  \/ \E k \in ProxyKeys : js_proxy_delete_property(k)
  \/ \E k \in ProxyKeys : js_proxy_get(k)
  \/ \E k \in ProxyKeys : js_proxy_set(k)
  \/ \E k \in ProxyKeys : js_proxy_define_own_property(k)
  \/ \E k \in ProxyKeys : js_proxy_get_own_property(k)
  \/ js_obj_to_desc \/ js_proxy_get_own_property_names \/ js_proxy_revoke
  \/ \E k \in ProxyKeys : TargetDefine(k)
  \/ \E k \in ProxyKeys : TargetDelete(k)
  \/ TargetPreventExtensions \/ TargetSetPrototype

-----------------------------------------------------------------------------
(* INVARIANT: whatever traps answer and however the target changes, even   *)
(* between two steps of one operation, a proxy does not go back on what it *)
(* has told: a property that is not configurable is there and stays so, a  *)
(* value that is also read-only is always read alike and is not written,   *)
(* an object that is not extensible gets no property and no other          *)
(* prototype. The values getOwnPropertyDescriptor tells are left out.      *)
ProxiesKeepWord == state.mode = "proxy" => ~state.contradicted
=============================================================================
