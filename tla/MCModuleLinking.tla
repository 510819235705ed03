-------------------------- MODULE MCModuleLinking ---------------------------
EXTENDS ModuleLinking

CONSTANTS a, b, c, d

File(req, star, import, export) ==
  [kind |-> "js", req |-> req, star |-> star, import |-> import, export |-> export]
Imp(from, name, as) == [from |-> from, name |-> name, as |-> as]
Own(v) == [type |-> "local", local |-> v, from |-> Null]
Via(from, x) == [type |-> "indirect", local |-> x, from |-> from]
x1(e) == [x \in {"x"} |-> e]
Leaf == File(<<>>, <<>>, <<>>, [x \in {"x", "y", "default"} |-> Own(x)])

(* a takes x through two stars that meet in d, and y is in both c and d. *)
Diamond ==
  [m \in {a, b, c, d} |->
     CASE m = a -> File(<<b, c>>, <<b, c>>, <<Imp(b, "x", "v"), Imp(c, "*", "n")>>,
                        [x \in {"v", "n", "o"} |-> IF x = "o" THEN Via(b, "*") ELSE Own(x)])
       [] m = b -> File(<<d>>, <<d>>, <<>>, <<>>)
       [] m = c -> File(<<d>>, <<d>>, <<Imp(d, "default", "w")>>,
                        [x \in {"y", "w"} |-> Own(x)])
       [] m = d -> Leaf]

(* a and b import from each other; c comes from a C module and may lack a  *)
(* file.                                                                   *)
Circle ==
  [m \in {a, b, d} |->
     CASE m = a -> File(<<b, d>>, <<>>, <<Imp(b, "y", "u"), Imp(d, "x", "v")>>, x1(Own("x")))
       [] m = b -> File(<<a>>, <<>>, <<Imp(a, "x", "v")>>, [y \in {"y"} |-> Own("y")])
       [] m = d -> [Leaf EXCEPT !.kind = "c"]]

(* A name behind two stars, one of which leads back to a. *)
Clash ==
  [m \in {a, b, d} |->
     CASE m = a -> File(<<b>>, <<>>, <<Imp(b, "x", "v")>>, <<>>)
       [] m = b -> File(<<d, a>>, <<d, a>>, <<>>, <<>>)
       [] m = d -> File(<<>>, <<>>, <<>>, x1(Own("x")))]

(* A name that two files behind stars have; d requests a, which fails. *)
Ambiguous ==
  [m \in {a, b, c, d} |->
     CASE m = a -> File(<<b>>, <<>>, <<Imp(b, "x", "v")>>, <<>>)
       [] m = b -> File(<<c, d>>, <<c, d>>, <<>>, <<>>)
       [] m = c -> Leaf
       [] m = d -> [Leaf EXCEPT !.req = <<a>>]]

Missing ==
  [m \in {a, b, d} |->
     CASE m = a -> File(<<b, c>>, <<b>>, <<>>, x1(Own("x")))
       [] m = b -> File(<<a>>, <<>>, <<Imp(a, "x", "v")>>, <<>>)
       [] m = d -> File(<<b>>, <<>>, <<Imp(b, "*", "n")>>, <<>>)]

(* b wants a name that a takes from c, which comes after b. *)
Early ==
  [m \in {a, b, c} |->
     CASE m = a -> File(<<b, c>>, <<>>, <<>>, x1(Via(c, "x")))
       [] m = b -> File(<<a>>, <<>>, <<Imp(a, "x", "v")>>, <<>>)
       [] m = c -> Leaf]

MCPrograms == {Diamond, Circle, Clash, Ambiguous, Missing, Early}
=============================================================================
