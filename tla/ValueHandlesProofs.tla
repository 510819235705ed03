------------------------- MODULE ValueHandlesProofs -------------------------
(***************************************************************************)
(* Every reference of ValueHandles has one owner, and what is left when    *)
(* the runtime is freed is what nobody could free, for every number of     *)
(* Values, objects and modules.                                            *)
(*                                                                         *)
(* The engine's side is a world: counts and properties.  Its slack is, for *)
(* each object, the references that are not the property of an object; the *)
(* lemmas on the engine say what each operation does to the slack, and the *)
(* steps of the program change the other owners by as much.                *)
(***************************************************************************)
EXTENDS ValueHandles, FiniteSetTheorems, WellFoundedInduction, TLAPS

(***************************************************************************)
(* Induction and recursion on the naturals, stated for sets and functions. *)
(***************************************************************************)

(* A set of naturals that is not empty has a least element.                *)
LEMMA LeastElement ==
  ASSUME NEW A \in SUBSET Nat, A # {}
  PROVE  \E n \in A : \A m \in A : n <= m
<1> DEFINE R == OpToRel(<, Nat)
<1>1. \A m, n \in Nat : m < n => <<m, n>> \in R
  BY DEF OpToRel
<1>2. IsWellFoundedOn(R, Nat)
  BY NatLessThanWellFounded
<1> HIDE DEF R
<1>3. PICK x \in A : \A y \in A : ~ (<<y, x>> \in R)
  BY <1>2, WFMin
<1>4. ASSUME NEW y \in A PROVE x <= y
  <2>1. ~(y < x)
    BY <1>1, <1>3
  <2> QED BY <2>1
<1> QED BY <1>4

(* A set that has zero, and with a number the next one, has every number.  *)
LEMMA Induction ==
  ASSUME NEW A, 0 \in A, \A n \in Nat : n \in A => n + 1 \in A
  PROVE  \A n \in Nat : n \in A
<1> SUFFICES ASSUME Nat \ A # {} PROVE FALSE
  OBVIOUS
<1>1. PICK n \in Nat \ A : \A m \in Nat \ A : n <= m
  BY LeastElement
<1>2. n # 0 /\ n - 1 \in Nat /\ n - 1 \in A
  BY <1>1
<1> QED BY <1>1, <1>2

(* A function on a set can be iterated from each of its elements.          *)
Iteration(S, G, x, f) ==
  f \in [Nat -> S] /\ f[0] = x /\ \A n \in Nat : f[n + 1] = G[f[n]]

LEMMA Iterates ==
  ASSUME NEW S, NEW G \in [S -> S], NEW x \in S
  PROVE  \E f : Iteration(S, G, x, f)
<1> DEFINE Upto(n) == {f \in [0..n -> S] : f[0] = x /\ \A i \in 0..(n - 1) : f[i + 1] = G[f[i]]}
           F == [n \in Nat |-> (CHOOSE e \in Upto(n) : TRUE)[n]]
<1>1. ASSUME NEW m \in Nat, NEW n \in Nat, m <= n, NEW f \in Upto(m), NEW g \in Upto(n)
      PROVE  f[m] = g[m]
  <2> DEFINE A == {i \in Nat : i <= m => f[i] = g[i]}
  <2>1. 0 \in A
    OBVIOUS
  <2>2. ASSUME NEW i \in Nat, i \in A PROVE i + 1 \in A
    <3> SUFFICES ASSUME i + 1 <= m PROVE f[i + 1] = g[i + 1]
      OBVIOUS
    <3>1. i \in 0..(m - 1) /\ i \in 0..(n - 1)
      BY <1>1
    <3>2. f[i] = g[i]
      BY <2>2, <3>1
    <3>3. f[i + 1] = G[f[i]] /\ g[i + 1] = G[g[i]]
      BY <3>1
    <3> QED BY <3>2, <3>3
  <2>3. m \in A
    <3> HIDE DEF A
    <3> QED BY <2>1, <2>2, Induction
  <2> QED BY <2>3
<1>2. \A n \in Nat : Upto(n) # {}
  <2> DEFINE A == {n \in Nat : Upto(n) # {}}
  <2>1. 0 \in A
    <3>1. [i \in 0..0 |-> x] \in Upto(0)
      OBVIOUS
    <3> QED BY <3>1
  <2>2. ASSUME NEW n \in Nat, n \in A PROVE n + 1 \in A
    <3>1. PICK f \in Upto(n) : TRUE
      BY <2>2
    <3> DEFINE g == [i \in 0..(n + 1) |-> IF i = n + 1 THEN G[f[n]] ELSE f[i]]
    <3>2. g \in [0..(n + 1) -> S] /\ g[0] = x
      BY <3>1
    <3>3. ASSUME NEW i \in 0..((n + 1) - 1) PROVE g[i + 1] = G[g[i]]
      <4>1. g[i] = f[i]
        OBVIOUS
      <4>2. CASE i = n
        BY <4>1, <4>2
      <4>3. CASE i # n
        <5>1. i \in 0..(n - 1) /\ i + 1 \in 0..n
          BY <4>3
        <5>2. f[i + 1] = G[f[i]]
          BY <3>1, <5>1
        <5>3. g[i + 1] = f[i + 1]
          BY <5>1
        <5> QED BY <4>1, <5>2, <5>3
      <4> QED BY <4>2, <4>3
    <3>4. g \in Upto(n + 1)
      BY <3>2, <3>3
    <3> HIDE DEF Upto, g
    <3> QED BY <3>4
  <2> HIDE DEF A
  <2>3. \A n \in Nat : n \in A
    BY <2>1, <2>2, Induction
  <2> QED BY <2>3 DEF A
<1>3. \A n \in Nat : (CHOOSE e \in Upto(n) : TRUE) \in Upto(n)
  BY <1>2
<1>4. F \in [Nat -> S]
  <2>1. \A n \in Nat : \A f \in Upto(n) : f[n] \in S
    OBVIOUS
  <2> HIDE DEF Upto
  <2> QED BY <1>3, <2>1
<1>5. F[0] = x
  <2>1. \A f \in Upto(0) : f[0] = x
    OBVIOUS
  <2> HIDE DEF Upto
  <2> QED BY <1>3, <2>1
<1>6. ASSUME NEW n \in Nat PROVE F[n + 1] = G[F[n]]
  <2>1. PICK f : f = (CHOOSE e \in Upto(n) : TRUE)
    OBVIOUS
  <2>2. PICK g : g = (CHOOSE e \in Upto(n + 1) : TRUE)
    OBVIOUS
  <2>3. f \in Upto(n) /\ g \in Upto(n + 1)
    <3> HIDE DEF Upto
    <3> QED BY <1>3, <2>1, <2>2
  <2>4. g[n + 1] = G[g[n]]
    BY <2>3
  <2> DEFINE h == [i \in 0..n |-> g[i]]
  <2>5. h \in Upto(n)
    BY <2>3
  <2>6. f[n] = g[n]
    <3>1. f[n] = h[n]
      <4> HIDE DEF Upto, h
      <4> QED BY <1>1, <2>3, <2>5
    <3> QED BY <3>1
  <2>7. F[n] = f[n] /\ F[n + 1] = g[n + 1]
    <3> HIDE DEF Upto
    <3> QED BY <2>1, <2>2
  <2> QED BY <2>4, <2>6, <2>7
<1>7. Iteration(S, G, x, F)
  <2> HIDE DEF F
  <2> QED BY <1>4, <1>5, <1>6 DEF Iteration
<1> QED BY <1>7

-----------------------------------------------------------------------------
(* Counting.                                                               *)

In(x, A) == IF x \in A THEN 1 ELSE 0

(* Two sets that differ in one element.                                    *)
LEMMA CountStep ==
  ASSUME NEW A, NEW B, NEW x, IsFiniteSet(A), A \ {x} = B \ {x}
  PROVE  /\ IsFiniteSet(B)
         /\ Cardinality(A) \in Nat /\ Cardinality(B) \in Nat
         /\ Cardinality(A) - In(x, A) = Cardinality(B) - In(x, B)
<1>1. \A S : IsFiniteSet(S) =>
         /\ IsFiniteSet(S \ {x}) /\ IsFiniteSet(S \cup {x})
         /\ Cardinality(S) \in Nat
         /\ Cardinality(S \ {x}) = Cardinality(S) - In(x, S)
  BY FS_RemoveElement, FS_AddElement, FS_CardinalityType DEF In
<1>2. IsFiniteSet(B)
  <2>1. IsFiniteSet(A \cup {x}) /\ B \subseteq A \cup {x}
    BY <1>1
  <2> QED BY <2>1, FS_Subset
<1> QED BY <1>1, <1>2

-----------------------------------------------------------------------------
(* The engine.                                                             *)

Ref == Object \cup {None}
Worlds == [rc : [Object -> Int], prop : [Object -> Ref]]

Props(p, o) == {q \in Object : p[q] = o}
Slack(w, o) == w.rc[o] - Cardinality(Props(w.prop, o))
Is(v, o) == IF v = o THEN 1 ELSE 0

LEMMA PropsFinite ==
  ASSUME NEW p, NEW o
  PROVE  IsFiniteSet(Props(p, o)) /\ Cardinality(Props(p, o)) \in Nat
BY HandleAssumption, FS_Subset, FS_CardinalityType DEF Props

(* A property is set.                                                      *)
LEMMA PropsStep ==
  ASSUME NEW p \in [Object -> Ref], NEW q \in Object, NEW v \in Ref, NEW o \in Object
  PROVE  Cardinality(Props([p EXCEPT ![q] = v], o))
           = Cardinality(Props(p, o)) - Is(p[q], o) + Is(v, o)
<1> DEFINE A == Props(p, o)
           B == Props([p EXCEPT ![q] = v], o)
<1>1. A \ {q} = B \ {q}
  BY DEF Props
<1>2. In(q, A) = Is(p[q], o) /\ In(q, B) = Is(v, o)
  BY DEF In, Is, Props
<1>3. IsFiniteSet(A)
  BY PropsFinite
<1> HIDE DEF A, B
<1>4. Cardinality(A) - In(q, A) = Cardinality(B) - In(q, B) /\ Cardinality(A) \in Nat /\ Cardinality(B) \in Nat
  BY <1>1, <1>3, CountStep
<1>5. In(q, A) \in Int /\ In(q, B) \in Int
  BY DEF In
<1> QED BY <1>2, <1>4, <1>5 DEF A, B

(* What an object without references lets go of was its property.          *)
LEMMA LetGoSlack ==
  ASSUME NEW w \in Worlds
  PROVE  /\ LetGo(w) \in Worlds
         /\ \A o \in Object : Slack(LetGo(w), o) = Slack(w, o)
         /\ Dead(w) = {} => LetGo(w) = w
         /\ Dead(w) # {} =>
              \E o \in Object : w.prop[o] # None /\ LetGo(w).prop = [w.prop EXCEPT ![o] = None]
<1>1. CASE Dead(w) = {}
  BY <1>1 DEF LetGo
<1>2. CASE Dead(w) # {}
  <2>1. PICK d : d = (CHOOSE o \in Dead(w) : TRUE)
    OBVIOUS
  <2>2. d \in Object /\ w.rc[d] = 0 /\ w.prop[d] # None
    BY <1>2, <2>1 DEF Dead
  <2> DEFINE v == w.prop[d]
  <2>3. v \in Object
    BY <2>2 DEF Worlds, Ref
  <2>4. LetGo(w) = [w EXCEPT !.prop[d] = None, !.rc[v] = @ - 1]
    BY <1>2, <2>1 DEF LetGo
  <2>5. /\ LetGo(w).prop = [w.prop EXCEPT ![d] = None]
        /\ LetGo(w).rc = [w.rc EXCEPT ![v] = @ - 1]
        /\ LetGo(w) \in Worlds
    <3>1. w = [rc |-> w.rc, prop |-> w.prop] /\ w.rc \in [Object -> Int] /\ w.prop \in [Object -> Ref]
      BY DEF Worlds
    <3>2. LetGo(w) = [rc |-> [w.rc EXCEPT ![v] = @ - 1], prop |-> [w.prop EXCEPT ![d] = None]]
      BY <2>4, <3>1
    <3>3. [w.rc EXCEPT ![v] = @ - 1] \in [Object -> Int]
      BY <2>3, <3>1
    <3>4. [w.prop EXCEPT ![d] = None] \in [Object -> Ref]
      BY <2>2, <3>1 DEF Ref
    <3> HIDE DEF v
    <3> QED BY <3>2, <3>3, <3>4 DEF Worlds
  <2>6. ASSUME NEW o \in Object PROVE Slack(LetGo(w), o) = Slack(w, o)
    <3>1. w.prop \in [Object -> Ref] /\ None \in Ref /\ w.rc[o] \in Int
      BY DEF Worlds, Ref
    <3>2. Cardinality(Props(LetGo(w).prop, o)) = Cardinality(Props(w.prop, o)) - Is(v, o) + Is(None, o)
      BY <2>2, <2>5, <3>1, PropsStep
    <3>3. Is(None, o) = 0
      BY HandleAssumption DEF Is
    <3>4. LetGo(w).rc[o] = w.rc[o] - Is(v, o)
      BY <2>3, <2>5, <3>1 DEF Is, Worlds
    <3>5. Cardinality(Props(w.prop, o)) \in Nat /\ Is(v, o) \in Int
      BY PropsFinite DEF Is
    <3> QED BY <3>1, <3>2, <3>3, <3>4, <3>5 DEF Slack
  <2> QED BY <1>2, <2>2, <2>5, <2>6
<1> QED BY <1>1, <1>2

(* free_object is the last of a series in which each lets go once.         *)
LEMMA FreedOneByOne ==
  ASSUME NEW w \in Worlds
  PROVE  \E f \in [Nat -> Worlds] :
           /\ f[0] = w /\ \A n \in Nat : f[n + 1] = LetGo(f[n])
           /\ free_object(w) = f[Cardinality(Object)]
<1> DEFINE G == [x \in Worlds |-> LetGo(x)]
           Fits(f) == f = [n \in Nat |-> IF n = 0 THEN w ELSE LetGo(f[n - 1])]
           freed == CHOOSE f : Fits(f)
<1>1. G \in [Worlds -> Worlds]
  BY LetGoSlack
<1>2. PICK f : Iteration(Worlds, G, w, f)
  <2> HIDE DEF G
  <2> QED BY <1>1, Iterates
<1>3. f \in [Nat -> Worlds] /\ f[0] = w /\ \A n \in Nat : f[n + 1] = LetGo(f[n])
  BY <1>2 DEF Iteration
<1>4. Fits(f)
  <2>1. ASSUME NEW n \in Nat PROVE f[n] = IF n = 0 THEN w ELSE LetGo(f[n - 1])
    <3>1. CASE n = 0
      BY <1>3, <3>1
    <3>2. CASE n # 0
      <4>1. n - 1 \in Nat /\ (n - 1) + 1 = n
        BY <3>2
      <4>2. f[(n - 1) + 1] = LetGo(f[n - 1])
        BY <1>3, <4>1
      <4> QED BY <3>2, <4>1, <4>2
    <3> QED BY <3>1, <3>2
  <2> QED BY <1>3, <2>1
<1>5. Fits(freed)
  <2> HIDE DEF Fits
  <2> QED BY <1>4
<1>6. free_object(w) = freed[Cardinality(Object)]
  BY DEF free_object
<1>7. freed[0] = w /\ \A n \in Nat : freed[n + 1] = LetGo(freed[n])
  <2> HIDE DEF freed
  <2>1. freed[0] = w
    BY <1>5
  <2>2. ASSUME NEW n \in Nat PROVE freed[n + 1] = LetGo(freed[n])
    BY <1>5
  <2> QED BY <2>1, <2>2
<1>8. \A n \in Nat : freed[n] = f[n]
  <2> DEFINE A == {n \in Nat : freed[n] = f[n]}
  <2>1. 0 \in A
    BY <1>3, <1>7
  <2>2. \A n \in Nat : n \in A => n + 1 \in A
    BY <1>3, <1>7
  <2>3. \A n \in Nat : n \in A
    <3> HIDE DEF A
    <3> QED BY <2>1, <2>2, Induction
  <2> QED BY <2>3
<1>9. Cardinality(Object) \in Nat
  BY HandleAssumption, FS_CardinalityType
<1>10. free_object(w) = f[Cardinality(Object)]
  BY <1>6, <1>8, <1>9
<1> QED BY <1>3, <1>10

(* It changes no slack, and afterwards nobody has anything to let go of.   *)
LEMMA FreeObject ==
  ASSUME NEW w \in Worlds
  PROVE  /\ free_object(w) \in Worlds
         /\ \A o \in Object : Slack(free_object(w), o) = Slack(w, o)
         /\ Dead(free_object(w)) = {}
<1> DEFINE N == Cardinality(Object)
           Having(x) == {o \in Object : x.prop[o] # None}
<1>1. PICK f \in [Nat -> Worlds] :
        /\ f[0] = w /\ \A n \in Nat : f[n + 1] = LetGo(f[n])
        /\ free_object(w) = f[N]
  BY FreedOneByOne
<1>2. N \in Nat /\ \A x : IsFiniteSet(Having(x)) /\ Cardinality(Having(x)) \in Nat /\ Cardinality(Having(x)) <= N
  BY HandleAssumption, FS_CardinalityType, FS_Subset
<1> DEFINE A == {n \in Nat : /\ \A o \in Object : Slack(f[n], o) = Slack(w, o)
                             /\ Dead(f[n]) # {} => Cardinality(Having(f[n])) <= N - n}
<1>3. 0 \in A
  BY <1>1, <1>2
<1>4. ASSUME NEW n \in Nat, n \in A PROVE n + 1 \in A
  <2>1. f[n] \in Worlds /\ f[n + 1] = LetGo(f[n])
    BY <1>1
  <2>2. \A o \in Object : Slack(f[n + 1], o) = Slack(w, o)
    BY <1>4, <2>1, LetGoSlack
  <2>3. ASSUME Dead(f[n + 1]) # {} PROVE Cardinality(Having(f[n + 1])) <= N - (n + 1)
    <3>1. Dead(f[n]) # {}
      BY <2>1, <2>3, LetGoSlack
    <3>2. PICK o \in Object : f[n].prop[o] # None /\ f[n + 1].prop = [f[n].prop EXCEPT ![o] = None]
      BY <2>1, <3>1, LetGoSlack
    <3>3. Having(f[n + 1]) = Having(f[n]) \ {o} /\ o \in Having(f[n])
      BY <2>1, <3>2 DEF Worlds
    <3>4. Cardinality(Having(f[n + 1])) = Cardinality(Having(f[n])) - 1
      <4> HIDE DEF Having
      <4> QED BY <1>2, <3>3, FS_RemoveElement
    <3>5. Cardinality(Having(f[n])) <= N - n
      BY <1>4, <3>1
    <3> HIDE DEF Having, N
    <3> QED BY <1>2, <3>4, <3>5
  <2> QED BY <2>2, <2>3
<1>5. N \in A
  <2> HIDE DEF A
  <2> QED BY <1>2, <1>3, <1>4, Induction
<1>6. Dead(f[N]) = {}
  <2> SUFFICES ASSUME Dead(f[N]) # {} PROVE FALSE
    OBVIOUS
  <2>1. Cardinality(Having(f[N])) <= N - N
    BY <1>5
  <2>2. Having(f[N]) = {}
    <3> HIDE DEF Having, N
    <3>1. Cardinality(Having(f[N])) = 0
      BY <1>2, <2>1
    <3> QED BY <1>2, <3>1, FS_EmptySet
  <2> QED BY <2>2 DEF Dead
<1> QED BY <1>1, <1>2, <1>5, <1>6

LEMMA DupValue ==
  ASSUME NEW w \in Worlds, NEW v \in Object
  PROVE  /\ JS_DupValue(w, v) \in Worlds
         /\ \A o \in Object : Slack(JS_DupValue(w, v), o) = Slack(w, o) + Is(v, o)
         /\ JS_DupValue(w, v).prop = w.prop
         /\ JS_DupValue(w, v).rc = [w.rc EXCEPT ![v] = @ + 1]
         /\ Dead(w) = {} /\ w.rc[v] >= 0 => Dead(JS_DupValue(w, v)) = {}
<1>1. w = [rc |-> w.rc, prop |-> w.prop] /\ w.rc \in [Object -> Int] /\ w.prop \in [Object -> Ref]
  BY DEF Worlds
<1>2. JS_DupValue(w, v) = [rc |-> [w.rc EXCEPT ![v] = @ + 1], prop |-> w.prop]
  BY <1>1 DEF JS_DupValue
<1>3. JS_DupValue(w, v).prop = w.prop /\ JS_DupValue(w, v).rc = [w.rc EXCEPT ![v] = @ + 1]
  BY <1>2
<1>4. JS_DupValue(w, v) \in Worlds
  <2>1. [w.rc EXCEPT ![v] = @ + 1] \in [Object -> Int]
    BY <1>1
  <2> QED BY <1>1, <1>2, <2>1 DEF Worlds
<1>5. ASSUME NEW o \in Object PROVE Slack(JS_DupValue(w, v), o) = Slack(w, o) + Is(v, o)
  <2>1. Cardinality(Props(w.prop, o)) \in Nat
    BY PropsFinite
  <2>2. [w.rc EXCEPT ![v] = @ + 1][o] = w.rc[o] + Is(v, o) /\ w.rc[o] \in Int /\ Is(v, o) \in Int
    BY <1>1 DEF Is
  <2> QED BY <1>3, <2>1, <2>2 DEF Slack
<1>6. Dead(w) = {} /\ w.rc[v] >= 0 => Dead(JS_DupValue(w, v)) = {}
  BY <1>1, <1>3 DEF Dead
<1> QED BY <1>3, <1>4, <1>5, <1>6

LEMMA FreeValue ==
  ASSUME NEW w \in Worlds, NEW v \in Ref
  PROVE  /\ JS_FreeValue(w, v) \in Worlds
         /\ \A o \in Object : Slack(JS_FreeValue(w, v), o) = Slack(w, o) - Is(v, o)
         /\ Dead(w) = {} => Dead(JS_FreeValue(w, v)) = {}
<1>1. CASE v = None
  <2>1. \A o \in Object : Is(v, o) = 0
    BY <1>1, HandleAssumption DEF Is
  <2>2. \A o \in Object : Slack(w, o) \in Int
    <3> SUFFICES ASSUME NEW o \in Object PROVE Slack(w, o) \in Int
      OBVIOUS
    <3>1. Cardinality(Props(w.prop, o)) \in Nat /\ w.rc[o] \in Int
      BY PropsFinite DEF Worlds
    <3> QED BY <3>1 DEF Slack
  <2> QED BY <1>1, <2>1, <2>2 DEF JS_FreeValue
<1>2. CASE v # None
  <2> DEFINE u == [w EXCEPT !.rc[v] = @ - 1]
  <2>1. v \in Object
    BY <1>2 DEF Ref
  <2>2. w = [rc |-> w.rc, prop |-> w.prop] /\ w.rc \in [Object -> Int] /\ w.prop \in [Object -> Ref]
    BY DEF Worlds
  <2>3. u = [rc |-> [w.rc EXCEPT ![v] = @ - 1], prop |-> w.prop]
    BY <2>2
  <2>4. u.prop = w.prop /\ u.rc = [w.rc EXCEPT ![v] = @ - 1] /\ u.rc \in [Object -> Int]
    BY <2>1, <2>2, <2>3
  <2>5. u \in Worlds
    BY <2>2, <2>3, <2>4 DEF Worlds
  <2>6. ASSUME NEW o \in Object PROVE Slack(u, o) = Slack(w, o) - Is(v, o)
    <3>1. Cardinality(Props(w.prop, o)) \in Nat
      BY PropsFinite
    <3>2. u.rc[o] = w.rc[o] - Is(v, o) /\ w.rc[o] \in Int /\ Is(v, o) \in Int
      BY <2>2, <2>4 DEF Is
    <3> HIDE DEF u
    <3> QED BY <2>4, <3>1, <3>2 DEF Slack
  <2>7. JS_FreeValue(w, v) = free_object(u)
    BY <1>2 DEF JS_FreeValue
  <2> HIDE DEF u
  <2> QED BY <2>5, <2>6, <2>7, FreeObject
<1> QED BY <1>1, <1>2

(* An object that is referred to gets another property.                    *)
LEMMA SetProperty ==
  ASSUME NEW w \in Worlds, NEW q \in Object, NEW v \in Object, w.rc[q] > 0, Dead(w) = {}
  PROVE  /\ JS_SetPropertyStr(w, q, v) \in Worlds
         /\ \A o \in Object : Slack(JS_SetPropertyStr(w, q, v), o) = Slack(w, o) - Is(v, o)
         /\ Dead(JS_SetPropertyStr(w, q, v)) = {}
<1> DEFINE u == [w EXCEPT !.prop[q] = v]
<1>1. w = [rc |-> w.rc, prop |-> w.prop] /\ w.rc \in [Object -> Int] /\ w.prop \in [Object -> Ref]
  BY DEF Worlds
<1>2. u = [rc |-> w.rc, prop |-> [w.prop EXCEPT ![q] = v]]
  BY <1>1
<1>3. u.rc = w.rc /\ u.prop = [w.prop EXCEPT ![q] = v] /\ u.prop \in [Object -> Ref]
  BY <1>1, <1>2 DEF Ref
<1>4. u \in Worlds
  BY <1>1, <1>2, <1>3 DEF Worlds
<1>5. w.prop[q] \in Ref /\ v \in Ref
  BY <1>1 DEF Ref
<1>6. Dead(u) = {}
  BY <1>3, <1>1 DEF Dead
<1>7. JS_SetPropertyStr(w, q, v) = JS_FreeValue(u, w.prop[q])
  BY DEF JS_SetPropertyStr
<1>8. ASSUME NEW o \in Object PROVE Slack(u, o) = Slack(w, o) + Is(w.prop[q], o) - Is(v, o)
  <2>1. Cardinality(Props(u.prop, o)) = Cardinality(Props(w.prop, o)) - Is(w.prop[q], o) + Is(v, o)
    BY <1>1, <1>3, <1>5, PropsStep
  <2>2. Cardinality(Props(w.prop, o)) \in Nat /\ w.rc[o] \in Int /\ Is(w.prop[q], o) \in Int /\ Is(v, o) \in Int
    BY <1>1, PropsFinite DEF Is
  <2> HIDE DEF u
  <2> QED BY <1>3, <2>1, <2>2 DEF Slack
<1> HIDE DEF u
<1>9. ASSUME NEW o \in Object PROVE Slack(JS_SetPropertyStr(w, q, v), o) = Slack(w, o) - Is(v, o)
  <2>1. Slack(JS_FreeValue(u, w.prop[q]), o) = Slack(u, o) - Is(w.prop[q], o)
    BY <1>4, <1>5, FreeValue
  <2>2. Slack(w, o) \in Int
    <3>1. Cardinality(Props(w.prop, o)) \in Nat /\ w.rc[o] \in Int
      BY <1>1, PropsFinite
    <3> QED BY <3>1 DEF Slack
  <2>3. Is(w.prop[q], o) \in Int /\ Is(v, o) \in Int
    BY DEF Is
  <2> QED BY <1>7, <1>8, <2>1, <2>2, <2>3
<1> QED BY <1>4, <1>5, <1>6, <1>7, <1>9, FreeValue

(* References are freed one after the other.                               *)
LEMMA FreedInOrder ==
  ASSUME NEW w \in Worlds, NEW s \in Seq(Ref)
  PROVE  \E f \in [0 .. Len(s) -> Worlds] :
           /\ f[0] = w /\ \A n \in 1 .. Len(s) : f[n] = JS_FreeValue(f[n - 1], s[n])
           /\ FreeAll(w, s) = f[Len(s)]
<1> DEFINE L == Len(s)
           S == Nat \X Worlds
           Freed(n, x) == IF n \in 1 .. L THEN JS_FreeValue(x, s[n]) ELSE x
           G == [p \in S |-> <<p[1] + 1, Freed(p[1] + 1, p[2])>>]
           Fits(f) == f = [n \in 0 .. L |-> IF n = 0 THEN w ELSE JS_FreeValue(f[n - 1], s[n])]
           freed == CHOOSE f : Fits(f)
<1>1. L \in Nat /\ \A n \in 1 .. L : s[n] \in Ref
  OBVIOUS
<1>2. ASSUME NEW n \in Nat, NEW x \in Worlds PROVE Freed(n, x) \in Worlds
  <2>1. CASE n \in 1 .. L
    <3>1. s[n] \in Ref
      BY <1>1, <2>1
    <3>2. JS_FreeValue(x, s[n]) \in Worlds
      BY <3>1, FreeValue
    <3> QED BY <3>2
  <2>2. CASE n \notin 1 .. L
    BY <2>2
  <2> QED BY <2>1, <2>2
<1>3. G \in [S -> S]
  <2> HIDE DEF Freed
  <2> QED BY <1>2
<1>4. <<0, w>> \in S
  OBVIOUS
<1>5. PICK g : Iteration(S, G, <<0, w>>, g)
  <2> HIDE DEF G, S
  <2> QED BY <1>3, <1>4, Iterates
<1>6. /\ g \in [Nat -> S] /\ g[0] = <<0, w>>
      /\ \A n \in Nat : g[n + 1] = <<g[n][1] + 1, Freed(g[n][1] + 1, g[n][2])>>
  <2>1. g \in [Nat -> S] /\ g[0] = <<0, w>> /\ \A n \in Nat : g[n + 1] = G[g[n]]
    <3> HIDE DEF S, G
    <3> QED BY <1>5 DEF Iteration
  <2> HIDE DEF Freed, S
  <2> QED BY <2>1
<1>7. \A n \in Nat : g[n][1] = n
  <2> DEFINE A == {n \in Nat : g[n][1] = n}
  <2>1. 0 \in A
    BY <1>6
  <2>2. ASSUME NEW n \in Nat, n \in A PROVE n + 1 \in A
    <3> HIDE DEF Freed, S
    <3>1. g[n + 1][1] = g[n][1] + 1
      BY <1>6
    <3> QED BY <2>2, <3>1
  <2>3. \A n \in Nat : n \in A
    <3> HIDE DEF A
    <3> QED BY <2>1, <2>2, Induction
  <2> QED BY <2>3
<1> DEFINE h == [n \in 0 .. L |-> g[n][2]]
<1>8. h \in [0 .. L -> Worlds] /\ h[0] = w
  <2>1. \A n \in 0 .. L : g[n] \in S
    <3> HIDE DEF S
    <3> QED BY <1>1, <1>6
  <2>2. \A n \in 0 .. L : g[n][2] \in Worlds
    BY <2>1
  <2>3. g[0][2] = w
    BY <1>6
  <2> QED BY <1>1, <2>2, <2>3
<1>9. ASSUME NEW n \in 1 .. L PROVE h[n] = JS_FreeValue(h[n - 1], s[n])
  <2>1. n - 1 \in Nat /\ (n - 1) + 1 = n /\ n - 1 \in 0 .. L /\ n \in 0 .. L
    BY <1>1
  <2>2. g[n] = <<g[n - 1][1] + 1, Freed(g[n - 1][1] + 1, g[n - 1][2])>>
    <3> HIDE DEF Freed
    <3> QED BY <1>6, <2>1
  <2>3. g[n][2] = Freed(n, g[n - 1][2])
    <3> HIDE DEF Freed
    <3> QED BY <1>7, <2>1, <2>2
  <2>4. h[n] = g[n][2] /\ h[n - 1] = g[n - 1][2]
    BY <2>1
  <2> QED BY <2>3, <2>4
<1> HIDE DEF h
<1>10. Fits(h)
  BY <1>1, <1>8, <1>9
<1>11. Fits(freed)
  <2> HIDE DEF Fits
  <2> QED BY <1>10
<1>12. FreeAll(w, s) = freed[L]
  BY DEF FreeAll
<1>13. freed[0] = w /\ \A n \in 1 .. L : freed[n] = JS_FreeValue(freed[n - 1], s[n])
  <2> HIDE DEF freed
  <2>1. freed[0] = w
    BY <1>1, <1>11
  <2>2. ASSUME NEW n \in 1 .. L PROVE freed[n] = JS_FreeValue(freed[n - 1], s[n])
    BY <1>1, <1>11
  <2> QED BY <2>1, <2>2
<1>14. freed[L] = h[L]
  <2> DEFINE A == {n \in Nat : n <= L => freed[n] = h[n]}
  <2>1. 0 \in A
    BY <1>8, <1>13
  <2>2. ASSUME NEW n \in Nat, n \in A PROVE n + 1 \in A
    <3> SUFFICES ASSUME n + 1 <= L PROVE freed[n + 1] = h[n + 1]
      OBVIOUS
    <3>1. n + 1 \in 1 .. L /\ (n + 1) - 1 = n /\ freed[n] = h[n]
      BY <2>2, <1>1
    <3>2. freed[n + 1] = JS_FreeValue(freed[n], s[n + 1]) /\ h[n + 1] = JS_FreeValue(h[n], s[n + 1])
      <4> HIDE DEF freed
      <4> QED BY <1>9, <1>13, <3>1
    <3> QED BY <3>1, <3>2
  <2>3. L \in A
    <3> HIDE DEF A
    <3> QED BY <1>1, <2>1, <2>2, Induction
  <2> QED BY <2>3
<1> QED BY <1>8, <1>9, <1>12, <1>14

LEMMA FreeAllValues ==
  ASSUME NEW w \in Worlds, NEW s \in Seq(Ref)
  PROVE  /\ FreeAll(w, s) \in Worlds
         /\ \A o \in Object : Slack(FreeAll(w, s), o)
                                = Slack(w, o) - Cardinality({i \in 1 .. Len(s) : s[i] = o})
         /\ Dead(w) = {} => Dead(FreeAll(w, s)) = {}
<1> DEFINE L == Len(s)
           At(n, o) == {i \in 1 .. n : s[i] = o}
<1>1. L \in Nat /\ \A n \in 1 .. L : s[n] \in Ref
  OBVIOUS
<1>2. PICK f \in [0 .. L -> Worlds] :
        /\ f[0] = w /\ \A n \in 1 .. L : f[n] = JS_FreeValue(f[n - 1], s[n])
        /\ FreeAll(w, s) = f[L]
  BY FreedInOrder
<1> DEFINE A == {n \in Nat : n <= L =>
                   /\ \A o \in Object : Slack(f[n], o) = Slack(w, o) - Cardinality(At(n, o))
                   /\ Dead(w) = {} => Dead(f[n]) = {}}
<1>3. \A o \in Object : Slack(w, o) \in Int
  <2> SUFFICES ASSUME NEW o \in Object PROVE Slack(w, o) \in Int
    OBVIOUS
  <2>1. Cardinality(Props(w.prop, o)) \in Nat /\ w.rc[o] \in Int
    BY PropsFinite DEF Worlds
  <2> QED BY <2>1 DEF Slack
<1>4. \A n \in Nat, o \in Object : IsFiniteSet(At(n, o)) /\ Cardinality(At(n, o)) \in Nat
  <2> SUFFICES ASSUME NEW n \in Nat, NEW o \in Object
               PROVE  IsFiniteSet(At(n, o)) /\ Cardinality(At(n, o)) \in Nat
    OBVIOUS
  <2>1. IsFiniteSet(1 .. n) /\ At(n, o) \subseteq 1 .. n
    BY FS_Interval
  <2> QED BY <2>1, FS_Subset, FS_CardinalityType
<1>5. 0 \in A
  <2>1. \A o \in Object : Cardinality(At(0, o)) = 0
    BY FS_EmptySet
  <2> QED BY <1>2, <1>3, <2>1
<1>6. ASSUME NEW n \in Nat, n \in A PROVE n + 1 \in A
  <2> SUFFICES ASSUME n + 1 <= L
               PROVE  /\ \A o \in Object : Slack(f[n + 1], o) = Slack(w, o) - Cardinality(At(n + 1, o))
                      /\ Dead(w) = {} => Dead(f[n + 1]) = {}
    OBVIOUS
  <2>1. n + 1 \in 1 .. L /\ (n + 1) - 1 = n /\ n \in 0 .. L
    BY <1>1
  <2>2. f[n + 1] = JS_FreeValue(f[n], s[n + 1]) /\ f[n] \in Worlds /\ s[n + 1] \in Ref
    BY <1>1, <1>2, <2>1
  <2>3. ASSUME NEW o \in Object PROVE Slack(f[n + 1], o) = Slack(w, o) - Cardinality(At(n + 1, o))
    <3>1. Slack(f[n + 1], o) = Slack(f[n], o) - Is(s[n + 1], o)
      BY <2>2, FreeValue
    <3>2. Slack(f[n], o) = Slack(w, o) - Cardinality(At(n, o))
      BY <1>6, <2>1
    <3>3. At(n, o) \ {n + 1} = At(n + 1, o) \ {n + 1} /\ In(n + 1, At(n, o)) = 0
            /\ In(n + 1, At(n + 1, o)) = Is(s[n + 1], o)
      BY DEF In, Is
    <3>4. Cardinality(At(n, o)) = Cardinality(At(n + 1, o)) - Is(s[n + 1], o)
      <4> HIDE DEF At
      <4>1. Cardinality(At(n, o)) - In(n + 1, At(n, o)) = Cardinality(At(n + 1, o)) - In(n + 1, At(n + 1, o))
        BY <1>4, <3>3, CountStep
      <4> QED BY <1>4, <3>3, <4>1
    <3> HIDE DEF At
    <3> QED BY <1>3, <1>4, <3>1, <3>2, <3>4 DEF Is
  <2>4. Dead(w) = {} => Dead(f[n + 1]) = {}
    BY <1>6, <2>1, <2>2, FreeValue
  <2> QED BY <2>3, <2>4
<1>7. L \in A
  <2> HIDE DEF A
  <2> QED BY <1>1, <1>5, <1>6, Induction
<1> QED BY <1>1, <1>2, <1>7

(* Reached is the smallest set that has S and the properties of its own.   *)
Closed(p, C) == \A o \in C : p[o] # None => p[o] \in C

LEMMA ReachedInSteps ==
  ASSUME NEW p \in [Object -> Ref], NEW S \in SUBSET Object
  PROVE  \E f \in [Nat -> SUBSET Object] :
           /\ f[0] = S /\ \A n \in Nat : f[n + 1] = ReachedOnce(p, f[n])
           /\ Reached(p, S) = f[Cardinality(Object)]
<1> DEFINE G == [R \in SUBSET Object |-> ReachedOnce(p, R)]
           Fits(f) == f = [n \in Nat |-> IF n = 0 THEN S ELSE ReachedOnce(p, f[n - 1])]
           reach == CHOOSE f : Fits(f)
<1>1. G \in [SUBSET Object -> SUBSET Object]
  BY DEF ReachedOnce, Ref
<1>2. PICK f : Iteration(SUBSET Object, G, S, f)
  <2> HIDE DEF G
  <2> QED BY <1>1, Iterates
<1>3. f \in [Nat -> SUBSET Object] /\ f[0] = S /\ \A n \in Nat : f[n + 1] = ReachedOnce(p, f[n])
  <2>1. f \in [Nat -> SUBSET Object] /\ f[0] = S /\ \A n \in Nat : f[n + 1] = G[f[n]]
    BY <1>2 DEF Iteration
  <2> QED BY <2>1
<1>4. Fits(f)
  <2>1. ASSUME NEW n \in Nat PROVE f[n] = IF n = 0 THEN S ELSE ReachedOnce(p, f[n - 1])
    <3>1. CASE n = 0
      BY <1>3, <3>1
    <3>2. CASE n # 0
      <4>1. n - 1 \in Nat /\ (n - 1) + 1 = n
        BY <3>2
      <4>2. f[(n - 1) + 1] = ReachedOnce(p, f[n - 1])
        BY <1>3, <4>1
      <4> QED BY <3>2, <4>1, <4>2
    <3> QED BY <3>1, <3>2
  <2> QED BY <1>3, <2>1
<1>5. Fits(reach)
  <2> HIDE DEF Fits
  <2> QED BY <1>4
<1>6. Reached(p, S) = reach[Cardinality(Object)]
  BY DEF Reached
<1>7. reach[0] = S /\ \A n \in Nat : reach[n + 1] = ReachedOnce(p, reach[n])
  <2> HIDE DEF reach
  <2>1. reach[0] = S
    BY <1>5
  <2>2. ASSUME NEW n \in Nat PROVE reach[n + 1] = ReachedOnce(p, reach[n])
    BY <1>5
  <2> QED BY <2>1, <2>2
<1>8. \A n \in Nat : reach[n] = f[n]
  <2> DEFINE A == {n \in Nat : reach[n] = f[n]}
  <2>1. 0 \in A
    BY <1>3, <1>7
  <2>2. \A n \in Nat : n \in A => n + 1 \in A
    BY <1>3, <1>7
  <2>3. \A n \in Nat : n \in A
    <3> HIDE DEF A
    <3> QED BY <2>1, <2>2, Induction
  <2> QED BY <2>3
<1>9. Cardinality(Object) \in Nat
  BY HandleAssumption, FS_CardinalityType
<1>10. Reached(p, S) = f[Cardinality(Object)]
  BY <1>6, <1>8, <1>9
<1> QED BY <1>3, <1>10

LEMMA ReachedSmallest ==
  ASSUME NEW p \in [Object -> Ref], NEW S \in SUBSET Object
  PROVE  /\ S \subseteq Reached(p, S) /\ Reached(p, S) \subseteq Object
         /\ Closed(p, Reached(p, S))
         /\ \A C \in SUBSET Object : S \subseteq C /\ Closed(p, C) => Reached(p, S) \subseteq C
<1> DEFINE N == Cardinality(Object)
<1>1. PICK f \in [Nat -> SUBSET Object] :
        /\ f[0] = S /\ \A n \in Nat : f[n + 1] = ReachedOnce(p, f[n])
        /\ Reached(p, S) = f[N]
  BY ReachedInSteps
<1>2. N \in Nat /\ \A R \in SUBSET Object : IsFiniteSet(R) /\ Cardinality(R) \in Nat
  BY HandleAssumption, FS_CardinalityType, FS_Subset
<1>3. \A n \in Nat : f[n] \in SUBSET Object /\ f[n] \subseteq f[n + 1]
  BY <1>1 DEF ReachedOnce
<1>4. S \subseteq f[N]
  <2> DEFINE A == {n \in Nat : S \subseteq f[n]}
  <2>1. 0 \in A /\ \A n \in Nat : n \in A => n + 1 \in A
    BY <1>1, <1>3
  <2>2. N \in A
    <3> HIDE DEF A
    <3> QED BY <1>2, <2>1, Induction
  <2> QED BY <2>2
<1>5. f[N + 1] = f[N]
  <2> DEFINE A == {n \in Nat : f[n + 1] # f[n] => Cardinality(f[n]) >= n}
  <2>1. 0 \in A
    BY <1>2, <1>3
  <2>2. ASSUME NEW n \in Nat, n \in A PROVE n + 1 \in A
    <3> SUFFICES ASSUME f[(n + 1) + 1] # f[n + 1] PROVE Cardinality(f[n + 1]) >= n + 1
      OBVIOUS
    <3>1. f[n + 1] # f[n]
      BY <1>1
    <3>2. Cardinality(f[n]) >= n
      BY <2>2, <3>1
    <3>3. PICK o \in f[n + 1] : o \notin f[n]
      BY <1>3, <3>1
    <3>4. IsFiniteSet(f[n]) /\ IsFiniteSet(f[n + 1]) /\ Cardinality(f[n]) \in Nat /\ Cardinality(f[n + 1]) \in Nat
      BY <1>2, <1>3
    <3>5. f[n] \subseteq f[n + 1] \ {o}
      BY <1>3, <3>3
    <3>6. IsFiniteSet(f[n + 1] \ {o}) /\ Cardinality(f[n + 1] \ {o}) = Cardinality(f[n + 1]) - 1
      BY <3>3, <3>4, FS_RemoveElement
    <3>7. Cardinality(f[n]) <= Cardinality(f[n + 1] \ {o})
      BY <3>5, <3>6, FS_Subset
    <3> QED BY <3>2, <3>4, <3>6, <3>7
  <2>3. N \in A
    <3> HIDE DEF A, N
    <3> QED BY <1>2, <2>1, <2>2, Induction
  <2> SUFFICES ASSUME f[N + 1] # f[N] PROVE FALSE
    OBVIOUS
  <2>4. Cardinality(f[N]) >= N
    BY <2>3
  <2>5. f[N] \subseteq Object /\ f[N + 1] \subseteq Object
    <3> HIDE DEF N
    <3> QED BY <1>2, <1>3
  <2>6. f[N] = Object
    BY <1>2, <2>4, <2>5, HandleAssumption, FS_Subset
  <2>7. f[N] \subseteq f[N + 1]
    <3> HIDE DEF N
    <3> QED BY <1>2, <1>3
  <2> QED BY <2>5, <2>6, <2>7
<1>6. Closed(p, f[N])
  <2>1. f[N] = ReachedOnce(p, f[N])
    <3> HIDE DEF N
    <3> QED BY <1>1, <1>2, <1>5
  <2> QED BY <2>1 DEF Closed, ReachedOnce
<1>7. ASSUME NEW C \in SUBSET Object, S \subseteq C, Closed(p, C) PROVE f[N] \subseteq C
  <2> DEFINE A == {n \in Nat : f[n] \subseteq C}
  <2>1. 0 \in A
    BY <1>1, <1>7
  <2>2. ASSUME NEW n \in Nat, n \in A PROVE n + 1 \in A
    BY <1>1, <1>7, <2>2 DEF Closed, ReachedOnce
  <2>3. N \in A
    <3> HIDE DEF A, N
    <3> QED BY <1>2, <2>1, <2>2, Induction
  <2> QED BY <2>3
<1>8. f[N] \subseteq Object
  <2> HIDE DEF N
  <2> QED BY <1>2, <1>3
<1> QED BY <1>1, <1>4, <1>6, <1>7, <1>8

(* What is reached from S in p is reached from S in what p is on that.     *)
LEMMA ReachedAgain ==
  ASSUME NEW p \in [Object -> Ref], NEW q \in [Object -> Ref], NEW S \in SUBSET Object,
         \A o \in Reached(p, S) : q[o] = p[o]
  PROVE  Reached(q, S) = Reached(p, S)
<1> DEFINE P == Reached(p, S)
           Q == Reached(q, S)
<1>1. /\ S \subseteq P /\ P \in SUBSET Object /\ Closed(p, P)
      /\ \A C \in SUBSET Object : S \subseteq C /\ Closed(p, C) => P \subseteq C
  BY ReachedSmallest
<1>2. /\ S \subseteq Q /\ Q \in SUBSET Object /\ Closed(q, Q)
      /\ \A C \in SUBSET Object : S \subseteq C /\ Closed(q, C) => Q \subseteq C
  BY ReachedSmallest
<1> HIDE DEF P, Q
<1>3. \A o \in P : q[o] = p[o]
  BY DEF P
<1>4. Closed(q, P)
  BY <1>1, <1>3 DEF Closed
<1>5. Q \subseteq P
  BY <1>1, <1>2, <1>4
<1>6. Closed(p, Q)
  BY <1>2, <1>3, <1>5 DEF Closed
<1>7. P \subseteq Q
  BY <1>1, <1>2, <1>6
<1> QED BY <1>5, <1>7 DEF P, Q

(* The collector changes no slack, and what it keeps is what is reached    *)
(* from the objects with a reference that is no property.                  *)
LEMMA RunGC ==
  ASSUME World \in Worlds, \A o \in Object : Slack(World, o) >= 0
  PROVE  LET held == {o \in Object : Slack(World, o) > 0}
         IN /\ JS_RunGC \in Worlds
            /\ \A o \in Object : Slack(JS_RunGC, o) = Slack(World, o)
            /\ Dead(JS_RunGC) = {}
            /\ {o \in Object : JS_RunGC.rc[o] > 0} = Reached(JS_RunGC.prop, held)
<1> DEFINE held == {o \in Object : Slack(World, o) > 0}
           kept == Reached(prop, held)
           All(o) == {q \in Object : prop[q] = o}
           From(o) == {q \in Object \ kept : prop[q] = o}
           In_(o) == {q \in kept : prop[q] = o}
<1>1. rc \in [Object -> Int] /\ prop \in [Object -> Ref] /\ World.rc = rc /\ World.prop = prop
  BY DEF Worlds, World
<1>2. \A o \in Object : /\ Slack(World, o) = rc[o] - Cardinality(All(o))
                        /\ Cardinality(All(o)) \in Nat /\ IsFiniteSet(All(o))
                        /\ rc[o] \in Int
  BY <1>1, PropsFinite DEF Slack, Props
<1>3. held = {o \in Object : rc[o] > Cardinality({q \in Object : prop[q] = o})}
  BY <1>1, <1>2
<1>4. /\ held \subseteq kept /\ kept \subseteq Object /\ Closed(prop, kept)
      /\ \A C \in SUBSET Object : held \subseteq C /\ Closed(prop, C) => kept \subseteq C
  <2>1. held \in SUBSET Object
    OBVIOUS
  <2> HIDE DEF held
  <2> QED BY <1>1, <2>1, ReachedSmallest
<1>5. /\ JS_RunGC.rc   = [o \in Object |-> IF o \in kept THEN rc[o] - Cardinality(From(o)) ELSE 0]
      /\ JS_RunGC.prop = [o \in Object |-> IF o \in kept THEN prop[o] ELSE None]
      /\ JS_RunGC = [rc |-> JS_RunGC.rc, prop |-> JS_RunGC.prop]
  BY <1>3 DEF JS_RunGC
<1>6. ASSUME NEW o \in Object
      PROVE  /\ IsFiniteSet(From(o)) /\ IsFiniteSet(In_(o))
             /\ Cardinality(From(o)) \in Nat /\ Cardinality(In_(o)) \in Nat
             /\ Cardinality(All(o)) = Cardinality(From(o)) + Cardinality(In_(o))
  <2>1. All(o) = From(o) \cup In_(o) /\ From(o) \cap In_(o) = {}
    <3> HIDE DEF kept
    <3> QED BY <1>4
  <2>2. IsFiniteSet(From(o)) /\ IsFiniteSet(In_(o))
    <3> HIDE DEF From, In_, All
    <3>1. IsFiniteSet(All(o)) /\ From(o) \subseteq All(o) /\ In_(o) \subseteq All(o)
      BY <1>2, <2>1
    <3> QED BY <3>1, FS_Subset
  <2> HIDE DEF From, In_, All
  <2>3. Cardinality(From(o) \cap In_(o)) = 0
    BY <2>1, FS_EmptySet
  <2>4. Cardinality(From(o)) \in Nat /\ Cardinality(In_(o)) \in Nat
    BY <2>2, FS_CardinalityType
  <2>5. Cardinality(From(o) \cup In_(o))
          = Cardinality(From(o)) + Cardinality(In_(o)) - Cardinality(From(o) \cap In_(o))
    BY <2>2, FS_Union
  <2> QED BY <2>1, <2>2, <2>3, <2>4, <2>5
<1>7. JS_RunGC \in Worlds
  <2>1. JS_RunGC.rc \in [Object -> Int]
    <3> HIDE DEF From, In_, All, kept
    <3>1. \A o \in Object : (IF o \in kept THEN rc[o] - Cardinality(From(o)) ELSE 0) \in Int
      BY <1>2, <1>6
    <3> QED BY <1>5, <3>1
  <2>2. JS_RunGC.prop \in [Object -> Ref]
    <3> HIDE DEF kept
    <3> QED BY <1>1, <1>5 DEF Ref
  <2> QED BY <1>5, <2>1, <2>2 DEF Worlds
<1>8. ASSUME NEW o \in Object PROVE Props(JS_RunGC.prop, o) = In_(o)
  <2>1. None # o
    BY HandleAssumption
  <2> HIDE DEF kept
  <2> QED BY <1>4, <1>5, <2>1 DEF Props
<1>9. ASSUME NEW o \in Object PROVE Slack(JS_RunGC, o) = Slack(World, o)
  <2>1. Slack(JS_RunGC, o) = JS_RunGC.rc[o] - Cardinality(In_(o))
    BY <1>8 DEF Slack
  <2>2. CASE o \in kept
    <3>1. JS_RunGC.rc[o] = rc[o] - Cardinality(From(o))
      <4> HIDE DEF kept, From
      <4> QED BY <1>5, <2>2
    <3> HIDE DEF From, In_, All, kept
    <3> QED BY <1>1, <1>2, <1>6, <2>1, <3>1
  <2>3. CASE o \notin kept
    <3>1. JS_RunGC.rc[o] = 0
      <4> HIDE DEF kept, From
      <4> QED BY <1>5, <2>3
    <3>2. In_(o) = {}
      <4> HIDE DEF kept
      <4>1. None # o
        BY HandleAssumption
      <4> QED BY <1>4, <2>3, <4>1 DEF Closed
    <3>3. Slack(World, o) = 0
      <4>1. o \notin held
        <5> HIDE DEF kept, held
        <5> QED BY <1>4, <2>3
      <4>2. ~(Slack(World, o) > 0) /\ Slack(World, o) >= 0
        BY <4>1
      <4>3. Slack(World, o) \in Int
        <5> HIDE DEF All
        <5> QED BY <1>2
      <4> QED BY <4>2, <4>3
    <3>4. Cardinality(In_(o)) = 0
      <4> HIDE DEF In_
      <4> QED BY <3>2, FS_EmptySet
    <3> QED BY <2>1, <3>1, <3>3, <3>4
  <2> QED BY <2>2, <2>3
<1>10. ASSUME NEW o \in kept PROVE JS_RunGC.rc[o] > 0
  <2>1. o \in Object
    <3> HIDE DEF kept
    <3> QED BY <1>4
  <2>2. JS_RunGC.rc[o] = rc[o] - Cardinality(From(o))
    <3> HIDE DEF kept, From
    <3> QED BY <1>5, <2>1
  <2>3. rc[o] >= Cardinality(From(o)) + Cardinality(In_(o))
    <3> HIDE DEF From, In_, All, kept
    <3> QED BY <1>1, <1>2, <1>6, <2>1
  <2>4. CASE o \in held
    <3>1. rc[o] > Cardinality(From(o)) + Cardinality(In_(o))
      <4>1. Slack(World, o) > 0
        BY <2>4
      <4> HIDE DEF From, In_, All, kept
      <4> QED BY <1>1, <1>2, <1>6, <2>1, <4>1
    <3> HIDE DEF From, In_, All, kept
    <3> QED BY <1>1, <1>6, <2>1, <2>2, <3>1
  <2>5. CASE o \notin held
    <3>1. \E q \in kept : prop[q] = o
      <4> SUFFICES ASSUME \A q \in kept : prop[q] # o PROVE FALSE
        OBVIOUS
      <4> HIDE DEF kept, held
      <4>1. Closed(prop, kept \ {o}) /\ held \subseteq kept \ {o} /\ kept \ {o} \in SUBSET Object
        BY <1>4, <2>5 DEF Closed
      <4>2. kept \subseteq kept \ {o}
        BY <1>4, <4>1
      <4> QED BY <4>2
    <3>2. In_(o) # {}
      BY <3>1
    <3>3. Cardinality(In_(o)) # 0
      <4> HIDE DEF In_
      <4> QED BY <1>6, <2>1, <3>2, FS_EmptySet
    <3> HIDE DEF From, In_, All, kept
    <3> QED BY <1>2, <1>6, <2>1, <2>2, <2>3, <3>3
  <2> QED BY <2>4, <2>5
<1>11. {o \in Object : JS_RunGC.rc[o] > 0} = kept
  <2> HIDE DEF From, kept
  <2>1. \A o \in Object : o \notin kept => JS_RunGC.rc[o] = 0
    BY <1>5
  <2> QED BY <1>4, <1>10, <2>1
<1>12. Dead(JS_RunGC) = {}
  <2> SUFFICES ASSUME NEW o \in Dead(JS_RunGC) PROVE FALSE
    OBVIOUS
  <2>1. o \in Object /\ JS_RunGC.rc[o] = 0 /\ JS_RunGC.prop[o] # None
    BY DEF Dead
  <2>2. o \in kept
    <3> HIDE DEF kept
    <3> QED BY <1>5, <2>1
  <2> QED BY <1>10, <2>1, <2>2
<1>13. Reached(JS_RunGC.prop, held) = kept
  <2>1. JS_RunGC.prop \in [Object -> Ref]
    BY <1>7 DEF Worlds
  <2>2. \A o \in kept : JS_RunGC.prop[o] = prop[o]
    <3> HIDE DEF kept
    <3> QED BY <1>4, <1>5
  <2>3. held \in SUBSET Object
    OBVIOUS
  <2> HIDE DEF held
  <2> QED BY <1>1, <2>1, <2>2, <2>3, ReachedAgain
<1> QED BY <1>7, <1>9, <1>11, <1>12, <1>13

-----------------------------------------------------------------------------
(* The owners that are not properties: Values, the context, modules, and   *)
(* nobody.                                                                 *)

(* A Value without an object is Gone, one with a context has a reference.  *)
Kind == [v : Object \cup {None}, ctx : BOOLEAN, owns : BOOLEAN]
GoodValue == {x \in Kind : (x.v = None => x = Gone) /\ (x.ctx => x.owns)}
ModuleKind == [value : Object, given : BOOLEAN, freed : BOOLEAN]

HeldBy(hd, o) == {h \in Handle : hd[h].v = o /\ hd[h].owns}
SlotsWith(sl, o) == {s \in Slot : sl[s] = o}
Keeps(m, o) == m.value = o /\ (m.given => ~m.freed)
ModulesWith(ms, o) == {k \in DOMAIN ms : Keeps(ms[k], o)}

Others(hd, sl, ms, ls, o) ==
  Cardinality(HeldBy(hd, o)) + Cardinality(SlotsWith(sl, o)) + Cardinality(ModulesWith(ms, o)) + ls[o]

Has(x, o) == IF x.v = o /\ x.owns THEN 1 ELSE 0

LEMMA OthersFinite ==
  ASSUME NEW hd, NEW sl, NEW ms \in Seq(ModuleKind), NEW o
  PROVE  /\ IsFiniteSet(HeldBy(hd, o)) /\ Cardinality(HeldBy(hd, o)) \in Nat
         /\ IsFiniteSet(SlotsWith(sl, o)) /\ Cardinality(SlotsWith(sl, o)) \in Nat
         /\ IsFiniteSet(ModulesWith(ms, o)) /\ Cardinality(ModulesWith(ms, o)) \in Nat
<1>1. IsFiniteSet(Handle) /\ IsFiniteSet(Slot) /\ IsFiniteSet(DOMAIN ms)
  <2>1. IsFiniteSet({"global"}) /\ IsFiniteSet({"proto"}) /\ Slot = {"global"} \cup {"proto"}
    BY FS_Singleton DEF Slot
  <2>2. IsFiniteSet(Slot)
    BY <2>1, FS_Union
  <2>3. Len(ms) \in Nat /\ DOMAIN ms = 1 .. Len(ms)
    OBVIOUS
  <2>4. IsFiniteSet(1 .. Len(ms))
    BY <2>3, FS_Interval
  <2> QED BY <2>2, <2>3, <2>4, HandleAssumption
<1>2. /\ HeldBy(hd, o) \subseteq Handle /\ SlotsWith(sl, o) \subseteq Slot
      /\ ModulesWith(ms, o) \subseteq DOMAIN ms
  BY DEF HeldBy, SlotsWith, ModulesWith
<1> QED BY <1>1, <1>2, FS_Subset, FS_CardinalityType

(* One Value, one slot, one module changes.                                *)
LEMMA HandleStep ==
  ASSUME NEW hd \in [Handle -> GoodValue], NEW h \in Handle, NEW x \in GoodValue, NEW o \in Object
  PROVE  Cardinality(HeldBy([hd EXCEPT ![h] = x], o))
           = Cardinality(HeldBy(hd, o)) - Has(hd[h], o) + Has(x, o)
<1> DEFINE A == HeldBy(hd, o)
           B == HeldBy([hd EXCEPT ![h] = x], o)
<1>1. A \ {h} = B \ {h}
  BY DEF HeldBy
<1>2. In(h, A) = Has(hd[h], o) /\ In(h, B) = Has(x, o)
  BY DEF In, Has, HeldBy
<1>3. IsFiniteSet(A)
  BY HandleAssumption, FS_Subset DEF HeldBy
<1> HIDE DEF A, B
<1>4. Cardinality(A) - In(h, A) = Cardinality(B) - In(h, B) /\ Cardinality(A) \in Nat /\ Cardinality(B) \in Nat
  BY <1>1, <1>3, CountStep
<1>5. In(h, A) \in Int /\ In(h, B) \in Int
  BY DEF In
<1> QED BY <1>2, <1>4, <1>5 DEF A, B

LEMMA SlotStep ==
  ASSUME NEW sl \in [Slot -> Ref], NEW v \in Ref, NEW o \in Object
  PROVE  Cardinality(SlotsWith([sl EXCEPT !["proto"] = v], o))
           = Cardinality(SlotsWith(sl, o)) - Is(sl["proto"], o) + Is(v, o)
<1> DEFINE A == SlotsWith(sl, o)
           B == SlotsWith([sl EXCEPT !["proto"] = v], o)
<1>1. A \ {"proto"} = B \ {"proto"}
  BY DEF SlotsWith, Slot
<1>2. In("proto", A) = Is(sl["proto"], o) /\ In("proto", B) = Is(v, o)
  BY DEF In, Is, SlotsWith, Slot
<1>3. IsFiniteSet(A)
  <2>1. IsFiniteSet({"global"}) /\ IsFiniteSet({"proto"}) /\ Slot = {"global"} \cup {"proto"}
    BY FS_Singleton DEF Slot
  <2>2. IsFiniteSet(Slot)
    BY <2>1, FS_Union
  <2> QED BY <2>2, FS_Subset DEF SlotsWith
<1> HIDE DEF A, B
<1>4. /\ Cardinality(A) - In("proto", A) = Cardinality(B) - In("proto", B)
      /\ Cardinality(A) \in Nat /\ Cardinality(B) \in Nat
  BY <1>1, <1>3, CountStep
<1>5. In("proto", A) \in Int /\ In("proto", B) \in Int
  BY DEF In
<1> QED BY <1>2, <1>4, <1>5 DEF A, B

LEMMA ModuleAdded ==
  ASSUME NEW ms \in Seq(ModuleKind), NEW m \in ModuleKind, m.given = FALSE, NEW o \in Object
  PROVE  Cardinality(ModulesWith(Append(ms, m), o)) = Cardinality(ModulesWith(ms, o)) + Is(m.value, o)
<1> DEFINE n == Len(ms) + 1
           A == ModulesWith(ms, o)
           B == ModulesWith(Append(ms, m), o)
<1>1. /\ DOMAIN ms = 1 .. Len(ms) /\ DOMAIN Append(ms, m) = 1 .. n /\ Len(ms) \in Nat
      /\ Append(ms, m)[n] = m /\ \A k \in 1 .. Len(ms) : Append(ms, m)[k] = ms[k]
  OBVIOUS
<1>2. A \ {n} = B \ {n}
  BY <1>1 DEF ModulesWith
<1>3. In(n, A) = 0 /\ In(n, B) = Is(m.value, o)
  BY <1>1 DEF In, Is, ModulesWith, Keeps
<1>4. IsFiniteSet(A)
  BY OthersFinite
<1> HIDE DEF A, B, n
<1>5. Cardinality(A) - In(n, A) = Cardinality(B) - In(n, B) /\ Cardinality(A) \in Nat /\ Cardinality(B) \in Nat
  BY <1>2, <1>4, CountStep
<1> QED BY <1>3, <1>5 DEF A, B, Is

(* What the other owners have is what the engine has counted.              *)
Matched(w, hd, sl, ms, ls) == \A o \in Object : Slack(w, o) = Others(hd, sl, ms, ls, o)

Fitting(w, hd, sl, ms, ls) ==
  /\ w \in Worlds /\ hd \in [Handle -> GoodValue] /\ sl \in [Slot -> Ref]
  /\ ms \in Seq(ModuleKind) /\ ls \in [Object -> Nat]

LEMMA Counted ==
  ASSUME NEW w, NEW hd, NEW sl, NEW ms, NEW ls, Fitting(w, hd, sl, ms, ls), Matched(w, hd, sl, ms, ls),
         NEW o \in Object
  PROVE  /\ w.rc[o] = Others(hd, sl, ms, ls, o) + Cardinality(Props(w.prop, o))
         /\ w.rc[o] \in Nat /\ Slack(w, o) \in Nat
         /\ HeldBy(hd, o) # {} => w.rc[o] > 0
         /\ SlotsWith(sl, o) # {} => w.rc[o] > 0
         /\ Props(w.prop, o) # {} => w.rc[o] > 0
<1>1. /\ IsFiniteSet(HeldBy(hd, o)) /\ Cardinality(HeldBy(hd, o)) \in Nat
      /\ IsFiniteSet(SlotsWith(sl, o)) /\ Cardinality(SlotsWith(sl, o)) \in Nat
      /\ IsFiniteSet(ModulesWith(ms, o)) /\ Cardinality(ModulesWith(ms, o)) \in Nat
      /\ ls[o] \in Nat
  BY OthersFinite DEF Fitting
<1>2. IsFiniteSet(Props(w.prop, o)) /\ Cardinality(Props(w.prop, o)) \in Nat /\ w.rc[o] \in Int
  BY PropsFinite DEF Fitting, Worlds
<1>3. w.rc[o] - Cardinality(Props(w.prop, o)) = Others(hd, sl, ms, ls, o)
  BY DEF Matched, Slack
<1>4. Others(hd, sl, ms, ls, o) \in Nat
  BY <1>1 DEF Others
<1>5. w.rc[o] = Others(hd, sl, ms, ls, o) + Cardinality(Props(w.prop, o))
  BY <1>2, <1>3, <1>4
<1>6. /\ HeldBy(hd, o) # {} => Cardinality(HeldBy(hd, o)) > 0
      /\ SlotsWith(sl, o) # {} => Cardinality(SlotsWith(sl, o)) > 0
      /\ Props(w.prop, o) # {} => Cardinality(Props(w.prop, o)) > 0
  BY <1>1, <1>2, FS_EmptySet
<1>7. Slack(w, o) = Others(hd, sl, ms, ls, o)
  BY DEF Matched
<1>8. /\ HeldBy(hd, o) # {} => w.rc[o] > 0
      /\ SlotsWith(sl, o) # {} => w.rc[o] > 0
      /\ Props(w.prop, o) # {} => w.rc[o] > 0
  BY <1>1, <1>2, <1>5, <1>6 DEF Others
<1> QED BY <1>2, <1>4, <1>5, <1>7, <1>8

-----------------------------------------------------------------------------
(* The inductive invariant.  Beyond the two properties: no object without  *)
(* references has a property, which the classes of easyBinding.hpp rely on *)
(* when they fill fresh objects; the context has the global object while   *)
(* the program runs; and afterwards Values, context and modules have       *)
(* nothing.                                                                *)
Ended ==
  /\ \A h \in Handle : handle[h] = Gone
  /\ \A s \in Slot : slot[s] = None
  /\ \A k \in DOMAIN modules : modules[k].freed

HandleInv ==
  /\ wrapper \in {"qjs", "jsb"} /\ phase \in {"run", "context", "runtime"}
  /\ Fitting(World, handle, slot, modules, lost)
  /\ Matched(World, handle, slot, modules, lost)
  /\ Dead(World) = {}
  /\ phase = "run" => slot["global"] = global
  /\ phase # "run" => Ended
  /\ OnlyLostLeft

LEMMA BecomesWorld ==
  ASSUME NEW w \in Worlds, Becomes(w)
  PROVE  World' = w
<1>1. w = [rc |-> w.rc, prop |-> w.prop]
  BY DEF Worlds
<1> QED BY <1>1 DEF Becomes, World

(* What a step of the running program has to show.                         *)
Balanced(w, hd, sl, ms, ls) ==
  \A o \in Object : Slack(w, o) - Slack(World, o)
                      = Others(hd, sl, ms, ls, o) - Others(handle, slot, modules, lost, o)

LEMMA StepKeeps ==
  ASSUME HandleInv, phase = "run", wrapper' = wrapper, phase' = phase,
         Fitting(World', handle', slot', modules', lost'), Dead(World') = {},
         slot'["global"] = global,
         Balanced(World', handle', slot', modules', lost')
  PROVE  HandleInv'
<1>1. Matched(World', handle', slot', modules', lost')
  <2> SUFFICES ASSUME NEW o \in Object
               PROVE  Slack(World', o) = Others(handle', slot', modules', lost', o)
    BY DEF Matched
  <2>1. Slack(World, o) = Others(handle, slot, modules, lost, o)
    BY DEF HandleInv, Matched
  <2>2. Slack(World', o) \in Int
    <3>1. Cardinality(Props(World'.prop, o)) \in Nat /\ World'.rc[o] \in Int
      BY PropsFinite DEF Fitting, Worlds
    <3> QED BY <3>1 DEF Slack
  <2>3. Others(handle, slot, modules, lost, o) \in Int /\ Others(handle', slot', modules', lost', o) \in Int
    <3>1. /\ Cardinality(HeldBy(handle, o)) \in Nat /\ Cardinality(SlotsWith(slot, o)) \in Nat
          /\ Cardinality(ModulesWith(modules, o)) \in Nat /\ lost[o] \in Nat
      BY OthersFinite DEF HandleInv, Fitting
    <3>2. /\ Cardinality(HeldBy(handle', o)) \in Nat /\ Cardinality(SlotsWith(slot', o)) \in Nat
          /\ Cardinality(ModulesWith(modules', o)) \in Nat /\ lost'[o] \in Nat
      BY OthersFinite DEF Fitting
    <3> QED BY <3>1, <3>2 DEF Others
  <2>4. Slack(World', o) - Slack(World, o)
          = Others(handle', slot', modules', lost', o) - Others(handle, slot, modules, lost, o)
    BY DEF Balanced
  <2> QED BY <2>1, <2>2, <2>3, <2>4
<1>2. OnlyLostLeft'
  BY DEF OnlyLostLeft
<1> QED BY <1>1, <1>2 DEF HandleInv

(* What holds of the owners before a step.                                 *)
LEMMA OwnersBefore ==
  ASSUME HandleInv
  PROVE  /\ World \in Worlds /\ World.rc = rc /\ World.prop = prop /\ Dead(World) = {}
         /\ rc \in [Object -> Nat] /\ prop \in [Object -> Ref]
         /\ handle \in [Handle -> GoodValue] /\ slot \in [Slot -> Ref]
         /\ modules \in Seq(ModuleKind) /\ lost \in [Object -> Nat]
         /\ \A h \in Handle : handle[h].v # None /\ handle[h].owns =>
              handle[h].v \in Object /\ rc[handle[h].v] > 0
         /\ \A s \in Slot : slot[s] # None => slot[s] \in Object /\ rc[slot[s]] > 0
         /\ \A o \in Object : prop[o] # None => prop[o] \in Object /\ rc[prop[o]] > 0
         /\ \A o \in Object : /\ Slack(World, o) \in Nat
                              /\ Others(handle, slot, modules, lost, o) = Slack(World, o)
<1>1. /\ Fitting(World, handle, slot, modules, lost) /\ Matched(World, handle, slot, modules, lost)
      /\ Dead(World) = {}
  BY DEF HandleInv
<1>2. World.rc = rc /\ World.prop = prop
  BY DEF World
<1>3. /\ World \in Worlds /\ handle \in [Handle -> GoodValue] /\ slot \in [Slot -> Ref]
      /\ modules \in Seq(ModuleKind) /\ lost \in [Object -> Nat]
  BY <1>1 DEF Fitting
<1>4. \A o \in Object : /\ rc[o] \in Nat /\ Slack(World, o) \in Nat
                        /\ HeldBy(handle, o) # {} => rc[o] > 0
                        /\ SlotsWith(slot, o) # {} => rc[o] > 0
                        /\ Props(prop, o) # {} => rc[o] > 0
  BY <1>1, <1>2, Counted
<1>5. rc \in [Object -> Nat] /\ prop \in [Object -> Ref]
  BY <1>2, <1>3, <1>4 DEF Worlds
<1>6. ASSUME NEW h \in Handle, handle[h].v # None, handle[h].owns
      PROVE  handle[h].v \in Object /\ rc[handle[h].v] > 0
  <2>1. handle[h].v \in Object
    BY <1>3, <1>6 DEF GoodValue, Kind
  <2>2. h \in HeldBy(handle, handle[h].v)
    BY <1>6 DEF HeldBy
  <2> QED BY <1>4, <2>1, <2>2
<1>7. ASSUME NEW s \in Slot, slot[s] # None PROVE slot[s] \in Object /\ rc[slot[s]] > 0
  <2>1. slot[s] \in Object
    BY <1>3, <1>7 DEF Ref
  <2>2. s \in SlotsWith(slot, slot[s])
    BY DEF SlotsWith
  <2> QED BY <1>4, <2>1, <2>2
<1>8. ASSUME NEW o \in Object, prop[o] # None PROVE prop[o] \in Object /\ rc[prop[o]] > 0
  <2>1. prop[o] \in Object
    BY <1>5, <1>8 DEF Ref
  <2>2. o \in Props(prop, prop[o])
    BY DEF Props
  <2> QED BY <1>4, <2>1, <2>2
<1>9. \A o \in Object : Others(handle, slot, modules, lost, o) = Slack(World, o)
  BY <1>1 DEF Matched
<1> QED BY <1>1, <1>2, <1>3, <1>4, <1>5, <1>6, <1>7, <1>8, <1>9

(* The kinds of Values that operations make.                               *)
LEMMA ValuesMade ==
  /\ Gone \in GoodValue /\ \A o \in Object : Has(Gone, o) = 0
  /\ \A o \in Object : Value(o) \in GoodValue /\ \A q \in Object : Has(Value(o), q) = Is(o, q)
  /\ \A x \in GoodValue : x.v # None =>
       /\ x.v \in Object
       /\ release(x) \in GoodValue /\ \A q \in Object : Has(release(x), q) = 0
       /\ Copied(x) \in GoodValue /\ \A q \in Object : Has(Copied(x), q) = Is(x.v, q)
<1>1. Gone \in GoodValue /\ \A o \in Object : Has(Gone, o) = 0
  BY HandleAssumption DEF Gone, GoodValue, Kind, Has
<1>2. ASSUME NEW o \in Object
      PROVE  Value(o) \in GoodValue /\ \A q \in Object : Has(Value(o), q) = Is(o, q)
  <2>1. o # None
    BY HandleAssumption
  <2> QED BY <2>1 DEF Value, GoodValue, Kind, Has, Is, Gone
<1>3. ASSUME NEW x \in GoodValue, x.v # None
      PROVE  /\ x.v \in Object
             /\ release(x) \in GoodValue /\ \A q \in Object : Has(release(x), q) = 0
             /\ Copied(x) \in GoodValue /\ \A q \in Object : Has(Copied(x), q) = Is(x.v, q)
  <2>1. PICK v \in Object, ctx \in BOOLEAN, owns \in BOOLEAN : x = [v |-> v, ctx |-> ctx, owns |-> owns]
    BY <1>3 DEF GoodValue, Kind
  <2>2. release(x) \in Kind /\ release(x).v = v /\ release(x).ctx = FALSE /\ release(x).owns = FALSE
    BY <2>1 DEF release, Kind
  <2>3. Copied(x) \in Kind /\ Copied(x).v = v /\ Copied(x).owns = TRUE
    BY <2>1 DEF Copied, Kind
  <2>4. release(x) \in GoodValue /\ \A q \in Object : Has(release(x), q) = 0
    BY <1>3, <2>1, <2>2 DEF GoodValue, Has
  <2>5. Copied(x) \in GoodValue /\ \A q \in Object : Has(Copied(x), q) = Is(x.v, q)
    BY <1>3, <2>1, <2>3 DEF GoodValue, Has, Is
  <2>6. x.v \in Object
    BY <2>1
  <2> QED BY <2>4, <2>5, <2>6
<1> QED BY <1>1, <1>2, <1>3

LEMMA Integral ==
  /\ \A w \in Worlds, o \in Object : Slack(w, o) \in Int
  /\ \A v, o : Is(v, o) \in Int
  /\ \A x, o : Has(x, o) \in Int
<1>1. ASSUME NEW w \in Worlds, NEW o \in Object PROVE Slack(w, o) \in Int
  <2>1. Cardinality(Props(w.prop, o)) \in Nat /\ w.rc[o] \in Int
    BY PropsFinite DEF Worlds
  <2> QED BY <2>1 DEF Slack
<1>2. /\ \A v, o : Is(v, o) \in Int
      /\ \A x, o : Has(x, o) \in Int
  BY DEF Is, Has
<1> QED BY <1>1, <1>2

Owning(hd, sl, ms, ls) ==
  /\ hd \in [Handle -> GoodValue] /\ sl \in [Slot -> Ref]
  /\ ms \in Seq(ModuleKind) /\ ls \in [Object -> Nat]

LEMMA OthersIntegral ==
  ASSUME NEW hd, NEW sl, NEW ms, NEW ls, Owning(hd, sl, ms, ls), NEW o \in Object
  PROVE  /\ Cardinality(HeldBy(hd, o)) \in Nat /\ Cardinality(SlotsWith(sl, o)) \in Nat
         /\ Cardinality(ModulesWith(ms, o)) \in Nat /\ ls[o] \in Nat
         /\ Others(hd, sl, ms, ls, o) \in Int
<1>1. /\ Cardinality(HeldBy(hd, o)) \in Nat /\ Cardinality(SlotsWith(sl, o)) \in Nat
      /\ Cardinality(ModulesWith(ms, o)) \in Nat /\ ls[o] \in Nat
  BY OthersFinite DEF Owning
<1> QED BY <1>1 DEF Others

(* What the other owners gain when one of them changes.                    *)
Changed(f, i, x, f1) == f1 = [f EXCEPT ![i] = x]

LEMMA HandleOwners ==
  ASSUME NEW hd, NEW sl, NEW ms, NEW ls, Owning(hd, sl, ms, ls),
         NEW h \in Handle, NEW x \in GoodValue, NEW hd1, Changed(hd, h, x, hd1), NEW o \in Object
  PROVE  /\ Owning(hd1, sl, ms, ls)
         /\ Others(hd1, sl, ms, ls, o) = Others(hd, sl, ms, ls, o) - Has(hd[h], o) + Has(x, o)
<1>1. Cardinality(HeldBy(hd1, o)) = Cardinality(HeldBy(hd, o)) - Has(hd[h], o) + Has(x, o)
  BY HandleStep DEF Changed, Owning
<1>2. Has(hd[h], o) \in Int /\ Has(x, o) \in Int
  BY Integral
<1>3. Owning(hd1, sl, ms, ls)
  BY DEF Owning, Changed
<1> QED BY <1>1, <1>2, <1>3, OthersIntegral DEF Others

LEMMA SlotOwners ==
  ASSUME NEW hd, NEW sl, NEW ms, NEW ls, Owning(hd, sl, ms, ls),
         NEW v \in Ref, NEW sl1, Changed(sl, "proto", v, sl1), NEW o \in Object
  PROVE  /\ Owning(hd, sl1, ms, ls) /\ sl1["global"] = sl["global"]
         /\ Others(hd, sl1, ms, ls, o) = Others(hd, sl, ms, ls, o) - Is(sl["proto"], o) + Is(v, o)
<1>1. Cardinality(SlotsWith(sl1, o)) = Cardinality(SlotsWith(sl, o)) - Is(sl["proto"], o) + Is(v, o)
  BY SlotStep DEF Changed, Owning
<1>2. Is(sl["proto"], o) \in Int /\ Is(v, o) \in Int
  BY Integral
<1>3. Owning(hd, sl1, ms, ls) /\ sl1["global"] = sl["global"]
  BY DEF Owning, Changed, Slot
<1> QED BY <1>1, <1>2, <1>3, OthersIntegral DEF Others

Added(ms, m, ms1) == m \in ModuleKind /\ m.given = FALSE /\ ms1 = Append(ms, m)

LEMMA ModuleOwners ==
  ASSUME NEW hd, NEW sl, NEW ms, NEW ls, Owning(hd, sl, ms, ls),
         NEW m, NEW ms1, Added(ms, m, ms1), NEW o \in Object
  PROVE  /\ Owning(hd, sl, ms1, ls)
         /\ Others(hd, sl, ms1, ls, o) = Others(hd, sl, ms, ls, o) + Is(m.value, o)
<1>1. Cardinality(ModulesWith(ms1, o)) = Cardinality(ModulesWith(ms, o)) + Is(m.value, o)
  BY ModuleAdded DEF Owning, Added
<1>2. Is(m.value, o) \in Int
  BY Integral
<1>3. Owning(hd, sl, ms1, ls)
  BY DEF Owning, Added
<1> QED BY <1>1, <1>2, <1>3, OthersIntegral DEF Others

LEMMA LostOwners ==
  ASSUME NEW hd, NEW sl, NEW ms, NEW ls, Owning(hd, sl, ms, ls),
         NEW ls1 \in [Object -> Nat], NEW o \in Object
  PROVE  /\ Owning(hd, sl, ms, ls1)
         /\ Others(hd, sl, ms, ls1, o) = Others(hd, sl, ms, ls, o) + ls1[o] - ls[o]
<1>1. Owning(hd, sl, ms, ls1)
  BY DEF Owning
<1> QED BY <1>1, OthersIntegral DEF Others

(* A Value is destroyed: its reference is freed or lost.                   *)
LEMMA DestroyEffect ==
  ASSUME NEW w \in Worlds, Dead(w) = {}, NEW x \in GoodValue, x.v # None, lost \in [Object -> Nat]
  PROVE  /\ Destroyed(w, x) \in Worlds /\ Dead(Destroyed(w, x)) = {}
         /\ LostWith(x) \in [Object -> Nat]
         /\ \A o \in Object : Slack(Destroyed(w, x), o) - Slack(w, o)
                                = LostWith(x)[o] - lost[o] - Has(x, o)
<1>1. x.v \in Object /\ x.v \in Ref /\ x.ctx \in BOOLEAN /\ x.owns \in BOOLEAN /\ (x.ctx => x.owns)
  BY DEF GoodValue, Kind, Ref
<1>2. CASE x.ctx
  <2>1. Destroyed(w, x) = JS_FreeValue(w, x.v) /\ LostWith(x) = lost
    BY <1>2 DEF Destroyed, LostWith
  <2>2. \A o \in Object : Has(x, o) = Is(x.v, o)
    BY <1>1, <1>2 DEF Has, Is
  <2>3. ASSUME NEW o \in Object PROVE Slack(Destroyed(w, x), o) - Slack(w, o) = LostWith(x)[o] - lost[o] - Has(x, o)
    <3>1. Slack(JS_FreeValue(w, x.v), o) = Slack(w, o) - Is(x.v, o)
      BY <1>1, FreeValue
    <3>2. Slack(w, o) \in Int /\ Is(x.v, o) \in Int /\ lost[o] \in Int
      BY Integral
    <3> QED BY <2>1, <2>2, <3>1, <3>2
  <2> QED BY <1>1, <2>1, <2>3, FreeValue
<1>3. CASE ~x.ctx /\ x.owns
  <2>1. Destroyed(w, x) = w /\ LostWith(x) = [lost EXCEPT ![x.v] = @ + 1]
    BY <1>3 DEF Destroyed, LostWith
  <2>2. ASSUME NEW o \in Object PROVE Slack(w, o) - Slack(w, o) = LostWith(x)[o] - lost[o] - Has(x, o)
    <3>1. Slack(w, o) \in Int /\ lost[o] \in Int
      BY Integral
    <3>2. LostWith(x)[o] = lost[o] + Has(x, o)
      BY <1>1, <1>3, <2>1, <3>1 DEF Has
    <3>3. Has(x, o) \in Int
      BY Integral
    <3> QED BY <3>1, <3>2, <3>3
  <2>3. LostWith(x) \in [Object -> Nat]
    BY <1>1, <2>1
  <2> QED BY <2>1, <2>2, <2>3
<1>4. CASE ~x.ctx /\ ~x.owns
  <2>1. Destroyed(w, x) = w /\ LostWith(x) = lost
    BY <1>4 DEF Destroyed, LostWith
  <2>2. ASSUME NEW o \in Object PROVE Slack(w, o) - Slack(w, o) = lost[o] - lost[o] - Has(x, o)
    <3>1. Slack(w, o) \in Int /\ lost[o] \in Int
      BY Integral
    <3>2. Has(x, o) = 0
      BY <1>4 DEF Has
    <3> QED BY <3>1, <3>2
  <2> QED BY <2>1, <2>2
<1> QED BY <1>1, <1>2, <1>3, <1>4

(* A reference that is given away: the engine has one more than the owners *)
(* that are left.                                                          *)
LEMMA GivingEffect ==
  ASSUME HandleInv, NEW h \in Handle, NEW g \in Givings(h)
  PROVE  /\ handle[h].v \in Object
         /\ g[1] \in Worlds /\ Dead(g[1]) = {} /\ \A o \in Object : g[1].rc[o] >= rc[o]
         /\ Owning(g[2], slot, modules, lost)
         /\ \A o \in Object : Slack(g[1], o) - Slack(World, o)
              = Others(g[2], slot, modules, lost, o) - Others(handle, slot, modules, lost, o)
                + Is(handle[h].v, o)
<1> DEFINE x == handle[h]
<1>1. /\ World \in Worlds /\ World.rc = rc /\ World.prop = prop /\ Dead(World) = {}
      /\ rc \in [Object -> Nat] /\ Owning(handle, slot, modules, lost)
  BY OwnersBefore DEF Owning
<1>2. x \in GoodValue /\ x.v # None
  BY <1>1 DEF Givings, Alive, Owning
<1>3. x.v \in Object /\ release(x) \in GoodValue /\ \A q \in Object : Has(release(x), q) = 0
  BY <1>2, ValuesMade
<1>4. \/ g = <<JS_DupValue(World, x.v), handle>>
      \/ x.owns /\ g = <<World, [handle EXCEPT ![h] = release(x)]>>
  BY DEF Givings
<1> HIDE DEF x
<1>5. \A o \in Object : /\ Slack(World, o) \in Int /\ Others(handle, slot, modules, lost, o) \in Int
                        /\ Is(x.v, o) \in Int
  BY <1>1, Integral, OthersIntegral
<1>6. CASE g = <<JS_DupValue(World, x.v), handle>>
  <2> DEFINE u == JS_DupValue(World, x.v)
  <2>1. g[1] = u /\ g[2] = handle
    BY <1>6
  <2>2. /\ u \in Worlds /\ u.rc = [rc EXCEPT ![x.v] = @ + 1]
        /\ \A o \in Object : Slack(u, o) = Slack(World, o) + Is(x.v, o)
    BY <1>1, <1>3, DupValue
  <2>3. Dead(u) = {}
    <3>1. World.rc[x.v] >= 0
      BY <1>1, <1>3
    <3> QED BY <1>1, <1>3, <3>1, DupValue
  <2> HIDE DEF u
  <2>4. \A o \in Object : u.rc[o] >= rc[o]
    BY <1>1, <1>3, <2>2
  <2>5. ASSUME NEW o \in Object
        PROVE  Slack(u, o) - Slack(World, o)
                 = Others(handle, slot, modules, lost, o) - Others(handle, slot, modules, lost, o) + Is(x.v, o)
    BY <1>5, <2>2
  <2> QED BY <1>1, <1>3, <2>1, <2>2, <2>3, <2>4, <2>5 DEF x
<1>7. CASE x.owns /\ g = <<World, [handle EXCEPT ![h] = release(x)]>>
  <2>8. PICK y \in GoodValue : y = release(x)
    BY <1>3
  <2>9. PICK hd : Changed(handle, h, y, hd)
    BY DEF Changed
  <2>0. y = release(x) /\ Changed(handle, h, y, hd)
    BY <2>8, <2>9
  <2>1. g[1] = World /\ g[2] = hd
    BY <1>7, <2>0 DEF Changed
  <2>7. x = handle[h]
    BY DEF x
  <2>2. ASSUME NEW o \in Object
        PROVE  /\ Owning(hd, slot, modules, lost)
               /\ Others(hd, slot, modules, lost, o)
                    = Others(handle, slot, modules, lost, o) - Has(x, o) + Has(y, o)
    BY <1>1, <2>0, <2>7, HandleOwners
  <2>3. Owning(hd, slot, modules, lost)
    BY <1>3, <2>2
  <2>4. \A o \in Object : Has(x, o) = Is(x.v, o) /\ Has(y, o) = 0
    BY <1>3, <1>7, <2>0 DEF Has, Is
  <2>5. ASSUME NEW o \in Object
        PROVE  Slack(World, o) - Slack(World, o)
                 = Others(hd, slot, modules, lost, o) - Others(handle, slot, modules, lost, o) + Is(x.v, o)
    BY <1>3, <1>5, <2>2, <2>4
  <2>6. \A o \in Object : World.rc[o] >= rc[o]
    BY <1>1
  <2> QED BY <1>1, <1>3, <2>1, <2>3, <2>5, <2>6 DEF x
<1> QED BY <1>4, <1>6, <1>7


-----------------------------------------------------------------------------
(* The steps of the running program.                                       *)

(* The owners after a step, when the world is the given one.               *)
LEMMA StepTo ==
  ASSUME HandleInv, phase = "run", wrapper' = wrapper, phase' = phase,
         NEW u \in Worlds, Becomes(u), Dead(u) = {},
         Owning(handle', slot', modules', lost'), slot'["global"] = slot["global"],
         \A o \in Object : Slack(u, o) - Slack(World, o)
                             = Others(handle', slot', modules', lost', o)
                               - Others(handle, slot, modules, lost, o)
  PROVE  HandleInv'
<1>1. World' = u
  BY BecomesWorld
<1>2. Fitting(World', handle', slot', modules', lost') /\ Dead(World') = {}
  BY <1>1 DEF Fitting, Owning
<1>3. Balanced(World', handle', slot', modules', lost')
  BY <1>1 DEF Balanced
<1>4. slot'["global"] = global
  BY DEF HandleInv
<1> QED BY <1>2, <1>3, <1>4, StepKeeps

(* newObject, global, copies and getProperty: one more Value, and one more *)
(* reference.                                                              *)
LEMMA AddValue ==
  ASSUME HandleInv, phase = "run", NEW h \in Handle, NEW v \in Object, NEW x \in GoodValue,
         handle[h] = Gone, \A o \in Object : Has(x, o) = Is(v, o),
         Becomes(JS_DupValue(World, v)), Changed(handle, h, x, handle'),
         UNCHANGED <<wrapper, slot, modules, lost, phase>>
  PROVE  HandleInv'
<1> DEFINE u == JS_DupValue(World, v)
<1>1. /\ World \in Worlds /\ World.rc = rc /\ Dead(World) = {}
      /\ rc \in [Object -> Nat] /\ Owning(handle, slot, modules, lost)
  BY OwnersBefore DEF Owning
<1>2. u \in Worlds /\ \A o \in Object : Slack(u, o) = Slack(World, o) + Is(v, o)
  BY <1>1, DupValue
<1>3. Dead(u) = {}
  <2>1. World.rc[v] >= 0
    BY <1>1
  <2> QED BY <1>1, <2>1, DupValue
<1>4. Becomes(u)
  OBVIOUS
<1> HIDE DEF u
<1>6. ASSUME NEW o \in Object
      PROVE  /\ Owning(handle', slot, modules, lost)
             /\ Others(handle', slot, modules, lost, o)
                  = Others(handle, slot, modules, lost, o) - Has(handle[h], o) + Has(x, o)
  BY <1>1, HandleOwners
<1>7. ASSUME NEW o \in Object
      PROVE  Slack(u, o) - Slack(World, o)
               = Others(handle', slot', modules', lost', o) - Others(handle, slot, modules, lost, o)
  <2>1. Has(handle[h], o) = 0 /\ Has(x, o) = Is(v, o)
    BY ValuesMade
  <2>2. Slack(World, o) \in Int /\ Others(handle, slot, modules, lost, o) \in Int /\ Is(v, o) \in Int
    BY <1>1, Integral, OthersIntegral
  <2>3. Others(handle', slot', modules', lost', o) = Others(handle', slot, modules, lost, o)
    OBVIOUS
  <2>4. Others(handle', slot, modules, lost, o) = Others(handle, slot, modules, lost, o) + Is(v, o)
    BY <1>6, <2>1, <2>2
  <2>5. Slack(u, o) = Slack(World, o) + Is(v, o)
    BY <1>2
  <2> QED BY <2>2, <2>3, <2>4, <2>5
<1> QED BY <1>1, <1>2, <1>3, <1>4, <1>6, <1>7, StepTo

LEMMA StepNewObject ==
  ASSUME HandleInv, phase = "run", NEW h \in Handle, newObject(h) PROVE HandleInv'
<1>1. PICK o \in Object : /\ Free(h) /\ handle' = [handle EXCEPT ![h] = Value(o)]
                          /\ Becomes(JS_DupValue(World, o))
                          /\ UNCHANGED <<wrapper, slot, modules, lost, phase>>
  BY DEF newObject
<1>2. Value(o) \in GoodValue /\ \A q \in Object : Has(Value(o), q) = Is(o, q)
  BY ValuesMade
<1> QED BY <1>1, <1>2, AddValue DEF Free, Changed

LEMMA StepGlobal ==
  ASSUME HandleInv, phase = "run", NEW h \in Handle, global_(h) PROVE HandleInv'
<1>1. slot["global"] \in Object
  BY HandleAssumption DEF HandleInv
<1>2. PICK o \in Object : o = slot["global"]
  BY <1>1
<1>3. Value(o) \in GoodValue /\ \A q \in Object : Has(Value(o), q) = Is(o, q)
  BY ValuesMade
<1>4. /\ Free(h) /\ handle' = [handle EXCEPT ![h] = Value(o)]
      /\ Becomes(JS_DupValue(World, o))
      /\ UNCHANGED <<wrapper, slot, modules, lost, phase>>
  BY <1>2 DEF global_
<1> QED BY <1>3, <1>4, AddValue DEF Free, Changed

LEMMA StepGetProperty ==
  ASSUME HandleInv, phase = "run", NEW h \in Handle, NEW h1 \in Handle, getProperty(h, h1)
  PROVE  HandleInv'
<1>1. handle[h1].v \in Object /\ prop[handle[h1].v] \in Object
  <2>1. handle[h1].v \in Object
    BY OwnersBefore, ValuesMade DEF getProperty, Usable, Alive
  <2> QED BY <2>1, OwnersBefore DEF getProperty
<1>2. PICK o \in Object : o = prop[handle[h1].v]
  BY <1>1
<1>3. Value(o) \in GoodValue /\ \A q \in Object : Has(Value(o), q) = Is(o, q)
  BY ValuesMade
<1>4. /\ Free(h) /\ handle' = [handle EXCEPT ![h] = Value(o)]
      /\ Becomes(JS_DupValue(World, o))
      /\ UNCHANGED <<wrapper, slot, modules, lost, phase>>
  BY <1>2 DEF getProperty
<1> QED BY <1>3, <1>4, AddValue DEF Free, Changed

LEMMA StepCopy ==
  ASSUME HandleInv, phase = "run", NEW h \in Handle, NEW h1 \in Handle, copy(h, h1)
  PROVE  HandleInv'
<1>1. handle[h1] \in GoodValue /\ handle[h1].v # None
  BY OwnersBefore DEF copy, Copyable
<1>2. PICK v \in Object, x \in GoodValue :
        /\ v = handle[h1].v /\ x = Copied(handle[h1]) /\ \A q \in Object : Has(x, q) = Is(v, q)
  BY <1>1, ValuesMade
<1>3. /\ Free(h) /\ handle' = [handle EXCEPT ![h] = x]
      /\ Becomes(JS_DupValue(World, v))
      /\ UNCHANGED <<wrapper, slot, modules, lost, phase>>
  BY <1>2 DEF copy
<1> QED BY <1>2, <1>3, AddValue DEF Free, Changed

LEMMA StepMove ==
  ASSUME HandleInv, phase = "run", NEW h \in Handle, NEW h1 \in Handle, move(h, h1)
  PROVE  HandleInv'
<1>1. World \in Worlds /\ Dead(World) = {} /\ Owning(handle, slot, modules, lost)
  BY OwnersBefore DEF Owning
<1>2. /\ handle[h] = Gone /\ handle[h1].v # None /\ World' = World
      /\ handle' = [handle EXCEPT ![h] = handle[h1], ![h1] = release(@)]
      /\ UNCHANGED <<wrapper, slot, modules, lost, phase>>
  BY DEF move, Free, Alive, World
<1>3. h # h1
  BY <1>2 DEF Gone
<1>4. PICK x \in GoodValue, y \in GoodValue :
        /\ x = handle[h1] /\ y = release(x) /\ \A o \in Object : Has(y, o) = 0
  <2>1. handle[h1] \in GoodValue
    BY <1>1 DEF Owning
  <2> QED BY <1>2, <2>1, ValuesMade
<1>5. PICK hd1, hd2 : Changed(handle, h, x, hd1) /\ Changed(hd1, h1, y, hd2)
  BY DEF Changed
<1>6. hd2 = handle' /\ hd1[h1] = x
  BY <1>1, <1>2, <1>3, <1>4, <1>5 DEF Changed, Owning
<1>7. ASSUME NEW o \in Object
      PROVE  /\ Owning(hd2, slot, modules, lost)
             /\ Others(hd2, slot, modules, lost, o) = Others(handle, slot, modules, lost, o)
  <2>1. /\ Owning(hd1, slot, modules, lost)
        /\ Others(hd1, slot, modules, lost, o)
             = Others(handle, slot, modules, lost, o) - Has(handle[h], o) + Has(x, o)
    BY <1>1, <1>5, HandleOwners
  <2>2. /\ Owning(hd2, slot, modules, lost)
        /\ Others(hd2, slot, modules, lost, o)
             = Others(hd1, slot, modules, lost, o) - Has(hd1[h1], o) + Has(y, o)
    BY <1>5, <2>1, HandleOwners
  <2>3. Has(handle[h], o) = 0 /\ Has(hd1[h1], o) = Has(x, o) /\ Has(y, o) = 0
    BY <1>2, <1>4, <1>6, ValuesMade
  <2>4. Others(handle, slot, modules, lost, o) \in Int /\ Has(x, o) \in Int
    BY <1>1, Integral, OthersIntegral
  <2> QED BY <2>1, <2>2, <2>3, <2>4
<1>8. Owning(handle', slot, modules, lost)
  BY <1>6, <1>7, HandleAssumption
<1>9. ASSUME NEW o \in Object
      PROVE  Slack(World, o) - Slack(World, o)
               = Others(handle', slot', modules', lost', o) - Others(handle, slot, modules, lost, o)
  <2>1. Others(handle', slot', modules', lost', o) = Others(handle, slot, modules, lost, o)
    BY <1>2, <1>6, <1>7
  <2>2. Slack(World, o) \in Int /\ Others(handle, slot, modules, lost, o) \in Int
    BY <1>1, Integral, OthersIntegral
  <2> QED BY <2>1, <2>2
<1>10. Becomes(World)
  BY DEF Becomes, World, move
<1> QED BY <1>1, <1>2, <1>8, <1>9, <1>10, StepTo

LEMMA StepDestroy ==
  ASSUME HandleInv, phase = "run", NEW h \in Handle, destroy(h) PROVE HandleInv'
<1> DEFINE x == handle[h]
           u == Destroyed(World, x)
<1>1. /\ World \in Worlds /\ Dead(World) = {} /\ Owning(handle, slot, modules, lost)
      /\ lost \in [Object -> Nat] /\ x \in GoodValue
  BY OwnersBefore DEF Owning
<1>2. /\ x.v # None /\ Changed(handle, h, Gone, handle')
      /\ Becomes(u) /\ lost' = LostWith(x)
      /\ wrapper' = wrapper /\ slot' = slot /\ modules' = modules /\ phase' = phase
  BY DEF destroy, Alive, Changed
<1> HIDE DEF x
<1>3. /\ u \in Worlds /\ Dead(u) = {} /\ LostWith(x) \in [Object -> Nat]
      /\ \A o \in Object : Slack(u, o) - Slack(World, o) = LostWith(x)[o] - lost[o] - Has(x, o)
  BY <1>1, <1>2, DestroyEffect
<1> HIDE DEF u
<1>4. ASSUME NEW o \in Object
      PROVE  /\ Owning(handle', slot, modules, lost')
             /\ Others(handle', slot, modules, lost', o)
                  = Others(handle, slot, modules, lost, o) - Has(x, o) + lost'[o] - lost[o]
  <2>1. /\ Owning(handle', slot, modules, lost)
        /\ Others(handle', slot, modules, lost, o)
             = Others(handle, slot, modules, lost, o) - Has(handle[h], o) + Has(Gone, o)
    BY <1>1, <1>2, ValuesMade, HandleOwners
  <2>2. /\ Owning(handle', slot, modules, lost')
        /\ Others(handle', slot, modules, lost', o)
             = Others(handle', slot, modules, lost, o) + lost'[o] - lost[o]
    BY <1>2, <1>3, <2>1, LostOwners
  <2>3. Has(Gone, o) = 0 /\ Has(handle[h], o) = Has(x, o)
    BY ValuesMade DEF x
  <2>4. Others(handle, slot, modules, lost, o) \in Int /\ Has(x, o) \in Int
        /\ lost[o] \in Int /\ lost'[o] \in Int
    BY <1>1, <1>2, <1>3, Integral, OthersIntegral
  <2> QED BY <2>1, <2>2, <2>3, <2>4
<1>5. ASSUME NEW o \in Object
      PROVE  Slack(u, o) - Slack(World, o)
               = Others(handle', slot', modules', lost', o) - Others(handle, slot, modules, lost, o)
  <2>1. Others(handle', slot', modules', lost', o) = Others(handle', slot, modules, lost', o)
    BY <1>2
  <2>2. Slack(u, o) - Slack(World, o) = lost'[o] - lost[o] - Has(x, o)
    BY <1>2, <1>3
  <2>3. Others(handle, slot, modules, lost, o) \in Int /\ Has(x, o) \in Int
        /\ lost[o] \in Int /\ lost'[o] \in Int
    BY <1>1, <1>2, <1>3, Integral, OthersIntegral
  <2> QED BY <1>4, <2>1, <2>2, <2>3
<1>6. Owning(handle', slot', modules', lost') /\ slot'["global"] = slot["global"]
  BY <1>2, <1>4, HandleAssumption
<1> QED BY <1>2, <1>3, <1>5, <1>6, StepTo

(* The right side's copy takes the place of h, and what h had is destroyed. *)
LEMMA StepAssign ==
  ASSUME HandleInv, phase = "run", NEW h \in Handle, NEW h1 \in Handle, assign(h, h1)
  PROVE  HandleInv'
<1> DEFINE x == handle[h]
<1>1. /\ World \in Worlds /\ World.rc = rc /\ Dead(World) = {} /\ Owning(handle, slot, modules, lost)
      /\ rc \in [Object -> Nat] /\ lost \in [Object -> Nat] /\ x \in GoodValue /\ handle[h1] \in GoodValue
  BY OwnersBefore DEF Owning
<1>2. handle[h1].v # None /\ x.v # None
  BY DEF assign, Copyable, Alive
<1>3. PICK v \in Object, y \in GoodValue :
        /\ v = handle[h1].v /\ y = Copied(handle[h1]) /\ \A q \in Object : Has(y, q) = Is(v, q)
  BY <1>1, <1>2, ValuesMade
<1> DEFINE d == JS_DupValue(World, v)
           u == Destroyed(d, x)
<1>4. /\ Changed(handle, h, y, handle')
      /\ Becomes(u) /\ lost' = LostWith(x)
      /\ wrapper' = wrapper /\ slot' = slot /\ modules' = modules /\ phase' = phase
  BY <1>3 DEF assign, Changed
<1> HIDE DEF x
<1>5. /\ d \in Worlds /\ Dead(d) = {}
      /\ \A o \in Object : Slack(d, o) = Slack(World, o) + Is(v, o)
  <2>1. World.rc[v] >= 0
    BY <1>1
  <2> QED BY <1>1, <2>1, DupValue
<1> HIDE DEF d
<1>6. /\ u \in Worlds /\ Dead(u) = {} /\ LostWith(x) \in [Object -> Nat]
      /\ \A o \in Object : Slack(u, o) - Slack(d, o) = LostWith(x)[o] - lost[o] - Has(x, o)
  BY <1>1, <1>2, <1>5, DestroyEffect
<1> HIDE DEF u
<1>7. ASSUME NEW o \in Object
      PROVE  /\ Owning(handle', slot, modules, lost')
             /\ Others(handle', slot, modules, lost', o)
                  = Others(handle, slot, modules, lost, o) - Has(x, o) + Is(v, o) + lost'[o] - lost[o]
  <2>1. /\ Owning(handle', slot, modules, lost)
        /\ Others(handle', slot, modules, lost, o)
             = Others(handle, slot, modules, lost, o) - Has(handle[h], o) + Has(y, o)
    BY <1>1, <1>4, HandleOwners
  <2>2. /\ Owning(handle', slot, modules, lost')
        /\ Others(handle', slot, modules, lost', o)
             = Others(handle', slot, modules, lost, o) + lost'[o] - lost[o]
    BY <1>4, <1>6, <2>1, LostOwners
  <2>3. Has(y, o) = Is(v, o) /\ Has(handle[h], o) = Has(x, o)
    BY <1>3 DEF x
  <2>4. /\ Others(handle, slot, modules, lost, o) \in Int /\ Has(x, o) \in Int /\ Is(v, o) \in Int
        /\ lost[o] \in Int /\ lost'[o] \in Int
    BY <1>1, <1>4, <1>6, Integral, OthersIntegral
  <2> QED BY <2>1, <2>2, <2>3, <2>4
<1>8. ASSUME NEW o \in Object
      PROVE  Slack(u, o) - Slack(World, o)
               = Others(handle', slot', modules', lost', o) - Others(handle, slot, modules, lost, o)
  <2>1. Others(handle', slot', modules', lost', o) = Others(handle', slot, modules, lost', o)
    BY <1>4
  <2>2. Slack(u, o) - Slack(d, o) = lost'[o] - lost[o] - Has(x, o)
    BY <1>4, <1>6
  <2>3. Slack(d, o) = Slack(World, o) + Is(v, o)
    BY <1>5
  <2>4. /\ Others(handle, slot, modules, lost, o) \in Int /\ Has(x, o) \in Int /\ Is(v, o) \in Int
        /\ lost[o] \in Int /\ lost'[o] \in Int /\ Slack(World, o) \in Int /\ Slack(u, o) \in Int
    BY <1>1, <1>4, <1>6, Integral, OthersIntegral
  <2>5. Slack(u, o) - Slack(World, o) = Is(v, o) + lost'[o] - lost[o] - Has(x, o)
    BY <2>2, <2>3, <2>4
  <2>6. Others(handle', slot, modules, lost', o) - Others(handle, slot, modules, lost, o)
          = Is(v, o) + lost'[o] - lost[o] - Has(x, o)
    BY <1>7, <2>4
  <2> QED BY <2>1, <2>5, <2>6
<1>9. Owning(handle', slot', modules', lost') /\ slot'["global"] = slot["global"]
  BY <1>4, <1>7, HandleAssumption
<1> QED BY <1>4, <1>6, <1>8, <1>9, StepTo

-----------------------------------------------------------------------------
(* The steps that set a property or give a reference away.                 *)

LEMMA StepAssignProperty ==
  ASSUME HandleInv, phase = "run", NEW h \in Handle, NEW h1 \in Handle, assign_property(h, h1)
  PROVE  HandleInv'
<1>1. World \in Worlds /\ rc \in [Object -> Nat] /\ Owning(handle, slot, modules, lost)
  BY OwnersBefore DEF Owning
<1>0. PICK g \in Givings(h1) :
        handle' = g[2] /\ Becomes(JS_SetPropertyStr(g[1], handle[h].v, handle[h1].v))
  BY DEF assign_property
<1>9. PICK v : v = handle[h1].v
  OBVIOUS
<1>10. PICK q \in Object : q = handle[h].v /\ rc[q] > 0
  <2>1. handle[h].v # None /\ handle[h].owns
    BY <1>1 DEF assign_property, Usable, Alive, Owning, GoodValue
  <2>2. handle[h].v \in Object /\ rc[handle[h].v] > 0
    BY <2>1, OwnersBefore
  <2> QED BY <2>2
<1>2. q = handle[h].v /\ v = handle[h1].v /\ rc[q] > 0
  BY <1>9, <1>10
<1>3. wrapper' = wrapper /\ slot' = slot /\ modules' = modules /\ lost' = lost /\ phase' = phase
  BY DEF assign_property
<1> DEFINE u == JS_SetPropertyStr(g[1], q, v)
<1>4. /\ v \in Object /\ g[1] \in Worlds /\ Dead(g[1]) = {} /\ g[1].rc[q] >= rc[q]
      /\ Owning(g[2], slot, modules, lost)
      /\ \A o \in Object : Slack(g[1], o) - Slack(World, o)
           = Others(g[2], slot, modules, lost, o) - Others(handle, slot, modules, lost, o) + Is(v, o)
  BY <1>2, GivingEffect
<1>5. u \in Worlds /\ Dead(u) = {} /\ \A o \in Object : Slack(u, o) = Slack(g[1], o) - Is(v, o)
  <2>1. g[1].rc[q] > 0
    BY <1>1, <1>2, <1>4 DEF Worlds
  <2> QED BY <1>4, <2>1, SetProperty
<1>6. Becomes(u)
  BY <1>0, <1>2
<1> HIDE DEF u
<1>7. ASSUME NEW o \in Object
      PROVE  Slack(u, o) - Slack(World, o)
               = Others(handle', slot', modules', lost', o) - Others(handle, slot, modules, lost, o)
  <2>1. Others(handle', slot', modules', lost', o) = Others(g[2], slot, modules, lost, o)
    BY <1>0, <1>3
  <2>2. /\ Others(handle, slot, modules, lost, o) \in Int /\ Others(g[2], slot, modules, lost, o) \in Int
        /\ Is(v, o) \in Int /\ Slack(World, o) \in Int /\ Slack(g[1], o) \in Int
    BY <1>1, <1>4, Integral, OthersIntegral
  <2>3. /\ Slack(u, o) = Slack(g[1], o) - Is(v, o)
        /\ Slack(g[1], o) - Slack(World, o)
             = Others(g[2], slot, modules, lost, o) - Others(handle, slot, modules, lost, o) + Is(v, o)
    BY <1>4, <1>5
  <2> QED BY <2>1, <2>2, <2>3
<1>8. Owning(handle', slot', modules', lost') /\ slot'["global"] = slot["global"]
  BY <1>0, <1>3, <1>4
<1> QED BY <1>3, <1>5, <1>6, <1>7, <1>8, StepTo

LEMMA StepRegisterClass ==
  ASSUME HandleInv, phase = "run", NEW h \in Handle, registerClass(h) PROVE HandleInv'
<1>1. /\ World \in Worlds /\ Owning(handle, slot, modules, lost) /\ slot["proto"] \in Ref
  BY OwnersBefore DEF Owning, Slot
<1>0. PICK g \in Givings(h) : handle' = g[2] /\ Becomes(JS_FreeValue(g[1], slot["proto"]))
  BY DEF registerClass
<1>2. PICK v, p : /\ v = handle[h].v /\ p = slot["proto"]
                  /\ handle' = g[2] /\ Becomes(JS_FreeValue(g[1], p))
  BY <1>0
<1>3. /\ wrapper' = wrapper /\ modules' = modules /\ lost' = lost /\ phase' = phase
      /\ Changed(slot, "proto", v, slot')
  BY <1>2 DEF registerClass, Changed
<1> DEFINE u == JS_FreeValue(g[1], p)
<1>4. /\ v \in Object /\ g[1] \in Worlds /\ Dead(g[1]) = {}
      /\ Owning(g[2], slot, modules, lost)
      /\ \A o \in Object : Slack(g[1], o) - Slack(World, o)
           = Others(g[2], slot, modules, lost, o) - Others(handle, slot, modules, lost, o) + Is(v, o)
  BY <1>2, GivingEffect
<1>5. u \in Worlds /\ Dead(u) = {} /\ \A o \in Object : Slack(u, o) = Slack(g[1], o) - Is(p, o)
  BY <1>1, <1>2, <1>4, FreeValue
<1>6. Becomes(u)
  BY <1>2
<1> HIDE DEF u
<1>7. ASSUME NEW o \in Object
      PROVE  /\ Owning(g[2], slot', modules, lost) /\ slot'["global"] = slot["global"]
             /\ Others(g[2], slot', modules, lost, o)
                  = Others(g[2], slot, modules, lost, o) - Is(p, o) + Is(v, o)
  <2>1. v \in Ref
    BY <1>4 DEF Ref
  <2> QED BY <1>2, <1>3, <1>4, <2>1, SlotOwners
<1>8. ASSUME NEW o \in Object
      PROVE  Slack(u, o) - Slack(World, o)
               = Others(handle', slot', modules', lost', o) - Others(handle, slot, modules, lost, o)
  <2>1. Others(handle', slot', modules', lost', o) = Others(g[2], slot', modules, lost, o)
    BY <1>2, <1>3
  <2>2. /\ Others(handle, slot, modules, lost, o) \in Int /\ Others(g[2], slot, modules, lost, o) \in Int
        /\ Is(v, o) \in Int /\ Is(p, o) \in Int /\ Slack(World, o) \in Int /\ Slack(g[1], o) \in Int
    BY <1>1, <1>4, Integral, OthersIntegral
  <2>3. /\ Slack(u, o) = Slack(g[1], o) - Is(p, o)
        /\ Slack(g[1], o) - Slack(World, o)
             = Others(g[2], slot, modules, lost, o) - Others(handle, slot, modules, lost, o) + Is(v, o)
    BY <1>4, <1>5
  <2> QED BY <1>7, <2>1, <2>2, <2>3
<1>9. Owning(handle', slot', modules', lost') /\ slot'["global"] = slot["global"]
  BY <1>2, <1>3, <1>7, HandleAssumption
<1> QED BY <1>3, <1>5, <1>6, <1>8, <1>9, StepTo

LEMMA StepAddModule ==
  ASSUME HandleInv, phase = "run", NEW h \in Handle, addModule(h) PROVE HandleInv'
<1>1. /\ World \in Worlds /\ Owning(handle, slot, modules, lost)
  BY OwnersBefore DEF Owning
<1>2. PICK g \in Givings(h) : handle' = g[2] /\ Becomes(g[1])
  BY DEF addModule
<1>3. /\ handle[h].v \in Object /\ g[1] \in Worlds /\ Dead(g[1]) = {}
      /\ Owning(g[2], slot, modules, lost)
      /\ \A o \in Object : Slack(g[1], o) - Slack(World, o)
           = Others(g[2], slot, modules, lost, o) - Others(handle, slot, modules, lost, o)
             + Is(handle[h].v, o)
  BY GivingEffect
<1>9. PICK v \in Object : v = handle[h].v
  BY <1>3
<1>10. PICK m : m = [value |-> v, given |-> FALSE, freed |-> FALSE]
  OBVIOUS
<1>0. v = handle[h].v /\ m = [value |-> v, given |-> FALSE, freed |-> FALSE]
  BY <1>9, <1>10
<1>4. /\ v \in Object /\ v = handle[h].v /\ m \in ModuleKind
      /\ m.value = v /\ m.given = FALSE
  BY <1>0 DEF ModuleKind
<1>5. /\ wrapper' = wrapper /\ slot' = slot /\ lost' = lost /\ phase' = phase
      /\ Added(modules, m, modules')
  BY <1>0, <1>4 DEF addModule, Added
<1>6. ASSUME NEW o \in Object
      PROVE  /\ Owning(g[2], slot, modules', lost)
             /\ Others(g[2], slot, modules', lost, o) = Others(g[2], slot, modules, lost, o) + Is(v, o)
  <2>1. /\ Owning(g[2], slot, modules', lost)
        /\ Others(g[2], slot, modules', lost, o) = Others(g[2], slot, modules, lost, o) + Is(m.value, o)
    BY <1>3, <1>4, <1>5, ModuleOwners
  <2> QED BY <1>4, <2>1
<1>7. ASSUME NEW o \in Object
      PROVE  Slack(g[1], o) - Slack(World, o)
               = Others(handle', slot', modules', lost', o) - Others(handle, slot, modules, lost, o)
  <2>1. Others(handle', slot', modules', lost', o) = Others(g[2], slot, modules', lost, o)
    BY <1>2, <1>5
  <2>2. /\ Others(handle, slot, modules, lost, o) \in Int /\ Others(g[2], slot, modules, lost, o) \in Int
        /\ Is(v, o) \in Int /\ Slack(World, o) \in Int /\ Slack(g[1], o) \in Int
    BY <1>1, <1>3, Integral, OthersIntegral
  <2>3. Slack(g[1], o) - Slack(World, o)
          = Others(g[2], slot, modules, lost, o) - Others(handle, slot, modules, lost, o) + Is(v, o)
    BY <1>3, <1>4
  <2> QED BY <1>6, <2>1, <2>2, <2>3
<1>8. Owning(handle', slot', modules', lost') /\ slot'["global"] = slot["global"]
  BY <1>2, <1>5, <1>6, HandleAssumption
<1> QED BY <1>2, <1>3, <1>5, <1>7, <1>8, StepTo

LEMMA StepSetProperty ==
  ASSUME HandleInv, phase = "run", NEW h \in Handle, NEW h1 \in Handle, setProperty(h, h1)
  PROVE  HandleInv'
<1>1. /\ World \in Worlds /\ World.rc = rc /\ Dead(World) = {} /\ rc \in [Object -> Nat]
      /\ Owning(handle, slot, modules, lost)
  BY OwnersBefore DEF Owning
<1>2. PICK q \in Object, v \in Object : q = handle[h].v /\ v = handle[h1].v /\ rc[q] > 0
  <2>1. handle[h].v # None /\ handle[h].owns /\ handle[h1] \in GoodValue /\ handle[h1].v # None
    BY <1>1 DEF setProperty, Usable, Alive, Owning, GoodValue
  <2>2. handle[h].v \in Object /\ rc[handle[h].v] > 0 /\ handle[h1].v \in Object
    BY <2>1, OwnersBefore, ValuesMade
  <2> QED BY <2>2
<1> DEFINE d == JS_DupValue(World, v)
           u == JS_SetPropertyStr(d, q, v)
<1>3. /\ Becomes(u) /\ wrapper' = wrapper /\ handle' = handle /\ slot' = slot
      /\ modules' = modules /\ lost' = lost /\ phase' = phase
  BY <1>2 DEF setProperty
<1>4. /\ d \in Worlds /\ Dead(d) = {} /\ d.rc[q] > 0
      /\ \A o \in Object : Slack(d, o) = Slack(World, o) + Is(v, o)
  <2>1. World.rc[v] >= 0
    BY <1>1
  <2>2. d \in Worlds /\ Dead(d) = {} /\ d.rc = [rc EXCEPT ![v] = @ + 1]
    BY <1>1, <2>1, DupValue
  <2>3. d.rc[q] > 0
    <3> HIDE DEF d
    <3> QED BY <1>1, <1>2, <2>2
  <2>4. \A o \in Object : Slack(d, o) = Slack(World, o) + Is(v, o)
    BY <1>1, DupValue
  <2> QED BY <2>2, <2>3, <2>4
<1> HIDE DEF d
<1>5. u \in Worlds /\ Dead(u) = {} /\ \A o \in Object : Slack(u, o) = Slack(d, o) - Is(v, o)
  BY <1>4, SetProperty
<1> HIDE DEF u
<1>6. ASSUME NEW o \in Object
      PROVE  Slack(u, o) - Slack(World, o)
               = Others(handle', slot', modules', lost', o) - Others(handle, slot, modules, lost, o)
  <2>1. Others(handle', slot', modules', lost', o) = Others(handle, slot, modules, lost, o)
    BY <1>3
  <2>2. /\ Others(handle, slot, modules, lost, o) \in Int /\ Is(v, o) \in Int /\ Slack(World, o) \in Int
    BY <1>1, Integral, OthersIntegral
  <2>3. Slack(u, o) = Slack(d, o) - Is(v, o) /\ Slack(d, o) = Slack(World, o) + Is(v, o)
    BY <1>4, <1>5
  <2> QED BY <2>1, <2>2, <2>3
<1>7. Owning(handle', slot', modules', lost') /\ slot'["global"] = slot["global"]
  BY <1>1, <1>3
<1> QED BY <1>3, <1>5, <1>6, <1>7, StepTo

-----------------------------------------------------------------------------
(* The steps that leave the modules their exports, and classes.            *)

LEMMA SameModules ==
  ASSUME HandleInv, phase = "run", modules' \in Seq(ModuleKind), DOMAIN modules' = DOMAIN modules,
         \A k \in DOMAIN modules, o \in Object : Keeps(modules'[k], o) <=> Keeps(modules[k], o),
         UNCHANGED <<wrapper, handle, rc, prop, slot, lost, phase>>
  PROVE  HandleInv'
<1>1. World \in Worlds /\ Dead(World) = {} /\ Owning(handle, slot, modules, lost)
  BY OwnersBefore DEF Owning
<1>2. Owning(handle', slot', modules', lost')
  BY <1>1 DEF Owning
<1>3. ASSUME NEW o \in Object
      PROVE  Slack(World, o) - Slack(World, o)
               = Others(handle', slot', modules', lost', o) - Others(handle, slot, modules, lost, o)
  <2>1. ModulesWith(modules', o) = ModulesWith(modules, o)
    BY DEF ModulesWith
  <2>2. HeldBy(handle', o) = HeldBy(handle, o) /\ SlotsWith(slot', o) = SlotsWith(slot, o) /\ lost'[o] = lost[o]
    OBVIOUS
  <2>3. Others(handle', slot', modules', lost', o) = Others(handle, slot, modules, lost, o)
    BY <2>1, <2>2 DEF Others
  <2>4. Slack(World, o) \in Int /\ Others(handle, slot, modules, lost, o) \in Int
    BY <1>1, Integral, OthersIntegral
  <2> QED BY <2>3, <2>4
<1>4. Becomes(World)
  BY DEF Becomes, World
<1> QED BY <1>1, <1>2, <1>3, <1>4, StepTo

LEMMA StepEval ==
  ASSUME HandleInv, phase = "run", NEW k \in DOMAIN modules, eval(k) PROVE HandleInv'
<1>1. modules \in Seq(ModuleKind)
  BY OwnersBefore
<1>2. /\ ~modules[k].given /\ ~modules[k].freed /\ Becomes(World)
      /\ modules' = [modules EXCEPT ![k].given = TRUE]
      /\ UNCHANGED <<wrapper, handle, slot, lost, phase>>
  BY DEF eval, Uninitialised
<1>3. UNCHANGED <<wrapper, handle, rc, prop, slot, lost, phase>>
  BY <1>2 DEF Becomes, World
<1>4. DOMAIN modules' = DOMAIN modules /\ modules' \in Seq(ModuleKind)
  <2>1. modules[k] \in ModuleKind
    BY <1>1
  <2>2. [modules[k] EXCEPT !.given = TRUE] \in ModuleKind
    BY <2>1 DEF ModuleKind
  <2> QED BY <1>1, <1>2, <2>2
<1>5. ASSUME NEW j \in DOMAIN modules, NEW o \in Object
      PROVE  Keeps(modules'[j], o) <=> Keeps(modules[j], o)
  <2>1. CASE j = k
    <3>1. modules[k] \in ModuleKind
      BY <1>1
    <3>2. modules'[k] = [modules[k] EXCEPT !.given = TRUE]
      BY <1>1, <1>2
    <3>3. modules'[k].value = modules[k].value /\ modules'[k].freed = modules[k].freed
      BY <3>1, <3>2 DEF ModuleKind
    <3> QED BY <1>2, <2>1, <3>3 DEF Keeps
  <2>2. CASE j # k
    <3>1. modules'[j] = modules[j]
      BY <1>1, <1>2, <2>2
    <3> QED BY <3>1
  <2> QED BY <2>1, <2>2
<1> QED BY <1>3, <1>4, <1>5, SameModules

LEMMA StepEvalFails ==
  ASSUME HandleInv, phase = "run", eval_fails PROVE HandleInv'
<1>1. modules \in Seq(ModuleKind) /\ DOMAIN modules = 1 .. Len(modules) /\ Len(modules) \in Nat
  <2>1. modules \in Seq(ModuleKind)
    BY OwnersBefore
  <2> QED BY <2>1
<1>2. UNCHANGED <<wrapper, handle, rc, prop, slot, lost, phase>>
  BY DEF eval_fails
<1>3. /\ DOMAIN modules' = DOMAIN modules
      /\ \A k \in DOMAIN modules : modules'[k] = [modules[k] EXCEPT !.freed = @ \/ ~modules[k].given]
  BY DEF eval_fails
<1>4. ASSUME NEW k \in DOMAIN modules
      PROVE  /\ modules'[k] \in ModuleKind
             /\ \A o \in Object : Keeps(modules'[k], o) <=> Keeps(modules[k], o)
  <2>1. modules[k] \in ModuleKind
    BY <1>1
  <2>2. PICK v \in Object, given \in BOOLEAN, freed \in BOOLEAN :
          modules[k] = [value |-> v, given |-> given, freed |-> freed]
    BY <2>1 DEF ModuleKind
  <2>3. PICK f : f = (freed \/ ~given)
    OBVIOUS
  <2>4. modules'[k] = [value |-> v, given |-> given, freed |-> f]
    BY <1>3, <2>2, <2>3
  <2>5. f \in BOOLEAN
    BY <2>3
  <2>6. modules'[k] \in ModuleKind
    BY <2>4, <2>5 DEF ModuleKind
  <2>7. /\ modules'[k].value = modules[k].value /\ modules'[k].given = given /\ modules'[k].freed = f
        /\ modules[k].given = given /\ modules[k].freed = freed
    BY <2>2, <2>4
  <2>8. \A o \in Object : Keeps(modules'[k], o) <=> Keeps(modules[k], o)
    BY <2>3, <2>7 DEF Keeps
  <2> QED BY <2>6, <2>8
<1>5. modules' \in Seq(ModuleKind)
  <2>1. \A k \in 1 .. Len(modules) : modules'[k] \in ModuleKind
    BY <1>1, <1>4
  <2>2. modules' = [k \in 1 .. Len(modules) |-> modules'[k]]
    BY <1>1 DEF eval_fails
  <2> QED BY <1>1, <2>1, <2>2
<1> QED BY <1>2, <1>3, <1>4, <1>5, SameModules

LEMMA PropertyChanged ==
  ASSUME NEW f \in [Object -> Ref], NEW i \in Object, NEW v \in Ref, NEW f1, Changed(f, i, v, f1),
         NEW o \in Object
  PROVE  Cardinality(Props(f1, o)) = Cardinality(Props(f, o)) - Is(f[i], o) + Is(v, o)
BY PropsStep DEF Changed

(* A class: the constructor has three references, a Value, the context and *)
(* the prototype's property, and the prototype two.                        *)
LEMMA StepClass ==
  ASSUME HandleInv, phase = "run", NEW h \in Handle, NEW h1 \in Handle, JSBClass(h, h1)
  PROVE  HandleInv'
<1>1. /\ World \in Worlds /\ World.rc = rc /\ World.prop = prop /\ Dead(World) = {}
      /\ rc \in [Object -> Nat] /\ prop \in [Object -> Ref]
      /\ Owning(handle, slot, modules, lost) /\ slot["proto"] \in Ref
      /\ handle \in [Handle -> GoodValue]
  BY OwnersBefore DEF Owning, Slot
<1>2. PICK c \in Object, p \in Object :
        /\ Free(h) /\ Free(h1) /\ h # h1 /\ Fresh(c) /\ Fresh(p) /\ c # p
        /\ handle' = [handle EXCEPT ![h] = Value(c), ![h1] = Value(p)]
        /\ Becomes(JS_FreeValue([rc   |-> [rc EXCEPT ![c] = 3, ![p] = 2],
                                 prop |-> [prop EXCEPT ![c] = p, ![p] = c]], slot["proto"]))
        /\ slot' = [slot EXCEPT !["proto"] = c]
        /\ UNCHANGED <<wrapper, modules, lost, phase>>
  BY DEF JSBClass
<1>3. PICK r, q0, q, w, old :
        /\ r = [rc EXCEPT ![c] = 3, ![p] = 2] /\ q0 = [prop EXCEPT ![c] = p] /\ q = [q0 EXCEPT ![p] = c]
        /\ w = [rc |-> r, prop |-> q] /\ old = slot["proto"]
  OBVIOUS
<1>4. rc[c] = 0 /\ rc[p] = 0 /\ prop[c] = None /\ prop[p] = None
  BY <1>1, <1>2 DEF Fresh, Dead
<1>5. c # None /\ p # None /\ c \in Ref /\ p \in Ref
  BY HandleAssumption DEF Ref
<1>6. /\ q0 \in [Object -> Ref] /\ q0[p] = None
      /\ q \in [Object -> Ref] /\ r \in [Object -> Int] /\ w \in Worlds /\ w.rc = r /\ w.prop = q
      /\ [prop EXCEPT ![c] = p, ![p] = c] = q /\ old \in Ref
      /\ Changed(prop, c, p, q0) /\ Changed(q0, p, c, q)
  BY <1>1, <1>2, <1>3, <1>4, <1>5 DEF Worlds, Changed
<1>7. Dead(w) = {}
  <2> SUFFICES ASSUME NEW o \in Object, r[o] = 0, q[o] # None PROVE FALSE
    BY <1>6 DEF Dead
  <2>1. o # c /\ o # p
    BY <1>1, <1>2, <1>3
  <2>2. rc[o] = 0 /\ prop[o] # None
    BY <1>1, <1>2, <1>3, <2>1
  <2> QED BY <1>1, <2>2 DEF Dead
<1>8. ASSUME NEW o \in Object
      PROVE  Slack(w, o) = Slack(World, o) + 2 * Is(c, o) + Is(p, o)
  <2>1. Cardinality(Props(q0, o)) = Cardinality(Props(prop, o)) - Is(prop[c], o) + Is(p, o)
    BY <1>1, <1>5, <1>6, PropertyChanged
  <2>2. Cardinality(Props(q, o)) = Cardinality(Props(q0, o)) - Is(q0[p], o) + Is(c, o)
    BY <1>5, <1>6, PropertyChanged
  <2>3. Is(prop[c], o) = 0 /\ Is(q0[p], o) = 0
    BY <1>4, <1>6, HandleAssumption DEF Is
  <2>4. r[o] = rc[o] + 3 * Is(c, o) + 2 * Is(p, o)
    BY <1>1, <1>2, <1>3, <1>4 DEF Is
  <2>5. /\ Cardinality(Props(prop, o)) \in Nat /\ rc[o] \in Nat
        /\ Is(c, o) \in Int /\ Is(p, o) \in Int
    BY <1>1, PropsFinite, Integral
  <2>6. /\ Slack(w, o) = r[o] - Cardinality(Props(q, o))
        /\ Slack(World, o) = rc[o] - Cardinality(Props(prop, o))
    BY <1>1, <1>6 DEF Slack
  <2> QED BY <2>1, <2>2, <2>3, <2>4, <2>5, <2>6
<1> DEFINE u == JS_FreeValue(w, old)
<1>9. u \in Worlds /\ Dead(u) = {} /\ \A o \in Object : Slack(u, o) = Slack(w, o) - Is(old, o)
  BY <1>6, <1>7, FreeValue
<1>10. Becomes(u)
  BY <1>2, <1>3, <1>6
<1> HIDE DEF u
<1>11. PICK x \in GoodValue, y \in GoodValue :
         /\ x = Value(c) /\ y = Value(p)
         /\ \A o \in Object : Has(x, o) = Is(c, o) /\ Has(y, o) = Is(p, o)
  BY ValuesMade
<1>12. PICK hd1, hd2 : Changed(handle, h, x, hd1) /\ Changed(hd1, h1, y, hd2)
  BY DEF Changed
<1>13. hd2 = handle' /\ hd1[h1] = Gone /\ handle[h] = Gone /\ Changed(slot, "proto", c, slot')
  BY <1>1, <1>2, <1>11, <1>12 DEF Changed, Free
<1>14. wrapper' = wrapper /\ modules' = modules /\ lost' = lost /\ phase' = phase
  BY <1>2
<1>15. ASSUME NEW o \in Object
       PROVE  /\ Owning(hd2, slot', modules, lost) /\ slot'["global"] = slot["global"]
              /\ Others(hd2, slot', modules, lost, o)
                   = Others(handle, slot, modules, lost, o) + Is(c, o) + Is(p, o) - Is(old, o) + Is(c, o)
  <2>1. /\ Owning(hd1, slot, modules, lost)
        /\ Others(hd1, slot, modules, lost, o)
             = Others(handle, slot, modules, lost, o) - Has(handle[h], o) + Has(x, o)
    BY <1>1, <1>12, HandleOwners
  <2>2. /\ Owning(hd2, slot, modules, lost)
        /\ Others(hd2, slot, modules, lost, o)
             = Others(hd1, slot, modules, lost, o) - Has(hd1[h1], o) + Has(y, o)
    BY <1>12, <2>1, HandleOwners
  <2>3. /\ Owning(hd2, slot', modules, lost) /\ slot'["global"] = slot["global"]
        /\ Others(hd2, slot', modules, lost, o)
             = Others(hd2, slot, modules, lost, o) - Is(slot["proto"], o) + Is(c, o)
    BY <1>5, <1>13, <2>2, SlotOwners
  <2>4. /\ Has(handle[h], o) = 0 /\ Has(hd1[h1], o) = 0 /\ Has(x, o) = Is(c, o) /\ Has(y, o) = Is(p, o)
        /\ Is(slot["proto"], o) = Is(old, o)
    BY <1>3, <1>11, <1>13, ValuesMade
  <2>5. /\ Others(handle, slot, modules, lost, o) \in Int
        /\ Is(c, o) \in Int /\ Is(p, o) \in Int /\ Is(old, o) \in Int
    BY <1>1, Integral, OthersIntegral
  <2> QED BY <2>1, <2>2, <2>3, <2>4, <2>5
<1>16. ASSUME NEW o \in Object
       PROVE  Slack(u, o) - Slack(World, o)
                = Others(handle', slot', modules', lost', o) - Others(handle, slot, modules, lost, o)
  <2>1. Others(handle', slot', modules', lost', o) = Others(hd2, slot', modules, lost, o)
    BY <1>13, <1>14
  <2>2. /\ Others(handle, slot, modules, lost, o) \in Int /\ Slack(World, o) \in Int
        /\ Is(c, o) \in Int /\ Is(p, o) \in Int /\ Is(old, o) \in Int
    BY <1>1, Integral, OthersIntegral
  <2>3. Slack(u, o) = Slack(World, o) + 2 * Is(c, o) + Is(p, o) - Is(old, o)
    BY <1>8, <1>9, <2>2
  <2>4. Others(hd2, slot', modules, lost, o)
          = Others(handle, slot, modules, lost, o) + 2 * Is(c, o) + Is(p, o) - Is(old, o)
    BY <1>15, <2>2
  <2> QED BY <2>1, <2>2, <2>3, <2>4
<1>17. Owning(handle', slot', modules', lost') /\ slot'["global"] = slot["global"]
  BY <1>13, <1>14, <1>15, HandleAssumption
<1> QED BY <1>9, <1>10, <1>14, <1>16, <1>17, StepTo

-----------------------------------------------------------------------------
(* The end.                                                                *)

LEMMA OfTwo ==
  ASSUME NEW x, NEW y, x # y, NEW A \in SUBSET {x, y}
  PROVE  Cardinality(A) = In(x, A) + In(y, A)
<1>1. IsFiniteSet({}) /\ Cardinality({}) = 0
  BY FS_EmptySet
<1>2. A = {} \/ A = {x} \/ A = {y} \/ A = {x, y}
  OBVIOUS
<1>3. /\ IsFiniteSet({x}) /\ Cardinality({x}) = 1 /\ IsFiniteSet({y}) /\ Cardinality({y}) = 1
  BY FS_Singleton
<1>4. Cardinality({x} \cup {y}) = 2
  <2>1. y \notin {x}
    OBVIOUS
  <2> QED BY <1>3, <2>1, FS_AddElement
<1>5. {x} \cup {y} = {x, y}
  OBVIOUS
<1>6. Cardinality({x, y}) = 2
  BY <1>4, <1>5
<1>7. CASE A = {}
  BY <1>1, <1>7 DEF In
<1>8. CASE A = {x}
  BY <1>3, <1>8 DEF In
<1>9. CASE A = {y}
  BY <1>3, <1>9 DEF In
<1>10. CASE A = {x, y}
  BY <1>6, <1>10 DEF In
<1> QED BY <1>2, <1>7, <1>8, <1>9, <1>10

LEMMA SlotCount ==
  ASSUME NEW o \in Object
  PROVE  /\ Len(FreedSlots) = 2
         /\ Cardinality({i \in 1 .. Len(FreedSlots) : FreedSlots[i] = o}) = Cardinality(SlotsWith(slot, o))
<1>1. Len(FreedSlots) = 2 /\ FreedSlots[1] = slot["global"] /\ FreedSlots[2] = slot["proto"]
  BY DEF FreedSlots
<1> DEFINE A == {i \in 1 .. Len(FreedSlots) : FreedSlots[i] = o}
           B == SlotsWith(slot, o)
<1>2. A \in SUBSET {1, 2} /\ B \in SUBSET {"global", "proto"}
  BY <1>1 DEF SlotsWith, Slot
<1>3. In(1, A) = In("global", B) /\ In(2, A) = In("proto", B)
  BY <1>1 DEF In, SlotsWith, Slot
<1> HIDE DEF A, B
<1>4. Cardinality(A) = In(1, A) + In(2, A)
  BY <1>2, OfTwo
<1>5. Cardinality(B) = In("global", B) + In("proto", B)
  <2>1. "global" # "proto"
    OBVIOUS
  <2> QED BY <1>2, <2>1, OfTwo
<1>6. Cardinality(A) = Cardinality(B)
  BY <1>3, <1>4, <1>5
<1> QED BY <1>1, <1>6 DEF A, B

LEMMA StepFreeContext ==
  ASSUME HandleInv, JS_FreeContext PROVE HandleInv'
<1>1. /\ World \in Worlds /\ Dead(World) = {} /\ Owning(handle, slot, modules, lost)
      /\ slot \in [Slot -> Ref] /\ modules \in Seq(ModuleKind)
      /\ \A o \in Object : Slack(World, o) = Others(handle, slot, modules, lost, o)
  BY OwnersBefore DEF Owning
<1>2. DOMAIN modules = 1 .. Len(modules) /\ Len(modules) \in Nat
      /\ \A k \in 1 .. Len(modules) : modules[k] \in ModuleKind
  BY <1>1
<1>3. PICK vals : vals = [k \in DOMAIN modules |->
                            IF modules[k].given /\ ~modules[k].freed THEN modules[k].value ELSE None]
  OBVIOUS
<1>4. vals \in Seq(Ref) /\ Len(vals) = Len(modules)
      /\ \A k \in 1 .. Len(modules) :
           vals[k] = IF modules[k].given /\ ~modules[k].freed THEN modules[k].value ELSE None
  <2>1. \A k \in 1 .. Len(modules) :
          (IF modules[k].given /\ ~modules[k].freed THEN modules[k].value ELSE None) \in Ref
    BY <1>2 DEF ModuleKind, Ref
  <2> QED BY <1>2, <1>3, <2>1
<1>5. FreedSlots \in Seq(Ref)
  BY <1>1 DEF FreedSlots, Slot
<1> DEFINE d == FreeAll(World, vals)
           u == FreeAll(d, FreedSlots)
           Given(o) == {i \in 1 .. Len(vals) : vals[i] = o}
           Kept(o) == ModulesWith(modules', o)
<1>6. /\ phase = "run" /\ \A h \in Handle : handle[h] = Gone
      /\ Becomes(u)
      /\ modules' = [k \in DOMAIN modules |-> [modules[k] EXCEPT !.freed = TRUE]]
      /\ slot' = [s \in Slot |-> None] /\ phase' = "context"
      /\ wrapper' = wrapper /\ handle' = handle /\ lost' = lost
  BY <1>3 DEF JS_FreeContext, Free
<1>7. /\ d \in Worlds /\ Dead(d) = {}
      /\ \A o \in Object : Slack(d, o) = Slack(World, o) - Cardinality(Given(o))
  BY <1>1, <1>4, FreeAllValues
<1> HIDE DEF d
<1>8. /\ u \in Worlds /\ Dead(u) = {}
      /\ \A o \in Object : Slack(u, o) = Slack(d, o) - Cardinality(SlotsWith(slot, o))
  BY <1>5, <1>7, FreeAllValues, SlotCount
<1> HIDE DEF u
<1>9. ASSUME NEW k \in 1 .. Len(modules)
      PROVE  /\ modules'[k] \in ModuleKind /\ modules'[k].freed
             /\ modules'[k].value = modules[k].value /\ (modules'[k].given <=> modules[k].given)
  <2>1. PICK v \in Object, given \in BOOLEAN, freed \in BOOLEAN :
          modules[k] = [value |-> v, given |-> given, freed |-> freed]
    BY <1>2 DEF ModuleKind
  <2>3. PICK f \in BOOLEAN : f = TRUE
    OBVIOUS
  <2>2. modules'[k] = [modules[k] EXCEPT !.freed = f]
    BY <1>2, <1>6, <2>3
  <2>4. modules'[k] = [value |-> v, given |-> given, freed |-> f]
    BY <2>1, <2>2
  <2>5. /\ modules'[k].value = v /\ modules'[k].given = given /\ modules'[k].freed = f
        /\ modules[k].value = v /\ modules[k].given = given
    BY <2>1, <2>4
  <2>6. modules'[k] \in ModuleKind
    BY <2>4 DEF ModuleKind
  <2> QED BY <2>3, <2>5, <2>6
<1>10. modules' \in Seq(ModuleKind) /\ DOMAIN modules' = 1 .. Len(modules)
  <2>1. modules' = [k \in 1 .. Len(modules) |-> modules'[k]]
    BY <1>2, <1>6
  <2> QED BY <1>2, <1>9, <2>1
<1>11. Owning(handle', slot', modules', lost')
  BY <1>1, <1>6, <1>10 DEF Owning, Ref
<1>12. ASSUME NEW o \in Object
       PROVE  Cardinality(ModulesWith(modules, o)) = Cardinality(Given(o)) + Cardinality(Kept(o))
  <2>1. None # o
    BY HandleAssumption
  <2>2. ASSUME NEW k \in 1 .. Len(modules)
        PROVE  /\ k \in ModulesWith(modules, o) <=> (k \in Given(o) \/ k \in Kept(o))
               /\ ~(k \in Given(o) /\ k \in Kept(o))
    BY <1>2, <1>4, <1>9, <1>10, <2>1 DEF ModulesWith, Keeps
  <2>3. /\ ModulesWith(modules, o) \subseteq 1 .. Len(modules) /\ Given(o) \subseteq 1 .. Len(modules)
        /\ Kept(o) \subseteq 1 .. Len(modules)
    BY <1>2, <1>4, <1>10 DEF ModulesWith
  <2> HIDE DEF Given, Kept
  <2>4. ModulesWith(modules, o) = Given(o) \cup Kept(o) /\ Given(o) \cap Kept(o) = {}
    BY <2>2, <2>3
  <2>5. IsFiniteSet(1 .. Len(modules))
    BY <1>2, FS_Interval
  <2>6. IsFiniteSet(Given(o)) /\ IsFiniteSet(Kept(o))
    BY <2>3, <2>5, FS_Subset
  <2>7. Cardinality(Given(o)) \in Nat /\ Cardinality(Kept(o)) \in Nat
    BY <2>6, FS_CardinalityType
  <2>8. Cardinality(Given(o) \cup Kept(o))
          = Cardinality(Given(o)) + Cardinality(Kept(o)) - Cardinality(Given(o) \cap Kept(o))
    BY <2>6, FS_Union
  <2>9. Cardinality(Given(o) \cap Kept(o)) = 0
    BY <2>4, FS_EmptySet
  <2> QED BY <2>4, <2>7, <2>8, <2>9
<1>13. ASSUME NEW o \in Object PROVE Slack(u, o) = Others(handle', slot', modules', lost', o)
  <2>1. HeldBy(handle, o) = {} /\ HeldBy(handle', o) = {} /\ SlotsWith(slot', o) = {}
    <3>1. None # o
      BY HandleAssumption
    <3> QED BY <1>6, <3>1 DEF HeldBy, Gone, SlotsWith
  <2>2. /\ Cardinality(HeldBy(handle, o)) = 0 /\ Cardinality(HeldBy(handle', o)) = 0
        /\ Cardinality(SlotsWith(slot', o)) = 0
    BY <2>1, FS_EmptySet
  <2>3. Others(handle', slot', modules', lost', o) = Cardinality(Kept(o)) + lost[o]
    <3>1. Cardinality(Kept(o)) \in Nat /\ lost[o] \in Nat
      BY <1>6, <1>11, OthersIntegral
    <3>2. lost'[o] = lost[o]
      BY <1>6
    <3> QED BY <2>2, <3>1, <3>2 DEF Others
  <2>4. Slack(World, o) = Cardinality(SlotsWith(slot, o)) + Cardinality(ModulesWith(modules, o)) + lost[o]
    <3>1. /\ Cardinality(SlotsWith(slot, o)) \in Nat /\ Cardinality(ModulesWith(modules, o)) \in Nat
          /\ lost[o] \in Nat
      BY <1>1, OthersIntegral
    <3> QED BY <1>1, <2>2, <3>1 DEF Others
  <2>5. /\ Slack(d, o) = Slack(World, o) - Cardinality(Given(o))
        /\ Slack(u, o) = Slack(d, o) - Cardinality(SlotsWith(slot, o))
    BY <1>7, <1>8
  <2>6. /\ Cardinality(SlotsWith(slot, o)) \in Nat /\ Cardinality(Kept(o)) \in Nat /\ lost[o] \in Nat
        /\ Cardinality(Given(o)) \in Nat
    <3>1. /\ Cardinality(SlotsWith(slot, o)) \in Nat /\ Cardinality(Kept(o)) \in Nat /\ lost[o] \in Nat
      BY <1>1, <1>11, OthersIntegral
    <3>2. IsFiniteSet(1 .. Len(vals)) /\ Given(o) \subseteq 1 .. Len(vals)
      BY <1>2, <1>4, FS_Interval
    <3> HIDE DEF Given
    <3>3. IsFiniteSet(Given(o))
      BY <3>2, FS_Subset
    <3> QED BY <3>1, <3>3, FS_CardinalityType
  <2> HIDE DEF Given, Kept
  <2> QED BY <1>12, <2>3, <2>4, <2>5, <2>6
<1>14. World' = u
  BY <1>6, <1>8, BecomesWorld
<1>15. Fitting(World', handle', slot', modules', lost')
  BY <1>8, <1>11, <1>14 DEF Fitting, Owning
<1>16. Matched(World', handle', slot', modules', lost')
  BY <1>13, <1>14 DEF Matched
<1>17. Ended'
  BY <1>6, <1>9, <1>10 DEF Ended
<1>18. wrapper' \in {"qjs", "jsb"}
  BY <1>6 DEF HandleInv
<1> QED BY <1>6, <1>8, <1>14, <1>15, <1>16, <1>17, <1>18 DEF HandleInv, OnlyLostLeft

LEMMA StepFreeRuntime ==
  ASSUME HandleInv, JS_FreeRuntime PROVE HandleInv'
<1>1. /\ World \in Worlds /\ Owning(handle, slot, modules, lost)
      /\ modules \in Seq(ModuleKind)
      /\ \A o \in Object : Slack(World, o) \in Nat /\ Slack(World, o) = Others(handle, slot, modules, lost, o)
  BY OwnersBefore DEF Owning
<1>2. /\ phase = "context" /\ Becomes(JS_RunGC) /\ phase' = "runtime"
      /\ wrapper' = wrapper /\ handle' = handle /\ slot' = slot /\ modules' = modules /\ lost' = lost
  BY DEF JS_FreeRuntime
<1>3. Ended
  BY <1>2 DEF HandleInv
<1> DEFINE held == {o \in Object : Slack(World, o) > 0}
           unfreed == {o \in Object : lost[o] > 0} \cup
                      {modules[k].value : k \in {j \in DOMAIN modules : ~modules[j].given}}
           left == {o \in Object : JS_RunGC.rc[o] > 0}
<1>4. /\ JS_RunGC \in Worlds /\ Dead(JS_RunGC) = {} /\ left = Reached(JS_RunGC.prop, held)
      /\ \A o \in Object : Slack(JS_RunGC, o) = Slack(World, o)
  <2>1. \A o \in Object : Slack(World, o) >= 0
    BY <1>1
  <2> QED BY <1>1, <2>1, RunGC
<1>5. \A k \in DOMAIN modules : modules[k].value \in Object
  <2>1. \A k \in DOMAIN modules : modules[k] \in ModuleKind
    BY <1>1
  <2> QED BY <2>1 DEF ModuleKind
<1>6. ASSUME NEW o \in Object PROVE o \in held <=> o \in unfreed
  <2>1. HeldBy(handle, o) = {} /\ SlotsWith(slot, o) = {}
    <3>1. None # o
      BY HandleAssumption
    <3> QED BY <1>3, <3>1 DEF HeldBy, Gone, SlotsWith, Ended
  <2>2. Cardinality(HeldBy(handle, o)) = 0 /\ Cardinality(SlotsWith(slot, o)) = 0
    BY <2>1, FS_EmptySet
  <2>3. Slack(World, o) = Cardinality(ModulesWith(modules, o)) + lost[o]
        /\ Cardinality(ModulesWith(modules, o)) \in Nat /\ lost[o] \in Nat
    <3>1. Cardinality(ModulesWith(modules, o)) \in Nat /\ lost[o] \in Nat
      BY <1>1, OthersIntegral
    <3> QED BY <1>1, <2>2, <3>1 DEF Others
  <2>4. Cardinality(ModulesWith(modules, o)) > 0 <=> ModulesWith(modules, o) # {}
    <3>1. IsFiniteSet(ModulesWith(modules, o))
      BY <1>1, OthersFinite
    <3> QED BY <2>3, <3>1, FS_EmptySet
  <2>5. ModulesWith(modules, o) # {}
          <=> o \in {modules[k].value : k \in {j \in DOMAIN modules : ~modules[j].given}}
    BY <1>3 DEF ModulesWith, Keeps, Ended
  <2> QED BY <2>3, <2>4, <2>5
<1>7. held = unfreed
  <2>1. held \subseteq Object /\ unfreed \subseteq Object
    BY <1>5
  <2> HIDE DEF held, unfreed
  <2> QED BY <1>6, <2>1
<1>8. World' = JS_RunGC /\ rc' = JS_RunGC.rc /\ prop' = JS_RunGC.prop
  BY <1>2, <1>4, BecomesWorld DEF Becomes
<1>9. OnlyLostLeft'
  <2>1. {o \in Object : rc'[o] > 0} = left
    BY <1>8
  <2>2. Reached(prop', {o \in Object : lost'[o] > 0} \cup
                       {modules'[k].value : k \in {j \in DOMAIN modules' : ~modules'[j].given}})
          = Reached(JS_RunGC.prop, held)
    <3>1. {o \in Object : lost'[o] > 0} \cup
          {modules'[k].value : k \in {j \in DOMAIN modules' : ~modules'[j].given}} = held
      BY <1>2, <1>7
    <3> QED BY <1>8, <3>1
  <2> HIDE DEF left, held
  <2> QED BY <1>4, <2>1, <2>2 DEF OnlyLostLeft
<1>10. Fitting(World', handle', slot', modules', lost')
  BY <1>1, <1>2, <1>4, <1>8 DEF Fitting, Owning
<1>11. Matched(World', handle', slot', modules', lost')
  <2> SUFFICES ASSUME NEW o \in Object PROVE Slack(World', o) = Others(handle', slot', modules', lost', o)
    BY DEF Matched
  <2>1. Others(handle', slot', modules', lost', o) = Others(handle, slot, modules, lost, o)
    BY <1>2
  <2> QED BY <1>1, <1>4, <1>8, <2>1
<1>12. Ended'
  BY <1>2, <1>3 DEF Ended
<1>13. wrapper' \in {"qjs", "jsb"}
  BY <1>2 DEF HandleInv
<1> QED BY <1>2, <1>4, <1>8, <1>9, <1>10, <1>11, <1>12, <1>13 DEF HandleInv

-----------------------------------------------------------------------------
(* The theorems.                                                           *)

LEMMA HandleInit == ASSUME Init PROVE HandleInv
<1>1. World \in Worlds /\ World.rc = rc /\ World.prop = prop
  BY HandleAssumption DEF Init, World, Worlds, Ref
<1>2. Fitting(World, handle, slot, modules, lost)
  BY <1>1, HandleAssumption, ValuesMade DEF Init, Fitting, Ref, Slot
<1>3. Dead(World) = {}
  BY <1>1 DEF Init, Dead
<1>4. ASSUME NEW o \in Object PROVE Slack(World, o) = Others(handle, slot, modules, lost, o)
  <2>1. None # o /\ None # global
    BY HandleAssumption
  <2>2. Props(prop, o) = {} /\ HeldBy(handle, o) = {} /\ ModulesWith(modules, o) = {}
    BY <2>1 DEF Init, Props, HeldBy, ModulesWith, Gone
  <2>3. SlotsWith(slot, o) = IF o = global THEN {"global"} ELSE {}
    BY <2>1 DEF Init, SlotsWith, Slot
  <2>4. Cardinality({}) = 0 /\ Cardinality({"global"}) = 1
    BY FS_EmptySet, FS_Singleton
  <2>5. Cardinality(SlotsWith(slot, o)) = rc[o] /\ rc[o] \in Nat /\ lost[o] = 0
    BY <2>3, <2>4 DEF Init
  <2>6. Slack(World, o) = rc[o]
    BY <1>1, <2>2, <2>4, <2>5 DEF Slack
  <2>7. Others(handle, slot, modules, lost, o) = rc[o]
    BY <2>2, <2>4, <2>5 DEF Others
  <2> QED BY <2>6, <2>7
<1>5. Matched(World, handle, slot, modules, lost)
  BY <1>4 DEF Matched
<1>6. /\ wrapper \in {"qjs", "jsb"} /\ phase = "run" /\ slot["global"] = global
  BY DEF Init, Slot
<1> QED BY <1>2, <1>3, <1>5, <1>6 DEF HandleInv, OnlyLostLeft

LEMMA HandleNext == ASSUME HandleInv, [Next]_vars PROVE HandleInv'
<1>1. ASSUME phase = "run", NEW h \in Handle, Use(h) PROVE HandleInv'
  <2>1. CASE newObject(h)
    BY <1>1, <2>1, StepNewObject
  <2>2. CASE global_(h)
    BY <1>1, <2>2, StepGlobal
  <2>3. CASE destroy(h)
    BY <1>1, <2>3, StepDestroy
  <2>4. CASE registerClass(h)
    BY <1>1, <2>4, StepRegisterClass
  <2>5. CASE addModule(h)
    BY <1>1, <2>5, StepAddModule
  <2>6. ASSUME NEW h1 \in Handle, copy(h, h1) PROVE HandleInv'
    BY <1>1, <2>6, StepCopy
  <2>7. ASSUME NEW h1 \in Handle, move(h, h1) PROVE HandleInv'
    BY <1>1, <2>7, StepMove
  <2>8. ASSUME NEW h1 \in Handle, getProperty(h, h1) PROVE HandleInv'
    BY <1>1, <2>8, StepGetProperty
  <2>9. ASSUME NEW h1 \in Handle, assign_property(h, h1) PROVE HandleInv'
    BY <1>1, <2>9, StepAssignProperty
  <2>10. ASSUME NEW h1 \in Handle, assign(h, h1) PROVE HandleInv'
    BY <1>1, <2>10, StepAssign
  <2>11. ASSUME NEW h1 \in Handle, setProperty(h, h1) PROVE HandleInv'
    BY <1>1, <2>11, StepSetProperty
  <2>12. ASSUME NEW h1 \in Handle, JSBClass(h, h1) PROVE HandleInv'
    BY <1>1, <2>12, StepClass
  <2> QED BY <1>1, <2>1, <2>2, <2>3, <2>4, <2>5, <2>6, <2>7, <2>8, <2>9, <2>10, <2>11, <2>12 DEF Use
<1>2. ASSUME phase = "run", NEW k \in DOMAIN modules, eval(k) PROVE HandleInv'
  BY <1>2, StepEval
<1>3. CASE phase = "run" /\ eval_fails
  BY <1>3, StepEvalFails
<1>4. CASE JS_FreeContext
  BY <1>4, StepFreeContext
<1>5. CASE JS_FreeRuntime
  BY <1>5, StepFreeRuntime
<1>6. CASE UNCHANGED vars
  <2>1. World' = World
    BY <1>6 DEF vars, World
  <2> QED BY <1>6, <2>1 DEF vars, HandleInv, Ended, OnlyLostLeft
<1> QED BY <1>1, <1>2, <1>3, <1>4, <1>5, <1>6 DEF Next

(* The counts of the engine are what the owners make of them, in every     *)
(* state of the program and of its end.                                    *)
THEOREM HandleInvariant == Spec => []HandleInv
<1>1. Init => HandleInv
  BY HandleInit
<1>2. HandleInv /\ [Next]_vars => HandleInv'
  BY HandleNext
<1> QED BY <1>1, <1>2, PTL DEF Spec

(* The Values, the counts, the properties, the slots of the context and    *)
(* the modules of quickjspp.hpp and easyBinding.hpp keep their types; no   *)
(* count goes below zero.                                                  *)
THEOREM HandleTypes == Spec => []TypeOK
<1>1. ASSUME HandleInv PROVE TypeOK
  <2>1. /\ rc \in [Object -> Nat] /\ prop \in [Object -> Ref]
        /\ handle \in [Handle -> GoodValue] /\ slot \in [Slot -> Ref]
        /\ modules \in Seq(ModuleKind) /\ lost \in [Object -> Nat]
    BY <1>1, OwnersBefore
  <2>2. wrapper \in {"qjs", "jsb"} /\ phase \in {"run", "context", "runtime"}
    BY <1>1 DEF HandleInv
  <2>3. handle \in [Handle -> Kind]
    BY <2>1 DEF GoodValue
  <2> QED BY <2>1, <2>2, <2>3 DEF TypeOK, Kind, ModuleKind, Ref
<1>2. HandleInv => TypeOK
  BY <1>1
<1> QED BY <1>2, HandleInvariant, PTL

(* Whatever the program copies, moves, assigns and gives away, and however *)
(* its evaluations fail, each reference has one owner, so that nothing is  *)
(* freed that a Value, a property, the context or a module still has; and  *)
(* the objects that are left when the runtime is freed are those reached   *)
(* from the exports of modules that were never initialised and from copies *)
(* of Values that had no context.                                          *)
THEOREM HandlesOwnedOrLost == Spec => []OwnedOrLost
<1>1. ASSUME HandleInv PROVE OwnedOrLost
  <2>1. /\ Fitting(World, handle, slot, modules, lost) /\ Matched(World, handle, slot, modules, lost)
        /\ World.rc = rc /\ World.prop = prop /\ handle \in [Handle -> GoodValue]
        /\ Owning(handle, slot, modules, lost)
    BY <1>1, OwnersBefore DEF HandleInv, Owning
  <2>2. ASSUME NEW o \in Object PROVE rc[o] = Owners(o)
    <3>1. rc[o] = Others(handle, slot, modules, lost, o) + Cardinality(Props(prop, o))
      BY <2>1, Counted
    <3>2. /\ HeldBy(handle, o) = {h \in Handle : handle[h].v = o /\ handle[h].owns}
          /\ SlotsWith(slot, o) = {s \in Slot : slot[s] = o}
          /\ ModulesWith(modules, o) = {k \in DOMAIN modules : modules[k].value = o
                                                              /\ (modules[k].given => ~modules[k].freed)}
          /\ Props(prop, o) = {q \in Object : prop[q] = o}
      BY DEF HeldBy, SlotsWith, ModulesWith, Keeps, Props
    <3>3. Owners(o) = Cardinality(HeldBy(handle, o)) + Cardinality(Props(prop, o))
                        + Cardinality(SlotsWith(slot, o)) + Cardinality(ModulesWith(modules, o)) + lost[o]
      BY <3>2 DEF Owners, Count
    <3>4. /\ Cardinality(HeldBy(handle, o)) \in Nat /\ Cardinality(SlotsWith(slot, o)) \in Nat
          /\ Cardinality(ModulesWith(modules, o)) \in Nat /\ lost[o] \in Nat
          /\ Cardinality(Props(prop, o)) \in Nat
      BY <2>1, OthersIntegral, PropsFinite
    <3> QED BY <3>1, <3>3, <3>4 DEF Others
  <2>3. \A h \in Handle : handle[h].ctx => handle[h].owns
    BY <2>1 DEF GoodValue
  <2>4. OnlyLostLeft
    BY <1>1 DEF HandleInv
  <2> QED BY <2>2, <2>3, <2>4 DEF OwnedOrLost, OneOwner
<1>2. HandleInv => OwnedOrLost
  BY <1>1
<1> QED BY <1>2, HandleInvariant, PTL
=============================================================================
