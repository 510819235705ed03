------------------------ MODULE ModuleLinkingProofs -------------------------
(* Proofs about the loading and evaluation of modules (ModuleLinking), for *)
(* every number of modules, whatever their files request and however often *)
(* program code imports.                                                   *)
EXTENDS ModuleLinking, FiniteSetTheorems, SequenceTheorems, TLAPS

-----------------------------------------------------------------------------
(* The invariant. It speaks of f, the files; s, the calls in progress; r,  *)
(* what the last one has returned; the sets of modules that are loaded     *)
(* (Ld), resolved (Rs), instantiated (In), marked (Mk), evaluated (Ev),    *)
(* evaluated without an exception (Ok), whose body has run (Rn); and Lk,   *)
(* which module is linked to which.                                        *)
Fn == {"run", "import", "compile", "resolve", "instantiate", "evaluate", "body"}
Loading == {"compile", "resolve"}
Begin == {"run", "import"}
Frame == [fn : Fn, m : Module \cup {Null}, i : Nat]

Typed(f, s, r) ==
  /\ DOMAIN f \subseteq Module /\ \A m \in DOMAIN f : f[m].req \in Seq(Module)
  /\ s \in Seq(Frame) /\ r \in {"none", "ok", "fail"}

(* The flags of a module are set one after the other; what it is linked to *)
(* is resolved and is one of its requests.                                 *)
Flags(f, Ld, Rs, In, Mk, Ev, Ok, Rn, Lk) ==
  /\ Ld \subseteq DOMAIN f /\ Rs \subseteq Ld /\ In \subseteq Rs
  /\ Mk \subseteq In /\ Ev \subseteq In /\ Mk \cap Ev = {} /\ Ok \subseteq Ev
  /\ Rn \subseteq Mk \cup Ev
  /\ Lk \subseteq Module \X Module
  /\ \A p, x \in Module : <<p, x>> \in Lk =>
       p \in Ld /\ x \in Rs /\ \E k \in 1 .. Len(f[p].req) : f[p].req[k] = x

(* Which call makes which.                                                 *)
Starts(p, fn) ==
  /\ fn = "resolve"     => p.fn \in Loading \/ (p.fn \in Begin /\ p.i = 1)
  /\ fn = "compile"     => p.fn = "resolve" \/ (p.fn = "import" /\ p.i = 0)
  /\ fn = "instantiate" => p.fn = "instantiate" \/ (p.fn \in Begin /\ p.i = 2)
  /\ fn = "evaluate"    => p.fn = "evaluate" \/ (p.fn \in Begin /\ p.i = 3)
  /\ fn = "body"        => p.fn = "evaluate"
  /\ fn = "import"      => p.fn = "body" /\ p.i > 0
  /\ fn # "run"

Nested(s) ==
  /\ s # <<>> => s[1].fn \in Begin
  /\ \A j \in 2 .. Len(s) : Starts(s[j - 1], s[j].fn)
  /\ \A j, k \in 1 .. Len(s) : j < k =>
       /\ s[j].fn \in Loading => s[k].fn \in Loading
       /\ s[j].fn = "instantiate" => s[k].fn = "instantiate"
  /\ \A j \in 1 .. Len(s) :
       /\ s[j].fn \in Begin => s[j].i <= 3
       /\ s[j].fn = "run" => s[j].i > 0
       /\ s[j].fn = "body" => s[j].m # Null

(* What a call knows of its module.                                        *)
Known(c, Rs, In, Mk, Ev) ==
  /\ c.fn = "run" /\ c.i = 1 => c.m \notin In
  /\ c.fn \in Begin /\ c.i > 0 => c.m \in Rs
  /\ c.fn \in Begin /\ c.i > 1 => c.m \in In
  /\ c.fn \in Loading => c.m \in Rs /\ c.m \notin In
  /\ c.fn = "instantiate" => c.m \in In /\ c.m \notin Mk /\ c.m \notin Ev
  /\ c.fn = "evaluate" => c.m \in Mk

Calls(s, Rs, In, Mk, Ev) ==
  \A j \in 1 .. Len(s) : s[j].m # Null => Known(s[j], Rs, In, Mk, Ev)

(* No module is in two calls of the same walk, and each that is marked is  *)
(* in one.                                                                 *)
Once(s, Mk) ==
  /\ \A j, k \in 1 .. Len(s) :
       s[j].fn \in {"resolve", "instantiate", "evaluate"} /\ s[j].m # Null
         /\ s[j].fn = s[k].fn /\ s[j].m = s[k].m => j = k
  /\ \A m \in Mk : \E j \in 1 .. Len(s) : s[j].fn = "evaluate" /\ s[j].m = m

(* What a call has waited for has returned.                                *)
Waited(f, c) ==
  \/ c.fn = "run" \/ (c.fn = "import" /\ c.i > 0) \/ c.fn = "compile"
  \/ c.fn = "evaluate" /\ c.m # Null /\ c.i > Len(f[c.m].req)

Answered(f, s, r) == s # <<>> /\ Waited(f, s[Len(s)]) => r \in {"ok", "fail"}

(* The evaluation of a module: its requests up to the one it is at are     *)
(* evaluated, or are in progress by a call below.                          *)
Done(s, r, Ok, j, x, last) ==
  \/ x \in Ok
  \/ \E k \in 1 .. j : s[k].fn = "evaluate" /\ s[k].m = x
  \/ last /\ j = Len(s) /\ r = "fail"
  \/ last /\ j < Len(s) /\ s[j + 1].fn = "evaluate" /\ s[j + 1].m = x

Ordered(f, s, r, Mk, Ok, Rn) ==
  /\ \A j \in 1 .. Len(s) : s[j].fn = "evaluate" /\ s[j].m # Null =>
       /\ s[j].i <= Len(f[s[j].m].req) => s[j].m \notin Rn
       /\ \A k \in 1 .. Len(f[s[j].m].req) :
            k <= s[j].i => Done(s, r, Ok, j, f[s[j].m].req[k], k = s[j].i)
  /\ \A j \in 1 .. Len(s) : s[j].fn = "body" /\ s[j].i = 0 =>
       /\ j = Len(s) /\ s[j].m \in DOMAIN f
       /\ \A k \in 1 .. Len(f[s[j].m].req) : f[s[j].m].req[k] \in Mk \cup Ok

(* A failure of a walk on its way to the call that frees the modules.      *)
Failing(s, r) ==
  s # <<>> /\ r = "fail" /\
    (s[Len(s)].fn \in {"instantiate", "evaluate"} \/ (s[Len(s)].fn \in Begin /\ s[Len(s)].i > 1))

(* What is instantiated has its requests instantiated, or will have.       *)
Later(f, c, x) ==
  c.m # Null /\ \E k \in 1 .. Len(f[c.m].req) : k > c.i /\ f[c.m].req[k] = x

Closed(f, s, In, Lk) ==
  \A p, x \in Module : <<p, x>> \in Lk /\ p \in In /\ x \notin In =>
    \E j \in 1 .. Len(s) : s[j].fn = "instantiate" /\ s[j].m = p /\ Later(f, s[j], x)

(* What is instantiated but not yet evaluated will be: in every set of     *)
(* such modules there is one that a call is going to evaluate, or that     *)
(* another one outside the set is linked to. Wt are those modules.         *)
Wanted(f, s, Wt, Lk, S, x) ==
  \/ \E j \in 1 .. Len(s) : s[j].fn \in Begin /\ s[j].i = 2 /\ s[j].m = x
  \/ \E p \in Wt : p \notin S /\ <<p, x>> \in Lk
  \/ \E j \in 1 .. Len(s) : s[j].fn = "evaluate" /\ Later(f, s[j], x)

Reached(f, s, Wt, Lk) ==
  \A S \in SUBSET Wt : S # {} => \E x \in S : Wanted(f, s, Wt, Lk, S, x)

Waiting(In, Mk, Ev) == In \ (Mk \cup Ev)

LinkInv(f, s, r, Ld, Rs, In, Mk, Ev, Ok, Rn, Lk) ==
  /\ Typed(f, s, r) /\ Flags(f, Ld, Rs, In, Mk, Ev, Ok, Rn, Lk)
  /\ Nested(s) /\ Calls(s, Rs, In, Mk, Ev) /\ Once(s, Mk) /\ Answered(f, s, r)
  /\ Ordered(f, s, r, Mk, Ok, Rn)
  /\ ~Failing(s, r) => Closed(f, s, In, Lk) /\ Reached(f, s, Waiting(In, Mk, Ev), Lk)

(* What they are for the modules md.                                       *)
LoadedIn(md) == {m \in Module : md[m].loaded}
ResolvedIn(md) == {m \in Module : md[m].resolved}
InstantiatedIn(md) == {m \in Module : md[m].instantiated}
MarkedIn(md) == {m \in Module : md[m].eval_mark}
EvaluatedIn(md) == {m \in Module : md[m].evaluated}
OkIn(md) == {m \in Module : md[m].evaluated /\ ~md[m].eval_has_exception}
RanIn(md) == {m \in Module : md[m].ran # 0}
LinksIn(md) == {l \in Module \X Module : l[2] \in md[l[1]].linked}

Fields == {"loaded", "resolved", "instantiated", "evaluated", "eval_mark", "eval_has_exception",
           "func", "linked", "lost", "bound", "exported", "ns", "ran"}

ModsTyped(md) ==
  /\ DOMAIN md = Module
  /\ \A m \in Module :
       /\ DOMAIN md[m] = Fields
       /\ md[m].loaded \in BOOLEAN /\ md[m].resolved \in BOOLEAN
       /\ md[m].instantiated \in BOOLEAN /\ md[m].evaluated \in BOOLEAN
       /\ md[m].eval_mark \in BOOLEAN /\ md[m].eval_has_exception \in BOOLEAN
       /\ md[m].linked \subseteq Module /\ md[m].ran \in {0, 1}

InvOf(f, md, s, r) ==
  /\ ModsTyped(md)
  /\ LinkInv(f, s, r, LoadedIn(md), ResolvedIn(md), InstantiatedIn(md), MarkedIn(md),
             EvaluatedIn(md), OkIn(md), RanIn(md), LinksIn(md))

Inv == file \in Programs /\ InvOf(file, mod, stack, ret)
-----------------------------------------------------------------------------
(* What happens to the calls in progress: the last one goes on, makes      *)
(* another, or returns.                                                    *)
Moved(s, t, d) ==
  /\ s # <<>> /\ t \in Seq(Frame) /\ Len(t) = Len(s)
  /\ \A j \in 1 .. Len(s) - 1 : t[j] = s[j]
  /\ t[Len(s)].fn = s[Len(s)].fn /\ t[Len(s)].m = s[Len(s)].m
  /\ t[Len(s)].i = s[Len(s)].i + d

Pushed(s, t, d, c) ==
  /\ s # <<>> /\ t \in Seq(Frame) /\ Len(t) = Len(s) + 1
  /\ \A j \in 1 .. Len(s) - 1 : t[j] = s[j]
  /\ t[Len(s)].fn = s[Len(s)].fn /\ t[Len(s)].m = s[Len(s)].m
  /\ t[Len(s)].i = s[Len(s)].i + d
  /\ t[Len(s) + 1] = c

Popped(s, t) ==
  /\ s # <<>> /\ t \in Seq(Frame) /\ Len(t) = Len(s) - 1
  /\ \A j \in 1 .. Len(s) - 1 : t[j] = s[j]

(* While the last call is none of a walk, no call of that walk is in       *)
(* progress.                                                               *)
LEMMA NotLoading ==
  ASSUME NEW s \in Seq(Frame), Nested(s), s # <<>>, s[Len(s)].fn \notin Loading
  PROVE  /\ \A j \in 1 .. Len(s) : s[j].fn \notin Loading
         /\ \A j \in 1 .. Len(s) : s[j].fn = "run" /\ s[j].i = 1 => j = Len(s)
<1>1. \A j \in 1 .. Len(s) : s[j].fn \notin Loading
  BY DEF Nested
<1>2. ASSUME NEW j \in 1 .. Len(s), s[j].fn = "run", s[j].i = 1, j # Len(s)
      PROVE  FALSE
  <2>1. j = 1 /\ 2 \in 2 .. Len(s) /\ s[2 - 1] = s[1]
    BY <1>2 DEF Nested, Starts
  <2>2. Starts(s[1], s[2].fn) /\ s[1].fn = "run" /\ s[1].i = 1 /\ s[2].fn \in Fn
    <3>1. Starts(s[2 - 1], s[2].fn)
      BY <2>1 DEF Nested
    <3>2. s[2] \in Frame
      BY <2>1
    <3> QED BY <2>1, <1>2, <3>1, <3>2 DEF Frame
  <2>3. s[2].fn = "resolve"
    BY <2>2 DEF Starts, Begin, Fn, Loading
  <2> QED BY <2>1, <2>3, <1>1 DEF Loading
<1> QED BY <1>1, <1>2

LEMMA NotInstantiating ==
  ASSUME NEW s \in Seq(Frame), Nested(s), s # <<>>, s[Len(s)].fn # "instantiate"
  PROVE  \A j \in 1 .. Len(s) : s[j].fn # "instantiate"
  BY DEF Nested

(* What the calls are then.                                                *)
LEMMA FrameTypes ==
  ASSUME NEW s \in Seq(Frame)
  PROVE  /\ Len(s) \in Nat /\ (s # <<>> => Len(s) > 0)
         /\ \A j \in 1 .. Len(s) : s[j].fn \in Fn /\ s[j].m \in Module \cup {Null} /\ s[j].i \in Nat
<1>1. Len(s) \in Nat /\ (s # <<>> => Len(s) > 0)
  OBVIOUS
<1>2. ASSUME NEW j \in 1 .. Len(s)
      PROVE  s[j].fn \in Fn /\ s[j].m \in Module \cup {Null} /\ s[j].i \in Nat
  <2>1. s[j] \in Frame
    OBVIOUS
  <2> QED BY <2>1 DEF Frame
<1> QED BY <1>1, <1>2

LEMMA MovedFrames ==
  ASSUME NEW s \in Seq(Frame), NEW t, NEW d \in Nat, Moved(s, t, d)
  PROVE  /\ t # <<>> /\ t \in Seq(Frame) /\ Len(t) = Len(s) /\ Len(s) \in Nat /\ Len(s) > 0
         /\ \A j \in 1 .. Len(s) :
              t[j].fn = s[j].fn /\ t[j].m = s[j].m /\ (j # Len(s) => t[j].i = s[j].i)
         /\ t[Len(s)].i = s[Len(s)].i + d
<1>1. Len(s) \in Nat /\ Len(s) > 0
  BY FrameTypes DEF Moved
<1>2. \A j \in 1 .. Len(s) : j # Len(s) => j \in 1 .. Len(s) - 1
  BY <1>1
<1>3. t # <<>>
  BY <1>1 DEF Moved
<1> QED BY <1>1, <1>2, <1>3 DEF Moved

LEMMA PushedFrames ==
  ASSUME NEW s \in Seq(Frame), NEW t, NEW d \in Nat, NEW c, Pushed(s, t, d, c)
  PROVE  /\ t # <<>> /\ t \in Seq(Frame) /\ Len(t) = Len(s) + 1 /\ Len(s) \in Nat /\ Len(s) > 0
         /\ \A j \in 1 .. Len(s) :
              t[j].fn = s[j].fn /\ t[j].m = s[j].m /\ (j # Len(s) => t[j].i = s[j].i)
         /\ t[Len(s)].i = s[Len(s)].i + d
         /\ t[Len(s) + 1] = c /\ c \in Frame
<1>1. Len(s) \in Nat /\ Len(s) > 0
  BY FrameTypes DEF Pushed
<1>2. \A j \in 1 .. Len(s) : j # Len(s) => j \in 1 .. Len(s) - 1
  BY <1>1
<1>3. t # <<>> /\ c \in Frame
  BY <1>1 DEF Pushed
<1> QED BY <1>1, <1>2, <1>3 DEF Pushed

LEMMA PoppedFrames ==
  ASSUME NEW s \in Seq(Frame), NEW t, Popped(s, t)
  PROVE  /\ t \in Seq(Frame) /\ Len(t) = Len(s) - 1 /\ Len(s) \in Nat /\ Len(s) > 0
         /\ \A j \in 1 .. Len(t) :
              t[j].fn = s[j].fn /\ t[j].m = s[j].m /\ t[j].i = s[j].i
         /\ t # <<>> => Len(t) > 0
<1>1. Len(s) \in Nat /\ Len(s) > 0
  BY FrameTypes DEF Popped
<1> QED BY <1>1, FrameTypes DEF Popped

(* What the last call asks for is there already, and q is the answer.      *)
Found(f, c, r, q, Rs, In, Mk, Ev, Ok) ==
  \/ c.fn = "import" /\ c.i = 0 /\ (c.m # Null => c.m \in Rs)
  \/ c.fn \in Begin /\ c.i = 1 /\ r # "fail" /\ (c.m # Null => c.m \in In) /\ q = "ok"
  \/ c.fn \in Begin /\ c.i = 2 /\ r # "fail" /\ c.m \in Mk \cup Ev
  \/ c.fn = "resolve" /\ q = "ok"
  \/ /\ c.fn = "instantiate" /\ c.m # Null /\ r # "fail" /\ q = "ok"
     /\ c.i < Len(f[c.m].req) /\ f[c.m].req[c.i + 1] \in In
  \/ /\ c.fn = "evaluate" /\ c.m # Null /\ r # "fail" /\ c.i < Len(f[c.m].req)
     /\ f[c.m].req[c.i + 1] \in Mk \cup Ev
     /\ f[c.m].req[c.i + 1] \in Mk \cup Ok \/ q = "fail"

(* The last call goes on: what it asked for was there already.             *)
LEMMA MoveStep ==
  ASSUME NEW f, NEW s, NEW r, NEW Ld, NEW Rs, NEW In, NEW Mk, NEW Ev, NEW Ok, NEW Rn, NEW Lk,
         LinkInv(f, s, r, Ld, Rs, In, Mk, Ev, Ok, Rn, Lk),
         NEW t, NEW q \in {"ok", "fail"}, Moved(s, t, 1),
         Found(f, s[Len(s)], r, q, Rs, In, Mk, Ev, Ok)
  PROVE  LinkInv(f, t, q, Ld, Rs, In, Mk, Ev, Ok, Rn, Lk)
<1>T. Typed(f, s, r) /\ Flags(f, Ld, Rs, In, Mk, Ev, Ok, Rn, Lk)
  BY DEF LinkInv
<1>N. Nested(s)
  BY DEF LinkInv
<1>C. Calls(s, Rs, In, Mk, Ev)
  BY DEF LinkInv
<1>O. Once(s, Mk)
  BY DEF LinkInv
<1>A. Answered(f, s, r)
  BY DEF LinkInv
<1>D. Ordered(f, s, r, Mk, Ok, Rn)
  BY DEF LinkInv
<1>R. ~Failing(s, r) => Closed(f, s, In, Lk) /\ Reached(f, s, Waiting(In, Mk, Ev), Lk)
  BY DEF LinkInv
<1>a. s \in Seq(Frame) /\ s # <<>>
  BY <1>T DEF Typed, Moved
<1>b. /\ t # <<>> /\ t \in Seq(Frame) /\ Len(t) = Len(s) /\ Len(s) \in Nat /\ Len(s) > 0
      /\ \A j \in 1 .. Len(s) :
           t[j].fn = s[j].fn /\ t[j].m = s[j].m /\ (j # Len(s) => t[j].i = s[j].i)
      /\ t[Len(s)].i = s[Len(s)].i + 1
  BY <1>a, MovedFrames
<1>c. \A j \in 1 .. Len(s) : s[j].fn \in Fn /\ s[j].m \in Module \cup {Null} /\ s[j].i \in Nat
  BY <1>a, FrameTypes
<1>1. Typed(f, t, q)
  BY <1>T, <1>a, <1>b, <1>c DEF Typed
<1>2. Flags(f, Ld, Rs, In, Mk, Ev, Ok, Rn, Lk)
  BY <1>T, <1>a, <1>b, <1>c DEF Flags, Typed
<1>3. Nested(t)
  <2>1. t[1].fn \in Begin
    BY <1>N, <1>a, <1>b DEF Nested
  <2>2. ASSUME NEW j \in 2 .. Len(t)
        PROVE  Starts(t[j - 1], t[j].fn)
    <3>1. /\ j - 1 \in 1 .. Len(s) /\ j \in 1 .. Len(s) /\ j - 1 # Len(s)
          /\ Starts(s[j - 1], s[j].fn)
      BY <1>N, <1>b DEF Nested
    <3>2. t[j - 1].fn = s[j - 1].fn /\ t[j - 1].i = s[j - 1].i /\ t[j].fn = s[j].fn
      BY <1>b, <3>1
    <3> QED BY <3>1, <3>2 DEF Starts
  <2>3. t[Len(s)].fn \in Begin => t[Len(s)].i <= 3
    BY <1>b, <1>c DEF Begin, Fn, Found
  <2>4. \A j \in 1 .. Len(t) : t[j].fn \in Begin => t[j].i <= 3
    BY <1>N, <1>b, <2>3 DEF Nested
  <2>5. \A j \in 1 .. Len(t) : t[j].fn = "run" => t[j].i > 0
    BY <1>N, <1>b, <1>c DEF Nested
  <2>6. \A j \in 1 .. Len(t) : t[j].fn = "body" => t[j].m # Null
    BY <1>N, <1>b DEF Nested
  <2>7. \A j, k \in 1 .. Len(t) : j < k =>
          /\ t[j].fn \in Loading => t[k].fn \in Loading
          /\ t[j].fn = "instantiate" => t[k].fn = "instantiate"
    BY <1>N, <1>b DEF Nested
  <2> QED BY <2>1, <2>2, <2>4, <2>5, <2>6, <2>7 DEF Nested
<1>4. Calls(t, Rs, In, Mk, Ev)
  <2>1. ASSUME NEW j \in 1 .. Len(t), t[j].m # Null
        PROVE  Known(t[j], Rs, In, Mk, Ev)
    <3>1. Known(s[j], Rs, In, Mk, Ev) /\ s[j].m # Null
      BY <1>C, <1>b, <2>1 DEF Calls
    <3>2. CASE j # Len(s)
      BY <3>1, <3>2, <1>b DEF Known
    <3>3. CASE j = Len(s)
      BY <3>1, <3>3, <1>T, <1>b, <1>c DEF Known, Flags, Begin, Loading, Found
    <3> QED BY <3>2, <3>3
  <2> QED BY <2>1 DEF Calls
<1>5. Once(t, Mk)
  BY <1>O, <1>b DEF Once
<1>6. Answered(f, t, q)
  BY <1>A, <1>a, <1>b, <1>c DEF Answered, Waited, Typed, Frame, Fn, Nested, Starts, Loading, Begin
<1>7. Ordered(f, t, q, Mk, Ok, Rn)
  <2>1. ASSUME NEW j \in 1 .. Len(t), t[j].fn = "evaluate", t[j].m # Null,
               NEW k \in 1 .. Len(f[t[j].m].req), k <= t[j].i
        PROVE  Done(t, q, Ok, j, f[t[j].m].req[k], k = t[j].i)
    <3> DEFINE x == f[t[j].m].req[k]
    <3>0. /\ j \in 1 .. Len(s) /\ s[j].fn = "evaluate" /\ s[j].m # Null /\ x = f[s[j].m].req[k]
          /\ k \in 1 .. Len(f[s[j].m].req)
      BY <1>b, <2>1
    <3> SUFFICES Done(t, q, Ok, j, x, k = t[j].i)
      OBVIOUS
    <3> HIDE DEF x
    <3>1. CASE k <= s[j].i
      <4>1. Done(s, r, Ok, j, x, k = s[j].i)
        BY <1>D, <3>0, <3>1 DEF Ordered
      <4>2. CASE x \in Ok \/ \E h \in 1 .. j : s[h].fn = "evaluate" /\ s[h].m = x
        BY <4>2, <1>b, <3>0 DEF Done
      <4>3. CASE k = s[j].i /\ j < Len(s) /\ s[j + 1].fn = "evaluate" /\ s[j + 1].m = x
        <5>1. t[j].i = s[j].i /\ t[j + 1].fn = s[j + 1].fn /\ t[j + 1].m = s[j + 1].m
          BY <4>3, <1>b
        <5>2. k = t[j].i /\ j < Len(t)
          BY <4>3, <5>1, <1>b
        <5> QED BY <4>3, <5>1, <5>2 DEF Done
      <4>4. CASE j = Len(s) /\ r = "fail"
        BY <4>4, <3>0, <1>c DEF Begin, Found
      <4> QED BY <4>1, <4>2, <4>3, <4>4 DEF Done
    <3>2. CASE ~(k <= s[j].i)
      <4>1. j = Len(s) /\ k = s[j].i + 1
        BY <3>2, <2>1, <1>b, <1>c
      <4>2. x \in Mk \cup Ok \/ q = "fail"
        BY <4>1, <3>0 DEF Begin, Found
      <4>3. CASE x \in Mk
        <5>1. PICK h \in 1 .. Len(s) : s[h].fn = "evaluate" /\ s[h].m = x
          BY <4>3, <1>O DEF Once
        <5> QED BY <5>1, <4>1, <1>b DEF Done
      <4>4. CASE x \in Ok
        BY <4>4 DEF Done
      <4>5. CASE q = "fail"
        <5>1. k = t[j].i /\ j = Len(t)
          BY <4>1, <1>b
        <5> QED BY <4>5, <5>1 DEF Done
      <4> QED BY <4>2, <4>3, <4>4, <4>5
    <3> QED BY <3>1, <3>2
  <2>2. ASSUME NEW j \in 1 .. Len(t), t[j].fn = "evaluate", t[j].m # Null,
               t[j].i <= Len(f[t[j].m].req)
        PROVE  t[j].m \notin Rn
    <3>1. s[j].i <= t[j].i
      BY <1>b, <1>c
    <3>2. s[j].m \in DOMAIN f /\ Len(f[s[j].m].req) \in Nat
      BY <2>2, <1>b, <1>C, <1>T DEF Calls, Known, Flags, Typed
    <3>3. s[j].i <= Len(f[s[j].m].req)
      BY <3>1, <3>2, <2>2, <1>b, <1>c
    <3> QED BY <3>3, <2>2, <1>b, <1>D DEF Ordered
  <2>3. \A j \in 1 .. Len(t) : t[j].fn = "body" => s[j].i = t[j].i
    BY <1>b DEF Begin, Found
  <2>4. ASSUME NEW j \in 1 .. Len(t), t[j].fn = "body", t[j].i = 0
        PROVE  /\ j = Len(t) /\ t[j].m \in DOMAIN f
               /\ \A k \in 1 .. Len(f[t[j].m].req) : f[t[j].m].req[k] \in Mk \cup Ok
    BY <2>3, <2>4, <1>b, <1>D DEF Ordered
  <2> QED BY <2>1, <2>2, <2>4 DEF Ordered
<1>8. ~Failing(t, q) => Closed(f, t, In, Lk)
  <2> SUFFICES ASSUME ~Failing(t, q), NEW p \in Module, NEW x \in Module,
                      <<p, x>> \in Lk, p \in In, x \notin In
               PROVE  \E j \in 1 .. Len(t) : t[j].fn = "instantiate" /\ t[j].m = p /\ Later(f, t[j], x)
    BY DEF Closed
  <2>0. ~Failing(s, r)
    BY <1>b, <1>c, <1>T DEF Failing, Begin, Found
  <2>1. PICK j \in 1 .. Len(s) : s[j].fn = "instantiate" /\ s[j].m = p /\ Later(f, s[j], x)
    BY <2>0, <1>R DEF Closed
  <2>2. CASE j # Len(s)
    BY <2>1, <2>2, <1>b DEF Later
  <2>3. CASE j = Len(s)
    <3>1. f[s[j].m].req[s[j].i + 1] \in In
      BY <2>1, <2>3 DEF Begin, Found
    <3> QED BY <2>1, <2>3, <3>1, <1>b, <1>c DEF Later
  <2> QED BY <2>2, <2>3
<1>9. ~Failing(t, q) => Reached(f, t, Waiting(In, Mk, Ev), Lk)
  <2> DEFINE Wt == Waiting(In, Mk, Ev)
  <2> SUFFICES ASSUME ~Failing(t, q), NEW S \in SUBSET Wt, S # {}
               PROVE  \E x \in S : Wanted(f, t, Wt, Lk, S, x)
    BY DEF Reached
  <2>0. ~Failing(s, r)
    BY <1>b, <1>c, <1>T DEF Failing, Begin, Found
  <2>1. PICK x \in S : Wanted(f, s, Wt, Lk, S, x)
    BY <2>0, <1>R DEF Reached
  <2>x. x \in In /\ x \notin Mk /\ x \notin Ev
    BY DEF Waiting
  <2> HIDE DEF Wt
  <2>2. CASE \E p \in Wt : p \notin S /\ <<p, x>> \in Lk
    BY <2>2 DEF Wanted
  <2>3. ASSUME NEW j \in 1 .. Len(s), s[j].fn \in Begin, s[j].i = 2, s[j].m = x
        PROVE  \E h \in 1 .. Len(t) : t[h].fn \in Begin /\ t[h].i = 2 /\ t[h].m = x
    <3>1. j # Len(s)
      BY <2>3, <2>x DEF Found, Begin
    <3> QED BY <2>3, <3>1, <1>b
  <2>4. ASSUME NEW j \in 1 .. Len(s), s[j].fn = "evaluate", Later(f, s[j], x)
        PROVE  \E h \in 1 .. Len(t) : t[h].fn = "evaluate" /\ Later(f, t[h], x)
    <3>1. CASE j # Len(s)
      BY <2>4, <3>1, <1>b DEF Later
    <3>2. CASE j = Len(s)
      <4>1. f[s[j].m].req[s[j].i + 1] # x
        BY <2>4, <2>x, <3>2 DEF Begin, Found
      <4> QED BY <2>4, <3>2, <4>1, <1>b, <1>c DEF Later
    <3> QED BY <3>1, <3>2
  <2> QED BY <2>1, <2>2, <2>3, <2>4 DEF Wanted
<1> QED BY <1>1, <1>2, <1>3, <1>4, <1>5, <1>6, <1>7, <1>8, <1>9 DEF LinkInv

-----------------------------------------------------------------------------
(* The last call makes another. *)
LEMMA PushNested ==
  ASSUME NEW s \in Seq(Frame), NEW t, NEW d \in {0, 1}, NEW c, Nested(s), Pushed(s, t, d, c),
         Starts(t[Len(s)], c.fn), c.fn \in Begin => c.i = 0, c.m # Null,
         t[Len(s)].fn \in Begin => t[Len(s)].i <= 3
  PROVE  Nested(t)
<1>b. /\ t # <<>> /\ t \in Seq(Frame) /\ Len(t) = Len(s) + 1 /\ Len(s) \in Nat /\ Len(s) > 0
      /\ \A j \in 1 .. Len(s) :
           t[j].fn = s[j].fn /\ t[j].m = s[j].m /\ (j # Len(s) => t[j].i = s[j].i)
      /\ t[Len(s)].i = s[Len(s)].i + d
      /\ t[Len(s) + 1] = c /\ c \in Frame
  BY PushedFrames
<1>c. \A j \in 1 .. Len(s) : s[j].fn \in Fn /\ s[j].m \in Module \cup {Null} /\ s[j].i \in Nat
  BY FrameTypes
<1>d. c.fn \in Fn /\ c.i \in Nat /\ c.fn # "run"
  BY <1>b DEF Frame, Starts
<1>1. t[1].fn \in Begin
  BY <1>b DEF Nested
<1>2. ASSUME NEW j \in 2 .. Len(t)
      PROVE  Starts(t[j - 1], t[j].fn)
  <2>1. CASE j = Len(s) + 1
    BY <2>1, <1>b
  <2>2. CASE j # Len(s) + 1
    <3>1. /\ j - 1 \in 1 .. Len(s) /\ j \in 1 .. Len(s) /\ j - 1 # Len(s)
          /\ Starts(s[j - 1], s[j].fn)
      BY <2>2, <1>b DEF Nested
    <3>2. t[j - 1].fn = s[j - 1].fn /\ t[j - 1].i = s[j - 1].i /\ t[j].fn = s[j].fn
      BY <1>b, <3>1
    <3> QED BY <3>1, <3>2 DEF Starts
  <2> QED BY <2>1, <2>2
<1>3. ASSUME NEW j \in 1 .. Len(t), NEW k \in 1 .. Len(t), j < k
      PROVE  /\ t[j].fn \in Loading => t[k].fn \in Loading
             /\ t[j].fn = "instantiate" => t[k].fn = "instantiate"
  <2>1. CASE k # Len(s) + 1
    BY <2>1, <1>3, <1>b DEF Nested
  <2>2. CASE k = Len(s) + 1
    <3>0. s[Len(s)] \in Frame /\ j \in 1 .. Len(s) /\ t[j].fn = s[j].fn
      BY <2>2, <1>3, <1>b
    <3>4. t[j].fn \in Loading => c.fn \in Loading
      BY <3>0, <1>b, <1>d, NotLoading DEF Starts, Loading, Fn, Begin
    <3>5. t[j].fn = "instantiate" => c.fn = "instantiate"
      BY <3>0, <1>b, <1>d, NotInstantiating DEF Starts, Loading, Fn, Begin
    <3> QED BY <3>4, <3>5, <2>2, <1>b
  <2> QED BY <2>1, <2>2
<1>4. \A j \in 1 .. Len(t) : t[j].fn \in Begin => t[j].i <= 3
  BY <1>b, <1>c DEF Nested
<1>5. \A j \in 1 .. Len(t) : t[j].fn = "run" => t[j].i > 0
  BY <1>b, <1>c, <1>d DEF Nested
<1>6. \A j \in 1 .. Len(t) : t[j].fn = "body" => t[j].m # Null
  BY <1>b DEF Nested
<1> QED BY <1>b, <1>1, <1>2, <1>3, <1>4, <1>5, <1>6 DEF Nested

(* The new call keeps the order: it is one of an evaluation for its next   *)
(* request, a body whose requests are evaluated, or of another walk.       *)
KeepsOrder(f, s, t, d, c, r, Mk, Ok, Rn, Mk2, Rn2) ==
  /\ \A j \in 1 .. Len(s) : s[j].fn = "evaluate" /\ s[j].m # Null => Len(f[s[j].m].req) \in Nat
  /\ s[Len(s)].fn = "evaluate" /\ s[Len(s)].m # Null =>
       /\ r # "fail"
       /\ s[Len(s)].i + d <= Len(f[s[Len(s)].m].req) =>
            d = 1 /\ c.fn = "evaluate" /\ c.m = f[s[Len(s)].m].req[s[Len(s)].i + 1]
  /\ s[Len(s)].fn = "body" => d = 1
  /\ c.fn = "evaluate" => c.i = 0 /\ c.m \notin Rn2
  /\ \A j \in 1 .. Len(s) : s[j].fn = "evaluate" /\ s[j].m # Null
       /\ t[j].i <= Len(f[s[j].m].req) /\ s[j].m \notin Rn => s[j].m \notin Rn2
  /\ c.fn = "body" /\ c.i = 0 =>
       c.m \in DOMAIN f /\ \A k \in 1 .. Len(f[c.m].req) : f[c.m].req[k] \in Mk2 \cup Ok

LEMMA PushOrdered ==
  ASSUME NEW f, NEW s \in Seq(Frame), NEW r, NEW Mk, NEW Ok, NEW Rn, Ordered(f, s, r, Mk, Ok, Rn),
         NEW t, NEW d \in {0, 1}, NEW c, NEW q, NEW Mk2, NEW Rn2, Pushed(s, t, d, c),
         KeepsOrder(f, s, t, d, c, r, Mk, Ok, Rn, Mk2, Rn2)
  PROVE  Ordered(f, t, q, Mk2, Ok, Rn2)
<1>b. /\ t # <<>> /\ t \in Seq(Frame) /\ Len(t) = Len(s) + 1 /\ Len(s) \in Nat /\ Len(s) > 0
      /\ \A j \in 1 .. Len(s) :
           t[j].fn = s[j].fn /\ t[j].m = s[j].m /\ (j # Len(s) => t[j].i = s[j].i)
      /\ t[Len(s)].i = s[Len(s)].i + d
      /\ t[Len(s) + 1] = c /\ c \in Frame
  <2>1. d \in Nat
    OBVIOUS
  <2>2. Pushed(s, t, d, c)
    OBVIOUS
  <2> QED BY ONLY <2>1, <2>2, PushedFrames, s \in Seq(Frame)
<1>c. \A j \in 1 .. Len(s) : s[j].fn \in Fn /\ s[j].m \in Module \cup {Null} /\ s[j].i \in Nat
  BY FrameTypes
<1>1. ASSUME NEW j \in 1 .. Len(t), t[j].fn = "evaluate", t[j].m # Null,
             NEW k \in 1 .. Len(f[t[j].m].req), k <= t[j].i
      PROVE  Done(t, q, Ok, j, f[t[j].m].req[k], k = t[j].i)
  <2> DEFINE x == f[t[j].m].req[k]
  <2>0. j \in 1 .. Len(s)
    BY <1>b, <1>1 DEF KeepsOrder
  <2>1. /\ s[j].fn = "evaluate" /\ s[j].m # Null /\ x = f[s[j].m].req[k]
        /\ k \in 1 .. Len(f[s[j].m].req)
    BY <1>b, <1>1, <2>0
  <2> SUFFICES Done(t, q, Ok, j, x, k = t[j].i)
    OBVIOUS
  <2> HIDE DEF x
  <2>2. CASE k <= s[j].i
    <3>1. Done(s, r, Ok, j, x, k = s[j].i)
      BY <2>0, <2>1, <2>2 DEF Ordered
    <3>2. CASE x \in Ok
      BY <3>2 DEF Done
    <3>4. CASE \E h \in 1 .. j : s[h].fn = "evaluate" /\ s[h].m = x
      <4>1. PICK h \in 1 .. j : s[h].fn = "evaluate" /\ s[h].m = x
        BY <3>4
      <4>2. h \in 1 .. Len(s)
        BY <1>b, <2>0
      <4>3. t[h].fn = "evaluate" /\ t[h].m = x
        BY <4>1, <4>2, <1>b
      <4> QED BY <4>3 DEF Done
    <3>5. CASE j = Len(s) /\ r = "fail"
      BY <3>5, <2>1 DEF KeepsOrder
    <3>3. CASE k = s[j].i /\ j < Len(s) /\ s[j + 1].fn = "evaluate" /\ s[j + 1].m = x
      <4>1. t[j].i = s[j].i /\ t[j + 1].fn = s[j + 1].fn /\ t[j + 1].m = s[j + 1].m
        BY <3>3, <1>b, <2>0
      <4>2. k = t[j].i /\ j < Len(t)
        BY <3>3, <4>1, <1>b
      <4> QED BY <3>3, <4>1, <4>2 DEF Done
    <3> QED BY <3>1, <3>2, <3>3, <3>4, <3>5 DEF Done
  <2>3. CASE ~(k <= s[j].i)
    <3>1. j = Len(s) /\ k = s[j].i + 1 /\ d = 1 /\ k <= Len(f[s[j].m].req)
      BY <2>3, <1>1, <1>b, <1>c, <2>0, <2>1 DEF KeepsOrder
    <3>2. t[j + 1].fn = "evaluate" /\ t[j + 1].m = x /\ k = t[j].i /\ j < Len(t)
      BY <3>1, <2>1, <1>b DEF KeepsOrder
    <3> QED BY <3>2 DEF Done
  <2> QED BY <2>2, <2>3
<1>2. ASSUME NEW j \in 1 .. Len(t), t[j].fn = "evaluate", t[j].m # Null,
             t[j].i <= Len(f[t[j].m].req)
      PROVE  t[j].m \notin Rn2
  <2>1. CASE j = Len(s) + 1
    BY <2>1, <1>2, <1>b DEF KeepsOrder
  <2>2. CASE j # Len(s) + 1
    <3>0. j \in 1 .. Len(s)
      BY <2>2, <1>b
    <3>1. s[j].i <= t[j].i
      BY <1>b, <1>c, <3>0
    <3>2. s[j].i <= Len(f[s[j].m].req)
      BY <3>0, <3>1, <1>2, <1>b, <1>c DEF KeepsOrder
    <3> QED BY <3>0, <3>2, <1>2, <1>b DEF Ordered, KeepsOrder
  <2> QED BY <2>1, <2>2
<1>3. ASSUME NEW j \in 1 .. Len(t), t[j].fn = "body", t[j].i = 0
      PROVE  /\ j = Len(t) /\ t[j].m \in DOMAIN f
             /\ \A k \in 1 .. Len(f[t[j].m].req) : f[t[j].m].req[k] \in Mk2 \cup Ok
  <2>1. CASE j = Len(s) + 1
    BY <2>1, <1>3, <1>b DEF KeepsOrder
  <2>2. CASE j # Len(s) + 1
    <3>1. j \in 1 .. Len(s) /\ s[j].fn = "body"
      BY <2>2, <1>3, <1>b
    <3>2. CASE j = Len(s)
      BY <3>1, <3>2, <1>3, <1>b, <1>c DEF KeepsOrder
    <3>3. CASE j # Len(s)
      BY <3>1, <3>3, <1>3, <1>b DEF Ordered
    <3> QED BY <3>2, <3>3
  <2> QED BY <2>1, <2>2
<1> QED BY <1>1, <1>2, <1>3 DEF Ordered

LEMMA PushClosed ==
  ASSUME NEW f, NEW s \in Seq(Frame), NEW In, NEW Lk, Closed(f, s, In, Lk),
         NEW t, NEW d \in {0, 1}, NEW c, Pushed(s, t, d, c), s[Len(s)].fn # "instantiate"
  PROVE  Closed(f, t, In, Lk)
<1>b. /\ Len(t) = Len(s) + 1 /\ Len(s) \in Nat
      /\ \A j \in 1 .. Len(s) :
           t[j].fn = s[j].fn /\ t[j].m = s[j].m /\ (j # Len(s) => t[j].i = s[j].i)
  BY PushedFrames
<1> SUFFICES ASSUME NEW p \in Module, NEW x \in Module, <<p, x>> \in Lk, p \in In, x \notin In
             PROVE  \E j \in 1 .. Len(t) : t[j].fn = "instantiate" /\ t[j].m = p /\ Later(f, t[j], x)
  BY DEF Closed
<1>1. PICK j \in 1 .. Len(s) : s[j].fn = "instantiate" /\ s[j].m = p /\ Later(f, s[j], x)
  BY DEF Closed
<1>2. /\ j \in 1 .. Len(t) /\ t[j].fn = s[j].fn /\ t[j].m = s[j].m /\ t[j].i = s[j].i
  BY <1>1, <1>b
<1> QED BY <1>1, <1>2 DEF Later

LEMMA PushReached ==
  ASSUME NEW f, NEW s \in Seq(Frame), NEW Wt, NEW Lk, Reached(f, s, Wt, Lk),
         NEW t, NEW d \in {0, 1}, NEW c, Pushed(s, t, d, c), s[Len(s)].fn \in Begin => s[Len(s)].i # 2,
         s[Len(s)].fn = "evaluate" /\ s[Len(s)].m # Null =>
           s[Len(s)].i = Len(f[s[Len(s)].m].req)
  PROVE  Reached(f, t, Wt, Lk)
<1>b. /\ Len(t) = Len(s) + 1 /\ Len(s) \in Nat
      /\ \A j \in 1 .. Len(s) :
           t[j].fn = s[j].fn /\ t[j].m = s[j].m /\ (j # Len(s) => t[j].i = s[j].i)
  BY PushedFrames
<1>c. \A j \in 1 .. Len(s) : s[j].fn \in Fn /\ s[j].m \in Module \cup {Null} /\ s[j].i \in Nat
  BY FrameTypes
<1> SUFFICES ASSUME NEW S \in SUBSET Wt, S # {}
             PROVE  \E x \in S : Wanted(f, t, Wt, Lk, S, x)
  BY DEF Reached
<1>1. PICK x \in S : Wanted(f, s, Wt, Lk, S, x)
  BY DEF Reached
<1>2. CASE \E p \in Wt : p \notin S /\ <<p, x>> \in Lk
  BY <1>2 DEF Wanted
<1>3. ASSUME NEW j \in 1 .. Len(s), s[j].fn \in Begin, s[j].i = 2, s[j].m = x
      PROVE  \E h \in 1 .. Len(t) : t[h].fn \in Begin /\ t[h].i = 2 /\ t[h].m = x
  BY <1>3, <1>b
<1>4. ASSUME NEW j \in 1 .. Len(s), s[j].fn = "evaluate", Later(f, s[j], x)
      PROVE  \E h \in 1 .. Len(t) : t[h].fn = "evaluate" /\ Later(f, t[h], x)
  <2>1. j # Len(s)
    BY <1>4, <1>c DEF Later
  <2> QED BY <1>4, <2>1, <1>b DEF Later
<1> QED BY <1>1, <1>2, <1>3, <1>4 DEF Wanted

(* The module x is resolved by a call of which its module is not in the    *)
(* middle.                                                                 *)
ResolveAt(c, d, x) ==
  \/ c.fn = "run" /\ c.i = 1 /\ d = 0
  \/ c.fn = "compile" /\ d = 0
  \/ c.fn = "resolve" /\ d = 1
  \/ c.fn = "import" /\ c.i = 0 /\ d = 1 /\ c.m = x

(* js_resolve_module begins.                                               *)
LEMMA PushResolve ==
  ASSUME NEW f, NEW s, NEW r, NEW Ld, NEW Rs, NEW In, NEW Mk, NEW Ev, NEW Ok, NEW Rn, NEW Lk,
         LinkInv(f, s, r, Ld, Rs, In, Mk, Ev, Ok, Rn, Lk),
         NEW d \in {0, 1}, NEW x \in Ld, x \notin In, NEW t, NEW c,
         \A j \in 1 .. Len(s) : s[j].fn = "resolve" => s[j].m # x,
         ResolveAt(s[Len(s)], d, x), Pushed(s, t, d, c),
         c.fn = "resolve" /\ c.m = x /\ c.i = 0
  PROVE  LinkInv(f, t, "none", Ld, Rs \cup {x}, In, Mk, Ev, Ok, Rn, Lk)
<1>T. Typed(f, s, r) /\ Flags(f, Ld, Rs, In, Mk, Ev, Ok, Rn, Lk)
  BY DEF LinkInv
<1>N. Nested(s)
  BY DEF LinkInv
<1>C. Calls(s, Rs, In, Mk, Ev)
  BY DEF LinkInv
<1>O. Once(s, Mk)
  BY DEF LinkInv
<1>A. Answered(f, s, r)
  BY DEF LinkInv
<1>D. Ordered(f, s, r, Mk, Ok, Rn)
  BY DEF LinkInv
<1>R. ~Failing(s, r) => Closed(f, s, In, Lk) /\ Reached(f, s, Waiting(In, Mk, Ev), Lk)
  BY DEF LinkInv
<1>a. s \in Seq(Frame) /\ s # <<>> /\ d \in {0, 1}
  BY <1>T DEF Typed, Pushed
<1>b. /\ t # <<>> /\ t \in Seq(Frame) /\ Len(t) = Len(s) + 1 /\ Len(s) \in Nat /\ Len(s) > 0
      /\ \A j \in 1 .. Len(s) :
           t[j].fn = s[j].fn /\ t[j].m = s[j].m /\ (j # Len(s) => t[j].i = s[j].i)
      /\ t[Len(s)].i = s[Len(s)].i + d
      /\ t[Len(s) + 1] = c /\ c \in Frame
  BY <1>a, PushedFrames
<1>c. \A j \in 1 .. Len(s) : s[j].fn \in Fn /\ s[j].m \in Module \cup {Null} /\ s[j].i \in Nat
  BY <1>a, FrameTypes
<1>e. /\ c.fn = "resolve" /\ c.m = x /\ c.i = 0 /\ x # Null /\ ResolveAt(s[Len(s)], d, x)
      /\ \A j \in 1 .. Len(s) : s[j].fn = "resolve" => s[j].m # x
  BY <1>T, ModuleAssumption DEF Flags, Typed
<1>z. \A j \in 1 .. Len(s) : s[j].fn = "evaluate" /\ s[j].m # Null => Len(f[s[j].m].req) \in Nat
  BY <1>T, <1>C DEF Calls, Known, Flags, Typed
<1>1. Typed(f, t, "none")
  BY <1>T, <1>b DEF Typed
<1>2. Flags(f, Ld, Rs \cup {x}, In, Mk, Ev, Ok, Rn, Lk)
  BY <1>T DEF Flags
<1>3. Nested(t)
  <2>1. Starts(t[Len(s)], c.fn) /\ (t[Len(s)].fn \in Begin => t[Len(s)].i <= 3)
    BY <1>b, <1>c, <1>e DEF ResolveAt, Starts, Loading, Begin
  <2> QED BY <2>1, <1>N, <1>a, <1>e, PushNested DEF Begin
<1>4. Calls(t, Rs \cup {x}, In, Mk, Ev)
  <2>1. ASSUME NEW j \in 1 .. Len(t), t[j].m # Null
        PROVE  Known(t[j], Rs \cup {x}, In, Mk, Ev)
    <3>1. CASE j = Len(s) + 1
      BY <3>1, <1>b, <1>e DEF ResolveAt, Known, Loading, Begin
    <3>2. CASE j # Len(s) + 1
      <4>1. /\ j \in 1 .. Len(s) /\ s[j].fn = t[j].fn /\ s[j].m = t[j].m
            /\ Known(s[j], Rs, In, Mk, Ev)
        BY <3>2, <2>1, <1>b, <1>C DEF Calls
      <4>2. CASE j # Len(s)
        <5>1. t[j].i = s[j].i
          BY <4>1, <4>2, <1>b
        <5> QED BY <4>1, <4>2, <5>1 DEF ResolveAt, Known, Loading, Begin
      <4>3. CASE j = Len(s)
        <5>1. t[j].i = s[j].i + d
          BY <4>1, <4>3, <1>b
        <5> QED BY <4>1, <4>3, <5>1, <1>c, <1>e DEF ResolveAt, Known, Loading, Begin
      <4> QED BY <4>2, <4>3
    <3> QED BY <3>1, <3>2
  <2> QED BY <2>1 DEF Calls
<1>5. Once(t, Mk)
  <2>1. ASSUME NEW j \in 1 .. Len(t), NEW k \in 1 .. Len(t),
               t[j].fn \in {"resolve", "instantiate", "evaluate"}, t[j].m # Null,
               t[j].fn = t[k].fn, t[j].m = t[k].m
        PROVE  j = k
    <3>1. CASE j # Len(s) + 1 /\ k # Len(s) + 1
      BY <3>1, <2>1, <1>b, <1>O DEF Once
    <3>2. CASE j = Len(s) + 1 \/ k = Len(s) + 1
      BY <3>2, <2>1, <1>b, <1>e
    <3> QED BY <3>1, <3>2
  <2> QED BY <2>1, <1>b, <1>O DEF Once
<1>6. Answered(f, t, "none")
  <2>1. t[Len(t)] = c
    BY <1>b
  <2> QED BY <2>1, <1>e DEF Answered, Waited
<1>7. Ordered(f, t, "none", Mk, Ok, Rn)
  <2>1. s[Len(s)].fn \notin {"evaluate", "body"}
    BY <1>e DEF ResolveAt
  <2>2. \A j \in 1 .. Len(s) : s[j].fn = "evaluate" /\ s[j].m # Null => Len(f[s[j].m].req) \in Nat
    BY <1>z
  <2>3. KeepsOrder(f, s, t, d, c, r, Mk, Ok, Rn, Mk, Rn)
    BY <2>1, <2>2, <1>e DEF KeepsOrder
  <2> QED BY <2>3, <1>D, <1>a, PushOrdered
<1>8. ~Failing(t, "none") => Closed(f, t, In, Lk)
  <2>1. ~Failing(s, r) /\ s[Len(s)].fn # "instantiate"
    BY <1>e, <1>c DEF ResolveAt, Failing, Begin
  <2> QED BY <2>1, <1>R, <1>a, PushClosed
<1>9. ~Failing(t, "none") => Reached(f, t, Waiting(In, Mk, Ev), Lk)
  <2>1. ~Failing(s, r) /\ s[Len(s)].fn # "evaluate" /\ (s[Len(s)].fn \in Begin => s[Len(s)].i # 2)
    BY <1>e, <1>c DEF ResolveAt, Failing, Begin
  <2> QED BY <2>1, <1>R, <1>a, PushReached
<1> QED BY <1>1, <1>2, <1>3, <1>4, <1>5, <1>6, <1>7, <1>8, <1>9 DEF LinkInv

(* js_module_loader compiles a file, under a new module.                   *)
LEMMA PushCompile ==
  ASSUME NEW f, NEW s, NEW r, NEW Ld, NEW Rs, NEW In, NEW Mk, NEW Ev, NEW Ok, NEW Rn, NEW Lk,
         LinkInv(f, s, r, Ld, Rs, In, Mk, Ev, Ok, Rn, Lk),
         NEW m \in DOMAIN f, m \notin Ld, NEW t, NEW c, s[Len(s)].fn = "resolve" \/
           (s[Len(s)].fn = "import" /\ s[Len(s)].i = 0), Pushed(s, t, 0, c),
         c.fn = "compile" /\ c.m = m /\ c.i = 1
  PROVE  LinkInv(f, t, "ok", Ld \cup {m}, Rs \cup {m}, In, Mk, Ev, Ok, Rn, Lk)
<1>T. Typed(f, s, r) /\ Flags(f, Ld, Rs, In, Mk, Ev, Ok, Rn, Lk)
  BY DEF LinkInv
<1>N. Nested(s)
  BY DEF LinkInv
<1>C. Calls(s, Rs, In, Mk, Ev)
  BY DEF LinkInv
<1>O. Once(s, Mk)
  BY DEF LinkInv
<1>A. Answered(f, s, r)
  BY DEF LinkInv
<1>D. Ordered(f, s, r, Mk, Ok, Rn)
  BY DEF LinkInv
<1>R. ~Failing(s, r) => Closed(f, s, In, Lk) /\ Reached(f, s, Waiting(In, Mk, Ev), Lk)
  BY DEF LinkInv
<1>a. s \in Seq(Frame) /\ s # <<>> /\ 0 \in {0, 1}
  BY <1>T DEF Typed, Pushed
<1>b. /\ t # <<>> /\ t \in Seq(Frame) /\ Len(t) = Len(s) + 1 /\ Len(s) \in Nat /\ Len(s) > 0
      /\ \A j \in 1 .. Len(s) :
           t[j].fn = s[j].fn /\ t[j].m = s[j].m /\ (j # Len(s) => t[j].i = s[j].i)
      /\ t[Len(s)].i = s[Len(s)].i + 0
      /\ t[Len(s) + 1] = c /\ c \in Frame
  BY <1>a, PushedFrames
<1>c. \A j \in 1 .. Len(s) : s[j].fn \in Fn /\ s[j].m \in Module \cup {Null} /\ s[j].i \in Nat
  BY <1>a, FrameTypes
<1>e. /\ c.fn = "compile" /\ c.m = m /\ c.i = 1 /\ m # Null
      /\ s[Len(s)].fn = "resolve" \/ (s[Len(s)].fn = "import" /\ s[Len(s)].i = 0)
  BY <1>T, ModuleAssumption DEF Flags, Typed
<1>z. \A j \in 1 .. Len(s) : s[j].fn = "evaluate" /\ s[j].m # Null => Len(f[s[j].m].req) \in Nat
  BY <1>T, <1>C DEF Calls, Known, Flags, Typed
<1>1. Typed(f, t, "ok")
  BY <1>T, <1>b DEF Typed
<1>2. Flags(f, Ld \cup {m}, Rs \cup {m}, In, Mk, Ev, Ok, Rn, Lk)
  BY <1>T DEF Flags
<1>3. Nested(t)
  <2>1. Starts(t[Len(s)], c.fn) /\ (t[Len(s)].fn \in Begin => t[Len(s)].i <= 3)
    BY <1>b, <1>c, <1>e DEF Starts, Loading, Begin
  <2> QED BY <2>1, <1>N, <1>a, <1>e, PushNested DEF Begin
<1>4. Calls(t, Rs \cup {m}, In, Mk, Ev)
  <2>1. ASSUME NEW j \in 1 .. Len(t), t[j].m # Null
        PROVE  Known(t[j], Rs \cup {m}, In, Mk, Ev)
    <3>1. CASE j = Len(s) + 1
      BY <3>1, <1>b, <1>e, <1>T DEF Known, Loading, Begin, Flags
    <3>2. CASE j # Len(s) + 1
      <4>1. /\ j \in 1 .. Len(s) /\ s[j].fn = t[j].fn /\ s[j].m = t[j].m
            /\ Known(s[j], Rs, In, Mk, Ev)
        BY <3>2, <2>1, <1>b, <1>C DEF Calls
      <4>2. CASE j # Len(s)
        <5>1. t[j].i = s[j].i
          BY <4>1, <4>2, <1>b
        <5> QED BY <4>1, <4>2, <5>1 DEF Known, Loading, Begin, Flags
      <4>3. CASE j = Len(s)
        <5>1. t[j].i = s[j].i + 0
          BY <4>1, <4>3, <1>b
        <5> QED BY <4>1, <4>3, <5>1, <1>c, <1>e DEF Known, Loading, Begin, Flags
      <4> QED BY <4>2, <4>3
    <3> QED BY <3>1, <3>2
  <2> QED BY <2>1 DEF Calls
<1>5. Once(t, Mk)
  <2>1. ASSUME NEW j \in 1 .. Len(t), NEW k \in 1 .. Len(t),
               t[j].fn \in {"resolve", "instantiate", "evaluate"}, t[j].m # Null,
               t[j].fn = t[k].fn, t[j].m = t[k].m
        PROVE  j = k
    <3>1. CASE j # Len(s) + 1 /\ k # Len(s) + 1
      BY <3>1, <2>1, <1>b, <1>O DEF Once
    <3>2. CASE j = Len(s) + 1 \/ k = Len(s) + 1
      BY <3>2, <2>1, <1>b, <1>e
    <3> QED BY <3>1, <3>2
  <2> QED BY <2>1, <1>b, <1>O DEF Once
<1>6. Answered(f, t, "ok")
  BY DEF Answered
<1>7. Ordered(f, t, "ok", Mk, Ok, Rn)
  <2>1. KeepsOrder(f, s, t, 0, c, r, Mk, Ok, Rn, Mk, Rn)
    BY <1>z, <1>e DEF KeepsOrder
  <2> QED BY <2>1, <1>D, <1>a, PushOrdered
<1>8. ~Failing(t, "ok") => Closed(f, t, In, Lk)
  <2>1. ~Failing(s, r) /\ s[Len(s)].fn # "instantiate"
    BY <1>e, <1>c DEF Failing, Begin
  <2> QED BY <2>1, <1>R, <1>a, PushClosed
<1>9. ~Failing(t, "ok") => Reached(f, t, Waiting(In, Mk, Ev), Lk)
  <2>1. ~Failing(s, r) /\ s[Len(s)].fn # "evaluate" /\ (s[Len(s)].fn \in Begin => s[Len(s)].i # 2)
    BY <1>e, <1>c DEF Failing, Begin
  <2> QED BY <2>1, <1>R, <1>a, PushReached
<1> QED BY <1>1, <1>2, <1>3, <1>4, <1>5, <1>6, <1>7, <1>8, <1>9 DEF LinkInv

(* A body calls import().                                                  *)
LEMMA PushImport ==
  ASSUME NEW f, NEW s, NEW r, NEW Ld, NEW Rs, NEW In, NEW Mk, NEW Ev, NEW Ok, NEW Rn, NEW Lk,
         LinkInv(f, s, r, Ld, Rs, In, Mk, Ev, Ok, Rn, Lk),
         NEW m \in Module, NEW t, NEW c, s[Len(s)].fn = "body", Pushed(s, t, 1, c),
         c.fn = "import" /\ c.m = m /\ c.i = 0
  PROVE  LinkInv(f, t, "none", Ld, Rs, In, Mk, Ev, Ok, Rn, Lk)
<1>T. Typed(f, s, r) /\ Flags(f, Ld, Rs, In, Mk, Ev, Ok, Rn, Lk)
  BY DEF LinkInv
<1>N. Nested(s)
  BY DEF LinkInv
<1>C. Calls(s, Rs, In, Mk, Ev)
  BY DEF LinkInv
<1>O. Once(s, Mk)
  BY DEF LinkInv
<1>A. Answered(f, s, r)
  BY DEF LinkInv
<1>D. Ordered(f, s, r, Mk, Ok, Rn)
  BY DEF LinkInv
<1>R. ~Failing(s, r) => Closed(f, s, In, Lk) /\ Reached(f, s, Waiting(In, Mk, Ev), Lk)
  BY DEF LinkInv
<1>a. s \in Seq(Frame) /\ s # <<>> /\ 1 \in {0, 1}
  BY <1>T DEF Typed, Pushed
<1>b. /\ t # <<>> /\ t \in Seq(Frame) /\ Len(t) = Len(s) + 1 /\ Len(s) \in Nat /\ Len(s) > 0
      /\ \A j \in 1 .. Len(s) :
           t[j].fn = s[j].fn /\ t[j].m = s[j].m /\ (j # Len(s) => t[j].i = s[j].i)
      /\ t[Len(s)].i = s[Len(s)].i + 1
      /\ t[Len(s) + 1] = c /\ c \in Frame
  BY <1>a, PushedFrames
<1>c. \A j \in 1 .. Len(s) : s[j].fn \in Fn /\ s[j].m \in Module \cup {Null} /\ s[j].i \in Nat
  BY <1>a, FrameTypes
<1>e. /\ c.fn = "import" /\ c.m = m /\ c.i = 0 /\ m # Null /\ s[Len(s)].fn = "body"
  BY ModuleAssumption
<1>z. \A j \in 1 .. Len(s) : s[j].fn = "evaluate" /\ s[j].m # Null => Len(f[s[j].m].req) \in Nat
  BY <1>T, <1>C DEF Calls, Known, Flags, Typed
<1>1. Typed(f, t, "none")
  BY <1>T, <1>b DEF Typed
<1>2. Flags(f, Ld, Rs, In, Mk, Ev, Ok, Rn, Lk)
  BY <1>T
<1>3. Nested(t)
  <2>1. Starts(t[Len(s)], c.fn) /\ (t[Len(s)].fn \in Begin => t[Len(s)].i <= 3)
    BY <1>b, <1>c, <1>e DEF Starts, Loading, Begin
  <2> QED BY <2>1, <1>N, <1>a, <1>e, PushNested DEF Begin
<1>4. Calls(t, Rs, In, Mk, Ev)
  <2>1. ASSUME NEW j \in 1 .. Len(t), t[j].m # Null
        PROVE  Known(t[j], Rs, In, Mk, Ev)
    <3>1. CASE j = Len(s) + 1
      BY <3>1, <1>b, <1>e DEF Known, Loading, Begin
    <3>2. CASE j # Len(s) + 1
      <4>1. /\ j \in 1 .. Len(s) /\ s[j].fn = t[j].fn /\ s[j].m = t[j].m
            /\ Known(s[j], Rs, In, Mk, Ev)
        BY <3>2, <2>1, <1>b, <1>C DEF Calls
      <4>2. CASE j # Len(s)
        <5>1. t[j].i = s[j].i
          BY <4>1, <4>2, <1>b
        <5> QED BY <4>1, <4>2, <5>1 DEF Known, Loading, Begin
      <4>3. CASE j = Len(s)
        <5>1. t[j].i = s[j].i + 1
          BY <4>1, <4>3, <1>b
        <5> QED BY <4>1, <4>3, <5>1, <1>c, <1>e DEF Known, Loading, Begin
      <4> QED BY <4>2, <4>3
    <3> QED BY <3>1, <3>2
  <2> QED BY <2>1 DEF Calls
<1>5. Once(t, Mk)
  <2>1. ASSUME NEW j \in 1 .. Len(t), NEW k \in 1 .. Len(t),
               t[j].fn \in {"resolve", "instantiate", "evaluate"}, t[j].m # Null,
               t[j].fn = t[k].fn, t[j].m = t[k].m
        PROVE  j = k
    <3>1. CASE j # Len(s) + 1 /\ k # Len(s) + 1
      BY <3>1, <2>1, <1>b, <1>O DEF Once
    <3>2. CASE j = Len(s) + 1 \/ k = Len(s) + 1
      BY <3>2, <2>1, <1>b, <1>e
    <3> QED BY <3>1, <3>2
  <2> QED BY <2>1, <1>b, <1>O DEF Once
<1>6. Answered(f, t, "none")
  <2>1. t[Len(t)] = c
    BY <1>b
  <2> QED BY <2>1, <1>e DEF Answered, Waited
<1>7. Ordered(f, t, "none", Mk, Ok, Rn)
  <2>1. KeepsOrder(f, s, t, 1, c, r, Mk, Ok, Rn, Mk, Rn)
    BY <1>z, <1>e DEF KeepsOrder
  <2> QED BY <2>1, <1>D, <1>a, PushOrdered
<1>8. ~Failing(t, "none") => Closed(f, t, In, Lk)
  <2>1. ~Failing(s, r) /\ s[Len(s)].fn # "instantiate"
    BY <1>e, <1>c DEF Failing, Begin
  <2> QED BY <2>1, <1>R, <1>a, PushClosed
<1>9. ~Failing(t, "none") => Reached(f, t, Waiting(In, Mk, Ev), Lk)
  <2>1. ~Failing(s, r) /\ s[Len(s)].fn # "evaluate" /\ (s[Len(s)].fn \in Begin => s[Len(s)].i # 2)
    BY <1>e, <1>c DEF Failing, Begin
  <2> QED BY <2>1, <1>R, <1>a, PushReached
<1> QED BY <1>1, <1>2, <1>3, <1>4, <1>5, <1>6, <1>7, <1>8, <1>9 DEF LinkInv

(* All requests of a module are evaluated: its body begins.                *)
LEMMA PushBody ==
  ASSUME NEW f, NEW s, NEW r, NEW Ld, NEW Rs, NEW In, NEW Mk, NEW Ev, NEW Ok, NEW Rn, NEW Lk,
         LinkInv(f, s, r, Ld, Rs, In, Mk, Ev, Ok, Rn, Lk),
         NEW m \in Module, NEW t, NEW c, s[Len(s)].fn = "evaluate", s[Len(s)].m = m, r # "fail",
         s[Len(s)].i = Len(f[m].req), Pushed(s, t, 1, c), c.fn = "body" /\ c.m = m /\ c.i = 0
  PROVE  LinkInv(f, t, "none", Ld, Rs, In, Mk, Ev, Ok, Rn \cup {m}, Lk)
<1>T. Typed(f, s, r) /\ Flags(f, Ld, Rs, In, Mk, Ev, Ok, Rn, Lk)
  BY DEF LinkInv
<1>N. Nested(s)
  BY DEF LinkInv
<1>C. Calls(s, Rs, In, Mk, Ev)
  BY DEF LinkInv
<1>O. Once(s, Mk)
  BY DEF LinkInv
<1>A. Answered(f, s, r)
  BY DEF LinkInv
<1>D. Ordered(f, s, r, Mk, Ok, Rn)
  BY DEF LinkInv
<1>R. ~Failing(s, r) => Closed(f, s, In, Lk) /\ Reached(f, s, Waiting(In, Mk, Ev), Lk)
  BY DEF LinkInv
<1>a. s \in Seq(Frame) /\ s # <<>> /\ 1 \in {0, 1}
  BY <1>T DEF Typed, Pushed
<1>b. /\ t # <<>> /\ t \in Seq(Frame) /\ Len(t) = Len(s) + 1 /\ Len(s) \in Nat /\ Len(s) > 0
      /\ \A j \in 1 .. Len(s) :
           t[j].fn = s[j].fn /\ t[j].m = s[j].m /\ (j # Len(s) => t[j].i = s[j].i)
      /\ t[Len(s)].i = s[Len(s)].i + 1
      /\ t[Len(s) + 1] = c /\ c \in Frame
  BY <1>a, PushedFrames
<1>c. \A j \in 1 .. Len(s) : s[j].fn \in Fn /\ s[j].m \in Module \cup {Null} /\ s[j].i \in Nat
  BY <1>a, FrameTypes
<1>e. /\ c.fn = "body" /\ c.m = m /\ c.i = 0 /\ m # Null /\ r # "fail"
      /\ s[Len(s)].fn = "evaluate" /\ s[Len(s)].m = m /\ s[Len(s)].i = Len(f[m].req)
  BY ModuleAssumption
<1>z. \A j \in 1 .. Len(s) : s[j].fn = "evaluate" /\ s[j].m # Null => Len(f[s[j].m].req) \in Nat
  BY <1>T, <1>C DEF Calls, Known, Flags, Typed
<1>f. /\ m \in Mk /\ m \in DOMAIN f /\ f[m].req \in Seq(Module) /\ Len(f[m].req) \in Nat
      /\ \A k \in 1 .. Len(f[m].req) : f[m].req[k] \in Module
  <2>1. m \in Mk
    BY <1>C, <1>e, <1>b DEF Calls, Known
  <2> QED BY <2>1, <1>T DEF Flags, Typed
<1>1. Typed(f, t, "none")
  BY <1>T, <1>b DEF Typed
<1>2. Flags(f, Ld, Rs, In, Mk, Ev, Ok, Rn \cup {m}, Lk)
  BY <1>T, <1>f DEF Flags
<1>3. Nested(t)
  <2>1. Starts(t[Len(s)], c.fn) /\ (t[Len(s)].fn \in Begin => t[Len(s)].i <= 3)
    BY <1>b, <1>c, <1>e DEF Starts, Loading, Begin
  <2> QED BY <2>1, <1>N, <1>a, <1>e, PushNested DEF Begin
<1>4. Calls(t, Rs, In, Mk, Ev)
  <2>1. ASSUME NEW j \in 1 .. Len(t), t[j].m # Null
        PROVE  Known(t[j], Rs, In, Mk, Ev)
    <3>1. CASE j = Len(s) + 1
      BY <3>1, <1>b, <1>e DEF Known, Loading, Begin
    <3>2. CASE j # Len(s) + 1
      <4>1. /\ j \in 1 .. Len(s) /\ s[j].fn = t[j].fn /\ s[j].m = t[j].m
            /\ Known(s[j], Rs, In, Mk, Ev)
        BY <3>2, <2>1, <1>b, <1>C DEF Calls
      <4>2. CASE j # Len(s)
        <5>1. t[j].i = s[j].i
          BY <4>1, <4>2, <1>b
        <5> QED BY <4>1, <4>2, <5>1 DEF Known, Loading, Begin
      <4>3. CASE j = Len(s)
        <5>1. t[j].i = s[j].i + 1
          BY <4>1, <4>3, <1>b
        <5> QED BY <4>1, <4>3, <5>1, <1>c, <1>e DEF Known, Loading, Begin
      <4> QED BY <4>2, <4>3
    <3> QED BY <3>1, <3>2
  <2> QED BY <2>1 DEF Calls
<1>5. Once(t, Mk)
  <2>1. ASSUME NEW j \in 1 .. Len(t), NEW k \in 1 .. Len(t),
               t[j].fn \in {"resolve", "instantiate", "evaluate"}, t[j].m # Null,
               t[j].fn = t[k].fn, t[j].m = t[k].m
        PROVE  j = k
    <3>1. CASE j # Len(s) + 1 /\ k # Len(s) + 1
      BY <3>1, <2>1, <1>b, <1>O DEF Once
    <3>2. CASE j = Len(s) + 1 \/ k = Len(s) + 1
      BY <3>2, <2>1, <1>b, <1>e
    <3> QED BY <3>1, <3>2
  <2> QED BY <2>1, <1>b, <1>O DEF Once
<1>6. Answered(f, t, "none")
  <2>1. t[Len(t)] = c
    BY <1>b
  <2> QED BY <2>1, <1>e DEF Answered, Waited
<1>7. Ordered(f, t, "none", Mk, Ok, Rn \cup {m})
  <2>1. ASSUME NEW k \in 1 .. Len(f[m].req)
        PROVE  f[m].req[k] \in Mk \cup Ok
    <3> DEFINE x == f[m].req[k]
    <3>1. Done(s, r, Ok, Len(s), x, k = s[Len(s)].i)
      BY <1>D, <1>b, <1>e, <1>f DEF Ordered
    <3>2. x \in Module
      BY <1>f
    <3> HIDE DEF x
    <3>3. x \in Ok \/ \E h \in 1 .. Len(s) : s[h].fn = "evaluate" /\ s[h].m = x
      BY <3>1, <1>b, <1>e DEF Done
    <3>4. ASSUME NEW h \in 1 .. Len(s), s[h].fn = "evaluate", s[h].m = x
          PROVE  x \in Mk
      BY <3>2, <3>4, <1>C, ModuleAssumption DEF Calls, Known
    <3> QED BY <3>3, <3>4 DEF x
  <2>2. ASSUME NEW j \in 1 .. Len(s), s[j].fn = "evaluate", s[j].m # Null,
               t[j].i <= Len(f[s[j].m].req)
        PROVE  s[j].m # m
    <3>1. s[j].m = m => j = Len(s)
      BY <2>2, <1>O, <1>b, <1>e DEF Once
    <3> QED BY <3>1, <2>2, <1>b, <1>e, <1>f
  <2>3. s[Len(s)].i + 1 > Len(f[m].req)
    BY <1>e, <1>f
  <2>4. KeepsOrder(f, s, t, 1, c, r, Mk, Ok, Rn, Mk, Rn \cup {m})
    BY <2>1, <2>2, <2>3, <1>z, <1>e, <1>f DEF KeepsOrder
  <2> QED BY <2>4, <1>D, <1>a, PushOrdered
<1>8. ~Failing(t, "none") => Closed(f, t, In, Lk)
  <2>1. ~Failing(s, r) /\ s[Len(s)].fn # "instantiate"
    BY <1>e, <1>c DEF Failing, Begin
  <2> QED BY <2>1, <1>R, <1>a, PushClosed
<1>9. ~Failing(t, "none") => Reached(f, t, Waiting(In, Mk, Ev), Lk)
  <2>1. ~Failing(s, r) /\ (s[Len(s)].fn \in Begin => s[Len(s)].i # 2)
    BY <1>e, <1>c DEF Failing, Begin
  <2> QED BY <2>1, <1>e, <1>R, <1>a, PushReached
<1> QED BY <1>1, <1>2, <1>3, <1>4, <1>5, <1>6, <1>7, <1>8, <1>9 DEF LinkInv

(* The module x, which is resolved, is instantiated for the call c.        *)
InstantiateAt(f, Lk, c, r, x) ==
  /\ r # "fail" /\ c.m # Null
  /\ \/ c.fn \in Begin /\ c.i = 1 /\ c.m = x
     \/ /\ c.fn = "instantiate" /\ c.i < Len(f[c.m].req) /\ f[c.m].req[c.i + 1] = x
        /\ <<c.m, x>> \in Lk

(* js_instantiate_module begins.                                           *)
LEMMA PushInstantiate ==
  ASSUME NEW f, NEW s, NEW r, NEW Ld, NEW Rs, NEW In, NEW Mk, NEW Ev, NEW Ok, NEW Rn, NEW Lk,
         LinkInv(f, s, r, Ld, Rs, In, Mk, Ev, Ok, Rn, Lk),
         NEW x, x \notin In, NEW t, NEW c, InstantiateAt(f, Lk, s[Len(s)], r, x),
         Pushed(s, t, 1, c), c.fn = "instantiate" /\ c.m = x /\ c.i = 0
  PROVE  LinkInv(f, t, "none", Ld, Rs, In \cup {x}, Mk, Ev, Ok, Rn, Lk)
<1>T. Typed(f, s, r) /\ Flags(f, Ld, Rs, In, Mk, Ev, Ok, Rn, Lk)
  BY DEF LinkInv
<1>N. Nested(s)
  BY DEF LinkInv
<1>C. Calls(s, Rs, In, Mk, Ev)
  BY DEF LinkInv
<1>O. Once(s, Mk)
  BY DEF LinkInv
<1>A. Answered(f, s, r)
  BY DEF LinkInv
<1>D. Ordered(f, s, r, Mk, Ok, Rn)
  BY DEF LinkInv
<1>R. ~Failing(s, r) => Closed(f, s, In, Lk) /\ Reached(f, s, Waiting(In, Mk, Ev), Lk)
  BY DEF LinkInv
<1>a. s \in Seq(Frame) /\ s # <<>> /\ 1 \in {0, 1}
  BY <1>T DEF Typed, Pushed
<1>b. /\ t # <<>> /\ t \in Seq(Frame) /\ Len(t) = Len(s) + 1 /\ Len(s) \in Nat /\ Len(s) > 0
      /\ \A j \in 1 .. Len(s) :
           t[j].fn = s[j].fn /\ t[j].m = s[j].m /\ (j # Len(s) => t[j].i = s[j].i)
      /\ t[Len(s)].i = s[Len(s)].i + 1
      /\ t[Len(s) + 1] = c /\ c \in Frame
  BY <1>a, PushedFrames
<1>c. \A j \in 1 .. Len(s) : s[j].fn \in Fn /\ s[j].m \in Module \cup {Null} /\ s[j].i \in Nat
  BY <1>a, FrameTypes
<1>e. /\ c.fn = "instantiate" /\ c.m = x /\ c.i = 0 /\ x \notin In /\ x \in Rs /\ x # Null
      /\ InstantiateAt(f, Lk, s[Len(s)], r, x)
  <2>1. x \in Rs
    BY <1>T, <1>C, <1>b, <1>c DEF InstantiateAt, Calls, Known, Flags, Begin
  <2> QED BY <2>1, <1>T, ModuleAssumption DEF Flags, Typed
<1>z. \A j \in 1 .. Len(s) : s[j].fn = "evaluate" /\ s[j].m # Null => Len(f[s[j].m].req) \in Nat
  BY <1>T, <1>C DEF Calls, Known, Flags, Typed
<1>g. \A j \in 1 .. Len(s) : s[j].fn = "instantiate" => s[j].m # x
  BY <1>C, <1>e DEF Calls, Known
<1>h. /\ ~Failing(s, r) /\ \A j \in 1 .. Len(s) : s[j].fn \notin Loading
      /\ \A j \in 1 .. Len(s) : s[j].fn = "run" /\ s[j].i = 1 => j = Len(s)
  <2>1. s[Len(s)].fn \notin Loading /\ ~Failing(s, r)
    BY <1>e DEF InstantiateAt, Loading, Begin, Failing
  <2> QED BY <2>1, <1>N, <1>a, NotLoading
<1>1. Typed(f, t, "none")
  BY <1>T, <1>b DEF Typed
<1>2. Flags(f, Ld, Rs, In \cup {x}, Mk, Ev, Ok, Rn, Lk)
  BY <1>T, <1>e DEF Flags
<1>3. Nested(t)
  <2>1. Starts(t[Len(s)], c.fn) /\ (t[Len(s)].fn \in Begin => t[Len(s)].i <= 3)
    BY <1>b, <1>c, <1>e DEF Starts, Loading, Begin, InstantiateAt
  <2> QED BY <2>1, <1>N, <1>a, <1>e, PushNested DEF Begin
<1>4. Calls(t, Rs, In \cup {x}, Mk, Ev)
  <2>1. ASSUME NEW j \in 1 .. Len(t), t[j].m # Null
        PROVE  Known(t[j], Rs, In \cup {x}, Mk, Ev)
    <3>1. CASE j = Len(s) + 1
      BY <3>1, <1>b, <1>e, <1>T DEF Flags, InstantiateAt, Known, Loading, Begin
    <3>2. CASE j # Len(s) + 1
      <4>1. /\ j \in 1 .. Len(s) /\ s[j].fn = t[j].fn /\ s[j].m = t[j].m
            /\ Known(s[j], Rs, In, Mk, Ev)
        BY <3>2, <2>1, <1>b, <1>C DEF Calls
      <4>2. CASE j # Len(s)
        <5>1. t[j].i = s[j].i
          BY <4>1, <4>2, <1>b
        <5>2. s[j].fn \notin Loading /\ ~(s[j].fn = "run" /\ s[j].i = 1)
          BY <4>1, <4>2, <1>h
        <5> QED BY <4>1, <4>2, <5>1, <5>2 DEF Flags, InstantiateAt, Known, Loading, Begin
      <4>3. CASE j = Len(s)
        <5>1. t[j].i = s[j].i + 1
          BY <4>1, <4>3, <1>b
        <5> QED BY <4>1, <4>3, <5>1, <1>c, <1>e DEF Flags, InstantiateAt, Known, Loading, Begin
      <4> QED BY <4>2, <4>3
    <3> QED BY <3>1, <3>2
  <2> QED BY <2>1 DEF Calls
<1>5. Once(t, Mk)
  <2>1. ASSUME NEW j \in 1 .. Len(t), NEW k \in 1 .. Len(t),
               t[j].fn \in {"resolve", "instantiate", "evaluate"}, t[j].m # Null,
               t[j].fn = t[k].fn, t[j].m = t[k].m
        PROVE  j = k
    <3>1. CASE j # Len(s) + 1 /\ k # Len(s) + 1
      BY <3>1, <2>1, <1>b, <1>O DEF Once
    <3>2. CASE j = Len(s) + 1 \/ k = Len(s) + 1
      BY <3>2, <2>1, <1>b, <1>e, <1>g
    <3> QED BY <3>1, <3>2
  <2> QED BY <2>1, <1>b, <1>O DEF Once
<1>6. Answered(f, t, "none")
  <2>1. t[Len(t)] = c
    BY <1>b
  <2> QED BY <2>1, <1>e DEF Answered, Waited
<1>7. Ordered(f, t, "none", Mk, Ok, Rn)
  <2>1. KeepsOrder(f, s, t, 1, c, r, Mk, Ok, Rn, Mk, Rn)
    BY <1>z, <1>e DEF KeepsOrder, InstantiateAt, Begin
  <2> QED BY <2>1, <1>D, <1>a, PushOrdered
<1>8. ~Failing(t, "none") => Closed(f, t, In \cup {x}, Lk)
  <2>1. Closed(f, s, In, Lk)
    BY <1>R, <1>h
  <2> SUFFICES ASSUME NEW p \in Module, NEW y \in Module,
                      <<p, y>> \in Lk, p \in In \cup {x}, y \notin In \cup {x}
               PROVE  \E j \in 1 .. Len(t) : t[j].fn = "instantiate" /\ t[j].m = p /\ Later(f, t[j], y)
    BY DEF Closed
  <2>2. CASE p \notin In
    <3>1. p = x
      BY <2>2
    <3>2. PICK k \in 1 .. Len(f[p].req) : f[p].req[k] = y
      BY <1>T DEF Flags
    <3>3. Later(f, c, y)
      BY <3>1, <3>2, <1>e DEF Later
    <3> QED BY <3>1, <3>3, <1>b, <1>e
  <2>3. CASE p \in In
    <3>1. PICK j \in 1 .. Len(s) : s[j].fn = "instantiate" /\ s[j].m = p /\ Later(f, s[j], y)
      BY <2>1, <2>3 DEF Closed
    <3>2. j \in 1 .. Len(t) /\ t[j].fn = "instantiate" /\ t[j].m = p
      BY <3>1, <1>b
    <3>3. Later(f, t[j], y)
      <4>1. CASE j # Len(s)
        BY <3>1, <4>1, <1>b DEF Later
      <4>2. CASE j = Len(s)
        <5>1. t[j].i = s[j].i + 1 /\ t[j].m = s[j].m
          BY <4>2, <1>b
        <5>2. f[s[j].m].req[s[j].i + 1] = x
          BY <3>1, <4>2, <1>e DEF InstantiateAt, Begin
        <5> QED BY <3>1, <5>1, <5>2, <1>c DEF Later
      <4> QED BY <4>1, <4>2
    <3> QED BY <3>2, <3>3
  <2> QED BY <2>2, <2>3
<1>9. ~Failing(t, "none") => Reached(f, t, Waiting(In \cup {x}, Mk, Ev), Lk)
  <2> DEFINE Wt == Waiting(In, Mk, Ev)
             Wx == Waiting(In \cup {x}, Mk, Ev)
  <2>1. Reached(f, s, Wt, Lk) /\ Wx = Wt \cup {x} /\ x \notin Wt /\ Wt \subseteq In
        /\ (s[Len(s)].fn = "instantiate" => s[Len(s)].m \in Wt)
    BY <1>R, <1>h, <1>T, <1>C, <1>e, <1>b DEF Waiting, Flags, Calls, Known, InstantiateAt
  <2> HIDE DEF Wt, Wx
  <2> SUFFICES ASSUME NEW S \in SUBSET Wx, S # {}
               PROVE  \E y \in S : Wanted(f, t, Wx, Lk, S, y)
    BY DEF Reached, Wx
  <2>2. CASE S \ {x} = {}
    <3>1. x \in S /\ \A y \in S : y = x
      BY <2>2
    <3>2. CASE s[Len(s)].fn \in Begin
      <4>1. t[Len(s)].fn \in Begin /\ t[Len(s)].i = 2 /\ t[Len(s)].m = x /\ Len(s) \in 1 .. Len(t)
        BY <3>2, <1>b, <1>e DEF InstantiateAt, Begin
      <4> QED BY <3>1, <4>1 DEF Wanted
    <3>3. CASE s[Len(s)].fn \notin Begin
      <4>1. s[Len(s)].m \in Wt /\ <<s[Len(s)].m, x>> \in Lk /\ s[Len(s)].m # x
        BY <3>3, <2>1, <1>e DEF InstantiateAt
      <4> QED BY <4>1, <3>1, <2>1 DEF Wanted
    <3> QED BY <3>2, <3>3
  <2>3. CASE S \ {x} # {}
    <3>1. S \ {x} \in SUBSET Wt
      BY <2>1
    <3>2. PICK y \in S \ {x} : Wanted(f, s, Wt, Lk, S \ {x}, y)
      BY <2>1, <2>3, <3>1 DEF Reached
    <3>3. CASE \E p \in Wt : p \notin S \ {x} /\ <<p, y>> \in Lk
      BY <3>2, <3>3, <2>1 DEF Wanted
    <3>4. ASSUME NEW j \in 1 .. Len(s), s[j].fn \in Begin, s[j].i = 2, s[j].m = y
          PROVE  Wanted(f, t, Wx, Lk, S, y)
      <4>1. j # Len(s)
        BY <3>4, <1>e DEF InstantiateAt, Begin
      <4>2. j \in 1 .. Len(t) /\ t[j].fn \in Begin /\ t[j].i = 2 /\ t[j].m = y
        BY <3>4, <4>1, <1>b
      <4> QED BY <4>2 DEF Wanted
    <3>5. ASSUME NEW j \in 1 .. Len(s), s[j].fn = "evaluate", Later(f, s[j], y)
          PROVE  Wanted(f, t, Wx, Lk, S, y)
      <4>1. j # Len(s)
        BY <3>5, <1>e DEF InstantiateAt, Begin
      <4>2. j \in 1 .. Len(t) /\ t[j].fn = "evaluate" /\ Later(f, t[j], y)
        BY <3>5, <4>1, <1>b DEF Later
      <4> QED BY <4>2 DEF Wanted
    <3> QED BY <3>2, <3>3, <3>4, <3>5 DEF Wanted
  <2> QED BY <2>2, <2>3
<1> QED BY <1>1, <1>2, <1>3, <1>4, <1>5, <1>6, <1>7, <1>8, <1>9 DEF LinkInv

(* The module x, which is instantiated, is evaluated for the call c.       *)
EvaluateAt(f, Lk, c, r, x) ==
  /\ r # "fail" /\ c.m # Null
  /\ \/ c.fn \in Begin /\ c.i = 2 /\ c.m = x
     \/ /\ c.fn = "evaluate" /\ c.i < Len(f[c.m].req) /\ f[c.m].req[c.i + 1] = x
        /\ <<c.m, x>> \in Lk

(* js_evaluate_module begins.                                              *)
LEMMA PushEvaluate ==
  ASSUME NEW f, NEW s, NEW r, NEW Ld, NEW Rs, NEW In, NEW Mk, NEW Ev, NEW Ok, NEW Rn, NEW Lk,
         LinkInv(f, s, r, Ld, Rs, In, Mk, Ev, Ok, Rn, Lk),
         NEW x, x \notin Mk, x \notin Ev, NEW t, NEW c, EvaluateAt(f, Lk, s[Len(s)], r, x),
         Pushed(s, t, 1, c), c.fn = "evaluate" /\ c.m = x /\ c.i = 0
  PROVE  LinkInv(f, t, "none", Ld, Rs, In, Mk \cup {x}, Ev, Ok, Rn, Lk)
<1>T. Typed(f, s, r) /\ Flags(f, Ld, Rs, In, Mk, Ev, Ok, Rn, Lk)
  BY DEF LinkInv
<1>N. Nested(s)
  BY DEF LinkInv
<1>C. Calls(s, Rs, In, Mk, Ev)
  BY DEF LinkInv
<1>O. Once(s, Mk)
  BY DEF LinkInv
<1>A. Answered(f, s, r)
  BY DEF LinkInv
<1>D. Ordered(f, s, r, Mk, Ok, Rn)
  BY DEF LinkInv
<1>R. ~Failing(s, r) => Closed(f, s, In, Lk) /\ Reached(f, s, Waiting(In, Mk, Ev), Lk)
  BY DEF LinkInv
<1>a. s \in Seq(Frame) /\ s # <<>> /\ 1 \in {0, 1}
  BY <1>T DEF Typed, Pushed
<1>b. /\ t # <<>> /\ t \in Seq(Frame) /\ Len(t) = Len(s) + 1 /\ Len(s) \in Nat /\ Len(s) > 0
      /\ \A j \in 1 .. Len(s) :
           t[j].fn = s[j].fn /\ t[j].m = s[j].m /\ (j # Len(s) => t[j].i = s[j].i)
      /\ t[Len(s)].i = s[Len(s)].i + 1
      /\ t[Len(s) + 1] = c /\ c \in Frame
  BY <1>a, PushedFrames
<1>c. \A j \in 1 .. Len(s) : s[j].fn \in Fn /\ s[j].m \in Module \cup {Null} /\ s[j].i \in Nat
  BY <1>a, FrameTypes
<1>h. ~Failing(s, r) /\ \A j \in 1 .. Len(s) : s[j].fn # "instantiate"
  <2>1. s[Len(s)].fn # "instantiate" /\ ~Failing(s, r)
    BY DEF EvaluateAt, Begin, Failing
  <2> QED BY <2>1, <1>N, <1>a, NotInstantiating
<1>e. /\ c.fn = "evaluate" /\ c.m = x /\ c.i = 0 /\ x \notin Mk /\ x \notin Ev /\ x \in In /\ x # Null
      /\ x \notin Rn /\ EvaluateAt(f, Lk, s[Len(s)], r, x)
  <2>1. CASE s[Len(s)].fn \in Begin
    <3>1. x \in In
      BY <2>1, <1>C, <1>b DEF EvaluateAt, Calls, Known, Begin
    <3> QED BY <3>1, <1>T, ModuleAssumption DEF Flags, Typed
  <2>2. CASE s[Len(s)].fn \notin Begin
    <3>1. <<s[Len(s)].m, x>> \in Lk /\ s[Len(s)].m \in In /\ s[Len(s)].m \in Module /\ x \in Module
      BY <2>2, <1>T, <1>C, <1>b, <1>c DEF EvaluateAt, Calls, Known, Flags
    <3>2. x \in In
      BY <3>1, <1>h, <1>R DEF Closed
    <3> QED BY <3>2, <1>T, ModuleAssumption DEF Flags, Typed
  <2> QED BY <2>1, <2>2
<1>z. \A j \in 1 .. Len(s) : s[j].fn = "evaluate" /\ s[j].m # Null => Len(f[s[j].m].req) \in Nat
  BY <1>T, <1>C DEF Calls, Known, Flags, Typed
<1>g. \A j \in 1 .. Len(s) : s[j].fn = "evaluate" => s[j].m # x
  BY <1>C, <1>e DEF Calls, Known
<1>1. Typed(f, t, "none")
  BY <1>T, <1>b DEF Typed
<1>2. Flags(f, Ld, Rs, In, Mk \cup {x}, Ev, Ok, Rn, Lk)
  BY <1>T, <1>e DEF Flags
<1>3. Nested(t)
  <2>1. Starts(t[Len(s)], c.fn) /\ (t[Len(s)].fn \in Begin => t[Len(s)].i <= 3)
    BY <1>b, <1>c, <1>e DEF Starts, Loading, Begin, EvaluateAt
  <2> QED BY <2>1, <1>N, <1>a, <1>e, PushNested DEF Begin
<1>4. Calls(t, Rs, In, Mk \cup {x}, Ev)
  <2>1. ASSUME NEW j \in 1 .. Len(t), t[j].m # Null
        PROVE  Known(t[j], Rs, In, Mk \cup {x}, Ev)
    <3>1. CASE j = Len(s) + 1
      BY <3>1, <1>b, <1>e DEF EvaluateAt, Known, Loading, Begin
    <3>2. CASE j # Len(s) + 1
      <4>1. /\ j \in 1 .. Len(s) /\ s[j].fn = t[j].fn /\ s[j].m = t[j].m
            /\ Known(s[j], Rs, In, Mk, Ev)
        BY <3>2, <2>1, <1>b, <1>C DEF Calls
      <4>2. CASE j # Len(s)
        <5>1. t[j].i = s[j].i
          BY <4>1, <4>2, <1>b
        <5>2. s[j].fn # "instantiate"
          BY <4>1, <1>h
        <5> QED BY <4>1, <4>2, <5>1, <5>2 DEF EvaluateAt, Known, Loading, Begin
      <4>3. CASE j = Len(s)
        <5>1. t[j].i = s[j].i + 1
          BY <4>1, <4>3, <1>b
        <5> QED BY <4>1, <4>3, <5>1, <1>c, <1>e DEF EvaluateAt, Known, Loading, Begin
      <4> QED BY <4>2, <4>3
    <3> QED BY <3>1, <3>2
  <2> QED BY <2>1 DEF Calls
<1>5. Once(t, Mk \cup {x})
  <2>1. ASSUME NEW j \in 1 .. Len(t), NEW k \in 1 .. Len(t),
               t[j].fn \in {"resolve", "instantiate", "evaluate"}, t[j].m # Null,
               t[j].fn = t[k].fn, t[j].m = t[k].m
        PROVE  j = k
    <3>1. CASE j # Len(s) + 1 /\ k # Len(s) + 1
      BY <3>1, <2>1, <1>b, <1>O DEF Once
    <3>2. CASE j = Len(s) + 1 \/ k = Len(s) + 1
      BY <3>2, <2>1, <1>b, <1>e, <1>g
    <3> QED BY <3>1, <3>2
  <2>2. ASSUME NEW m \in Mk \cup {x}
        PROVE  \E j \in 1 .. Len(t) : t[j].fn = "evaluate" /\ t[j].m = m
    <3>1. CASE m = x
      BY <3>1, <1>b, <1>e
    <3>2. CASE m \in Mk
      BY <3>2, <1>b, <1>O DEF Once
    <3> QED BY <3>1, <3>2
  <2> QED BY <2>1, <2>2 DEF Once
<1>6. Answered(f, t, "none")
  <2>1. t[Len(t)] = c
    BY <1>b
  <2> QED BY <2>1, <1>e DEF Answered, Waited
<1>7. Ordered(f, t, "none", Mk \cup {x}, Ok, Rn)
  <2>1. KeepsOrder(f, s, t, 1, c, r, Mk, Ok, Rn, Mk \cup {x}, Rn)
    BY <1>z, <1>e DEF KeepsOrder, EvaluateAt, Begin
  <2> QED BY <2>1, <1>D, <1>a, PushOrdered
<1>8. ~Failing(t, "none") => Closed(f, t, In, Lk)
  <2>1. Closed(f, s, In, Lk) /\ s[Len(s)].fn # "instantiate"
    BY <1>R, <1>h, <1>b
  <2> QED BY <2>1, <1>a, PushClosed
<1>9. ~Failing(t, "none") => Reached(f, t, Waiting(In, Mk \cup {x}, Ev), Lk)
  <2> DEFINE Wt == Waiting(In, Mk, Ev)
             Wx == Waiting(In, Mk \cup {x}, Ev)
  <2>1. Reached(f, s, Wt, Lk) /\ Wx = Wt \ {x} /\ x \in Wt /\ Wt \subseteq Module
    BY <1>R, <1>h, <1>T, <1>e DEF Waiting, Flags, Typed
  <2> HIDE DEF Wt, Wx
  <2> SUFFICES ASSUME NEW S \in SUBSET Wx, S # {}
               PROVE  \E y \in S : Wanted(f, t, Wx, Lk, S, y)
    BY DEF Reached, Wx
  <2>2. PICK y \in S : Wanted(f, s, Wt, Lk, S, y)
    BY <2>1 DEF Reached
  <2>3. x # y /\ y \in Module
    BY <2>1
  <2>4. ASSUME NEW p \in Wt, p \notin S, <<p, y>> \in Lk
        PROVE  Wanted(f, t, Wx, Lk, S, y)
    <3>1. CASE p # x
      BY <3>1, <2>1, <2>4 DEF Wanted
    <3>2. CASE p = x
      <4>1. PICK k \in 1 .. Len(f[x].req) : f[x].req[k] = y
        BY <3>2, <2>1, <2>3, <2>4, <1>T DEF Flags
      <4>2. Later(f, c, y)
        BY <4>1, <1>e DEF Later
      <4> QED BY <4>2, <1>b, <1>e DEF Wanted
    <3> QED BY <3>1, <3>2
  <2>5. ASSUME NEW j \in 1 .. Len(s), s[j].fn \in Begin, s[j].i = 2, s[j].m = y
        PROVE  Wanted(f, t, Wx, Lk, S, y)
    <3>1. j # Len(s)
      BY <2>3, <2>5, <1>e DEF EvaluateAt, Begin
    <3>2. j \in 1 .. Len(t) /\ t[j].fn \in Begin /\ t[j].i = 2 /\ t[j].m = y
      BY <2>5, <3>1, <1>b
    <3> QED BY <3>2 DEF Wanted
  <2>6. ASSUME NEW j \in 1 .. Len(s), s[j].fn = "evaluate", Later(f, s[j], y)
        PROVE  Wanted(f, t, Wx, Lk, S, y)
    <3>1. j \in 1 .. Len(t) /\ t[j].fn = "evaluate" /\ t[j].m = s[j].m
      BY <2>6, <1>b
    <3>2. Later(f, t[j], y)
      <4>1. CASE j # Len(s)
        BY <2>6, <4>1, <1>b DEF Later
      <4>2. CASE j = Len(s)
        <5>1. f[s[j].m].req[s[j].i + 1] = x /\ t[j].i = s[j].i + 1
          BY <2>6, <4>2, <1>b, <1>e DEF EvaluateAt, Begin
        <5> QED BY <2>3, <2>6, <3>1, <5>1, <1>c DEF Later
      <4> QED BY <4>1, <4>2
    <3> QED BY <3>1, <3>2 DEF Wanted
  <2> QED BY <2>2, <2>4, <2>5, <2>6 DEF Wanted
<1> QED BY <1>1, <1>2, <1>3, <1>4, <1>5, <1>6, <1>7, <1>8, <1>9 DEF LinkInv

(* The call c, which is none of an evaluation, may return q: r is what it  *)
(* has been told itself.                                                   *)
ReturnAt(f, c, r, q, Ld, Ev) ==
  \/ c.fn \in Loading /\ q \in {"ok", "fail"}
  \/ c.fn = "body" /\ q \in {"ok", "fail"}
  \/ c.fn = "instantiate" /\ q = "fail"
  \/ c.fn = "instantiate" /\ q = "ok" /\ r # "fail" /\ c.m # Null /\ c.i = Len(f[c.m].req)
  \/ c.fn \in Begin /\ q = "none" /\ (Ld \subseteq Ev \/ c.i < 2 \/ (r # "fail" /\ c.i = 3))

(* A call returns that is none of an evaluation.                           *)
LEMMA PopPlain ==
  ASSUME NEW f, NEW s, NEW r, NEW Ld, NEW Rs, NEW In, NEW Mk, NEW Ev, NEW Ok, NEW Rn, NEW Lk,
         LinkInv(f, s, r, Ld, Rs, In, Mk, Ev, Ok, Rn, Lk),
         NEW q, NEW t, Popped(s, t), ReturnAt(f, s[Len(s)], r, q, Ld, Ev)
  PROVE  LinkInv(f, t, q, Ld, Rs, In, Mk, Ev, Ok, Rn, Lk)
<1>T. Typed(f, s, r) /\ Flags(f, Ld, Rs, In, Mk, Ev, Ok, Rn, Lk)
  BY DEF LinkInv
<1>N. Nested(s)
  BY DEF LinkInv
<1>C. Calls(s, Rs, In, Mk, Ev)
  BY DEF LinkInv
<1>O. Once(s, Mk)
  BY DEF LinkInv
<1>A. Answered(f, s, r)
  BY DEF LinkInv
<1>D. Ordered(f, s, r, Mk, Ok, Rn)
  BY DEF LinkInv
<1>R. ~Failing(s, r) => Closed(f, s, In, Lk) /\ Reached(f, s, Waiting(In, Mk, Ev), Lk)
  BY DEF LinkInv
<1>a. s \in Seq(Frame) /\ s # <<>>
  BY <1>T DEF Typed, Popped
<1>b. /\ t \in Seq(Frame) /\ Len(t) = Len(s) - 1 /\ Len(s) \in Nat /\ Len(s) > 0
      /\ \A j \in 1 .. Len(t) :
           t[j].fn = s[j].fn /\ t[j].m = s[j].m /\ t[j].i = s[j].i
      /\ (t # <<>> => Len(t) > 0)
      /\ \A j \in 1 .. Len(t) : j \in 1 .. Len(s) /\ j < Len(s)
  <2>1. /\ t \in Seq(Frame) /\ Len(t) = Len(s) - 1 /\ Len(s) \in Nat /\ Len(s) > 0
        /\ \A j \in 1 .. Len(t) :
             t[j].fn = s[j].fn /\ t[j].m = s[j].m /\ t[j].i = s[j].i
        /\ (t # <<>> => Len(t) > 0)
    BY <1>a, PoppedFrames
  <2>2. \A j \in 1 .. Len(t) : j \in 1 .. Len(s) /\ j < Len(s)
    BY <2>1
  <2> QED BY <2>1, <2>2
<1>c. \A j \in 1 .. Len(s) : s[j].fn \in Fn /\ s[j].m \in Module \cup {Null} /\ s[j].i \in Nat
  BY <1>a, FrameTypes
<1>n. t # <<>> => /\ Len(t) = Len(s) - 1 /\ Len(t) \in 1 .. Len(s) /\ Len(s) \in 2 .. Len(s)
                  /\ Starts(s[Len(t)], s[Len(s)].fn)
                  /\ t[Len(t)].fn = s[Len(t)].fn /\ t[Len(t)].m = s[Len(t)].m
                  /\ t[Len(t)].i = s[Len(t)].i
  <2> SUFFICES ASSUME t # <<>>
               PROVE  /\ Len(t) = Len(s) - 1 /\ Len(t) \in 1 .. Len(s) /\ Len(s) \in 2 .. Len(s)
                      /\ Starts(s[Len(t)], s[Len(s)].fn)
                      /\ t[Len(t)].fn = s[Len(t)].fn /\ t[Len(t)].m = s[Len(t)].m
                      /\ t[Len(t)].i = s[Len(t)].i
    OBVIOUS
  <2>1. Len(t) \in 1 .. Len(t) /\ Len(t) = Len(s) - 1 /\ Len(t) \in 1 .. Len(s) /\ Len(s) \in 2 .. Len(s)
    BY <1>b
  <2>2. Starts(s[Len(s) - 1], s[Len(s)].fn)
    BY <2>1, <1>N DEF Nested
  <2> QED BY <2>1, <2>2, <1>b
<1>e. ReturnAt(f, s[Len(s)], r, q, Ld, Ev)
  OBVIOUS
<1>h. /\ s[Len(s)].fn = "instantiate" /\ q = "fail" => Failing(t, q)
      /\ ~(s[Len(s)].fn \in Begin /\ Ld \subseteq Ev) /\ ~Failing(t, q) => ~Failing(s, r)
  <2>1. ASSUME s[Len(s)].fn = "instantiate", q = "fail"
        PROVE  Failing(t, q)
    <3>1. t # <<>>
      BY <2>1, <1>N, <1>a, <1>b DEF Nested, Begin
    <3>2. t[Len(t)].fn = "instantiate" \/ (t[Len(t)].fn \in Begin /\ t[Len(t)].i = 2)
      BY <3>1, <2>1, <1>n DEF Starts
    <3> QED BY <2>1, <3>1, <3>2 DEF Failing
  <2>2. ASSUME ~(s[Len(s)].fn \in Begin /\ Ld \subseteq Ev), ~Failing(t, q)
        PROVE  ~Failing(s, r)
    <3>1. CASE s[Len(s)].fn = "instantiate"
      BY <3>1, <2>1, <2>2, <1>e DEF Failing, ReturnAt, Loading, Begin
    <3>2. CASE s[Len(s)].fn # "instantiate"
      BY <3>2, <2>2, <1>e, <1>b, <1>c DEF Failing, ReturnAt, Loading, Begin
    <3> QED BY <3>1, <3>2
  <2> QED BY <2>1, <2>2
<1>1. Typed(f, t, q)
  BY <1>T, <1>b, <1>e DEF Typed, ReturnAt
<1>2. Flags(f, Ld, Rs, In, Mk, Ev, Ok, Rn, Lk)
  BY <1>T
<1>3. Nested(t)
  <2>1. t # <<>> => t[1].fn \in Begin
    BY <1>N, <1>a, <1>b DEF Nested
  <2>2. ASSUME NEW j \in 2 .. Len(t)
        PROVE  Starts(t[j - 1], t[j].fn)
    <3>1. j - 1 \in 1 .. Len(t) /\ j \in 1 .. Len(t) /\ j \in 2 .. Len(s)
      BY <1>b
    <3>2. Starts(s[j - 1], s[j].fn)
      BY <3>1, <1>N DEF Nested
    <3>3. t[j - 1].fn = s[j - 1].fn /\ t[j - 1].i = s[j - 1].i /\ t[j].fn = s[j].fn
      BY <1>b, <3>1
    <3> QED BY <3>2, <3>3 DEF Starts
  <2>3. \A j, k \in 1 .. Len(t) : j < k =>
          /\ t[j].fn \in Loading => t[k].fn \in Loading
          /\ t[j].fn = "instantiate" => t[k].fn = "instantiate"
    BY <1>N, <1>b DEF Nested
  <2>4. \A j \in 1 .. Len(t) :
          /\ t[j].fn \in Begin => t[j].i <= 3
          /\ t[j].fn = "run" => t[j].i > 0
          /\ t[j].fn = "body" => t[j].m # Null
    BY <1>N, <1>b DEF Nested
  <2> QED BY <2>1, <2>2, <2>3, <2>4 DEF Nested
<1>4. Calls(t, Rs, In, Mk, Ev)
  <2>1. ASSUME NEW j \in 1 .. Len(t), t[j].m # Null
        PROVE  Known(t[j], Rs, In, Mk, Ev)
    <3>1. Known(s[j], Rs, In, Mk, Ev)
      BY <2>1, <1>b, <1>C DEF Calls
    <3> QED BY <3>1, <1>b DEF Known
  <2> QED BY <2>1 DEF Calls
<1>5. Once(t, Mk)
  <2>1. \A j, k \in 1 .. Len(t) :
          t[j].fn \in {"resolve", "instantiate", "evaluate"} /\ t[j].m # Null
            /\ t[j].fn = t[k].fn /\ t[j].m = t[k].m => j = k
    BY <1>b, <1>O DEF Once
  <2>2. ASSUME NEW m \in Mk
        PROVE  \E j \in 1 .. Len(t) : t[j].fn = "evaluate" /\ t[j].m = m
    <3>1. PICK j \in 1 .. Len(s) : s[j].fn = "evaluate" /\ s[j].m = m
      BY <1>O DEF Once
    <3>2. j # Len(s)
      BY <3>1, <1>e DEF ReturnAt, Loading, Begin
    <3>3. j \in 1 .. Len(t)
      BY <3>2, <1>b
    <3> QED BY <3>1, <3>3, <1>b
  <2> QED BY <2>1, <2>2 DEF Once
<1>6. Answered(f, t, q)
  <2>1. CASE q \in {"ok", "fail"}
    BY <2>1 DEF Answered
  <2>2. CASE q \notin {"ok", "fail"}
    <3>1. s[Len(s)].fn \in Begin
      BY <2>2, <1>e DEF ReturnAt
    <3>2. t # <<>> => t[Len(t)].fn = "body"
      BY <3>1, <1>n DEF Starts, Begin
    <3> QED BY <3>2 DEF Answered, Waited
  <2> QED BY <2>1, <2>2
<1>7. Ordered(f, t, q, Mk, Ok, Rn)
  <2>1. ASSUME NEW j \in 1 .. Len(t), t[j].fn = "evaluate", t[j].m # Null,
               NEW k \in 1 .. Len(f[t[j].m].req), k <= t[j].i
        PROVE  Done(t, q, Ok, j, f[t[j].m].req[k], k = t[j].i)
    <3> DEFINE x == f[t[j].m].req[k]
    <3>0. /\ j \in 1 .. Len(s) /\ j < Len(s) /\ s[j].fn = "evaluate" /\ s[j].m # Null
          /\ x = f[s[j].m].req[k] /\ k \in 1 .. Len(f[s[j].m].req) /\ s[j].i = t[j].i
      BY <1>b, <2>1
    <3> SUFFICES Done(t, q, Ok, j, x, k = t[j].i)
      OBVIOUS
    <3>1. Done(s, r, Ok, j, x, k = t[j].i)
      BY <3>0, <2>1, <1>D DEF Ordered
    <3> HIDE DEF x
    <3>2. CASE x \in Ok
      BY <3>2 DEF Done
    <3>3. CASE \E h \in 1 .. j : s[h].fn = "evaluate" /\ s[h].m = x
      <4>1. PICK h \in 1 .. j : s[h].fn = "evaluate" /\ s[h].m = x
        BY <3>3
      <4>2. h \in 1 .. Len(t)
        BY <1>b
      <4>3. t[h].fn = "evaluate" /\ t[h].m = x
        BY <4>1, <4>2, <1>b
      <4> QED BY <4>3 DEF Done
    <3>4. CASE k = t[j].i /\ j < Len(s) /\ s[j + 1].fn = "evaluate" /\ s[j + 1].m = x
      <4>1. j + 1 # Len(s)
        BY <3>4, <1>e DEF ReturnAt, Loading, Begin
      <4>2. j + 1 \in 1 .. Len(t) /\ j < Len(t)
        BY <4>1, <3>0, <1>b
      <4>3. t[j + 1].fn = "evaluate" /\ t[j + 1].m = x
        BY <4>2, <3>4, <1>b
      <4> QED BY <3>4, <4>2, <4>3 DEF Done
    <3>5. j # Len(s)
      BY <3>0, <1>b
    <3> QED BY <3>1, <3>2, <3>3, <3>4, <3>5 DEF Done
  <2>2. \A j \in 1 .. Len(t) : t[j].fn = "evaluate" /\ t[j].m # Null /\ t[j].i <= Len(f[t[j].m].req)
          => t[j].m \notin Rn
    BY <1>b, <1>D DEF Ordered
  <2>3. ASSUME NEW j \in 1 .. Len(t), t[j].fn = "body", t[j].i = 0
        PROVE  FALSE
    <3>1. j = Len(s)
      BY <2>3, <1>b, <1>D DEF Ordered
    <3> QED BY <3>1, <1>b
  <2> QED BY <2>1, <2>2, <2>3 DEF Ordered
<1>8. ~Failing(t, q) => Closed(f, t, In, Lk)
  <2>1. CASE s[Len(s)].fn \in Begin /\ Ld \subseteq Ev
    BY <2>1, <1>T DEF Closed, Flags
  <2>2. CASE ~(s[Len(s)].fn \in Begin /\ Ld \subseteq Ev)
    <3> SUFFICES ASSUME ~Failing(t, q)
                 PROVE  Closed(f, t, In, Lk)
      OBVIOUS
    <3>1. ~Failing(s, r)
      BY <2>2, <1>h
    <3>2. ASSUME NEW p \in Module, NEW x \in Module, <<p, x>> \in Lk, p \in In, x \notin In
          PROVE  \E j \in 1 .. Len(t) : t[j].fn = "instantiate" /\ t[j].m = p /\ Later(f, t[j], x)
      <4>1. PICK j \in 1 .. Len(s) : s[j].fn = "instantiate" /\ s[j].m = p /\ Later(f, s[j], x)
        BY <3>1, <3>2, <1>R DEF Closed
      <4>2. j # Len(s)
        <5>1. SUFFICES ASSUME j = Len(s)
                       PROVE  FALSE
          OBVIOUS
        <5>2. q = "ok" /\ s[j].i = Len(f[s[j].m].req)
          BY <5>1, <4>1, <1>e, <1>h DEF ReturnAt, Loading, Begin
        <5> QED BY <5>2, <4>1 DEF Later
      <4>3. j \in 1 .. Len(t)
        BY <4>2, <1>b
      <4> QED BY <4>1, <4>3, <1>b DEF Later
    <3> QED BY <3>2 DEF Closed
  <2> QED BY <2>1, <2>2
<1>9. ~Failing(t, q) => Reached(f, t, Waiting(In, Mk, Ev), Lk)
  <2>1. CASE s[Len(s)].fn \in Begin /\ Ld \subseteq Ev
    BY <2>1, <1>T DEF Reached, Waiting, Flags
  <2>2. CASE ~(s[Len(s)].fn \in Begin /\ Ld \subseteq Ev)
    <3> SUFFICES ASSUME ~Failing(t, q)
                 PROVE  Reached(f, t, Waiting(In, Mk, Ev), Lk)
      OBVIOUS
    <3>1. ~Failing(s, r)
      BY <2>2, <1>h
    <3> DEFINE Wt == Waiting(In, Mk, Ev)
    <3>2. ASSUME NEW S \in SUBSET Wt, S # {}
          PROVE  \E x \in S : Wanted(f, t, Wt, Lk, S, x)
      <4>1. PICK x \in S : Wanted(f, s, Wt, Lk, S, x)
        BY <3>1, <3>2, <1>R DEF Reached
      <4> HIDE DEF Wt
      <4>2. ASSUME NEW j \in 1 .. Len(s), s[j].fn \in Begin, s[j].i = 2, s[j].m = x
            PROVE  Wanted(f, t, Wt, Lk, S, x)
        <5>1. j # Len(s)
          BY <4>2, <2>2, <3>1, <1>e DEF ReturnAt, Loading, Begin
        <5>2. j \in 1 .. Len(t)
          BY <5>1, <1>b
        <5> QED BY <4>2, <5>2, <1>b DEF Wanted
      <4>3. ASSUME NEW j \in 1 .. Len(s), s[j].fn = "evaluate", Later(f, s[j], x)
            PROVE  Wanted(f, t, Wt, Lk, S, x)
        <5>1. j # Len(s)
          BY <4>3, <1>e DEF ReturnAt, Loading, Begin
        <5>2. j \in 1 .. Len(t)
          BY <5>1, <1>b
        <5>3. t[j].fn = "evaluate" /\ Later(f, t[j], x)
          BY <4>3, <5>2, <1>b DEF Later
        <5> QED BY <5>2, <5>3 DEF Wanted
      <4> QED BY <4>1, <4>2, <4>3 DEF Wanted
    <3> HIDE DEF Wt
    <3>3. Reached(f, t, Wt, Lk)
      BY <3>2 DEF Reached
    <3> QED BY <3>3 DEF Wt
  <2> QED BY <2>1, <2>2
<1> QED BY <1>1, <1>2, <1>3, <1>4, <1>5, <1>6, <1>7, <1>8, <1>9 DEF LinkInv

(* An evaluation ends because that of a request has failed.                *)
LEMMA PopDependencyFails ==
  ASSUME NEW f, NEW s, NEW r, NEW Ld, NEW Rs, NEW In, NEW Mk, NEW Ev, NEW Ok, NEW Rn, NEW Lk,
         LinkInv(f, s, r, Ld, Rs, In, Mk, Ev, Ok, Rn, Lk),
         NEW m \in Module, NEW t, Popped(s, t), s[Len(s)].fn = "evaluate", s[Len(s)].m = m,
         s[Len(s)].i <= Len(f[m].req)
  PROVE  LinkInv(f, t, "fail", Ld, Rs, In, Mk \ {m}, Ev, Ok, Rn, Lk)
<1>T. Typed(f, s, r) /\ Flags(f, Ld, Rs, In, Mk, Ev, Ok, Rn, Lk)
  BY DEF LinkInv
<1>N. Nested(s)
  BY DEF LinkInv
<1>C. Calls(s, Rs, In, Mk, Ev)
  BY DEF LinkInv
<1>O. Once(s, Mk)
  BY DEF LinkInv
<1>A. Answered(f, s, r)
  BY DEF LinkInv
<1>D. Ordered(f, s, r, Mk, Ok, Rn)
  BY DEF LinkInv
<1>R. ~Failing(s, r) => Closed(f, s, In, Lk) /\ Reached(f, s, Waiting(In, Mk, Ev), Lk)
  BY DEF LinkInv
<1>a. s \in Seq(Frame) /\ s # <<>>
  BY <1>T DEF Typed, Popped
<1>b. /\ t \in Seq(Frame) /\ Len(t) = Len(s) - 1 /\ Len(s) \in Nat /\ Len(s) > 0
      /\ \A j \in 1 .. Len(t) :
           t[j].fn = s[j].fn /\ t[j].m = s[j].m /\ t[j].i = s[j].i
      /\ (t # <<>> => Len(t) > 0)
      /\ \A j \in 1 .. Len(t) : j \in 1 .. Len(s) /\ j < Len(s)
  <2>1. /\ t \in Seq(Frame) /\ Len(t) = Len(s) - 1 /\ Len(s) \in Nat /\ Len(s) > 0
        /\ \A j \in 1 .. Len(t) :
             t[j].fn = s[j].fn /\ t[j].m = s[j].m /\ t[j].i = s[j].i
        /\ (t # <<>> => Len(t) > 0)
    BY <1>a, PoppedFrames
  <2>2. \A j \in 1 .. Len(t) : j \in 1 .. Len(s) /\ j < Len(s)
    BY <2>1
  <2> QED BY <2>1, <2>2
<1>c. \A j \in 1 .. Len(s) : s[j].fn \in Fn /\ s[j].m \in Module \cup {Null} /\ s[j].i \in Nat
  BY <1>a, FrameTypes
<1>n. t # <<>> => /\ Len(t) = Len(s) - 1 /\ Len(t) \in 1 .. Len(s) /\ Len(s) \in 2 .. Len(s)
                  /\ Starts(s[Len(t)], s[Len(s)].fn)
                  /\ t[Len(t)].fn = s[Len(t)].fn /\ t[Len(t)].m = s[Len(t)].m
                  /\ t[Len(t)].i = s[Len(t)].i
  <2> SUFFICES ASSUME t # <<>>
               PROVE  /\ Len(t) = Len(s) - 1 /\ Len(t) \in 1 .. Len(s) /\ Len(s) \in 2 .. Len(s)
                      /\ Starts(s[Len(t)], s[Len(s)].fn)
                      /\ t[Len(t)].fn = s[Len(t)].fn /\ t[Len(t)].m = s[Len(t)].m
                      /\ t[Len(t)].i = s[Len(t)].i
    OBVIOUS
  <2>1. Len(t) \in 1 .. Len(t) /\ Len(t) = Len(s) - 1 /\ Len(t) \in 1 .. Len(s) /\ Len(s) \in 2 .. Len(s)
    BY <1>b
  <2>2. Starts(s[Len(s) - 1], s[Len(s)].fn)
    BY <2>1, <1>N DEF Nested
  <2> QED BY <2>1, <2>2, <1>b
<1>e. s[Len(s)].fn = "evaluate" /\ s[Len(s)].m = m /\ m # Null /\ m \in Mk /\ Len(s) \in 1 .. Len(s)
  <2>1. s[Len(s)].fn = "evaluate" /\ s[Len(s)].m = m /\ m # Null /\ Len(s) \in 1 .. Len(s)
    BY <1>b, ModuleAssumption
  <2> QED BY <2>1, <1>C DEF Calls, Known
<1>h. /\ \A j \in 1 .. Len(s) : s[j].fn # "instantiate"
      /\ \A q \in {"fail"} : Failing(t, q)
  <2>1. t # <<>>
    BY <1>N, <1>a, <1>b, <1>e DEF Nested, Begin
  <2>2. t[Len(t)].fn = "evaluate" \/ (t[Len(t)].fn \in Begin /\ t[Len(t)].i = 3)
    BY <2>1, <1>e, <1>n DEF Starts
  <2> QED BY <2>1, <2>2, <1>N, <1>a, <1>e, NotInstantiating DEF Failing
<1>1. Typed(f, t, "fail")
  BY <1>T, <1>b DEF Typed
<1>2. Flags(f, Ld, Rs, In, Mk \ {m}, Ev, Ok, Rn, Lk)
  <2>1. m \notin Rn
    BY <1>D, <1>e DEF Ordered
  <2> QED BY <2>1, <1>T DEF Flags
<1>3. Nested(t)
  <2>1. t # <<>> => t[1].fn \in Begin
    BY <1>N, <1>a, <1>b DEF Nested
  <2>2. ASSUME NEW j \in 2 .. Len(t)
        PROVE  Starts(t[j - 1], t[j].fn)
    <3>1. j - 1 \in 1 .. Len(t) /\ j \in 1 .. Len(t) /\ j \in 2 .. Len(s)
      BY <1>b
    <3>2. Starts(s[j - 1], s[j].fn)
      BY <3>1, <1>N DEF Nested
    <3>3. t[j - 1].fn = s[j - 1].fn /\ t[j - 1].i = s[j - 1].i /\ t[j].fn = s[j].fn
      BY <1>b, <3>1
    <3> QED BY <3>2, <3>3 DEF Starts
  <2>3. \A j, k \in 1 .. Len(t) : j < k =>
          /\ t[j].fn \in Loading => t[k].fn \in Loading
          /\ t[j].fn = "instantiate" => t[k].fn = "instantiate"
    BY <1>N, <1>b DEF Nested
  <2>4. \A j \in 1 .. Len(t) :
          /\ t[j].fn \in Begin => t[j].i <= 3
          /\ t[j].fn = "run" => t[j].i > 0
          /\ t[j].fn = "body" => t[j].m # Null
    BY <1>N, <1>b DEF Nested
  <2> QED BY <2>1, <2>2, <2>3, <2>4 DEF Nested
<1>4. Calls(t, Rs, In, Mk \ {m}, Ev)
  <2>1. ASSUME NEW j \in 1 .. Len(t), t[j].m # Null
        PROVE  Known(t[j], Rs, In, Mk \ {m}, Ev)
    <3>1. Known(s[j], Rs, In, Mk, Ev) /\ s[j].fn # "instantiate"
      BY <2>1, <1>b, <1>C, <1>h DEF Calls
    <3>2. s[j].fn = "evaluate" => s[j].m # m
      BY <2>1, <1>b, <1>O, <1>e DEF Once
    <3> QED BY <3>1, <3>2, <2>1, <1>b DEF Known
  <2> QED BY <2>1 DEF Calls
<1>5. Once(t, Mk \ {m})
  <2>1. \A j, k \in 1 .. Len(t) :
          t[j].fn \in {"resolve", "instantiate", "evaluate"} /\ t[j].m # Null
            /\ t[j].fn = t[k].fn /\ t[j].m = t[k].m => j = k
    BY <1>b, <1>O DEF Once
  <2>2. ASSUME NEW x \in Mk \ {m}
        PROVE  \E j \in 1 .. Len(t) : t[j].fn = "evaluate" /\ t[j].m = x
    <3>1. PICK j \in 1 .. Len(s) : s[j].fn = "evaluate" /\ s[j].m = x
      BY <1>O DEF Once
    <3>2. j \in 1 .. Len(t)
      BY <3>1, <1>b, <1>e
    <3> QED BY <3>1, <3>2, <1>b
  <2> QED BY <2>1, <2>2 DEF Once
<1>6. Answered(f, t, "fail")
  BY DEF Answered
<1>7. Ordered(f, t, "fail", Mk \ {m}, Ok, Rn)
  <2>1. ASSUME NEW j \in 1 .. Len(t), t[j].fn = "evaluate", t[j].m # Null,
               NEW k \in 1 .. Len(f[t[j].m].req), k <= t[j].i
        PROVE  Done(t, "fail", Ok, j, f[t[j].m].req[k], k = t[j].i)
    <3> DEFINE x == f[t[j].m].req[k]
    <3>0. /\ j \in 1 .. Len(s) /\ j < Len(s) /\ s[j].fn = "evaluate" /\ s[j].m # Null
          /\ x = f[s[j].m].req[k] /\ k \in 1 .. Len(f[s[j].m].req) /\ s[j].i = t[j].i
      BY <1>b, <2>1
    <3> SUFFICES Done(t, "fail", Ok, j, x, k = t[j].i)
      OBVIOUS
    <3>1. Done(s, r, Ok, j, x, k = t[j].i)
      BY <3>0, <2>1, <1>D DEF Ordered
    <3> HIDE DEF x
    <3>2. CASE x \in Ok
      BY <3>2 DEF Done
    <3>3. CASE \E h \in 1 .. j : s[h].fn = "evaluate" /\ s[h].m = x
      <4>1. PICK h \in 1 .. j : s[h].fn = "evaluate" /\ s[h].m = x
        BY <3>3
      <4>2. h \in 1 .. Len(t)
        BY <1>b
      <4>3. t[h].fn = "evaluate" /\ t[h].m = x
        BY <4>1, <4>2, <1>b
      <4> QED BY <4>3 DEF Done
    <3>4. CASE k = t[j].i /\ j < Len(s) /\ s[j + 1].fn = "evaluate" /\ s[j + 1].m = x
      <4>1. CASE j + 1 = Len(s)
        <5>1. x = m /\ j = Len(t)
          BY <3>4, <4>1, <1>b, <1>e
        <5> QED BY <3>4, <5>1 DEF Done
      <4>2. CASE j + 1 # Len(s)
        <5>1. j + 1 \in 1 .. Len(t) /\ j < Len(t)
          BY <4>2, <3>0, <1>b
        <5>2. t[j + 1].fn = "evaluate" /\ t[j + 1].m = x
          BY <5>1, <3>4, <1>b
        <5> QED BY <3>4, <5>1, <5>2 DEF Done
      <4> QED BY <4>1, <4>2
    <3>5. j # Len(s)
      BY <3>0, <1>b
    <3> QED BY <3>1, <3>2, <3>3, <3>4, <3>5 DEF Done
  <2>2. \A j \in 1 .. Len(t) : t[j].fn = "evaluate" /\ t[j].m # Null /\ t[j].i <= Len(f[t[j].m].req)
          => t[j].m \notin Rn
    BY <1>b, <1>D DEF Ordered
  <2>3. ASSUME NEW j \in 1 .. Len(t), t[j].fn = "body", t[j].i = 0
        PROVE  FALSE
    <3>1. j = Len(s)
      BY <2>3, <1>b, <1>D DEF Ordered
    <3> QED BY <3>1, <1>b
  <2> QED BY <2>1, <2>2, <2>3 DEF Ordered
<1>8. ~Failing(t, "fail") => Closed(f, t, In, Lk)
  BY <1>h
<1>9. ~Failing(t, "fail") => Reached(f, t, Waiting(In, Mk \ {m}, Ev), Lk)
  BY <1>h
<1> QED BY <1>1, <1>2, <1>3, <1>4, <1>5, <1>6, <1>7, <1>8, <1>9 DEF LinkInv

(* A module has been evaluated, with or without an exception.              *)
LEMMA PopEvaluated ==
  ASSUME NEW f, NEW s, NEW r, NEW Ld, NEW Rs, NEW In, NEW Mk, NEW Ev, NEW Ok, NEW Rn, NEW Lk,
         LinkInv(f, s, r, Ld, Rs, In, Mk, Ev, Ok, Rn, Lk),
         NEW m \in Module, NEW t, Popped(s, t), s[Len(s)].fn = "evaluate", s[Len(s)].m = m,
         s[Len(s)].i > Len(f[m].req)
  PROVE  LinkInv(f, t, r, Ld, Rs, In, Mk \ {m}, Ev \cup {m},
                 IF r = "ok" THEN Ok \cup {m} ELSE Ok, Rn, Lk)
<1>T. Typed(f, s, r) /\ Flags(f, Ld, Rs, In, Mk, Ev, Ok, Rn, Lk)
  BY DEF LinkInv
<1>N. Nested(s)
  BY DEF LinkInv
<1>C. Calls(s, Rs, In, Mk, Ev)
  BY DEF LinkInv
<1>O. Once(s, Mk)
  BY DEF LinkInv
<1>A. Answered(f, s, r)
  BY DEF LinkInv
<1>D. Ordered(f, s, r, Mk, Ok, Rn)
  BY DEF LinkInv
<1>R. ~Failing(s, r) => Closed(f, s, In, Lk) /\ Reached(f, s, Waiting(In, Mk, Ev), Lk)
  BY DEF LinkInv
<1>a. s \in Seq(Frame) /\ s # <<>>
  BY <1>T DEF Typed, Popped
<1>b. /\ t \in Seq(Frame) /\ Len(t) = Len(s) - 1 /\ Len(s) \in Nat /\ Len(s) > 0
      /\ \A j \in 1 .. Len(t) :
           t[j].fn = s[j].fn /\ t[j].m = s[j].m /\ t[j].i = s[j].i
      /\ (t # <<>> => Len(t) > 0)
      /\ \A j \in 1 .. Len(t) : j \in 1 .. Len(s) /\ j < Len(s)
  <2>1. /\ t \in Seq(Frame) /\ Len(t) = Len(s) - 1 /\ Len(s) \in Nat /\ Len(s) > 0
        /\ \A j \in 1 .. Len(t) :
             t[j].fn = s[j].fn /\ t[j].m = s[j].m /\ t[j].i = s[j].i
        /\ (t # <<>> => Len(t) > 0)
    BY <1>a, PoppedFrames
  <2>2. \A j \in 1 .. Len(t) : j \in 1 .. Len(s) /\ j < Len(s)
    BY <2>1
  <2> QED BY <2>1, <2>2
<1>c. \A j \in 1 .. Len(s) : s[j].fn \in Fn /\ s[j].m \in Module \cup {Null} /\ s[j].i \in Nat
  BY <1>a, FrameTypes
<1>n. t # <<>> => /\ Len(t) = Len(s) - 1 /\ Len(t) \in 1 .. Len(s) /\ Len(s) \in 2 .. Len(s)
                  /\ Starts(s[Len(t)], s[Len(s)].fn)
                  /\ t[Len(t)].fn = s[Len(t)].fn /\ t[Len(t)].m = s[Len(t)].m
                  /\ t[Len(t)].i = s[Len(t)].i
  <2> SUFFICES ASSUME t # <<>>
               PROVE  /\ Len(t) = Len(s) - 1 /\ Len(t) \in 1 .. Len(s) /\ Len(s) \in 2 .. Len(s)
                      /\ Starts(s[Len(t)], s[Len(s)].fn)
                      /\ t[Len(t)].fn = s[Len(t)].fn /\ t[Len(t)].m = s[Len(t)].m
                      /\ t[Len(t)].i = s[Len(t)].i
    OBVIOUS
  <2>1. Len(t) \in 1 .. Len(t) /\ Len(t) = Len(s) - 1 /\ Len(t) \in 1 .. Len(s) /\ Len(s) \in 2 .. Len(s)
    BY <1>b
  <2>2. Starts(s[Len(s) - 1], s[Len(s)].fn)
    BY <2>1, <1>N DEF Nested
  <2> QED BY <2>1, <2>2, <1>b
<1>e. s[Len(s)].fn = "evaluate" /\ s[Len(s)].m = m /\ m # Null /\ m \in Mk /\ Len(s) \in 1 .. Len(s)
  <2>1. s[Len(s)].fn = "evaluate" /\ s[Len(s)].m = m /\ m # Null /\ Len(s) \in 1 .. Len(s)
    BY <1>b, ModuleAssumption
  <2> QED BY <2>1, <1>C DEF Calls, Known
<1>h. /\ \A j \in 1 .. Len(s) : s[j].fn # "instantiate"
      /\ \A q \in {"fail"} : Failing(t, q)
  <2>1. t # <<>>
    BY <1>N, <1>a, <1>b, <1>e DEF Nested, Begin
  <2>2. t[Len(t)].fn = "evaluate" \/ (t[Len(t)].fn \in Begin /\ t[Len(t)].i = 3)
    BY <2>1, <1>e, <1>n DEF Starts
  <2> QED BY <2>1, <2>2, <1>N, <1>a, <1>e, NotInstantiating DEF Failing
<1>f. /\ r \in {"ok", "fail"} /\ s[Len(s)].i > Len(f[m].req) /\ Len(f[m].req) \in Nat
      /\ s[Len(s)].i \in Nat
  <2>1. r \in {"ok", "fail"}
    BY <1>A, <1>a, <1>e DEF Answered, Waited
  <2> QED BY <2>1, <1>T, <1>c, <1>e DEF Flags, Typed
<1>1. Typed(f, t, r)
  BY <1>T, <1>b DEF Typed
<1>2. Flags(f, Ld, Rs, In, Mk \ {m}, Ev \cup {m}, (IF r = "ok" THEN Ok \cup {m} ELSE Ok), Rn, Lk)
  <2>1. m \in Mk
    BY <1>e
  <2> QED BY <2>1, <1>T DEF Flags
<1>3. Nested(t)
  <2>1. t # <<>> => t[1].fn \in Begin
    BY <1>N, <1>a, <1>b DEF Nested
  <2>2. ASSUME NEW j \in 2 .. Len(t)
        PROVE  Starts(t[j - 1], t[j].fn)
    <3>1. j - 1 \in 1 .. Len(t) /\ j \in 1 .. Len(t) /\ j \in 2 .. Len(s)
      BY <1>b
    <3>2. Starts(s[j - 1], s[j].fn)
      BY <3>1, <1>N DEF Nested
    <3>3. t[j - 1].fn = s[j - 1].fn /\ t[j - 1].i = s[j - 1].i /\ t[j].fn = s[j].fn
      BY <1>b, <3>1
    <3> QED BY <3>2, <3>3 DEF Starts
  <2>3. \A j, k \in 1 .. Len(t) : j < k =>
          /\ t[j].fn \in Loading => t[k].fn \in Loading
          /\ t[j].fn = "instantiate" => t[k].fn = "instantiate"
    BY <1>N, <1>b DEF Nested
  <2>4. \A j \in 1 .. Len(t) :
          /\ t[j].fn \in Begin => t[j].i <= 3
          /\ t[j].fn = "run" => t[j].i > 0
          /\ t[j].fn = "body" => t[j].m # Null
    BY <1>N, <1>b DEF Nested
  <2> QED BY <2>1, <2>2, <2>3, <2>4 DEF Nested
<1>4. Calls(t, Rs, In, Mk \ {m}, Ev \cup {m})
  <2>1. ASSUME NEW j \in 1 .. Len(t), t[j].m # Null
        PROVE  Known(t[j], Rs, In, Mk \ {m}, Ev \cup {m})
    <3>1. Known(s[j], Rs, In, Mk, Ev) /\ s[j].fn # "instantiate"
      BY <2>1, <1>b, <1>C, <1>h DEF Calls
    <3>2. s[j].fn = "evaluate" => s[j].m # m
      BY <2>1, <1>b, <1>O, <1>e DEF Once
    <3> QED BY <3>1, <3>2, <2>1, <1>b DEF Known
  <2> QED BY <2>1 DEF Calls
<1>5. Once(t, Mk \ {m})
  <2>1. \A j, k \in 1 .. Len(t) :
          t[j].fn \in {"resolve", "instantiate", "evaluate"} /\ t[j].m # Null
            /\ t[j].fn = t[k].fn /\ t[j].m = t[k].m => j = k
    BY <1>b, <1>O DEF Once
  <2>2. ASSUME NEW x \in Mk \ {m}
        PROVE  \E j \in 1 .. Len(t) : t[j].fn = "evaluate" /\ t[j].m = x
    <3>1. PICK j \in 1 .. Len(s) : s[j].fn = "evaluate" /\ s[j].m = x
      BY <1>O DEF Once
    <3>2. j \in 1 .. Len(t)
      BY <3>1, <1>b, <1>e
    <3> QED BY <3>1, <3>2, <1>b
  <2> QED BY <2>1, <2>2 DEF Once
<1>6. Answered(f, t, r)
  BY <1>f DEF Answered
<1>7. Ordered(f, t, r, Mk \ {m}, (IF r = "ok" THEN Ok \cup {m} ELSE Ok), Rn)
  <2> DEFINE Ok2 == IF r = "ok" THEN Ok \cup {m} ELSE Ok
  <2>0. Ok \subseteq Ok2 /\ (r = "ok" => m \in Ok2)
    OBVIOUS
  <2> SUFFICES Ordered(f, t, r, Mk \ {m}, Ok2, Rn)
    OBVIOUS
  <2> HIDE DEF Ok2
  <2>1. ASSUME NEW j \in 1 .. Len(t), t[j].fn = "evaluate", t[j].m # Null,
               NEW k \in 1 .. Len(f[t[j].m].req), k <= t[j].i
        PROVE  Done(t, r, Ok2, j, f[t[j].m].req[k], k = t[j].i)
    <3> DEFINE x == f[t[j].m].req[k]
    <3>0. /\ j \in 1 .. Len(s) /\ j < Len(s) /\ s[j].fn = "evaluate" /\ s[j].m # Null
          /\ x = f[s[j].m].req[k] /\ k \in 1 .. Len(f[s[j].m].req) /\ s[j].i = t[j].i
      BY <1>b, <2>1
    <3> SUFFICES Done(t, r, Ok2, j, x, k = t[j].i)
      OBVIOUS
    <3>1. Done(s, r, Ok, j, x, k = t[j].i)
      BY <3>0, <2>1, <1>D DEF Ordered
    <3> HIDE DEF x
    <3>2. CASE x \in Ok
      BY <3>2, <2>0 DEF Done
    <3>3. CASE \E h \in 1 .. j : s[h].fn = "evaluate" /\ s[h].m = x
      <4>1. PICK h \in 1 .. j : s[h].fn = "evaluate" /\ s[h].m = x
        BY <3>3
      <4>2. h \in 1 .. Len(t)
        BY <1>b
      <4>3. t[h].fn = "evaluate" /\ t[h].m = x
        BY <4>1, <4>2, <1>b
      <4> QED BY <4>3 DEF Done
    <3>4. CASE k = t[j].i /\ j < Len(s) /\ s[j + 1].fn = "evaluate" /\ s[j + 1].m = x
      <4>1. CASE j + 1 = Len(s)
        <5>1. x = m /\ j = Len(t)
          BY <3>4, <4>1, <1>b, <1>e
        <5> QED BY <3>4, <5>1, <1>f, <2>0 DEF Done
      <4>2. CASE j + 1 # Len(s)
        <5>1. j + 1 \in 1 .. Len(t) /\ j < Len(t)
          BY <4>2, <3>0, <1>b
        <5>2. t[j + 1].fn = "evaluate" /\ t[j + 1].m = x
          BY <5>1, <3>4, <1>b
        <5> QED BY <3>4, <5>1, <5>2 DEF Done
      <4> QED BY <4>1, <4>2
    <3>5. j # Len(s)
      BY <3>0, <1>b
    <3> QED BY <3>1, <3>2, <3>3, <3>4, <3>5 DEF Done
  <2>2. \A j \in 1 .. Len(t) : t[j].fn = "evaluate" /\ t[j].m # Null /\ t[j].i <= Len(f[t[j].m].req)
          => t[j].m \notin Rn
    BY <1>b, <1>D DEF Ordered
  <2>3. ASSUME NEW j \in 1 .. Len(t), t[j].fn = "body", t[j].i = 0
        PROVE  FALSE
    <3>1. j = Len(s)
      BY <2>3, <1>b, <1>D DEF Ordered
    <3> QED BY <3>1, <1>b
  <2> QED BY <2>1, <2>2, <2>3 DEF Ordered
<1>8. ~Failing(t, r) => Closed(f, t, In, Lk)
  <2> SUFFICES ASSUME ~Failing(t, r), NEW p \in Module, NEW x \in Module,
                      <<p, x>> \in Lk, p \in In, x \notin In
               PROVE  \E j \in 1 .. Len(t) : t[j].fn = "instantiate" /\ t[j].m = p /\ Later(f, t[j], x)
    BY DEF Closed
  <2>1. ~Failing(s, r)
    BY <1>h DEF Failing
  <2> QED BY <2>1, <1>h, <1>R DEF Closed
<1>9. ~Failing(t, r) => Reached(f, t, Waiting(In, Mk \ {m}, Ev \cup {m}), Lk)
  <2> SUFFICES ASSUME ~Failing(t, r)
               PROVE  Reached(f, t, Waiting(In, Mk \ {m}, Ev \cup {m}), Lk)
    OBVIOUS
  <2> DEFINE Wt == Waiting(In, Mk, Ev)
  <2>0. ~Failing(s, r) /\ Waiting(In, Mk \ {m}, Ev \cup {m}) = Wt
    BY <1>h, <1>e DEF Failing, Waiting
  <2>1. Reached(f, s, Wt, Lk)
    BY <2>0, <1>R
  <2> HIDE DEF Wt
  <2>2. ASSUME NEW S \in SUBSET Wt, S # {}
        PROVE  \E x \in S : Wanted(f, t, Wt, Lk, S, x)
    <3>1. PICK x \in S : Wanted(f, s, Wt, Lk, S, x)
      BY <2>1, <2>2 DEF Reached
    <3>2. ASSUME NEW j \in 1 .. Len(s), s[j].fn \in Begin, s[j].i = 2, s[j].m = x
          PROVE  Wanted(f, t, Wt, Lk, S, x)
      <4>1. j \in 1 .. Len(t)
        BY <3>2, <1>b, <1>e DEF Begin
      <4> QED BY <3>2, <4>1, <1>b DEF Wanted
    <3>3. ASSUME NEW j \in 1 .. Len(s), s[j].fn = "evaluate", Later(f, s[j], x)
          PROVE  Wanted(f, t, Wt, Lk, S, x)
      <4>1. j # Len(s)
        BY <3>3, <1>e, <1>f DEF Later
      <4>2. j \in 1 .. Len(t)
        BY <4>1, <1>b
      <4>3. t[j].fn = "evaluate" /\ Later(f, t[j], x)
        BY <3>3, <4>2, <1>b DEF Later
      <4> QED BY <4>2, <4>3 DEF Wanted
    <3> QED BY <3>1, <3>2, <3>3 DEF Wanted
  <2>3. Reached(f, t, Wt, Lk)
    BY <2>2 DEF Reached
  <2> QED BY <2>0, <2>3
<1> QED BY <1>1, <1>2, <1>3, <1>4, <1>5, <1>6, <1>7, <1>8, <1>9 DEF LinkInv

-----------------------------------------------------------------------------
(* Modules are freed: calls that were about one of them have none.         *)
Nulled(c, S) == c.m \in S /\ c.fn # "body" /\ (c.fn = "import" => c.i > 0)

Freed(s, t, S) ==
  /\ t \in Seq(Frame) /\ Len(t) = Len(s)
  /\ \A j \in 1 .. Len(s) :
       /\ t[j].fn = s[j].fn /\ t[j].i = s[j].i
       /\ t[j].m = IF Nulled(s[j], S) THEN Null ELSE s[j].m

Kept(Lk, S) == {l \in Lk : l[1] \notin S /\ l[2] \notin S}

(* Either none of them is instantiated, or an evaluation has failed and    *)
(* they are all that are not evaluated.                                    *)
FreeAt(c, r, Ld, In, Ev, S) ==
  \/ (c.fn = "compile" \/ (c.fn \in Begin /\ c.i = 1)) /\ S \cap In = {}
  \/ c.fn \in Begin /\ c.i > 1 /\ r = "fail" /\ S = Ld \ Ev

(* js_free_modules, and freeing a module that failed.                      *)
LEMMA FreeModules ==
  ASSUME NEW f, NEW s, NEW r, NEW Ld, NEW Rs, NEW In, NEW Mk, NEW Ev, NEW Ok, NEW Rn, NEW Lk,
         LinkInv(f, s, r, Ld, Rs, In, Mk, Ev, Ok, Rn, Lk),
         NEW S, NEW t, Freed(s, t, S), s # <<>>, FreeAt(s[Len(s)], r, Ld, In, Ev, S)
  PROVE  LinkInv(f, t, r, Ld \ S, Rs \ S, In \ S, Mk \ S, Ev \ S, (Ok \ S), Rn \ S, Kept(Lk, S))
<1>T. Typed(f, s, r) /\ Flags(f, Ld, Rs, In, Mk, Ev, Ok, Rn, Lk)
  BY DEF LinkInv
<1>N. Nested(s)
  BY DEF LinkInv
<1>C. Calls(s, Rs, In, Mk, Ev)
  BY DEF LinkInv
<1>O. Once(s, Mk)
  BY DEF LinkInv
<1>A. Answered(f, s, r)
  BY DEF LinkInv
<1>D. Ordered(f, s, r, Mk, Ok, Rn)
  BY DEF LinkInv
<1>R. ~Failing(s, r) => Closed(f, s, In, Lk) /\ Reached(f, s, Waiting(In, Mk, Ev), Lk)
  BY DEF LinkInv
<1>a. s \in Seq(Frame) /\ s # <<>> /\ Len(s) \in Nat /\ Len(s) > 0 /\ Len(s) \in 1 .. Len(s)
  <2>1. s \in Seq(Frame) /\ s # <<>>
    BY <1>T DEF Typed
  <2> QED BY <2>1, FrameTypes
<1>b. /\ t \in Seq(Frame) /\ Len(t) = Len(s) /\ t # <<>>
      /\ \A j \in 1 .. Len(s) :
           /\ t[j].fn = s[j].fn /\ t[j].i = s[j].i
           /\ t[j].m = IF Nulled(s[j], S) THEN Null ELSE s[j].m
  <2>1. t \in Seq(Frame) /\ Len(t) = Len(s)
    BY DEF Freed
  <2>2. t # <<>>
    BY <2>1, <1>a
  <2> QED BY <2>1, <2>2 DEF Freed
<1>c. \A j \in 1 .. Len(s) : s[j].fn \in Fn /\ s[j].m \in Module \cup {Null} /\ s[j].i \in Nat
  BY <1>a, FrameTypes
<1>e. FreeAt(s[Len(s)], r, Ld, In, Ev, S)
  OBVIOUS
<1>f. \A j \in 1 .. Len(s) : t[j].m # Null => t[j].m = s[j].m /\ ~Nulled(s[j], S)
  BY <1>b
<1>g. Failing(t, r) <=> Failing(s, r)
  BY <1>a, <1>b DEF Failing
<1>h. s[Len(s)].fn \in Begin \cup {"compile"}
  BY <1>e DEF FreeAt
<1>i. \/ S \cap In = {} /\ ~Failing(s, r)
      \/ Failing(s, r) /\ S = Ld \ Ev
  BY <1>a, <1>e DEF FreeAt, Failing, Begin
<1>1. Typed(f, t, r)
  BY <1>T, <1>b DEF Typed
<1>2. Flags(f, Ld \ S, Rs \ S, In \ S, Mk \ S, Ev \ S, (Ok \ S), Rn \ S, Kept(Lk, S))
  <2>1. ASSUME NEW p \in Module, NEW x \in Module, <<p, x>> \in Kept(Lk, S)
        PROVE  p \in Ld \ S /\ x \in Rs \ S /\ \E k \in 1 .. Len(f[p].req) : f[p].req[k] = x
    <3>1. <<p, x>> \in Lk /\ p \notin S /\ x \notin S
      BY <2>1 DEF Kept
    <3> QED BY <3>1, <1>T DEF Flags
  <2>2. Kept(Lk, S) \subseteq Module \X Module
    BY <1>T DEF Kept, Flags
  <2> QED BY <2>1, <2>2, <1>T DEF Flags
<1>3. Nested(t)
  <2>1. t[1].fn \in Begin
    BY <1>N, <1>a, <1>b DEF Nested
  <2>2. ASSUME NEW j \in 2 .. Len(t)
        PROVE  Starts(t[j - 1], t[j].fn)
    <3>1. j - 1 \in 1 .. Len(s) /\ j \in 1 .. Len(s) /\ Starts(s[j - 1], s[j].fn)
      BY <1>N, <1>a, <1>b DEF Nested
    <3>2. t[j - 1].fn = s[j - 1].fn /\ t[j - 1].i = s[j - 1].i /\ t[j].fn = s[j].fn
      BY <1>b, <3>1
    <3> QED BY <3>1, <3>2 DEF Starts
  <2>3. \A j, k \in 1 .. Len(t) : j < k =>
          /\ t[j].fn \in Loading => t[k].fn \in Loading
          /\ t[j].fn = "instantiate" => t[k].fn = "instantiate"
    BY <1>N, <1>b DEF Nested
  <2>4. \A j \in 1 .. Len(t) :
          /\ t[j].fn \in Begin => t[j].i <= 3
          /\ t[j].fn = "run" => t[j].i > 0
          /\ t[j].fn = "body" => t[j].m # Null
    BY <1>N, <1>b DEF Nested, Nulled
  <2> QED BY <2>1, <2>2, <2>3, <2>4 DEF Nested
<1>4. Calls(t, Rs \ S, In \ S, Mk \ S, Ev \ S)
  <2>1. ASSUME NEW j \in 1 .. Len(t), t[j].m # Null
        PROVE  Known(t[j], Rs \ S, In \ S, Mk \ S, Ev \ S)
    <3>1. /\ t[j].m = s[j].m /\ t[j].fn = s[j].fn /\ t[j].i = s[j].i /\ ~Nulled(s[j], S)
          /\ Known(s[j], Rs, In, Mk, Ev)
      BY <2>1, <1>b, <1>f, <1>C DEF Calls
    <3> QED BY <3>1, <1>c, <1>b DEF Known, Nulled, Begin, Loading
  <2> QED BY <2>1 DEF Calls
<1>5. Once(t, Mk \ S)
  <2>1. ASSUME NEW j \in 1 .. Len(t), NEW k \in 1 .. Len(t),
               t[j].fn \in {"resolve", "instantiate", "evaluate"}, t[j].m # Null,
               t[j].fn = t[k].fn, t[j].m = t[k].m
        PROVE  j = k
    <3>1. s[j].m = t[j].m /\ s[k].m = t[j].m /\ s[j].fn = t[j].fn /\ s[k].fn = t[j].fn
      BY <2>1, <1>b, <1>f
    <3> QED BY <2>1, <3>1, <1>b, <1>O DEF Once
  <2>2. ASSUME NEW x \in Mk \ S
        PROVE  \E j \in 1 .. Len(t) : t[j].fn = "evaluate" /\ t[j].m = x
    <3>1. PICK j \in 1 .. Len(s) : s[j].fn = "evaluate" /\ s[j].m = x
      BY <1>O DEF Once
    <3>2. ~Nulled(s[j], S)
      BY <3>1 DEF Nulled
    <3> QED BY <3>1, <3>2, <1>b
  <2> QED BY <2>1, <2>2 DEF Once
<1>6. Answered(f, t, r)
  <2>1. Waited(f, t[Len(t)]) => Waited(f, s[Len(s)])
    BY <1>a, <1>b, <1>h DEF Waited, Begin
  <2> QED BY <2>1, <1>a, <1>A DEF Answered
<1>7. Ordered(f, t, r, Mk \ S, (Ok \ S), Rn \ S)
  <2>1. ASSUME NEW j \in 1 .. Len(t), t[j].fn = "evaluate", t[j].m # Null
        PROVE  /\ S \cap In = {} /\ j \in 1 .. Len(s) /\ s[j].fn = "evaluate"
               /\ s[j].m = t[j].m /\ s[j].i = t[j].i
    <3>1. /\ j \in 1 .. Len(s) /\ s[j].fn = "evaluate" /\ s[j].m = t[j].m /\ s[j].i = t[j].i
          /\ ~Nulled(s[j], S)
      BY <2>1, <1>b, <1>f
    <3>2. s[j].m \in Mk /\ s[j].m \notin S
      BY <3>1, <2>1, <1>C DEF Calls, Known, Nulled
    <3>3. s[j].m \in Ld /\ s[j].m \notin Ev
      BY <3>2, <1>T DEF Flags
    <3> QED BY <3>1, <3>2, <3>3, <1>i
  <2>2. ASSUME NEW j \in 1 .. Len(t), t[j].fn = "evaluate", t[j].m # Null,
               NEW k \in 1 .. Len(f[t[j].m].req), k <= t[j].i
        PROVE  Done(t, r, Ok \ S, j, f[t[j].m].req[k], k = t[j].i)
    <3> DEFINE x == f[t[j].m].req[k]
    <3>0. /\ j \in 1 .. Len(s) /\ s[j].fn = "evaluate" /\ s[j].m # Null /\ s[j].i = t[j].i
          /\ x = f[s[j].m].req[k] /\ k \in 1 .. Len(f[s[j].m].req) /\ S \cap In = {}
      BY <2>1, <2>2
    <3> SUFFICES Done(t, r, Ok \ S, j, x, k = t[j].i)
      OBVIOUS
    <3>1. Done(s, r, Ok, j, x, k = t[j].i)
      BY <3>0, <2>2, <1>D DEF Ordered
    <3>x. x \in Module
      <4>1. s[j].m \in DOMAIN f
        BY <3>0, <1>T, <1>C DEF Calls, Known, Flags
      <4> QED BY <4>1, <3>0, <1>T DEF Typed
    <3> HIDE DEF x
    <3>2. CASE x \in Ok
      <4>1. x \notin S
        BY <3>2, <3>0, <1>T DEF Flags
      <4> QED BY <3>2, <4>1 DEF Done
    <3>3. \A h \in 1 .. Len(s) : s[h].fn = "evaluate" /\ s[h].m = x => t[h].fn = "evaluate" /\ t[h].m = x
      <4> SUFFICES ASSUME NEW h \in 1 .. Len(s), s[h].fn = "evaluate", s[h].m = x
                   PROVE  t[h].fn = "evaluate" /\ t[h].m = x
        OBVIOUS
      <4>1. x # Null
        BY <3>x, ModuleAssumption
      <4>2. x \in Mk
        BY <4>1, <1>C DEF Calls, Known
      <4>3. x \notin S
        BY <4>2, <3>0, <1>T DEF Flags
      <4>4. ~Nulled(s[h], S)
        BY <4>3 DEF Nulled
      <4> QED BY <4>4, <1>b
    <3>4. CASE \E h \in 1 .. j : s[h].fn = "evaluate" /\ s[h].m = x
      <4>1. PICK h \in 1 .. j : s[h].fn = "evaluate" /\ s[h].m = x
        BY <3>4
      <4>2. h \in 1 .. Len(s)
        BY <3>0, <1>a
      <4>3. t[h].fn = "evaluate" /\ t[h].m = x
        BY <4>1, <4>2, <3>3
      <4> QED BY <4>3 DEF Done
    <3>5. CASE k = t[j].i /\ j < Len(s) /\ s[j + 1].fn = "evaluate" /\ s[j + 1].m = x
      <4>1. j + 1 \in 1 .. Len(s) /\ j < Len(t)
        BY <3>5, <3>0, <1>a, <1>b
      <4>2. t[j + 1].fn = "evaluate" /\ t[j + 1].m = x
        BY <4>1, <3>5, <3>3
      <4> QED BY <3>5, <4>1, <4>2 DEF Done
    <3>6. j # Len(s)
      BY <3>0, <1>h DEF Begin
    <3> QED BY <3>1, <3>2, <3>4, <3>5, <3>6 DEF Done
  <2>3. ASSUME NEW j \in 1 .. Len(t), t[j].fn = "evaluate", t[j].m # Null, t[j].i <= Len(f[t[j].m].req)
        PROVE  t[j].m \notin Rn \ S
    BY <2>1, <2>3, <1>D DEF Ordered
  <2>4. ASSUME NEW j \in 1 .. Len(t), t[j].fn = "body", t[j].i = 0
        PROVE  FALSE
    <3>1. j = Len(s) /\ s[j].fn = "body"
      BY <2>4, <1>b, <1>D DEF Ordered
    <3> QED BY <3>1, <1>h DEF Begin
  <2> QED BY <2>2, <2>3, <2>4 DEF Ordered
<1>8. ~Failing(t, r) => Closed(f, t, In \ S, Kept(Lk, S))
  <2> SUFFICES ASSUME ~Failing(t, r), NEW p \in Module, NEW x \in Module,
                      <<p, x>> \in Kept(Lk, S), p \in In \ S, x \notin In \ S
               PROVE  \E j \in 1 .. Len(t) : t[j].fn = "instantiate" /\ t[j].m = p /\ Later(f, t[j], x)
    BY DEF Closed
  <2>1. ~Failing(s, r) /\ <<p, x>> \in Lk /\ p \in In /\ x \notin In /\ p # Null
    BY <1>g, ModuleAssumption DEF Kept
  <2>2. PICK j \in 1 .. Len(s) : s[j].fn = "instantiate" /\ s[j].m = p /\ Later(f, s[j], x)
    BY <2>1, <1>R DEF Closed
  <2>3. ~Nulled(s[j], S)
    BY <2>2 DEF Nulled
  <2>4. j \in 1 .. Len(t) /\ t[j].fn = s[j].fn /\ t[j].i = s[j].i /\ t[j].m = s[j].m
    BY <2>3, <1>b
  <2>5. Later(f, t[j], x)
    BY <2>2, <2>4 DEF Later
  <2> QED BY <2>2, <2>4, <2>5
<1>9. ~Failing(t, r) => Reached(f, t, Waiting(In \ S, Mk \ S, Ev \ S), Kept(Lk, S))
  <2> SUFFICES ASSUME ~Failing(t, r)
               PROVE  Reached(f, t, Waiting(In \ S, Mk \ S, Ev \ S), Kept(Lk, S))
    OBVIOUS
  <2> DEFINE Wt == Waiting(In, Mk, Ev)
  <2>1. ~Failing(s, r) /\ S \cap In = {}
    BY <1>g, <1>i
  <2>2. Reached(f, s, Wt, Lk) /\ Wt \subseteq In /\ Waiting(In \ S, Mk \ S, Ev \ S) = Wt
    BY <2>1, <1>R, <1>T DEF Waiting, Flags
  <2>m. Wt \subseteq Module
    BY <2>2, <1>T DEF Flags, Typed
  <2> HIDE DEF Wt
  <2>3. ASSUME NEW Q \in SUBSET Wt, Q # {}
        PROVE  \E x \in Q : Wanted(f, t, Wt, Kept(Lk, S), Q, x)
    <3>1. PICK x \in Q : Wanted(f, s, Wt, Lk, Q, x)
      BY <2>2, <2>3 DEF Reached
    <3>2. x \in In /\ x \notin S
      BY <2>1, <2>2
    <3>3. ASSUME NEW p \in Wt, p \notin Q, <<p, x>> \in Lk
          PROVE  Wanted(f, t, Wt, Kept(Lk, S), Q, x)
      <4>1. <<p, x>> \in Kept(Lk, S)
        BY <3>2, <3>3, <2>1, <2>2 DEF Kept
      <4> QED BY <3>3, <4>1 DEF Wanted
    <3>4. ASSUME NEW j \in 1 .. Len(s), s[j].fn \in Begin, s[j].i = 2, s[j].m = x
          PROVE  Wanted(f, t, Wt, Kept(Lk, S), Q, x)
      <4>1. ~Nulled(s[j], S)
        BY <3>2, <3>4 DEF Nulled
      <4>2. j \in 1 .. Len(t) /\ t[j].fn \in Begin /\ t[j].i = 2 /\ t[j].m = x
        BY <3>4, <4>1, <1>b
      <4> QED BY <4>2 DEF Wanted
    <3>5. ASSUME NEW j \in 1 .. Len(s), s[j].fn = "evaluate", Later(f, s[j], x)
          PROVE  Wanted(f, t, Wt, Kept(Lk, S), Q, x)
      <4>1. s[j].m # Null
        BY <3>5 DEF Later
      <4>2. s[j].m \in In
        BY <4>1, <3>5, <1>T, <1>C DEF Calls, Known, Flags
      <4>3. ~Nulled(s[j], S)
        BY <4>2, <2>1 DEF Nulled
      <4>4. j \in 1 .. Len(t) /\ t[j].fn = "evaluate" /\ t[j].m = s[j].m /\ t[j].i = s[j].i
        BY <3>5, <4>3, <1>b
      <4>5. Later(f, t[j], x)
        BY <3>5, <4>4 DEF Later
      <4> QED BY <4>4, <4>5 DEF Wanted
    <3> QED BY <3>1, <3>3, <3>4, <3>5 DEF Wanted
  <2>4. Reached(f, t, Wt, Kept(Lk, S))
    BY <2>3 DEF Reached
  <2> QED BY <2>2, <2>4
<1> QED BY <1>1, <1>2, <1>3, <1>4, <1>5, <1>6, <1>7, <1>8, <1>9 DEF LinkInv

(* The host evaluates a file: it is compiled under a new module.           *)
LEMMA StartRun ==
  ASSUME NEW f, NEW s, NEW r, NEW Ld, NEW Rs, NEW In, NEW Mk, NEW Ev, NEW Ok, NEW Rn, NEW Lk,
         LinkInv(f, s, r, Ld, Rs, In, Mk, Ev, Ok, Rn, Lk),
         NEW m \in DOMAIN f, m \notin Ld, s = <<>>, NEW c \in Frame, NEW t, t = <<c>>,
         c.m = m, c.fn = "run" /\ c.i = 1
  PROVE  LinkInv(f, t, "ok", Ld \cup {m}, Rs \cup {m}, In, Mk, Ev, Ok, Rn, Lk)
<1>T. Typed(f, s, r) /\ Flags(f, Ld, Rs, In, Mk, Ev, Ok, Rn, Lk)
  BY DEF LinkInv
<1>N. Nested(s)
  BY DEF LinkInv
<1>C. Calls(s, Rs, In, Mk, Ev)
  BY DEF LinkInv
<1>O. Once(s, Mk)
  BY DEF LinkInv
<1>A. Answered(f, s, r)
  BY DEF LinkInv
<1>D. Ordered(f, s, r, Mk, Ok, Rn)
  BY DEF LinkInv
<1>R. ~Failing(s, r) => Closed(f, s, In, Lk) /\ Reached(f, s, Waiting(In, Mk, Ev), Lk)
  BY DEF LinkInv
<1>b. t \in Seq(Frame) /\ Len(t) = 1 /\ t[1] = c /\ c \in Frame /\ \A j \in 1 .. Len(t) : j = 1
  BY <1>T DEF Typed
<1>c. m \in Module /\ m # Null
  BY <1>T, ModuleAssumption DEF Flags, Typed
<1>e. c.m = m /\ c.fn = "run" /\ c.i = 1
  OBVIOUS
<1>w. \A j \in 1 .. Len(s) : FALSE
  OBVIOUS
<1>x. ~Failing(s, r)
  BY DEF Failing
<1>1. Typed(f, t, "ok")
  BY <1>T, <1>b DEF Typed
<1>2. Flags(f, Ld \cup {m}, Rs \cup {m}, In, Mk, Ev, Ok, Rn, Lk)
  BY <1>T DEF Flags
<1>3. Nested(t)
  BY <1>b, <1>e DEF Nested, Begin, Loading
<1>4. Calls(t, Rs \cup {m}, In, Mk, Ev)
  BY <1>T, <1>b, <1>e DEF Calls, Known, Flags, Begin, Loading
<1>5. Once(t, Mk)
  BY <1>O, <1>b, <1>w DEF Once
<1>6. Answered(f, t, "ok")
  BY <1>b, <1>e DEF Answered, Waited
<1>7. Ordered(f, t, "ok", Mk, Ok, Rn)
  BY <1>b, <1>e DEF Ordered
<1>8. ~Failing(t, "ok") => Closed(f, t, In, Lk)
  BY <1>x, <1>w, <1>R DEF Closed
<1>9. ~Failing(t, "ok") => Reached(f, t, Waiting(In, Mk, Ev), Lk)
  <2> DEFINE Wt == Waiting(In, Mk, Ev)
  <2>1. Reached(f, s, Wt, Lk)
    BY <1>x, <1>R
  <2> HIDE DEF Wt
  <2>2. Reached(f, t, Wt, Lk)
    BY <2>1, <1>w DEF Reached, Wanted
  <2> QED BY <2>2 DEF Wt
<1> QED BY <1>1, <1>2, <1>3, <1>4, <1>5, <1>6, <1>7, <1>8, <1>9 DEF LinkInv

(* Code outside modules calls import().                                    *)
LEMMA StartImport ==
  ASSUME NEW f, NEW s, NEW r, NEW Ld, NEW Rs, NEW In, NEW Mk, NEW Ev, NEW Ok, NEW Rn, NEW Lk,
         LinkInv(f, s, r, Ld, Rs, In, Mk, Ev, Ok, Rn, Lk),
         NEW m \in Module, s = <<>>, NEW c \in Frame, NEW t, t = <<c>>,
         c.m = m, c.fn = "import" /\ c.i = 0
  PROVE  LinkInv(f, t, "none", Ld, Rs, In, Mk, Ev, Ok, Rn, Lk)
<1>T. Typed(f, s, r) /\ Flags(f, Ld, Rs, In, Mk, Ev, Ok, Rn, Lk)
  BY DEF LinkInv
<1>N. Nested(s)
  BY DEF LinkInv
<1>C. Calls(s, Rs, In, Mk, Ev)
  BY DEF LinkInv
<1>O. Once(s, Mk)
  BY DEF LinkInv
<1>A. Answered(f, s, r)
  BY DEF LinkInv
<1>D. Ordered(f, s, r, Mk, Ok, Rn)
  BY DEF LinkInv
<1>R. ~Failing(s, r) => Closed(f, s, In, Lk) /\ Reached(f, s, Waiting(In, Mk, Ev), Lk)
  BY DEF LinkInv
<1>b. t \in Seq(Frame) /\ Len(t) = 1 /\ t[1] = c /\ c \in Frame /\ \A j \in 1 .. Len(t) : j = 1
  BY <1>T DEF Typed
<1>c. m \in Module /\ m # Null
  BY <1>T, ModuleAssumption DEF Flags, Typed
<1>e. c.m = m /\ c.fn = "import" /\ c.i = 0
  OBVIOUS
<1>w. \A j \in 1 .. Len(s) : FALSE
  OBVIOUS
<1>x. ~Failing(s, r)
  BY DEF Failing
<1>1. Typed(f, t, "none")
  BY <1>T, <1>b DEF Typed
<1>2. Flags(f, Ld, Rs, In, Mk, Ev, Ok, Rn, Lk)
  BY <1>T DEF Flags
<1>3. Nested(t)
  BY <1>b, <1>e DEF Nested, Begin, Loading
<1>4. Calls(t, Rs, In, Mk, Ev)
  BY <1>T, <1>b, <1>e DEF Calls, Known, Flags, Begin, Loading
<1>5. Once(t, Mk)
  BY <1>O, <1>b, <1>w DEF Once
<1>6. Answered(f, t, "none")
  BY <1>b, <1>e DEF Answered, Waited
<1>7. Ordered(f, t, "none", Mk, Ok, Rn)
  BY <1>b, <1>e DEF Ordered
<1>8. ~Failing(t, "none") => Closed(f, t, In, Lk)
  BY <1>x, <1>w, <1>R DEF Closed
<1>9. ~Failing(t, "none") => Reached(f, t, Waiting(In, Mk, Ev), Lk)
  <2> DEFINE Wt == Waiting(In, Mk, Ev)
  <2>1. Reached(f, s, Wt, Lk)
    BY <1>x, <1>R
  <2> HIDE DEF Wt
  <2>2. Reached(f, t, Wt, Lk)
    BY <2>1, <1>w DEF Reached, Wanted
  <2> QED BY <2>2 DEF Wt
<1> QED BY <1>1, <1>2, <1>3, <1>4, <1>5, <1>6, <1>7, <1>8, <1>9 DEF LinkInv

(* The host makes a C module.                                              *)
LEMMA NewC ==
  ASSUME NEW f, NEW s, NEW r, NEW Ld, NEW Rs, NEW In, NEW Mk, NEW Ev, NEW Ok, NEW Rn, NEW Lk,
         LinkInv(f, s, r, Ld, Rs, In, Mk, Ev, Ok, Rn, Lk),
         NEW m \in DOMAIN f, s = <<>>
  PROVE  LinkInv(f, s, r, Ld \cup {m}, Rs, In, Mk, Ev, Ok, Rn, Lk)
<1>T. Typed(f, s, r) /\ Flags(f, Ld, Rs, In, Mk, Ev, Ok, Rn, Lk)
  BY DEF LinkInv
<1>N. Nested(s)
  BY DEF LinkInv
<1>C. Calls(s, Rs, In, Mk, Ev)
  BY DEF LinkInv
<1>O. Once(s, Mk)
  BY DEF LinkInv
<1>A. Answered(f, s, r)
  BY DEF LinkInv
<1>D. Ordered(f, s, r, Mk, Ok, Rn)
  BY DEF LinkInv
<1>R. ~Failing(s, r) => Closed(f, s, In, Lk) /\ Reached(f, s, Waiting(In, Mk, Ev), Lk)
  BY DEF LinkInv
<1>1. Typed(f, s, r)
  BY <1>T
<1>2. Flags(f, Ld \cup {m}, Rs, In, Mk, Ev, Ok, Rn, Lk)
  BY <1>T DEF Flags
<1>3. Nested(s)
  BY <1>N
<1>4. Calls(s, Rs, In, Mk, Ev)
  BY <1>C
<1>5. Once(s, Mk)
  BY <1>O
<1>6. Answered(f, s, r)
  BY <1>A
<1>7. Ordered(f, s, r, Mk, Ok, Rn)
  BY <1>D
<1>8. ~Failing(s, r) => Closed(f, s, In, Lk)
  BY <1>R
<1>9. ~Failing(s, r) => Reached(f, s, Waiting(In, Mk, Ev), Lk)
  BY <1>R
<1> QED BY <1>1, <1>2, <1>3, <1>4, <1>5, <1>6, <1>7, <1>8, <1>9 DEF LinkInv

(* A module finds one that it requests.                                    *)
LEMMA LinkAdded ==
  ASSUME NEW f, NEW s, NEW r, NEW Ld, NEW Rs, NEW In, NEW Mk, NEW Ev, NEW Ok, NEW Rn, NEW Lk,
         LinkInv(f, s, r, Ld, Rs, In, Mk, Ev, Ok, Rn, Lk),
         NEW m \in Ld, NEW x \in Rs, m \notin In,
         \E k \in 1 .. Len(f[m].req) : f[m].req[k] = x
  PROVE  LinkInv(f, s, r, Ld, Rs, In, Mk, Ev, Ok, Rn, Lk \cup {<<m, x>>})
<1>T. Typed(f, s, r) /\ Flags(f, Ld, Rs, In, Mk, Ev, Ok, Rn, Lk)
  BY DEF LinkInv
<1>N. Nested(s)
  BY DEF LinkInv
<1>C. Calls(s, Rs, In, Mk, Ev)
  BY DEF LinkInv
<1>O. Once(s, Mk)
  BY DEF LinkInv
<1>A. Answered(f, s, r)
  BY DEF LinkInv
<1>D. Ordered(f, s, r, Mk, Ok, Rn)
  BY DEF LinkInv
<1>R. ~Failing(s, r) => Closed(f, s, In, Lk) /\ Reached(f, s, Waiting(In, Mk, Ev), Lk)
  BY DEF LinkInv
<1>1. Typed(f, s, r)
  BY <1>T
<1>2. Flags(f, Ld, Rs, In, Mk, Ev, Ok, Rn, Lk \cup {<<m, x>>})
  BY <1>T DEF Flags, Typed
<1>3. Nested(s)
  BY <1>N
<1>4. Calls(s, Rs, In, Mk, Ev)
  BY <1>C
<1>5. Once(s, Mk)
  BY <1>O
<1>6. Answered(f, s, r)
  BY <1>A
<1>7. Ordered(f, s, r, Mk, Ok, Rn)
  BY <1>D
<1>8. ~Failing(s, r) => Closed(f, s, In, Lk \cup {<<m, x>>})
  <2> SUFFICES ASSUME ~Failing(s, r), NEW p \in Module, NEW y \in Module,
                      <<p, y>> \in Lk \cup {<<m, x>>}, p \in In, y \notin In
               PROVE  \E j \in 1 .. Len(s) : s[j].fn = "instantiate" /\ s[j].m = p /\ Later(f, s[j], y)
    BY DEF Closed
  <2>1. <<p, y>> \in Lk
    OBVIOUS
  <2> QED BY <2>1, <1>R DEF Closed
<1>9. ~Failing(s, r) => Reached(f, s, Waiting(In, Mk, Ev), Lk \cup {<<m, x>>})
  <2> DEFINE Wt == Waiting(In, Mk, Ev)
  <2> SUFFICES ASSUME Reached(f, s, Wt, Lk)
               PROVE  Reached(f, s, Wt, Lk \cup {<<m, x>>})
    BY <1>R
  <2> HIDE DEF Wt
  <2> QED BY DEF Reached, Wanted
<1> QED BY <1>1, <1>2, <1>3, <1>4, <1>5, <1>6, <1>7, <1>8, <1>9 DEF LinkInv

-----------------------------------------------------------------------------
(* A module is marked as resolved.                                         *)
LEMMA ModResolved ==
  ASSUME NEW md, ModsTyped(md), NEW x \in Module, NEW md2,
         md2 = [md EXCEPT ![x].resolved = TRUE]
  PROVE  /\ ModsTyped(md2)
         /\ LoadedIn(md2) = LoadedIn(md) /\ ResolvedIn(md2) = ResolvedIn(md) \cup {x}
         /\ InstantiatedIn(md2) = InstantiatedIn(md) /\ MarkedIn(md2) = MarkedIn(md)
         /\ EvaluatedIn(md2) = EvaluatedIn(md) /\ OkIn(md2) = OkIn(md)
         /\ RanIn(md2) = RanIn(md) /\ LinksIn(md2) = LinksIn(md)
<1>t. ModsTyped(md)
  OBVIOUS
<1>2. \A m \in Module : m # x => md2[m] = md[m]
  BY DEF ModsTyped
<1>3. /\ DOMAIN md2 = Module /\ DOMAIN md2[x] = Fields
      /\ md2[x].loaded = md[x].loaded
      /\ md2[x].resolved = TRUE
      /\ md2[x].instantiated = md[x].instantiated
      /\ md2[x].eval_mark = md[x].eval_mark
      /\ md2[x].evaluated = md[x].evaluated
      /\ md2[x].eval_has_exception = md[x].eval_has_exception
      /\ md2[x].ran = md[x].ran
      /\ md2[x].linked = md[x].linked
  BY DEF ModsTyped, Fields
<1>1. ModsTyped(md2)
  BY <1>2, <1>3 DEF ModsTyped
<1>10. LoadedIn(md2) = LoadedIn(md)
  BY <1>2, <1>3, <1>t DEF LoadedIn
<1>11. ResolvedIn(md2) = ResolvedIn(md) \cup {x}
  BY <1>2, <1>3, <1>t DEF ResolvedIn
<1>12. InstantiatedIn(md2) = InstantiatedIn(md)
  BY <1>2, <1>3, <1>t DEF InstantiatedIn
<1>13. MarkedIn(md2) = MarkedIn(md)
  BY <1>2, <1>3, <1>t DEF MarkedIn
<1>14. EvaluatedIn(md2) = EvaluatedIn(md)
  BY <1>2, <1>3, <1>t DEF EvaluatedIn
<1>15. OkIn(md2) = OkIn(md)
  BY <1>2, <1>3, <1>t DEF OkIn
<1>16. RanIn(md2) = RanIn(md)
  BY <1>2, <1>3, <1>t DEF RanIn
<1>17. LinksIn(md2) = LinksIn(md)
  BY <1>2, <1>3, <1>t DEF LinksIn
<1> QED BY <1>1, <1>10, <1>11, <1>12, <1>13, <1>14, <1>15, <1>16, <1>17

LinkedMods(md, x, y) == [md EXCEPT ![x].linked = @ \cup {y}]

(* A module keeps one that it requests.                                    *)
LEMMA ModLinked ==
  ASSUME NEW md, ModsTyped(md), NEW x \in Module, NEW y \in Module, NEW md2,
         md2 = LinkedMods(md, x, y)
  PROVE  /\ ModsTyped(md2)
         /\ LoadedIn(md2) = LoadedIn(md) /\ ResolvedIn(md2) = ResolvedIn(md)
         /\ InstantiatedIn(md2) = InstantiatedIn(md) /\ MarkedIn(md2) = MarkedIn(md)
         /\ EvaluatedIn(md2) = EvaluatedIn(md) /\ OkIn(md2) = OkIn(md)
         /\ RanIn(md2) = RanIn(md) /\ LinksIn(md2) = LinksIn(md) \cup {<<x, y>>}
<1> USE DEF LinkedMods
<1>t. ModsTyped(md)
  OBVIOUS
<1>2. \A m \in Module : m # x => md2[m] = md[m]
  BY DEF ModsTyped
<1>3. /\ DOMAIN md2 = Module /\ DOMAIN md2[x] = Fields
      /\ md2[x].loaded = md[x].loaded
      /\ md2[x].resolved = md[x].resolved
      /\ md2[x].instantiated = md[x].instantiated
      /\ md2[x].eval_mark = md[x].eval_mark
      /\ md2[x].evaluated = md[x].evaluated
      /\ md2[x].eval_has_exception = md[x].eval_has_exception
      /\ md2[x].ran = md[x].ran
      /\ md2[x].linked = md[x].linked \cup {y}
  BY DEF ModsTyped, Fields
<1>1. ModsTyped(md2)
  BY <1>2, <1>3 DEF ModsTyped
<1>10. LoadedIn(md2) = LoadedIn(md)
  BY <1>2, <1>3, <1>t DEF LoadedIn
<1>11. ResolvedIn(md2) = ResolvedIn(md)
  BY <1>2, <1>3, <1>t DEF ResolvedIn
<1>12. InstantiatedIn(md2) = InstantiatedIn(md)
  BY <1>2, <1>3, <1>t DEF InstantiatedIn
<1>13. MarkedIn(md2) = MarkedIn(md)
  BY <1>2, <1>3, <1>t DEF MarkedIn
<1>14. EvaluatedIn(md2) = EvaluatedIn(md)
  BY <1>2, <1>3, <1>t DEF EvaluatedIn
<1>15. OkIn(md2) = OkIn(md)
  BY <1>2, <1>3, <1>t DEF OkIn
<1>16. RanIn(md2) = RanIn(md)
  BY <1>2, <1>3, <1>t DEF RanIn
<1>17. LinksIn(md2) = LinksIn(md) \cup {<<x, y>>}
  BY <1>2, <1>3, <1>t DEF LinksIn
<1> QED BY <1>1, <1>10, <1>11, <1>12, <1>13, <1>14, <1>15, <1>16, <1>17

(* A module is marked while it is evaluated.                               *)
LEMMA ModMarked ==
  ASSUME NEW md, ModsTyped(md), NEW x \in Module, NEW md2,
         md2 = [md EXCEPT ![x].eval_mark = TRUE]
  PROVE  /\ ModsTyped(md2)
         /\ LoadedIn(md2) = LoadedIn(md) /\ ResolvedIn(md2) = ResolvedIn(md)
         /\ InstantiatedIn(md2) = InstantiatedIn(md) /\ MarkedIn(md2) = MarkedIn(md) \cup {x}
         /\ EvaluatedIn(md2) = EvaluatedIn(md) /\ OkIn(md2) = OkIn(md)
         /\ RanIn(md2) = RanIn(md) /\ LinksIn(md2) = LinksIn(md)
<1>t. ModsTyped(md)
  OBVIOUS
<1>2. \A m \in Module : m # x => md2[m] = md[m]
  BY DEF ModsTyped
<1>3. /\ DOMAIN md2 = Module /\ DOMAIN md2[x] = Fields
      /\ md2[x].loaded = md[x].loaded
      /\ md2[x].resolved = md[x].resolved
      /\ md2[x].instantiated = md[x].instantiated
      /\ md2[x].eval_mark = TRUE
      /\ md2[x].evaluated = md[x].evaluated
      /\ md2[x].eval_has_exception = md[x].eval_has_exception
      /\ md2[x].ran = md[x].ran
      /\ md2[x].linked = md[x].linked
  BY DEF ModsTyped, Fields
<1>1. ModsTyped(md2)
  BY <1>2, <1>3 DEF ModsTyped
<1>10. LoadedIn(md2) = LoadedIn(md)
  BY <1>2, <1>3, <1>t DEF LoadedIn
<1>11. ResolvedIn(md2) = ResolvedIn(md)
  BY <1>2, <1>3, <1>t DEF ResolvedIn
<1>12. InstantiatedIn(md2) = InstantiatedIn(md)
  BY <1>2, <1>3, <1>t DEF InstantiatedIn
<1>13. MarkedIn(md2) = MarkedIn(md) \cup {x}
  BY <1>2, <1>3, <1>t DEF MarkedIn
<1>14. EvaluatedIn(md2) = EvaluatedIn(md)
  BY <1>2, <1>3, <1>t DEF EvaluatedIn
<1>15. OkIn(md2) = OkIn(md)
  BY <1>2, <1>3, <1>t DEF OkIn
<1>16. RanIn(md2) = RanIn(md)
  BY <1>2, <1>3, <1>t DEF RanIn
<1>17. LinksIn(md2) = LinksIn(md)
  BY <1>2, <1>3, <1>t DEF LinksIn
<1> QED BY <1>1, <1>10, <1>11, <1>12, <1>13, <1>14, <1>15, <1>16, <1>17

(* Its evaluation stops.                                                   *)
LEMMA ModUnmarked ==
  ASSUME NEW md, ModsTyped(md), NEW x \in Module, NEW md2,
         md2 = [md EXCEPT ![x].eval_mark = FALSE]
  PROVE  /\ ModsTyped(md2)
         /\ LoadedIn(md2) = LoadedIn(md) /\ ResolvedIn(md2) = ResolvedIn(md)
         /\ InstantiatedIn(md2) = InstantiatedIn(md) /\ MarkedIn(md2) = MarkedIn(md) \ {x}
         /\ EvaluatedIn(md2) = EvaluatedIn(md) /\ OkIn(md2) = OkIn(md)
         /\ RanIn(md2) = RanIn(md) /\ LinksIn(md2) = LinksIn(md)
<1>t. ModsTyped(md)
  OBVIOUS
<1>2. \A m \in Module : m # x => md2[m] = md[m]
  BY DEF ModsTyped
<1>3. /\ DOMAIN md2 = Module /\ DOMAIN md2[x] = Fields
      /\ md2[x].loaded = md[x].loaded
      /\ md2[x].resolved = md[x].resolved
      /\ md2[x].instantiated = md[x].instantiated
      /\ md2[x].eval_mark = FALSE
      /\ md2[x].evaluated = md[x].evaluated
      /\ md2[x].eval_has_exception = md[x].eval_has_exception
      /\ md2[x].ran = md[x].ran
      /\ md2[x].linked = md[x].linked
  BY DEF ModsTyped, Fields
<1>1. ModsTyped(md2)
  BY <1>2, <1>3 DEF ModsTyped
<1>10. LoadedIn(md2) = LoadedIn(md)
  BY <1>2, <1>3, <1>t DEF LoadedIn
<1>11. ResolvedIn(md2) = ResolvedIn(md)
  BY <1>2, <1>3, <1>t DEF ResolvedIn
<1>12. InstantiatedIn(md2) = InstantiatedIn(md)
  BY <1>2, <1>3, <1>t DEF InstantiatedIn
<1>13. MarkedIn(md2) = MarkedIn(md) \ {x}
  BY <1>2, <1>3, <1>t DEF MarkedIn
<1>14. EvaluatedIn(md2) = EvaluatedIn(md)
  BY <1>2, <1>3, <1>t DEF EvaluatedIn
<1>15. OkIn(md2) = OkIn(md)
  BY <1>2, <1>3, <1>t DEF OkIn
<1>16. RanIn(md2) = RanIn(md)
  BY <1>2, <1>3, <1>t DEF RanIn
<1>17. LinksIn(md2) = LinksIn(md)
  BY <1>2, <1>3, <1>t DEF LinksIn
<1> QED BY <1>1, <1>10, <1>11, <1>12, <1>13, <1>14, <1>15, <1>16, <1>17

(* Its body runs.                                                          *)
LEMMA ModRan ==
  ASSUME NEW md, ModsTyped(md), NEW x \in Module, NEW md2,
         x \notin RanIn(md), md2 = [md EXCEPT ![x].ran = @ + 1]
  PROVE  /\ ModsTyped(md2)
         /\ LoadedIn(md2) = LoadedIn(md) /\ ResolvedIn(md2) = ResolvedIn(md)
         /\ InstantiatedIn(md2) = InstantiatedIn(md) /\ MarkedIn(md2) = MarkedIn(md)
         /\ EvaluatedIn(md2) = EvaluatedIn(md) /\ OkIn(md2) = OkIn(md)
         /\ RanIn(md2) = RanIn(md) \cup {x} /\ LinksIn(md2) = LinksIn(md)
<1>t. ModsTyped(md)
  OBVIOUS
<1>2. \A m \in Module : m # x => md2[m] = md[m]
  BY DEF ModsTyped
<1>3. /\ DOMAIN md2 = Module /\ DOMAIN md2[x] = Fields
      /\ md2[x].loaded = md[x].loaded
      /\ md2[x].resolved = md[x].resolved
      /\ md2[x].instantiated = md[x].instantiated
      /\ md2[x].eval_mark = md[x].eval_mark
      /\ md2[x].evaluated = md[x].evaluated
      /\ md2[x].eval_has_exception = md[x].eval_has_exception
      /\ md2[x].ran = 1
      /\ md2[x].linked = md[x].linked
  BY DEF ModsTyped, Fields, RanIn
<1>1. ModsTyped(md2)
  BY <1>2, <1>3 DEF ModsTyped
<1>10. LoadedIn(md2) = LoadedIn(md)
  BY <1>2, <1>3, <1>t DEF LoadedIn
<1>11. ResolvedIn(md2) = ResolvedIn(md)
  BY <1>2, <1>3, <1>t DEF ResolvedIn
<1>12. InstantiatedIn(md2) = InstantiatedIn(md)
  BY <1>2, <1>3, <1>t DEF InstantiatedIn
<1>13. MarkedIn(md2) = MarkedIn(md)
  BY <1>2, <1>3, <1>t DEF MarkedIn
<1>14. EvaluatedIn(md2) = EvaluatedIn(md)
  BY <1>2, <1>3, <1>t DEF EvaluatedIn
<1>15. OkIn(md2) = OkIn(md)
  BY <1>2, <1>3, <1>t DEF OkIn
<1>16. RanIn(md2) = RanIn(md) \cup {x}
  BY <1>2, <1>3, <1>t DEF RanIn
<1>17. LinksIn(md2) = LinksIn(md)
  BY <1>2, <1>3, <1>t DEF LinksIn
<1> QED BY <1>1, <1>10, <1>11, <1>12, <1>13, <1>14, <1>15, <1>16, <1>17

EvaluatedMods(md, x, r, func) ==
  [md EXCEPT ![x] = [@ EXCEPT !.eval_has_exception = (r = "fail"), !.eval_mark = FALSE,
                              !.evaluated = TRUE, !.func = func]]

(* A module has been evaluated.                                            *)
LEMMA ModEvaluated ==
  ASSUME NEW md, ModsTyped(md), NEW x \in Module, NEW md2, NEW r, NEW func,
         md2 = EvaluatedMods(md, x, r, func),
         x \notin OkIn(md), r \in {"ok", "fail"}
  PROVE  /\ ModsTyped(md2)
         /\ LoadedIn(md2) = LoadedIn(md) /\ ResolvedIn(md2) = ResolvedIn(md)
         /\ InstantiatedIn(md2) = InstantiatedIn(md) /\ MarkedIn(md2) = MarkedIn(md) \ {x}
         /\ EvaluatedIn(md2) = EvaluatedIn(md) \cup {x}
         /\ OkIn(md2) = (IF r = "ok" THEN OkIn(md) \cup {x} ELSE OkIn(md))
         /\ RanIn(md2) = RanIn(md) /\ LinksIn(md2) = LinksIn(md)
<1> USE DEF EvaluatedMods
<1>t. ModsTyped(md)
  OBVIOUS
<1>2. \A m \in Module : m # x => md2[m] = md[m]
  BY DEF ModsTyped
<1>3. /\ DOMAIN md2 = Module /\ DOMAIN md2[x] = Fields
      /\ md2[x].loaded = md[x].loaded
      /\ md2[x].resolved = md[x].resolved
      /\ md2[x].instantiated = md[x].instantiated
      /\ md2[x].eval_mark = FALSE
      /\ md2[x].evaluated = TRUE
      /\ md2[x].eval_has_exception = (r = "fail")
      /\ md2[x].ran = md[x].ran
      /\ md2[x].linked = md[x].linked
  BY DEF ModsTyped, Fields
<1>4. md2[x].eval_has_exception \in BOOLEAN /\ (md2[x].eval_has_exception <=> r = "fail")
  BY <1>3, Zenon
<1>1. ModsTyped(md2)
  BY <1>2, <1>3, <1>4 DEF ModsTyped
<1>10. LoadedIn(md2) = LoadedIn(md)
  BY <1>2, <1>3, <1>t DEF LoadedIn
<1>11. ResolvedIn(md2) = ResolvedIn(md)
  BY <1>2, <1>3, <1>t DEF ResolvedIn
<1>12. InstantiatedIn(md2) = InstantiatedIn(md)
  BY <1>2, <1>3, <1>t DEF InstantiatedIn
<1>13. MarkedIn(md2) = MarkedIn(md) \ {x}
  BY <1>2, <1>3, <1>t DEF MarkedIn
<1>14. EvaluatedIn(md2) = EvaluatedIn(md) \cup {x}
  BY <1>2, <1>3, <1>t DEF EvaluatedIn
<1>15. OkIn(md2) = (IF r = "ok" THEN OkIn(md) \cup {x} ELSE OkIn(md))
  BY <1>2, <1>3, <1>4, <1>t DEF OkIn
<1>16. RanIn(md2) = RanIn(md)
  BY <1>2, <1>3, <1>t DEF RanIn
<1>17. LinksIn(md2) = LinksIn(md)
  BY <1>2, <1>3, <1>t DEF LinksIn
<1> QED BY <1>1, <1>10, <1>11, <1>12, <1>13, <1>14, <1>15, <1>16, <1>17

(* The module x of md has been given variables in md1.                     *)
Given(md, md1, x) ==
  /\ DOMAIN md1 = Module /\ \A m \in Module : m # x => md1[m] = md[m]
  /\ DOMAIN md1[x] = Fields /\ \A k \in Fields \ {"func", "exported"} : md1[x][k] = md[x][k]

(* A module is marked as instantiated, and given variables.                *)
LEMMA ModInstantiated ==
  ASSUME NEW md, ModsTyped(md), NEW x \in Module, NEW md2, NEW md1,
         Given(md, md1, x), md2 = [md1 EXCEPT ![x].instantiated = TRUE]
  PROVE  /\ ModsTyped(md2)
         /\ LoadedIn(md2) = LoadedIn(md) /\ ResolvedIn(md2) = ResolvedIn(md)
         /\ InstantiatedIn(md2) = InstantiatedIn(md) \cup {x} /\ MarkedIn(md2) = MarkedIn(md)
         /\ EvaluatedIn(md2) = EvaluatedIn(md) /\ OkIn(md2) = OkIn(md)
         /\ RanIn(md2) = RanIn(md) /\ LinksIn(md2) = LinksIn(md)
<1> USE DEF Given
<1>t. ModsTyped(md)
  OBVIOUS
<1>2. \A m \in Module : m # x => md2[m] = md[m]
  BY DEF ModsTyped
<1>3. /\ DOMAIN md2 = Module /\ DOMAIN md2[x] = Fields
      /\ md2[x].loaded = md[x].loaded
      /\ md2[x].resolved = md[x].resolved
      /\ md2[x].instantiated = TRUE
      /\ md2[x].eval_mark = md[x].eval_mark
      /\ md2[x].evaluated = md[x].evaluated
      /\ md2[x].eval_has_exception = md[x].eval_has_exception
      /\ md2[x].ran = md[x].ran
      /\ md2[x].linked = md[x].linked
  <2>1. DOMAIN md2 = Module /\ DOMAIN md2[x] = Fields /\ md2[x].instantiated = TRUE
    BY DEF Fields
  <2>2. /\ md2[x].loaded = md1[x].loaded /\ md2[x].resolved = md1[x].resolved
        /\ md2[x].eval_mark = md1[x].eval_mark /\ md2[x].evaluated = md1[x].evaluated
        /\ md2[x].eval_has_exception = md1[x].eval_has_exception
        /\ md2[x].ran = md1[x].ran /\ md2[x].linked = md1[x].linked
    BY DEF Fields
  <2>3. /\ md1[x].loaded = md[x].loaded /\ md1[x].resolved = md[x].resolved
        /\ md1[x].eval_mark = md[x].eval_mark /\ md1[x].evaluated = md[x].evaluated
        /\ md1[x].eval_has_exception = md[x].eval_has_exception
        /\ md1[x].ran = md[x].ran /\ md1[x].linked = md[x].linked
    BY DEF Fields
  <2> QED BY <2>1, <2>2, <2>3
<1>1. ModsTyped(md2)
  BY <1>2, <1>3 DEF ModsTyped
<1>10. LoadedIn(md2) = LoadedIn(md)
  BY <1>2, <1>3, <1>t DEF LoadedIn
<1>11. ResolvedIn(md2) = ResolvedIn(md)
  BY <1>2, <1>3, <1>t DEF ResolvedIn
<1>12. InstantiatedIn(md2) = InstantiatedIn(md) \cup {x}
  BY <1>2, <1>3, <1>t DEF InstantiatedIn
<1>13. MarkedIn(md2) = MarkedIn(md)
  BY <1>2, <1>3, <1>t DEF MarkedIn
<1>14. EvaluatedIn(md2) = EvaluatedIn(md)
  BY <1>2, <1>3, <1>t DEF EvaluatedIn
<1>15. OkIn(md2) = OkIn(md)
  BY <1>2, <1>3, <1>t DEF OkIn
<1>16. RanIn(md2) = RanIn(md)
  BY <1>2, <1>3, <1>t DEF RanIn
<1>17. LinksIn(md2) = LinksIn(md)
  BY <1>2, <1>3, <1>t DEF LinksIn
<1> QED BY <1>1, <1>10, <1>11, <1>12, <1>13, <1>14, <1>15, <1>16, <1>17

(* A module that is not loaded has nothing; a new one, resolved or not.    *)
HasNothing(md, x) ==
  /\ ~md[x].resolved /\ ~md[x].instantiated /\ ~md[x].eval_mark /\ ~md[x].evaluated
  /\ md[x].ran = 0 /\ md[x].linked = {}

IsNew(md, md2, x, resolved) ==
  /\ DOMAIN md2 = Module /\ \A m \in Module : m # x => md2[m] = md[m]
  /\ DOMAIN md2[x] = Fields
  /\ md2[x].loaded = TRUE /\ md2[x].resolved = resolved /\ md2[x].instantiated = FALSE
  /\ md2[x].evaluated = FALSE /\ md2[x].eval_mark = FALSE /\ md2[x].eval_has_exception = FALSE
  /\ md2[x].linked = {} /\ md2[x].ran = 0

(* A module is new.                                                        *)
LEMMA ModNew ==
  ASSUME NEW md, ModsTyped(md), NEW x \in Module, NEW md2, NEW resolved \in BOOLEAN, HasNothing(md, x),
         IsNew(md, md2, x, resolved)
  PROVE  /\ ModsTyped(md2)
         /\ LoadedIn(md2) = LoadedIn(md) \cup {x}
         /\ ResolvedIn(md2) = (IF resolved THEN ResolvedIn(md) \cup {x} ELSE ResolvedIn(md))
         /\ InstantiatedIn(md2) = InstantiatedIn(md) /\ MarkedIn(md2) = MarkedIn(md)
         /\ EvaluatedIn(md2) = EvaluatedIn(md) /\ OkIn(md2) = OkIn(md)
         /\ RanIn(md2) = RanIn(md) /\ LinksIn(md2) = LinksIn(md)
<1>t. ModsTyped(md)
  OBVIOUS
<1>2. \A m \in Module : m # x => md2[m] = md[m]
  BY DEF IsNew
<1>3. /\ DOMAIN md2 = Module /\ DOMAIN md2[x] = Fields
      /\ md2[x].loaded = TRUE /\ md2[x].resolved = resolved /\ md2[x].instantiated = FALSE
      /\ md2[x].evaluated = FALSE /\ md2[x].eval_mark = FALSE /\ md2[x].eval_has_exception = FALSE
      /\ md2[x].linked = {} /\ md2[x].ran = 0
      /\ ~md[x].resolved /\ ~md[x].instantiated /\ ~md[x].eval_mark /\ ~md[x].evaluated
      /\ md[x].ran = 0 /\ md[x].linked = {}
  BY DEF IsNew, HasNothing
<1>1. ModsTyped(md2)
  BY <1>2, <1>3 DEF ModsTyped
<1>10. LoadedIn(md2) = LoadedIn(md) \cup {x}
  BY <1>2, <1>3, <1>t DEF LoadedIn
<1>11. ResolvedIn(md2) = (IF resolved THEN ResolvedIn(md) \cup {x} ELSE ResolvedIn(md))
  BY <1>2, <1>3, <1>t DEF ResolvedIn
<1>12. InstantiatedIn(md2) = InstantiatedIn(md)
  BY <1>2, <1>3, <1>t DEF InstantiatedIn
<1>13. MarkedIn(md2) = MarkedIn(md)
  BY <1>2, <1>3, <1>t DEF MarkedIn
<1>14. EvaluatedIn(md2) = EvaluatedIn(md)
  BY <1>2, <1>3, <1>t DEF EvaluatedIn
<1>15. OkIn(md2) = OkIn(md)
  BY <1>2, <1>3, <1>t DEF OkIn
<1>16. RanIn(md2) = RanIn(md)
  BY <1>2, <1>3, <1>t DEF RanIn
<1>17. LinksIn(md2) = LinksIn(md)
  BY <1>2, <1>3, <1>t DEF LinksIn
<1> QED BY <1>1, <1>10, <1>11, <1>12, <1>13, <1>14, <1>15, <1>16, <1>17

(* The modules after Free, and after a linking.                            *)
FreedMods(md, S) ==
  [m \in Module |-> IF m \in S THEN Absent
                   ELSE [md[m] EXCEPT !.linked = @ \ S, !.lost = @ \cup (md[m].linked \cap S)]]

BoundMods(md, md1) ==
  [m \in Module |-> [md[m] EXCEPT !.bound = md1[m].bound, !.exported = md1[m].exported,
                                 !.ns = md1[m].ns]]

(* Modules are freed.                                                      *)
LEMMA ModsFreed ==
  ASSUME NEW md, ModsTyped(md), NEW S, NEW md2, md2 = FreedMods(md, S)
  PROVE  /\ ModsTyped(md2)
         /\ LoadedIn(md2) = LoadedIn(md) \ S /\ ResolvedIn(md2) = ResolvedIn(md) \ S
         /\ InstantiatedIn(md2) = InstantiatedIn(md) \ S /\ MarkedIn(md2) = MarkedIn(md) \ S
         /\ EvaluatedIn(md2) = EvaluatedIn(md) \ S /\ OkIn(md2) = OkIn(md) \ S
         /\ RanIn(md2) = RanIn(md) \ S /\ LinksIn(md2) = Kept(LinksIn(md), S)
<1>t. ModsTyped(md)
  OBVIOUS
<1>2. ASSUME NEW m \in S \cap Module
      PROVE  /\ DOMAIN md2[m] = Fields
        /\ md2[m].loaded = FALSE /\ md2[m].resolved = FALSE /\ md2[m].instantiated = FALSE
        /\ md2[m].evaluated = FALSE /\ md2[m].eval_mark = FALSE /\ md2[m].eval_has_exception = FALSE
        /\ md2[m].linked = {} /\ md2[m].ran = 0
  <2>1. m \in Module /\ m \in S
    OBVIOUS
  <2>2. md2[m] = Absent
    BY <2>1, Zenon DEF FreedMods
  <2> QED BY <2>2 DEF Absent, Fields
<1>3. ASSUME NEW m \in Module \ S
      PROVE  /\ DOMAIN md2[m] = Fields
        /\ md2[m].loaded = md[m].loaded /\ md2[m].resolved = md[m].resolved
        /\ md2[m].instantiated = md[m].instantiated /\ md2[m].evaluated = md[m].evaluated
        /\ md2[m].eval_mark = md[m].eval_mark
        /\ md2[m].eval_has_exception = md[m].eval_has_exception
        /\ md2[m].linked = md[m].linked \ S /\ md2[m].ran = md[m].ran
  <2>1. md2[m] = [md[m] EXCEPT !.linked = @ \ S, !.lost = @ \cup (md[m].linked \cap S)]
    <3>1. m \in Module /\ m \notin S
      OBVIOUS
    <3> QED BY <3>1, Zenon DEF FreedMods
  <2>2. DOMAIN md[m] = Fields
    BY DEF ModsTyped
  <2> QED BY <2>1, <2>2 DEF Fields
<1>4. DOMAIN md2 = Module
  BY Zenon DEF FreedMods
<1>1. ModsTyped(md2)
  <2>1. ASSUME NEW m \in Module
        PROVE  /\ DOMAIN md2[m] = Fields
               /\ md2[m].loaded \in BOOLEAN /\ md2[m].resolved \in BOOLEAN
               /\ md2[m].instantiated \in BOOLEAN /\ md2[m].evaluated \in BOOLEAN
               /\ md2[m].eval_mark \in BOOLEAN /\ md2[m].eval_has_exception \in BOOLEAN
               /\ md2[m].linked \subseteq Module /\ md2[m].ran \in {0, 1}
    <3>1. CASE m \in S
      BY <1>2, <3>1
    <3>2. CASE m \notin S
      <4>1. /\ md[m].loaded \in BOOLEAN /\ md[m].resolved \in BOOLEAN
            /\ md[m].instantiated \in BOOLEAN /\ md[m].evaluated \in BOOLEAN
            /\ md[m].eval_mark \in BOOLEAN /\ md[m].eval_has_exception \in BOOLEAN
            /\ md[m].linked \subseteq Module /\ md[m].ran \in {0, 1}
        BY <1>t DEF ModsTyped
      <4>2. m \in Module \ S
        BY <3>2
      <4> QED BY <1>3, <4>1, <4>2
    <3> QED BY <3>1, <3>2
  <2> QED BY <2>1, <1>4 DEF ModsTyped
<1>10. LoadedIn(md2) = LoadedIn(md) \ S
  BY <1>2, <1>3, <1>t DEF LoadedIn
<1>11. ResolvedIn(md2) = ResolvedIn(md) \ S
  BY <1>2, <1>3, <1>t DEF ResolvedIn
<1>12. InstantiatedIn(md2) = InstantiatedIn(md) \ S
  BY <1>2, <1>3, <1>t DEF InstantiatedIn
<1>13. MarkedIn(md2) = MarkedIn(md) \ S
  BY <1>2, <1>3, <1>t DEF MarkedIn
<1>14. EvaluatedIn(md2) = EvaluatedIn(md) \ S
  BY <1>2, <1>3, <1>t DEF EvaluatedIn
<1>15. OkIn(md2) = OkIn(md) \ S
  BY <1>2, <1>3, <1>t DEF OkIn
<1>16. RanIn(md2) = RanIn(md) \ S
  BY <1>2, <1>3, <1>t DEF RanIn
<1>17. LinksIn(md2) = Kept(LinksIn(md), S)
  <2>1. ASSUME NEW l \in Module \X Module
        PROVE  l[2] \in md2[l[1]].linked <=> l[2] \in md[l[1]].linked /\ l[1] \notin S /\ l[2] \notin S
    <3>1. l[1] \in Module /\ l[2] \in Module
      OBVIOUS
    <3>2. CASE l[1] \in S
      <4>1. md2[l[1]].linked = {}
        BY <1>2, <3>1, <3>2
      <4> QED BY <4>1, <3>2
    <3>3. CASE l[1] \notin S
      <4>1. md2[l[1]].linked = md[l[1]].linked \ S
        BY <1>3, <3>1, <3>3
      <4> QED BY <4>1, <3>3
    <3> QED BY <3>2, <3>3
  <2> QED BY <2>1 DEF LinksIn, Kept
<1> QED BY <1>1, <1>10, <1>11, <1>12, <1>13, <1>14, <1>15, <1>16, <1>17

(* Linking leaves all this alone.                                          *)
LEMMA ModsBound ==
  ASSUME NEW md, ModsTyped(md), NEW md1, NEW md2, md2 = BoundMods(md, md1)
  PROVE  /\ ModsTyped(md2)
         /\ LoadedIn(md2) = LoadedIn(md) /\ ResolvedIn(md2) = ResolvedIn(md)
         /\ InstantiatedIn(md2) = InstantiatedIn(md) /\ MarkedIn(md2) = MarkedIn(md)
         /\ EvaluatedIn(md2) = EvaluatedIn(md) /\ OkIn(md2) = OkIn(md)
         /\ RanIn(md2) = RanIn(md) /\ LinksIn(md2) = LinksIn(md)
<1>t. ModsTyped(md)
  OBVIOUS
<1>2. ASSUME NEW m \in Module
      PROVE  /\ DOMAIN md2[m] = Fields
        /\ md2[m].loaded = md[m].loaded /\ md2[m].resolved = md[m].resolved
        /\ md2[m].instantiated = md[m].instantiated /\ md2[m].evaluated = md[m].evaluated
        /\ md2[m].eval_mark = md[m].eval_mark
        /\ md2[m].eval_has_exception = md[m].eval_has_exception
        /\ md2[m].linked = md[m].linked /\ md2[m].ran = md[m].ran
  <2>1. md2[m] = [md[m] EXCEPT !.bound = md1[m].bound, !.exported = md1[m].exported,
                               !.ns = md1[m].ns]
    BY Zenon DEF BoundMods
  <2>2. DOMAIN md[m] = Fields
    BY DEF ModsTyped
  <2> QED BY <2>1, <2>2 DEF Fields
<1>3. DOMAIN md2 = Module
  BY Zenon DEF BoundMods
<1>1. ModsTyped(md2)
  BY <1>2, <1>3 DEF ModsTyped
<1>10. LoadedIn(md2) = LoadedIn(md)
  BY <1>2, <1>3, <1>t DEF LoadedIn
<1>11. ResolvedIn(md2) = ResolvedIn(md)
  BY <1>2, <1>3, <1>t DEF ResolvedIn
<1>12. InstantiatedIn(md2) = InstantiatedIn(md)
  BY <1>2, <1>3, <1>t DEF InstantiatedIn
<1>13. MarkedIn(md2) = MarkedIn(md)
  BY <1>2, <1>3, <1>t DEF MarkedIn
<1>14. EvaluatedIn(md2) = EvaluatedIn(md)
  BY <1>2, <1>3, <1>t DEF EvaluatedIn
<1>15. OkIn(md2) = OkIn(md)
  BY <1>2, <1>3, <1>t DEF OkIn
<1>16. RanIn(md2) = RanIn(md)
  BY <1>2, <1>3, <1>t DEF RanIn
<1>17. LinksIn(md2) = LinksIn(md)
  BY <1>2, <1>3, <1>t DEF LinksIn
<1> QED BY <1>1, <1>10, <1>11, <1>12, <1>13, <1>14, <1>15, <1>16, <1>17

-----------------------------------------------------------------------------
(* The calls in progress, as the actions change them.                      *)
Stepped(s) == [s EXCEPT ![Len(s)].i = @ + 1]

LEMMA FrameFields ==
  ASSUME NEW fn \in Fn, NEW m \in Module, NEW i \in Nat
  PROVE  /\ [fn |-> fn, m |-> m, i |-> i] \in Frame
         /\ [fn |-> fn, m |-> m, i |-> i].fn = fn /\ [fn |-> fn, m |-> m, i |-> i].m = m
         /\ [fn |-> fn, m |-> m, i |-> i].i = i
  BY DEF Frame

LEMMA SteppedMoved ==
  ASSUME NEW s \in Seq(Frame), s # <<>>
  PROVE  Moved(s, Stepped(s), 1)
<1>1. Len(s) \in 1 .. Len(s) /\ s[Len(s)] \in Frame /\ Len(s) \in Nat
  OBVIOUS
<1>2. [s[Len(s)] EXCEPT !.i = @ + 1] \in Frame
  BY <1>1 DEF Frame
<1>3. Stepped(s) = [s EXCEPT ![Len(s)] = [s[Len(s)] EXCEPT !.i = @ + 1]]
  BY <1>1 DEF Stepped, Frame
<1>4. Stepped(s) \in Seq(Frame) /\ Len(Stepped(s)) = Len(s)
  BY <1>1, <1>2, <1>3
<1>5. \A j \in 1 .. Len(s) - 1 : Stepped(s)[j] = s[j]
  BY <1>1, <1>3
<1>6. Stepped(s)[Len(s)] = [s[Len(s)] EXCEPT !.i = @ + 1]
  BY <1>1, <1>3
<1> QED BY <1>1, <1>4, <1>5, <1>6 DEF Moved, Frame

LEMMA SteppedPushed ==
  ASSUME NEW s \in Seq(Frame), s # <<>>, NEW c \in Frame
  PROVE  Pushed(s, Append(Stepped(s), c), 1, c)
<1>1. Moved(s, Stepped(s), 1)
  BY SteppedMoved
<1>2. Stepped(s) \in Seq(Frame) /\ Len(Stepped(s)) = Len(s) /\ Len(s) \in Nat /\ Len(s) > 0
  BY <1>1 DEF Moved
<1>3. /\ Append(Stepped(s), c) \in Seq(Frame) /\ Len(Append(Stepped(s), c)) = Len(s) + 1
      /\ \A j \in 1 .. Len(s) : Append(Stepped(s), c)[j] = Stepped(s)[j]
      /\ Append(Stepped(s), c)[Len(s) + 1] = c
  BY <1>2
<1> QED BY <1>1, <1>2, <1>3 DEF Moved, Pushed

LEMMA Appended ==
  ASSUME NEW s \in Seq(Frame), NEW c \in Frame
  PROVE  /\ Append(s, c) \in Seq(Frame) /\ Len(Append(s, c)) = Len(s) + 1
         /\ \A j \in 1 .. Len(s) : Append(s, c)[j] = s[j]
         /\ Append(s, c)[Len(s) + 1] = c
         /\ s # <<>> => Pushed(s, Append(s, c), 0, c)
<1>1. /\ Append(s, c) \in Seq(Frame) /\ Len(Append(s, c)) = Len(s) + 1
      /\ \A j \in 1 .. Len(s) : Append(s, c)[j] = s[j]
      /\ Append(s, c)[Len(s) + 1] = c /\ Len(s) \in Nat
  OBVIOUS
<1>2. ASSUME s # <<>>
      PROVE  Pushed(s, Append(s, c), 0, c)
  <2>1. Len(s) \in 1 .. Len(s) /\ s[Len(s)] \in Frame
    BY <1>2
  <2>2. s[Len(s)].i \in Nat
    BY <2>1 DEF Frame
  <2> QED BY <1>1, <1>2, <2>1, <2>2 DEF Pushed
<1> QED BY <1>1, <1>2

LEMMA CallStepped ==
  ASSUME NEW s \in Seq(Frame), NEW fn \in Fn, NEW m \in Module
  PROVE  [Append(s, [fn |-> fn, m |-> m, i |-> 0]) EXCEPT ![Len(s) + 1].i = 1]
           = Append(s, [fn |-> fn, m |-> m, i |-> 1])
<1> DEFINE a == [fn |-> fn, m |-> m, i |-> 0]
           c == [fn |-> fn, m |-> m, i |-> 1]
<1>1. a \in Frame /\ c \in Frame /\ [a EXCEPT !.i = 1] = c
  BY DEF Frame
<1> HIDE DEF a, c
<1>2. /\ Append(s, a) \in Seq(Frame) /\ Len(Append(s, a)) = Len(s) + 1 /\ Len(s) \in Nat
      /\ \A j \in 1 .. Len(s) : Append(s, a)[j] = s[j] /\ Append(s, c)[j] = s[j]
      /\ Append(s, a)[Len(s) + 1] = a /\ Append(s, c)[Len(s) + 1] = c
      /\ Append(s, c) \in Seq(Frame) /\ Len(Append(s, c)) = Len(s) + 1
  BY <1>1
<1> DEFINE e == Append(s, a)
           g == Append(s, c)
           b == [e EXCEPT ![Len(s) + 1] = [a EXCEPT !.i = 1]]
<1>2a. /\ e \in Seq(Frame) /\ Len(e) = Len(s) + 1 /\ DOMAIN e = 1 .. Len(s) + 1
       /\ e[Len(s) + 1] = a /\ Len(s) \in Nat /\ \A j \in 1 .. Len(s) : e[j] = g[j]
       /\ g[Len(s) + 1] = [a EXCEPT !.i = 1]
  BY <1>1, <1>2
<1> HIDE DEF e, g
<1>3. b = [e EXCEPT ![Len(s) + 1].i = 1]
  BY <1>2a
<1>4. b \in Seq(Frame) /\ Len(b) = Len(s) + 1
  BY <1>1, <1>2a
<1>5. \A j \in 1 .. Len(s) + 1 : b[j] = g[j]
  BY <1>2a
<1> HIDE DEF b
<1>6. b = g
  BY <1>2, <1>4, <1>5, SeqEqual DEF g
<1> QED BY <1>3, <1>6 DEF a, c, e, g

LEMMA FrontPopped ==
  ASSUME NEW s \in Seq(Frame), s # <<>>
  PROVE  Popped(s, Front(s))
<1>1. Len(s) - 1 \in Nat /\ 1 .. Len(s) - 1 \subseteq 1 .. Len(s) /\ Front(s) = SubSeq(s, 1, Len(s) - 1)
  BY DEF Front
<1>2. /\ SubSeq(s, 1, Len(s) - 1) \in Seq(Frame) /\ Len(SubSeq(s, 1, Len(s) - 1)) = Len(s) - 1
      /\ \A j \in 1 .. Len(s) - 1 : SubSeq(s, 1, Len(s) - 1)[j] = s[j]
  <2>1. \A k \in 1 .. Len(s) : /\ SubSeq(s, 1, k - 1) \in Seq(Frame) /\ Len(SubSeq(s, 1, k - 1)) = k - 1
                               /\ \A j \in 1 .. k - 1 : SubSeq(s, 1, k - 1)[j] = s[j]
    OBVIOUS
  <2>2. Len(s) \in 1 .. Len(s)
    OBVIOUS
  <2> QED BY <2>1, <2>2
<1> QED BY <1>1, <1>2 DEF Popped

(* Worlds, and what the operators make of them.                            *)
IsWorld(w) == DOMAIN w = {"mod", "stack", "ret"}

LEMMA WorldFields ==
  IsWorld(World) /\ World.mod = mod /\ World.stack = stack /\ World.ret = ret
  BY DEF World, IsWorld

LEMMA Next0Fields ==
  ASSUME NEW w, IsWorld(w)
  PROVE  /\ IsWorld(Next0(w)) /\ Next0(w).mod = w.mod /\ Next0(w).ret = "none"
         /\ Next0(w).stack = Stepped(w.stack)
  BY DEF IsWorld, Next0, Stepped

LEMMA CallFields ==
  ASSUME NEW w, IsWorld(w), NEW fn, NEW m
  PROVE  /\ IsWorld(Call(w, fn, m)) /\ Call(w, fn, m).mod = w.mod /\ Call(w, fn, m).ret = "none"
         /\ Call(w, fn, m).stack = Append(w.stack, [fn |-> fn, m |-> m, i |-> 0])
  BY DEF IsWorld, Call

LEMMA ReturnFields ==
  ASSUME NEW w, IsWorld(w), NEW q
  PROVE  Return(w, q).mod = w.mod /\ Return(w, q).ret = q /\ Return(w, q).stack = Front(w.stack)
  BY DEF IsWorld, Return

LEMMA ResolveFields ==
  ASSUME NEW w, IsWorld(w), NEW m
  PROVE  /\ w.mod[m].resolved =>
              /\ js_resolve_module(w, m).mod = w.mod /\ js_resolve_module(w, m).ret = "ok"
              /\ js_resolve_module(w, m).stack = w.stack
         /\ ~w.mod[m].resolved =>
              /\ js_resolve_module(w, m).mod = [w.mod EXCEPT ![m].resolved = TRUE]
              /\ js_resolve_module(w, m).ret = "none"
              /\ js_resolve_module(w, m).stack = Append(w.stack, [fn |-> "resolve", m |-> m, i |-> 0])
<1> DEFINE v == [w EXCEPT !.mod[m].resolved = TRUE]
<1>1. /\ IsWorld(v) /\ v.mod = [w.mod EXCEPT ![m].resolved = TRUE] /\ v.stack = w.stack
  BY DEF IsWorld
<1>2. ~w.mod[m].resolved => js_resolve_module(w, m) = Call(v, "resolve", m)
  BY DEF js_resolve_module
<1> HIDE DEF v
<1>3. w.mod[m].resolved => /\ js_resolve_module(w, m).mod = w.mod /\ js_resolve_module(w, m).ret = "ok"
                           /\ js_resolve_module(w, m).stack = w.stack
  BY DEF js_resolve_module, IsWorld
<1> QED BY <1>1, <1>2, <1>3, CallFields

LEMMA EvaluateFields ==
  ASSUME NEW w, IsWorld(w), NEW m
  PROVE  /\ w.mod[m].eval_mark \/ w.mod[m].evaluated =>
              /\ js_evaluate_module(w, m).mod = w.mod /\ js_evaluate_module(w, m).stack = w.stack
              /\ js_evaluate_module(w, m).ret =
                   IF ~w.mod[m].eval_mark /\ w.mod[m].eval_has_exception THEN "fail" ELSE "ok"
         /\ ~w.mod[m].eval_mark /\ ~w.mod[m].evaluated =>
              /\ js_evaluate_module(w, m).mod = [w.mod EXCEPT ![m].eval_mark = TRUE]
              /\ js_evaluate_module(w, m).ret = "none"
              /\ js_evaluate_module(w, m).stack = Append(w.stack, [fn |-> "evaluate", m |-> m, i |-> 0])
<1> DEFINE v == [w EXCEPT !.mod[m].eval_mark = TRUE]
<1>1. /\ IsWorld(v) /\ v.mod = [w.mod EXCEPT ![m].eval_mark = TRUE] /\ v.stack = w.stack
  BY DEF IsWorld
<1>2. ~w.mod[m].eval_mark /\ ~w.mod[m].evaluated => js_evaluate_module(w, m) = Call(v, "evaluate", m)
  BY DEF js_evaluate_module
<1> HIDE DEF v
<1>3. w.mod[m].eval_mark \/ w.mod[m].evaluated =>
              /\ js_evaluate_module(w, m).mod = w.mod /\ js_evaluate_module(w, m).stack = w.stack
              /\ js_evaluate_module(w, m).ret =
                   IF ~w.mod[m].eval_mark /\ w.mod[m].eval_has_exception THEN "fail" ELSE "ok"
  BY DEF js_evaluate_module, IsWorld
<1> QED BY <1>1, <1>2, <1>3, CallFields

LEMMA InstantiateFields ==
  ASSUME NEW w, IsWorld(w), NEW m \in Module, ModsTyped(w.mod)
  PROVE  /\ w.mod[m].instantiated =>
              /\ js_instantiate_module(w, m).mod = w.mod /\ js_instantiate_module(w, m).ret = "ok"
              /\ js_instantiate_module(w, m).stack = w.stack
         /\ ~w.mod[m].instantiated =>
              /\ \E md1 :
                   /\ Given(w.mod, md1, m)
                   /\ js_instantiate_module(w, m).mod = [md1 EXCEPT ![m].instantiated = TRUE]
              /\ js_instantiate_module(w, m).ret = "none"
              /\ js_instantiate_module(w, m).stack =
                   Append(w.stack, [fn |-> "instantiate", m |-> m, i |-> 0])
<1>1. w.mod[m].instantiated =>
              /\ js_instantiate_module(w, m).mod = w.mod /\ js_instantiate_module(w, m).ret = "ok"
              /\ js_instantiate_module(w, m).stack = w.stack
  BY DEF js_instantiate_module, IsWorld
<1>2. ASSUME ~w.mod[m].instantiated
      PROVE  /\ \E md1 :
                   /\ Given(w.mod, md1, m)
                   /\ js_instantiate_module(w, m).mod = [md1 EXCEPT ![m].instantiated = TRUE]
             /\ js_instantiate_module(w, m).ret = "none"
             /\ js_instantiate_module(w, m).stack =
                  Append(w.stack, [fn |-> "instantiate", m |-> m, i |-> 0])
  <2> DEFINE made == IF file[m].kind = "js" THEN [w EXCEPT !.mod[m].func = "function"]
                     ELSE [w EXCEPT !.mod[m].exported = [x \in DOMAIN @ |-> <<m, x>>]]
             v == [made EXCEPT !.mod[m].instantiated = TRUE]
  <2>1. js_instantiate_module(w, m) = Call(v, "instantiate", m)
    BY <1>2 DEF js_instantiate_module
  <2>2. /\ IsWorld(made) /\ made.stack = w.stack /\ DOMAIN made.mod = Module
        /\ \A k \in Module : k # m => made.mod[k] = w.mod[k]
        /\ DOMAIN made.mod[m] = Fields
        /\ \A k \in Fields \ {"func", "exported"} : made.mod[m][k] = w.mod[m][k]
    <3>0. DOMAIN w = {"mod", "stack", "ret"} /\ DOMAIN w.mod = Module /\ DOMAIN w.mod[m] = Fields
      BY DEF IsWorld, ModsTyped
    <3>1. CASE file[m].kind = "js"
      <4>1. made = [w EXCEPT !.mod[m].func = "function"]
        BY <3>1
      <4>2. made.mod = [w.mod EXCEPT ![m].func = "function"] /\ IsWorld(made) /\ made.stack = w.stack
        BY <3>0, <4>1 DEF IsWorld
      <4> HIDE DEF made
      <4> QED BY <3>0, <4>2
    <3>2. CASE file[m].kind # "js"
      <4>1. made = [w EXCEPT !.mod[m].exported = [x \in DOMAIN @ |-> <<m, x>>]]
        BY <3>2
      <4>2. /\ made.mod = [w.mod EXCEPT ![m].exported = [x \in DOMAIN @ |-> <<m, x>>]]
            /\ IsWorld(made) /\ made.stack = w.stack
        BY <3>0, <4>1 DEF IsWorld
      <4> HIDE DEF made
      <4> QED BY <3>0, <4>2
    <3> QED BY <3>1, <3>2
  <2> HIDE DEF made
  <2>3. IsWorld(v) /\ v.mod = [made.mod EXCEPT ![m].instantiated = TRUE] /\ v.stack = w.stack
    BY <2>2 DEF IsWorld
  <2> HIDE DEF v
  <2>4. /\ js_instantiate_module(w, m).mod = v.mod /\ js_instantiate_module(w, m).ret = "none"
        /\ js_instantiate_module(w, m).stack = Append(v.stack, [fn |-> "instantiate", m |-> m, i |-> 0])
    BY <2>1, <2>3, CallFields
  <2>5. \E md1 :
           /\ Given(w.mod, md1, m)
           /\ js_instantiate_module(w, m).mod = [md1 EXCEPT ![m].instantiated = TRUE]
    <3> WITNESS made.mod
    <3> QED BY <2>2, <2>3, <2>4 DEF Given
  <2> QED BY <2>3, <2>4, <2>5
<1> QED BY <1>1, <1>2


LEMMA NewFields ==
  ASSUME NEW m
  PROVE  LET n == NewModule(m) IN
         /\ DOMAIN n = Fields /\ n.loaded = TRUE /\ n.resolved = FALSE /\ n.instantiated = FALSE
         /\ n.evaluated = FALSE /\ n.eval_mark = FALSE /\ n.eval_has_exception = FALSE
         /\ n.linked = {} /\ n.ran = 0
<1>1. DOMAIN Absent = Fields
  BY DEF Absent, Fields
<1>2. /\ Absent.resolved = FALSE /\ Absent.instantiated = FALSE
      /\ Absent.evaluated = FALSE /\ Absent.eval_mark = FALSE /\ Absent.eval_has_exception = FALSE
      /\ Absent.linked = {} /\ Absent.ran = 0
  BY DEF Absent
<1> QED BY <1>1, <1>2 DEF NewModule, Fields

(* js_module_loader: a new module, a call with it, and one that resolves   *)
(* it.                                                                     *)
LEMMA LoadFields ==
  ASSUME NEW w, IsWorld(w), w.stack \in Seq(Frame), ModsTyped(w.mod), NEW fn \in Fn, NEW m \in Module
  PROVE  /\ IsNew(w.mod, Load(w, fn, m).mod, m, TRUE) /\ Load(w, fn, m).ret = "none"
         /\ Load(w, fn, m).stack = Append(Append(w.stack, [fn |-> fn, m |-> m, i |-> 1]),
                                          [fn |-> "resolve", m |-> m, i |-> 0])
<1> DEFINE u == Call(w, fn, m)
           v == [u EXCEPT !.mod[m] = NewModule(m), !.stack[Len(w.stack) + 1].i = 1]
           l == Load(w, fn, m)
<1>1. /\ IsWorld(u) /\ u.mod = w.mod
      /\ u.stack = Append(w.stack, [fn |-> fn, m |-> m, i |-> 0])
  BY CallFields
<1> HIDE DEF u
<1>2. /\ IsWorld(v) /\ v.mod = [w.mod EXCEPT ![m] = NewModule(m)]
      /\ v.stack = [u.stack EXCEPT ![Len(w.stack) + 1].i = 1]
  BY <1>1 DEF IsWorld
<1>3. l = js_resolve_module(v, m)
  BY DEF Load, u
<1> HIDE DEF v, l
<1>4. v.stack = Append(w.stack, [fn |-> fn, m |-> m, i |-> 1])
  <2>1. v.stack = [Append(w.stack, [fn |-> fn, m |-> m, i |-> 0]) EXCEPT ![Len(w.stack) + 1].i = 1]
    BY <1>1, <1>2, Zenon
  <2>2. [Append(w.stack, [fn |-> fn, m |-> m, i |-> 0]) EXCEPT ![Len(w.stack) + 1].i = 1]
          = Append(w.stack, [fn |-> fn, m |-> m, i |-> 1])
    BY CallStepped
  <2> QED BY <2>1, <2>2, Zenon
<1>5. /\ DOMAIN v.mod = Module /\ v.mod[m] = NewModule(m)
      /\ \A k \in Module : k # m => v.mod[k] = w.mod[k]
  BY <1>2 DEF ModsTyped
<1>6. /\ l.mod = [v.mod EXCEPT ![m].resolved = TRUE] /\ l.ret = "none"
      /\ l.stack = Append(v.stack, [fn |-> "resolve", m |-> m, i |-> 0])
  <2>1. ~v.mod[m].resolved
    BY <1>5, NewFields
  <2> QED BY <1>2, <1>3, <2>1, ResolveFields
<1>7. /\ l.mod[m] = [NewModule(m) EXCEPT !.resolved = TRUE] /\ DOMAIN l.mod = Module
      /\ \A k \in Module : k # m => l.mod[k] = w.mod[k]
  BY <1>5, <1>6
<1>8. LET n == [NewModule(m) EXCEPT !.resolved = TRUE] IN
      /\ DOMAIN n = Fields
      /\ n.loaded = TRUE /\ n.resolved = TRUE /\ n.instantiated = FALSE
      /\ n.evaluated = FALSE /\ n.eval_mark = FALSE /\ n.eval_has_exception = FALSE
      /\ n.linked = {} /\ n.ran = 0
  BY NewFields DEF Fields
<1>9. /\ DOMAIN l.mod[m] = Fields
      /\ l.mod[m].loaded = TRUE /\ l.mod[m].resolved = TRUE /\ l.mod[m].instantiated = FALSE
      /\ l.mod[m].evaluated = FALSE /\ l.mod[m].eval_mark = FALSE
      /\ l.mod[m].eval_has_exception = FALSE
      /\ l.mod[m].linked = {} /\ l.mod[m].ran = 0
  BY <1>7, <1>8
<1>10. IsNew(w.mod, l.mod, m, TRUE)
  BY <1>7, <1>9 DEF IsNew
<1> QED BY <1>4, <1>6, <1>10 DEF l

LEMMA FreeFields ==
  ASSUME NEW w, IsWorld(w), w.stack \in Seq(Frame), NEW S
  PROVE  /\ IsWorld(Free(w, S)) /\ Free(w, S).mod = FreedMods(w.mod, S) /\ Free(w, S).ret = w.ret
         /\ Freed(w.stack, Free(w, S).stack, S)
<1> DEFINE t == [j \in DOMAIN w.stack |->
                         IF w.stack[j].m \in S /\ w.stack[j].fn # "body"
                             /\ (w.stack[j].fn = "import" => w.stack[j].i > 0)
                           THEN [w.stack[j] EXCEPT !.m = Null] ELSE w.stack[j]]
<1>1. IsWorld(Free(w, S)) /\ Free(w, S).ret = w.ret /\ Free(w, S).stack = t
  BY DEF IsWorld, Free
<1>2. Free(w, S).mod = FreedMods(w.mod, S)
  BY DEF IsWorld, Free, FreedMods
<1>3. ASSUME NEW j \in 1 .. Len(w.stack)
      PROVE  /\ t[j] \in Frame /\ t[j].fn = w.stack[j].fn /\ t[j].i = w.stack[j].i
             /\ t[j].m = IF Nulled(w.stack[j], S) THEN Null ELSE w.stack[j].m
  <2>1. w.stack[j] \in Frame /\ j \in DOMAIN w.stack
    OBVIOUS
  <2> QED BY <2>1 DEF Frame, Nulled
<1>4. DOMAIN t = 1 .. Len(w.stack) /\ Len(w.stack) \in Nat
  OBVIOUS
<1> HIDE DEF t
<1>5. t \in Seq(Frame) /\ Len(t) = Len(w.stack)
  <2>1. t = [j \in 1 .. Len(w.stack) |-> t[j]]
    BY <1>4 DEF t
  <2>2. t \in [1 .. Len(w.stack) -> Frame]
    BY <2>1, <1>3
  <2> QED BY <2>2, <1>4
<1> QED BY <1>1, <1>2, <1>3, <1>5 DEF Freed

-----------------------------------------------------------------------------
(* What the invariant says of the last call.                               *)
LEMMA Top ==
  ASSUME InvOf(file, mod, stack, ret), stack # <<>>
  PROVE  /\ stack \in Seq(Frame) /\ Len(stack) \in 1 .. Len(stack)
         /\ Last(stack) = stack[Len(stack)]
         /\ stack[Len(stack)].fn \in Fn /\ stack[Len(stack)].m \in Module \cup {Null}
         /\ stack[Len(stack)].i \in Nat
<1>1. stack \in Seq(Frame)
  BY DEF InvOf, LinkInv, Typed
<1>2. Len(stack) \in 1 .. Len(stack)
  BY <1>1
<1>3. stack[Len(stack)] \in Frame
  BY <1>1, <1>2
<1> QED BY <1>1, <1>2, <1>3 DEF Last, Frame

LEMMA AtTop ==
  ASSUME InvOf(file, mod, stack, ret), NEW fn, At(fn)
  PROVE  /\ stack # <<>> /\ stack \in Seq(Frame) /\ Len(stack) \in 1 .. Len(stack)
         /\ stack[Len(stack)].fn = fn /\ stack[Len(stack)].m = M /\ stack[Len(stack)].i = I
         /\ Last(stack).fn = fn /\ fn \in Fn /\ M \in Module /\ M # Null /\ I \in Nat
         /\ Known(stack[Len(stack)], ResolvedIn(mod), InstantiatedIn(mod), MarkedIn(mod), EvaluatedIn(mod))
         /\ fn \notin {"import", "body"} => M \in LoadedIn(mod)
         /\ M \in LoadedIn(mod) => M \in DOMAIN file /\ file[M].req \in Seq(Module)
                                   /\ Len(file[M].req) \in Nat
                                   /\ \A k \in 1 .. Len(file[M].req) : file[M].req[k] \in Module
         /\ stack # <<>> /\ ret \in {"none", "ok", "fail"} /\ ModsTyped(mod)
<1>1. /\ stack # <<>> /\ stack \in Seq(Frame) /\ Len(stack) \in 1 .. Len(stack)
      /\ stack[Len(stack)].fn = fn /\ stack[Len(stack)].m = M /\ stack[Len(stack)].i = I
      /\ Last(stack).fn = fn /\ fn \in Fn /\ M \in Module /\ M # Null /\ I \in Nat
  BY Top DEF At, M, I
<1>2. Known(stack[Len(stack)], ResolvedIn(mod), InstantiatedIn(mod), MarkedIn(mod), EvaluatedIn(mod))
  <2>1. Calls(stack, ResolvedIn(mod), InstantiatedIn(mod), MarkedIn(mod), EvaluatedIn(mod))
    BY DEF InvOf, LinkInv
  <2> QED BY <1>1, <2>1 DEF Calls
<1>3. /\ Flags(file, LoadedIn(mod), ResolvedIn(mod), InstantiatedIn(mod), MarkedIn(mod),
               EvaluatedIn(mod), OkIn(mod), RanIn(mod), LinksIn(mod))
      /\ Typed(file, stack, ret) /\ Nested(stack) /\ ModsTyped(mod)
  BY DEF InvOf, LinkInv
<1>4. fn \notin {"import", "body"} => M \in LoadedIn(mod)
  <2>1. fn = "run" => I > 0
    BY <1>1, <1>3 DEF Nested
  <2> QED BY <1>1, <1>2, <1>3, <2>1 DEF Known, Flags, Fn, Begin, Loading
<1>5. ASSUME M \in LoadedIn(mod)
      PROVE  M \in DOMAIN file /\ file[M].req \in Seq(Module)
  BY <1>3, <1>5 DEF Flags, Typed
<1>6. ret \in {"none", "ok", "fail"}
  BY <1>3 DEF Typed
<1> QED BY <1>1, <1>2, <1>3, <1>4, <1>5, <1>6

(* The sets are sets of modules.                                           *)
LEMMA InSets ==
  ASSUME NEW m \in Module
  PROVE  /\ m \in LoadedIn(mod) <=> mod[m].loaded
         /\ m \in ResolvedIn(mod) <=> mod[m].resolved
         /\ m \in InstantiatedIn(mod) <=> mod[m].instantiated
         /\ m \in MarkedIn(mod) <=> mod[m].eval_mark
         /\ m \in EvaluatedIn(mod) <=> mod[m].evaluated
         /\ m \in OkIn(mod) <=> mod[m].evaluated /\ ~mod[m].eval_has_exception
         /\ m \in RanIn(mod) <=> mod[m].ran # 0
         /\ \A x \in Module : <<m, x>> \in LinksIn(mod) <=> x \in mod[m].linked
  BY DEF LoadedIn, ResolvedIn, InstantiatedIn, MarkedIn, EvaluatedIn, OkIn, RanIn, LinksIn

(* A module that is not loaded has nothing.                                *)
LEMMA NotLoadedYet ==
  ASSUME InvOf(file, mod, stack, ret), NEW m \in Module, ~mod[m].loaded
  PROVE  /\ m \notin LoadedIn(mod) /\ m \notin ResolvedIn(mod) /\ m \notin InstantiatedIn(mod)
         /\ HasNothing(mod, m)
<1>1. /\ Flags(file, LoadedIn(mod), ResolvedIn(mod), InstantiatedIn(mod), MarkedIn(mod),
               EvaluatedIn(mod), OkIn(mod), RanIn(mod), LinksIn(mod)) /\ ModsTyped(mod)
  BY DEF InvOf, LinkInv
<1>2. /\ m \notin LoadedIn(mod) /\ m \notin ResolvedIn(mod) /\ m \notin InstantiatedIn(mod)
      /\ m \notin MarkedIn(mod) /\ m \notin EvaluatedIn(mod) /\ m \notin RanIn(mod)
  BY <1>1, InSets DEF Flags
<1>3. \A x \in Module : x \notin mod[m].linked
  BY <1>1, <1>2, InSets DEF Flags
<1>4. mod[m].linked \subseteq Module /\ mod[m].ran \in {0, 1}
  BY <1>1 DEF ModsTyped
<1> QED BY <1>2, <1>3, <1>4, InSets DEF HasNothing

LEMMA JS_NewCModule_Keeps ==
  ASSUME InvOf(file, mod, stack, ret), NEW m \in Module, JS_NewCModule(m)
  PROVE  InvOf(file, mod', stack', ret')
<1>1. /\ stack = <<>> /\ m \in DOMAIN file /\ ~mod[m].loaded
      /\ mod' = [mod EXCEPT ![m] = NewModule(m)] /\ stack' = stack /\ ret' = ret
  BY DEF JS_NewCModule
<1>2. /\ ModsTyped(mod)
      /\ LinkInv(file, stack, ret, LoadedIn(mod), ResolvedIn(mod), InstantiatedIn(mod),
                 MarkedIn(mod), EvaluatedIn(mod), OkIn(mod), RanIn(mod), LinksIn(mod))
  BY DEF InvOf
<1>3. /\ ModsTyped(mod') /\ LoadedIn(mod') = LoadedIn(mod) \cup {m} /\ ResolvedIn(mod') = ResolvedIn(mod)
      /\ InstantiatedIn(mod') = InstantiatedIn(mod) /\ MarkedIn(mod') = MarkedIn(mod)
      /\ EvaluatedIn(mod') = EvaluatedIn(mod) /\ OkIn(mod') = OkIn(mod)
      /\ RanIn(mod') = RanIn(mod) /\ LinksIn(mod') = LinksIn(mod)
  <2> DEFINE n == mod'
  <2>1. /\ DOMAIN n = Module /\ \A k \in Module : k # m => n[k] = mod[k]
        /\ n[m] = NewModule(m)
    BY <1>1, <1>2 DEF ModsTyped
  <2>2. /\ DOMAIN n[m] = Fields
        /\ n[m].loaded = TRUE /\ n[m].resolved = FALSE /\ n[m].resolved \in BOOLEAN
        /\ n[m].instantiated = FALSE
        /\ n[m].evaluated = FALSE /\ n[m].eval_mark = FALSE /\ n[m].eval_has_exception = FALSE
        /\ n[m].linked = {} /\ n[m].ran = 0
    BY <2>1, NewFields
  <2> HIDE DEF n
  <2>3. /\ ModsTyped(n) /\ LoadedIn(n) = LoadedIn(mod) \cup {m} /\ ResolvedIn(n) = ResolvedIn(mod)
        /\ InstantiatedIn(n) = InstantiatedIn(mod) /\ MarkedIn(n) = MarkedIn(mod)
        /\ EvaluatedIn(n) = EvaluatedIn(mod) /\ OkIn(n) = OkIn(mod)
        /\ RanIn(n) = RanIn(mod) /\ LinksIn(n) = LinksIn(mod)
    <3>1. HasNothing(mod, m)
      BY <1>1, NotLoadedYet
    <3>2. ModsTyped(mod) /\ IsNew(mod, n, m, FALSE)
      BY <1>2, <2>1, <2>2 DEF IsNew
    <3> QED BY <3>1, <3>2, ModNew
  <2> QED BY <2>3 DEF n
<1>4. LinkInv(file, stack, ret, LoadedIn(mod) \cup {m}, ResolvedIn(mod), InstantiatedIn(mod),
              MarkedIn(mod),
         EvaluatedIn(mod), OkIn(mod), RanIn(mod), LinksIn(mod))
  BY <1>1, <1>2, NewC
<1> QED BY <1>1, <1>3, <1>4 DEF InvOf

(* A file is compiled.                                                     *)
LEMMA Loads ==
  ASSUME InvOf(file, mod, stack, ret), NEW m \in Module, ~mod[m].loaded,
         NEW fn \in Fn, NEW n, NEW t, n = Load(World, fn, m).mod, t = Load(World, fn, m).stack
  PROVE  /\ ModsTyped(n) /\ LoadedIn(n) = LoadedIn(mod) \cup {m}
         /\ ResolvedIn(n) = ResolvedIn(mod) \cup {m} /\ ResolvedIn(n) = ResolvedIn(mod) \cup {m} \cup {m}
         /\ InstantiatedIn(n) = InstantiatedIn(mod) /\ MarkedIn(n) = MarkedIn(mod)
         /\ EvaluatedIn(n) = EvaluatedIn(mod) /\ OkIn(n) = OkIn(mod)
         /\ RanIn(n) = RanIn(mod) /\ LinksIn(n) = LinksIn(mod)
         /\ t = Append(Append(stack, [fn |-> fn, m |-> m, i |-> 1]), [fn |-> "resolve", m |-> m, i |-> 0])
         /\ Load(World, fn, m).ret = "none"
<1>1. ModsTyped(mod) /\ stack \in Seq(Frame)
  BY DEF InvOf, LinkInv, Typed
<1>2. /\ IsNew(mod, n, m, TRUE) /\ Load(World, fn, m).ret = "none"
      /\ t = Append(Append(stack, [fn |-> fn, m |-> m, i |-> 1]), [fn |-> "resolve", m |-> m, i |-> 0])
  <2>1. IsWorld(World) /\ World.stack \in Seq(Frame) /\ ModsTyped(World.mod) /\ World.mod = mod
        /\ World.stack = stack
    BY <1>1, WorldFields
  <2> HIDE DEF World
  <2>2. /\ IsNew(World.mod, Load(World, fn, m).mod, m, TRUE) /\ Load(World, fn, m).ret = "none"
        /\ Load(World, fn, m).stack = Append(Append(World.stack, [fn |-> fn, m |-> m, i |-> 1]),
                                            [fn |-> "resolve", m |-> m, i |-> 0])
    BY <2>1, LoadFields
  <2> QED BY <2>1, <2>2
<1>3. /\ ModsTyped(n) /\ LoadedIn(n) = LoadedIn(mod) \cup {m}
      /\ ResolvedIn(n) = ResolvedIn(mod) \cup {m}
      /\ InstantiatedIn(n) = InstantiatedIn(mod) /\ MarkedIn(n) = MarkedIn(mod)
      /\ EvaluatedIn(n) = EvaluatedIn(mod) /\ OkIn(n) = OkIn(mod)
      /\ RanIn(n) = RanIn(mod) /\ LinksIn(n) = LinksIn(mod)
  <2>1. HasNothing(mod, m)
    BY NotLoadedYet
  <2>2. ModsTyped(mod) /\ IsNew(mod, n, m, TRUE) /\ TRUE \in BOOLEAN
    BY <1>1, <1>2
  <2>3. ResolvedIn(n) = (IF TRUE THEN ResolvedIn(mod) \cup {m} ELSE ResolvedIn(mod))
    BY <2>1, <2>2, ModNew, Zenon
  <2> QED BY <2>1, <2>2, <2>3, ModNew
<1> QED BY <1>2, <1>3

LEMMA JS_Eval_Keeps ==
  ASSUME InvOf(file, mod, stack, ret), NEW m \in Module, JS_Eval(m)
  PROVE  InvOf(file, mod', stack', ret')
<1> DEFINE n == Load(World, "run", m).mod
           u == Load(World, "run", m).stack
           c == [fn |-> "run", m |-> m, i |-> 1]
           d == [fn |-> "resolve", m |-> m, i |-> 0]
           t == Append(stack, c)
<1>1. /\ stack = <<>> /\ m \in DOMAIN file /\ ~mod[m].loaded
      /\ mod' = n /\ stack' = u /\ ret' = Load(World, "run", m).ret
  BY DEF JS_Eval, Loadable, Becomes
<1>2. LinkInv(file, stack, ret, LoadedIn(mod), ResolvedIn(mod), InstantiatedIn(mod),
              MarkedIn(mod), EvaluatedIn(mod), OkIn(mod), RanIn(mod), LinksIn(mod))
  BY DEF InvOf
<1>3. /\ ModsTyped(n) /\ LoadedIn(n) = LoadedIn(mod) \cup {m}
      /\ ResolvedIn(n) = ResolvedIn(mod) \cup {m} \cup {m}
      /\ InstantiatedIn(n) = InstantiatedIn(mod) /\ MarkedIn(n) = MarkedIn(mod)
      /\ EvaluatedIn(n) = EvaluatedIn(mod) /\ OkIn(n) = OkIn(mod)
      /\ RanIn(n) = RanIn(mod) /\ LinksIn(n) = LinksIn(mod)
      /\ u = Append(Append(stack, c), d) /\ ret' = "none"
  <2>1. "run" \in Fn
    BY DEF Fn
  <2> QED BY <2>1, <1>1, Loads
<1>4. m \notin LoadedIn(mod) /\ m \notin InstantiatedIn(mod)
  BY <1>1, NotLoadedYet
<1>5. /\ c \in Frame /\ d \in Frame
      /\ c.fn = "run" /\ c.m = m /\ c.i = 1
      /\ d.fn = "resolve" /\ d.m = m /\ d.i = 0
  BY DEF Frame, Fn
<1> HIDE DEF n, u, c, d
<1>6. t = <<c>>
  BY <1>1
<1>7. LinkInv(file, t, "ok", LoadedIn(mod) \cup {m}, ResolvedIn(mod) \cup {m}, InstantiatedIn(mod),
              MarkedIn(mod), EvaluatedIn(mod), OkIn(mod), RanIn(mod), LinksIn(mod))
  BY <1>1, <1>2, <1>4, <1>5, <1>6, StartRun
<1>8. /\ t \in Seq(Frame) /\ Len(t) = 1 /\ t[1] = c /\ t # <<>> /\ Pushed(t, Append(t, d), 0, d)
  <2>1. t \in Seq(Frame) /\ Len(t) = 1 /\ t[1] = c /\ t # <<>>
    BY <1>5, <1>6
  <2> QED BY <2>1, <1>5, Appended
<1>9. /\ \A j \in 1 .. Len(t) : t[j].fn = "resolve" => t[j].m # m
      /\ ResolveAt(t[Len(t)], 0, m)
  BY <1>5, <1>8 DEF ResolveAt
<1> HIDE DEF t
<1>10. LinkInv(file, Append(t, d), "none", LoadedIn(mod) \cup {m}, ResolvedIn(mod) \cup {m} \cup {m},
               InstantiatedIn(mod), MarkedIn(mod), EvaluatedIn(mod), OkIn(mod), RanIn(mod), LinksIn(mod))
  <2>1. m \in LoadedIn(mod) \cup {m} /\ 0 \in {0, 1}
    OBVIOUS
  <2> QED BY <2>1, <1>4, <1>5, <1>7, <1>8, <1>9, PushResolve
<1> QED BY <1>1, <1>3, <1>10 DEF InvOf, t

-----------------------------------------------------------------------------
(* What the actions have in common: the last call returns.                 *)
LEMMA Returns ==
  ASSUME InvOf(file, mod, stack, ret), stack # <<>>, NEW q, Becomes(Return(World, q)),
         ReturnAt(file, stack[Len(stack)], ret, q, LoadedIn(mod), EvaluatedIn(mod))
  PROVE  InvOf(file, mod', stack', ret')
<1>1. /\ ModsTyped(mod)
      /\ LinkInv(file, stack, ret, LoadedIn(mod), ResolvedIn(mod), InstantiatedIn(mod),
                 MarkedIn(mod), EvaluatedIn(mod), OkIn(mod), RanIn(mod), LinksIn(mod))
  BY DEF InvOf
<1>2. mod' = mod /\ stack' = Front(stack) /\ ret' = q
  BY WorldFields, ReturnFields DEF Becomes
<1>3. Popped(stack, stack')
  BY <1>2, Top, FrontPopped
<1>4. LinkInv(file, stack', q, LoadedIn(mod), ResolvedIn(mod), InstantiatedIn(mod), MarkedIn(mod),
         EvaluatedIn(mod), OkIn(mod), RanIn(mod), LinksIn(mod))
  BY <1>1, <1>3, PopPlain
<1> QED BY <1>1, <1>2, <1>4 DEF InvOf

(* It goes on, with an answer that was there.                              *)
LEMMA Moves ==
  ASSUME InvOf(file, mod, stack, ret), stack # <<>>, mod' = mod, stack' = Stepped(stack),
         ret' \in {"ok", "fail"},
         Found(file, stack[Len(stack)], ret, ret', ResolvedIn(mod), InstantiatedIn(mod), MarkedIn(mod),
               EvaluatedIn(mod), OkIn(mod))
  PROVE  InvOf(file, mod', stack', ret')
<1>1. /\ ModsTyped(mod)
      /\ LinkInv(file, stack, ret, LoadedIn(mod), ResolvedIn(mod), InstantiatedIn(mod),
                 MarkedIn(mod), EvaluatedIn(mod), OkIn(mod), RanIn(mod), LinksIn(mod))
  BY DEF InvOf
<1>2. Moved(stack, stack', 1)
  BY Top, SteppedMoved
<1>3. LinkInv(file, stack', ret', LoadedIn(mod), ResolvedIn(mod), InstantiatedIn(mod), MarkedIn(mod),
         EvaluatedIn(mod), OkIn(mod), RanIn(mod), LinksIn(mod))
  BY <1>1, <1>2, MoveStep
<1> QED BY <1>1, <1>3 DEF InvOf

(* What is called after Next0.                                             *)
LEMMA Next0World ==
  /\ IsWorld(Next0(World)) /\ Next0(World).mod = mod /\ Next0(World).stack = Stepped(stack)
  /\ Next0(World).ret = "none"
  BY WorldFields, Next0Fields

(* A module is instantiated for the last call.                             *)
LEMMA Instantiates ==
  ASSUME InvOf(file, mod, stack, ret), stack # <<>>, NEW x \in Module,
         Becomes(js_instantiate_module(Next0(World), x)),
         InstantiateAt(file, LinksIn(mod), stack[Len(stack)], ret, x)
  PROVE  InvOf(file, mod', stack', ret')
<1>1. /\ ModsTyped(mod)
      /\ LinkInv(file, stack, ret, LoadedIn(mod), ResolvedIn(mod), InstantiatedIn(mod),
                 MarkedIn(mod), EvaluatedIn(mod), OkIn(mod), RanIn(mod), LinksIn(mod))
  BY DEF InvOf
<1> DEFINE w == Next0(World)
           c == [fn |-> "instantiate", m |-> x, i |-> 0]
<1>2. IsWorld(w) /\ w.mod = mod /\ w.stack = Stepped(stack)
  BY Next0World
<1>3. c \in Frame /\ c.fn = "instantiate" /\ c.m = x /\ c.i = 0
  BY DEF Frame, Fn
<1> HIDE DEF w
<1>4. CASE mod[x].instantiated
  <2>1. mod' = mod /\ stack' = Stepped(stack) /\ ret' = "ok"
    BY <1>1, <1>2, <1>4, InstantiateFields DEF Becomes, w
  <2>2. x \in InstantiatedIn(mod)
    BY <1>4 DEF InstantiatedIn
  <2>3. Found(file, stack[Len(stack)], ret, "ok", ResolvedIn(mod), InstantiatedIn(mod), MarkedIn(mod),
              EvaluatedIn(mod), OkIn(mod))
    BY <2>2 DEF Found, InstantiateAt
  <2> QED BY <2>1, <2>3, Moves
<1>5. CASE ~mod[x].instantiated
  <2>1. PICK md1 :
          /\ Given(w.mod, md1, x)
          /\ js_instantiate_module(w, x).mod = [md1 EXCEPT ![x].instantiated = TRUE]
    BY <1>1, <1>2, <1>5, InstantiateFields
  <2>2. /\ mod' = [md1 EXCEPT ![x].instantiated = TRUE] /\ ret' = "none"
        /\ stack' = Append(Stepped(stack), c)
    BY <1>1, <1>2, <1>5, <2>1, InstantiateFields DEF Becomes, w
  <2>3. /\ ModsTyped(mod')
        /\ LoadedIn(mod') = LoadedIn(mod) /\ ResolvedIn(mod') = ResolvedIn(mod)
        /\ InstantiatedIn(mod') = InstantiatedIn(mod) \cup {x} /\ MarkedIn(mod') = MarkedIn(mod)
        /\ EvaluatedIn(mod') = EvaluatedIn(mod) /\ OkIn(mod') = OkIn(mod)
        /\ RanIn(mod') = RanIn(mod) /\ LinksIn(mod') = LinksIn(mod)
    <3>1. Given(mod, md1, x)
      BY <1>2, <2>1
    <3>2. ModsTyped(mod) /\ mod' = [md1 EXCEPT ![x].instantiated = TRUE]
      BY <1>1, <2>2
    <3> QED BY <3>1, <3>2, ModInstantiated
  <2>4. Pushed(stack, stack', 1, c)
    BY <1>3, <2>2, Top, SteppedPushed
  <2>5. x \notin InstantiatedIn(mod)
    BY <1>5 DEF InstantiatedIn
  <2> HIDE DEF c
  <2>6. LinkInv(file, stack', "none", LoadedIn(mod), ResolvedIn(mod), InstantiatedIn(mod) \cup {x},
                MarkedIn(mod),
                EvaluatedIn(mod), OkIn(mod), RanIn(mod), LinksIn(mod))
    BY <1>1, <1>3, <2>4, <2>5, PushInstantiate
  <2> QED BY <2>2, <2>3, <2>6 DEF InvOf
<1> QED BY <1>4, <1>5

(* A module is evaluated for the last call.                                *)
LEMMA Evaluates ==
  ASSUME InvOf(file, mod, stack, ret), stack # <<>>, NEW x \in Module,
         Becomes(js_evaluate_module(Next0(World), x)),
         EvaluateAt(file, LinksIn(mod), stack[Len(stack)], ret, x)
  PROVE  InvOf(file, mod', stack', ret')
<1>1. /\ ModsTyped(mod)
      /\ LinkInv(file, stack, ret, LoadedIn(mod), ResolvedIn(mod), InstantiatedIn(mod),
                 MarkedIn(mod), EvaluatedIn(mod), OkIn(mod), RanIn(mod), LinksIn(mod))
  BY DEF InvOf
<1> DEFINE w == Next0(World)
           c == [fn |-> "evaluate", m |-> x, i |-> 0]
<1>2. IsWorld(w) /\ w.mod = mod /\ w.stack = Stepped(stack)
  BY Next0World
<1>3. c \in Frame /\ c.fn = "evaluate" /\ c.m = x /\ c.i = 0
  BY DEF Frame, Fn
<1> HIDE DEF w
<1>4. CASE mod[x].eval_mark \/ mod[x].evaluated
  <2>1. /\ mod' = mod /\ stack' = Stepped(stack)
        /\ ret' = IF ~mod[x].eval_mark /\ mod[x].eval_has_exception THEN "fail" ELSE "ok"
    BY <1>1, <1>2, <1>4, EvaluateFields DEF Becomes, w
  <2>2. x \in MarkedIn(mod) \cup EvaluatedIn(mod)
    BY <1>4 DEF MarkedIn, EvaluatedIn
  <2>3. x \in MarkedIn(mod) \cup OkIn(mod) \/ ret' = "fail"
    BY <1>4, <2>1 DEF MarkedIn, OkIn
  <2>4. Found(file, stack[Len(stack)], ret, ret', ResolvedIn(mod), InstantiatedIn(mod), MarkedIn(mod),
              EvaluatedIn(mod), OkIn(mod))
    BY <2>2, <2>3 DEF Found, EvaluateAt
  <2> QED BY <2>1, <2>4, Moves
<1>5. CASE ~(mod[x].eval_mark \/ mod[x].evaluated)
  <2>2. /\ mod' = [mod EXCEPT ![x].eval_mark = TRUE] /\ ret' = "none"
        /\ stack' = Append(Stepped(stack), c)
    BY <1>1, <1>2, <1>5, EvaluateFields DEF Becomes, w
  <2>3. /\ ModsTyped(mod')
        /\ LoadedIn(mod') = LoadedIn(mod) /\ ResolvedIn(mod') = ResolvedIn(mod)
        /\ InstantiatedIn(mod') = InstantiatedIn(mod) /\ MarkedIn(mod') = MarkedIn(mod) \cup {x}
        /\ EvaluatedIn(mod') = EvaluatedIn(mod) /\ OkIn(mod') = OkIn(mod)
        /\ RanIn(mod') = RanIn(mod) /\ LinksIn(mod') = LinksIn(mod)
    BY <1>1, <2>2, ModMarked
  <2>4. Pushed(stack, stack', 1, c)
    BY <1>3, <2>2, Top, SteppedPushed
  <2>5. x \notin MarkedIn(mod) /\ x \notin EvaluatedIn(mod)
    BY <1>5 DEF MarkedIn, EvaluatedIn
  <2> HIDE DEF c
  <2>6. LinkInv(file, stack', "none", LoadedIn(mod), ResolvedIn(mod), InstantiatedIn(mod),
                MarkedIn(mod) \cup {x},
                EvaluatedIn(mod), OkIn(mod), RanIn(mod), LinksIn(mod))
    BY <1>1, <1>3, <2>4, <2>5, PushEvaluate
  <2> QED BY <2>2, <2>3, <2>6 DEF InvOf
<1> QED BY <1>4, <1>5

(* A file is compiled for the last call.                                   *)
LEMMA Compiles ==
  ASSUME InvOf(file, mod, stack, ret), stack # <<>>, NEW m \in Module, m \in DOMAIN file, ~mod[m].loaded,
         Becomes(Load(World, "compile", m)),
         stack[Len(stack)].fn = "resolve" \/ (stack[Len(stack)].fn = "import" /\ stack[Len(stack)].i = 0)
  PROVE  InvOf(file, mod', stack', ret')
<1> DEFINE n == Load(World, "compile", m).mod
           u == Load(World, "compile", m).stack
           c == [fn |-> "compile", m |-> m, i |-> 1]
           d == [fn |-> "resolve", m |-> m, i |-> 0]
           t == Append(stack, c)
<1>1. mod' = n /\ stack' = u /\ ret' = Load(World, "compile", m).ret
  BY DEF Becomes
<1>2. LinkInv(file, stack, ret, LoadedIn(mod), ResolvedIn(mod), InstantiatedIn(mod),
              MarkedIn(mod), EvaluatedIn(mod), OkIn(mod), RanIn(mod), LinksIn(mod))
  BY DEF InvOf
<1>3. /\ ModsTyped(n) /\ LoadedIn(n) = LoadedIn(mod) \cup {m}
      /\ ResolvedIn(n) = ResolvedIn(mod) \cup {m} \cup {m}
      /\ InstantiatedIn(n) = InstantiatedIn(mod) /\ MarkedIn(n) = MarkedIn(mod)
      /\ EvaluatedIn(n) = EvaluatedIn(mod) /\ OkIn(n) = OkIn(mod)
      /\ RanIn(n) = RanIn(mod) /\ LinksIn(n) = LinksIn(mod)
      /\ u = Append(Append(stack, c), d) /\ ret' = "none"
  <2>1. "compile" \in Fn
    BY DEF Fn
  <2> QED BY <2>1, <1>1, Loads
<1>4. m \notin LoadedIn(mod) /\ m \notin ResolvedIn(mod) /\ m \notin InstantiatedIn(mod)
  BY NotLoadedYet
<1>5. /\ c \in Frame /\ d \in Frame
      /\ c.fn = "compile" /\ c.m = m /\ c.i = 1
      /\ d.fn = "resolve" /\ d.m = m /\ d.i = 0
  BY DEF Frame, Fn
<1>a. stack \in Seq(Frame)
  BY Top
<1> HIDE DEF n, u, c, d
<1>6. Pushed(stack, t, 0, c)
  BY <1>a, <1>5, Appended
<1>7. LinkInv(file, t, "ok", LoadedIn(mod) \cup {m}, ResolvedIn(mod) \cup {m}, InstantiatedIn(mod),
              MarkedIn(mod), EvaluatedIn(mod), OkIn(mod), RanIn(mod), LinksIn(mod))
  BY <1>2, <1>4, <1>5, <1>6, PushCompile
<1>8. /\ t \in Seq(Frame) /\ Len(t) = Len(stack) + 1 /\ t[Len(t)] = c /\ t # <<>>
      /\ \A j \in 1 .. Len(stack) : t[j] = stack[j]
      /\ Pushed(t, Append(t, d), 0, d)
  <2>1. /\ t \in Seq(Frame) /\ Len(t) = Len(stack) + 1 /\ t[Len(t)] = c /\ t # <<>>
        /\ \A j \in 1 .. Len(stack) : t[j] = stack[j]
    BY <1>a, <1>5, Appended
  <2> QED BY <2>1, <1>5, Appended
<1>b. \A j \in 1 .. Len(stack) : stack[j].fn = "resolve" => stack[j].m # m
  <2>1. Calls(stack, ResolvedIn(mod), InstantiatedIn(mod), MarkedIn(mod), EvaluatedIn(mod))
    BY <1>2 DEF LinkInv
  <2> QED BY <2>1, <1>4, ModuleAssumption DEF Calls, Known, Loading
<1>9. /\ \A j \in 1 .. Len(t) : t[j].fn = "resolve" => t[j].m # m
      /\ ResolveAt(t[Len(t)], 0, m)
  <2>1. \A j \in 1 .. Len(t) : j \in 1 .. Len(stack) \/ j = Len(t)
    BY <1>8, <1>a
  <2> QED BY <2>1, <1>b, <1>5, <1>8 DEF ResolveAt
<1> HIDE DEF t
<1>10. LinkInv(file, Append(t, d), "none", LoadedIn(mod) \cup {m}, ResolvedIn(mod) \cup {m} \cup {m},
               InstantiatedIn(mod), MarkedIn(mod), EvaluatedIn(mod), OkIn(mod), RanIn(mod), LinksIn(mod))
  <2>1. m \in LoadedIn(mod) \cup {m} /\ 0 \in {0, 1}
    OBVIOUS
  <2> QED BY <2>1, <1>4, <1>5, <1>7, <1>8, <1>9, PushResolve
<1> QED BY <1>1, <1>3, <1>10 DEF InvOf, t

(* Modules are freed, and the last call returns.                           *)
LEMMA FreesReturns ==
  ASSUME InvOf(file, mod, stack, ret), stack # <<>>, NEW S, NEW q,
         Becomes(Return(Free(World, S), q)),
         FreeAt(stack[Len(stack)], ret, LoadedIn(mod), InstantiatedIn(mod), EvaluatedIn(mod), S),
         \/ stack[Len(stack)].fn \in Loading /\ q \in {"ok", "fail"}
         \/ stack[Len(stack)].fn \in Begin /\ q = "none" /\
              (stack[Len(stack)].i < 2 \/ S = LoadedIn(mod) \ EvaluatedIn(mod))
  PROVE  InvOf(file, mod', stack', ret')
<1> DEFINE t == Free(World, S).stack
<1>1. /\ ModsTyped(mod)
      /\ LinkInv(file, stack, ret, LoadedIn(mod), ResolvedIn(mod), InstantiatedIn(mod),
                 MarkedIn(mod), EvaluatedIn(mod), OkIn(mod), RanIn(mod), LinksIn(mod))
  BY DEF InvOf
<1>2. stack \in Seq(Frame) /\ Len(stack) \in 1 .. Len(stack) /\ Len(stack) \in Nat
  BY Top
<1>3. /\ mod' = FreedMods(mod, S) /\ stack' = Front(t) /\ ret' = q /\ Freed(stack, t, S)
  <2>1. IsWorld(World) /\ World.stack \in Seq(Frame) /\ World.mod = mod /\ World.stack = stack
    BY <1>2, WorldFields
  <2> HIDE DEF World
  <2>2. /\ IsWorld(Free(World, S)) /\ Free(World, S).mod = FreedMods(mod, S)
        /\ Freed(stack, Free(World, S).stack, S)
    BY <2>1, FreeFields
  <2>3. /\ Return(Free(World, S), q).mod = Free(World, S).mod /\ Return(Free(World, S), q).ret = q
        /\ Return(Free(World, S), q).stack = Front(Free(World, S).stack)
    BY <2>2, ReturnFields
  <2> QED BY <2>2, <2>3 DEF Becomes
<1> HIDE DEF t
<1>4. /\ ModsTyped(mod')
      /\ LoadedIn(mod') = LoadedIn(mod) \ S /\ ResolvedIn(mod') = ResolvedIn(mod) \ S
      /\ InstantiatedIn(mod') = InstantiatedIn(mod) \ S /\ MarkedIn(mod') = MarkedIn(mod) \ S
      /\ EvaluatedIn(mod') = EvaluatedIn(mod) \ S /\ OkIn(mod') = OkIn(mod) \ S
      /\ RanIn(mod') = RanIn(mod) \ S /\ LinksIn(mod') = Kept(LinksIn(mod), S)
  BY <1>1, <1>3, ModsFreed
<1>5. LinkInv(file, t, ret, LoadedIn(mod) \ S, ResolvedIn(mod) \ S, InstantiatedIn(mod) \ S,
              MarkedIn(mod) \ S,
              EvaluatedIn(mod) \ S, OkIn(mod) \ S, RanIn(mod) \ S, Kept(LinksIn(mod), S))
  BY <1>1, <1>3, FreeModules
<1>6. /\ t \in Seq(Frame) /\ t # <<>> /\ Len(t) = Len(stack)
      /\ t[Len(t)].fn = stack[Len(stack)].fn /\ t[Len(t)].i = stack[Len(stack)].i
  BY <1>2, <1>3 DEF Freed
<1>7. ReturnAt(file, t[Len(t)], ret, q, LoadedIn(mod) \ S, EvaluatedIn(mod) \ S)
  BY <1>6 DEF ReturnAt
<1>8. Popped(t, stack')
  BY <1>3, <1>6, FrontPopped
<1>9. LinkInv(file, stack', q, LoadedIn(mod) \ S, ResolvedIn(mod) \ S, InstantiatedIn(mod) \ S,
              MarkedIn(mod) \ S,
              EvaluatedIn(mod) \ S, OkIn(mod) \ S, RanIn(mod) \ S, Kept(LinksIn(mod), S))
  BY <1>5, <1>7, <1>8, PopPlain
<1> QED BY <1>3, <1>4, <1>9 DEF InvOf

(* Something is linked, and the last call returns.                         *)
LEMMA BindsReturns ==
  ASSUME InvOf(file, mod, stack, ret), stack # <<>>, NEW w, NEW q, Becomes(Return(Binds(w), q)),
         ReturnAt(file, stack[Len(stack)], ret, q, LoadedIn(mod), EvaluatedIn(mod))
  PROVE  InvOf(file, mod', stack', ret')
<1>1. /\ ModsTyped(mod)
      /\ LinkInv(file, stack, ret, LoadedIn(mod), ResolvedIn(mod), InstantiatedIn(mod),
                 MarkedIn(mod), EvaluatedIn(mod), OkIn(mod), RanIn(mod), LinksIn(mod))
  BY DEF InvOf
<1>2. /\ IsWorld(Binds(w)) /\ Binds(w).stack = stack /\ Binds(w).mod = BoundMods(mod, w.mod)
  <2>1. DOMAIN World = {"mod", "stack", "ret"} /\ World.mod = mod /\ World.stack = stack
    BY WorldFields DEF IsWorld
  <2> DEFINE u == World
  <2>2. Binds(w) = [u EXCEPT !.mod = BoundMods(u.mod, w.mod)]
    BY Zenon DEF Binds, BoundMods
  <2> HIDE DEF u
  <2>3. DOMAIN u = {"mod", "stack", "ret"} /\ u.mod = mod /\ u.stack = stack
    BY <2>1 DEF u
  <2>4. /\ DOMAIN Binds(w) = DOMAIN u /\ Binds(w).stack = u.stack
        /\ Binds(w).mod = BoundMods(u.mod, w.mod)
    BY <2>2, <2>3
  <2> QED BY <2>3, <2>4 DEF IsWorld
<1>3. mod' = BoundMods(mod, w.mod) /\ stack' = Front(stack) /\ ret' = q
  BY <1>2, ReturnFields DEF Becomes
<1>4. Popped(stack, stack')
  BY <1>3, Top, FrontPopped
<1>5. LinkInv(file, stack', q, LoadedIn(mod), ResolvedIn(mod), InstantiatedIn(mod), MarkedIn(mod),
         EvaluatedIn(mod), OkIn(mod), RanIn(mod), LinksIn(mod))
  BY <1>1, <1>4, PopPlain
<1>6. /\ ModsTyped(mod')
      /\ LoadedIn(mod') = LoadedIn(mod) /\ ResolvedIn(mod') = ResolvedIn(mod)
      /\ InstantiatedIn(mod') = InstantiatedIn(mod) /\ MarkedIn(mod') = MarkedIn(mod)
      /\ EvaluatedIn(mod') = EvaluatedIn(mod) /\ OkIn(mod') = OkIn(mod)
      /\ RanIn(mod') = RanIn(mod) /\ LinksIn(mod') = LinksIn(mod)
  BY <1>1, <1>3, ModsBound
<1> QED BY <1>3, <1>5, <1>6 DEF InvOf

-----------------------------------------------------------------------------
(* Each action keeps the invariant.                                        *)
LEMMA js_dynamic_import_Keeps ==
  ASSUME InvOf(file, mod, stack, ret), NEW m \in Module, js_dynamic_import(m)
  PROVE  InvOf(file, mod', stack', ret')
<1> DEFINE c == [fn |-> "import", m |-> m, i |-> 0]
<1>1. c \in Frame /\ c.fn = "import" /\ c.m = m /\ c.i = 0
  BY DEF Frame, Fn
<1>2. /\ ModsTyped(mod)
      /\ LinkInv(file, stack, ret, LoadedIn(mod), ResolvedIn(mod), InstantiatedIn(mod),
                 MarkedIn(mod), EvaluatedIn(mod), OkIn(mod), RanIn(mod), LinksIn(mod))
  BY DEF InvOf
<1>3. CASE stack = <<>>
  <2>1. mod' = mod /\ stack' = Append(stack, c) /\ ret' = "none"
    BY <1>3, WorldFields, CallFields DEF js_dynamic_import, Becomes
  <2> HIDE DEF c
  <2>2. stack' = <<c>>
    BY <1>3, <2>1
  <2>3. LinkInv(file, stack', "none", LoadedIn(mod), ResolvedIn(mod), InstantiatedIn(mod),
                MarkedIn(mod),
         EvaluatedIn(mod), OkIn(mod), RanIn(mod), LinksIn(mod))
    BY <1>1, <1>2, <1>3, <2>2, StartImport
  <2> QED BY <1>2, <2>1, <2>3 DEF InvOf
<1>4. CASE stack # <<>>
  <2>1. stack[Len(stack)].fn = "body" /\ stack \in Seq(Frame)
    BY <1>4, Top DEF js_dynamic_import
  <2>2. mod' = mod /\ stack' = Append(Stepped(stack), c) /\ ret' = "none"
    BY <1>4, Next0World, CallFields DEF js_dynamic_import, Becomes
  <2>3. Pushed(stack, stack', 1, c)
    BY <1>1, <1>4, <2>1, <2>2, SteppedPushed
  <2> HIDE DEF c
  <2>4. LinkInv(file, stack', "none", LoadedIn(mod), ResolvedIn(mod), InstantiatedIn(mod),
                MarkedIn(mod),
         EvaluatedIn(mod), OkIn(mod), RanIn(mod), LinksIn(mod))
    BY <1>1, <1>2, <2>1, <2>3, PushImport
  <2> QED BY <1>2, <2>2, <2>4 DEF InvOf
<1> QED BY <1>3, <1>4

LEMMA BodyEnds_Keeps ==
  ASSUME InvOf(file, mod, stack, ret), NEW r \in {"ok", "fail"}, BodyEnds(r)
  PROVE  InvOf(file, mod', stack', ret')
<1>1. stack # <<>> /\ stack[Len(stack)].fn = "body"
  BY Top DEF BodyEnds
<1>2. ReturnAt(file, stack[Len(stack)], ret, r, LoadedIn(mod), EvaluatedIn(mod))
  BY <1>1 DEF ReturnAt
<1> QED BY <1>1, <1>2, Returns DEF BodyEnds

(* A module that is not resolved is not in a call that resolves it.        *)
LEMMA NotResolvedYet ==
  ASSUME InvOf(file, mod, stack, ret), NEW m \in Module, ~mod[m].resolved
  PROVE  /\ m \notin ResolvedIn(mod) /\ m \notin InstantiatedIn(mod)
         /\ \A j \in 1 .. Len(stack) : stack[j].fn = "resolve" => stack[j].m # m
<1>1. /\ Flags(file, LoadedIn(mod), ResolvedIn(mod), InstantiatedIn(mod), MarkedIn(mod),
               EvaluatedIn(mod), OkIn(mod), RanIn(mod), LinksIn(mod))
      /\ Calls(stack, ResolvedIn(mod), InstantiatedIn(mod), MarkedIn(mod), EvaluatedIn(mod))
  BY DEF InvOf, LinkInv
<1>2. m \notin ResolvedIn(mod) /\ m \notin InstantiatedIn(mod)
  BY <1>1, InSets DEF Flags
<1> QED BY <1>1, <1>2, ModuleAssumption DEF Calls, Known, Loading

LEMMA js_host_resolve_imported_module_Keeps ==
  ASSUME InvOf(file, mod, stack, ret), js_host_resolve_imported_module
  PROVE  InvOf(file, mod', stack', ret')
<1>1. At("import") /\ I = 0
  BY DEF js_host_resolve_imported_module
<1>2. /\ stack # <<>> /\ stack \in Seq(Frame) /\ Len(stack) \in 1 .. Len(stack)
      /\ stack[Len(stack)].fn = "import" /\ stack[Len(stack)].m = M /\ stack[Len(stack)].i = 0
      /\ M \in Module /\ ModsTyped(mod)
  BY <1>1, AtTop
<1>3. \/ mod[M].loaded /\ Becomes(js_resolve_module(Next0(World), M))
      \/ ~mod[M].loaded /\ Loadable(M) /\ Becomes(Load(World, "compile", M))
      \/ Becomes(Return(World, "none"))
  BY Zenon DEF js_host_resolve_imported_module
<1>4. ASSUME mod[M].loaded, Becomes(js_resolve_module(Next0(World), M))
      PROVE  InvOf(file, mod', stack', ret')
  <2> DEFINE w == Next0(World)
             d == [fn |-> "resolve", m |-> M, i |-> 0]
  <2>1. IsWorld(w) /\ w.mod = mod /\ w.stack = Stepped(stack)
    BY Next0World
  <2> HIDE DEF w
  <2>2. CASE mod[M].resolved
    <3>1. mod' = mod /\ stack' = Stepped(stack) /\ ret' = "ok"
      BY <1>4, <2>1, <2>2, ResolveFields DEF Becomes, w
    <3>2. M \in ResolvedIn(mod)
      BY <1>2, <2>2, InSets
    <3>3. Found(file, stack[Len(stack)], ret, ret', ResolvedIn(mod), InstantiatedIn(mod), MarkedIn(mod),
                EvaluatedIn(mod), OkIn(mod))
      BY <1>2, <3>2 DEF Found
    <3> QED BY <1>2, <3>1, <3>3, Moves
  <2>3. CASE ~mod[M].resolved
    <3>1. /\ mod' = [mod EXCEPT ![M].resolved = TRUE] /\ ret' = "none"
          /\ stack' = Append(Stepped(stack), d)
      BY <1>4, <2>1, <2>3, ResolveFields DEF Becomes, w
    <3>2. /\ ModsTyped(mod')
          /\ LoadedIn(mod') = LoadedIn(mod) /\ ResolvedIn(mod') = ResolvedIn(mod) \cup {M}
          /\ InstantiatedIn(mod') = InstantiatedIn(mod) /\ MarkedIn(mod') = MarkedIn(mod)
          /\ EvaluatedIn(mod') = EvaluatedIn(mod) /\ OkIn(mod') = OkIn(mod)
          /\ RanIn(mod') = RanIn(mod) /\ LinksIn(mod') = LinksIn(mod)
      BY <1>2, <3>1, ModResolved
    <3>3. d \in Frame /\ d.fn = "resolve" /\ d.m = M /\ d.i = 0
      BY <1>2 DEF Frame, Fn
    <3>4. Pushed(stack, stack', 1, d)
      BY <1>2, <3>1, <3>3, SteppedPushed
    <3> HIDE DEF d
    <3>5. /\ M \in LoadedIn(mod) /\ M \notin InstantiatedIn(mod)
          /\ \A j \in 1 .. Len(stack) : stack[j].fn = "resolve" => stack[j].m # M
      BY <1>2, <1>4, <2>3, InSets, NotResolvedYet
    <3>6. ResolveAt(stack[Len(stack)], 1, M) /\ 1 \in {0, 1}
      BY <1>2 DEF ResolveAt
    <3>7. LinkInv(file, stack, ret, LoadedIn(mod), ResolvedIn(mod), InstantiatedIn(mod), MarkedIn(mod),
         EvaluatedIn(mod), OkIn(mod), RanIn(mod), LinksIn(mod))
      BY DEF InvOf
    <3>8. LinkInv(file, stack', "none", LoadedIn(mod), ResolvedIn(mod) \cup {M}, InstantiatedIn(mod),
                  MarkedIn(mod), EvaluatedIn(mod), OkIn(mod), RanIn(mod), LinksIn(mod))
      BY <3>3, <3>4, <3>5, <3>6, <3>7, PushResolve
    <3> QED BY <3>1, <3>2, <3>8 DEF InvOf
  <2> QED BY <2>2, <2>3
<1>5. ASSUME ~mod[M].loaded, Loadable(M), Becomes(Load(World, "compile", M))
      PROVE  InvOf(file, mod', stack', ret')
  BY <1>2, <1>5, Compiles DEF Loadable
<1>6. ASSUME Becomes(Return(World, "none"))
      PROVE  InvOf(file, mod', stack', ret')
  <2>1. ReturnAt(file, stack[Len(stack)], ret, "none", LoadedIn(mod), EvaluatedIn(mod))
    BY <1>2 DEF ReturnAt, Begin
  <2> QED BY <1>2, <1>6, <2>1, Returns
<1> QED BY <1>3, <1>4, <1>5, <1>6

LEMMA ResolveStep_Keeps ==
  ASSUME InvOf(file, mod, stack, ret), ResolveStep
  PROVE  InvOf(file, mod', stack', ret')
<1> DEFINE x == file[M].req[I + 1]
           w == [Next0(World) EXCEPT !.mod[M].linked = @ \cup {x}]
           d == [fn |-> "resolve", m |-> x, i |-> 0]
<1>1. At("resolve") /\ ret # "fail" /\ I < Len(file[M].req)
  BY DEF ResolveStep
<1>2. /\ stack # <<>> /\ stack \in Seq(Frame) /\ Len(stack) \in 1 .. Len(stack)
      /\ stack[Len(stack)].fn = "resolve" /\ stack[Len(stack)].m = M /\ stack[Len(stack)].i = I
      /\ M \in Module /\ ModsTyped(mod) /\ I \in Nat /\ M \in LoadedIn(mod)
      /\ Known(stack[Len(stack)], ResolvedIn(mod), InstantiatedIn(mod), MarkedIn(mod), EvaluatedIn(mod))
      /\ \A k \in 1 .. Len(file[M].req) : file[M].req[k] \in Module
      /\ M # Null /\ Len(file[M].req) \in Nat
  BY <1>1, AtTop
<1>3. M \notin InstantiatedIn(mod) /\ I + 1 \in 1 .. Len(file[M].req) /\ x \in Module
  BY <1>1, <1>2 DEF Known, Loading
<1>4. \E k \in 1 .. Len(file[M].req) : file[M].req[k] = x
  BY <1>3
<1>5. \/ mod[x].loaded /\ Becomes(js_resolve_module(w, x))
      \/ ~mod[x].loaded /\ Loadable(x) /\ Becomes(Load(World, "compile", x))
      \/ Becomes(Return(World, "fail"))
  BY Zenon DEF ResolveStep
<1>6. IsWorld(w) /\ w.mod = [mod EXCEPT ![M].linked = @ \cup {x}] /\ w.stack = Stepped(stack)
  BY Next0World DEF IsWorld
<1> HIDE DEF x, w, d
<1>7. LinkInv(file, stack, ret, LoadedIn(mod), ResolvedIn(mod), InstantiatedIn(mod),
              MarkedIn(mod), EvaluatedIn(mod), OkIn(mod), RanIn(mod), LinksIn(mod))
  BY DEF InvOf
<1>8. ASSUME mod[x].loaded, Becomes(js_resolve_module(w, x))
      PROVE  InvOf(file, mod', stack', ret')
  <2>1. /\ ModsTyped(w.mod)
        /\ LoadedIn(w.mod) = LoadedIn(mod) /\ ResolvedIn(w.mod) = ResolvedIn(mod)
        /\ InstantiatedIn(w.mod) = InstantiatedIn(mod) /\ MarkedIn(w.mod) = MarkedIn(mod)
        /\ EvaluatedIn(w.mod) = EvaluatedIn(mod) /\ OkIn(w.mod) = OkIn(mod)
        /\ RanIn(w.mod) = RanIn(mod) /\ LinksIn(w.mod) = LinksIn(mod) \cup {<<M, x>>}
    <3>1. M \in Module /\ x \in Module /\ ModsTyped(mod) /\ w.mod = LinkedMods(mod, M, x)
      BY <1>2, <1>3, <1>6 DEF LinkedMods
    <3> QED BY <3>1, ModLinked
  <2>2. x \in LoadedIn(mod)
    BY <1>3, <1>8, InSets
  <2>3. x \in ResolvedIn(mod) <=> w.mod[x].resolved
    BY <1>3, <2>1 DEF ResolvedIn
  <2>4. CASE w.mod[x].resolved
    <3>1. mod' = w.mod /\ stack' = Stepped(stack) /\ ret' = "ok"
      BY <1>6, <1>8, <2>4, ResolveFields DEF Becomes
    <3>2. Found(file, stack[Len(stack)], ret, "ok", ResolvedIn(mod), InstantiatedIn(mod), MarkedIn(mod),
                EvaluatedIn(mod), OkIn(mod))
      BY <1>2 DEF Found
    <3>3. Moved(stack, stack', 1)
      BY <1>2, <3>1, SteppedMoved
    <3>4. LinkInv(file, stack', "ok", LoadedIn(mod), ResolvedIn(mod), InstantiatedIn(mod),
                  MarkedIn(mod),
         EvaluatedIn(mod), OkIn(mod), RanIn(mod), LinksIn(mod))
      BY <1>7, <3>2, <3>3, MoveStep
    <3>5. LinkInv(file, stack', "ok", LoadedIn(mod), ResolvedIn(mod), InstantiatedIn(mod),
                  MarkedIn(mod),
                  EvaluatedIn(mod), OkIn(mod), RanIn(mod), LinksIn(mod) \cup {<<M, x>>})
      BY <1>2, <1>3, <1>4, <2>3, <2>4, <3>4, LinkAdded
    <3> QED BY <2>1, <3>1, <3>5 DEF InvOf
  <2>5. CASE ~w.mod[x].resolved
    <3>1. /\ mod' = [w.mod EXCEPT ![x].resolved = TRUE] /\ ret' = "none"
          /\ stack' = Append(Stepped(stack), d)
      <4>1. IsWorld(w) /\ ~w.mod[x].resolved /\ w.stack = Stepped(stack)
        BY <1>6, <2>5
      <4>2. /\ js_resolve_module(w, x).mod = [w.mod EXCEPT ![x].resolved = TRUE]
            /\ js_resolve_module(w, x).ret = "none"
            /\ js_resolve_module(w, x).stack = Append(w.stack, d)
        BY <4>1, ResolveFields DEF d
      <4>3. /\ mod' = js_resolve_module(w, x).mod /\ ret' = js_resolve_module(w, x).ret
            /\ stack' = js_resolve_module(w, x).stack
        BY <1>8 DEF Becomes
      <4> QED BY <4>1, <4>2, <4>3
    <3>2. /\ ModsTyped(mod')
          /\ LoadedIn(mod') = LoadedIn(w.mod) /\ ResolvedIn(mod') = ResolvedIn(w.mod) \cup {x}
          /\ InstantiatedIn(mod') = InstantiatedIn(w.mod) /\ MarkedIn(mod') = MarkedIn(w.mod)
          /\ EvaluatedIn(mod') = EvaluatedIn(w.mod) /\ OkIn(mod') = OkIn(w.mod)
          /\ RanIn(mod') = RanIn(w.mod) /\ LinksIn(mod') = LinksIn(w.mod)
      BY <1>3, <2>1, <3>1, ModResolved
    <3>3. d \in Frame /\ d.fn = "resolve" /\ d.m = x /\ d.i = 0
      BY <1>3 DEF Frame, Fn, d
    <3>4. Pushed(stack, stack', 1, d)
      BY <1>2, <3>1, <3>3, SteppedPushed
    <3>5. /\ x \notin InstantiatedIn(mod)
          /\ \A j \in 1 .. Len(stack) : stack[j].fn = "resolve" => stack[j].m # x
      <4>1. ~mod[x].resolved
        BY <1>3, <2>3, <2>5, InSets
      <4> QED BY <1>3, <4>1, NotResolvedYet
    <3>6. ResolveAt(stack[Len(stack)], 1, x) /\ 1 \in {0, 1}
      BY <1>2 DEF ResolveAt
    <3>7. LinkInv(file, stack', "none", LoadedIn(mod), ResolvedIn(mod) \cup {x}, InstantiatedIn(mod),
                  MarkedIn(mod), EvaluatedIn(mod), OkIn(mod), RanIn(mod), LinksIn(mod))
      BY <1>7, <2>2, <3>3, <3>4, <3>5, <3>6, PushResolve
    <3>8. x \in ResolvedIn(mod) \cup {x}
      OBVIOUS
    <3>9. LinkInv(file, stack', "none", LoadedIn(mod), ResolvedIn(mod) \cup {x},
                  InstantiatedIn(mod), MarkedIn(mod),
                  EvaluatedIn(mod), OkIn(mod), RanIn(mod), LinksIn(mod) \cup {<<M, x>>})
      BY <1>2, <1>3, <1>4, <3>7, <3>8, LinkAdded
    <3> QED BY <2>1, <3>1, <3>2, <3>9 DEF InvOf
  <2> QED BY <2>4, <2>5
<1>9. ASSUME ~mod[x].loaded, Loadable(x), Becomes(Load(World, "compile", x))
      PROVE  InvOf(file, mod', stack', ret')
  BY <1>2, <1>3, <1>9, Compiles DEF Loadable
<1>10. ASSUME Becomes(Return(World, "fail"))
       PROVE  InvOf(file, mod', stack', ret')
  <2>1. ReturnAt(file, stack[Len(stack)], ret, "fail", LoadedIn(mod), EvaluatedIn(mod))
    BY <1>2 DEF ReturnAt, Loading
  <2> QED BY <1>2, <1>10, <2>1, Returns
<1> QED BY <1>5, <1>8, <1>9, <1>10

LEMMA ResolveEnds_Keeps ==
  ASSUME InvOf(file, mod, stack, ret), ResolveEnds
  PROVE  InvOf(file, mod', stack', ret')
<1> DEFINE q == IF ret = "fail" THEN "fail" ELSE "ok"
<1>1. At("resolve") /\ Becomes(Return(World, q))
  BY DEF ResolveEnds
<1>2. stack # <<>> /\ stack[Len(stack)].fn = "resolve"
  BY <1>1, AtTop
<1>3. ReturnAt(file, stack[Len(stack)], ret, q, LoadedIn(mod), EvaluatedIn(mod))
  BY <1>2 DEF ReturnAt, Loading
<1> HIDE DEF q
<1> QED BY <1>1, <1>2, <1>3, Returns

(* The answer that a call has waited for.                                  *)
LEMMA HasAnswer ==
  ASSUME InvOf(file, mod, stack, ret), stack # <<>>, Waited(file, stack[Len(stack)])
  PROVE  ret \in {"ok", "fail"}
  BY DEF InvOf, LinkInv, Answered

LEMMA Compiled_Keeps ==
  ASSUME InvOf(file, mod, stack, ret), Compiled
  PROVE  InvOf(file, mod', stack', ret')
<1>1. At("compile") /\ Becomes(Return(IF ret = "fail" THEN Free(World, {M}) ELSE World, ret))
  BY DEF Compiled
<1>2. /\ stack # <<>> /\ stack[Len(stack)].fn = "compile" /\ stack[Len(stack)].m = M
      /\ Known(stack[Len(stack)], ResolvedIn(mod), InstantiatedIn(mod), MarkedIn(mod), EvaluatedIn(mod))
  BY <1>1, AtTop
<1>3. ret \in {"ok", "fail"}
  BY <1>2, HasAnswer DEF Waited
<1>4. CASE ret = "fail"
  <2>1. Becomes(Return(Free(World, {M}), ret))
    BY <1>1, <1>4
  <2>2. FreeAt(stack[Len(stack)], ret, LoadedIn(mod), InstantiatedIn(mod), EvaluatedIn(mod), {M})
    BY <1>2 DEF FreeAt, Known, Loading
  <2> QED BY <1>2, <1>3, <2>1, <2>2, FreesReturns DEF Loading
<1>5. CASE ret # "fail"
  <2>1. Becomes(Return(World, ret))
    BY <1>1, <1>5
  <2>2. ReturnAt(file, stack[Len(stack)], ret, ret, LoadedIn(mod), EvaluatedIn(mod))
    BY <1>2, <1>3 DEF ReturnAt, Loading
  <2> QED BY <1>2, <2>1, <2>2, Returns
<1> QED BY <1>4, <1>5

LEMMA JS_EvalFunctionInternal_Keeps ==
  ASSUME InvOf(file, mod, stack, ret), JS_EvalFunctionInternal
  PROVE  InvOf(file, mod', stack', ret')
<1>1. PICK fn \in {"run", "import"} : At(fn) /\ I > 0
  BY DEF JS_EvalFunctionInternal
<1>2. /\ stack # <<>> /\ stack[Len(stack)].fn = fn /\ stack[Len(stack)].m = M
      /\ stack[Len(stack)].i = I /\ I \in Nat /\ M \in Module /\ M # Null /\ Last(stack).fn = fn
      /\ Known(stack[Len(stack)], ResolvedIn(mod), InstantiatedIn(mod), MarkedIn(mod), EvaluatedIn(mod))
      /\ Len(stack) \in 1 .. Len(stack)
  BY <1>1, AtTop
<1>3. stack[Len(stack)].fn \in Begin /\ I \in 1 .. 3
  <2>1. Nested(stack)
    BY DEF InvOf, LinkInv
  <2> QED BY <1>1, <1>2, <2>1 DEF Nested, Begin
<1>4. ret \in {"ok", "fail"}
  BY <1>1, <1>2, HasAnswer DEF Waited
<1> DEFINE failed == IF I > 1 THEN EvalFailed(World)
                     ELSE Free(World, IF Last(stack).fn = "run" THEN {M} ELSE NotResolved(World))
<1>5. \/ ret = "fail" /\ Becomes(Return(failed, "none"))
      \/ ret = "ok" /\ I = 1 /\ Becomes(js_instantiate_module(Next0(World), M))
      \/ ret = "ok" /\ I = 2 /\ Becomes(js_evaluate_module(Next0(World), M))
      \/ ret = "ok" /\ I = 3 /\ Last(stack).fn = "run" /\ Becomes(Return(World, "none"))
      \/ ret = "ok" /\ I = 3 /\ Last(stack).fn # "run" /\ Imported(js_get_module_ns(World, M))
  <2>1. \/ ret = "fail"
        \/ ret = "ok" /\ I = 1
        \/ ret = "ok" /\ I = 2
        \/ ret = "ok" /\ I = 3
    BY <1>3, <1>4
  <2> HIDE DEF failed
  <2>2. (CASE ret = "fail"        -> Becomes(Return(failed, "none"))
           [] ret = "ok" /\ I = 1 -> Becomes(js_instantiate_module(Next0(World), M))
           [] ret = "ok" /\ I = 2 -> Becomes(js_evaluate_module(Next0(World), M))
           [] ret = "ok" /\ I = 3 ->
                IF Last(stack).fn = "run" THEN Becomes(Return(World, "none"))
                ELSE Imported(js_get_module_ns(World, M)))
    BY DEF JS_EvalFunctionInternal, failed
  <2> QED BY <2>1, <2>2
<1> HIDE DEF failed
<1>6. ASSUME ret = "fail", Becomes(Return(failed, "none"))
      PROVE  InvOf(file, mod', stack', ret')
  <2>0. World.mod = mod
    BY WorldFields
  <2>1. CASE I > 1
    <3>1. Becomes(Return(Free(World, NotEvaluated(World)), "none"))
      BY <1>6, <2>1 DEF failed, EvalFailed
    <3>2. NotEvaluated(World) = LoadedIn(mod) \ EvaluatedIn(mod)
      BY <2>0 DEF NotEvaluated, LoadedIn, EvaluatedIn
    <3>3. FreeAt(stack[Len(stack)], ret, LoadedIn(mod), InstantiatedIn(mod), EvaluatedIn(mod),
                 NotEvaluated(World))
      BY <1>2, <1>3, <1>6, <2>1, <3>2 DEF FreeAt
    <3> QED BY <1>2, <1>3, <3>1, <3>2, <3>3, FreesReturns
  <2>2. CASE I = 1
    <3> DEFINE S == IF Last(stack).fn = "run" THEN {M} ELSE NotResolved(World)
    <3>1. Becomes(Return(Free(World, S), "none"))
      BY <1>6, <2>2 DEF failed
    <3>2. S \cap InstantiatedIn(mod) = {}
      <4>1. CASE fn = "run"
        <5>1. M \notin InstantiatedIn(mod)
          BY <1>2, <2>2, <4>1 DEF Known
        <5> QED BY <1>2, <4>1, <5>1
      <4>2. CASE fn # "run"
        <5>1. S = NotResolved(World)
          BY <1>2, <4>2
        <5>2. NotResolved(World) \cap ResolvedIn(mod) = {}
          BY <2>0 DEF NotResolved, ResolvedIn
        <5>3. InstantiatedIn(mod) \subseteq ResolvedIn(mod)
          BY DEF InvOf, LinkInv, Flags
        <5> QED BY <5>1, <5>2, <5>3
      <4> QED BY <4>1, <4>2
    <3> HIDE DEF S
    <3>3. FreeAt(stack[Len(stack)], ret, LoadedIn(mod), InstantiatedIn(mod), EvaluatedIn(mod), S)
      BY <1>2, <1>3, <2>2, <3>2 DEF FreeAt
    <3>4. stack[Len(stack)].i < 2
      BY <1>2, <2>2
    <3> QED BY <1>2, <1>3, <3>1, <3>3, <3>4, FreesReturns
  <2> QED BY <1>3, <2>1, <2>2
<1>7. ASSUME ret = "ok", I = 1, Becomes(js_instantiate_module(Next0(World), M))
      PROVE  InvOf(file, mod', stack', ret')
  <2>1. InstantiateAt(file, LinksIn(mod), stack[Len(stack)], ret, M)
    BY <1>2, <1>3, <1>7 DEF InstantiateAt
  <2> QED BY <1>2, <1>7, <2>1, Instantiates
<1>8. ASSUME ret = "ok", I = 2, Becomes(js_evaluate_module(Next0(World), M))
      PROVE  InvOf(file, mod', stack', ret')
  <2>1. EvaluateAt(file, LinksIn(mod), stack[Len(stack)], ret, M)
    BY <1>2, <1>3, <1>8 DEF EvaluateAt
  <2> QED BY <1>2, <1>8, <2>1, Evaluates
<1>9. ASSUME ret = "ok", I = 3
      PROVE  ReturnAt(file, stack[Len(stack)], ret, "none", LoadedIn(mod), EvaluatedIn(mod))
  BY <1>2, <1>3, <1>9 DEF ReturnAt
<1>10. ASSUME ret = "ok", I = 3, Becomes(Return(World, "none"))
       PROVE  InvOf(file, mod', stack', ret')
  BY <1>2, <1>9, <1>10, Returns
<1>11. ASSUME ret = "ok", I = 3, Imported(js_get_module_ns(World, M))
       PROVE  InvOf(file, mod', stack', ret')
  <2>1. Becomes(Return(Binds(js_get_module_ns(World, M).w), "none"))
    BY <1>11 DEF Imported
  <2> QED BY <1>2, <1>9, <1>11, <2>1, BindsReturns
<1> QED BY <1>5, <1>6, <1>7, <1>8, <1>10, <1>11

LEMMA InstantiateStep_Keeps ==
  ASSUME InvOf(file, mod, stack, ret), InstantiateStep
  PROVE  InvOf(file, mod', stack', ret')
<1> DEFINE x == file[M].req[I + 1]
<1>1. /\ At("instantiate") /\ ret # "fail" /\ I < Len(file[M].req) /\ x \in mod[M].linked
      /\ Becomes(js_instantiate_module(Next0(World), x))
  BY DEF InstantiateStep
<1>2. /\ stack # <<>> /\ stack[Len(stack)].fn = "instantiate" /\ stack[Len(stack)].m = M
      /\ stack[Len(stack)].i = I /\ M \in Module /\ M # Null
      /\ I + 1 \in 1 .. Len(file[M].req) /\ x \in Module
  BY <1>1, AtTop
<1>3. <<M, x>> \in LinksIn(mod)
  BY <1>1, <1>2, InSets
<1>4. InstantiateAt(file, LinksIn(mod), stack[Len(stack)], ret, x)
  BY <1>1, <1>2, <1>3 DEF InstantiateAt
<1> HIDE DEF x
<1> QED BY <1>1, <1>2, <1>4, Instantiates

LEMMA InstantiateEnds_Keeps ==
  ASSUME InvOf(file, mod, stack, ret), InstantiateEnds
  PROVE  InvOf(file, mod', stack', ret')
<1> DEFINE l == Link(World, M)
<1>1. /\ At("instantiate") /\ ret # "fail" /\ I = Len(file[M].req)
      /\ l.out \in {"ok", "fail"} /\ Becomes(Return(Binds(l.w), l.out))
  BY DEF InstantiateEnds, Linking, Linked
<1> HIDE DEF l
<1>2. /\ stack # <<>> /\ stack[Len(stack)].fn = "instantiate" /\ stack[Len(stack)].m = M
      /\ stack[Len(stack)].i = I /\ M # Null
  BY <1>1, AtTop
<1>3. ReturnAt(file, stack[Len(stack)], ret, l.out, LoadedIn(mod), EvaluatedIn(mod))
  BY <1>1, <1>2 DEF ReturnAt
<1> QED BY <1>1, <1>2, <1>3, BindsReturns

LEMMA InstantiateFails_Keeps ==
  ASSUME InvOf(file, mod, stack, ret), InstantiateFails
  PROVE  InvOf(file, mod', stack', ret')
<1>1. At("instantiate") /\ Becomes(Return(World, "fail"))
  BY DEF InstantiateFails
<1>2. stack # <<>> /\ stack[Len(stack)].fn = "instantiate"
  BY <1>1, AtTop
<1>3. ReturnAt(file, stack[Len(stack)], ret, "fail", LoadedIn(mod), EvaluatedIn(mod))
  BY <1>2 DEF ReturnAt
<1> QED BY <1>1, <1>2, <1>3, Returns

LEMMA EvaluateStep_Keeps ==
  ASSUME InvOf(file, mod, stack, ret), EvaluateStep
  PROVE  InvOf(file, mod', stack', ret')
<1> DEFINE x == file[M].req[I + 1]
<1>1. /\ At("evaluate") /\ ret # "fail" /\ I < Len(file[M].req) /\ x \in mod[M].linked
      /\ Becomes(js_evaluate_module(Next0(World), x))
  BY DEF EvaluateStep
<1>2. /\ stack # <<>> /\ stack[Len(stack)].fn = "evaluate" /\ stack[Len(stack)].m = M
      /\ stack[Len(stack)].i = I /\ M \in Module /\ M # Null
      /\ I + 1 \in 1 .. Len(file[M].req) /\ x \in Module
  BY <1>1, AtTop
<1>3. <<M, x>> \in LinksIn(mod)
  BY <1>1, <1>2, InSets
<1>4. EvaluateAt(file, LinksIn(mod), stack[Len(stack)], ret, x)
  BY <1>1, <1>2, <1>3 DEF EvaluateAt
<1> HIDE DEF x
<1> QED BY <1>1, <1>2, <1>4, Evaluates

LEMMA BodyStarts_Keeps ==
  ASSUME InvOf(file, mod, stack, ret), BodyStarts
  PROVE  InvOf(file, mod', stack', ret')
<1> DEFINE w == [Next0(World) EXCEPT !.mod[M].ran = @ + 1]
           c == [fn |-> "body", m |-> M, i |-> 0]
<1>1. At("evaluate") /\ ret # "fail" /\ I = Len(file[M].req) /\ Becomes(Call(w, "body", M))
  BY DEF BodyStarts
<1>2. /\ stack # <<>> /\ stack \in Seq(Frame) /\ Len(stack) \in 1 .. Len(stack)
      /\ stack[Len(stack)].fn = "evaluate" /\ stack[Len(stack)].m = M /\ stack[Len(stack)].i = I
      /\ M \in Module /\ M # Null /\ I \in Nat
  BY <1>1, AtTop
<1>3. IsWorld(w) /\ w.mod = [mod EXCEPT ![M].ran = @ + 1] /\ w.stack = Stepped(stack)
  BY Next0World DEF IsWorld
<1> HIDE DEF w
<1>4. /\ mod' = [mod EXCEPT ![M].ran = @ + 1] /\ ret' = "none" /\ stack' = Append(Stepped(stack), c)
  BY <1>1, <1>3, CallFields DEF Becomes
<1>5. /\ ModsTyped(mod)
      /\ LinkInv(file, stack, ret, LoadedIn(mod), ResolvedIn(mod), InstantiatedIn(mod),
                 MarkedIn(mod), EvaluatedIn(mod), OkIn(mod), RanIn(mod), LinksIn(mod))
  BY DEF InvOf
<1>6. M \notin RanIn(mod)
  <2>1. Ordered(file, stack, ret, MarkedIn(mod), OkIn(mod), RanIn(mod))
    BY <1>5 DEF LinkInv
  <2>2. I <= Len(file[M].req)
    BY <1>1, <1>2
  <2> QED BY <1>2, <2>1, <2>2 DEF Ordered
<1>7. /\ ModsTyped(mod')
      /\ LoadedIn(mod') = LoadedIn(mod) /\ ResolvedIn(mod') = ResolvedIn(mod)
      /\ InstantiatedIn(mod') = InstantiatedIn(mod) /\ MarkedIn(mod') = MarkedIn(mod)
      /\ EvaluatedIn(mod') = EvaluatedIn(mod) /\ OkIn(mod') = OkIn(mod)
      /\ RanIn(mod') = RanIn(mod) \cup {M} /\ LinksIn(mod') = LinksIn(mod)
  BY <1>2, <1>4, <1>5, <1>6, ModRan
<1>8. c \in Frame /\ c.fn = "body" /\ c.m = M /\ c.i = 0
  BY <1>2 DEF Frame, Fn
<1>9. Pushed(stack, stack', 1, c)
  BY <1>2, <1>4, <1>8, SteppedPushed
<1> HIDE DEF c
<1>10. stack[Len(stack)].i = Len(file[M].req)
  BY <1>1, <1>2
<1>11. LinkInv(file, stack', "none", LoadedIn(mod), ResolvedIn(mod), InstantiatedIn(mod), MarkedIn(mod),
               EvaluatedIn(mod), OkIn(mod), RanIn(mod) \cup {M}, LinksIn(mod))
  BY <1>1, <1>2, <1>5, <1>8, <1>9, <1>10, PushBody
<1> QED BY <1>4, <1>7, <1>11 DEF InvOf

LEMMA DependencyFails_Keeps ==
  ASSUME InvOf(file, mod, stack, ret), DependencyFails
  PROVE  InvOf(file, mod', stack', ret')
<1> DEFINE w == [World EXCEPT !.mod[M].eval_mark = FALSE]
<1>1. At("evaluate") /\ I <= Len(file[M].req) /\ Becomes(Return(w, "fail"))
  BY DEF DependencyFails, dependency_fails
<1>2. /\ stack # <<>> /\ stack \in Seq(Frame) /\ M \in Module
      /\ stack[Len(stack)].fn = "evaluate" /\ stack[Len(stack)].m = M /\ stack[Len(stack)].i = I
  BY <1>1, AtTop
<1>3. IsWorld(w) /\ w.mod = [mod EXCEPT ![M].eval_mark = FALSE] /\ w.stack = stack
  BY WorldFields DEF IsWorld
<1> HIDE DEF w
<1>4. mod' = [mod EXCEPT ![M].eval_mark = FALSE] /\ stack' = Front(stack) /\ ret' = "fail"
  BY <1>1, <1>3, ReturnFields DEF Becomes
<1>5. /\ ModsTyped(mod)
      /\ LinkInv(file, stack, ret, LoadedIn(mod), ResolvedIn(mod), InstantiatedIn(mod),
                 MarkedIn(mod), EvaluatedIn(mod), OkIn(mod), RanIn(mod), LinksIn(mod))
  BY DEF InvOf
<1>6. /\ ModsTyped(mod')
      /\ LoadedIn(mod') = LoadedIn(mod) /\ ResolvedIn(mod') = ResolvedIn(mod)
      /\ InstantiatedIn(mod') = InstantiatedIn(mod) /\ MarkedIn(mod') = MarkedIn(mod) \ {M}
      /\ EvaluatedIn(mod') = EvaluatedIn(mod) /\ OkIn(mod') = OkIn(mod)
      /\ RanIn(mod') = RanIn(mod) /\ LinksIn(mod') = LinksIn(mod)
  BY <1>2, <1>4, <1>5, ModUnmarked
<1>7. Popped(stack, stack') /\ stack[Len(stack)].i <= Len(file[M].req)
  BY <1>1, <1>2, <1>4, FrontPopped
<1>8. LinkInv(file, stack', "fail", LoadedIn(mod), ResolvedIn(mod), InstantiatedIn(mod),
              MarkedIn(mod) \ {M},
              EvaluatedIn(mod), OkIn(mod), RanIn(mod), LinksIn(mod))
  BY <1>2, <1>5, <1>7, PopDependencyFails
<1> QED BY <1>4, <1>6, <1>8 DEF InvOf

LEMMA EvaluateEnds_Keeps ==
  ASSUME InvOf(file, mod, stack, ret), EvaluateEnds
  PROVE  InvOf(file, mod', stack', ret')
<1> DEFINE w == [World EXCEPT !.mod[M].eval_has_exception = (ret = "fail"),
                              !.mod[M].eval_mark = FALSE, !.mod[M].evaluated = TRUE,
                              !.mod[M].func = IF @ = "init" THEN @ ELSE "deleted"]
           func == IF mod[M].func = "init" THEN mod[M].func ELSE "deleted"
<1>1. At("evaluate") /\ I > Len(file[M].req) /\ Becomes(Return(w, ret))
  BY DEF EvaluateEnds
<1>2. /\ stack # <<>> /\ stack \in Seq(Frame) /\ M \in Module /\ M # Null
      /\ stack[Len(stack)].fn = "evaluate" /\ stack[Len(stack)].m = M /\ stack[Len(stack)].i = I
      /\ Known(stack[Len(stack)], ResolvedIn(mod), InstantiatedIn(mod), MarkedIn(mod), EvaluatedIn(mod))
  BY <1>1, AtTop
<1>3. /\ ModsTyped(mod)
      /\ LinkInv(file, stack, ret, LoadedIn(mod), ResolvedIn(mod), InstantiatedIn(mod),
                 MarkedIn(mod), EvaluatedIn(mod), OkIn(mod), RanIn(mod), LinksIn(mod))
  BY DEF InvOf
<1>4. /\ IsWorld(w) /\ w.stack = stack
      /\ w.mod = EvaluatedMods(mod, M, ret, func)
  <2>1. DOMAIN mod = Module /\ DOMAIN mod[M] = Fields
    BY <1>2, <1>3 DEF ModsTyped
  <2>2. DOMAIN World = {"mod", "stack", "ret"} /\ World.mod = mod /\ World.stack = stack
    BY WorldFields DEF IsWorld
  <2> QED BY <1>2, <2>1, <2>2 DEF IsWorld, Fields, EvaluatedMods
<1> HIDE DEF w, func
<1>5. /\ mod' = EvaluatedMods(mod, M, ret, func)
      /\ stack' = Front(stack) /\ ret' = ret
  BY <1>1, <1>4, ReturnFields DEF Becomes
<1>6. ret \in {"ok", "fail"}
  BY <1>1, <1>2, HasAnswer DEF Waited
<1>7. M \notin OkIn(mod)
  <2>1. MarkedIn(mod) \cap EvaluatedIn(mod) = {} /\ OkIn(mod) \subseteq EvaluatedIn(mod)
    BY <1>3 DEF LinkInv, Flags
  <2> QED BY <1>2, <2>1 DEF Known
<1>8. /\ ModsTyped(mod')
      /\ LoadedIn(mod') = LoadedIn(mod) /\ ResolvedIn(mod') = ResolvedIn(mod)
      /\ InstantiatedIn(mod') = InstantiatedIn(mod) /\ MarkedIn(mod') = MarkedIn(mod) \ {M}
      /\ EvaluatedIn(mod') = EvaluatedIn(mod) \cup {M}
      /\ OkIn(mod') = (IF ret = "ok" THEN OkIn(mod) \cup {M} ELSE OkIn(mod))
      /\ RanIn(mod') = RanIn(mod) /\ LinksIn(mod') = LinksIn(mod)
  BY <1>2, <1>3, <1>5, <1>6, <1>7, ModEvaluated
<1>9. Popped(stack, stack') /\ stack[Len(stack)].i > Len(file[M].req)
  BY <1>1, <1>2, <1>5, FrontPopped
<1>10. LinkInv(file, stack', ret, LoadedIn(mod), ResolvedIn(mod), InstantiatedIn(mod),
               MarkedIn(mod) \ {M},
               EvaluatedIn(mod) \cup {M}, IF ret = "ok" THEN OkIn(mod) \cup {M} ELSE OkIn(mod),
               RanIn(mod), LinksIn(mod))
  BY <1>2, <1>3, <1>9, PopEvaluated
<1> QED BY <1>5, <1>8, <1>10 DEF InvOf

-----------------------------------------------------------------------------
(* The specification keeps the invariant.                                  *)
LEMMA InitInv == Init => Inv
<1> SUFFICES ASSUME Init PROVE Inv
  OBVIOUS
<1>1. file \in Programs /\ mod = [m \in Module |-> Absent] /\ stack = <<>> /\ ret = "none"
  BY DEF Init
<1>2. /\ DOMAIN Absent = Fields /\ Absent.loaded = FALSE /\ Absent.resolved = FALSE
      /\ Absent.instantiated = FALSE /\ Absent.evaluated = FALSE /\ Absent.eval_mark = FALSE
      /\ Absent.eval_has_exception = FALSE /\ Absent.linked = {} /\ Absent.ran = 0
  BY DEF Absent, Fields
<1>3. DOMAIN mod = Module /\ \A m \in Module : mod[m] = Absent
  BY <1>1, Zenon
<1>4. ModsTyped(mod)
  BY <1>2, <1>3 DEF ModsTyped
<1>5. LoadedIn(mod) = {} /\ ResolvedIn(mod) = {} /\ InstantiatedIn(mod) = {}
  BY <1>2, <1>3 DEF LoadedIn, ResolvedIn, InstantiatedIn
<1>6. MarkedIn(mod) = {} /\ EvaluatedIn(mod) = {} /\ OkIn(mod) = {}
  BY <1>2, <1>3 DEF MarkedIn, EvaluatedIn, OkIn
<1>7. RanIn(mod) = {} /\ LinksIn(mod) = {}
  BY <1>2, <1>3 DEF RanIn, LinksIn
<1>8. DOMAIN file \subseteq Module /\ \A m \in DOMAIN file : file[m].req \in Seq(Module)
  BY <1>1, ModuleAssumption
<1>9. LinkInv(file, <<>>, "none", {}, {}, {}, {}, {}, {}, {}, {})
  <2>1. Typed(file, <<>>, "none")
    BY <1>8 DEF Typed
  <2>2. Flags(file, {}, {}, {}, {}, {}, {}, {}, {})
    BY DEF Flags
  <2>3. Nested(<<>>) /\ Calls(<<>>, {}, {}, {}, {}) /\ Once(<<>>, {}) /\ Answered(file, <<>>, "none")
    BY DEF Nested, Calls, Once, Answered
  <2>4. Ordered(file, <<>>, "none", {}, {}, {})
    BY DEF Ordered
  <2>5. Closed(file, <<>>, {}, {}) /\ Reached(file, <<>>, Waiting({}, {}, {}), {})
    BY DEF Closed, Reached, Waiting
  <2> QED BY <2>1, <2>2, <2>3, <2>4, <2>5 DEF LinkInv
<1> QED BY <1>1, <1>4, <1>5, <1>6, <1>7, <1>9 DEF Inv, InvOf

LEMMA NextInv == Inv /\ [Next]_vars => Inv'
<1> SUFFICES ASSUME Inv, [Next]_vars PROVE Inv'
  OBVIOUS
<1>0. InvOf(file, mod, stack, ret) /\ file \in Programs
  BY DEF Inv
<1>1. ASSUME NEW m \in Module, JS_NewCModule(m)
      PROVE  InvOf(file, mod', stack', ret') /\ file' = file
  BY <1>0, <1>1, JS_NewCModule_Keeps DEF JS_NewCModule
<1>2. ASSUME NEW m \in Module, JS_Eval(m)
      PROVE  InvOf(file, mod', stack', ret') /\ file' = file
  BY <1>0, <1>2, JS_Eval_Keeps DEF JS_Eval
<1>3. ASSUME NEW m \in Module, js_dynamic_import(m)
      PROVE  InvOf(file, mod', stack', ret') /\ file' = file
  BY <1>0, <1>3, js_dynamic_import_Keeps DEF js_dynamic_import
<1>4. ASSUME NEW r \in {"ok", "fail"}, BodyEnds(r)
      PROVE  InvOf(file, mod', stack', ret') /\ file' = file
  BY <1>0, <1>4, BodyEnds_Keeps DEF BodyEnds
<1>5. ASSUME js_host_resolve_imported_module
      PROVE  InvOf(file, mod', stack', ret') /\ file' = file
  BY <1>0, <1>5, js_host_resolve_imported_module_Keeps DEF js_host_resolve_imported_module
<1>6. ASSUME ResolveStep
      PROVE  InvOf(file, mod', stack', ret') /\ file' = file
  BY <1>0, <1>6, ResolveStep_Keeps DEF ResolveStep
<1>7. ASSUME ResolveEnds
      PROVE  InvOf(file, mod', stack', ret') /\ file' = file
  BY <1>0, <1>7, ResolveEnds_Keeps DEF ResolveEnds
<1>8. ASSUME Compiled
      PROVE  InvOf(file, mod', stack', ret') /\ file' = file
  BY <1>0, <1>8, Compiled_Keeps DEF Compiled
<1>9. ASSUME JS_EvalFunctionInternal
      PROVE  InvOf(file, mod', stack', ret') /\ file' = file
  BY <1>0, <1>9, JS_EvalFunctionInternal_Keeps DEF JS_EvalFunctionInternal
<1>10. ASSUME InstantiateStep
       PROVE  InvOf(file, mod', stack', ret') /\ file' = file
  BY <1>0, <1>10, InstantiateStep_Keeps DEF InstantiateStep
<1>11. ASSUME InstantiateEnds
       PROVE  InvOf(file, mod', stack', ret') /\ file' = file
  BY <1>0, <1>11, InstantiateEnds_Keeps DEF InstantiateEnds
<1>12. ASSUME InstantiateFails
       PROVE  InvOf(file, mod', stack', ret') /\ file' = file
  BY <1>0, <1>12, InstantiateFails_Keeps DEF InstantiateFails
<1>13. ASSUME EvaluateStep
       PROVE  InvOf(file, mod', stack', ret') /\ file' = file
  BY <1>0, <1>13, EvaluateStep_Keeps DEF EvaluateStep
<1>14. ASSUME BodyStarts
       PROVE  InvOf(file, mod', stack', ret') /\ file' = file
  BY <1>0, <1>14, BodyStarts_Keeps DEF BodyStarts
<1>15. ASSUME DependencyFails
       PROVE  InvOf(file, mod', stack', ret') /\ file' = file
  BY <1>0, <1>15, DependencyFails_Keeps DEF DependencyFails
<1>16. ASSUME EvaluateEnds
       PROVE  InvOf(file, mod', stack', ret') /\ file' = file
  BY <1>0, <1>16, EvaluateEnds_Keeps DEF EvaluateEnds
<1>20. CASE UNCHANGED vars
  BY <1>0, <1>20 DEF vars, Inv
<1>21. CASE Next
  <2>1. InvOf(file, mod', stack', ret') /\ file' = file
    BY <1>21, <1>1, <1>2, <1>3, <1>4, <1>5, <1>6, <1>7, <1>8, <1>9, <1>10, <1>11, <1>12, <1>13,
       <1>14, <1>15, <1>16 DEF Next
  <2> QED BY <1>0, <2>1 DEF Inv
<1> QED BY <1>20, <1>21

-----------------------------------------------------------------------------
(* The flags of the modules, what they are linked to, the calls in         *)
(* progress and what they wait for agree, and all that is instantiated is  *)
(* going to be evaluated unless a failure is on its way that frees it.     *)
THEOREM LinkingSound == Spec => []Inv
<1> QED BY InitInv, NextInv, PTL DEF Spec

(* No module is twice in a walk, and eval_mark is set exactly during its   *)
(* evaluation: a circle of imports comes to an end, whatever the files     *)
(* request and wherever an import() begins another walk.                   *)
THEOREM WalksOnce == Spec => []OneWalk
<1>1. Inv => OneWalk
  <2> SUFFICES ASSUME Inv, NEW m \in Module
               PROVE  /\ Cardinality({j \in DOMAIN stack : stack[j].fn = "resolve" /\ stack[j].m = m}) <= 1
                      /\ Cardinality({j \in DOMAIN stack : stack[j].fn = "instantiate" /\ stack[j].m = m}) <= 1
                      /\ Cardinality({j \in DOMAIN stack : stack[j].fn = "evaluate" /\ stack[j].m = m})
                           = (IF mod[m].eval_mark THEN 1 ELSE 0)
    BY DEF OneWalk
  <2>1. /\ Once(stack, MarkedIn(mod)) /\ stack \in Seq(Frame)
        /\ Calls(stack, ResolvedIn(mod), InstantiatedIn(mod), MarkedIn(mod), EvaluatedIn(mod))
    BY DEF Inv, InvOf, LinkInv, Typed
  <2>2. DOMAIN stack = 1 .. Len(stack) /\ m # Null
    BY <2>1, ModuleAssumption
  <2> DEFINE In(fn) == {j \in DOMAIN stack : stack[j].fn = fn /\ stack[j].m = m}
  <2>3. ASSUME NEW fn \in {"resolve", "instantiate", "evaluate"}
        PROVE  In(fn) = {} \/ \E j \in In(fn) : In(fn) = {j}
    <3>1. \A j, k \in In(fn) : j = k
      BY <2>1, <2>2 DEF Once
    <3> QED BY <3>1
  <2>4. ASSUME NEW fn \in {"resolve", "instantiate", "evaluate"}
        PROVE  Cardinality(In(fn)) = (IF In(fn) = {} THEN 0 ELSE 1)
    <3>1. CASE In(fn) = {}
      BY <3>1, FS_EmptySet
    <3>2. CASE In(fn) # {}
      <4>1. PICK j \in In(fn) : In(fn) = {j}
        BY <2>3, <3>2
      <4>2. Cardinality({j}) = 1
        BY FS_Singleton
      <4> QED BY <3>2, <4>1, <4>2
    <3> QED BY <3>1, <3>2
  <2>5. In("evaluate") # {} <=> mod[m].eval_mark
    <3>1. ASSUME mod[m].eval_mark
          PROVE  In("evaluate") # {}
      BY <2>1, <2>2, <3>1 DEF Once, MarkedIn
    <3>2. ASSUME In("evaluate") # {}
          PROVE  mod[m].eval_mark
      BY <2>1, <2>2, <3>2 DEF Calls, Known, MarkedIn
    <3> QED BY <3>1, <3>2
  <2>6. /\ Cardinality(In("resolve")) <= 1 /\ Cardinality(In("instantiate")) <= 1
        /\ Cardinality(In("evaluate")) = (IF mod[m].eval_mark THEN 1 ELSE 0)
    <3> HIDE DEF In
    <3>1. /\ Cardinality(In("resolve")) = (IF In("resolve") = {} THEN 0 ELSE 1)
          /\ Cardinality(In("instantiate")) = (IF In("instantiate") = {} THEN 0 ELSE 1)
          /\ Cardinality(In("evaluate")) = (IF In("evaluate") = {} THEN 0 ELSE 1)
      BY <2>4
    <3>2. CASE mod[m].eval_mark
      BY <2>5, <3>1, <3>2
    <3>3. CASE ~mod[m].eval_mark
      BY <2>5, <3>1, <3>3
    <3> QED BY <3>2, <3>3
  <2> QED BY <2>6
<1> QED BY <1>1, LinkingSound, PTL

(* A body runs once in the life of a module, after the bodies of all that  *)
(* the module requests have run without an exception; only those of a      *)
(* circle may still be waiting for it.                                     *)
THEOREM BodiesOrdered == Spec => []BodiesInOrder
<1>1. Inv => BodiesInOrder
  <2> SUFFICES ASSUME Inv PROVE BodiesInOrder
    OBVIOUS
  <2>1. /\ ModsTyped(mod) /\ stack \in Seq(Frame)
        /\ Ordered(file, stack, ret, MarkedIn(mod), OkIn(mod), RanIn(mod))
        /\ Typed(file, stack, ret)
    BY DEF Inv, InvOf, LinkInv, Typed
  <2>2. \A m \in Module : mod[m].ran <= 1
    BY <2>1 DEF ModsTyped
  <2>3. ASSUME At("body"), I = 0, NEW x \in Range(file[M].req)
        PROVE  mod[x].eval_mark \/ (mod[x].evaluated /\ ~mod[x].eval_has_exception)
    <3>1. /\ Len(stack) \in 1 .. Len(stack) /\ stack[Len(stack)].fn = "body" /\ stack[Len(stack)].m = M
          /\ stack[Len(stack)].i = 0
      BY <2>3, AtTop DEF Inv
    <3>2. /\ M \in DOMAIN file
          /\ \A k \in 1 .. Len(file[M].req) : file[M].req[k] \in MarkedIn(mod) \cup OkIn(mod)
      BY <2>1, <3>1 DEF Ordered
    <3>3. file[M].req \in Seq(Module)
      BY <2>1, <3>2 DEF Typed
    <3>4. PICK k \in 1 .. Len(file[M].req) : x = file[M].req[k]
      BY <2>3, <3>3 DEF Range
    <3>5. x \in MarkedIn(mod) \cup OkIn(mod)
      BY <3>2, <3>4
    <3> QED BY <3>5 DEF MarkedIn, OkIn
  <2> QED BY <2>2, <2>3 DEF BodiesInOrder
<1> QED BY <1>1, LinkingSound, PTL

(* Between two calls of the host no module is left instantiated and not    *)
(* evaluated, however the walks ended and whatever was freed.              *)
THEOREM NothingHalfLinked == Spec => []NoHalfLinked
<1>1. Inv => NoHalfLinked
  <2> SUFFICES ASSUME Inv, stack = <<>>, NEW m \in Module, mod[m].instantiated
               PROVE  mod[m].evaluated
    BY DEF NoHalfLinked
  <2> DEFINE W == Waiting(InstantiatedIn(mod), MarkedIn(mod), EvaluatedIn(mod))
  <2>1. Once(stack, MarkedIn(mod)) /\ Reached(file, stack, W, LinksIn(mod))
    <3>1. ~Failing(stack, ret)
      BY DEF Failing
    <3> QED BY <3>1 DEF Inv, InvOf, LinkInv
  <2>2. MarkedIn(mod) = {}
    BY <2>1 DEF Once
  <2>3. W = {}
    <3> SUFFICES ASSUME W # {} PROVE FALSE
      OBVIOUS
    <3> HIDE DEF W
    <3>1. PICK x \in W : Wanted(file, stack, W, LinksIn(mod), W, x)
      BY <2>1 DEF Reached
    <3>2. ~ \E j \in 1 .. Len(stack) : TRUE
      OBVIOUS
    <3>3. \/ \E j \in 1 .. Len(stack) : stack[j].fn \in Begin /\ stack[j].i = 2 /\ stack[j].m = x
          \/ \E p \in W : p \notin W /\ <<p, x>> \in LinksIn(mod)
          \/ \E j \in 1 .. Len(stack) : stack[j].fn = "evaluate" /\ Later(file, stack[j], x)
      BY <3>1 DEF Wanted
    <3> QED BY <3>2, <3>3
  <2>4. m \in InstantiatedIn(mod)
    BY DEF InstantiatedIn
  <2> QED BY <2>2, <2>3, <2>4 DEF Waiting, EvaluatedIn
<1> QED BY <1>1, LinkingSound, PTL

=============================================================================
