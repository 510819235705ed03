---------------------------- MODULE PromiseProofs ----------------------------
(* Proofs about promises, async functions and the job queue (PromiseJobs), *)
(* for every number of promises, pairs and frames, whether allocations     *)
(* fail or not.  m, st, a, u, rs, js, s and fl stand for values of made,   *)
(* state, async, used, reactions, jobs, stack and failed.                  *)
EXTENDS PromiseJobs, FiniteSetTheorems, SequenceTheorems, TLAPS

-----------------------------------------------------------------------------
(* What is referred to exists: pairs that were made, promises that were    *)
(* created, functions that were called.                                    *)
PairMade(m, x)     == x[2] < m[x[1]]
CapMade(m, cap)    == cap # None => PairMade(m, cap)
ValueMade(m, v)    == v \in Promise => m[v] > 0
HandlerMade(m, a, h) ==
  /\ \A i \in {0, 1}, x \in Pair : h = Resolving(i, x) => PairMade(m, x)
  /\ \A f \in Promise : h = Resume(f) => a[f] # None

(* Entries of both lists of reactions: the first handler is never the      *)
(* rejecting function of a pair, the second never the resolving one, and   *)
(* an await puts the same continuation into both.                          *)
ReactionSound(m, a, rd) ==
  /\ CapMade(m, rd.cap) /\ HandlerMade(m, a, rd.on[1]) /\ HandlerMade(m, a, rd.on[2])
  /\ \A x \in Pair : rd.on[1] # Resolving(1, x) /\ rd.on[2] # Resolving(0, x)
  /\ \A f \in Promise : rd.on[1] = Resume(f) <=> rd.on[2] = Resume(f)

(* A job hands on the outcome of a promise: it rejects through functions   *)
(* that reject, and fulfills with what is not a promise.                   *)
JobSound(m, a, e) ==
  /\ e.is = "reaction" =>
       /\ CapMade(m, e.cap) /\ HandlerMade(m, a, e.handler)
       /\ ~e.reject => e.arg \in {Prim, Object}
       /\ \A x \in Pair : /\ e.handler = Resolving(0, x) => ~e.reject
                          /\ e.handler = Resolving(1, x) => e.reject
  /\ e.is = "thenable" => ValueMade(m, e.thenable)

FrameSound(m, fr) ==
  /\ fr.at \in CodeFrames \ {"getter"} => CapMade(m, fr.of)
  /\ fr.at = "async" => fr.of # None /\ fr.of[2] = 0
  /\ fr.at = "call" =>
       /\ PairMade(m, fr.pair)
       /\ ~fr.reject => fr.arg \in Value /\ ValueMade(m, fr.arg)
  /\ fr.at = "await" => m[fr.on] > 0 /\ m[fr.of] > 0

Sound ==
  /\ \A p \in Promise : state[p] = "none" <=> made[p] = 0
  /\ \A p \in Promise : async[p] # None => made[p] > 0
  /\ \A x \in used \cup given : PairMade(made, x)
  /\ \A p \in Promise : \A i \in DOMAIN reactions[p] : ReactionSound(made, async, reactions[p][i])
  /\ \A i \in DOMAIN jobs : JobSound(made, async, jobs[i])
  /\ \A i \in DOMAIN stack : FrameSound(made, stack[i])

(* Every thenable job finds room for the pair it makes.                    *)
JobFits(m, e)    == e.is = "thenable" => m[e.of] < MaxPairs
FrameFits(m, fr) == fr.at = "call" /\ ~fr.reject /\ fr.arg \in Promise => m[fr.pair[1]] < MaxPairs
RoomKept ==
  /\ \A i \in DOMAIN jobs : JobFits(made, jobs[i])
  /\ \A i \in DOMAIN stack : FrameFits(made, stack[i])

(* The ways in which p can be settled, one kind at a time: there is one    *)
(* while p is pending, as far as no allocation failed, and never two.      *)
ByPair(m, u, p, n) == n \in 0 .. m[p] - 1 /\ <<p, n>> \notin u
ByJob(js, p, i)    == i \in DOMAIN js /\ js[i].is = "thenable" /\ js[i].of = p
ByGetter(s, p, i)  == i \in DOMAIN s /\ s[i].at = "getter" /\ s[i].promise = p

NoWay(m, u, js, s, p) ==
  \A n \in Nat : ~ByPair(m, u, p, n) /\ ~ByJob(js, p, n) /\ ~ByGetter(s, p, n)
SomeWay(m, u, js, s, p) ==
  \E n \in Nat : ByPair(m, u, p, n) \/ ByJob(js, p, n) \/ ByGetter(s, p, n)
NotTwoWays(m, u, js, s, p) ==
  \A k, n \in Nat :
    /\ ByPair(m, u, p, k) /\ ByPair(m, u, p, n) => k = n
    /\ ByJob(js, p, k) /\ ByJob(js, p, n) => k = n
    /\ ByGetter(s, p, k) /\ ByGetter(s, p, n) => k = n
    /\ ~(ByPair(m, u, p, k) /\ ByJob(js, p, n))
    /\ ~(ByPair(m, u, p, k) /\ ByGetter(s, p, n))
    /\ ~(ByJob(js, p, k) /\ ByGetter(s, p, n))

WayOf(st, m, u, js, s, fl, p) ==
  /\ st[p] # "pending" => NoWay(m, u, js, s, p)
  /\ NotTwoWays(m, u, js, s, p)
  /\ st[p] = "pending" /\ ~fl => SomeWay(m, u, js, s, p)

OneWay == \A p \in Promise : WayOf(state, made, used, jobs, stack, failed, p)

(* The places of what resumes f, jobs at place 0, and the frames in which  *)
(* f executes.                                                             *)
Waits(rs, js, f, q, i) ==
  \/ q \in Promise /\ i \in DOMAIN rs[q] /\ rs[q][i].on[1] = Resume(f)
  \/ q = 0 /\ i \in DOMAIN js /\ js[i].is = "reaction" /\ js[i].handler = Resume(f)
FrameOf(fr, f) ==
  \/ fr.at = "async" /\ fr.of[1] = f
  \/ fr.at = "await" /\ fr.of = f
Executes(s, f, i) == i \in DOMAIN s /\ FrameOf(s[i], f)

Unawaited(rs, js, f) == \A q, i : ~Waits(rs, js, f, q, i)
SomeAwait(rs, js, f) == \E q, i : Waits(rs, js, f, q, i)
NotTwoAwaits(rs, js, f) ==
  \A q, i, r, j : Waits(rs, js, f, q, i) /\ Waits(rs, js, f, r, j) => q = r /\ i = j
Stopped(s, f) == \A i : ~Executes(s, f, i)
OneFrame(s, f) ==
  /\ \E i : Executes(s, f, i)
  /\ \A i, j : Executes(s, f, i) /\ Executes(s, f, j) => i = j

(* f waits for one thing while it is suspended, unless an allocation       *)
(* failed, and for none otherwise; it executes in one frame while it runs. *)
AwaitOf(a, rs, js, s, fl, f) ==
  /\ a[f] = "suspended" => /\ NotTwoAwaits(rs, js, f) /\ (~fl => SomeAwait(rs, js, f))
                           /\ Stopped(s, f)
  /\ a[f] = "running" => Unawaited(rs, js, f) /\ OneFrame(s, f)
  /\ a[f] \in {None, "done"} => Unawaited(rs, js, f) /\ Stopped(s, f)

OneAwait == \A f \in Promise : AwaitOf(async, reactions, jobs, stack, failed, f)

PromiseInv == TypeOK /\ Sound /\ RoomKept /\ OneWay /\ NeverNested

-----------------------------------------------------------------------------
(* The parts of pairs, handlers, jobs and frames.                          *)
LEMMA PairParts ==
  /\ Promise \subseteq Nat \ {0}
  /\ \A x \in Pair : x[1] \in Promise /\ x[2] \in Nat /\ x = <<x[1], x[2]>>
  /\ \A q \in Promise : <<q, 0>> \in Pair /\ <<q, 0>>[1] = q /\ <<q, 0>>[2] = 0
  BY PromiseAssumption DEF Promise, Pair

LEMMA HandlerKinds ==
  /\ None \in Handler /\ User \in Handler /\ None # User
  /\ \A i \in {0, 1}, x \in Pair :
       /\ Resolving(i, x) \in Handler \ {None, User}
       /\ Resolving(i, x).is = "resolving" /\ Resolving(i, x).pair = x
       /\ Resolving(i, x).reject = (i = 1)
       /\ \A f \in Promise : Resolving(i, x) # Resume(f)
  /\ \A f \in Promise :
       Resume(f) \in Handler \ {None, User} /\ Resume(f).is = "resume" /\ Resume(f).of = f
  /\ \A h \in Handler \ {None, User} :
       \/ h.is = "resolving" /\ \E i \in {0, 1}, x \in Pair : h = Resolving(i, x)
       \/ h.is = "resume" /\ \E f \in Promise : h = Resume(f)
<1>1. \A i \in {0, 1}, x \in Pair :
       /\ Resolving(i, x) \in Handler \ {None, User}
       /\ Resolving(i, x).is = "resolving" /\ Resolving(i, x).pair = x
       /\ Resolving(i, x).reject = (i = 1)
  BY PromiseAssumption DEF Handler, Resolving
<1>2. \A f \in Promise :
       Resume(f) \in Handler \ {None, User} /\ Resume(f).is = "resume" /\ Resume(f).of = f
  BY PromiseAssumption DEF Handler, Resume
<1>3. \A i \in {0, 1}, x \in Pair, f \in Promise : Resolving(i, x) # Resume(f)
  BY <1>1, <1>2
<1>4. \A h \in Handler \ {None, User} :
       \/ \E i \in {0, 1}, x \in Pair : h = Resolving(i, x)
       \/ \E f \in Promise : h = Resume(f)
  BY DEF Handler
<1>5. None \in Handler /\ User \in Handler /\ None # User
  BY PromiseAssumption DEF Handler
<1> QED
  BY <1>1, <1>2, <1>3, <1>4, <1>5

LEMMA JobKinds ==
  ASSUME NEW e \in Job
  PROVE  \/ /\ e.is = "reaction" /\ e.cap \in Pair \cup {None} /\ e.handler \in Handler
            /\ e.arg \in Result /\ e.reject \in BOOLEAN
         \/ e.is = "thenable" /\ e.of \in Promise /\ e.thenable \in Promise \cup {Object}
  BY DEF Job

LEMMA FrameKinds ==
  ASSUME NEW fr \in Frame
  PROVE  \/ fr.at \in CodeFrames \ {"getter"} /\ fr.of \in Pair \cup {None}
         \/ fr.at = "getter" /\ fr.promise \in Promise /\ fr = Getter(fr.promise)
         \/ fr.at = "call" /\ fr.pair \in Pair /\ fr.arg \in Result /\ fr.reject \in BOOLEAN
         \/ fr.at = "await" /\ fr.of \in Promise /\ fr.on \in Promise
  BY DEF Frame, Getter

LEMMA NewFrames ==
  /\ \A k \in CodeFrames \ {"getter"}, c \in Pair \cup {None} :
       Code(k, c) \in Frame /\ Code(k, c).at = k /\ Code(k, c).of = c
  /\ \A x \in Pair, v \in Result, r \in BOOLEAN :
       Call(x, v, r) \in Frame /\ Call(x, v, r).at = "call" /\ Call(x, v, r).pair = x
       /\ Call(x, v, r).arg = v /\ Call(x, v, r).reject = r
  /\ \A f, q \in Promise :
       Awaiting(f, q) \in Frame /\ Awaiting(f, q).at = "await"
       /\ Awaiting(f, q).of = f /\ Awaiting(f, q).on = q
  /\ \A p \in Promise : Getter(p) \in Frame /\ Getter(p).at = "getter" /\ Getter(p).promise = p
  BY DEF Frame, Code, Call, Awaiting, Getter

LEMMA NewJobs ==
  /\ \A cap \in Pair \cup {None}, on \in Handler \X Handler, v \in Result, r \in BOOLEAN :
       LET e == Reaction([cap |-> cap, on |-> on], v, r)
       IN  /\ e \in Job /\ e.is = "reaction" /\ e.cap = cap /\ e.arg = v /\ e.reject = r
           /\ e.handler = IF r THEN on[2] ELSE on[1]
  /\ \A p \in Promise, v \in Promise \cup {Object} :
       LET e == Thenable(p, v)
       IN  e \in Job /\ e.is = "thenable" /\ e.of = p /\ e.thenable = v
  BY DEF Job, Reaction, Thenable
-----------------------------------------------------------------------------
(* Sequences of frames and of jobs.                                        *)
LEMMA Popped ==
  ASSUME NEW s \in Seq(Frame), s # <<>>
  PROVE  /\ Len(s) \in Nat \ {0} /\ s[Len(s)] \in Frame
         /\ SubSeq(s, 1, Len(s) - 1) \in Seq(Frame)
         /\ Len(SubSeq(s, 1, Len(s) - 1)) = Len(s) - 1
         /\ \A i \in 1 .. Len(s) - 1 : SubSeq(s, 1, Len(s) - 1)[i] = s[i]
<1> DEFINE n == Len(s)
           pop == SubSeq(s, 1, n - 1)
<1>1. n \in Nat \ {0} /\ \A i \in 1 .. n : s[i] \in Frame
  BY EmptySeq, ElementOfSeq
<1>2. /\ pop \in Seq(Frame) /\ Len(pop) = IF 1 <= n - 1 THEN (n - 1) - 1 + 1 ELSE 0
      /\ \A i \in 1 .. (n - 1) - 1 + 1 : pop[i] = s[1 + i - 1]
  <2> HIDE DEF n
  <2> QED
    BY <1>1, SubSeqProperties
<1> HIDE DEF n, pop
<1>3. Len(pop) = n - 1 /\ \A i \in 1 .. n - 1 : pop[i] = s[i]
  BY <1>1, <1>2
<1> QED
  BY <1>1, <1>2, <1>3 DEF n, pop

LEMMA TwoFrames ==
  ASSUME NEW fr \in Frame, NEW g \in Frame
  PROVE  <<fr, g>> \in Seq(Frame) /\ Len(<<fr, g>>) = 2 /\ <<fr, g>>[1] = fr /\ <<fr, g>>[2] = g
<1> DEFINE F == {fr, g}
<1>1. <<fr, g>> \in Seq(F) /\ F \subseteq Frame
  OBVIOUS
<1> HIDE DEF F
<1> QED
  BY <1>1, SeqMonotonic

(* t is what remains of s after its first n frames, and then frames of F.  *)
Over(s, n, t, F) ==
  /\ t \in Seq(Frame) /\ n \in 0 .. Len(s) /\ n <= Len(t)
  /\ \A i \in 1 .. n : t[i] = s[i]
  /\ \A i \in n + 1 .. Len(t) : t[i] \in F

LEMMA Pushed ==
  ASSUME NEW s \in Seq(Frame), NEW fr \in Frame
  PROVE  /\ Over(s, Len(s), s, {})
         /\ Over(s, Len(s), Append(s, fr), {fr}) /\ Len(Append(s, fr)) = Len(s) + 1
         /\ Append(s, fr)[Len(s) + 1] = fr
  BY DEF Over

LEMMA Replaced ==
  ASSUME NEW s \in Seq(Frame), s # <<>>, NEW fr \in Frame, NEW g \in Frame
  PROVE  LET pop == SubSeq(s, 1, Len(s) - 1) IN
         /\ Over(s, Len(s) - 1, pop, {}) /\ Len(pop) = Len(s) - 1
         /\ Over(s, Len(s) - 1, Append(pop, fr), {fr}) /\ Len(Append(pop, fr)) = Len(s)
         /\ Append(pop, fr)[Len(s)] = fr
         /\ Over(s, Len(s) - 1, pop \o <<fr, g>>, {fr, g}) /\ Len(pop \o <<fr, g>>) = Len(s) + 1
         /\ (pop \o <<fr, g>>)[Len(s)] = fr /\ (pop \o <<fr, g>>)[Len(s) + 1] = g
<1> DEFINE pop == SubSeq(s, 1, Len(s) - 1)
<1>1. /\ Len(s) \in Nat \ {0} /\ pop \in Seq(Frame) /\ Len(pop) = Len(s) - 1
      /\ \A i \in 1 .. Len(s) - 1 : pop[i] = s[i]
  BY Popped
<1> DEFINE two == <<fr, g>>
<1>2. two \in Seq(Frame) /\ Len(two) = 2 /\ two[1] = fr /\ two[2] = g
  BY TwoFrames
<1> HIDE DEF pop, two
<1>3. Over(s, Len(s) - 1, pop, {}) /\ Len(pop) = Len(s) - 1
  BY <1>1 DEF Over
<1>4. /\ Over(s, Len(s) - 1, Append(pop, fr), {fr}) /\ Len(Append(pop, fr)) = Len(s)
      /\ Append(pop, fr)[Len(s)] = fr
  BY <1>1 DEF Over
<1>5. /\ pop \o two \in Seq(Frame) /\ Len(pop \o two) = Len(s) + 1
      /\ \A i \in 1 .. Len(s) - 1 : (pop \o two)[i] = s[i]
      /\ (pop \o two)[Len(s)] = fr /\ (pop \o two)[Len(s) + 1] = g
  <2> DEFINE n == Len(s)
             t == pop \o two
  <2>1. /\ t \in Seq(Frame) /\ Len(t) = Len(pop) + Len(two)
        /\ \A i \in 1 .. Len(pop) + Len(two) : t[i] = IF i <= Len(pop) THEN pop[i] ELSE two[i - Len(pop)]
    BY <1>1, <1>2, ConcatProperties
  <2>2. n \in Nat \ {0} /\ Len(pop) = n - 1 /\ Len(two) = 2
    BY <1>1, <1>2
  <2> HIDE DEF n, t
  <2>3. Len(t) = n + 1 /\ t[n] = two[1] /\ t[n + 1] = two[2]
    BY <2>1, <2>2
  <2>4. \A i \in 1 .. n - 1 : t[i] = pop[i]
    BY <2>1, <2>2
  <2> QED
    BY <1>1, <1>2, <2>1, <2>3, <2>4 DEF n, t
<1>6. Over(s, Len(s) - 1, pop \o two, {fr, g})
  BY <1>1, <1>5 DEF Over
<1> QED
  BY <1>3, <1>4, <1>5, <1>6 DEF pop, two

ByTwo(s, fr, g) == SubSeq(s, 1, Len(s) - 1) \o <<fr, g>>

LEMMA ReplacedByTwo ==
  ASSUME NEW s \in Seq(Frame), s # <<>>, NEW fr \in Frame, NEW g \in Frame, NEW F, fr \in F, g \in F
  PROVE  /\ Over(s, Len(s) - 1, ByTwo(s, fr, g), F) /\ Len(ByTwo(s, fr, g)) = Len(s) + 1
         /\ ByTwo(s, fr, g)[Len(s)] = fr /\ ByTwo(s, fr, g)[Len(s) + 1] = g
<1>1. /\ Over(s, Len(s) - 1, ByTwo(s, fr, g), {fr, g}) /\ Len(ByTwo(s, fr, g)) = Len(s) + 1
      /\ ByTwo(s, fr, g)[Len(s)] = fr /\ ByTwo(s, fr, g)[Len(s) + 1] = g
  BY Replaced, Zenon DEF ByTwo
<1> QED
  BY <1>1 DEF Over

LEMMA Capability ==
  ASSUME NEW s \in Seq(Frame), NEW cap \in Pair \cup {None}, NEW v \in Result, NEW r \in BOOLEAN
  PROVE  \/ cap = None /\ CallCap(s, cap, v, r) = s
         \/ cap \in Pair /\ CallCap(s, cap, v, r) = Append(s, Call(cap, v, r))
  BY PromiseAssumption DEF CallCap

(* What JS_EnqueueJob leaves of one job, and of several.                   *)
LEMMA EnqueuedOne ==
  ASSUME NEW q \in Seq(Job), NEW e \in Job, failed \in BOOLEAN, Enqueue(q, <<e>>)
  PROVE  \/ jobs' = Append(q, e) /\ failed' = failed
         \/ jobs' = q /\ failed' = TRUE
<1> DEFINE one == <<e>>
<1>1. one \in Seq(Job) /\ Len(one) = 1 /\ one[1] = e /\ q \o one = Append(q, e)
  OBVIOUS
<1>2. PICK part \in IF MayFail THEN Parts(one) ELSE {one} :
        jobs' = q \o part /\ failed' = (failed \/ part # one)
  BY DEF Enqueue
<1> HIDE DEF one
<1>3. CASE part = one
  BY <1>1, <1>2, <1>3
<1>4. CASE part \in Parts(one) /\ part # one
  <2>0. PICK k \in 0 .. Len(one) : \E g \in [1 .. k -> DOMAIN one] :
            part = [i \in 1 .. k |-> one[g[i]]]
    BY <1>4 DEF Parts
  <2>1. PICK g \in [1 .. k -> DOMAIN one] : part = [i \in 1 .. k |-> one[g[i]]]
    BY <2>0
  <2>2. k = 0
    <3>1. CASE k = 1
      <4>1. part \in Seq(Job) /\ Len(part) = 1 /\ part[1] = one[1]
        BY <1>1, <2>1, <3>1
      <4> QED
        BY <1>1, <1>4, <4>1
    <3> QED
      BY <1>1, <3>1
  <2>3. q \o part = q
    BY <2>1, <2>2
  <2> QED
    BY <1>2, <1>4, <2>3
<1> QED
  BY <1>2, <1>3, <1>4

LEMMA Enqueued ==
  ASSUME NEW q \in Seq(Job), NEW new \in Seq(Job), failed \in BOOLEAN, Enqueue(q, new)
  PROVE  \E part \in Seq(Job) :
           /\ jobs' = q \o part /\ failed' \in BOOLEAN
           /\ failed => failed'
           /\ ~failed' => part = new
           /\ \E g \in [1 .. Len(part) -> 1 .. Len(new)] :
                /\ \A i, j \in 1 .. Len(part) : i < j => g[i] < g[j]
                /\ \A i \in 1 .. Len(part) : part[i] = new[g[i]]
<1>1. PICK part \in IF MayFail THEN Parts(new) ELSE {new} :
        jobs' = q \o part /\ failed' = (failed \/ part # new)
  BY DEF Enqueue
<1>2. part \in Seq(Job) /\ \E g \in [1 .. Len(part) -> 1 .. Len(new)] :
                /\ \A i, j \in 1 .. Len(part) : i < j => g[i] < g[j]
                /\ \A i \in 1 .. Len(part) : part[i] = new[g[i]]
  <2>1. CASE part = new
    <3> DEFINE g == [i \in 1 .. Len(new) |-> i]
    <3>1. /\ g \in [1 .. Len(new) -> 1 .. Len(new)]
          /\ \A i, j \in 1 .. Len(new) : i < j => g[i] < g[j]
          /\ \A i \in 1 .. Len(new) : new[i] = new[g[i]]
      OBVIOUS
    <3> QED
      BY <2>1, <3>1
  <2>2. CASE part \in Parts(new)
    <3>0. PICK k \in 0 .. Len(new) : \E g \in [1 .. k -> DOMAIN new] :
            /\ \A i, j \in 1 .. k : i < j => g[i] < g[j]
            /\ part = [i \in 1 .. k |-> new[g[i]]]
      BY <2>2 DEF Parts
    <3>1. PICK g \in [1 .. k -> DOMAIN new] :
            /\ \A i, j \in 1 .. k : i < j => g[i] < g[j]
            /\ part = [i \in 1 .. k |-> new[g[i]]]
      BY <3>0
    <3>2. part \in [1 .. k -> Job] /\ DOMAIN new = 1 .. Len(new)
      BY <3>1
    <3>3. part \in Seq(Job) /\ Len(part) = k
      BY <3>1, <3>2
    <3> QED
      BY <3>1, <3>2, <3>3
  <2> QED
    BY <1>1, <2>1, <2>2
<1> QED
  BY <1>1, <1>2
-----------------------------------------------------------------------------
(* What was made stays made.                                               *)
Grown(m, a, m2, a2) ==
  /\ m \in [Promise -> Nat] /\ m2 \in [Promise -> Nat]
  /\ \A p \in Promise : m[p] <= m2[p]
  /\ \A f \in Promise : a[f] # None => a2[f] # None

ReactionRecord == [cap : Pair \cup {None}, on : Handler \X Handler]

LEMMA StaySound ==
  ASSUME NEW m, NEW a, NEW m2, NEW a2, Grown(m, a, m2, a2)
  PROVE  /\ \A x \in Pair : PairMade(m, x) => PairMade(m2, x)
         /\ \A rd \in ReactionRecord : ReactionSound(m, a, rd) => ReactionSound(m2, a2, rd)
         /\ \A e \in Job : JobSound(m, a, e) => JobSound(m2, a2, e)
         /\ \A fr \in Frame : FrameSound(m, fr) => FrameSound(m2, fr)
<1>1. \A x \in Pair : PairMade(m, x) => PairMade(m2, x)
  BY PairParts DEF Grown, PairMade
<1>2. \A c \in Pair \cup {None} : CapMade(m, c) => CapMade(m2, c)
  BY <1>1 DEF CapMade
<1>3. \A h \in Handler : HandlerMade(m, a, h) => HandlerMade(m2, a2, h)
  BY <1>1 DEF HandlerMade, Grown
<1>4. \A v \in Result : ValueMade(m, v) => ValueMade(m2, v)
  BY DEF Grown, ValueMade
<1>5. \A rd \in ReactionRecord : ReactionSound(m, a, rd) => ReactionSound(m2, a2, rd)
  BY <1>2, <1>3 DEF ReactionRecord, ReactionSound
<1>6. \A e \in Job : JobSound(m, a, e) => JobSound(m2, a2, e)
  BY <1>2, <1>3, <1>4, JobKinds DEF JobSound, Result
<1>7. \A fr \in Frame : FrameSound(m, fr) => FrameSound(m2, fr)
  BY <1>1, <1>2, <1>4, FrameKinds DEF FrameSound, Grown, CodeFrames
<1> QED
  BY <1>1, <1>5, <1>6, <1>7

-----------------------------------------------------------------------------
(* The queue: jobs of reactions put at its end are no way to settle.       *)
LEMMA QueueExtended ==
  ASSUME NEW q \in Seq(Job), NEW part \in Seq(Job),
         \A i \in DOMAIN part : part[i].is = "reaction"
  PROVE  \A p, i : ByJob(q \o part, p, i) <=> ByJob(q, p, i)
<1>1. /\ Len(q) \in Nat /\ Len(part) \in Nat /\ Len(q \o part) = Len(q) + Len(part)
      /\ DOMAIN q = 1 .. Len(q) /\ DOMAIN part = 1 .. Len(part)
      /\ DOMAIN (q \o part) = 1 .. Len(q) + Len(part)
      /\ \A i \in 1 .. Len(q) + Len(part) :
           (q \o part)[i] = IF i <= Len(q) THEN q[i] ELSE part[i - Len(q)]
  BY ConcatProperties, LenProperties
<1> DEFINE l == Len(q)
           k == Len(part)
           t == q \o part
<1> HIDE DEF l, k, t
<1>2. \A i \in 1 .. l : t[i] = q[i] /\ i \in 1 .. l + k
  BY <1>1 DEF l, k, t
<1>3. \A i \in 1 .. l + k : i \notin 1 .. l => i - l \in 1 .. k /\ t[i] = part[i - l]
  BY <1>1 DEF l, k, t
<1> QED
  BY <1>1, <1>2, <1>3 DEF ByJob, l, k, t

LEMMA QueueAppended ==
  ASSUME NEW q \in Seq(Job), NEW e \in Job
  PROVE  /\ Append(q, e) \in Seq(Job) /\ DOMAIN Append(q, e) = 1 .. Len(q) + 1
         /\ DOMAIN q = 1 .. Len(q) /\ Len(q) \in Nat
         /\ Append(q, e)[Len(q) + 1] = e
         /\ \A i \in DOMAIN q : Append(q, e)[i] = q[i]
         /\ \A p, i : ByJob(Append(q, e), p, i) <=>
              \/ ByJob(q, p, i)
              \/ i = Len(q) + 1 /\ e.is = "thenable" /\ e.of = p
<1>1. /\ Len(q) \in Nat /\ DOMAIN q = 1 .. Len(q) /\ Append(q, e) \in Seq(Job)
      /\ DOMAIN Append(q, e) = 1 .. Len(q) + 1
      /\ Append(q, e)[Len(q) + 1] = e
      /\ \A i \in 1 .. Len(q) : Append(q, e)[i] = q[i]
  BY AppendProperties, LenProperties
<1> DEFINE l == Len(q)
           t == Append(q, e)
<1> HIDE DEF l, t
<1>2. \A i : i \in DOMAIN t <=> i \in DOMAIN q \/ i = l + 1
  BY <1>1 DEF l, t
<1>3. l + 1 \notin DOMAIN q
  BY <1>1 DEF l, t
<1>4. \A p, i : ByJob(t, p, i) <=> ByJob(q, p, i) \/ (i = l + 1 /\ e.is = "thenable" /\ e.of = p)
  BY <1>1, <1>2, <1>3 DEF ByJob, l, t
<1> QED
  BY <1>1, <1>4 DEF l, t

(* Without its first job every other is one place further on.              *)
LEMMA QueueServed ==
  ASSUME NEW q \in Seq(Job), q # <<>>
  PROVE  /\ Head(q) \in Job /\ Head(q) = q[1] /\ 1 \in DOMAIN q
         /\ Tail(q) \in Seq(Job)
         /\ \A i \in DOMAIN Tail(q) : i \in Nat /\ i + 1 \in DOMAIN q /\ Tail(q)[i] = q[i + 1]
         /\ \A i \in DOMAIN q : i # 1 => i - 1 \in DOMAIN Tail(q) /\ i - 1 \in Nat
         /\ \A p, i : ByJob(Tail(q), p, i) => i \in Nat /\ ByJob(q, p, i + 1)
         /\ \A p, i : ByJob(q, p, i) /\ i # 1 => i - 1 \in Nat /\ ByJob(Tail(q), p, i - 1)
<1> DEFINE l == Len(q)
           t == Tail(q)
<1>1. /\ l \in Nat \ {0} /\ DOMAIN q = 1 .. l /\ Head(q) = q[1] /\ Head(q) \in Job
      /\ t \in Seq(Job) /\ Len(t) = l - 1 /\ DOMAIN t = 1 .. Len(t)
      /\ \A i \in 1 .. Len(t) : t[i] = q[i + 1]
  BY EmptySeq, LenProperties, HeadTailProperties DEF Head
<1> HIDE DEF l, t
<1>2. \A i \in DOMAIN t : i \in Nat /\ i + 1 \in DOMAIN q /\ t[i] = q[i + 1]
  BY <1>1
<1>3. \A i \in DOMAIN q : i # 1 => i - 1 \in DOMAIN t /\ i - 1 \in Nat /\ t[i - 1] = q[i]
  BY <1>1
<1>4. 1 \in DOMAIN q
  BY <1>1
<1> QED
  BY <1>1, <1>2, <1>3, <1>4 DEF ByJob, t

LEMMA GettersKept ==
  ASSUME NEW s \in Seq(Frame), NEW n, NEW t, NEW F, Over(s, n, t, F),
         \A i \in n + 1 .. Len(s) : s[i].at # "getter", \A fr \in F : fr.at # "getter"
  PROVE  \A p, i : ByGetter(t, p, i) <=> ByGetter(s, p, i)
<1>1. /\ Len(s) \in Nat /\ Len(t) \in Nat /\ DOMAIN s = 1 .. Len(s) /\ DOMAIN t = 1 .. Len(t)
      /\ n \in Nat /\ n <= Len(s) /\ n <= Len(t)
  BY LenProperties DEF Over
<1>2. \A i \in DOMAIN t : (i \in 1 .. n /\ i \in DOMAIN s /\ t[i] = s[i]) \/ i \in n + 1 .. Len(t)
  BY <1>1 DEF Over
<1>3. \A i \in DOMAIN s : (i \in 1 .. n /\ i \in DOMAIN t /\ t[i] = s[i]) \/ i \in n + 1 .. Len(s)
  BY <1>1 DEF Over
<1> QED
  BY <1>2, <1>3 DEF ByGetter, Over

LEMMA StackSound ==
  ASSUME NEW s \in Seq(Frame), NEW n, NEW t, NEW F, Over(s, n, t, F), F \subseteq Frame,
         NEW m, NEW a, NEW m2, NEW a2, Grown(m, a, m2, a2),
         \A i \in DOMAIN s : FrameSound(m, s[i]) /\ FrameFits(m2, s[i]),
         \A fr \in F : FrameSound(m2, fr) /\ FrameFits(m2, fr)
  PROVE  \A i \in DOMAIN t : FrameSound(m2, t[i]) /\ FrameFits(m2, t[i])
<1>1. /\ Len(s) \in Nat /\ Len(t) \in Nat /\ DOMAIN s = 1 .. Len(s) /\ DOMAIN t = 1 .. Len(t)
      /\ n \in Nat /\ n <= Len(s) /\ n <= Len(t) /\ \A i \in DOMAIN s : s[i] \in Frame
  BY LenProperties, ElementOfSeq DEF Over
<1>2. \A i \in DOMAIN t : (i \in DOMAIN s /\ t[i] = s[i]) \/ t[i] \in F
  <2>1. \A i \in DOMAIN t : i \in 1 .. n \/ i \in n + 1 .. Len(t)
    BY <1>1
  <2>2. \A i \in 1 .. n : i \in DOMAIN s /\ t[i] = s[i]
    BY <1>1 DEF Over
  <2> QED
    BY <2>1, <2>2 DEF Over
<1> QED
  BY <1>1, <1>2, StaySound

-----------------------------------------------------------------------------
(* What was promised before a step is kept when the step at most creates a *)
(* promise, and the jobs and getters are those there were.                 *)
Stays == \/ state' = state /\ made' = made
         \/ \E q \in Promise : Create(q)

SameWays(js, s) ==
  \A p \in Promise, n \in Nat :
    (ByJob(js, p, n) <=> ByJob(jobs, p, n)) /\ (ByGetter(s, p, n) <=> ByGetter(stack, p, n))

LEMMA Created ==
  ASSUME PromiseInv, NEW q \in Promise, Create(q)
  PROVE  /\ state[q] = "none" /\ made[q] = 0
         /\ state' = [state EXCEPT ![q] = "pending"] /\ made' = [made EXCEPT ![q] = 1]
         /\ state' \in [Promise -> {"none", "pending", "fulfilled", "rejected"}]
         /\ made' \in [Promise -> 0 .. MaxPairs]
         /\ \A x \in used \cup given : x[1] # q
         /\ \A i \in DOMAIN jobs : jobs[i].is = "thenable" => jobs[i].of # q
<1>0. /\ state \in [Promise -> {"none", "pending", "fulfilled", "rejected"}]
      /\ made \in [Promise -> 0 .. MaxPairs] /\ MaxPairs \in Nat \ {0} /\ jobs \in Seq(Job)
      /\ used \subseteq Pair /\ given \subseteq Pair
  BY PromiseAssumption DEF PromiseInv, TypeOK
<1>1. state[q] = "none" /\ made[q] = 0
  BY DEF PromiseInv, Sound, Create, Fresh
<1>2. /\ state' = [state EXCEPT ![q] = "pending"] /\ made' = [made EXCEPT ![q] = 1]
      /\ state' \in [Promise -> {"none", "pending", "fulfilled", "rejected"}]
      /\ made' \in [Promise -> 0 .. MaxPairs]
  BY <1>0 DEF Create
<1>3. \A x \in used \cup given : x[1] # q
  BY <1>0, <1>1, PairParts DEF PromiseInv, Sound, PairMade
<1>4. \A i \in DOMAIN jobs : jobs[i].is = "thenable" => jobs[i].of # q
  <2>1. WayOf(state, made, used, jobs, stack, failed, q) /\ \A i \in DOMAIN jobs : i \in Nat
    BY <1>0, LenProperties DEF PromiseInv, OneWay
  <2> QED
    BY <1>1, <2>1 DEF WayOf, NoWay, ByJob
<1> QED
  BY <1>1, <1>2, <1>3, <1>4

LEMMA Stayed ==
  ASSUME PromiseInv, Stays
  PROVE  /\ state' \in [Promise -> {"none", "pending", "fulfilled", "rejected"}]
         /\ made' \in [Promise -> 0 .. MaxPairs]
         /\ \A p \in Promise : made[p] <= made'[p]
         /\ \A p \in Promise : state'[p] = "none" <=> made'[p] = 0
         /\ \A p \in Promise : state[p] # "none" => state'[p] = state[p]
         /\ \A p \in Promise : state'[p] = "fulfilled" => state[p] = "fulfilled"
         /\ \A i \in DOMAIN jobs : JobFits(made', jobs[i])
         /\ \A i \in DOMAIN stack : FrameFits(made', stack[i])
         /\ \A js, s : SameWays(js, s) =>
              \A fl \in BOOLEAN : (failed => fl) =>
                \A p \in Promise : WayOf(state', made', used, js, s, fl, p)
<1>0. /\ state \in [Promise -> {"none", "pending", "fulfilled", "rejected"}]
      /\ made \in [Promise -> 0 .. MaxPairs] /\ used \subseteq Pair
      /\ jobs \in Seq(Job) /\ stack \in Seq(Frame) /\ failed \in BOOLEAN
      /\ MaxPairs \in Nat \ {0}
  BY PromiseAssumption DEF PromiseInv, TypeOK
<1>1. CASE state' = state /\ made' = made
  <2>1. \A js, s : SameWays(js, s) =>
              \A fl \in BOOLEAN : (failed => fl) =>
                \A p \in Promise : WayOf(state, made, used, js, s, fl, p)
    <3> SUFFICES ASSUME NEW js, NEW s, SameWays(js, s), NEW fl \in BOOLEAN, failed => fl,
                        NEW p \in Promise
                 PROVE  WayOf(state, made, used, js, s, fl, p)
      OBVIOUS
    <3>1. WayOf(state, made, used, jobs, stack, failed, p)
      BY DEF PromiseInv, OneWay
    <3> QED
      BY <3>1 DEF WayOf, NoWay, SomeWay, NotTwoWays, SameWays
  <2>2. \A i \in DOMAIN stack : FrameFits(made, stack[i])
    BY DEF PromiseInv, RoomKept
  <2>3. \A i \in DOMAIN jobs : JobFits(made, jobs[i])
    BY DEF PromiseInv, RoomKept
  <2>4. \A p \in Promise : made[p] <= made[p] /\ (state[p] = "none" <=> made[p] = 0)
    BY <1>0 DEF PromiseInv, Sound
  <2> QED
    BY <1>0, <1>1, <2>1, <2>2, <2>3, <2>4
<1>2. ASSUME NEW q \in Promise, Create(q)
      PROVE  /\ \A p \in Promise : made[p] <= made'[p]
             /\ \A p \in Promise : state'[p] = "none" <=> made'[p] = 0
             /\ \A p \in Promise : state[p] # "none" => state'[p] = state[p]
             /\ \A p \in Promise : state'[p] = "fulfilled" => state[p] = "fulfilled"
             /\ \A i \in DOMAIN jobs : JobFits(made', jobs[i])
             /\ \A i \in DOMAIN stack : FrameFits(made', stack[i])
             /\ \A js, s : SameWays(js, s) =>
                  \A fl \in BOOLEAN : (failed => fl) =>
                    \A p \in Promise : WayOf(state', made', used, js, s, fl, p)
  <2>1. /\ state[q] = "none" /\ made[q] = 0
        /\ state' = [state EXCEPT ![q] = "pending"] /\ made' = [made EXCEPT ![q] = 1]
        /\ \A x \in used \cup given : x[1] # q
        /\ \A i \in DOMAIN jobs : jobs[i].is = "thenable" => jobs[i].of # q
    BY <1>2, Created
  <2>2. \A p \in Promise : made[p] <= made'[p] /\ (state'[p] = "none" <=> made'[p] = 0)
    BY <1>0, <2>1 DEF PromiseInv, Sound
  <2>3. \A p \in Promise : /\ state[p] # "none" => state'[p] = state[p]
                           /\ state'[p] = "fulfilled" => state[p] = "fulfilled"
    BY <1>0, <2>1
  <2>4. \A i \in DOMAIN jobs : JobFits(made', jobs[i])
    <3> SUFFICES ASSUME NEW i \in DOMAIN jobs, jobs[i].is = "thenable"
                 PROVE  made'[jobs[i].of] < MaxPairs
      BY DEF JobFits
    <3>1. jobs[i].of \in Promise
      BY <1>0, JobKinds, ElementOfSeq, LenProperties
    <3>2. made[jobs[i].of] < MaxPairs
      BY DEF PromiseInv, RoomKept, JobFits
    <3> QED
      BY <1>0, <2>1, <3>1, <3>2
  <2>5. \A i \in DOMAIN stack : FrameFits(made', stack[i])
    <3> SUFFICES ASSUME NEW i \in DOMAIN stack, stack[i].at = "call", ~stack[i].reject,
                        stack[i].arg \in Promise
                 PROVE  made'[stack[i].pair[1]] < MaxPairs
      BY DEF FrameFits
    <3>1. stack[i] \in Frame
      BY <1>0, ElementOfSeq, LenProperties
    <3>2. stack[i].pair[1] \in Promise /\ stack[i].pair[2] \in Nat
      BY <3>1, FrameKinds, PairParts DEF CodeFrames
    <3>3. made[stack[i].pair[1]] < MaxPairs /\ stack[i].pair[2] < made[stack[i].pair[1]]
      BY DEF PromiseInv, RoomKept, FrameFits, Sound, FrameSound, PairMade
    <3> QED
      BY <1>0, <2>1, <3>2, <3>3
  <2>6. ASSUME NEW js, NEW s, SameWays(js, s), NEW fl \in BOOLEAN, failed => fl, NEW p \in Promise
        PROVE  WayOf(state', made', used, js, s, fl, p)
    <3>1. WayOf(state, made, used, jobs, stack, failed, p)
      BY DEF PromiseInv, OneWay
    <3>2. CASE p = q
      <4>1. state'[q] = "pending" /\ made'[q] = 1
        BY <1>0, <2>1
      <4>2. \A n \in Nat : ByPair(made', used, q, n) <=> n = 0
        BY <2>1, <4>1, PairParts DEF ByPair
      <4>3. \A n \in Nat : ~ByJob(js, q, n) /\ ~ByGetter(s, q, n)
        BY <2>1, <2>6, <3>1, <3>2 DEF WayOf, NoWay, SameWays
      <4> QED
        BY <3>2, <4>1, <4>2, <4>3 DEF WayOf, SomeWay, NotTwoWays
    <3>3. CASE p # q
      <4>1. state'[p] = state[p] /\ made'[p] = made[p]
        BY <1>0, <2>1, <3>3
      <4> QED
        BY <2>6, <3>1, <4>1 DEF WayOf, NoWay, SomeWay, NotTwoWays, SameWays, ByPair
    <3> QED
      BY <3>2, <3>3
  <2> QED
    BY <2>2, <2>3, <2>4, <2>5, <2>6
<1>3. ASSUME NEW q \in Promise, Create(q)
      PROVE  /\ state' \in [Promise -> {"none", "pending", "fulfilled", "rejected"}]
             /\ made' \in [Promise -> 0 .. MaxPairs]
  BY <1>3, Created
<1> QED
  BY <1>1, <1>2, <1>3 DEF Stays
-----------------------------------------------------------------------------
(* The operations: what a reaction becomes, what then() leaves behind.     *)
LEMMA ReactionJob ==
  ASSUME NEW rd \in ReactionRecord, NEW m, NEW a, ReactionSound(m, a, rd),
         NEW v \in Result, NEW r \in BOOLEAN, ~r => v \in {Prim, Object}
  PROVE  LET e == Reaction(rd, v, r) IN
         /\ e \in Job /\ e.is = "reaction" /\ JobSound(m, a, e)
         /\ e.handler = IF r THEN rd.on[2] ELSE rd.on[1]
<1> DEFINE e == Reaction(rd, v, r)
<1>1. /\ e \in Job /\ e.is = "reaction" /\ e.cap = rd.cap /\ e.arg = v /\ e.reject = r
      /\ e.handler = IF r THEN rd.on[2] ELSE rd.on[1]
  BY DEF Reaction, ReactionRecord, Job
<1> HIDE DEF e
<1>2. CapMade(m, e.cap) /\ HandlerMade(m, a, e.handler)
  BY <1>1 DEF ReactionSound
<1>3. \A x \in Pair : /\ e.handler = Resolving(0, x) => ~e.reject
                      /\ e.handler = Resolving(1, x) => e.reject
  BY <1>1 DEF ReactionSound
<1>4. JobSound(m, a, e)
  BY <1>1, <1>2, <1>3 DEF JobSound
<1> QED
  BY <1>1, <1>4 DEF e

(* Reactions and jobs are those there were, and new ones that are sound.   *)
ReactionsFrom(m, a, rs, rs2) ==
  \A p \in Promise : \A i \in DOMAIN rs2[p] :
    \/ i \in DOMAIN rs[p] /\ rs2[p][i] = rs[p][i]
    \/ ReactionSound(m, a, rs2[p][i])
JobsFrom(m, a, q, js) ==
  \A i \in DOMAIN js : \/ \E k \in DOMAIN q : js[i] = q[k]
                       \/ js[i].is = "reaction" /\ JobSound(m, a, js[i])
SameJobWays(js, q) == \A p, i : ByJob(js, p, i) <=> ByJob(q, p, i)

LEMMA Performed ==
  ASSUME PromiseInv, NEW p \in Promise, state[p] # "none", NEW q \in Seq(Job),
         NEW rd \in ReactionRecord, ReactionSound(made', async', rd),
         perform_promise_then(p, rd.cap, rd.on[1], rd.on[2], q)
  PROVE  /\ reactions' \in [Promise -> Seq(ReactionRecord)] /\ jobs' \in Seq(Job)
         /\ failed' \in BOOLEAN /\ (failed => failed')
         /\ ReactionsFrom(made', async', reactions, reactions')
         /\ JobsFrom(made', async', q, jobs') /\ SameJobWays(jobs', q)
         /\ \/ /\ reactions' = [reactions EXCEPT ![p] = Append(@, rd)]
               /\ jobs' = q /\ failed' = failed /\ state[p] = "pending"
            \/ /\ reactions' = reactions /\ failed' = failed /\ state[p] # "pending"
               /\ \E e \in Job : /\ jobs' = Append(q, e) /\ e.is = "reaction"
                                 /\ e.handler \in {rd.on[1], rd.on[2]}
            \/ reactions' = reactions /\ jobs' = q /\ failed' = TRUE
<1>0. /\ reactions \in [Promise -> Seq(ReactionRecord)] /\ failed \in BOOLEAN
      /\ state \in [Promise -> {"none", "pending", "fulfilled", "rejected"}]
      /\ result \in [Promise -> Result]
  BY DEF PromiseInv, TypeOK, ReactionRecord
<1>1. rd = [cap |-> rd.cap, on |-> <<rd.on[1], rd.on[2]>>]
  BY DEF ReactionRecord
<1>2. CASE state[p] = "pending"
  <2>1. /\ reactions' = [reactions EXCEPT ![p] = Append(@, rd)]
        /\ jobs' = q /\ failed' = failed
    BY <1>1, <1>2 DEF perform_promise_then
  <2>2. /\ Append(reactions[p], rd) \in Seq(ReactionRecord)
        /\ DOMAIN reactions[p] = 1 .. Len(reactions[p]) /\ Len(reactions[p]) \in Nat
        /\ DOMAIN Append(reactions[p], rd) = 1 .. Len(reactions[p]) + 1
        /\ Append(reactions[p], rd)[Len(reactions[p]) + 1] = rd
        /\ \A i \in 1 .. Len(reactions[p]) : Append(reactions[p], rd)[i] = reactions[p][i]
    BY <1>0, AppendProperties, LenProperties
  <2>3. reactions' \in [Promise -> Seq(ReactionRecord)]
    BY <1>0, <2>1, <2>2
  <2>4. \A i \in DOMAIN reactions'[p] :
          (i \in DOMAIN reactions[p] /\ reactions'[p][i] = reactions[p][i]) \/ reactions'[p][i] = rd
    <3> DEFINE t == Append(reactions[p], rd)
               l == Len(reactions[p])
    <3>1. reactions'[p] = t
      BY <1>0, <2>1
    <3> HIDE DEF t, l
    <3>2. \A i \in DOMAIN t : i \in 1 .. l \/ i = l + 1
      BY <2>2 DEF t, l
    <3> QED
      BY <2>2, <3>1, <3>2 DEF t, l
  <2>5. \A r \in Promise : r # p => reactions'[r] = reactions[r]
    BY <1>0, <2>1
  <2>6. ReactionsFrom(made', async', reactions, reactions')
    BY <2>4, <2>5 DEF ReactionsFrom
  <2>7. JobsFrom(made', async', q, jobs') /\ SameJobWays(jobs', q)
    BY <2>1 DEF JobsFrom, SameJobWays
  <2> QED
    BY <1>0, <1>2, <2>1, <2>3, <2>6, <2>7
<1>3. CASE state[p] # "pending"
  <2> DEFINE e == Reaction(rd, result[p], state[p] = "rejected")
  <2>1. Enqueue(q, <<e>>) /\ reactions' = reactions
    BY <1>1, <1>3 DEF perform_promise_then
  <2>2. /\ e \in Job /\ e.is = "reaction" /\ JobSound(made', async', e)
        /\ e.handler \in {rd.on[1], rd.on[2]}
    <3>1. state[p] \in {"fulfilled", "rejected"}
      BY <1>0, <1>3
    <3>2. result[p] \in Result /\ (state[p] # "rejected" => result[p] \in {Prim, Object})
      BY <1>0, <3>1 DEF PromiseInv, NeverNested
    <3> QED
      BY <3>2, ReactionJob
  <2> HIDE DEF e
  <2>3. \/ jobs' = Append(q, e) /\ failed' = failed
        \/ jobs' = q /\ failed' = TRUE
    BY <1>0, <2>1, <2>2, EnqueuedOne
  <2>4. /\ Append(q, e) \in Seq(Job)
        /\ JobsFrom(made', async', q, Append(q, e)) /\ SameJobWays(Append(q, e), q)
    <3> DEFINE t == Append(q, e)
    <3>1. /\ t \in Seq(Job) /\ DOMAIN t = 1 .. Len(q) + 1 /\ DOMAIN q = 1 .. Len(q) /\ Len(q) \in Nat
          /\ t[Len(q) + 1] = e
          /\ \A i \in DOMAIN q : t[i] = q[i]
          /\ \A r, i : ByJob(t, r, i) <=> ByJob(q, r, i)
      BY <2>2, QueueAppended
    <3> HIDE DEF t
    <3>2. \A i \in DOMAIN t : i \in DOMAIN q \/ i = Len(q) + 1
      BY <3>1
    <3> QED
      BY <2>2, <3>1, <3>2 DEF t, JobsFrom, SameJobWays
  <2>5. JobsFrom(made', async', q, q) /\ SameJobWays(q, q)
        /\ ReactionsFrom(made', async', reactions, reactions')
    BY <2>1 DEF JobsFrom, SameJobWays, ReactionsFrom
  <2>6. CASE jobs' = Append(q, e) /\ failed' = failed
    BY <1>0, <1>3, <2>1, <2>2, <2>4, <2>5, <2>6
  <2>7. CASE jobs' = q /\ failed' = TRUE
    BY <1>0, <1>3, <2>1, <2>2, <2>5, <2>7
  <2> QED
    BY <2>3, <2>6, <2>7
<1> QED
  BY <1>2, <1>3

(* The jobs of the list of p that fulfill_or_reject_promise takes.         *)
Taken(p, v, r) == [i \in DOMAIN reactions[p] |-> Reaction(reactions[p][i], v, r)]

LEMMA TakenJobs ==
  ASSUME PromiseInv, NEW p \in Promise, NEW v \in Result, NEW r \in BOOLEAN,
         ~r => v \in {Prim, Object}
  PROVE  /\ Taken(p, v, r) \in Seq(Job) /\ DOMAIN Taken(p, v, r) = DOMAIN reactions[p]
         /\ \A i \in DOMAIN Taken(p, v, r) :
              LET e == Taken(p, v, r)[i] IN
              /\ e.is = "reaction" /\ JobSound(made, async, e)
              /\ e.handler = IF r THEN reactions[p][i].on[2] ELSE reactions[p][i].on[1]
<1>1. reactions[p] \in Seq(ReactionRecord)
  BY DEF PromiseInv, TypeOK, ReactionRecord
<1>2. \A i \in DOMAIN reactions[p] :
        /\ reactions[p][i] \in ReactionRecord /\ ReactionSound(made, async, reactions[p][i])
  BY <1>1, ElementOfSeq, LenProperties DEF PromiseInv, Sound
<1> DEFINE t == Taken(p, v, r)
           J(i) == Reaction(reactions[p][i], v, r)
<1>3. \A i \in DOMAIN reactions[p] :
        /\ J(i) \in Job /\ J(i).is = "reaction" /\ JobSound(made, async, J(i))
        /\ J(i).handler = IF r THEN reactions[p][i].on[2] ELSE reactions[p][i].on[1]
  BY <1>2, ReactionJob
<1>4. t = [i \in 1 .. Len(reactions[p]) |-> J(i)] /\ DOMAIN reactions[p] = 1 .. Len(reactions[p])
      /\ Len(reactions[p]) \in Nat
  BY <1>1, LenProperties DEF Taken
<1> HIDE DEF t, J
<1>5. t \in [1 .. Len(reactions[p]) -> Job] /\ \A i \in DOMAIN reactions[p] : t[i] = J(i)
  BY <1>3, <1>4
<1>6. t \in Seq(Job) /\ DOMAIN t = DOMAIN reactions[p]
  BY <1>4, <1>5, SeqDef
<1> QED
  BY <1>3, <1>5, <1>6 DEF t

(* A queue with a part of new at its end, all of it if nothing failed.     *)
Extended(js, q, new, fl) ==
  \E part \in Seq(Job) :
    /\ js = q \o part
    /\ ~fl => part = new
    /\ \E g \in [1 .. Len(part) -> 1 .. Len(new)] :
         /\ \A i, j \in 1 .. Len(part) : i < j => g[i] < g[j]
         /\ \A i \in 1 .. Len(part) : part[i] = new[g[i]]

LEMMA Fulfilled ==
  ASSUME PromiseInv, NEW p \in Promise, state[p] = "pending", NEW v \in Result, NEW r \in BOOLEAN,
         ~r => v \in {Prim, Object}, fulfill_or_reject_promise(p, v, r)
  PROVE  /\ result' = [result EXCEPT ![p] = v] /\ result' \in [Promise -> Result]
         /\ state' = [state EXCEPT ![p] = IF r THEN "rejected" ELSE "fulfilled"]
         /\ state' \in [Promise -> {"none", "pending", "fulfilled", "rejected"}]
         /\ reactions' = [reactions EXCEPT ![p] = <<>>]
         /\ reactions' \in [Promise -> Seq(ReactionRecord)]
         /\ ReactionsFrom(made, async, reactions, reactions')
         /\ jobs' \in Seq(Job) /\ failed' \in BOOLEAN /\ (failed => failed')
         /\ JobsFrom(made, async, jobs, jobs') /\ SameJobWays(jobs', jobs)
         /\ NeverNested'
         /\ Extended(jobs', jobs, Taken(p, v, r), failed')
<1> DEFINE new == Taken(p, v, r)
<1>0. /\ reactions \in [Promise -> Seq(ReactionRecord)] /\ failed \in BOOLEAN
      /\ state \in [Promise -> {"none", "pending", "fulfilled", "rejected"}]
      /\ result \in [Promise -> Result] /\ jobs \in Seq(Job)
  BY DEF PromiseInv, TypeOK, ReactionRecord
<1>1. /\ result' = [result EXCEPT ![p] = v]
      /\ state' = [state EXCEPT ![p] = IF r THEN "rejected" ELSE "fulfilled"]
      /\ reactions' = [reactions EXCEPT ![p] = <<>>]
      /\ Enqueue(jobs, new)
  BY DEF fulfill_or_reject_promise, Taken
<1>2. /\ new \in Seq(Job)
      /\ \A i \in DOMAIN new : new[i].is = "reaction" /\ JobSound(made, async, new[i])
  BY TakenJobs
<1> HIDE DEF new
<1>3. PICK part \in Seq(Job) :
           /\ jobs' = jobs \o part /\ failed' \in BOOLEAN
           /\ failed => failed'
           /\ ~failed' => part = new
           /\ \E g \in [1 .. Len(part) -> 1 .. Len(new)] :
                /\ \A i, j \in 1 .. Len(part) : i < j => g[i] < g[j]
                /\ \A i \in 1 .. Len(part) : part[i] = new[g[i]]
  BY <1>0, <1>1, <1>2, Enqueued
<1>4. \A i \in DOMAIN part : part[i].is = "reaction" /\ JobSound(made, async, part[i])
  <2>1. PICK g \in [1 .. Len(part) -> 1 .. Len(new)] :
          \A i \in 1 .. Len(part) : part[i] = new[g[i]]
    BY <1>3
  <2>2. DOMAIN part = 1 .. Len(part) /\ DOMAIN new = 1 .. Len(new)
    BY <1>2, LenProperties
  <2> QED
    BY <1>2, <2>1, <2>2
<1>5. SameJobWays(jobs', jobs)
  BY <1>0, <1>3, <1>4, QueueExtended DEF SameJobWays
<1>6. jobs' \in Seq(Job) /\ JobsFrom(made, async, jobs, jobs')
  <2> DEFINE l == Len(jobs)
             k == Len(part)
             t == jobs \o part
  <2>1. /\ l \in Nat /\ k \in Nat /\ t \in Seq(Job) /\ DOMAIN jobs = 1 .. l /\ DOMAIN part = 1 .. k
        /\ DOMAIN t = 1 .. l + k
        /\ \A i \in 1 .. l + k : t[i] = IF i <= l THEN jobs[i] ELSE part[i - l]
    BY <1>0, ConcatProperties, LenProperties
  <2> HIDE DEF l, k, t
  <2>2. \A i \in DOMAIN t : i <= l => i \in DOMAIN jobs /\ t[i] = jobs[i]
    BY <2>1
  <2>3. \A i \in DOMAIN t : ~(i <= l) => i - l \in DOMAIN part /\ t[i] = part[i - l]
    BY <2>1
  <2>4. jobs' = t
    BY <1>3 DEF t
  <2> QED
    BY <1>4, <2>1, <2>2, <2>3, <2>4 DEF JobsFrom
<1>7. /\ result' \in [Promise -> Result]
      /\ state' \in [Promise -> {"none", "pending", "fulfilled", "rejected"}]
  BY <1>0, <1>1
<1>8. /\ reactions' \in [Promise -> Seq(ReactionRecord)]
      /\ ReactionsFrom(made, async, reactions, reactions')
  <2>1. <<>> \in Seq(ReactionRecord) /\ DOMAIN <<>> = {}
    BY EmptySeq
  <2> QED
    BY <1>0, <1>1, <2>1 DEF ReactionsFrom
<1>9. NeverNested'
  <2> SUFFICES ASSUME NEW q \in Promise, state'[q] = "fulfilled" PROVE result'[q] \in {Prim, Object}
    BY DEF NeverNested
  <2>1. CASE q = p
    BY <1>0, <1>1, <2>1
  <2>2. CASE q # p
    BY <1>0, <1>1, <2>2 DEF PromiseInv, NeverNested
  <2> QED
    BY <2>1, <2>2
<1> QED
  <2>1. Extended(jobs', jobs, new, failed')
    BY <1>3 DEF Extended
  <2> QED
    BY <1>1, <1>3, <1>5, <1>6, <1>7, <1>8, <1>9, <2>1 DEF new
-----------------------------------------------------------------------------
(* Steps in which no promise settles and no way to settle is used.         *)
LEMMA Quiet ==
  ASSUME PromiseInv, Stays, UNCHANGED <<result, used>>,
         given' \subseteq Pair, \A x \in given' : PairMade(made', x),
         async' \in [Promise -> {None, "running", "suspended", "done"}],
         \A f \in Promise : async[f] # None => async'[f] # None,
         \A f \in Promise : async'[f] # None => made'[f] > 0,
         reactions' \in [Promise -> Seq(ReactionRecord)],
         ReactionsFrom(made', async', reactions, reactions'),
         jobs' \in Seq(Job), JobsFrom(made', async', jobs, jobs'),
         failed' \in BOOLEAN, failed => failed',
         NEW n, NEW F, Over(stack, n, stack', F), F \subseteq Frame,
         \A fr \in F : FrameSound(made', fr) /\ FrameFits(made', fr),
         \A p \in Promise : WayOf(state', made', used, jobs', stack', failed', p)
  PROVE  PromiseInv'
<1>1. /\ state' \in [Promise -> {"none", "pending", "fulfilled", "rejected"}]
      /\ made' \in [Promise -> 0 .. MaxPairs]
      /\ \A p \in Promise : made[p] <= made'[p]
      /\ \A p \in Promise : state'[p] = "none" <=> made'[p] = 0
      /\ \A p \in Promise : state'[p] = "fulfilled" => state[p] = "fulfilled"
      /\ \A i \in DOMAIN jobs : JobFits(made', jobs[i])
      /\ \A i \in DOMAIN stack : FrameFits(made', stack[i])
  BY Stayed
<1>2. /\ made \in [Promise -> 0 .. MaxPairs] /\ used \subseteq Pair /\ jobs \in Seq(Job)
      /\ stack \in Seq(Frame) /\ reactions \in [Promise -> Seq(ReactionRecord)]
      /\ result \in [Promise -> Result] /\ MaxPairs \in Nat
  BY PromiseAssumption DEF PromiseInv, TypeOK, ReactionRecord
<1>3. Grown(made, async, made', async')
  BY <1>1, <1>2 DEF Grown
<1>4. TypeOK'
  BY <1>1, <1>2 DEF TypeOK, Over, ReactionRecord
<1>5. \A i \in DOMAIN stack' : FrameSound(made', stack'[i]) /\ FrameFits(made', stack'[i])
  <2>1. \A i \in DOMAIN stack : FrameSound(made, stack[i]) /\ FrameFits(made', stack[i])
    BY <1>1 DEF PromiseInv, Sound
  <2> QED
    BY <1>2, <1>3, <2>1, StackSound
<1>6. \A i \in DOMAIN jobs' : JobSound(made', async', jobs'[i]) /\ JobFits(made', jobs'[i])
  <2>1. \A k \in DOMAIN jobs : JobSound(made', async', jobs[k])
    BY <1>2, <1>3, StaySound, ElementOfSeq, LenProperties DEF PromiseInv, Sound
  <2> QED
    BY <1>1, <2>1 DEF JobFits, JobsFrom
<1>7. \A p \in Promise : \A i \in DOMAIN reactions'[p] : ReactionSound(made', async', reactions'[p][i])
  <2> SUFFICES ASSUME NEW p \in Promise, NEW i \in DOMAIN reactions[p]
               PROVE  ReactionSound(made', async', reactions[p][i])
    BY DEF ReactionsFrom
  <2>1. reactions[p][i] \in ReactionRecord /\ ReactionSound(made, async, reactions[p][i])
    BY <1>2, ElementOfSeq, LenProperties DEF PromiseInv, Sound
  <2> QED
    BY <1>3, <2>1, StaySound
<1>8. \A x \in used' \cup given' : PairMade(made', x)
  BY <1>2, <1>3, StaySound DEF PromiseInv, Sound
<1>9. Sound'
  BY <1>1, <1>5, <1>6, <1>7, <1>8 DEF Sound
<1>10. RoomKept'
  BY <1>5, <1>6 DEF RoomKept
<1>11. OneWay' /\ NeverNested'
  BY <1>1 DEF OneWay, NeverNested, PromiseInv
<1> QED
  BY <1>4, <1>9, <1>10, <1>11 DEF PromiseInv

(* The same when jobs and reactions are left alone or performed by then(), *)
(* and the frames taken off or put on are no getters.                      *)
GivenMade(m, g) == g \subseteq Pair /\ \A x \in g : PairMade(m, x)
AsyncMade(m, a, a2) ==
  /\ a2 \in [Promise -> {None, "running", "suspended", "done"}]
  /\ \A f \in Promise : (a[f] # None => a2[f] # None) /\ (a2[f] # None => m[f] > 0)
StackCalm(m, s, t) ==
  \E n, F : /\ Over(s, n, t, F) /\ F \subseteq Frame
            /\ \A fr \in F : FrameSound(m, fr) /\ FrameFits(m, fr) /\ fr.at # "getter"
            /\ \A i \in n + 1 .. Len(s) : s[i].at # "getter"
QueueCalm ==
  \/ UNCHANGED <<reactions, jobs, failed>>
  \/ UNCHANGED <<reactions, jobs>> /\ failed' = TRUE
  \/ \E p \in Promise : \E rd \in ReactionRecord :
       /\ state[p] # "none" /\ ReactionSound(made', async', rd)
       /\ perform_promise_then(p, rd.cap, rd.on[1], rd.on[2], jobs)

LEMMA QuietFrames ==
  ASSUME PromiseInv, Stays, UNCHANGED <<result, used>>, GivenMade(made', given'),
         AsyncMade(made', async, async'), StackCalm(made', stack, stack'), QueueCalm
  PROVE  PromiseInv'
<1>1. /\ jobs \in Seq(Job) /\ stack \in Seq(Frame) /\ failed \in BOOLEAN
      /\ reactions \in [Promise -> Seq(ReactionRecord)]
  BY DEF PromiseInv, TypeOK, ReactionRecord
<1>2. /\ reactions' \in [Promise -> Seq(ReactionRecord)]
      /\ ReactionsFrom(made', async', reactions, reactions')
      /\ jobs' \in Seq(Job) /\ JobsFrom(made', async', jobs, jobs') /\ SameJobWays(jobs', jobs)
      /\ failed' \in BOOLEAN /\ (failed => failed')
  <2>1. CASE UNCHANGED <<reactions, jobs>> /\ failed' \in {failed, TRUE}
    BY <1>1, <2>1 DEF ReactionsFrom, JobsFrom, SameJobWays
  <2>2. CASE \E p \in Promise : \E rd \in ReactionRecord :
              /\ state[p] # "none" /\ ReactionSound(made', async', rd)
              /\ perform_promise_then(p, rd.cap, rd.on[1], rd.on[2], jobs)
    <3>1. PICK q \in Seq(Job) : q = jobs
      BY <1>1
    <3>2. PICK p \in Promise, rd \in ReactionRecord :
              /\ state[p] # "none" /\ ReactionSound(made', async', rd)
              /\ perform_promise_then(p, rd.cap, rd.on[1], rd.on[2], q)
      BY <2>2, <3>1 DEF perform_promise_then, Enqueue
    <3>3. /\ reactions' \in [Promise -> Seq(ReactionRecord)]
          /\ ReactionsFrom(made', async', reactions, reactions')
          /\ jobs' \in Seq(Job) /\ JobsFrom(made', async', q, jobs') /\ SameJobWays(jobs', q)
          /\ failed' \in BOOLEAN /\ (failed => failed')
      BY <3>2, Performed
    <3> QED
      BY <3>1, <3>3
  <2> QED
    BY <2>1, <2>2 DEF QueueCalm
<1>5. PICK n, F :
            /\ Over(stack, n, stack', F) /\ F \subseteq Frame
            /\ \A fr \in F : FrameSound(made', fr) /\ FrameFits(made', fr) /\ fr.at # "getter"
            /\ \A i \in n + 1 .. Len(stack) : stack[i].at # "getter"
  BY DEF StackCalm
<1>3. \A p, i : ByGetter(stack', p, i) <=> ByGetter(stack, p, i)
  BY <1>1, <1>5, GettersKept
<1>4. \A p \in Promise : WayOf(state', made', used, jobs', stack', failed', p)
  BY <1>2, <1>3, Stayed DEF SameWays, SameJobWays
<1> QED
  BY <1>2, <1>5, <1>4, Quiet DEF GivenMade, AsyncMade

(* A new reaction whose handlers are the program's, none or those of a     *)
(* pair is sound, and so is that of an await.                              *)
LEMMA NewReaction ==
  ASSUME NEW m, NEW a, NEW cap \in Pair \cup {None}, CapMade(m, cap), NEW h1, NEW h2
  PROVE  LET rd == [cap |-> cap, on |-> <<h1, h2>>] IN
         /\ rd.cap = cap /\ rd.on[1] = h1 /\ rd.on[2] = h2
         /\ h1 \in {None, User} /\ h2 \in {None, User} => rd \in ReactionRecord /\ ReactionSound(m, a, rd)
         /\ \A x \in Pair : h1 = Resolving(0, x) /\ h2 = Resolving(1, x) /\ PairMade(m, x)
              => rd \in ReactionRecord /\ ReactionSound(m, a, rd)
         /\ \A f \in Promise : h1 = Resume(f) /\ h2 = Resume(f) /\ a[f] # None
              => rd \in ReactionRecord /\ ReactionSound(m, a, rd)
<1> DEFINE rd == [cap |-> cap, on |-> <<h1, h2>>]
<1>1. rd.cap = cap /\ rd.on[1] = h1 /\ rd.on[2] = h2
  OBVIOUS
<1>2. h1 \in Handler /\ h2 \in Handler => rd \in ReactionRecord
  BY DEF ReactionRecord
<1> HIDE DEF rd
<1>3. h1 \in {None, User} /\ h2 \in {None, User} => rd \in ReactionRecord /\ ReactionSound(m, a, rd)
  BY <1>1, <1>2, HandlerKinds DEF ReactionSound, HandlerMade
<1>4. ASSUME NEW x \in Pair, h1 = Resolving(0, x), h2 = Resolving(1, x), PairMade(m, x)
      PROVE  rd \in ReactionRecord /\ ReactionSound(m, a, rd)
  <2>1. \A i, j \in {0, 1}, y \in Pair : Resolving(i, x) = Resolving(j, y) => i = j /\ x = y
    BY HandlerKinds
  <2>2. HandlerMade(m, a, h1) /\ HandlerMade(m, a, h2)
    BY <1>4, <2>1, HandlerKinds DEF HandlerMade
  <2>3. \A y \in Pair : h1 # Resolving(1, y) /\ h2 # Resolving(0, y)
    BY <1>4, <2>1
  <2>4. \A f \in Promise : h1 # Resume(f) /\ h2 # Resume(f)
    BY <1>4, HandlerKinds
  <2> QED
    BY <1>1, <1>2, <1>4, <2>2, <2>3, <2>4, HandlerKinds DEF ReactionSound
<1>5. ASSUME NEW f \in Promise, h1 = Resume(f), h2 = Resume(f), a[f] # None
      PROVE  rd \in ReactionRecord /\ ReactionSound(m, a, rd)
  <2>1. HandlerMade(m, a, h1)
    BY <1>5, HandlerKinds DEF HandlerMade
  <2> QED
    BY <1>1, <1>2, <1>5, <2>1, HandlerKinds DEF ReactionSound
<1> QED
  BY <1>1, <1>3, <1>4, <1>5 DEF rd

(* The top of the stack.                                                   *)
LEMMA TopFrame ==
  ASSUME PromiseInv, stack # <<>>
  PROVE  /\ Len(stack) \in Nat \ {0} /\ Len(stack) \in DOMAIN stack /\ Top \in Frame
         /\ FrameSound(made, Top) /\ FrameFits(made, Top)
         /\ Pop \in Seq(Frame) /\ Len(Pop) = Len(stack) - 1 /\ Over(stack, Len(stack) - 1, Pop, {})
         /\ Top.at # "getter" => \A i \in (Len(stack) - 1) + 1 .. Len(stack) : stack[i].at # "getter"
         /\ \A fr \in Frame : Over(stack, Len(stack) - 1, Append(Pop, fr), {fr})
<1>1. stack \in Seq(Frame)
  BY DEF PromiseInv, TypeOK
<1>2. /\ Len(stack) \in Nat \ {0} /\ Top \in Frame /\ Pop \in Seq(Frame) /\ Len(Pop) = Len(stack) - 1
  BY <1>1, Popped DEF Top, Pop
<1>3. DOMAIN stack = 1 .. Len(stack)
  BY <1>1, LenProperties
<1>4. \A i \in (Len(stack) - 1) + 1 .. Len(stack) : i = Len(stack)
  BY <1>2
<1>5. /\ Over(stack, Len(stack) - 1, Pop, {})
      /\ \A fr \in Frame : Over(stack, Len(stack) - 1, Append(Pop, fr), {fr})
  BY <1>1, <1>2, Replaced DEF Pop
<1>6. FrameSound(made, Top) /\ FrameFits(made, Top) /\ Len(stack) \in DOMAIN stack
  BY <1>2, <1>3 DEF PromiseInv, Sound, RoomKept, Top
<1> QED
  BY <1>2, <1>4, <1>5, <1>6 DEF Top

LEMMA NewCall ==
  ASSUME NEW m, NEW x \in Pair, PairMade(m, x), NEW v \in Result, NEW r \in BOOLEAN,
         ~r => v \in Value /\ ValueMade(m, v) /\ (v \in Promise => m[x[1]] < MaxPairs)
  PROVE  LET fr == Call(x, v, r) IN
         /\ fr \in Frame /\ FrameSound(m, fr) /\ FrameFits(m, fr) /\ fr.at # "getter" /\ fr.at = "call"
  BY NewFrames DEF FrameSound, FrameFits, CodeFrames

LEMMA NewCode ==
  ASSUME NEW m, NEW k \in CodeFrames \ {"getter"}, NEW c \in Pair \cup {None}, CapMade(m, c),
         k = "async" => c # None /\ c[2] = 0
  PROVE  LET fr == Code(k, c) IN
         /\ fr \in Frame /\ FrameSound(m, fr) /\ FrameFits(m, fr) /\ fr.at # "getter" /\ fr.at = k
  BY NewFrames DEF FrameSound, FrameFits, CodeFrames

(* Calm changes of the stack.                                              *)
LEMMA Calm ==
  ASSUME PromiseInv, NEW m
  PROVE  /\ StackCalm(m, stack, stack)
         /\ \A fr \in Frame :
              FrameSound(m, fr) /\ FrameFits(m, fr) /\ fr.at # "getter" =>
                /\ StackCalm(m, stack, Append(stack, fr))
                /\ stack = <<>> => StackCalm(m, stack, <<fr>>)
                /\ stack # <<>> /\ Top.at # "getter" => StackCalm(m, stack, Append(Pop, fr))
         /\ stack # <<>> /\ Top.at # "getter" => StackCalm(m, stack, Pop)
<1>1. stack \in Seq(Frame) /\ Len(stack) \in Nat
  BY LenProperties DEF PromiseInv, TypeOK
<1>2. StackCalm(m, stack, stack)
  <2>1. Over(stack, Len(stack), stack, {}) /\ \A i \in Len(stack) + 1 .. Len(stack) : FALSE
    BY <1>1 DEF Over
  <2> QED
    BY <2>1 DEF StackCalm
<1>3. ASSUME NEW fr \in Frame, FrameSound(m, fr), FrameFits(m, fr), fr.at # "getter"
      PROVE  /\ StackCalm(m, stack, Append(stack, fr))
             /\ stack = <<>> => StackCalm(m, stack, <<fr>>)
             /\ stack # <<>> /\ Top.at # "getter" => StackCalm(m, stack, Append(Pop, fr))
  <2>0. \A x \in {fr} : FrameSound(m, x) /\ FrameFits(m, x) /\ x.at # "getter"
    BY <1>3
  <2>1. StackCalm(m, stack, Append(stack, fr))
    <3>1. Over(stack, Len(stack), Append(stack, fr), {fr})
          /\ \A i \in Len(stack) + 1 .. Len(stack) : FALSE
      BY <1>1, Pushed
    <3> QED
      BY <2>0, <3>1 DEF StackCalm
  <2>2. ASSUME stack = <<>> PROVE StackCalm(m, stack, <<fr>>)
    <3>1. Over(stack, 0, <<fr>>, {fr}) /\ \A i \in 0 + 1 .. Len(stack) : FALSE
      BY <2>2 DEF Over
    <3> QED
      BY <2>0, <3>1 DEF StackCalm
  <2>3. ASSUME stack # <<>>, Top.at # "getter" PROVE StackCalm(m, stack, Append(Pop, fr))
    <3>1. /\ Over(stack, Len(stack) - 1, Append(Pop, fr), {fr})
          /\ \A i \in (Len(stack) - 1) + 1 .. Len(stack) : stack[i].at # "getter"
      BY <2>3, TopFrame
    <3> QED
      BY <2>0, <3>1 DEF StackCalm
  <2> QED
    BY <2>1, <2>2, <2>3
<1>4. ASSUME stack # <<>>, Top.at # "getter" PROVE StackCalm(m, stack, Pop)
  <2>1. /\ Over(stack, Len(stack) - 1, Pop, {})
        /\ \A i \in (Len(stack) - 1) + 1 .. Len(stack) : stack[i].at # "getter"
    BY <1>4, TopFrame
  <2> QED
    BY <2>1 DEF StackCalm
<1> QED
  BY <1>2, <1>3, <1>4

(* The types, in one place.                                                *)
LEMMA Typed ==
  ASSUME PromiseInv
  PROVE  /\ state \in [Promise -> {"none", "pending", "fulfilled", "rejected"}]
         /\ result \in [Promise -> Result] /\ reactions \in [Promise -> Seq(ReactionRecord)]
         /\ made \in [Promise -> 0 .. MaxPairs] /\ used \subseteq Pair /\ given \subseteq Pair
         /\ async \in [Promise -> {None, "running", "suspended", "done"}]
         /\ jobs \in Seq(Job) /\ failed \in BOOLEAN /\ stack \in Seq(Frame)
         /\ MaxPairs \in Nat \ {0} /\ GivenMade(made, given) /\ AsyncMade(made, async, async)
         /\ \A p \in Promise : state[p] = "none" <=> made[p] = 0
  BY PromiseAssumption DEF PromiseInv, TypeOK, ReactionRecord, Sound, GivenMade, AsyncMade

(* The steps of program code that create no promise.                       *)
LEMMA EvalStep == PromiseInv /\ JS_Eval => PromiseInv'
<1> SUFFICES ASSUME PromiseInv, JS_Eval PROVE PromiseInv'
  OBVIOUS
<1> DEFINE fr == Code("script", None)
<1>1. fr \in Frame /\ FrameSound(made, fr) /\ FrameFits(made, fr) /\ fr.at # "getter"
  BY NewCode DEF CodeFrames, CapMade
<1> HIDE DEF fr
<1>2. stack' = <<fr>> /\ stack = <<>> /\ UNCHANGED <<promiseVars, made, used, given, async, jobVars>>
  BY DEF JS_Eval, fr
<1>3. StackCalm(made', stack, stack')
  BY <1>1, <1>2, Calm
<1>4. Stays
  BY <1>2 DEF Stays, promiseVars
<1> QED
  BY <1>2, <1>3, <1>4, Typed, QuietFrames DEF promiseVars, jobVars, QueueCalm

LEMMA CallStep ==
  ASSUME PromiseInv, NEW x \in Pair, NEW v \in Value, NEW r \in BOOLEAN, CallResolving(x, v, r)
  PROVE  PromiseInv'
<1> DEFINE fr == Call(x, IF r THEN Error ELSE v, r)
<1>1. fr \in Frame /\ FrameSound(made, fr) /\ FrameFits(made, fr) /\ fr.at # "getter"
  <2>1. PairMade(made, x) /\ (IF r THEN Error ELSE v) \in Result
    BY Typed DEF CallResolving, Result, Value, GivenMade
  <2>2. ~r => ValueMade(made, v) /\ (v \in Promise => made[x[1]] < MaxPairs)
    BY Typed, PromiseAssumption DEF CallResolving, RoomFor, ValueMade, Made
  <2> QED
    BY <2>1, <2>2, NewCall
<1> HIDE DEF fr
<1>2. stack' = Append(stack, fr) /\ UNCHANGED <<promiseVars, made, used, given, async, jobVars>>
  BY DEF CallResolving, fr
<1>3. StackCalm(made', stack, stack')
  BY <1>1, <1>2, Calm
<1>4. Stays
  BY <1>2 DEF Stays, promiseVars
<1> QED
  BY <1>2, <1>3, <1>4, Typed, QuietFrames DEF promiseVars, jobVars, QueueCalm

LEMMA LeaveStep == PromiseInv /\ Leave => PromiseInv'
<1> SUFFICES ASSUME PromiseInv, Leave PROVE PromiseInv'
  OBVIOUS
<1>1. stack # <<>> /\ Top.at # "getter" /\ stack' = Pop
      /\ UNCHANGED <<promiseVars, made, used, given, async, jobVars>>
  BY DEF Leave, InCode
<1>2. StackCalm(made', stack, stack')
  BY <1>1, Calm
<1>3. Stays
  BY <1>1 DEF Stays, promiseVars
<1> QED
  BY <1>1, <1>2, <1>3, Typed, QuietFrames DEF promiseVars, jobVars, QueueCalm

(* What ends and hands a value to its capability.                          *)
LEMMA EndStep ==
  ASSUME PromiseInv, stack # <<>>, Top.at \in CodeFrames \ {"getter"},
         NEW v \in Result, NEW r \in BOOLEAN,
         Top.of # None /\ ~r =>
           v \in Value /\ ValueMade(made, v) /\ (v \in Promise => made[Top.of[1]] < MaxPairs),
         stack' = CallCap(Pop, Top.of, v, r),
         async' = IF Top.at = "async" THEN [async EXCEPT ![Top.of[1]] = "done"] ELSE async,
         UNCHANGED <<promiseVars, made, used, given, jobVars>>
  PROVE  PromiseInv'
<1>1. Top.of \in Pair \cup {None} /\ CapMade(made, Top.of) /\ (Top.at = "async" => Top.of # None)
  BY TopFrame, FrameKinds DEF FrameSound, CodeFrames
<1>2. Top.at # "getter"
  BY DEF CodeFrames
<1>3. Stays
  BY DEF Stays, promiseVars
<1>4. AsyncMade(made', async, async')
  <2>1. CASE Top.at = "async"
    <3>1. Top.of \in Pair /\ PairMade(made, Top.of)
      BY <1>1, <2>1 DEF CapMade
    <3>2. made[Top.of[1]] > 0
      BY <3>1, Typed, PairParts DEF PairMade
    <3>3. async' = [async EXCEPT ![Top.of[1]] = "done"]
      BY <2>1
    <3> QED
      BY <3>2, <3>3, Typed, PromiseAssumption DEF AsyncMade
  <2>2. CASE Top.at # "async"
    BY <2>2, Typed DEF AsyncMade
  <2> QED
    BY <2>1, <2>2
<1>5. StackCalm(made', stack, stack')
  <2>1. CASE Top.of = None
    BY <1>2, <2>1, Calm DEF CallCap
  <2>2. CASE Top.of # None
    <3> DEFINE fr == Call(Top.of, v, r)
    <3>1. fr \in Frame /\ FrameSound(made, fr) /\ FrameFits(made, fr) /\ fr.at # "getter"
      BY <1>1, <2>2, NewCall DEF CapMade
    <3> HIDE DEF fr
    <3>2. stack' = Append(Pop, fr)
      BY <2>2 DEF CallCap, fr
    <3> QED
      BY <1>2, <3>1, <3>2, Calm
  <2> QED
    BY <2>1, <2>2
<1> QED
  BY <1>3, <1>4, <1>5, Typed, QuietFrames DEF promiseVars, jobVars, QueueCalm

LEMMA ReturnStep ==
  ASSUME PromiseInv, NEW v \in Value, Return(v)
  PROVE  PromiseInv'
<1>1. Top.of # None => ValueMade(made, v) /\ (v \in Promise => made[Top.of[1]] < MaxPairs)
  BY Typed, PromiseAssumption DEF Return, RoomFor, ValueMade, Made
<1>2. stack # <<>> /\ Top.at \in CodeFrames \ {"getter"} /\ v \in Result
  BY DEF Return, InCode, CodeFrames, Value, Result
<1> QED
  BY <1>1, <1>2, EndStep DEF Return

LEMMA ThrowStep == PromiseInv /\ Throw => PromiseInv'
<1> SUFFICES ASSUME PromiseInv, Throw PROVE PromiseInv'
  OBVIOUS
<1>1. stack # <<>> /\ Top.at \in CodeFrames \ {"getter"} /\ Error \in Result
  BY DEF Throw, InCode, CodeFrames, Result
<1> QED
  BY <1>1, EndStep DEF Throw

(* A promise is created.                                                   *)
LEMMA NewPair ==
  ASSUME PromiseInv, NEW q \in Promise, Create(q)
  PROVE  /\ Stays /\ <<q, 0>> \in Pair /\ <<q, 0>>[1] = q /\ <<q, 0>>[2] = 0
         /\ PairMade(made', <<q, 0>>) /\ made'[q] > 0
         /\ GivenMade(made', given) /\ AsyncMade(made', async, async)
<1>1. made \in [Promise -> 0 .. MaxPairs] /\ made' = [made EXCEPT ![q] = 1] /\ MaxPairs \in Nat \ {0}
  BY Typed DEF Create
<1>2. made'[q] = 1 /\ made' \in [Promise -> 0 .. MaxPairs] /\ \A p \in Promise : made[p] <= made'[p]
  BY <1>1, Created
<1>3. GivenMade(made', given)
  <2>1. Grown(made, async, made', async)
    BY <1>1, <1>2 DEF Grown
  <2> QED
    BY <2>1, Typed, StaySound DEF GivenMade
<1>4. AsyncMade(made', async, async)
  BY <1>1, <1>2, Typed DEF AsyncMade
<1> QED
  BY <1>2, <1>3, <1>4, PairParts DEF Stays, PairMade

(* The steps of program code that create one.                              *)
LEMMA ConstructorStep ==
  ASSUME PromiseInv, NEW q \in Promise, js_promise_constructor(q)
  PROVE  PromiseInv'
<1> DEFINE fr == Code("executor", <<q, 0>>)
<1>1. Create(q) /\ stack' = Append(stack, fr) /\ given' = given \cup {<<q, 0>>}
      /\ UNCHANGED <<result, reactions, used, async, jobVars>>
  BY DEF js_promise_constructor
<1>2. fr \in Frame /\ FrameSound(made', fr) /\ FrameFits(made', fr) /\ fr.at # "getter"
  BY <1>1, NewPair, NewCode DEF CodeFrames, CapMade
<1> HIDE DEF fr
<1>3. StackCalm(made', stack, stack')
  BY <1>1, <1>2, Calm
<1>4. GivenMade(made', given')
  BY <1>1, NewPair DEF GivenMade
<1> QED
  BY <1>1, <1>3, <1>4, NewPair, QuietFrames DEF jobVars, QueueCalm

LEMMA ResolveStep ==
  ASSUME PromiseInv, NEW q \in Promise, NEW v \in {Prim, Object}, NEW r \in BOOLEAN,
         js_promise_resolve(q, v, r)
  PROVE  PromiseInv'
<1> DEFINE fr == Call(<<q, 0>>, IF r THEN Error ELSE v, r)
<1>1. Create(q) /\ stack' = Append(stack, fr)
      /\ UNCHANGED <<result, reactions, used, given, async, jobVars>>
  BY DEF js_promise_resolve
<1>2. fr \in Frame /\ FrameSound(made', fr) /\ FrameFits(made', fr) /\ fr.at # "getter"
  <2>1. (IF r THEN Error ELSE v) \in Result /\ v \in Value /\ v \notin Promise
    BY PromiseAssumption DEF Result, Value
  <2> QED
    BY <1>1, <2>1, NewPair, NewCall DEF ValueMade
<1> HIDE DEF fr
<1>3. StackCalm(made', stack, stack')
  BY <1>1, <1>2, Calm
<1> QED
  BY <1>1, <1>3, NewPair, QuietFrames DEF jobVars, QueueCalm

LEMMA ThenStep ==
  ASSUME PromiseInv, NEW p \in Promise, NEW q \in Promise, NEW h \in Handlers,
         js_promise_then(p, q, h[1], h[2])
  PROVE  PromiseInv'
<1> DEFINE rd == [cap |-> <<q, 0>>, on |-> <<h[1], h[2]>>]
<1>1. /\ Create(q) /\ state[p] # "none"
      /\ perform_promise_then(p, <<q, 0>>, h[1], h[2], jobs)
      /\ UNCHANGED <<result, used, given, async, stack>>
  BY DEF js_promise_then, Made
<1>2. rd.cap = <<q, 0>> /\ rd.on[1] = h[1] /\ rd.on[2] = h[2]
  OBVIOUS
<1>3. rd \in ReactionRecord /\ ReactionSound(made', async', rd)
  <2>1. CapMade(made', <<q, 0>>) /\ <<q, 0>> \in Pair \cup {None}
    BY <1>1, NewPair DEF CapMade
  <2>2. CASE h[1] \in {None, User} /\ h[2] \in {None, User}
    BY <2>1, <2>2, NewReaction
  <2>3. ASSUME NEW x \in given, h = js_create_resolving_functions(x)
        PROVE  rd \in ReactionRecord /\ ReactionSound(made', async', rd)
    <3>1. x \in Pair /\ PairMade(made', x)
      BY <1>1, NewPair DEF GivenMade
    <3>2. h[1] = Resolving(0, x) /\ h[2] = Resolving(1, x)
      BY <2>3 DEF js_create_resolving_functions
    <3> QED
      BY <2>1, <3>1, <3>2, NewReaction
  <2> QED
    BY <2>2, <2>3 DEF Handlers
<1> HIDE DEF rd
<1>4. QueueCalm
  BY <1>1, <1>2, <1>3 DEF QueueCalm
<1>5. StackCalm(made', stack, stack')
  BY <1>1, Calm
<1> QED
  BY <1>1, <1>4, <1>5, NewPair, QuietFrames

LEMMA AsyncCallStep ==
  ASSUME PromiseInv, NEW q \in Promise, js_async_function_call(q)
  PROVE  PromiseInv'
<1> DEFINE fr == Code("async", <<q, 0>>)
<1>1. Create(q) /\ stack' = Append(stack, fr) /\ async' = [async EXCEPT ![q] = "running"]
      /\ UNCHANGED <<result, reactions, used, given, jobVars>>
  BY DEF js_async_function_call
<1>2. fr \in Frame /\ FrameSound(made', fr) /\ FrameFits(made', fr) /\ fr.at # "getter"
  BY <1>1, NewPair, NewCode, PromiseAssumption DEF CodeFrames, CapMade
<1> HIDE DEF fr
<1>3. StackCalm(made', stack, stack')
  BY <1>1, <1>2, Calm
<1>4. AsyncMade(made', async, async')
  BY <1>1, NewPair, Typed, PromiseAssumption DEF AsyncMade
<1> QED
  BY <1>1, <1>3, <1>4, NewPair, QuietFrames DEF jobVars, QueueCalm

(* An async function awaits.                                               *)
LEMMA AwaitPromiseStep ==
  ASSUME PromiseInv, NEW p \in Promise, AwaitPromise(p)
  PROVE  PromiseInv'
<1> DEFINE f == Top.of[1]
           rd == [cap |-> None, on |-> <<Resume(f), Resume(f)>>]
<1>1. /\ stack # <<>> /\ Top.at = "async" /\ state[p] # "none"
      /\ perform_promise_then(p, None, Resume(f), Resume(f), jobs)
      /\ async' = [async EXCEPT ![f] = "suspended"] /\ stack' = Pop
      /\ UNCHANGED <<state, result, made, used, given>>
  BY DEF AwaitPromise, InCode, Made
<1>2. Top.of \in Pair /\ PairMade(made, Top.of)
  BY <1>1, TopFrame, FrameKinds DEF FrameSound, CodeFrames, CapMade
<1>3. f \in Promise /\ made[f] > 0
  BY <1>2, Typed, PairParts DEF PairMade
<1> HIDE DEF f
<1>4. AsyncMade(made', async, async') /\ async'[f] # None
  BY <1>1, <1>3, Typed, PromiseAssumption DEF AsyncMade
<1>5. rd.cap = None /\ rd.on[1] = Resume(f) /\ rd.on[2] = Resume(f)
  OBVIOUS
<1>6. rd \in ReactionRecord /\ ReactionSound(made', async', rd)
  BY <1>3, <1>4, NewReaction DEF CapMade
<1> HIDE DEF rd
<1>7. QueueCalm
  BY <1>1, <1>5, <1>6 DEF QueueCalm
<1>8. StackCalm(made', stack, stack')
  BY <1>1, Calm
<1> QED
  BY <1>1, <1>4, <1>7, <1>8, Typed, QuietFrames DEF Stays

LEMMA AwaitValueStep ==
  ASSUME PromiseInv, NEW q \in Promise, NEW v \in {Prim, Object}, AwaitValue(q, v)
  PROVE  PromiseInv'
<1> DEFINE f == Top.of[1]
           fr == Awaiting(f, q)
           g == Call(<<q, 0>>, v, FALSE)
<1>1. /\ stack # <<>> /\ Top.at = "async" /\ Create(q) /\ stack' = Pop \o <<fr, g>>
      /\ UNCHANGED <<result, reactions, used, given, async, jobVars>>
  BY DEF AwaitValue, InCode
<1>2. Top.of \in Pair /\ PairMade(made, Top.of)
  BY <1>1, TopFrame, FrameKinds DEF FrameSound, CodeFrames, CapMade
<1>3. f \in Promise /\ made[f] > 0
  BY <1>2, Typed, PairParts DEF PairMade
<1>4. made'[f] > 0 /\ state'[q] = "pending" /\ made'[q] > 0
  BY <1>1, <1>3, Typed, NewPair, Created
<1>5. fr \in Frame /\ FrameSound(made', fr) /\ FrameFits(made', fr) /\ fr.at # "getter"
  BY <1>3, <1>4, NewFrames DEF FrameSound, FrameFits, CodeFrames
<1>6. g \in Frame /\ FrameSound(made', g) /\ FrameFits(made', g) /\ g.at # "getter"
  <2>1. v \in Result /\ v \in Value /\ v \notin Promise
    BY PromiseAssumption DEF Result, Value
  <2> QED
    BY <1>1, <2>1, NewPair, NewCall DEF ValueMade
<1> HIDE DEF f, fr, g
<1>7. StackCalm(made', stack, stack')
  <2>1. /\ Over(stack, Len(stack) - 1, stack', {fr, g})
        /\ \A i \in (Len(stack) - 1) + 1 .. Len(stack) : stack[i].at # "getter"
    BY <1>1, <1>5, <1>6, Typed, TopFrame, Replaced DEF Pop
  <2>2. \A x \in {fr, g} : FrameSound(made', x) /\ FrameFits(made', x) /\ x.at # "getter"
    BY <1>5, <1>6
  <2> QED
    BY <1>5, <1>6, <2>1, <2>2 DEF StackCalm
<1> QED
  BY <1>1, <1>7, NewPair, QuietFrames DEF jobVars, QueueCalm

LEMMA AwaitResolvedStep == PromiseInv /\ AwaitResolved => PromiseInv'
<1> SUFFICES ASSUME PromiseInv, AwaitResolved PROVE PromiseInv'
  OBVIOUS
<1> DEFINE f == Top.of
           p == Top.on
           rd == [cap |-> None, on |-> <<Resume(f), Resume(f)>>]
<1>1. stack # <<>> /\ Top.at = "await" /\ UNCHANGED <<state, result, made, used, given>>
  BY DEF AwaitResolved
<1>2. f \in Promise /\ p \in Promise /\ made[f] > 0 /\ state[p] # "none"
  <2>1. f \in Promise /\ p \in Promise /\ made[f] > 0 /\ made[p] > 0
    BY <1>1, TopFrame, FrameKinds DEF FrameSound, CodeFrames
  <2> QED
    BY <2>1, Typed
<1>3. Stays
  BY <1>1 DEF Stays
<1> HIDE DEF f, p
<1>4. ASSUME perform_promise_then(p, None, Resume(f), Resume(f), jobs),
             async' = [async EXCEPT ![f] = "suspended"], stack' = Pop
      PROVE  PromiseInv'
  <2>1. AsyncMade(made', async, async') /\ async'[f] # None
    BY <1>1, <1>2, <1>4, Typed, PromiseAssumption DEF AsyncMade
  <2>2. rd.cap = None /\ rd.on[1] = Resume(f) /\ rd.on[2] = Resume(f)
    OBVIOUS
  <2>3. rd \in ReactionRecord /\ ReactionSound(made', async', rd)
    <3>1. CapMade(made', None) /\ None \in Pair \cup {None}
      BY DEF CapMade
    <3> QED
      BY <1>2, <2>1, <3>1, NewReaction
  <2> HIDE DEF rd
  <2>4. QueueCalm
    BY <1>2, <1>4, <2>2, <2>3 DEF QueueCalm
  <2>5. StackCalm(made', stack, stack')
    BY <1>1, <1>4, Calm
  <2> QED
    BY <1>1, <1>3, <2>1, <2>4, <2>5, Typed, QuietFrames
<1>5. ASSUME async' = [async EXCEPT ![f] = "done"],
             stack' = Append(Pop, Call(<<f, 0>>, Error, TRUE)),
             failed' = TRUE, UNCHANGED <<reactions, jobs>>
      PROVE  PromiseInv'
  <2> DEFINE fr == Call(<<f, 0>>, Error, TRUE)
  <2>1. AsyncMade(made', async, async')
    BY <1>1, <1>2, <1>5, Typed, PromiseAssumption DEF AsyncMade
  <2>2. fr \in Frame /\ FrameSound(made, fr) /\ FrameFits(made, fr) /\ fr.at # "getter"
    <3>1. <<f, 0>> \in Pair /\ PairMade(made, <<f, 0>>) /\ Error \in Result
      BY <1>2, PairParts DEF PairMade, Result
    <3> QED
      BY <3>1, NewCall
  <2> HIDE DEF fr
  <2>3. StackCalm(made', stack, stack')
    BY <1>1, <1>5, <2>2, Calm DEF fr
  <2> QED
    BY <1>1, <1>3, <1>5, <2>1, <2>3, Typed, QuietFrames DEF QueueCalm
<1> QED
  BY <1>4, <1>5 DEF AwaitResolved, f, p
-----------------------------------------------------------------------------
(* Steps that use a way to settle p: what is left has none for p, and one  *)
(* for every other promise that had one.                                   *)
Spent(u, js, s, p) ==
  /\ state[p] = "pending" /\ NoWay(made, u, js, s, p)
  /\ \A r \in Promise \ {p} : WayOf(state, made, u, js, s, failed, r)

LEMMA WayOfAll ==
  ASSUME PromiseInv, NEW r \in Promise
  PROVE  WayOf(state, made, used, jobs, stack, failed, r)
  BY DEF PromiseInv, OneWay

LEMMA SpentPair ==
  ASSUME PromiseInv, NEW x \in Pair, PairMade(made, x), x \notin used
  PROVE  Spent(used \cup {x}, jobs, stack, x[1])
<1>1. x[1] \in Promise /\ x[2] \in Nat /\ x = <<x[1], x[2]>> /\ made[x[1]] \in Nat
  BY PairParts, Typed
<1> DEFINE p == x[1]
<1>2. ByPair(made, used, p, x[2])
  BY <1>1 DEF ByPair, PairMade
<1>3. WayOf(state, made, used, jobs, stack, failed, p)
  BY <1>1, WayOfAll
<1>4. state[p] = "pending" /\ NotTwoWays(made, used, jobs, stack, p)
  BY <1>1, <1>2, <1>3 DEF WayOf, NoWay
<1>5. NoWay(made, used \cup {x}, jobs, stack, p)
  <2>1. \A n \in Nat : ~ByJob(jobs, p, n) /\ ~ByGetter(stack, p, n)
    BY <1>1, <1>2, <1>4 DEF NotTwoWays
  <2>2. \A n \in Nat : ByPair(made, used \cup {x}, p, n) => ByPair(made, used, p, n) /\ n # x[2]
    BY <1>1 DEF ByPair
  <2>3. \A n \in Nat : ByPair(made, used, p, n) => n = x[2]
    BY <1>1, <1>2, <1>4 DEF NotTwoWays
  <2> QED
    BY <2>1, <2>2, <2>3 DEF NoWay
<1>6. ASSUME NEW r \in Promise \ {p}
      PROVE  WayOf(state, made, used \cup {x}, jobs, stack, failed, r)
  <2>1. \A n \in Nat : ByPair(made, used \cup {x}, r, n) <=> ByPair(made, used, r, n)
    BY <1>1 DEF ByPair
  <2>2. WayOf(state, made, used, jobs, stack, failed, r)
    BY WayOfAll
  <2> QED
    BY <2>1, <2>2 DEF WayOf, NoWay, SomeWay, NotTwoWays
<1> QED
  BY <1>4, <1>5, <1>6 DEF Spent

LEMMA SpentGetter ==
  ASSUME PromiseInv, stack # <<>>, Top.at = "getter"
  PROVE  /\ Top.promise \in Promise
         /\ Spent(used, jobs, Pop, Top.promise)
<1> DEFINE p == Top.promise
           l == Len(stack)
<1>1. p \in Promise /\ l \in Nat \ {0} /\ l \in DOMAIN stack /\ Len(Pop) = l - 1
  BY TopFrame, FrameKinds DEF CodeFrames
<1>2. ByGetter(stack, p, l)
  BY <1>1 DEF ByGetter, Top
<1>3. WayOf(state, made, used, jobs, stack, failed, p)
  BY <1>1, WayOfAll
<1>4. state[p] = "pending" /\ NotTwoWays(made, used, jobs, stack, p)
  BY <1>1, <1>2, <1>3 DEF WayOf, NoWay
<1>5. \A r, i : ByGetter(Pop, r, i) <=> ByGetter(stack, r, i) /\ i # l
  <2>1. /\ DOMAIN stack = 1 .. l /\ DOMAIN Pop = 1 .. l - 1 /\ \A i \in 1 .. l - 1 : Pop[i] = stack[i]
    BY <1>1, Typed, TopFrame, LenProperties, Popped DEF Pop
  <2> HIDE DEF l
  <2>2. \A i : i \in DOMAIN Pop <=> i \in DOMAIN stack /\ i # l
    BY <1>1, <2>1
  <2> QED
    BY <2>1, <2>2 DEF ByGetter
<1>6. NoWay(made, used, jobs, Pop, p)
  <2>1. \A n \in Nat : ~ByJob(jobs, p, n) /\ ~ByPair(made, used, p, n)
    BY <1>1, <1>2, <1>4 DEF NotTwoWays
  <2>2. \A n \in Nat : ByGetter(stack, p, n) => n = l
    BY <1>1, <1>2, <1>4 DEF NotTwoWays
  <2> QED
    BY <1>5, <2>1, <2>2 DEF NoWay
<1>7. ASSUME NEW r \in Promise \ {p}
      PROVE  WayOf(state, made, used, jobs, Pop, failed, r)
  <2>1. \A n : ByGetter(Pop, r, n) <=> ByGetter(stack, r, n)
    BY <1>5 DEF ByGetter, Top
  <2>2. WayOf(state, made, used, jobs, stack, failed, r)
    BY WayOfAll
  <2> QED
    BY <2>1, <2>2 DEF WayOf, NoWay, SomeWay, NotTwoWays
<1> QED
  BY <1>1, <1>4, <1>6, <1>7 DEF Spent

(* The first job is taken off the queue.                                   *)
LEMMA WayOfServed ==
  ASSUME PromiseInv, jobs # <<>>, NEW r \in Promise,
         Head(jobs).is = "thenable" => Head(jobs).of # r
  PROVE  WayOf(state, made, used, Tail(jobs), stack, failed, r)
<1> DEFINE t == Tail(jobs)
<1>1. /\ Head(jobs) = jobs[1]
      /\ \A p, i : ByJob(t, p, i) => i \in Nat /\ ByJob(jobs, p, i + 1)
      /\ \A p, i : ByJob(jobs, p, i) /\ i # 1 => i - 1 \in Nat /\ ByJob(t, p, i - 1)
  BY Typed, QueueServed
<1>2. ~ByJob(jobs, r, 1)
  BY <1>1 DEF ByJob
<1>3. WayOf(state, made, used, jobs, stack, failed, r)
  BY WayOfAll
<1> HIDE DEF t
<1>4. \A i \in Nat : ByJob(t, r, i) => i + 1 \in Nat /\ ByJob(jobs, r, i + 1)
  BY <1>1
<1>5. NoWay(made, used, jobs, stack, r) => NoWay(made, used, t, stack, r)
  BY <1>4 DEF NoWay
<1>6. NotTwoWays(made, used, t, stack, r)
  <2>1. NotTwoWays(made, used, jobs, stack, r)
    BY <1>3 DEF WayOf
  <2>2. \A k, n \in Nat : ByJob(t, r, k) /\ ByJob(t, r, n) => k = n
    <3> SUFFICES ASSUME NEW k \in Nat, NEW n \in Nat, ByJob(t, r, k), ByJob(t, r, n) PROVE k = n
      OBVIOUS
    <3>1. k + 1 \in Nat /\ n + 1 \in Nat /\ ByJob(jobs, r, k + 1) /\ ByJob(jobs, r, n + 1)
      BY <1>4
    <3>2. k + 1 = n + 1
      BY <2>1, <3>1 DEF NotTwoWays
    <3> QED
      BY <3>2
  <2>3. \A k, n \in Nat : ~(ByPair(made, used, r, k) /\ ByJob(t, r, n))
    BY <1>4, <2>1 DEF NotTwoWays
  <2>4. \A k, n \in Nat : ~(ByJob(t, r, k) /\ ByGetter(stack, r, n))
    BY <1>4, <2>1 DEF NotTwoWays
  <2> QED
    BY <2>1, <2>2, <2>3, <2>4 DEF NotTwoWays
<1>7. SomeWay(made, used, jobs, stack, r) => SomeWay(made, used, t, stack, r)
  <2> SUFFICES ASSUME NEW n \in Nat,
                      ByPair(made, used, r, n) \/ ByJob(jobs, r, n) \/ ByGetter(stack, r, n)
               PROVE  SomeWay(made, used, t, stack, r)
    BY DEF SomeWay
  <2>1. CASE ByJob(jobs, r, n)
    <3>1. n # 1
      BY <1>2, <2>1
    <3>2. n - 1 \in Nat /\ ByJob(t, r, n - 1)
      BY <1>1, <2>1, <3>1
    <3> QED
      BY <3>2 DEF SomeWay
  <2> QED
    BY <2>1 DEF SomeWay
<1> QED
  BY <1>3, <1>5, <1>6, <1>7 DEF WayOf, t

LEMMA SpentJob ==
  ASSUME PromiseInv, jobs # <<>>, Head(jobs).is = "thenable"
  PROVE  /\ Head(jobs).of \in Promise
         /\ Spent(used, Tail(jobs), stack, Head(jobs).of)
         /\ made[Head(jobs).of] < MaxPairs /\ ValueMade(made, Head(jobs).thenable)
<1> DEFINE p == Head(jobs).of
           t == Tail(jobs)
<1>1. /\ Head(jobs) = jobs[1] /\ Head(jobs) \in Job /\ 1 \in DOMAIN jobs
      /\ \A r, i : ByJob(t, r, i) => i \in Nat /\ ByJob(jobs, r, i + 1)
  BY Typed, QueueServed
<1>2. p \in Promise /\ made[p] < MaxPairs /\ ValueMade(made, Head(jobs).thenable)
  BY <1>1, JobKinds DEF PromiseInv, Sound, RoomKept, JobSound, JobFits
<1>3. ByJob(jobs, p, 1)
  BY <1>1 DEF ByJob
<1>4. state[p] = "pending" /\ NotTwoWays(made, used, jobs, stack, p)
  BY <1>2, <1>3, WayOfAll DEF WayOf, NoWay
<1>5. NoWay(made, used, t, stack, p)
  <2>1. \A n \in Nat : ~ByPair(made, used, p, n) /\ ~ByGetter(stack, p, n)
    BY <1>3, <1>4 DEF NotTwoWays
  <2>2. \A n \in Nat : ~ByJob(t, p, n)
    <3> SUFFICES ASSUME NEW n \in Nat, ByJob(t, p, n) PROVE FALSE
      OBVIOUS
    <3>1. n + 1 \in Nat /\ n + 1 # 1 /\ ByJob(jobs, p, n + 1)
      <4>1. n # 0
        BY <1>1, LenProperties, Typed, QueueServed DEF ByJob
      <4> QED
        BY <1>1, <4>1
    <3> QED
      BY <1>3, <1>4, <3>1 DEF NotTwoWays
  <2> QED
    BY <2>1, <2>2 DEF NoWay
<1>6. \A r \in Promise \ {p} : WayOf(state, made, used, t, stack, failed, r)
  BY WayOfServed
<1> QED
  BY <1>2, <1>4, <1>5, <1>6 DEF Spent

(* What comes instead of the way that was used: p is settled, or a job or  *)
(* a getter or a new pair is the way, or it is lost with an allocation.    *)
NextWay(st, m, js, s, fl, u0, js0, s0, p) ==
  \/ /\ st[p] # "pending" /\ m = made /\ SameJobWays(js, js0) /\ s = s0
  \/ /\ st[p] = "pending" /\ m = made /\ s = s0 /\ js0 \in Seq(Job)
     /\ \E e \in Job : js = Append(js0, e) /\ e.is = "thenable" /\ e.of = p
  \/ /\ st[p] = "pending" /\ m = made /\ s = s0 /\ js = js0 /\ fl = TRUE
  \/ /\ st[p] = "pending" /\ m = made /\ js = js0 /\ s0 \in Seq(Frame) /\ s = Append(s0, Getter(p))
  \/ /\ st[p] = "pending" /\ m = [made EXCEPT ![p] = @ + 1] /\ SameJobWays(js, js0)
     /\ \A r, i : ByGetter(s, r, i) <=> ByGetter(s0, r, i)
     /\ \A x \in u0 : x[1] = p => x[2] < made[p]

LEMMA OneWayAgain ==
  ASSUME PromiseInv, NEW p \in Promise, NEW u0, NEW js0, NEW s0, Spent(u0, js0, s0, p),
         NEW st, NEW m, NEW js, NEW s, NEW fl \in BOOLEAN, failed => fl,
         \A r \in Promise \ {p} : st[r] = state[r],
         NextWay(st, m, js, s, fl, u0, js0, s0, p)
  PROVE  \A r \in Promise : WayOf(st, m, u0, js, s, fl, r)
<1>1. /\ NoWay(made, u0, js0, s0, p)
      /\ \A r \in Promise \ {p} : WayOf(state, made, u0, js0, s0, failed, r)
      /\ made \in [Promise -> 0 .. MaxPairs]
  BY Typed DEF Spent
<1>2. CASE st[p] # "pending" /\ m = made /\ SameJobWays(js, js0) /\ s = s0
  BY <1>1, <1>2 DEF WayOf, NoWay, SomeWay, NotTwoWays, SameJobWays
<1>3. CASE st[p] = "pending" /\ m = made /\ s = s0 /\ js = js0 /\ fl = TRUE
  BY <1>1, <1>3 DEF WayOf, NoWay, SomeWay, NotTwoWays
<1>4. ASSUME st[p] = "pending", m = made, s = s0, js0 \in Seq(Job),
             NEW e \in Job, js = Append(js0, e), e.is = "thenable", e.of = p
      PROVE  \A r \in Promise : WayOf(st, m, u0, js, s, fl, r)
  <2>1. /\ \A r, i : ByJob(js, r, i) <=> ByJob(js0, r, i) \/ (i = Len(js0) + 1 /\ r = p)
        /\ Len(js0) + 1 \in Nat
    BY <1>4, QueueAppended
  <2>2. WayOf(st, m, u0, js, s, fl, p)
    BY <1>1, <1>4, <2>1 DEF WayOf, NoWay, SomeWay, NotTwoWays
  <2>3. \A r \in Promise \ {p} : WayOf(st, m, u0, js, s, fl, r)
    BY <1>1, <1>4, <2>1 DEF WayOf, NoWay, SomeWay, NotTwoWays
  <2> QED
    BY <2>2, <2>3
<1>5. ASSUME st[p] = "pending", m = made, js = js0, s0 \in Seq(Frame), s = Append(s0, Getter(p))
      PROVE  \A r \in Promise : WayOf(st, m, u0, js, s, fl, r)
  <2>1. /\ \A r, i : ByGetter(s, r, i) <=> ByGetter(s0, r, i) \/ (i = Len(s0) + 1 /\ r = p)
        /\ Len(s0) + 1 \in Nat
    <3>1. /\ Len(s0) \in Nat /\ DOMAIN s0 = 1 .. Len(s0) /\ DOMAIN s = 1 .. Len(s0) + 1
          /\ s[Len(s0) + 1] = Getter(p) /\ \A i \in 1 .. Len(s0) : s[i] = s0[i]
      BY <1>5, NewFrames, AppendProperties, LenProperties
    <3>2. \A i : i \in DOMAIN s <=> i \in DOMAIN s0 \/ i = Len(s0) + 1
      BY <3>1
    <3>3. Len(s0) + 1 \notin DOMAIN s0
      BY <3>1
    <3> QED
      BY <3>1, <3>2, <3>3, NewFrames DEF ByGetter
  <2>2. WayOf(st, m, u0, js, s, fl, p)
    BY <1>1, <1>5, <2>1 DEF WayOf, NoWay, SomeWay, NotTwoWays
  <2>3. \A r \in Promise \ {p} : WayOf(st, m, u0, js, s, fl, r)
    BY <1>1, <1>5, <2>1 DEF WayOf, NoWay, SomeWay, NotTwoWays
  <2> QED
    BY <2>2, <2>3
<1>6. CASE /\ st[p] = "pending" /\ m = [made EXCEPT ![p] = @ + 1] /\ SameJobWays(js, js0)
           /\ \A r, i : ByGetter(s, r, i) <=> ByGetter(s0, r, i)
           /\ \A x \in u0 : x[1] = p => x[2] < made[p]
  <2>1. made[p] \in Nat /\ m[p] = made[p] + 1 /\ \A r \in Promise \ {p} : m[r] = made[r]
    BY <1>1, <1>6
  <2>2. <<p, made[p]>> \notin u0
    <3>1. <<p, made[p]>>[1] = p /\ <<p, made[p]>>[2] = made[p] /\ ~(made[p] < made[p])
      BY <2>1
    <3> QED
      BY <1>6, <3>1
  <2>3. \A n \in Nat : ByPair(m, u0, p, n) <=> n = made[p]
    <3>1. \A n \in Nat : n \in 0 .. m[p] - 1 <=> n \in 0 .. made[p] - 1 \/ n = made[p]
      BY <2>1
    <3>2. \A n \in Nat : n \in 0 .. made[p] - 1 => <<p, n>> \in u0
      BY <1>1 DEF NoWay, ByPair
    <3>3. made[p] \notin 0 .. made[p] - 1
      BY <2>1
    <3> QED
      BY <2>2, <3>1, <3>2, <3>3 DEF ByPair
  <2>4. WayOf(st, m, u0, js, s, fl, p)
    BY <1>1, <1>6, <2>1, <2>3 DEF WayOf, NoWay, SomeWay, NotTwoWays, SameJobWays
  <2>5. \A r \in Promise \ {p} : \A n \in Nat : ByPair(m, u0, r, n) <=> ByPair(made, u0, r, n)
    BY <2>1 DEF ByPair
  <2>6. \A r \in Promise \ {p} : WayOf(st, m, u0, js, s, fl, r)
    BY <1>1, <1>6, <2>5 DEF WayOf, NoWay, SomeWay, NotTwoWays, SameJobWays
  <2> QED
    BY <2>4, <2>6
<1> QED
  BY <1>2, <1>3, <1>4, <1>5, <1>6 DEF NextWay
-----------------------------------------------------------------------------
(* The parts of the invariant after a step that is not quiet.              *)
JobsSound(m, a, q) == \A i \in DOMAIN q : JobSound(m, a, q[i]) /\ JobFits(m, q[i])
FramesSound(m, s)  == \A i \in DOMAIN s : FrameSound(m, s[i]) /\ FrameFits(m, s[i])
UsedMade(m, u)     == u \subseteq Pair /\ \A x \in u : PairMade(m, x)
MadeGrows(st, m) ==
  /\ st \in [Promise -> {"none", "pending", "fulfilled", "rejected"}]
  /\ m \in [Promise -> 0 .. MaxPairs]
  /\ \A p \in Promise : made[p] <= m[p] /\ (st[p] = "none" <=> m[p] = 0)

LEMMA Carried ==
  ASSUME PromiseInv, MadeGrows(state', made'), result' \in [Promise -> Result], NeverNested',
         UsedMade(made', used'), GivenMade(made', given'), AsyncMade(made', async, async'),
         reactions' \in [Promise -> Seq(ReactionRecord)],
         ReactionsFrom(made', async', reactions, reactions'),
         jobs' \in Seq(Job), JobsSound(made', async', jobs'), failed' \in BOOLEAN,
         stack' \in Seq(Frame), FramesSound(made', stack'), OneWay'
  PROVE  PromiseInv'
<1>1. TypeOK'
  BY DEF TypeOK, MadeGrows, UsedMade, GivenMade, AsyncMade, ReactionRecord
<1>2. Grown(made, async, made', async')
  BY Typed DEF MadeGrows, AsyncMade, Grown
<1>3. \A p \in Promise : \A i \in DOMAIN reactions'[p] : ReactionSound(made', async', reactions'[p][i])
  <2> SUFFICES ASSUME NEW p \in Promise, NEW i \in DOMAIN reactions[p]
               PROVE  ReactionSound(made', async', reactions[p][i])
    BY DEF ReactionsFrom
  <2>1. reactions[p] \in Seq(ReactionRecord) /\ ReactionSound(made, async, reactions[p][i])
    BY Typed DEF PromiseInv, Sound
  <2>2. reactions[p][i] \in ReactionRecord
    BY <2>1, ElementOfSeq, LenProperties
  <2> QED
    BY <1>2, <2>1, <2>2, StaySound
<1>4. Sound'
  BY <1>3 DEF Sound, MadeGrows, UsedMade, GivenMade, AsyncMade, JobsSound, FramesSound
<1>5. RoomKept'
  BY DEF RoomKept, JobsSound, FramesSound
<1> QED
  BY <1>1, <1>4, <1>5 DEF PromiseInv

(* What was sound is sound when no pair is made.                           *)
LEMMA StillSound ==
  ASSUME PromiseInv
  PROVE  /\ MadeGrows(state, made) /\ UsedMade(made, used)
         /\ JobsSound(made, async, jobs) /\ FramesSound(made, stack)
         /\ stack # <<>> => FramesSound(made, Pop)
         /\ \A m, a, q, js : JobsFrom(m, a, q, js) /\ JobsSound(m, a, q) => JobsSound(m, a, js)
         /\ \A m, a, q, e : q \in Seq(Job) /\ e \in Job /\ JobsSound(m, a, q)
                            /\ JobSound(m, a, e) /\ JobFits(m, e) => JobsSound(m, a, Append(q, e))
         /\ \A m, s, fr : s \in Seq(Frame) /\ fr \in Frame /\ FramesSound(m, s)
                            /\ FrameSound(m, fr) /\ FrameFits(m, fr) => FramesSound(m, Append(s, fr))
<1>1. MadeGrows(state, made) /\ UsedMade(made, used)
  BY Typed DEF MadeGrows, UsedMade, PromiseInv, Sound
<1>2. JobsSound(made, async, jobs) /\ FramesSound(made, stack)
  BY DEF PromiseInv, Sound, RoomKept, JobsSound, FramesSound
<1>3. ASSUME stack # <<>> PROVE FramesSound(made, Pop)
  <2>1. Len(stack) \in Nat \ {0} /\ Len(Pop) = Len(stack) - 1 /\ DOMAIN stack = 1 .. Len(stack)
        /\ DOMAIN Pop = 1 .. Len(Pop) /\ \A i \in 1 .. Len(stack) - 1 : Pop[i] = stack[i]
    BY <1>3, Typed, TopFrame, Popped, LenProperties DEF Pop
  <2>2. \A i \in DOMAIN Pop : i \in DOMAIN stack /\ Pop[i] = stack[i]
    BY <2>1
  <2> QED
    BY <1>2, <2>2 DEF FramesSound
<1>4. ASSUME NEW m, NEW a, NEW q \in Seq(Job), NEW e \in Job, JobsSound(m, a, q),
             JobSound(m, a, e), JobFits(m, e)
      PROVE  JobsSound(m, a, Append(q, e))
  <2>1. /\ Len(q) \in Nat /\ DOMAIN q = 1 .. Len(q) /\ DOMAIN Append(q, e) = 1 .. Len(q) + 1
        /\ Append(q, e)[Len(q) + 1] = e /\ \A i \in 1 .. Len(q) : Append(q, e)[i] = q[i]
    BY AppendProperties, LenProperties
  <2>2. \A i \in DOMAIN Append(q, e) : i \in DOMAIN q \/ i = Len(q) + 1
    BY <2>1
  <2> QED
    BY <1>4, <2>1, <2>2 DEF JobsSound
<1>5. ASSUME NEW m, NEW s \in Seq(Frame), NEW fr \in Frame, FramesSound(m, s),
             FrameSound(m, fr), FrameFits(m, fr)
      PROVE  FramesSound(m, Append(s, fr))
  <2>1. /\ Len(s) \in Nat /\ DOMAIN s = 1 .. Len(s) /\ DOMAIN Append(s, fr) = 1 .. Len(s) + 1
        /\ Append(s, fr)[Len(s) + 1] = fr /\ \A i \in 1 .. Len(s) : Append(s, fr)[i] = s[i]
    BY AppendProperties, LenProperties
  <2>2. \A i \in DOMAIN Append(s, fr) : i \in DOMAIN s \/ i = Len(s) + 1
    BY <2>1
  <2> QED
    BY <1>5, <2>1, <2>2 DEF FramesSound
<1>6. \A m, a, q, js : JobsFrom(m, a, q, js) /\ JobsSound(m, a, q) => JobsSound(m, a, js)
  BY DEF JobsFrom, JobsSound, JobFits
<1> QED
  BY <1>1, <1>2, <1>3, <1>4, <1>5, <1>6

(* The way that is used settles p.                                         *)
LEMMA SettleStep ==
  ASSUME PromiseInv, NEW p \in Promise, UsedMade(made, used'), Spent(used', jobs, stack', p),
         NEW v \in Result, NEW r \in BOOLEAN, ~r => v \in {Prim, Object},
         fulfill_or_reject_promise(p, v, r),
         stack' \in Seq(Frame), FramesSound(made, stack'), UNCHANGED <<made, given, async>>
  PROVE  PromiseInv'
<1>1. state[p] = "pending"
  BY DEF Spent
<1>2. /\ result' \in [Promise -> Result]
      /\ state' = [state EXCEPT ![p] = IF r THEN "rejected" ELSE "fulfilled"]
      /\ state' \in [Promise -> {"none", "pending", "fulfilled", "rejected"}]
      /\ reactions' \in [Promise -> Seq(ReactionRecord)]
      /\ ReactionsFrom(made, async, reactions, reactions')
      /\ jobs' \in Seq(Job) /\ failed' \in BOOLEAN /\ (failed => failed')
      /\ JobsFrom(made, async, jobs, jobs') /\ SameJobWays(jobs', jobs)
      /\ NeverNested'
  BY <1>1, Fulfilled
<1>3. JobsSound(made, async, jobs')
  BY <1>2, StillSound
<1>4. state'[p] \in {"fulfilled", "rejected"} /\ \A q \in Promise \ {p} : state'[q] = state[q]
  BY <1>2, Typed
<1>5. MadeGrows(state', made)
  <2>1. \A q \in Promise : state'[q] = "none" <=> made[q] = 0
    BY <1>1, <1>4, Typed
  <2> QED
    BY <1>2, <2>1, Typed, StillSound DEF MadeGrows
<1>6. \A q \in Promise : WayOf(state', made, used', jobs', stack', failed', q)
  <2>1. NextWay(state', made, jobs', stack', failed', used', jobs, stack', p)
    BY <1>2, <1>4 DEF NextWay
  <2>2. \A q \in Promise \ {p} : state'[q] = state[q]
    BY <1>4
  <2>3. PICK fl \in BOOLEAN : fl = failed' /\ (failed => fl)
    BY <1>2
  <2> QED
    BY <2>1, <2>2, <2>3, OneWayAgain
<1>7. OneWay'
  BY <1>6 DEF OneWay
<1>8. made' = made /\ given' = given /\ async' = async
  OBVIOUS
<1> QED
  BY <1>2, <1>3, <1>5, <1>7, <1>8, Typed, Carried

(* A thenable job is put in its place, if there is memory for it.          *)
LEMMA FollowStep ==
  ASSUME PromiseInv, NEW p \in Promise, UsedMade(made, used'), Spent(used', jobs, stack', p),
         NEW v \in Promise \cup {Object}, ValueMade(made, v), made[p] < MaxPairs,
         Enqueue(jobs, <<Thenable(p, v)>>),
         stack' \in Seq(Frame), FramesSound(made, stack'),
         UNCHANGED <<state, result, reactions, made, given, async>>
  PROVE  PromiseInv'
<1> DEFINE e == Thenable(p, v)
<1>1. e \in Job /\ e.is = "thenable" /\ e.of = p /\ JobSound(made, async, e) /\ JobFits(made, e)
  BY NewJobs DEF JobSound, JobFits
<1>2. PICK q \in Seq(Job) : q = jobs
  BY Typed
<1>3. Enqueue(q, <<e>>)
  BY <1>2 DEF Enqueue
<1> HIDE DEF e
<1>4. \/ jobs' = Append(jobs, e) /\ failed' = failed
      \/ jobs' = jobs /\ failed' = TRUE
  BY <1>1, <1>2, <1>3, EnqueuedOne, Typed
<1>5. jobs' \in Seq(Job) /\ JobsSound(made, async, jobs') /\ failed' \in BOOLEAN /\ (failed => failed')
  <2>1. Append(q, e) \in Seq(Job) /\ JobsSound(made, async, q) /\ JobsSound(made, async, Append(q, e))
    BY <1>1, <1>2, StillSound, AppendProperties
  <2>2. failed' \in BOOLEAN /\ (failed => failed')
    <3>1. failed' = failed \/ failed' = TRUE
      BY <1>4
    <3>2. failed \in BOOLEAN
      BY Typed
    <3>3. CASE failed' = failed
      BY <3>2, <3>3
    <3>4. CASE failed' = TRUE
      BY <3>4
    <3> QED
      BY <3>1, <3>3, <3>4
  <2>3. jobs' = Append(q, e) \/ jobs' = q
    BY <1>2, <1>4
  <2> QED
    BY <2>1, <2>2, <2>3
<1>6. \A r \in Promise : WayOf(state, made, used', jobs', stack', failed', r)
  <2>1. state[p] = "pending"
    BY DEF Spent
  <2>2. NextWay(state, made, jobs', stack', failed', used', jobs, stack', p)
    BY <1>1, <1>4, <2>1, Typed DEF NextWay
  <2> QED
    BY <1>5, <2>2, OneWayAgain
<1>7. OneWay' /\ NeverNested'
  BY <1>6 DEF OneWay, PromiseInv, NeverNested
<1>8. ReactionsFrom(made, async, reactions, reactions)
  BY DEF ReactionsFrom
<1>9. made' = made /\ given' = given /\ async' = async /\ state' = state /\ result' = result
      /\ reactions' = reactions
  OBVIOUS
<1> QED
  BY <1>5, <1>7, <1>8, <1>9, Typed, StillSound, Carried

LEMMA ThenReadStep == PromiseInv /\ ThenRead => PromiseInv'
<1> SUFFICES ASSUME PromiseInv, ThenRead PROVE PromiseInv'
  OBVIOUS
<1> DEFINE p == Top.promise
<1>1. stack # <<>> /\ Top.at = "getter" /\ stack' = Pop /\ UNCHANGED <<made, used, given, async>>
  BY DEF ThenRead, InCode
<1>2. p \in Promise /\ Spent(used', jobs, stack', p)
  BY <1>1, SpentGetter
<1>3. UsedMade(made, used') /\ stack' \in Seq(Frame) /\ FramesSound(made, stack')
  BY <1>1, StillSound, TopFrame
<1>4. PICK x \in Promise : x = p
  BY <1>2
<1>5. \/ fulfill_or_reject_promise(x, Error, TRUE)
      \/ fulfill_or_reject_promise(x, Object, FALSE)
      \/ made[x] < MaxPairs /\ Enqueue(jobs, <<Thenable(x, Object)>>) /\ UNCHANGED promiseVars
  <2>1. \/ fulfill_or_reject_promise(p, Error, TRUE)
        \/ fulfill_or_reject_promise(p, Object, FALSE)
        \/ made[p] < MaxPairs /\ Enqueue(jobs, <<Thenable(p, Object)>>) /\ UNCHANGED promiseVars
    BY DEF ThenRead
  <2> HIDE DEF p
  <2> QED
    BY <1>4, <2>1 DEF fulfill_or_reject_promise, Enqueue, Reaction, Thenable
<1> HIDE DEF p
<1>6. CASE fulfill_or_reject_promise(x, Error, TRUE)
  <2>1. Error \in Result
    BY DEF Result
  <2> QED
    BY <1>1, <1>2, <1>3, <1>4, <1>6, <2>1, SettleStep
<1>7. CASE fulfill_or_reject_promise(x, Object, FALSE)
  <2>1. Object \in Result /\ Object \in {Prim, Object}
    BY DEF Result
  <2> QED
    BY <1>1, <1>2, <1>3, <1>4, <1>7, <2>1, SettleStep
<1>8. CASE made[x] < MaxPairs /\ Enqueue(jobs, <<Thenable(x, Object)>>) /\ UNCHANGED promiseVars
  <2>1. ValueMade(made, Object)
    BY PromiseAssumption DEF ValueMade
  <2> QED
    BY <1>1, <1>2, <1>3, <1>4, <1>8, <2>1, FollowStep DEF promiseVars
<1> QED
  BY <1>5, <1>6, <1>7, <1>8

(* js_promise_resolve_function_call.                                       *)
LEMMA CallPopped ==
  ASSUME PromiseInv, stack # <<>>, Top.at # "getter", NEW u, NEW p, Spent(u, jobs, stack, p)
  PROVE  Spent(u, jobs, Pop, p)
<1>1. \A r, i : ByGetter(Pop, r, i) <=> ByGetter(stack, r, i)
  <2>1. /\ Over(stack, Len(stack) - 1, Pop, {})
        /\ \A i \in (Len(stack) - 1) + 1 .. Len(stack) : stack[i].at # "getter"
    BY TopFrame
  <2>2. PICK n, F : /\ Over(stack, n, Pop, F) /\ \A fr \in F : fr.at # "getter"
                    /\ \A i \in n + 1 .. Len(stack) : stack[i].at # "getter"
    BY <2>1
  <2>3. PICK s \in Seq(Frame) : s = stack
    BY Typed
  <2>4. PICK t : t = Pop
    OBVIOUS
  <2> QED
    BY <2>2, <2>3, <2>4, GettersKept
<1> QED
  BY <1>1 DEF Spent, WayOf, NoWay, SomeWay, NotTwoWays

LEMMA ResolvingStep == PromiseInv /\ js_promise_resolve_function_call => PromiseInv'
<1> SUFFICES ASSUME PromiseInv, js_promise_resolve_function_call PROVE PromiseInv'
  OBVIOUS
<1>1. stack # <<>> /\ Top.at = "call" /\ Top.at # "getter" /\ UNCHANGED <<made, given, async>>
  BY DEF js_promise_resolve_function_call
<1>2. /\ Top.pair \in Pair /\ Top.arg \in Result /\ Top.reject \in BOOLEAN
      /\ PairMade(made, Top.pair)
      /\ ~Top.reject => /\ Top.arg \in Value /\ ValueMade(made, Top.arg)
                        /\ Top.arg \in Promise => made[Top.pair[1]] < MaxPairs
  BY <1>1, TopFrame, FrameKinds DEF FrameSound, FrameFits, CodeFrames
<1>3. PICK x \in Pair : x = Top.pair
  BY <1>2
<1>4. PICK v \in Result : v = Top.arg
  BY <1>2
<1>5. PICK r \in BOOLEAN : r = Top.reject
  BY <1>2
<1>6. PICK p \in Promise : p = x[1]
  BY PairParts
<1>7. /\ PairMade(made, x)
      /\ ~r => v \in Value /\ ValueMade(made, v) /\ (v \in Promise => made[p] < MaxPairs)
  BY <1>2, <1>3, <1>4, <1>5, <1>6
<1>8. CASE x \in used
  <2>1. stack' = Pop /\ UNCHANGED <<promiseVars, used, jobVars>>
    BY <1>3, <1>8 DEF js_promise_resolve_function_call
  <2>2. StackCalm(made', stack, stack')
    BY <1>1, <2>1, Calm
  <2> QED
    BY <1>1, <2>1, <2>2, Typed, QuietFrames DEF promiseVars, jobVars, QueueCalm, Stays
<1>9. CASE x \notin used
  <2>1. /\ used' = used \cup {x}
        /\ stack' = IF ~r /\ v = Object THEN Append(Pop, Getter(p)) ELSE Pop
        /\ CASE r \/ v \in {Prim, Error} -> fulfill_or_reject_promise(p, v, r)
             [] ~r /\ v = p -> self_resolution(p)
             [] ~r /\ v = Object -> UNCHANGED <<promiseVars, jobVars>>
             [] ~r /\ v \in Promise \ {p} -> follow(p, v)
    <3> DEFINE y == Top.pair
               w == Top.arg
               k == Top.reject
    <3>1. /\ used' = used \cup {y}
          /\ stack' = IF ~k /\ w = Object THEN Append(Pop, Getter(y[1])) ELSE Pop
          /\ CASE k \/ w \in {Prim, Error} -> fulfill_or_reject_promise(y[1], w, k)
               [] ~k /\ w = y[1] -> self_resolution(y[1])
               [] ~k /\ w = Object -> UNCHANGED <<promiseVars, jobVars>>
               [] ~k /\ w \in Promise \ {y[1]} -> follow(y[1], w)
      BY <1>3, <1>9 DEF js_promise_resolve_function_call, set_already_resolved
    <3>2. y = x /\ w = v /\ k = r
      BY <1>3, <1>4, <1>5
    <3> HIDE DEF y, w, k
    <3>3. y[1] = p
      BY <1>6, <3>2
    <3>4. (k \/ w \in {Prim, Error}) /\ fulfill_or_reject_promise(y[1], w, k) =>
              fulfill_or_reject_promise(p, v, k)
      BY <3>2, <3>3 DEF fulfill_or_reject_promise, Enqueue
    <3>5. fulfill_or_reject_promise(p, v, k) => fulfill_or_reject_promise(p, v, r)
      BY <3>2 DEF fulfill_or_reject_promise, Enqueue
    <3>6. self_resolution(y[1]) => self_resolution(p)
      BY <3>2, <3>3 DEF self_resolution, fulfill_or_reject_promise, Enqueue
    <3>7. follow(y[1], w) => follow(p, v)
      BY <3>2, <3>3 DEF follow, Enqueue, Thenable
    <3> QED
      BY <3>1, <3>2, <3>3, <3>4, <3>5, <3>6, <3>7
  <2>2. Spent(used \cup {x}, jobs, stack, p)
    BY <1>6, <1>7, <1>9, SpentPair
  <2>3. Spent(used \cup {x}, jobs, Pop, p)
    BY <1>1, <2>2, CallPopped
  <2>4. UsedMade(made, used') /\ Pop \in Seq(Frame) /\ FramesSound(made, Pop)
    BY <1>1, <1>7, <2>1, StillSound, TopFrame DEF UsedMade
  <2>5. CASE r \/ v \in {Prim, Error}
    <3>1. fulfill_or_reject_promise(p, v, r) /\ stack' = Pop
      BY <1>7, <2>1, <2>5, PromiseAssumption DEF Value
    <3>2. ~r => v \in {Prim, Object}
      BY <1>7, <2>5, PromiseAssumption DEF Value
    <3> QED
      BY <1>1, <2>1, <2>3, <2>4, <3>1, <3>2, SettleStep
  <2>6. CASE ~r /\ v = p
    <3>1. self_resolution(p) /\ stack' = Pop
      BY <2>1, <2>6, PromiseAssumption
    <3>2. fulfill_or_reject_promise(p, Error, TRUE) /\ Error \in Result
      BY <3>1 DEF self_resolution, Result
    <3> QED
      BY <1>1, <2>1, <2>3, <2>4, <3>1, <3>2, SettleStep
  <2>7. CASE ~r /\ v = Object
    <3>1. stack' = Append(Pop, Getter(p)) /\ UNCHANGED <<promiseVars, jobVars>>
      BY <2>1, <2>7, PromiseAssumption
    <3>2. /\ Getter(p) \in Frame /\ FrameSound(made, Getter(p)) /\ FrameFits(made, Getter(p))
          /\ stack' \in Seq(Frame)
      BY <2>4, <3>1, NewFrames DEF FrameSound, FrameFits, CodeFrames
    <3>3. FramesSound(made, stack')
      BY <2>4, <3>1, <3>2, StillSound
    <3>4. \A q \in Promise : WayOf(state, made, used \cup {x}, jobs, stack', failed, q)
      <4>1. state[p] = "pending"
        BY <2>3 DEF Spent
      <4>2. NextWay(state, made, jobs, stack', failed, used \cup {x}, jobs, Pop, p)
        BY <2>4, <3>1, <4>1 DEF NextWay
      <4>3. PICK fl \in BOOLEAN : fl = failed
        BY Typed
      <4> QED
        BY <2>3, <4>2, <4>3, OneWayAgain
    <3>5. OneWay' /\ NeverNested'
      <4>1. /\ made' = made /\ state' = state /\ result' = result /\ jobs' = jobs
            /\ failed' = failed /\ used' = used \cup {x}
        BY <1>1, <2>1, <3>1 DEF promiseVars, jobVars
      <4> QED
        BY <3>4, <4>1 DEF OneWay, PromiseInv, NeverNested
    <3>6. ReactionsFrom(made, async, reactions, reactions)
      BY DEF ReactionsFrom
    <3>7. /\ made' = made /\ given' = given /\ async' = async /\ state' = state /\ result' = result
          /\ reactions' = reactions /\ jobs' = jobs /\ failed' = failed
      BY <1>1, <3>1 DEF promiseVars, jobVars
    <3>8. JobsSound(made, async, jobs) /\ MadeGrows(state, made)
      BY StillSound
    <3> QED
      BY <2>4, <3>2, <3>3, <3>5, <3>6, <3>7, <3>8, Typed, Carried
  <2>8. CASE ~r /\ v \in Promise \ {p}
    <3>1. follow(p, v) /\ stack' = Pop
      BY <2>1, <2>8, PromiseAssumption
    <3>2. Enqueue(jobs, <<Thenable(p, v)>>) /\ UNCHANGED <<state, result, reactions>>
      BY <3>1 DEF follow, promiseVars
    <3> QED
      BY <1>1, <1>7, <2>1, <2>3, <2>4, <2>8, <3>1, <3>2, FollowStep
  <2> QED
    BY <1>7, <2>5, <2>6, <2>7, <2>8 DEF Value
<1> QED
  BY <1>8, <1>9
-----------------------------------------------------------------------------
(* A job starts on an empty stack.                                         *)
FreshFrames(m, s) ==
  s \in Seq(Frame) /\ FramesSound(m, s) /\ \A i \in DOMAIN s : s[i].at # "getter"

LEMMA FramesOfJob ==
  ASSUME NEW m
  PROVE  /\ FreshFrames(m, <<>>)
         /\ \A s, fr : /\ FreshFrames(m, s) /\ fr \in Frame /\ FrameSound(m, fr)
                       /\ FrameFits(m, fr) /\ fr.at # "getter"
                       => FreshFrames(m, Append(s, fr)) /\ <<fr>> = Append(<<>>, fr)
<1>1. FreshFrames(m, <<>>)
  BY EmptySeq DEF FreshFrames, FramesSound
<1>2. ASSUME NEW s \in Seq(Frame), NEW fr \in Frame, FramesSound(m, s),
             \A i \in DOMAIN s : s[i].at # "getter",
             FrameSound(m, fr), FrameFits(m, fr), fr.at # "getter"
      PROVE  FreshFrames(m, Append(s, fr))
  <2>1. /\ Len(s) \in Nat /\ DOMAIN s = 1 .. Len(s) /\ DOMAIN Append(s, fr) = 1 .. Len(s) + 1
        /\ Append(s, fr)[Len(s) + 1] = fr /\ \A i \in 1 .. Len(s) : Append(s, fr)[i] = s[i]
        /\ Append(s, fr) \in Seq(Frame)
    BY AppendProperties, LenProperties
  <2>2. \A i \in DOMAIN Append(s, fr) : i \in DOMAIN s \/ i = Len(s) + 1
    BY <2>1
  <2> QED
    BY <1>2, <2>1, <2>2 DEF FramesSound, FreshFrames
<1>3. \A fr : <<fr>> = Append(<<>>, fr)
  OBVIOUS
<1> QED
  BY <1>1, <1>2, <1>3 DEF FreshFrames

LEMMA ServedSound ==
  ASSUME PromiseInv, jobs # <<>>
  PROVE  /\ Head(jobs) \in Job /\ JobSound(made, async, Head(jobs)) /\ JobFits(made, Head(jobs))
         /\ Tail(jobs) \in Seq(Job)
         /\ \A a : AsyncMade(made, async, a) => JobsSound(made, a, Tail(jobs))
<1>1. /\ Head(jobs) \in Job /\ Head(jobs) = jobs[1] /\ 1 \in DOMAIN jobs /\ Tail(jobs) \in Seq(Job)
      /\ \A i \in DOMAIN Tail(jobs) : i \in Nat /\ i + 1 \in DOMAIN jobs /\ Tail(jobs)[i] = jobs[i + 1]
  BY Typed, QueueServed
<1>2. ASSUME NEW a, AsyncMade(made, async, a) PROVE JobsSound(made, a, Tail(jobs))
  <2>1. Grown(made, async, made, a)
    BY <1>2, Typed DEF Grown, AsyncMade
  <2>2. \A i \in DOMAIN jobs : jobs[i] \in Job /\ JobSound(made, async, jobs[i]) /\ JobFits(made, jobs[i])
    BY Typed, ElementOfSeq, LenProperties, StillSound DEF JobsSound
  <2>3. \A i \in DOMAIN jobs : JobSound(made, a, jobs[i])
    BY <2>1, <2>2, StaySound
  <2> QED
    BY <1>1, <2>2, <2>3 DEF JobsSound
<1> QED
  BY <1>1, <1>2, StillSound DEF JobsSound

(* What runs in the place of a job of a reaction.                          *)
LEMMA ServeStep ==
  ASSUME PromiseInv, stack = <<>>, jobs # <<>>, Head(jobs).is = "reaction", jobs' = Tail(jobs),
         FreshFrames(made, stack'), AsyncMade(made, async, async'),
         UNCHANGED <<promiseVars, failed, made, used, given>>
  PROVE  PromiseInv'
<1>1. /\ state' = state /\ result' = result /\ reactions' = reactions /\ failed' = failed
      /\ made' = made /\ used' = used /\ given' = given
  BY DEF promiseVars
<1>2. \A p, i : ~ByGetter(stack', p, i) /\ ~ByGetter(stack, p, i)
  BY DEF FreshFrames, ByGetter
<1>3. \A r \in Promise : WayOf(state, made, used, jobs', stack', failed, r)
  <2> SUFFICES ASSUME NEW r \in Promise PROVE WayOf(state, made, used, jobs', stack', failed, r)
    OBVIOUS
  <2>1. WayOf(state, made, used, jobs', stack, failed, r)
    BY WayOfServed
  <2> QED
    BY <1>2, <2>1 DEF WayOf, NoWay, SomeWay, NotTwoWays
<1>4. OneWay' /\ NeverNested'
  BY <1>1, <1>3 DEF OneWay, PromiseInv, NeverNested
<1>5. jobs' \in Seq(Job) /\ JobsSound(made, async', jobs')
  BY ServedSound
<1>6. ReactionsFrom(made, async', reactions, reactions)
  BY DEF ReactionsFrom
<1>7. MadeGrows(state, made) /\ UsedMade(made, used)
  BY StillSound
<1> QED
  BY <1>1, <1>4, <1>5, <1>6, <1>7, Typed, Carried DEF FreshFrames

LEMMA ReactionJobStep == PromiseInv /\ promise_reaction_job => PromiseInv'
<1> SUFFICES ASSUME PromiseInv, promise_reaction_job PROVE PromiseInv'
  OBVIOUS
<1> DEFINE e == Head(jobs)
<1>1. /\ stack = <<>> /\ jobs # <<>> /\ e.is = "reaction" /\ jobs' = Tail(jobs)
      /\ UNCHANGED <<promiseVars, failed, made, used, given>>
  BY DEF promise_reaction_job
<1>2. /\ e \in Job /\ e.cap \in Pair \cup {None} /\ e.handler \in Handler
      /\ e.arg \in Result /\ e.reject \in BOOLEAN
      /\ CapMade(made, e.cap) /\ HandlerMade(made, async, e.handler)
      /\ ~e.reject => e.arg \in {Prim, Object}
      /\ \A x \in Pair : /\ e.handler = Resolving(0, x) => ~e.reject
                         /\ e.handler = Resolving(1, x) => e.reject
  BY <1>1, ServedSound, JobKinds DEF JobSound
<1>3. ~e.reject => e.arg \in Value /\ ValueMade(made, e.arg) /\ e.arg \notin Promise
  BY <1>2, PromiseAssumption DEF Value, ValueMade
<1>4. \/ e.handler = None /\ stack' = CallCap(<<>>, e.cap, e.arg, e.reject) /\ async' = async
      \/ e.handler = User /\ stack' = <<Code("handler", e.cap)>> /\ async' = async
      \/ /\ e.handler \notin {None, User} /\ e.handler.is = "resolving" /\ async' = async
         /\ stack' = Append(CallCap(<<>>, e.cap, Prim, FALSE),
                            Call(e.handler.pair, e.arg, e.handler.reject))
      \/ /\ e.handler \notin {None, User} /\ e.handler.is = "resume"
         /\ stack' = <<Code("async", <<e.handler.of, 0>>)>>
         /\ async' = [async EXCEPT ![e.handler.of] = "running"]
  BY <1>2, HandlerKinds DEF promise_reaction_job
<1> HIDE DEF e
<1>5. \A v \in Result, r \in BOOLEAN : (~r => v \in Value /\ ValueMade(made, v) /\ v \notin Promise)
        => FreshFrames(made, CallCap(<<>>, e.cap, v, r))
  <2> SUFFICES ASSUME NEW v \in Result, NEW r \in BOOLEAN,
                      ~r => v \in Value /\ ValueMade(made, v) /\ v \notin Promise
               PROVE  FreshFrames(made, CallCap(<<>>, e.cap, v, r))
    OBVIOUS
  <2>1. CASE e.cap = None
    BY <2>1, FramesOfJob DEF CallCap
  <2>2. CASE e.cap \in Pair /\ e.cap # None
    <3> DEFINE fr == Call(e.cap, v, r)
    <3>1. fr \in Frame /\ FrameSound(made, fr) /\ FrameFits(made, fr) /\ fr.at # "getter"
      BY <1>2, <2>2, NewCall DEF CapMade
    <3> HIDE DEF fr
    <3>2. CallCap(<<>>, e.cap, v, r) = Append(<<>>, fr)
      BY <2>2 DEF CallCap, fr
    <3> QED
      BY <3>1, <3>2, FramesOfJob
  <2> QED
    BY <1>2, <2>1, <2>2
<1>6. CASE e.handler = None /\ stack' = CallCap(<<>>, e.cap, e.arg, e.reject) /\ async' = async
  <2>1. FreshFrames(made, stack')
    BY <1>2, <1>3, <1>5, <1>6
  <2> QED
    BY <1>1, <1>6, <2>1, Typed, ServeStep DEF e
<1>7. CASE e.handler = User /\ stack' = <<Code("handler", e.cap)>> /\ async' = async
  <2> DEFINE fr == Code("handler", e.cap)
  <2>1. fr \in Frame /\ FrameSound(made, fr) /\ FrameFits(made, fr) /\ fr.at # "getter"
    BY <1>2, NewCode DEF CodeFrames
  <2>2. stack' = <<fr>>
    BY <1>7
  <2> HIDE DEF fr
  <2>3. FreshFrames(made, stack')
    BY <2>1, <2>2, FramesOfJob
  <2> QED
    BY <1>1, <1>7, <2>3, Typed, ServeStep DEF e
<1>8. CASE /\ e.handler \notin {None, User} /\ e.handler.is = "resolving" /\ async' = async
           /\ stack' = Append(CallCap(<<>>, e.cap, Prim, FALSE),
                              Call(e.handler.pair, e.arg, e.handler.reject))
  <2>1. PICK i \in {0, 1}, x \in Pair : e.handler = Resolving(i, x)
    BY <1>2, <1>8, HandlerKinds
  <2> DEFINE fr == Call(x, e.arg, i = 1)
  <2>2. e.handler.pair = x /\ e.handler.reject = (i = 1) /\ PairMade(made, x) /\ (i # 1 => ~e.reject)
    BY <1>2, <2>1, HandlerKinds DEF HandlerMade
  <2>3. fr \in Frame /\ FrameSound(made, fr) /\ FrameFits(made, fr) /\ fr.at # "getter"
    BY <1>2, <1>3, <2>2, NewCall
  <2>4. FreshFrames(made, CallCap(<<>>, e.cap, Prim, FALSE))
    <3>1. Prim \in Result /\ Prim \in Value /\ Prim \notin Promise /\ ValueMade(made, Prim)
      BY PromiseAssumption DEF Result, Value, ValueMade
    <3> QED
      BY <1>5, <3>1
  <2>5. stack' = Append(CallCap(<<>>, e.cap, Prim, FALSE), fr)
    BY <1>8, <2>2
  <2> HIDE DEF fr
  <2>6. FreshFrames(made, stack')
    BY <2>3, <2>4, <2>5, FramesOfJob
  <2> QED
    BY <1>1, <1>8, <2>6, Typed, ServeStep DEF e
<1>9. CASE /\ e.handler \notin {None, User} /\ e.handler.is = "resume"
           /\ stack' = <<Code("async", <<e.handler.of, 0>>)>>
           /\ async' = [async EXCEPT ![e.handler.of] = "running"]
  <2>1. PICK f \in Promise : e.handler = Resume(f) /\ e.handler.of = f /\ async[f] # None
    BY <1>2, <1>9, HandlerKinds DEF HandlerMade
  <2>2. made[f] > 0 /\ AsyncMade(made, async, async')
    BY <1>9, <2>1, Typed, PromiseAssumption DEF AsyncMade
  <2> DEFINE fr == Code("async", <<f, 0>>)
  <2>3. fr \in Frame /\ FrameSound(made, fr) /\ FrameFits(made, fr) /\ fr.at # "getter"
    <3>1. <<f, 0>> \in Pair /\ PairMade(made, <<f, 0>>) /\ <<f, 0>>[2] = 0 /\ <<f, 0>> # None
      BY <2>2, PairParts, PromiseAssumption DEF PairMade
    <3> QED
      BY <3>1, NewCode DEF CodeFrames, CapMade
  <2>4. stack' = <<fr>>
    BY <1>9, <2>1
  <2> HIDE DEF fr
  <2>5. FreshFrames(made, stack')
    BY <2>3, <2>4, FramesOfJob
  <2> QED
    BY <1>1, <2>2, <2>5, ServeStep DEF e
<1> QED
  BY <1>4, <1>6, <1>7, <1>8, <1>9

(* The pair that a thenable job makes is the way to settle its promise.    *)
LEMMA MadeOneMore ==
  ASSUME PromiseInv, jobs # <<>>, stack = <<>>, NEW p \in Promise,
         Spent(used, Tail(jobs), stack, p), made[p] < MaxPairs
  PROVE  LET m == [made EXCEPT ![p] = @ + 1]
             x == <<p, made[p]>>
         IN  /\ MadeGrows(state, m) /\ UsedMade(m, used) /\ GivenMade(m, given \cup {x})
             /\ GivenMade(m, given) /\ AsyncMade(m, async, async)
             /\ x \in Pair /\ PairMade(m, x) /\ JobsSound(m, async, Tail(jobs))
             /\ \A js, s : SameJobWays(js, Tail(jobs)) /\ (\A r, i : ~ByGetter(s, r, i)) =>
                  \A fl \in BOOLEAN : (failed => fl) =>
                    \A r \in Promise : WayOf(state, m, used, js, s, fl, r)
<1> DEFINE m == [made EXCEPT ![p] = @ + 1]
           x == <<p, made[p]>>
<1>1. /\ made[p] \in Nat /\ m \in [Promise -> 0 .. MaxPairs] /\ m[p] = made[p] + 1
      /\ \A r \in Promise \ {p} : m[r] = made[r]
      /\ \A r \in Promise : made[r] \in Nat /\ m[r] \in Nat /\ made[r] <= m[r]
  BY Typed
<1>2. state[p] = "pending"
  BY DEF Spent
<1>3. x \in Pair /\ x[1] = p /\ x[2] = made[p]
  BY <1>1, Typed DEF Pair
<1>4. PairMade(m, x)
  <2>1. made[p] < m[p]
    BY <1>1
  <2> HIDE DEF m, x
  <2> QED
    BY <1>3, <2>1 DEF PairMade
<1> HIDE DEF m, x
<1>5. Grown(made, async, m, async)
  BY <1>1, Typed DEF Grown
<1>6. \A y \in Pair : PairMade(made, y) => PairMade(m, y)
  BY <1>5, StaySound
<1>7. UsedMade(m, used) /\ GivenMade(m, given) /\ GivenMade(m, given \cup {x})
  BY <1>3, <1>4, <1>6, StillSound, Typed DEF UsedMade, GivenMade
<1>8. MadeGrows(state, m)
  <2>1. \A r \in Promise : state[r] = "none" <=> m[r] = 0
    BY <1>1, <1>2, Typed
  <2> QED
    BY <1>1, <2>1, Typed DEF MadeGrows
<1>9. AsyncMade(m, async, async)
  BY <1>1, Typed DEF AsyncMade
<1>10. JobsSound(m, async, Tail(jobs))
  <2>0. AsyncMade(made, async, async)
    BY Typed
  <2>1. Tail(jobs) \in Seq(Job) /\ JobsSound(made, async, Tail(jobs))
    BY <2>0, ServedSound
  <2>2. \A i \in DOMAIN Tail(jobs) : i \in Nat /\ Tail(jobs)[i] \in Job
    BY <2>1, ElementOfSeq, LenProperties
  <2>3. \A i \in DOMAIN Tail(jobs) : JobSound(m, async, Tail(jobs)[i])
    BY <1>5, <2>1, <2>2, StaySound DEF JobsSound
  <2>4. \A n \in Nat : ~ByJob(Tail(jobs), p, n)
    BY DEF Spent, NoWay
  <2>5. \A i \in DOMAIN Tail(jobs) : JobFits(m, Tail(jobs)[i])
    <3> SUFFICES ASSUME NEW i \in DOMAIN Tail(jobs), Tail(jobs)[i].is = "thenable"
                 PROVE  m[Tail(jobs)[i].of] < MaxPairs
      BY DEF JobFits
    <3>1. Tail(jobs)[i].of \in Promise \ {p}
      BY <2>2, <2>4, JobKinds DEF ByJob
    <3>2. made[Tail(jobs)[i].of] < MaxPairs
      BY <2>1 DEF JobsSound, JobFits
    <3> QED
      BY <1>1, <3>1, <3>2
  <2> QED
    BY <2>3, <2>5 DEF JobsSound
<1>11. ASSUME NEW js, NEW s, SameJobWays(js, Tail(jobs)), \A r, i : ~ByGetter(s, r, i),
              NEW fl \in BOOLEAN, failed => fl
       PROVE  \A r \in Promise : WayOf(state, m, used, js, s, fl, r)
  <2>1. \A y \in used : y[1] = p => y[2] < made[p]
    BY StillSound DEF UsedMade, PairMade
  <2>2. \A r, i : ~ByGetter(stack, r, i)
    BY DEF ByGetter
  <2>3. NextWay(state, m, js, s, fl, used, Tail(jobs), stack, p)
    BY <1>2, <1>11, <2>1, <2>2 DEF NextWay, m
  <2> QED
    BY <1>11, <2>3, OneWayAgain
<1> QED
  BY <1>3, <1>4, <1>7, <1>8, <1>9, <1>10, <1>11 DEF m, x

LEMMA ThenableFrame ==
  ASSUME PromiseInv, jobs # <<>>, stack = <<>>, NEW p \in Promise,
         Spent(used, Tail(jobs), stack, p), made[p] < MaxPairs,
         made' = [made EXCEPT ![p] = @ + 1], given' \in {given, given \cup {<<p, made[p]>>}},
         jobs' = Tail(jobs), FreshFrames(made', stack'), failed' \in BOOLEAN, failed => failed',
         UNCHANGED <<state, result, reactions, used, async>>
  PROVE  PromiseInv'
<1>1. /\ MadeGrows(state, made') /\ UsedMade(made', used) /\ GivenMade(made', given')
      /\ AsyncMade(made', async, async) /\ JobsSound(made', async, jobs')
  BY MadeOneMore
<1>2. \A r \in Promise : WayOf(state, made', used, jobs', stack', failed', r)
  <2>1. SameJobWays(jobs', Tail(jobs)) /\ \A r, i : ~ByGetter(stack', r, i)
    BY DEF SameJobWays, FreshFrames, ByGetter
  <2> DEFINE m == [made EXCEPT ![p] = @ + 1]
  <2>2. \A js, s : SameJobWays(js, Tail(jobs)) /\ (\A r, i : ~ByGetter(s, r, i)) =>
          \A fl \in BOOLEAN : (failed => fl) =>
            \A r \in Promise : WayOf(state, m, used, js, s, fl, r)
    BY MadeOneMore
  <2>3. m = made'
    OBVIOUS
  <2> HIDE DEF m
  <2>4. \A fl \in BOOLEAN : (failed => fl) =>
          \A r \in Promise : WayOf(state, m, used, jobs', stack', fl, r)
    BY <2>1, <2>2
  <2>5. \A r \in Promise : WayOf(state, m, used, jobs', stack', failed', r)
    BY <2>4
  <2> QED
    BY <2>3, <2>5
<1>3. OneWay' /\ NeverNested'
  BY <1>2 DEF OneWay, PromiseInv, NeverNested
<1>4. ReactionsFrom(made', async, reactions, reactions) /\ jobs' \in Seq(Job)
  BY ServedSound DEF ReactionsFrom
<1>5. /\ state' = state /\ result' = result /\ reactions' = reactions
      /\ used' = used /\ async' = async
  OBVIOUS
<1> QED
  BY <1>1, <1>3, <1>4, <1>5, Typed, Carried DEF FreshFrames

(* A promise that follows another: a promise of then() and a pair for it.  *)
Followed(p, t, q) ==
  /\ state' = [state EXCEPT ![q] = "pending"]
  /\ made' = [made EXCEPT ![q] = 1, ![p] = @ + 1]
  /\ perform_promise_then(t, <<q, 0>>, Resolving(0, <<p, made[p]>>), Resolving(1, <<p, made[p]>>),
                          Tail(jobs))
  /\ UNCHANGED <<given, stack, result, used, async>>

LEMMA FollowedStep ==
  ASSUME PromiseInv, jobs # <<>>, stack = <<>>, NEW p \in Promise, NEW t \in Promise, NEW q \in Promise,
         Spent(used, Tail(jobs), stack, p), made[p] < MaxPairs, ValueMade(made, t), Fresh(q),
         Followed(p, t, q)
  PROVE  PromiseInv'
<1> DEFINE m == [made EXCEPT ![p] = @ + 1]
           x == <<p, made[p]>>
<1>0. /\ state' = [state EXCEPT ![q] = "pending"]
      /\ result' = result /\ used' = used /\ given' = given /\ async' = async /\ stack' = stack
  BY DEF Followed
<1>1. /\ MadeGrows(state, m) /\ UsedMade(m, used) /\ GivenMade(m, given) /\ AsyncMade(m, async, async)
      /\ x \in Pair /\ PairMade(m, x) /\ JobsSound(m, async, Tail(jobs))
      /\ \A js, s : SameJobWays(js, Tail(jobs)) /\ (\A r, i : ~ByGetter(s, r, i)) =>
           \A fl \in BOOLEAN : (failed => fl) =>
             \A r \in Promise : WayOf(state, m, used, js, s, fl, r)
  BY MadeOneMore
<1>2. /\ state[p] = "pending" /\ state[q] = "none" /\ made[q] = 0 /\ state[t] # "none"
      /\ p # q /\ t # q
  <2>1. state[p] = "pending" /\ state[q] = "none" /\ made[t] > 0
    BY DEF Spent, Fresh, ValueMade
  <2> QED
    BY <2>1, Typed
<1>3. /\ made' \in [Promise -> 0 .. MaxPairs] /\ made'[q] = 1 /\ made'[p] = m[p]
      /\ \A r \in Promise \ {q} : made'[r] = m[r]
      /\ m[q] = 0 /\ m \in [Promise -> 0 .. MaxPairs] /\ \A r \in Promise : m[r] <= made'[r]
      /\ \A r \in Promise : made[r] <= made'[r]
  <2>1. /\ made \in [Promise -> 0 .. MaxPairs] /\ m \in [Promise -> 0 .. MaxPairs] /\ MaxPairs \in Nat \ {0}
    BY <1>1, Typed DEF MadeGrows
  <2>2. m[p] = made[p] + 1 /\ \A r \in Promise \ {p} : m[r] = made[r]
    BY <2>1
  <2> HIDE DEF m
  <2>3. made' = [r \in Promise |-> IF r = p THEN made[p] + 1 ELSE IF r = q THEN 1 ELSE made[r]]
    BY <1>2, <2>1 DEF Followed
  <2>4. /\ made'[q] = 1 /\ made'[p] = m[p] /\ \A r \in Promise \ {q} : made'[r] = m[r]
        /\ m[q] = 0 /\ DOMAIN made' = Promise
    BY <1>2, <2>2, <2>3
  <2>5. made' \in [Promise -> 0 .. MaxPairs]
    <3>1. \A r \in Promise : made'[r] \in 0 .. MaxPairs
      BY <2>1, <2>4
    <3> QED
      BY <2>3, <3>1
  <2>6. \A r \in Promise : m[r] <= made'[r] /\ made[r] <= m[r]
    <3>1. \A r \in Promise : m[r] \in Nat /\ made[r] \in Nat
      BY <2>1
    <3> QED
      BY <2>2, <2>4, <3>1
  <2>7. \A r \in Promise : made[r] <= made'[r]
    <3>1. \A r \in Promise : m[r] \in Nat /\ made[r] \in Nat /\ made'[r] \in Nat
      BY <2>1, <2>5
    <3> QED
      BY <2>6, <3>1
  <2> QED
    BY <2>1, <2>4, <2>5, <2>6, <2>7
<1> HIDE DEF m, x
<1>4. Grown(m, async, made', async) /\ \A y \in Pair : PairMade(m, y) => PairMade(made', y)
  <2>1. Grown(m, async, made', async)
    BY <1>3, Typed DEF Grown
  <2> QED
    BY <2>1, StaySound
<1>5. UsedMade(made', used) /\ GivenMade(made', given) /\ AsyncMade(made', async, async)
  BY <1>1, <1>3, <1>4, Typed DEF UsedMade, GivenMade, AsyncMade
<1>6. MadeGrows(state', made')
  <2>1. \A r \in Promise : state'[r] = "none" <=> made'[r] = 0
    BY <1>0, <1>1, <1>2, <1>3, Typed DEF MadeGrows
  <2> QED
    BY <1>0, <1>3, <2>1, Typed DEF MadeGrows
<1>7. <<q, 0>> \in Pair /\ <<q, 0>>[1] = q /\ <<q, 0>>[2] = 0 /\ PairMade(made', <<q, 0>>) /\ PairMade(made', x)
  BY <1>1, <1>3, <1>4, PairParts DEF PairMade
<1> DEFINE rd == [cap |-> <<q, 0>>, on |-> <<Resolving(0, x), Resolving(1, x)>>]
<1>8. rd.cap = <<q, 0>> /\ rd.on[1] = Resolving(0, x) /\ rd.on[2] = Resolving(1, x)
  OBVIOUS
<1>9. rd \in ReactionRecord /\ ReactionSound(made', async', rd)
  BY <1>0, <1>1, <1>7, NewReaction DEF CapMade
<1> HIDE DEF rd
<1>10. Tail(jobs) \in Seq(Job) /\ JobsSound(made', async, Tail(jobs))
  <2>0. AsyncMade(made, async, async)
    BY Typed
  <2>1. Tail(jobs) \in Seq(Job) /\ JobsSound(m, async, Tail(jobs))
    BY <1>1, <2>0, ServedSound
  <2>2. \A i \in DOMAIN Tail(jobs) : i \in Nat /\ Tail(jobs)[i] \in Job
    BY <2>1, ElementOfSeq, LenProperties
  <2>3. \A i \in DOMAIN Tail(jobs) : JobSound(made', async, Tail(jobs)[i])
    BY <1>4, <2>1, <2>2, StaySound DEF JobsSound
  <2>4. \A n \in Nat : ~ByJob(Tail(jobs), q, n)
    BY <1>2 DEF Spent, WayOf, NoWay
  <2>5. \A i \in DOMAIN Tail(jobs) : JobFits(made', Tail(jobs)[i])
    <3> SUFFICES ASSUME NEW i \in DOMAIN Tail(jobs), Tail(jobs)[i].is = "thenable"
                 PROVE  made'[Tail(jobs)[i].of] < MaxPairs
      BY DEF JobFits
    <3>1. Tail(jobs)[i].of \in Promise \ {q}
      BY <2>2, <2>4, JobKinds DEF ByJob
    <3>2. m[Tail(jobs)[i].of] < MaxPairs
      BY <2>1 DEF JobsSound, JobFits
    <3> QED
      BY <1>3, <3>1, <3>2
  <2> QED
    BY <2>1, <2>3, <2>5 DEF JobsSound
<1>11. PICK js \in Seq(Job) : js = Tail(jobs)
  BY <1>10
<1>12. perform_promise_then(t, rd.cap, rd.on[1], rd.on[2], js)
  BY <1>8, <1>11 DEF Followed, perform_promise_then, Enqueue, x
<1>13. /\ reactions' \in [Promise -> Seq(ReactionRecord)] /\ jobs' \in Seq(Job)
       /\ failed' \in BOOLEAN /\ (failed => failed')
       /\ ReactionsFrom(made', async', reactions, reactions')
       /\ JobsFrom(made', async', js, jobs') /\ SameJobWays(jobs', js)
  BY <1>2, <1>9, <1>12, Performed
<1>14. JobsSound(made', async, jobs')
  BY <1>0, <1>10, <1>11, <1>13, StillSound
<1>15. \A r \in Promise : WayOf(state', made', used, jobs', stack', failed', r)
  <2>1. \A r, i : ~ByGetter(stack', r, i)
    BY <1>0 DEF ByGetter
  <2>2. \A r \in Promise : WayOf(state, m, used, jobs', stack', failed', r)
    <3>1. \A fl \in BOOLEAN : (failed => fl) =>
            \A r \in Promise : WayOf(state, m, used, jobs', stack', fl, r)
      BY <1>1, <1>11, <1>13, <2>1
    <3> QED
      BY <1>13, <3>1
  <2>3. \A r \in Promise \ {q} : state'[r] = state[r] /\ \A n \in Nat :
          ByPair(made', used, r, n) <=> ByPair(m, used, r, n)
    BY <1>0, <1>3, Typed DEF ByPair
  <2>4. \A r \in Promise \ {q} : WayOf(state', made', used, jobs', stack', failed', r)
    BY <2>2, <2>3 DEF WayOf, NoWay, SomeWay, NotTwoWays
  <2>5. NoWay(m, used, jobs', stack', q) /\ state'[q] = "pending"
    BY <1>0, <1>2, <2>2, Typed DEF WayOf
  <2>6. \A n \in Nat : ByPair(made', used, q, n) <=> n = 0
    <3>1. \A y \in used : y[1] # q
      <4> SUFFICES ASSUME NEW y \in used, y[1] = q PROVE FALSE
        OBVIOUS
      <4>1. y[2] \in Nat /\ y[2] < made[q]
        BY PairParts, StillSound, Typed DEF UsedMade, PairMade
      <4> QED
        BY <1>2, <4>1
    <3>2. <<q, 0>> \notin used
      BY <1>7, <3>1
    <3>3. made'[q] - 1 = 0 /\ \A n \in Nat : n \in 0 .. 0 <=> n = 0
      BY <1>3
    <3> QED
      BY <3>2, <3>3 DEF ByPair
  <2>7. WayOf(state', made', used, jobs', stack', failed', q)
    BY <2>5, <2>6 DEF WayOf, NoWay, SomeWay, NotTwoWays
  <2> QED
    BY <2>4, <2>7
<1>16. OneWay' /\ NeverNested'
  <2>1. \A r \in Promise : state'[r] = "fulfilled" => state[r] = "fulfilled"
    BY <1>0, <1>2, Typed
  <2> QED
    BY <1>0, <1>15, <2>1 DEF OneWay, PromiseInv, NeverNested
<1>17. FramesSound(made', stack')
  BY <1>0 DEF FramesSound
<1> QED
  BY <1>0, <1>5, <1>6, <1>13, <1>14, <1>16, <1>17, Typed, Carried

LEMMA ThenableJobStep ==
  ASSUME PromiseInv, NEW q \in Promise, js_promise_resolve_thenable_job(q)
  PROVE  PromiseInv'
<1> DEFINE e == Head(jobs)
<1>1. stack = <<>> /\ jobs # <<>> /\ e.is = "thenable" /\ UNCHANGED <<result, used, async>>
  BY DEF js_promise_resolve_thenable_job
<1>2. /\ e.of \in Promise /\ Spent(used, Tail(jobs), stack, e.of)
      /\ made[e.of] < MaxPairs /\ ValueMade(made, e.thenable)
  BY <1>1, SpentJob
<1>3. PICK p \in Promise : p = e.of
  BY <1>2
<1> DEFINE x == <<p, made[p]>>
<1>4. \/ /\ e.thenable \in Promise /\ Fresh(q)
         /\ state' = [state EXCEPT ![q] = "pending"]
         /\ made' = [made EXCEPT ![q] = 1, ![e.of] = @ + 1]
         /\ perform_promise_then(e.thenable, <<q, 0>>, Resolving(0, <<e.of, made[e.of]>>),
                                 Resolving(1, <<e.of, made[e.of]>>), Tail(jobs))
         /\ UNCHANGED <<given, stack>>
      \/ /\ made' = [made EXCEPT ![e.of] = @ + 1]
         /\ given' = given \cup {<<e.of, made[e.of]>>}
         /\ stack' = <<Code("thenable", <<e.of, made[e.of]>>)>>
         /\ jobs' = Tail(jobs)
         /\ UNCHANGED <<state, reactions, failed>>
      \/ /\ jobs' = Tail(jobs) /\ failed' = TRUE
         /\ UNCHANGED <<state, reactions, made, given, stack>>
      \/ /\ made' = [made EXCEPT ![e.of] = @ + 1]
         /\ stack' = <<Call(<<e.of, made[e.of]>>, Error, TRUE)>>
         /\ jobs' = Tail(jobs) /\ failed' = TRUE
         /\ UNCHANGED <<state, reactions, given>>
  BY DEF js_promise_resolve_thenable_job, js_create_resolving_functions
<1> HIDE DEF e
<1>5. ASSUME e.thenable \in Promise, Fresh(q),
             state' = [state EXCEPT ![q] = "pending"],
             made' = [made EXCEPT ![q] = 1, ![e.of] = @ + 1],
             perform_promise_then(e.thenable, <<q, 0>>, Resolving(0, <<e.of, made[e.of]>>),
                                  Resolving(1, <<e.of, made[e.of]>>), Tail(jobs)),
             UNCHANGED <<given, stack>>
      PROVE  PromiseInv'
  <2>1. PICK t \in Promise : t = e.thenable
    BY <1>5
  <2>2. perform_promise_then(t, <<q, 0>>, Resolving(0, <<p, made[p]>>), Resolving(1, <<p, made[p]>>),
                             Tail(jobs))
    BY <1>3, <1>5, <2>1 DEF perform_promise_then, Enqueue
  <2>3. Followed(p, t, q)
    BY <1>1, <1>3, <1>5, <2>1, <2>2 DEF Followed
  <2> QED
    BY <1>1, <1>2, <1>3, <1>5, <2>1, <2>3, FollowedStep
<1>6. made' = [made EXCEPT ![p] = @ + 1] => x \in Pair /\ PairMade(made', x)
  BY <1>1, <1>2, <1>3, MadeOneMore
<1>7. ASSUME made' = [made EXCEPT ![p] = @ + 1], given' = given \cup {x},
             stack' = <<Code("thenable", x)>>, jobs' = Tail(jobs), UNCHANGED <<state, reactions, failed>>
      PROVE  PromiseInv'
  <2> DEFINE fr == Code("thenable", x)
  <2>1. fr \in Frame /\ FrameSound(made', fr) /\ FrameFits(made', fr) /\ fr.at # "getter"
    BY <1>6, <1>7, NewCode DEF CodeFrames, CapMade
  <2>2. stack' = <<fr>>
    BY <1>7
  <2> HIDE DEF fr
  <2>3. FreshFrames(made', stack')
    BY <2>1, <2>2, FramesOfJob
  <2> QED
    BY <1>1, <1>2, <1>3, <1>7, <2>3, Typed, ThenableFrame
<1>8. ASSUME made' = [made EXCEPT ![p] = @ + 1], failed' = TRUE,
             stack' = <<Call(x, Error, TRUE)>>, jobs' = Tail(jobs), UNCHANGED <<state, reactions, given>>
      PROVE  PromiseInv'
  <2> DEFINE fr == Call(x, Error, TRUE)
  <2>1. fr \in Frame /\ FrameSound(made', fr) /\ FrameFits(made', fr) /\ fr.at # "getter"
    <3>1. Error \in Result
      BY DEF Result
    <3> QED
      BY <1>6, <1>8, <3>1, NewCall
  <2>2. stack' = <<fr>>
    BY <1>8
  <2> HIDE DEF fr
  <2>3. FreshFrames(made', stack')
    BY <2>1, <2>2, FramesOfJob
  <2> QED
    BY <1>1, <1>2, <1>3, <1>8, <2>3, Typed, ThenableFrame
<1>9. ASSUME jobs' = Tail(jobs), failed' = TRUE, UNCHANGED <<state, reactions, made, given, stack>>
      PROVE  PromiseInv'
  <2>1. AsyncMade(made, async, async)
    BY Typed
  <2>2. jobs' \in Seq(Job) /\ JobsSound(made, async, jobs')
    BY <1>1, <1>9, <2>1, ServedSound DEF e
  <2>3. \A r \in Promise : WayOf(state, made, used, jobs', stack, TRUE, r)
    <3>1. state[p] = "pending"
      BY <1>2, <1>3 DEF Spent
    <3>2. NextWay(state, made, Tail(jobs), stack, TRUE, used, Tail(jobs), stack, p)
      BY <3>1 DEF NextWay
    <3>3. \A r \in Promise : WayOf(state, made, used, Tail(jobs), stack, TRUE, r)
      BY <1>2, <1>3, <3>2, OneWayAgain
    <3> QED
      BY <1>9, <3>3
  <2>4. /\ made' = made /\ given' = given /\ async' = async /\ state' = state /\ result' = result
        /\ reactions' = reactions /\ stack' = stack /\ used' = used
    BY <1>1, <1>9
  <2>5. OneWay' /\ NeverNested'
    BY <1>9, <2>3, <2>4 DEF OneWay, PromiseInv, NeverNested
  <2>6. ReactionsFrom(made, async, reactions, reactions)
    BY DEF ReactionsFrom
  <2> QED
    BY <1>9, <2>2, <2>4, <2>5, <2>6, Typed, StillSound, Carried
<1> QED
  BY <1>3, <1>4, <1>5, <1>7, <1>8, <1>9

-----------------------------------------------------------------------------
(* The invariant holds.                                                    *)
LEMMA Start == Init => PromiseInv
<1> SUFFICES ASSUME Init PROVE PromiseInv
  OBVIOUS
<1>1. /\ state = [p \in Promise |-> "none"] /\ result = [p \in Promise |-> None]
      /\ reactions = [p \in Promise |-> <<>>] /\ made = [p \in Promise |-> 0]
      /\ used = {} /\ given = {} /\ async = [p \in Promise |-> None]
      /\ jobs = <<>> /\ failed = FALSE /\ stack = <<>>
  BY DEF Init
<1>2. TypeOK
  <2>1. /\ <<>> \in Seq(ReactionRecord) /\ <<>> \in Seq(Job) /\ <<>> \in Seq(Frame)
        /\ None \in Result /\ 0 \in 0 .. MaxPairs
    BY PromiseAssumption, EmptySeq DEF Result
  <2>2. /\ state \in [Promise -> {"none", "pending", "fulfilled", "rejected"}]
        /\ result \in [Promise -> Result] /\ reactions \in [Promise -> Seq(ReactionRecord)]
        /\ made \in [Promise -> 0 .. MaxPairs]
        /\ async \in [Promise -> {None, "running", "suspended", "done"}]
    BY <1>1, <2>1
  <2> QED
    BY <1>1, <2>1, <2>2 DEF TypeOK, ReactionRecord
<1>3. Sound /\ RoomKept /\ NeverNested
  BY <1>1 DEF Sound, RoomKept, NeverNested
<1>4. OneWay
  <2>1. \A p \in Promise, n \in Nat :
          ~ByPair(made, used, p, n) /\ ~ByJob(jobs, p, n) /\ ~ByGetter(stack, p, n)
    BY <1>1 DEF ByPair, ByJob, ByGetter
  <2> QED
    BY <1>1, <2>1 DEF OneWay, WayOf, NoWay, NotTwoWays
<1> QED
  BY <1>2, <1>3, <1>4 DEF PromiseInv

LEMMA PromiseStep == PromiseInv /\ [Next]_vars => PromiseInv'
<1> SUFFICES ASSUME PromiseInv, [Next]_vars PROVE PromiseInv'
  OBVIOUS
<1>1. CASE UNCHANGED vars
  <2>1. /\ state' = state /\ result' = result /\ reactions' = reactions /\ made' = made
        /\ used' = used /\ given' = given /\ async' = async /\ jobs' = jobs
        /\ failed' = failed /\ stack' = stack
    BY <1>1 DEF vars
  <2> QED
    BY <2>1 DEF PromiseInv, TypeOK, Sound, RoomKept, OneWay, NeverNested
<1>2. CASE Program
  <2>1. \/ JS_Eval \/ Leave \/ Throw \/ ThenRead
        \/ \E q \in Promise : js_promise_constructor(q) \/ js_async_function_call(q)
        \/ \E x \in Pair, v \in Value, r \in BOOLEAN : CallResolving(x, v, r)
        \/ \E q \in Promise, v \in {Prim, Object}, r \in BOOLEAN : js_promise_resolve(q, v, r)
        \/ \E p \in Promise, q \in Promise, h \in Handlers : js_promise_then(p, q, h[1], h[2])
        \/ \E p \in Promise : AwaitPromise(p)
        \/ \E q \in Promise, v \in {Prim, Object} : AwaitValue(q, v)
        \/ \E v \in Value : Return(v)
    BY <1>2 DEF Program
  <2>2. JS_Eval \/ Leave \/ Throw \/ ThenRead => PromiseInv'
    BY EvalStep, LeaveStep, ThrowStep, ThenReadStep
  <2>3. (\E q \in Promise : js_promise_constructor(q) \/ js_async_function_call(q)) => PromiseInv'
    BY ConstructorStep, AsyncCallStep
  <2>4. (\E x \in Pair, v \in Value, r \in BOOLEAN : CallResolving(x, v, r)) => PromiseInv'
    BY CallStep
  <2>5. (\E q \in Promise, v \in {Prim, Object}, r \in BOOLEAN : js_promise_resolve(q, v, r)) => PromiseInv'
    BY ResolveStep
  <2>6. ASSUME NEW p \in Promise, NEW q \in Promise, NEW h \in Handlers,
               js_promise_then(p, q, h[1], h[2])
        PROVE  PromiseInv'
    BY <2>6, ThenStep
  <2>7. (\E p \in Promise : AwaitPromise(p)) => PromiseInv'
    BY AwaitPromiseStep
  <2>8. (\E q \in Promise, v \in {Prim, Object} : AwaitValue(q, v)) => PromiseInv'
    BY AwaitValueStep
  <2>9. (\E v \in Value : Return(v)) => PromiseInv'
    BY ReturnStep
  <2> QED
    BY <2>1, <2>2, <2>3, <2>4, <2>5, <2>6, <2>7, <2>8, <2>9
<1>3. CASE Native
  BY <1>3, ResolvingStep, AwaitResolvedStep DEF Native
<1>4. CASE JS_ExecutePendingJob
  BY <1>4, ReactionJobStep, ThenableJobStep DEF JS_ExecutePendingJob
<1> QED
  BY <1>1, <1>2, <1>3, <1>4 DEF Next

(* PROPERTY: pairs, jobs, frames, queue and stack are well formed at every *)
(* moment, what they refer to exists, and there is one way at most to      *)
(* settle a promise: none once it is settled, and one while it is pending  *)
(* unless an allocation failed.                                            *)
THEOREM PromisesSound == Spec => []PromiseInv
<1>1. Init => PromiseInv
  BY Start
<1>2. PromiseInv /\ [Next]_vars => PromiseInv'
  BY PromiseStep
<1> QED
  BY <1>1, <1>2, PTL DEF Spec

(* TypeOK: the variables of the model of promises keep their types.        *)
THEOREM PromisesTyped == Spec => []TypeOK
<1>1. PromiseInv => TypeOK
  BY DEF PromiseInv
<1> QED
  BY <1>1, PromisesSound, PTL

(* NeverNested: a promise is never fulfilled with a promise.               *)
THEOREM OutcomesFlat == Spec => []NeverNested
<1>1. PromiseInv => NeverNested
  BY DEF PromiseInv
<1> QED
  BY <1>1, PromisesSound, PTL

(* The ways to settle p, counted as the model counts them.                 *)
LEMMA RightsAreWays ==
  ASSUME PromiseInv, NEW p \in Promise
  PROVE  \A r : r \in Rights(p) <=>
           \E n \in Nat : \/ ByPair(made, used, p, n) /\ r = <<"pair", n>>
                          \/ ByJob(jobs, p, n) /\ r = <<"job", n>>
                          \/ ByGetter(stack, p, n) /\ r = <<"getter", n>>
<1>1. \A n : n \in 0 .. made[p] - 1 /\ <<p, n>> \notin used <=> n \in Nat /\ ByPair(made, used, p, n)
  BY Typed DEF ByPair
<1>2. \A i : i \in DOMAIN jobs => i \in Nat
  BY Typed, LenProperties
<1>3. \A i : i \in DOMAIN stack => i \in Nat /\ stack[i] \in Frame
  BY Typed, LenProperties, ElementOfSeq
<1>4. \A i : i \in DOMAIN stack => (stack[i] = Getter(p) <=> stack[i].at = "getter" /\ stack[i].promise = p)
  <2> SUFFICES ASSUME NEW i \in DOMAIN stack
               PROVE  stack[i] = Getter(p) <=> stack[i].at = "getter" /\ stack[i].promise = p
    OBVIOUS
  <2>1. stack[i] = Getter(p) => stack[i].at = "getter" /\ stack[i].promise = p
    BY NewFrames
  <2>2. stack[i].at = "getter" => stack[i] = Getter(stack[i].promise)
    BY <1>3, FrameKinds DEF CodeFrames
  <2> QED
    BY <2>1, <2>2
<1>5. \A r : r \in {<<"pair", n>> : n \in {m \in 0 .. made[p] - 1 : <<p, m>> \notin used}} <=>
             \E n \in Nat : ByPair(made, used, p, n) /\ r = <<"pair", n>>
  BY <1>1
<1>6. \A r : r \in {<<"job", i>> : i \in {j \in DOMAIN jobs : jobs[j].is = "thenable" /\ jobs[j].of = p}}
             <=> \E n \in Nat : ByJob(jobs, p, n) /\ r = <<"job", n>>
  BY <1>2 DEF ByJob
<1>7. \A r : r \in {<<"getter", i>> : i \in {j \in DOMAIN stack : stack[j] = Getter(p)}}
             <=> \E n \in Nat : ByGetter(stack, p, n) /\ r = <<"getter", n>>
  BY <1>3, <1>4 DEF ByGetter
<1> QED
  BY <1>5, <1>6, <1>7 DEF Rights

LEMMA RightsCounted == PromiseInv => OneRight
<1> SUFFICES ASSUME PromiseInv, NEW p \in Promise
             PROVE  /\ state[p] = "pending" =>
                         Cardinality(Rights(p)) = 1 \/ (failed /\ Cardinality(Rights(p)) = 0)
                    /\ state[p] # "pending" => Cardinality(Rights(p)) = 0
  BY DEF OneRight
<1>1. WayOf(state, made, used, jobs, stack, failed, p)
  BY WayOfAll
<1>2. ASSUME NEW r \in Rights(p), NEW w \in Rights(p) PROVE r = w
  <2>1. PICK n \in Nat : \/ ByPair(made, used, p, n) /\ r = <<"pair", n>>
                         \/ ByJob(jobs, p, n) /\ r = <<"job", n>>
                         \/ ByGetter(stack, p, n) /\ r = <<"getter", n>>
    BY RightsAreWays
  <2>2. PICK k \in Nat : \/ ByPair(made, used, p, k) /\ w = <<"pair", k>>
                         \/ ByJob(jobs, p, k) /\ w = <<"job", k>>
                         \/ ByGetter(stack, p, k) /\ w = <<"getter", k>>
    BY RightsAreWays
  <2>3. NotTwoWays(made, used, jobs, stack, p)
    BY <1>1 DEF WayOf
  <2> QED
    BY <2>1, <2>2, <2>3 DEF NotTwoWays
<1>3. Rights(p) = {} \/ \E r : Rights(p) = {r}
  BY <1>2
<1>4. Rights(p) = {} => Cardinality(Rights(p)) = 0
  BY FS_EmptySet
<1>5. (\E r : Rights(p) = {r}) => Cardinality(Rights(p)) = 1
  BY FS_Singleton
<1>6. CASE state[p] # "pending"
  <2>1. NoWay(made, used, jobs, stack, p)
    BY <1>1, <1>6 DEF WayOf
  <2>2. Rights(p) = {}
    BY <2>1, RightsAreWays DEF NoWay
  <2> QED
    BY <1>4, <1>6, <2>2
<1>7. CASE state[p] = "pending"
  <2>1. ASSUME ~failed PROVE Rights(p) # {}
    <3>1. PICK n \in Nat : ByPair(made, used, p, n) \/ ByJob(jobs, p, n) \/ ByGetter(stack, p, n)
      BY <1>1, <1>7, <2>1 DEF WayOf, SomeWay
    <3> QED
      BY <3>1, RightsAreWays
  <2> QED
    BY <1>3, <1>4, <1>5, <1>7, <2>1
<1> QED
  BY <1>6, <1>7

(* OneRight: there is exactly one right to settle a pending promise, as    *)
(* long as no allocation has failed, and none to settle a settled one.     *)
THEOREM SettledOnce == Spec => []OneRight
BY PromisesSound, RightsCounted, PTL
-----------------------------------------------------------------------------
(* Async functions.  What waits is moved by a step: nothing is waited for  *)
(* twice, nor lost while allocations succeed.                              *)
Moved(rs, js, rs2, js2, fl, f) ==
  /\ Unawaited(rs, js, f) => Unawaited(rs2, js2, f)
  /\ NotTwoAwaits(rs, js, f) => NotTwoAwaits(rs2, js2, f)
  /\ SomeAwait(rs, js, f) /\ ~fl => SomeAwait(rs2, js2, f)
SameFrames(s, t, f) == \A i : Executes(t, f, i) <=> Executes(s, f, i)

LEMMA AwaitKept ==
  ASSUME NEW f \in Promise, NEW a, NEW rs, NEW js, NEW s, NEW fl \in BOOLEAN,
         AwaitOf(a, rs, js, s, fl, f),
         NEW a2, NEW rs2, NEW js2, NEW t, NEW fl2 \in BOOLEAN, fl => fl2, a2[f] = a[f],
         Moved(rs, js, rs2, js2, fl2, f), SameFrames(s, t, f)
  PROVE  AwaitOf(a2, rs2, js2, t, fl2, f)
<1>1. Stopped(s, f) => Stopped(t, f)
  BY DEF SameFrames, Stopped
<1>2. OneFrame(s, f) => OneFrame(t, f)
  BY DEF SameFrames, OneFrame
<1> QED
  BY <1>1, <1>2 DEF AwaitOf, Moved

(* The job at the head of the queue is no place to wait for f.             *)
LEMMA MovedServed ==
  ASSUME NEW rs, NEW q \in Seq(Job), q # <<>>, NEW f \in Promise, NEW fl,
         ~(Head(q).is = "reaction" /\ Head(q).handler = Resume(f))
  PROVE  Moved(rs, q, rs, Tail(q), fl, f)
<1> DEFINE t == Tail(q)
<1>1. /\ Head(q) = q[1] /\ 1 \in DOMAIN q
      /\ \A i \in DOMAIN t : i \in Nat /\ i + 1 \in DOMAIN q /\ t[i] = q[i + 1]
      /\ \A i \in DOMAIN q : i \in Nat /\ (i # 1 => i - 1 \in DOMAIN t)
  BY QueueServed, LenProperties
<1> HIDE DEF t
<1>2. \A i : Waits(rs, t, f, 0, i) => i \in Nat /\ Waits(rs, q, f, 0, i + 1)
  BY <1>1, PairParts DEF Waits
<1>3. \A p, i : p # 0 => (Waits(rs, t, f, p, i) <=> Waits(rs, q, f, p, i))
  BY DEF Waits
<1>4. \A i : Waits(rs, q, f, 0, i) => Waits(rs, t, f, 0, i - 1)
  <2> SUFFICES ASSUME NEW i, Waits(rs, q, f, 0, i) PROVE Waits(rs, t, f, 0, i - 1)
    OBVIOUS
  <2>1. i \in DOMAIN q /\ q[i].is = "reaction" /\ q[i].handler = Resume(f)
    BY PairParts DEF Waits
  <2>2. i # 1
    BY <1>1, <2>1
  <2>3. i - 1 \in DOMAIN t /\ t[i - 1] = q[(i - 1) + 1] /\ (i - 1) + 1 = i
    BY <1>1, <2>1, <2>2
  <2> QED
    BY <2>1, <2>3 DEF Waits
<1>5. Unawaited(rs, q, f) => Unawaited(rs, t, f)
  BY <1>2, <1>3 DEF Unawaited
<1>6. SomeAwait(rs, q, f) => SomeAwait(rs, t, f)
  BY <1>3, <1>4 DEF SomeAwait
<1>7. ASSUME NotTwoAwaits(rs, q, f), NEW p, NEW i, NEW r, NEW j,
             Waits(rs, t, f, p, i), Waits(rs, t, f, r, j)
      PROVE  p = r /\ i = j
  <2>1. CASE p = 0 /\ r = 0
    <3>1. i \in Nat /\ j \in Nat /\ i + 1 = j + 1
      BY <1>2, <1>7, <2>1 DEF NotTwoAwaits
    <3> QED
      BY <2>1, <3>1
  <2>2. CASE p # 0 /\ r # 0
    BY <1>3, <1>7, <2>2 DEF NotTwoAwaits
  <2>3. CASE p = 0 /\ r # 0
    BY <1>2, <1>3, <1>7, <2>3 DEF NotTwoAwaits
  <2>4. CASE p # 0 /\ r = 0
    BY <1>2, <1>3, <1>7, <2>4 DEF NotTwoAwaits
  <2> QED
    BY <2>1, <2>2, <2>3, <2>4
<1> QED
  BY <1>5, <1>6, <1>7 DEF Moved, NotTwoAwaits, t

(* The head of the queue resumes f: nothing else did.                      *)
LEMMA ServedOnce ==
  ASSUME NEW rs, NEW q \in Seq(Job), q # <<>>, NEW f \in Promise, NotTwoAwaits(rs, q, f),
         Head(q).is = "reaction", Head(q).handler = Resume(f)
  PROVE  Unawaited(rs, Tail(q), f)
<1> DEFINE t == Tail(q)
<1>1. /\ Head(q) = q[1] /\ 1 \in DOMAIN q
      /\ \A i \in DOMAIN t : i \in Nat /\ i + 1 \in DOMAIN q /\ t[i] = q[i + 1] /\ i # 0
  BY QueueServed, LenProperties
<1> HIDE DEF t
<1>2. Waits(rs, q, f, 0, 1)
  BY <1>1 DEF Waits
<1>3. \A i : ~Waits(rs, t, f, 0, i)
  <2> SUFFICES ASSUME NEW i, Waits(rs, t, f, 0, i) PROVE FALSE
    OBVIOUS
  <2>1. i \in DOMAIN t /\ t[i].is = "reaction" /\ t[i].handler = Resume(f)
    BY PairParts DEF Waits
  <2>2. Waits(rs, q, f, 0, i + 1) /\ i + 1 # 1
    BY <1>1, <2>1 DEF Waits
  <2> QED
    BY <1>2, <2>2 DEF NotTwoAwaits
<1>4. \A p, i : p # 0 => ~Waits(rs, t, f, p, i)
  BY <1>2 DEF Waits, NotTwoAwaits
<1> QED
  BY <1>3, <1>4 DEF Unawaited, t

(* A job appended to the queue is a place to wait only if it resumes f.    *)
LEMMA WaitsAppended ==
  ASSUME NEW rs, NEW q \in Seq(Job), NEW e \in Job, NEW f \in Promise
  PROVE  \A p, i : Waits(rs, Append(q, e), f, p, i) <=>
           \/ Waits(rs, q, f, p, i)
           \/ p = 0 /\ i = Len(q) + 1 /\ e.is = "reaction" /\ e.handler = Resume(f)
<1> DEFINE t == Append(q, e)
           l == Len(q)
<1>1. /\ l \in Nat /\ DOMAIN q = 1 .. l /\ DOMAIN t = 1 .. l + 1
      /\ t[l + 1] = e /\ \A i \in DOMAIN q : t[i] = q[i]
  BY QueueAppended
<1> HIDE DEF t, l
<1>2. \A i : i \in DOMAIN t <=> i \in DOMAIN q \/ i = l + 1
  BY <1>1
<1>3. l + 1 \notin DOMAIN q
  BY <1>1
<1> QED
  BY <1>1, <1>2, <1>3, PairParts DEF Waits, t, l

(* What then() leaves: handlers that do not resume f add no place for f,   *)
(* and those of an await add one, unless an allocation fails.              *)
LEMMA ThenMoves ==
  ASSUME PromiseInv, NEW p \in Promise, state[p] # "none", NEW q \in Seq(Job),
         NEW rd \in ReactionRecord, ReactionSound(made', async', rd), NEW f \in Promise,
         perform_promise_then(p, rd.cap, rd.on[1], rd.on[2], q)
  PROVE  /\ rd.on[1] # Resume(f) => Moved(reactions, q, reactions', jobs', failed', f)
         /\ rd.on[1] = Resume(f) /\ Unawaited(reactions, q, f) =>
              NotTwoAwaits(reactions', jobs', f) /\ (~failed' => SomeAwait(reactions', jobs', f))
<1>0. reactions \in [Promise -> Seq(ReactionRecord)]
  BY Typed
<1>1. rd.on[1] = Resume(f) <=> rd.on[2] = Resume(f)
  BY DEF ReactionSound
<1>2. \/ /\ reactions' = [reactions EXCEPT ![p] = Append(@, rd)]
         /\ jobs' = q /\ failed' = failed /\ state[p] = "pending"
      \/ /\ reactions' = reactions /\ failed' = failed /\ state[p] # "pending"
         /\ \E e \in Job : /\ jobs' = Append(q, e) /\ e.is = "reaction"
                           /\ e.handler \in {rd.on[1], rd.on[2]}
      \/ reactions' = reactions /\ jobs' = q /\ failed' = TRUE
  BY Performed
<1>3. CASE reactions' = [reactions EXCEPT ![p] = Append(@, rd)] /\ jobs' = q
  <2> DEFINE l == Len(reactions[p])
  <2>1. /\ l \in Nat /\ DOMAIN reactions[p] = 1 .. l /\ DOMAIN reactions'[p] = 1 .. l + 1
        /\ reactions'[p][l + 1] = rd /\ \A i \in 1 .. l : reactions'[p][i] = reactions[p][i]
        /\ \A r \in Promise \ {p} : reactions'[r] = reactions[r]
    BY <1>0, <1>3, AppendProperties, LenProperties
  <2> HIDE DEF l
  <2>2. \A i : i \in DOMAIN reactions'[p] <=> i \in DOMAIN reactions[p] \/ i = l + 1
    BY <2>1
  <2>3. l + 1 \notin DOMAIN reactions[p]
    BY <2>1
  <2>4. \A r, i : Waits(reactions', jobs', f, r, i) <=>
          Waits(reactions, q, f, r, i) \/ (r = p /\ i = l + 1 /\ rd.on[1] = Resume(f))
    BY <1>3, <2>1, <2>2, <2>3, PairParts DEF Waits
  <2> QED
    BY <2>4 DEF Moved, Unawaited, SomeAwait, NotTwoAwaits
<1>4. ASSUME reactions' = reactions, NEW e \in Job, jobs' = Append(q, e), e.is = "reaction",
             e.handler \in {rd.on[1], rd.on[2]}
      PROVE  /\ rd.on[1] # Resume(f) => Moved(reactions, q, reactions', jobs', failed', f)
             /\ rd.on[1] = Resume(f) /\ Unawaited(reactions, q, f) =>
                  NotTwoAwaits(reactions', jobs', f) /\ (~failed' => SomeAwait(reactions', jobs', f))
  <2> DEFINE l == Len(q)
  <2>1. \A r, i : Waits(reactions', jobs', f, r, i) <=>
          Waits(reactions, q, f, r, i) \/ (r = 0 /\ i = l + 1 /\ rd.on[1] = Resume(f))
    BY <1>1, <1>4, WaitsAppended
  <2> HIDE DEF l
  <2> QED
    BY <2>1 DEF Moved, Unawaited, SomeAwait, NotTwoAwaits
<1>5. CASE reactions' = reactions /\ jobs' = q /\ failed' = TRUE
  BY <1>5 DEF Moved, Unawaited, SomeAwait, NotTwoAwaits
<1> QED
  BY <1>2, <1>3, <1>4, <1>5

(* The reactions of a promise that settles become jobs.                    *)
LEMMA SettleMoves ==
  ASSUME PromiseInv, NEW p \in Promise, state[p] = "pending", NEW v \in Result, NEW r \in BOOLEAN,
         ~r => v \in {Prim, Object}, fulfill_or_reject_promise(p, v, r), NEW f \in Promise
  PROVE  Moved(reactions, jobs, reactions', jobs', failed', f)
<1> DEFINE new == Taken(p, v, r)
           l == Len(jobs)
<1>1. reactions' = [reactions EXCEPT ![p] = <<>>] /\ reactions \in [Promise -> Seq(ReactionRecord)]
  BY Fulfilled, Typed
<1>2. PICK part \in Seq(Job) :
        /\ jobs' = jobs \o part /\ (~failed' => part = new)
        /\ \E g \in [1 .. Len(part) -> 1 .. Len(new)] :
             /\ \A i, j \in 1 .. Len(part) : i < j => g[i] < g[j]
             /\ \A i \in 1 .. Len(part) : part[i] = new[g[i]]
  <2>1. Extended(jobs', jobs, new, failed')
    BY Fulfilled
  <2> QED
    BY <2>1 DEF Extended
<1>3. PICK g \in [1 .. Len(part) -> 1 .. Len(new)] :
        /\ \A i, j \in 1 .. Len(part) : i < j => g[i] < g[j]
        /\ \A i \in 1 .. Len(part) : part[i] = new[g[i]]
  BY <1>2
<1>4. /\ new \in Seq(Job) /\ DOMAIN new = DOMAIN reactions[p] /\ DOMAIN new = 1 .. Len(new)
      /\ \A i \in DOMAIN new : new[i].is = "reaction"
      /\ \A i \in DOMAIN new : new[i].handler = Resume(f) <=> reactions[p][i].on[1] = Resume(f)
  <2>1. /\ new \in Seq(Job) /\ DOMAIN new = DOMAIN reactions[p]
        /\ \A i \in DOMAIN new : new[i].is = "reaction"
        /\ \A i \in DOMAIN new :
             new[i].handler = IF r THEN reactions[p][i].on[2] ELSE reactions[p][i].on[1]
    BY TakenJobs
  <2>2. \A i \in DOMAIN reactions[p] :
          reactions[p][i].on[1] = Resume(f) <=> reactions[p][i].on[2] = Resume(f)
    BY DEF PromiseInv, Sound, ReactionSound
  <2> QED
    BY <2>1, <2>2, LenProperties
<1> HIDE DEF new
<1> DEFINE k == Len(part)
           t == jobs \o part
<1>5. /\ l \in Nat /\ k \in Nat /\ DOMAIN jobs = 1 .. l /\ DOMAIN t = 1 .. l + k
      /\ \A i \in 1 .. l + k : t[i] = IF i <= l THEN jobs[i] ELSE part[i - l]
  BY Typed, ConcatProperties, LenProperties
<1>6. /\ g \in [1 .. k -> 1 .. Len(new)] /\ \A i \in 1 .. k : part[i] = new[g[i]]
      /\ \A i, j \in 1 .. k : i < j => g[i] < g[j]
      /\ jobs' = t /\ (~failed' => part = new) /\ Len(new) \in Nat
  BY <1>2, <1>3, <1>4, LenProperties
<1> HIDE DEF k, t, l
<1>7. \A i, j \in 1 .. k : g[i] = g[j] => i = j
  BY <1>5, <1>6
<1>8. reactions'[p] = <<>> /\ DOMAIN reactions'[p] = {} /\ \A q \in Promise \ {p} : reactions'[q] = reactions[q]
  BY <1>1
(* A place after the step comes from one before it.                        *)
<1>9. \A q, i : q # 0 => (Waits(reactions', jobs', f, q, i) <=> Waits(reactions, jobs, f, q, i) /\ q # p)
  BY <1>8 DEF Waits
<1>10. \A i : i \in 1 .. l => (Waits(reactions', jobs', f, 0, i) <=> Waits(reactions, jobs, f, 0, i))
  <2>1. \A i \in 1 .. l : i \in DOMAIN t /\ t[i] = jobs[i]
    BY <1>5
  <2> QED
    BY <1>5, <1>6, <2>1, PairParts DEF Waits
<1>11. \A i : i \notin 1 .. l /\ Waits(reactions', jobs', f, 0, i) =>
          i \in Nat /\ i - l \in 1 .. k /\ Waits(reactions, jobs, f, p, g[i - l])
  <2> SUFFICES ASSUME NEW i, i \notin 1 .. l, Waits(reactions', jobs', f, 0, i)
               PROVE  i \in Nat /\ i - l \in 1 .. k /\ Waits(reactions, jobs, f, p, g[i - l])
    OBVIOUS
  <2>1. i \in DOMAIN t /\ t[i].is = "reaction" /\ t[i].handler = Resume(f)
    BY <1>6, PairParts DEF Waits
  <2>2. i \in Nat /\ i - l \in 1 .. k /\ t[i] = part[i - l]
    BY <1>5, <2>1
  <2>3. g[i - l] \in DOMAIN reactions[p] /\ t[i] = new[g[i - l]]
    BY <1>4, <1>6, <2>2
  <2> QED
    BY <1>4, <2>1, <2>2, <2>3 DEF Waits
<1>12. \A i : Waits(reactions, jobs, f, 0, i) => i \in 1 .. l
  BY <1>5, PairParts DEF Waits
<1>13. Unawaited(reactions, jobs, f) => Unawaited(reactions', jobs', f)
  BY <1>9, <1>10, <1>11 DEF Unawaited
<1>14. ASSUME SomeAwait(reactions, jobs, f), ~failed' PROVE SomeAwait(reactions', jobs', f)
  <2>1. PICK q, i : Waits(reactions, jobs, f, q, i)
    BY <1>14 DEF SomeAwait
  <2>2. CASE q = p
    <3>1. i \in DOMAIN new /\ new[i].is = "reaction" /\ new[i].handler = Resume(f) /\ part = new
      BY <1>4, <1>6, <1>14, <2>1, <2>2, PairParts DEF Waits
    <3>2. i \in 1 .. k /\ k = Len(new)
      BY <1>4, <3>1 DEF k
    <3>3. l + i \in DOMAIN t /\ t[l + i] = new[i]
      BY <1>5, <3>1, <3>2
    <3>4. Waits(reactions', jobs', f, 0, l + i)
      BY <1>6, <3>1, <3>3 DEF Waits
    <3> QED
      BY <3>4 DEF SomeAwait
  <2>3. CASE q # p /\ q # 0
    BY <1>9, <2>1, <2>3 DEF SomeAwait
  <2>4. CASE q = 0
    BY <1>10, <1>12, <2>1, <2>4 DEF SomeAwait
  <2> QED
    BY <2>2, <2>3, <2>4
<1>15. ASSUME NotTwoAwaits(reactions, jobs, f), NEW q, NEW i, NEW w, NEW j,
              Waits(reactions', jobs', f, q, i), Waits(reactions', jobs', f, w, j)
       PROVE  q = w /\ i = j
  <2>0. p # 0
    BY PairParts
  <2>1. CASE q = 0 /\ i \notin 1 .. l
    <3>1. i \in Nat /\ i - l \in 1 .. k /\ Waits(reactions, jobs, f, p, g[i - l])
      BY <1>11, <1>15, <2>1
    <3>2. CASE w = 0 /\ j \notin 1 .. l
      <4>1. j \in Nat /\ j - l \in 1 .. k /\ Waits(reactions, jobs, f, p, g[j - l])
        BY <1>11, <1>15, <3>2
      <4>2. g[i - l] = g[j - l]
        BY <1>15, <3>1, <4>1 DEF NotTwoAwaits
      <4>3. i - l = j - l
        BY <1>7, <3>1, <4>1, <4>2
      <4> QED
        BY <1>5, <2>1, <3>1, <3>2, <4>1, <4>3
    <3>3. CASE w # 0
      BY <1>9, <1>15, <3>1, <3>3 DEF NotTwoAwaits
    <3>4. CASE w = 0 /\ j \in 1 .. l
      BY <1>10, <1>15, <2>0, <3>1, <3>4 DEF NotTwoAwaits
    <3> QED
      BY <3>2, <3>3, <3>4
  <2>2. CASE w = 0 /\ j \notin 1 .. l /\ ~(q = 0 /\ i \notin 1 .. l)
    <3>1. Waits(reactions, jobs, f, p, g[j - l])
      BY <1>11, <1>15, <2>2
    <3>2. CASE q # 0
      BY <1>9, <1>15, <3>1, <3>2 DEF NotTwoAwaits
    <3>3. CASE q = 0 /\ i \in 1 .. l
      BY <1>10, <1>15, <2>0, <3>1, <3>3 DEF NotTwoAwaits
    <3> QED
      BY <2>2, <3>2, <3>3
  <2>3. CASE ~(q = 0 /\ i \notin 1 .. l) /\ ~(w = 0 /\ j \notin 1 .. l)
    <3>1. Waits(reactions, jobs, f, q, i)
      BY <1>9, <1>10, <1>15, <2>3
    <3>2. Waits(reactions, jobs, f, w, j)
      BY <1>9, <1>10, <1>15, <2>3
    <3> QED
      BY <1>15, <3>1, <3>2 DEF NotTwoAwaits
  <2> QED
    BY <2>1, <2>2, <2>3
<1> QED
  BY <1>13, <1>14, <1>15 DEF Moved, NotTwoAwaits
-----------------------------------------------------------------------------
(* The frames in which f executes.                                         *)
LEMMA FramesOver ==
  ASSUME NEW s \in Seq(Frame), NEW n, NEW t, NEW F, Over(s, n, t, F), NEW f
  PROVE  /\ (\A i \in n + 1 .. Len(s) : ~FrameOf(s[i], f)) /\ (\A fr \in F : ~FrameOf(fr, f))
              => SameFrames(s, t, f)
         /\ (\A i \in 1 .. n : ~FrameOf(s[i], f)) /\ (\A fr \in F : ~FrameOf(fr, f)) => Stopped(t, f)
         /\ \A j \in n + 1 .. Len(t) :
              /\ \A i \in 1 .. n : ~FrameOf(s[i], f)
              /\ FrameOf(t[j], f) /\ \A i \in n + 1 .. Len(t) : FrameOf(t[i], f) => i = j
              => OneFrame(t, f)
<1>1. /\ Len(s) \in Nat /\ Len(t) \in Nat /\ DOMAIN s = 1 .. Len(s) /\ DOMAIN t = 1 .. Len(t)
      /\ n \in Nat /\ n <= Len(s) /\ n <= Len(t)
  BY LenProperties DEF Over
<1>2. \A i \in DOMAIN t : (i \in 1 .. n /\ i \in DOMAIN s /\ t[i] = s[i]) \/ i \in n + 1 .. Len(t)
  BY <1>1 DEF Over
<1>3. \A i \in DOMAIN s : (i \in 1 .. n /\ i \in DOMAIN t /\ t[i] = s[i]) \/ i \in n + 1 .. Len(s)
  BY <1>1 DEF Over
<1>4. \A i \in n + 1 .. Len(t) : t[i] \in F /\ i \in DOMAIN t
  BY <1>1 DEF Over
<1>5. (\A i \in n + 1 .. Len(s) : ~FrameOf(s[i], f)) /\ (\A fr \in F : ~FrameOf(fr, f))
          => SameFrames(s, t, f)
  BY <1>2, <1>3, <1>4 DEF SameFrames, Executes
<1>6. (\A i \in 1 .. n : ~FrameOf(s[i], f)) /\ (\A fr \in F : ~FrameOf(fr, f)) => Stopped(t, f)
  BY <1>2, <1>4 DEF Stopped, Executes
<1>7. ASSUME NEW j \in n + 1 .. Len(t), \A i \in 1 .. n : ~FrameOf(s[i], f), FrameOf(t[j], f),
             \A i \in n + 1 .. Len(t) : FrameOf(t[i], f) => i = j
      PROVE  OneFrame(t, f)
  BY <1>2, <1>4, <1>7 DEF OneFrame, Executes
<1> QED
  BY <1>5, <1>6, <1>7

Plain(fr) == fr.at \notin {"async", "await"}
StackPlain(s, t) ==
  \E n, F : /\ Over(s, n, t, F) /\ \A fr \in F : Plain(fr)
            /\ \A i \in n + 1 .. Len(s) : Plain(s[i])

LEMMA PlainStack ==
  ASSUME PromiseInv
  PROVE  /\ StackPlain(stack, stack)
         /\ stack # <<>> /\ Plain(Top) => StackPlain(stack, Pop)
         /\ \A fr \in Frame : Plain(fr) =>
              /\ StackPlain(stack, Append(stack, fr))
              /\ stack = <<>> => StackPlain(stack, <<fr>>)
              /\ stack # <<>> /\ Plain(Top) => StackPlain(stack, Append(Pop, fr))
         /\ \A fr, g \in Frame : stack = <<>> /\ Plain(fr) /\ Plain(g) =>
              StackPlain(stack, Append(<<fr>>, g))
<1>1. stack \in Seq(Frame) /\ Len(stack) \in Nat /\ \A i \in Len(stack) + 1 .. Len(stack) : FALSE
  BY Typed, LenProperties
<1>2. StackPlain(stack, stack)
  <2>1. Over(stack, Len(stack), stack, {})
    BY <1>1 DEF Over
  <2> QED
    BY <1>1, <2>1 DEF StackPlain
<1>3. ASSUME stack # <<>>, Plain(Top)
      PROVE  StackPlain(stack, Pop) /\ \A fr \in Frame : Plain(fr) => StackPlain(stack, Append(Pop, fr))
  <2>1. Len(stack) \in Nat \ {0} /\ Over(stack, Len(stack) - 1, Pop, {})
        /\ \A fr \in Frame : Over(stack, Len(stack) - 1, Append(Pop, fr), {fr})
    BY <1>3, TopFrame
  <2>2. \A i \in (Len(stack) - 1) + 1 .. Len(stack) : Plain(stack[i])
    <3>1. \A i \in (Len(stack) - 1) + 1 .. Len(stack) : i = Len(stack)
      BY <2>1
    <3> QED
      BY <1>3, <3>1 DEF Top
  <2>3. StackPlain(stack, Pop)
    <3>1. \A fr \in {} : Plain(fr)
      OBVIOUS
    <3> QED
      BY <2>1, <2>2, <3>1 DEF StackPlain
  <2>4. ASSUME NEW fr \in Frame, Plain(fr) PROVE StackPlain(stack, Append(Pop, fr))
    <3>1. \A x \in {fr} : Plain(x)
      BY <2>4
    <3>2. Over(stack, Len(stack) - 1, Append(Pop, fr), {fr})
      BY <2>1
    <3> QED
      BY <2>2, <3>1, <3>2 DEF StackPlain
  <2> QED
    BY <2>3, <2>4
<1>4. ASSUME NEW fr \in Frame, Plain(fr)
      PROVE  /\ StackPlain(stack, Append(stack, fr))
             /\ stack = <<>> => StackPlain(stack, <<fr>>)
  <2>1. Over(stack, Len(stack), Append(stack, fr), {fr})
    BY <1>1, Pushed
  <2>2. StackPlain(stack, Append(stack, fr))
    BY <1>1, <1>4, <2>1 DEF StackPlain
  <2>3. stack = <<>> => <<fr>> = Append(stack, fr)
    OBVIOUS
  <2> QED
    BY <2>2, <2>3
<1>5. ASSUME NEW fr \in Frame, NEW g \in Frame, stack = <<>>, Plain(fr), Plain(g)
      PROVE  StackPlain(stack, Append(<<fr>>, g))
  <2> DEFINE t == Append(<<fr>>, g)
             one == <<fr>>
  <2>1. one \in Seq(Frame) /\ Len(one) = 1 /\ one[1] = fr
    OBVIOUS
  <2>2. Len(stack) = 0
    <3>1. Len(<<>>) = 0
      OBVIOUS
    <3> QED
      BY <1>5, <3>1
  <2> HIDE DEF one
  <2>3. t \in Seq(Frame) /\ Len(t) = 2 /\ t[1] = fr /\ t[2] = g
    <3>1. Append(one, g) \in Seq(Frame) /\ Len(Append(one, g)) = Len(one) + 1
          /\ Append(one, g)[Len(one) + 1] = g /\ \A i \in 1 .. Len(one) : Append(one, g)[i] = one[i]
      <4>1. one \in Seq(Frame)
        BY <2>1
      <4> QED
        BY <4>1, AppendProperties
    <3>2. Len(one) + 1 = 2 /\ 1 \in 1 .. Len(one)
      BY <2>1
    <3>3. Append(one, g) \in Seq(Frame) /\ Len(Append(one, g)) = 2
          /\ Append(one, g)[1] = fr /\ Append(one, g)[2] = g
      BY <2>1, <3>1, <3>2
    <3> QED
      BY <3>3 DEF one
  <2> HIDE DEF t
  <2>4. Over(stack, 0, t, {fr, g})
    BY <2>2, <2>3 DEF Over
  <2>5. \A i \in 0 + 1 .. Len(stack) : FALSE
    BY <2>2
  <2> QED
    BY <1>5, <2>4, <2>5 DEF StackPlain, t
<1> QED
  BY <1>2, <1>3, <1>4, <1>5

AwaitInv == PromiseInv /\ OneAwait

(* Steps that leave the functions and their frames alone.                  *)
LEMMA PlainStep ==
  ASSUME AwaitInv, failed' \in BOOLEAN, failed => failed', async' = async, StackPlain(stack, stack'),
         \A f \in Promise : Moved(reactions, jobs, reactions', jobs', failed', f)
  PROVE  OneAwait'
<1> SUFFICES ASSUME NEW f \in Promise
             PROVE  AwaitOf(async', reactions', jobs', stack', failed', f)
  BY DEF OneAwait
<1>1. stack \in Seq(Frame) /\ failed \in BOOLEAN /\ AwaitOf(async, reactions, jobs, stack, failed, f)
  BY Typed DEF AwaitInv, OneAwait
<1>2. PICK n, F : /\ Over(stack, n, stack', F) /\ \A fr \in F : Plain(fr)
                  /\ \A i \in n + 1 .. Len(stack) : Plain(stack[i])
  BY DEF StackPlain
<1>3. SameFrames(stack, stack', f)
  <2>1. \A fr : Plain(fr) => ~FrameOf(fr, f)
    BY DEF Plain, FrameOf
  <2>2. (\A fr \in F : ~FrameOf(fr, f)) /\ \A i \in n + 1 .. Len(stack) : ~FrameOf(stack[i], f)
    BY <1>2, <2>1
  <2> QED
    BY <1>1, <1>2, <2>2, FramesOver
<1>4. Moved(reactions, jobs, reactions', jobs', failed', f) /\ async'[f] = async[f]
  OBVIOUS
<1> QED
  BY <1>1, <1>3, <1>4, AwaitKept

LEMMA MovedNot ==
  ASSUME NEW rs, NEW js, NEW fl, NEW f
  PROVE  Moved(rs, js, rs, js, fl, f)
  BY DEF Moved

(* The function whose frame is on top runs, and nowhere else.              *)
LEMMA TopOf ==
  ASSUME AwaitInv, stack # <<>>, NEW f \in Promise, FrameOf(Top, f)
  PROVE  /\ async[f] = "running" /\ Unawaited(reactions, jobs, f)
         /\ Len(stack) \in Nat \ {0}
         /\ \A i \in 1 .. Len(stack) - 1 : ~FrameOf(stack[i], f)
         /\ \A g \in Promise \ {f} : \A i \in (Len(stack) - 1) + 1 .. Len(stack) : ~FrameOf(stack[i], g)
<1>1. PromiseInv /\ AwaitOf(async, reactions, jobs, stack, failed, f)
  BY DEF AwaitInv, OneAwait
<1> DEFINE l == Len(stack)
<1>2. /\ l \in Nat \ {0} /\ l \in DOMAIN stack /\ DOMAIN stack = 1 .. l
      /\ Top = stack[l]
  BY <1>1, TopFrame, Typed, LenProperties DEF Top
<1> HIDE DEF l
<1>3. Executes(stack, f, l)
  BY <1>2 DEF Executes
<1>4. async[f] = "running" /\ Unawaited(reactions, jobs, f) /\ OneFrame(stack, f)
  <2>1. async[f] \in {None, "running", "suspended", "done"}
    BY <1>1, Typed
  <2> QED
    BY <1>1, <1>3, <2>1 DEF AwaitOf, Stopped
<1>5. ASSUME NEW i \in 1 .. l - 1 PROVE ~FrameOf(stack[i], f)
  <2>1. i \in DOMAIN stack /\ i # l
    BY <1>2
  <2> QED
    BY <1>3, <1>4, <2>1 DEF OneFrame, Executes
<1>6. \A i \in (l - 1) + 1 .. l : i = l
  BY <1>2
<1>7. ASSUME NEW g \in Promise \ {f}, NEW i \in (l - 1) + 1 .. l
      PROVE  ~FrameOf(stack[i], g)
  BY <1>2, <1>6 DEF FrameOf
<1> QED
  BY <1>2, <1>4, <1>5, <1>7 DEF l

(* Steps that leave jobs and reactions alone.                              *)
LEMMA CalmAwaits ==
  ASSUME AwaitInv, UNCHANGED <<reactions, jobs, failed, async>>, StackPlain(stack, stack')
  PROVE  OneAwait'
<1>1. failed' \in BOOLEAN /\ (failed => failed')
  BY Typed DEF AwaitInv
<1>2. \A f \in Promise : Moved(reactions, jobs, reactions', jobs', failed', f)
  BY MovedNot
<1> QED
  BY <1>1, <1>2, PlainStep

LEMMA CodeAwaits ==
  ASSUME AwaitInv,
         \/ JS_Eval \/ Leave
         \/ \E q \in Promise : js_promise_constructor(q)
         \/ \E x \in Pair, v \in Value, r \in BOOLEAN : CallResolving(x, v, r)
         \/ \E q \in Promise, v \in {Prim, Object}, r \in BOOLEAN : js_promise_resolve(q, v, r)
  PROVE  OneAwait'
<1>0. PromiseInv
  BY DEF AwaitInv
<1>1. ASSUME JS_Eval PROVE OneAwait'
  <2>1. /\ stack = <<>> /\ stack' = <<Code("script", None)>>
        /\ UNCHANGED <<reactions, jobs, failed, async>>
    BY <1>1 DEF JS_Eval, promiseVars, jobVars
  <2>2. Code("script", None) \in Frame /\ Plain(Code("script", None))
    BY NewFrames DEF CodeFrames, Plain
  <2>3. StackPlain(stack, stack')
    BY <1>0, <2>1, <2>2, PlainStack
  <2> QED
    BY <2>1, <2>3, CalmAwaits
<1>2. ASSUME Leave PROVE OneAwait'
  <2>1. /\ stack # <<>> /\ Plain(Top) /\ stack' = Pop
        /\ UNCHANGED <<reactions, jobs, failed, async>>
    BY <1>2 DEF Leave, InCode, Plain, promiseVars, jobVars
  <2>2. StackPlain(stack, stack')
    BY <1>0, <2>1, PlainStack
  <2> QED
    BY <2>1, <2>2, CalmAwaits
<1>3. ASSUME NEW fr \in Frame, Plain(fr), stack' = Append(stack, fr),
             UNCHANGED <<reactions, jobs, failed, async>>
      PROVE  OneAwait'
  <2>1. StackPlain(stack, stack')
    BY <1>0, <1>3, PlainStack
  <2> QED
    BY <1>3, <2>1, CalmAwaits
<1>4. ASSUME NEW q \in Promise, js_promise_constructor(q) PROVE OneAwait'
  <2>1. /\ stack' = Append(stack, Code("executor", <<q, 0>>))
        /\ UNCHANGED <<reactions, jobs, failed, async>>
    BY <1>4 DEF js_promise_constructor, jobVars
  <2>2. Code("executor", <<q, 0>>) \in Frame /\ Plain(Code("executor", <<q, 0>>))
    BY NewFrames, PairParts DEF CodeFrames, Plain
  <2> QED
    BY <1>3, <2>1, <2>2
<1>5. ASSUME NEW x \in Pair, NEW v \in Value, NEW r \in BOOLEAN, CallResolving(x, v, r) PROVE OneAwait'
  <2> DEFINE w == IF r THEN Error ELSE v
  <2>1. stack' = Append(stack, Call(x, w, r)) /\ UNCHANGED <<reactions, jobs, failed, async>>
    BY <1>5 DEF CallResolving, promiseVars, jobVars
  <2>2. w \in Result
    BY DEF Value, Result
  <2> HIDE DEF w
  <2>3. Call(x, w, r) \in Frame /\ Plain(Call(x, w, r))
    BY <2>2, NewFrames DEF Plain
  <2> QED
    BY <1>3, <2>1, <2>3
<1>6. ASSUME NEW q \in Promise, NEW v \in {Prim, Object}, NEW r \in BOOLEAN, js_promise_resolve(q, v, r)
      PROVE  OneAwait'
  <2> DEFINE w == IF r THEN Error ELSE v
  <2>1. stack' = Append(stack, Call(<<q, 0>>, w, r)) /\ UNCHANGED <<reactions, jobs, failed, async>>
    BY <1>6 DEF js_promise_resolve, jobVars
  <2>2. w \in Result /\ <<q, 0>> \in Pair
    BY PairParts DEF Result
  <2> HIDE DEF w
  <2>3. Call(<<q, 0>>, w, r) \in Frame /\ Plain(Call(<<q, 0>>, w, r))
    BY <2>2, NewFrames DEF Plain
  <2> QED
    BY <1>3, <2>1, <2>3
<1> QED
  BY <1>1, <1>2, <1>4, <1>5, <1>6

LEMMA ThenAwaits ==
  ASSUME AwaitInv, NEW p \in Promise, NEW q \in Promise, NEW h \in Handlers,
         js_promise_then(p, q, h[1], h[2])
  PROVE  OneAwait'
<1> DEFINE rd == [cap |-> <<q, 0>>, on |-> <<h[1], h[2]>>]
<1>0. PromiseInv
  BY DEF AwaitInv
<1>1. /\ Create(q) /\ state[p] # "none"
      /\ perform_promise_then(p, <<q, 0>>, h[1], h[2], jobs)
      /\ UNCHANGED <<result, used, given, async, stack>>
  BY DEF js_promise_then, Made
<1>2. rd.cap = <<q, 0>> /\ rd.on[1] = h[1] /\ rd.on[2] = h[2]
  OBVIOUS
<1>3. CapMade(made', <<q, 0>>) /\ <<q, 0>> \in Pair \cup {None}
  BY <1>0, <1>1, NewPair DEF CapMade
<1>4. /\ rd \in ReactionRecord /\ ReactionSound(made', async', rd)
      /\ \A f \in Promise : h[1] # Resume(f)
  <2>1. CASE h[1] \in {None, User} /\ h[2] \in {None, User}
    BY <1>3, <2>1, NewReaction, HandlerKinds
  <2>2. ASSUME NEW x \in given, h = js_create_resolving_functions(x)
        PROVE  /\ rd \in ReactionRecord /\ ReactionSound(made', async', rd)
               /\ \A f \in Promise : h[1] # Resume(f)
    <3>1. x \in Pair /\ PairMade(made', x)
      BY <1>0, <1>1, NewPair DEF GivenMade
    <3>2. h[1] = Resolving(0, x) /\ h[2] = Resolving(1, x)
      BY <2>2 DEF js_create_resolving_functions
    <3>3. rd \in ReactionRecord /\ ReactionSound(made', async', rd)
      BY <1>3, <3>1, <3>2, NewReaction
    <3>4. \A f \in Promise : h[1] # Resume(f)
      BY <3>1, <3>2, HandlerKinds
    <3> QED
      BY <3>3, <3>4
  <2> QED
    BY <2>1, <2>2 DEF Handlers
<1> HIDE DEF rd
<1>5. PICK js \in Seq(Job) : js = jobs
  BY <1>0, Typed
<1>6. perform_promise_then(p, rd.cap, rd.on[1], rd.on[2], js)
  BY <1>1, <1>2, <1>5 DEF perform_promise_then, Enqueue
<1>7. failed' \in BOOLEAN /\ (failed => failed')
  BY <1>0, <1>1, <1>4, <1>6, Performed
<1>8. \A f \in Promise : Moved(reactions, jobs, reactions', jobs', failed', f)
  BY <1>0, <1>1, <1>2, <1>4, <1>5, <1>6, ThenMoves
<1>9. StackPlain(stack, stack')
  BY <1>0, <1>1, PlainStack
<1> QED
  BY <1>1, <1>7, <1>8, <1>9, PlainStep

(* The steps that settle a promise or follow one.                          *)
LEMMA FollowMoves ==
  ASSUME PromiseInv, NEW p \in Promise, NEW v \in Promise \cup {Object},
         Enqueue(jobs, <<Thenable(p, v)>>), reactions' = reactions
  PROVE  /\ failed' \in BOOLEAN /\ (failed => failed')
         /\ \A f \in Promise : Moved(reactions, jobs, reactions', jobs', failed', f)
<1> DEFINE e == Thenable(p, v)
<1>1. e \in Job /\ e.is = "thenable" /\ e.is # "reaction"
  BY NewJobs
<1> HIDE DEF e
<1>2. jobs \in Seq(Job) /\ failed \in BOOLEAN
  BY Typed
<1>3. \/ jobs' = Append(jobs, e) /\ failed' = failed
      \/ jobs' = jobs /\ failed' = TRUE
  BY <1>1, <1>2, EnqueuedOne DEF e
<1>4. CASE jobs' = Append(jobs, e) /\ failed' = failed
  <2>1. \A f \in Promise : \A r, i :
          Waits(reactions', jobs', f, r, i) <=> Waits(reactions, jobs, f, r, i)
    BY <1>1, <1>2, <1>4, WaitsAppended
  <2> QED
    BY <1>2, <1>4, <2>1 DEF Moved, Unawaited, SomeAwait, NotTwoAwaits
<1>5. CASE jobs' = jobs /\ failed' = TRUE
  BY <1>5, MovedNot
<1> QED
  BY <1>3, <1>4, <1>5

LEMMA SettleAwaits ==
  ASSUME AwaitInv, NEW p \in Promise, state[p] = "pending", NEW v \in Result, NEW r \in BOOLEAN,
         ~r => v \in {Prim, Object}, fulfill_or_reject_promise(p, v, r),
         async' = async, StackPlain(stack, stack')
  PROVE  OneAwait'
<1>1. PromiseInv
  BY DEF AwaitInv
<1>2. failed' \in BOOLEAN /\ (failed => failed')
  BY <1>1, Fulfilled
<1>3. \A f \in Promise : Moved(reactions, jobs, reactions', jobs', failed', f)
  BY <1>1, SettleMoves
<1> QED
  BY <1>2, <1>3, PlainStep

LEMMA ThenReadAwaits == AwaitInv /\ ThenRead => OneAwait'
<1> SUFFICES ASSUME AwaitInv, ThenRead PROVE OneAwait'
  OBVIOUS
<1> DEFINE p == Top.promise
<1>0. PromiseInv
  BY DEF AwaitInv
<1>1. stack # <<>> /\ Top.at = "getter" /\ stack' = Pop /\ async' = async
  BY DEF ThenRead, InCode
<1>2. p \in Promise /\ state[p] = "pending"
  BY <1>0, <1>1, SpentGetter DEF Spent
<1>3. PICK x \in Promise : x = p
  BY <1>2
<1>4. \/ fulfill_or_reject_promise(x, Error, TRUE)
      \/ fulfill_or_reject_promise(x, Object, FALSE)
      \/ Enqueue(jobs, <<Thenable(x, Object)>>) /\ UNCHANGED promiseVars
  <2>1. \/ fulfill_or_reject_promise(p, Error, TRUE)
        \/ fulfill_or_reject_promise(p, Object, FALSE)
        \/ Enqueue(jobs, <<Thenable(p, Object)>>) /\ UNCHANGED promiseVars
    BY DEF ThenRead
  <2> HIDE DEF p
  <2> QED
    BY <1>3, <2>1 DEF fulfill_or_reject_promise, Enqueue, Reaction, Thenable
<1>5. StackPlain(stack, stack')
  BY <1>0, <1>1, PlainStack DEF Plain
<1>6. Error \in Result /\ Object \in Result /\ Object \in {Prim, Object}
  BY DEF Result
<1>7. state[x] = "pending"
  BY <1>2, <1>3
<1> HIDE DEF p
<1>8. CASE fulfill_or_reject_promise(x, Error, TRUE)
  BY <1>1, <1>5, <1>6, <1>7, <1>8, SettleAwaits
<1>9. CASE fulfill_or_reject_promise(x, Object, FALSE)
  BY <1>1, <1>5, <1>6, <1>7, <1>9, SettleAwaits
<1>10. CASE Enqueue(jobs, <<Thenable(x, Object)>>) /\ UNCHANGED promiseVars
  <2>1. /\ failed' \in BOOLEAN /\ (failed => failed')
        /\ \A f \in Promise : Moved(reactions, jobs, reactions', jobs', failed', f)
    BY <1>0, <1>10, FollowMoves DEF promiseVars
  <2> QED
    BY <1>1, <1>5, <2>1, PlainStep
<1> QED
  BY <1>4, <1>8, <1>9, <1>10

LEMMA ResolvingAwaits == AwaitInv /\ js_promise_resolve_function_call => OneAwait'
<1> SUFFICES ASSUME AwaitInv, js_promise_resolve_function_call PROVE OneAwait'
  OBVIOUS
<1>0. PromiseInv
  BY DEF AwaitInv
<1>1. stack # <<>> /\ Top.at = "call" /\ Plain(Top) /\ async' = async
  BY DEF js_promise_resolve_function_call, Plain
<1>2. /\ Top.pair \in Pair /\ Top.arg \in Result /\ Top.reject \in BOOLEAN
      /\ PairMade(made, Top.pair) /\ (~Top.reject => Top.arg \in Value)
  BY <1>0, <1>1, TopFrame, FrameKinds DEF FrameSound, CodeFrames
<1>3. PICK x \in Pair : x = Top.pair
  BY <1>2
<1>4. PICK v \in Result : v = Top.arg
  BY <1>2
<1>5. PICK r \in BOOLEAN : r = Top.reject
  BY <1>2
<1>6. PICK p \in Promise : p = x[1]
  BY PairParts
<1>7. PairMade(made, x) /\ (~r => v \in Value)
  BY <1>2, <1>3, <1>4, <1>5
<1>8. CASE x \in used
  <2>1. stack' = Pop /\ UNCHANGED <<reactions, jobs, failed, async>>
    BY <1>1, <1>3, <1>8 DEF js_promise_resolve_function_call, promiseVars, jobVars
  <2> QED
    BY <1>0, <1>1, <2>1, PlainStack, CalmAwaits
<1>9. CASE x \notin used
  <2>1. /\ stack' = IF ~r /\ v = Object THEN Append(Pop, Getter(p)) ELSE Pop
        /\ CASE r \/ v \in {Prim, Error} -> fulfill_or_reject_promise(p, v, r)
             [] ~r /\ v = p -> self_resolution(p)
             [] ~r /\ v = Object -> UNCHANGED <<promiseVars, jobVars>>
             [] ~r /\ v \in Promise \ {p} -> follow(p, v)
    <3> DEFINE y == Top.pair
               w == Top.arg
               k == Top.reject
    <3>1. /\ stack' = IF ~k /\ w = Object THEN Append(Pop, Getter(y[1])) ELSE Pop
          /\ CASE k \/ w \in {Prim, Error} -> fulfill_or_reject_promise(y[1], w, k)
               [] ~k /\ w = y[1] -> self_resolution(y[1])
               [] ~k /\ w = Object -> UNCHANGED <<promiseVars, jobVars>>
               [] ~k /\ w \in Promise \ {y[1]} -> follow(y[1], w)
      BY <1>3, <1>9 DEF js_promise_resolve_function_call
    <3>2. y = x /\ w = v /\ k = r
      BY <1>3, <1>4, <1>5
    <3> HIDE DEF y, w, k
    <3>3. y[1] = p
      BY <1>6, <3>2
    <3>4. (k \/ w \in {Prim, Error}) /\ fulfill_or_reject_promise(y[1], w, k) =>
              fulfill_or_reject_promise(p, v, k)
      BY <3>2, <3>3 DEF fulfill_or_reject_promise, Enqueue
    <3>5. fulfill_or_reject_promise(p, v, k) => fulfill_or_reject_promise(p, v, r)
      BY <3>2 DEF fulfill_or_reject_promise, Enqueue
    <3>6. self_resolution(y[1]) => self_resolution(p)
      BY <3>2, <3>3 DEF self_resolution, fulfill_or_reject_promise, Enqueue
    <3>7. follow(y[1], w) => follow(p, v)
      BY <3>2, <3>3 DEF follow, Enqueue, Thenable
    <3> QED
      BY <3>1, <3>2, <3>3, <3>4, <3>5, <3>6, <3>7
  <2>2. state[p] = "pending"
    BY <1>0, <1>6, <1>7, <1>9, SpentPair DEF Spent
  <2>3. StackPlain(stack, Pop)
    BY <1>0, <1>1, PlainStack
  <2>4. CASE r \/ v \in {Prim, Error}
    <3>1. fulfill_or_reject_promise(p, v, r) /\ stack' = Pop
      BY <1>7, <2>1, <2>4, PromiseAssumption DEF Value
    <3>2. ~r => v \in {Prim, Object}
      BY <1>7, <2>4, PromiseAssumption DEF Value
    <3> QED
      BY <1>1, <2>2, <2>3, <3>1, <3>2, SettleAwaits
  <2>5. CASE ~r /\ v = p
    <3>1. self_resolution(p) /\ stack' = Pop
      BY <2>1, <2>5, PromiseAssumption
    <3>2. fulfill_or_reject_promise(p, Error, TRUE) /\ Error \in Result
      BY <3>1 DEF self_resolution, Result
    <3> QED
      BY <1>1, <2>2, <2>3, <3>1, <3>2, SettleAwaits
  <2>6. CASE ~r /\ v = Object
    <3>1. stack' = Append(Pop, Getter(p)) /\ UNCHANGED <<reactions, jobs, failed, async>>
      BY <1>1, <2>1, <2>6, PromiseAssumption DEF promiseVars, jobVars
    <3>2. Getter(p) \in Frame /\ Plain(Getter(p))
      BY NewFrames DEF Plain
    <3>3. StackPlain(stack, stack')
      BY <1>0, <1>1, <3>1, <3>2, PlainStack
    <3> QED
      BY <3>1, <3>3, CalmAwaits
  <2>7. CASE ~r /\ v \in Promise \ {p}
    <3>1. follow(p, v) /\ stack' = Pop
      BY <2>1, <2>7, PromiseAssumption
    <3>2. Enqueue(jobs, <<Thenable(p, v)>>) /\ reactions' = reactions
      BY <3>1 DEF follow, promiseVars
    <3>3. /\ failed' \in BOOLEAN /\ (failed => failed')
          /\ \A f \in Promise : Moved(reactions, jobs, reactions', jobs', failed', f)
      BY <1>0, <2>7, <3>2, FollowMoves
    <3> QED
      BY <1>1, <2>3, <3>1, <3>3, PlainStep
  <2> QED
    BY <1>7, <2>4, <2>5, <2>6, <2>7 DEF Value
<1> QED
  BY <1>8, <1>9

(* js_promise_resolve_thenable_job.                                        *)
LEMMA MovedTwice ==
  ASSUME NEW rs, NEW js, NEW rs2, NEW js2, NEW rs3, NEW js3, NEW fl, NEW f,
         Moved(rs, js, rs2, js2, fl, f), Moved(rs2, js2, rs3, js3, fl, f)
  PROVE  Moved(rs, js, rs3, js3, fl, f)
  BY DEF Moved

LEMMA ThenableMoves ==
  ASSUME PromiseInv, jobs # <<>>, Head(jobs).is = "thenable", NEW fl, NEW f \in Promise
  PROVE  Moved(reactions, jobs, reactions, Tail(jobs), fl, f)
<1>1. jobs \in Seq(Job) /\ ~(Head(jobs).is = "reaction" /\ Head(jobs).handler = Resume(f))
  BY Typed
<1> QED
  BY <1>1, MovedServed

LEMMA ThenableAwaits ==
  ASSUME AwaitInv, NEW q \in Promise, js_promise_resolve_thenable_job(q)
  PROVE  OneAwait'
<1> DEFINE e == Head(jobs)
<1>0. PromiseInv
  BY DEF AwaitInv
<1>1. stack = <<>> /\ jobs # <<>> /\ e.is = "thenable" /\ async' = async
  BY DEF js_promise_resolve_thenable_job
<1>2. /\ e.of \in Promise /\ made[e.of] < MaxPairs /\ ValueMade(made, e.thenable)
  BY <1>0, <1>1, SpentJob
<1>3. PICK p \in Promise : p = e.of
  BY <1>2
<1> DEFINE x == <<p, made[p]>>
<1>4. \/ /\ e.thenable \in Promise /\ Fresh(q)
         /\ made' = [made EXCEPT ![q] = 1, ![e.of] = @ + 1]
         /\ perform_promise_then(e.thenable, <<q, 0>>, Resolving(0, <<e.of, made[e.of]>>),
                                 Resolving(1, <<e.of, made[e.of]>>), Tail(jobs))
         /\ stack' = stack
      \/ /\ made' = [made EXCEPT ![e.of] = @ + 1]
         /\ stack' = <<Code("thenable", <<e.of, made[e.of]>>)>>
         /\ jobs' = Tail(jobs)
         /\ UNCHANGED <<reactions, failed>>
      \/ /\ jobs' = Tail(jobs) /\ failed' = TRUE
         /\ UNCHANGED <<reactions, stack>>
      \/ /\ made' = [made EXCEPT ![e.of] = @ + 1]
         /\ stack' = <<Call(<<e.of, made[e.of]>>, Error, TRUE)>>
         /\ jobs' = Tail(jobs) /\ failed' = TRUE
         /\ reactions' = reactions
  BY DEF js_promise_resolve_thenable_job, js_create_resolving_functions
<1>5. \A fl : \A f \in Promise : Moved(reactions, jobs, reactions, Tail(jobs), fl, f)
  BY <1>0, <1>1, ThenableMoves
<1> HIDE DEF e
<1>6. x \in Pair
  BY <1>0, <1>2, <1>3, Typed DEF Pair
<1>7. failed \in BOOLEAN /\ StackPlain(stack, stack)
      /\ \A fr \in Frame : Plain(fr) => StackPlain(stack, <<fr>>)
  BY <1>0, <1>1, Typed, PlainStack
<1>8. ASSUME e.thenable \in Promise, Fresh(q),
             made' = [made EXCEPT ![q] = 1, ![e.of] = @ + 1],
             perform_promise_then(e.thenable, <<q, 0>>, Resolving(0, <<e.of, made[e.of]>>),
                                  Resolving(1, <<e.of, made[e.of]>>), Tail(jobs)),
             stack' = stack
      PROVE  OneAwait'
  <2> DEFINE rd == [cap |-> <<q, 0>>, on |-> <<Resolving(0, x), Resolving(1, x)>>]
  <2>1. PICK t \in Promise : t = e.thenable
    BY <1>8
  <2>2. rd.cap = <<q, 0>> /\ rd.on[1] = Resolving(0, x) /\ rd.on[2] = Resolving(1, x)
    OBVIOUS
  <2>3. /\ <<q, 0>> \in Pair /\ CapMade(made', <<q, 0>>) /\ PairMade(made', x) /\ state[t] # "none"
    <3>1. /\ made[t] > 0 /\ made \in [Promise -> 0 .. MaxPairs] /\ MaxPairs \in Nat \ {0}
          /\ state[t] # "none" /\ made[q] = 0
      BY <1>0, <1>2, <1>8, <2>1, Typed DEF ValueMade, Fresh
    <3>2. p # q
      BY <1>0, <1>1, <1>3, <1>8, SpentJob DEF Spent, Fresh, e
    <3>3. made'[q] = 1 /\ made'[p] = made[p] + 1
      BY <1>3, <1>8, <3>1, <3>2
    <3> QED
      BY <3>1, <3>3, PairParts DEF CapMade, PairMade
  <2>4. rd \in ReactionRecord /\ ReactionSound(made', async', rd)
    BY <1>6, <2>3, NewReaction
  <2>5. \A f \in Promise : rd.on[1] # Resume(f)
    BY <1>6, <2>2, HandlerKinds
  <2> HIDE DEF rd
  <2>6. PICK js \in Seq(Job) : js = Tail(jobs)
    BY <1>0, <1>1, ServedSound
  <2>7. perform_promise_then(t, rd.cap, rd.on[1], rd.on[2], js)
    BY <1>3, <1>8, <2>1, <2>2, <2>6 DEF perform_promise_then, Enqueue
  <2>8. failed' \in BOOLEAN /\ (failed => failed')
    BY <1>0, <2>3, <2>4, <2>7, Performed
  <2>9. ASSUME NEW f \in Promise PROVE Moved(reactions, jobs, reactions', jobs', failed', f)
    <3>1. Moved(reactions, js, reactions', jobs', failed', f)
      BY <1>0, <2>3, <2>4, <2>5, <2>7, ThenMoves
    <3>2. Moved(reactions, jobs, reactions, js, failed', f)
      BY <1>5, <2>6
    <3> QED
      BY <3>1, <3>2, MovedTwice
  <2> QED
    BY <1>1, <1>7, <1>8, <2>8, <2>9, PlainStep
<1>9. ASSUME jobs' = Tail(jobs), reactions' = reactions, failed' \in {TRUE, failed},
             \/ stack' = stack \/ stack' = <<Code("thenable", x)>> \/ stack' = <<Call(x, Error, TRUE)>>
      PROVE  OneAwait'
  <2>1. failed' \in BOOLEAN /\ (failed => failed')
    <3>1. CASE failed' = TRUE
      BY <3>1
    <3>2. CASE failed' = failed
      BY <1>7, <3>2
    <3> QED
      BY <1>9, <3>1, <3>2
  <2>2. /\ Code("thenable", x) \in Frame /\ Plain(Code("thenable", x))
        /\ Call(x, Error, TRUE) \in Frame /\ Plain(Call(x, Error, TRUE))
    <3>1. "thenable" \in CodeFrames \ {"getter"} /\ Error \in Result
      BY DEF CodeFrames, Result
    <3>2. Code("thenable", x) \in Frame /\ Code("thenable", x).at = "thenable"
      BY <1>6, <3>1, NewFrames
    <3>3. \A y \in Pair, r \in BOOLEAN :
            Call(y, Error, r) \in Frame /\ Call(y, Error, r).at = "call"
      BY <3>1, NewFrames
    <3>4. Call(x, Error, TRUE) \in Frame /\ Call(x, Error, TRUE).at = "call"
      <4> HIDE DEF x
      <4> QED
        BY <1>6, <3>3
    <3> QED
      BY <3>2, <3>4 DEF Plain
  <2>3. StackPlain(stack, stack')
    BY <1>7, <1>9, <2>2
  <2>4. \A f \in Promise : Moved(reactions, jobs, reactions', jobs', failed', f)
    BY <1>5, <1>9
  <2> QED
    BY <1>1, <2>1, <2>3, <2>4, PlainStep
<1> QED
  BY <1>3, <1>4, <1>8, <1>9
-----------------------------------------------------------------------------
(* Steps of the function f.                                                *)
LEMMA FunctionStep ==
  ASSUME AwaitInv, NEW f \in Promise, failed' \in BOOLEAN, failed => failed',
         \A g \in Promise \ {f} : /\ async'[g] = async[g] /\ SameFrames(stack, stack', g)
                                  /\ Moved(reactions, jobs, reactions', jobs', failed', g),
         AwaitOf(async', reactions', jobs', stack', failed', f)
  PROVE  OneAwait'
<1> SUFFICES ASSUME NEW g \in Promise \ {f}
             PROVE  AwaitOf(async', reactions', jobs', stack', failed', g)
  BY DEF OneAwait
<1>1. failed \in BOOLEAN /\ AwaitOf(async, reactions, jobs, stack, failed, g)
  BY Typed DEF AwaitInv, OneAwait
<1>2. /\ async'[g] = async[g] /\ SameFrames(stack, stack', g)
      /\ Moved(reactions, jobs, reactions', jobs', failed', g)
  OBVIOUS
<1> QED
  BY <1>1, <1>2, AwaitKept

LEMMA TopFramesOf ==
  ASSUME AwaitInv, stack # <<>>, NEW f \in Promise, FrameOf(Top, f),
         NEW t, NEW F, Over(stack, Len(stack) - 1, t, F),
         \A fr \in F : \A g \in Promise \ {f} : ~FrameOf(fr, g)
  PROVE  /\ \A g \in Promise \ {f} : SameFrames(stack, t, g)
         /\ (\A fr \in F : ~FrameOf(fr, f)) => Stopped(t, f)
         /\ \A j \in (Len(stack) - 1) + 1 .. Len(t) :
              FrameOf(t[j], f) /\ (\A i \in (Len(stack) - 1) + 1 .. Len(t) : FrameOf(t[i], f) => i = j)
                => OneFrame(t, f)
<1> DEFINE l == Len(stack)
<1>1. stack \in Seq(Frame)
  BY Typed DEF AwaitInv
<1>2. /\ \A i \in 1 .. l - 1 : ~FrameOf(stack[i], f)
      /\ \A g \in Promise \ {f} : \A i \in (l - 1) + 1 .. l : ~FrameOf(stack[i], g)
  BY TopOf
<1>3. ASSUME NEW g \in Promise \ {f} PROVE SameFrames(stack, t, g)
  BY <1>1, <1>2, <1>3, FramesOver
<1>4. (\A fr \in F : ~FrameOf(fr, f)) => Stopped(t, f)
  BY <1>1, <1>2, FramesOver
<1>5. \A j \in (l - 1) + 1 .. Len(t) :
        FrameOf(t[j], f) /\ (\A i \in (l - 1) + 1 .. Len(t) : FrameOf(t[i], f) => i = j)
          => OneFrame(t, f)
  BY <1>1, <1>2, FramesOver
<1> QED
  BY <1>3, <1>4, <1>5

LEMMA PlainFrame ==
  ASSUME NEW fr, Plain(fr)
  PROVE  \A f : ~FrameOf(fr, f)
  BY DEF Plain, FrameOf

LEMMA AsyncFrame ==
  ASSUME NEW fr, fr.at = "async"
  PROVE  \A f : FrameOf(fr, f) <=> fr.of[1] = f
  BY DEF FrameOf

(* The function ends.                                                      *)
LEMMA EndsAwaits ==
  ASSUME AwaitInv, stack # <<>>, NEW f \in Promise, FrameOf(Top, f),
         async' = [async EXCEPT ![f] = "done"], NEW fr \in Frame, Plain(fr),
         stack' = Append(Pop, fr), UNCHANGED <<reactions, jobs>>,
         failed' \in BOOLEAN, failed => failed'
  PROVE  OneAwait'
<1>0. PromiseInv
  BY DEF AwaitInv
<1>1. async \in [Promise -> {None, "running", "suspended", "done"}]
  BY <1>0, Typed
<1>2. Over(stack, Len(stack) - 1, stack', {fr})
  BY <1>0, TopFrame
<1>3. \A g : ~FrameOf(fr, g)
  BY PlainFrame
<1>4. (\A g \in Promise \ {f} : SameFrames(stack, stack', g)) /\ Stopped(stack', f)
  BY <1>2, <1>3, TopFramesOf
<1>5. Unawaited(reactions', jobs', f)
  BY TopOf
<1>6. AwaitOf(async', reactions', jobs', stack', failed', f)
  BY <1>1, <1>4, <1>5 DEF AwaitOf
<1>7. \A g \in Promise \ {f} : /\ async'[g] = async[g]
                              /\ Moved(reactions, jobs, reactions', jobs', failed', g)
  BY <1>1, MovedNot
<1> QED
  BY <1>4, <1>6, <1>7, FunctionStep

LEMMA EndAwaits ==
  ASSUME AwaitInv, stack # <<>>, Top.at \in CodeFrames \ {"getter"},
         NEW v \in Result, NEW r \in BOOLEAN, stack' = CallCap(Pop, Top.of, v, r),
         async' = IF Top.at = "async" THEN [async EXCEPT ![Top.of[1]] = "done"] ELSE async,
         UNCHANGED <<reactions, jobs, failed>>
  PROVE  OneAwait'
<1>0. PromiseInv
  BY DEF AwaitInv
<1>1. Top.of \in Pair \cup {None} /\ (Top.at = "async" => Top.of # None)
  BY <1>0, TopFrame, FrameKinds DEF FrameSound, CodeFrames
<1> DEFINE fr == Call(Top.of, v, r)
<1>2. Top.of \in Pair => fr \in Frame /\ Plain(fr)
  BY NewFrames DEF Plain
<1>3. Top.of # None => stack' = Append(Pop, fr)
  BY DEF CallCap
<1>4. Top.of = None => stack' = Pop
  BY DEF CallCap
<1> HIDE DEF fr
<1>5. CASE Top.at = "async"
  <2>1. PICK f \in Promise : f = Top.of[1]
    BY <1>1, <1>5, PairParts
  <2>2. FrameOf(Top, f) /\ async' = [async EXCEPT ![f] = "done"]
    <3>1. FrameOf(Top, f)
      BY <1>5, <2>1, AsyncFrame
    <3>2. async' = [async EXCEPT ![Top.of[1]] = "done"]
      BY <1>5
    <3> QED
      BY <2>1, <3>1, <3>2
  <2>3. failed' \in BOOLEAN /\ (failed => failed')
    BY <1>0, Typed
  <2> QED
    BY <1>1, <1>2, <1>3, <1>5, <2>2, <2>3, EndsAwaits
<1>6. CASE Top.at # "async"
  <2>1. Plain(Top)
    BY <1>6 DEF Plain, CodeFrames
  <2>2. StackPlain(stack, stack')
    <3>1. CASE Top.of = None
      BY <1>0, <1>4, <2>1, <3>1, PlainStack
    <3>2. CASE Top.of # None
      BY <1>0, <1>1, <1>2, <1>3, <2>1, <3>2, PlainStack
    <3> QED
      BY <3>1, <3>2
  <2> QED
    BY <1>6, <2>2, CalmAwaits
<1> QED
  BY <1>5, <1>6

LEMMA ReturnAwaits ==
  ASSUME AwaitInv, Throw \/ \E v \in Value : Return(v)
  PROVE  OneAwait'
<1>1. ASSUME Throw PROVE OneAwait'
  <2>1. stack # <<>> /\ Top.at \in CodeFrames \ {"getter"} /\ Error \in Result
    BY <1>1 DEF Throw, InCode, CodeFrames, Result
  <2> QED
    BY <1>1, <2>1, EndAwaits DEF Throw, promiseVars, jobVars
<1>2. ASSUME NEW v \in Value, Return(v) PROVE OneAwait'
  <2>1. stack # <<>> /\ Top.at \in CodeFrames \ {"getter"} /\ v \in Result
    BY <1>2 DEF Return, InCode, CodeFrames, Value, Result
  <2> QED
    BY <1>2, <2>1, EndAwaits DEF Return, promiseVars, jobVars
<1> QED
  BY <1>1, <1>2

(* The function is suspended in an await.                                  *)
LEMMA AwaitReaction ==
  ASSUME NEW m, NEW a, NEW f \in Promise, a[f] # None
  PROVE  LET rd == [cap |-> None, on |-> <<Resume(f), Resume(f)>>]
         IN  rd \in ReactionRecord /\ ReactionSound(m, a, rd)
<1>1. CapMade(m, None) /\ None \in Pair \cup {None}
  BY DEF CapMade
<1> QED
  BY <1>1, NewReaction

LEMMA SuspendAwaits ==
  ASSUME AwaitInv, stack # <<>>, NEW f \in Promise, FrameOf(Top, f), made[f] > 0,
         NEW p \in Promise, state[p] # "none", made' = made,
         perform_promise_then(p, None, Resume(f), Resume(f), jobs),
         async' = [async EXCEPT ![f] = "suspended"], stack' = Pop
  PROVE  OneAwait'
<1> DEFINE rd == [cap |-> None, on |-> <<Resume(f), Resume(f)>>]
<1>0. PromiseInv
  BY DEF AwaitInv
<1>1. async \in [Promise -> {None, "running", "suspended", "done"}] /\ "suspended" # None
  BY <1>0, Typed, PromiseAssumption
<1>2. rd.cap = None /\ rd.on[1] = Resume(f) /\ rd.on[2] = Resume(f)
  OBVIOUS
<1>3. rd \in ReactionRecord /\ ReactionSound(made', async', rd)
  <2>1. async'[f] # None
    BY <1>1
  <2> QED
    BY <2>1, AwaitReaction
<1>4. \A g \in Promise \ {f} : Resume(f) # Resume(g)
  BY HandlerKinds
<1> HIDE DEF rd
<1>5. PICK js \in Seq(Job) : js = jobs
  BY <1>0, Typed
<1>6. perform_promise_then(p, rd.cap, rd.on[1], rd.on[2], js)
  BY <1>2, <1>5 DEF perform_promise_then, Enqueue
<1>7. failed' \in BOOLEAN /\ (failed => failed')
  BY <1>0, <1>3, <1>6, Performed
<1>8. ASSUME NEW g \in Promise \ {f}
      PROVE  Moved(reactions, jobs, reactions', jobs', failed', g)
  <2>1. Moved(reactions, js, reactions', jobs', failed', g)
    BY <1>0, <1>2, <1>3, <1>4, <1>6, ThenMoves
  <2> QED
    BY <1>5, <2>1
<1>9. NotTwoAwaits(reactions', jobs', f) /\ (~failed' => SomeAwait(reactions', jobs', f))
  <2>1. Unawaited(reactions, js, f)
    BY <1>5, TopOf
  <2> QED
    BY <1>0, <1>2, <1>3, <1>6, <2>1, ThenMoves
<1>10. (\A g \in Promise \ {f} : SameFrames(stack, stack', g)) /\ Stopped(stack', f)
  <2>1. Over(stack, Len(stack) - 1, stack', {})
    BY <1>0, TopFrame
  <2> QED
    BY <2>1, TopFramesOf
<1>11. AwaitOf(async', reactions', jobs', stack', failed', f)
  <2>1. async'[f] = "suspended"
    BY <1>1
  <2> QED
    BY <1>1, <1>9, <1>10, <2>1 DEF AwaitOf
<1>12. \A g \in Promise \ {f} : async'[g] = async[g]
  BY <1>1
<1> QED
  BY <1>7, <1>8, <1>10, <1>11, <1>12, FunctionStep

LEMMA AwaitPromiseAwaits ==
  ASSUME AwaitInv, NEW p \in Promise, AwaitPromise(p)
  PROVE  OneAwait'
<1>0. PromiseInv
  BY DEF AwaitInv
<1> DEFINE h == Top.of[1]
<1>1. /\ stack # <<>> /\ Top.at = "async" /\ state[p] # "none" /\ made' = made
      /\ perform_promise_then(p, None, Resume(h), Resume(h), jobs)
      /\ async' = [async EXCEPT ![h] = "suspended"] /\ stack' = Pop
  BY DEF AwaitPromise, InCode, Made
<1>2. Top.of \in Pair /\ PairMade(made, Top.of)
  BY <1>0, <1>1, TopFrame, FrameKinds DEF FrameSound, CodeFrames, CapMade
<1>3. h \in Promise /\ made[h] > 0 /\ FrameOf(Top, h)
  <2>1. h \in Promise /\ made[h] > 0
    BY <1>0, <1>2, Typed, PairParts DEF PairMade
  <2>2. FrameOf(Top, h)
    BY <1>1, AsyncFrame
  <2> QED
    BY <2>1, <2>2
<1> HIDE DEF h
<1>4. PICK f \in Promise : f = h
  BY <1>3
<1>5. perform_promise_then(p, None, Resume(f), Resume(f), jobs)
  BY <1>1, <1>4 DEF perform_promise_then, Enqueue
<1> QED
  BY <1>1, <1>3, <1>4, <1>5, SuspendAwaits

LEMMA AwaitResolvedAwaits == AwaitInv /\ AwaitResolved => OneAwait'
<1> SUFFICES ASSUME AwaitInv, AwaitResolved PROVE OneAwait'
  OBVIOUS
<1> DEFINE h == Top.of
           k == Top.on
<1>0. PromiseInv
  BY DEF AwaitInv
<1>1. stack # <<>> /\ Top.at = "await" /\ made' = made
  BY DEF AwaitResolved
<1>2. h \in Promise /\ k \in Promise /\ made[h] > 0 /\ state[k] # "none" /\ FrameOf(Top, h)
  <2>1. h \in Promise /\ k \in Promise /\ made[h] > 0 /\ made[k] > 0
    BY <1>0, <1>1, TopFrame, FrameKinds DEF FrameSound, CodeFrames
  <2> QED
    BY <1>0, <1>1, <2>1, Typed DEF FrameOf
<1>3. PICK f \in Promise : f = h
  BY <1>2
<1>4. PICK p \in Promise : p = k
  BY <1>2
<1>5. \/ /\ perform_promise_then(k, None, Resume(h), Resume(h), jobs)
         /\ async' = [async EXCEPT ![h] = "suspended"] /\ stack' = Pop
      \/ /\ async' = [async EXCEPT ![h] = "done"]
         /\ stack' = Append(Pop, Call(<<h, 0>>, Error, TRUE))
         /\ failed' = TRUE /\ UNCHANGED <<reactions, jobs>>
  BY DEF AwaitResolved
<1> HIDE DEF h, k
<1>6. ASSUME perform_promise_then(k, None, Resume(h), Resume(h), jobs),
             async' = [async EXCEPT ![h] = "suspended"], stack' = Pop
      PROVE  OneAwait'
  <2>1. perform_promise_then(p, None, Resume(f), Resume(f), jobs)
    BY <1>3, <1>4, <1>6 DEF perform_promise_then, Enqueue
  <2> QED
    BY <1>1, <1>2, <1>3, <1>4, <1>6, <2>1, SuspendAwaits
<1>7. ASSUME async' = [async EXCEPT ![h] = "done"],
             stack' = Append(Pop, Call(<<h, 0>>, Error, TRUE)),
             failed' = TRUE, UNCHANGED <<reactions, jobs>>
      PROVE  OneAwait'
  <2> DEFINE fr == Call(<<f, 0>>, Error, TRUE)
  <2>1. fr \in Frame /\ Plain(fr)
    <3>1. <<f, 0>> \in Pair /\ Error \in Result
      BY PairParts DEF Result
    <3> QED
      BY <3>1, NewFrames DEF Plain
  <2>2. stack' = Append(Pop, fr)
    BY <1>3, <1>7
  <2> HIDE DEF fr
  <2> QED
    BY <1>1, <1>2, <1>3, <1>7, <2>1, <2>2, EndsAwaits
<1> QED
  BY <1>5, <1>6, <1>7

LEMMA AwaitValueAwaits ==
  ASSUME AwaitInv, NEW q \in Promise, NEW v \in {Prim, Object}, AwaitValue(q, v)
  PROVE  OneAwait'
<1>0. PromiseInv
  BY DEF AwaitInv
<1> DEFINE h == Top.of[1]
<1>1. /\ stack # <<>> /\ Top.at = "async"
      /\ stack' = Pop \o <<Awaiting(h, q), Call(<<q, 0>>, v, FALSE)>>
      /\ UNCHANGED <<reactions, jobs, failed, async>>
  BY DEF AwaitValue, InCode, jobVars
<1>2. h \in Promise
  BY <1>0, <1>1, TopFrame, FrameKinds, PairParts DEF FrameSound, CodeFrames
<1>3. FrameOf(Top, h)
  BY <1>1, AsyncFrame
<1> HIDE DEF h
<1>4. PICK f \in Promise : f = h
  BY <1>2
<1> DEFINE fr == Awaiting(f, q)
           g == Call(<<q, 0>>, v, FALSE)
           l == Len(stack)
           F == {fr, g}
<1>5. fr \in Frame /\ fr.at = "await" /\ fr.of = f
  BY NewFrames
<1>6. g \in Frame /\ Plain(g)
  <2>1. <<q, 0>> \in Pair /\ v \in Result
    BY PairParts DEF Result
  <2> QED
    BY <2>1, NewFrames DEF Plain
<1>8. stack' = Pop \o <<fr, g>>
  BY <1>1, <1>4
<1>7. fr \in F /\ g \in F /\ \A x \in F : x = fr \/ x = g
  OBVIOUS
<1> HIDE DEF fr, g, F
<1>9. /\ Over(stack, l - 1, stack', F) /\ Len(stack') = l + 1
      /\ stack'[l] = fr /\ stack'[l + 1] = g /\ l \in Nat \ {0}
  <2>1. stack \in Seq(Frame) /\ l \in Nat \ {0}
    BY <1>0, <1>1, Typed, TopFrame
  <2>2. stack' = ByTwo(stack, fr, g)
    BY <1>8 DEF ByTwo, Pop
  <2>3. /\ Over(stack, l - 1, ByTwo(stack, fr, g), F) /\ Len(ByTwo(stack, fr, g)) = l + 1
        /\ ByTwo(stack, fr, g)[l] = fr /\ ByTwo(stack, fr, g)[l + 1] = g
    <3>1. stack \in Seq(Frame) /\ stack # <<>> /\ fr \in Frame /\ g \in Frame
      BY <1>1, <1>5, <1>6, <2>1
    <3> QED
      BY <1>7, <3>1, ReplacedByTwo
  <2> QED
    BY <2>1, <2>2, <2>3
<1>10. /\ \A k : ~FrameOf(g, k)
      /\ FrameOf(fr, f) /\ \A k \in Promise \ {f} : ~FrameOf(fr, k)
  BY <1>5, <1>6, PlainFrame DEF FrameOf
<1>11. /\ \A k \in Promise \ {f} : SameFrames(stack, stack', k)
       /\ \A j \in (l - 1) + 1 .. Len(stack') :
            FrameOf(stack'[j], f) /\ (\A i \in (l - 1) + 1 .. Len(stack') : FrameOf(stack'[i], f) => i = j)
              => OneFrame(stack', f)
  <2>1. \A x \in F : \A k \in Promise \ {f} : ~FrameOf(x, k)
    BY <1>10, <1>7
  <2>2. FrameOf(Top, f)
    BY <1>3, <1>4
  <2>3. PICK t : t = stack'
    OBVIOUS
  <2>4. Over(stack, Len(stack) - 1, t, F)
    BY <1>9, <2>3
  <2>5. /\ \A k \in Promise \ {f} : SameFrames(stack, t, k)
        /\ \A j \in (Len(stack) - 1) + 1 .. Len(t) :
             FrameOf(t[j], f) /\ (\A i \in (Len(stack) - 1) + 1 .. Len(t) : FrameOf(t[i], f) => i = j)
               => OneFrame(t, f)
    BY <1>1, <2>2, <2>1, <2>4, TopFramesOf
  <2> QED
    BY <2>3, <2>5
<1>12. OneFrame(stack', f)
  <2>1. l \in (l - 1) + 1 .. Len(stack') /\ \A i \in (l - 1) + 1 .. Len(stack') : i = l \/ i = l + 1
    BY <1>9
  <2>2. \A i \in (l - 1) + 1 .. Len(stack') : FrameOf(stack'[i], f) => i = l
    BY <1>9, <1>10, <2>1
  <2> QED
    BY <1>9, <1>10, <1>11, <2>1, <2>2
<1>13. async[f] = "running" /\ Unawaited(reactions, jobs, f)
  BY <1>1, <1>3, <1>4, TopOf
<1>14. AwaitOf(async', reactions', jobs', stack', failed', f)
  BY <1>1, <1>12, <1>13, PromiseAssumption DEF AwaitOf
<1>15. \A k \in Promise \ {f} : /\ async'[k] = async[k]
                               /\ Moved(reactions, jobs, reactions', jobs', failed', k)
  BY <1>1, MovedNot
<1>16. failed' \in BOOLEAN /\ (failed => failed')
  BY <1>0, <1>1, Typed
<1> QED
  BY <1>11, <1>14, <1>15, <1>16, FunctionStep

(* The function is called or goes on, in a frame of its own.               *)
LEMMA EntersAwaits ==
  ASSUME AwaitInv, NEW f \in Promise, Stopped(stack, f), failed' \in BOOLEAN, failed => failed',
         async' = [async EXCEPT ![f] = "running"], stack' = Append(stack, Code("async", <<f, 0>>)),
         Unawaited(reactions', jobs', f),
         \A g \in Promise \ {f} : Moved(reactions, jobs, reactions', jobs', failed', g)
  PROVE  OneAwait'
<1>0. PromiseInv
  BY DEF AwaitInv
<1> DEFINE fr == Code("async", <<f, 0>>)
           l == Len(stack)
<1>1. fr \in Frame /\ fr.at = "async" /\ fr.of = <<f, 0>> /\ <<f, 0>>[1] = f
  BY PairParts, NewFrames DEF CodeFrames
<1>2. FrameOf(fr, f) /\ \A g \in Promise \ {f} : ~FrameOf(fr, g)
  <2>1. fr.of[1] = f
    BY <1>1
  <2> QED
    BY <1>1, <2>1, AsyncFrame
<1>3. stack' = Append(stack, fr)
  OBVIOUS
<1> HIDE DEF fr
<1>4. /\ stack \in Seq(Frame) /\ Over(stack, l, stack', {fr}) /\ Len(stack') = l + 1
      /\ stack'[l + 1] = fr /\ l \in Nat /\ DOMAIN stack = 1 .. l
  BY <1>0, <1>1, <1>3, Typed, Pushed, LenProperties
<1> HIDE DEF l
<1>5. (\A i \in l + 1 .. Len(stack) : FALSE) /\ \A i \in 1 .. l : ~FrameOf(stack[i], f)
  <2>1. \A i \in 1 .. l : ~FrameOf(stack[i], f)
    BY <1>4 DEF Stopped, Executes
  <2>2. \A i \in l + 1 .. Len(stack) : FALSE
    BY <1>4 DEF l
  <2> QED
    BY <2>1, <2>2
<1>6. \A g \in Promise \ {f} : SameFrames(stack, stack', g)
  <2> SUFFICES ASSUME NEW g \in Promise \ {f} PROVE SameFrames(stack, stack', g)
    OBVIOUS
  <2>1. \A x \in {fr} : ~FrameOf(x, g)
    BY <1>2
  <2>2. \A i \in l + 1 .. Len(stack) : ~FrameOf(stack[i], g)
    BY <1>5
  <2> QED
    BY <1>4, <2>1, <2>2, FramesOver
<1>7. OneFrame(stack', f)
  <2>1. l + 1 \in l + 1 .. Len(stack') /\ \A i \in l + 1 .. Len(stack') : i = l + 1
    BY <1>4
  <2> QED
    BY <1>2, <1>4, <1>5, <2>1, FramesOver
<1>8. async \in [Promise -> {None, "running", "suspended", "done"}] /\ "running" # None
  BY <1>0, Typed, PromiseAssumption
<1>9. async'[f] = "running" /\ \A g \in Promise \ {f} : async'[g] = async[g]
  BY <1>8
<1>10. AwaitOf(async', reactions', jobs', stack', failed', f)
  BY <1>7, <1>8, <1>9 DEF AwaitOf
<1> QED
  BY <1>6, <1>9, <1>10, FunctionStep

LEMMA AsyncCallAwaits ==
  ASSUME AwaitInv, NEW q \in Promise, js_async_function_call(q)
  PROVE  OneAwait'
<1>0. PromiseInv
  BY DEF AwaitInv
<1>1. /\ state[q] = "none" /\ async' = [async EXCEPT ![q] = "running"]
      /\ stack' = Append(stack, Code("async", <<q, 0>>)) /\ UNCHANGED <<reactions, jobs, failed>>
  BY DEF js_async_function_call, Create, Fresh, jobVars
<1>2. async[q] = None
  BY <1>0, <1>1 DEF PromiseInv, Sound
<1>3. AwaitOf(async, reactions, jobs, stack, failed, q)
  BY DEF AwaitInv, OneAwait
<1>4. Unawaited(reactions, jobs, q) /\ Stopped(stack, q)
  BY <1>2, <1>3 DEF AwaitOf
<1>5. failed' \in BOOLEAN /\ (failed => failed')
  BY <1>0, <1>1, Typed
<1>6. \A g \in Promise \ {q} : Moved(reactions, jobs, reactions', jobs', failed', g)
  BY <1>1, MovedNot
<1> QED
  BY <1>1, <1>4, <1>5, <1>6, EntersAwaits

(* promise_reaction_job.                                                   *)
LEMMA ServedAwaits ==
  ASSUME AwaitInv, jobs # <<>>, jobs' = Tail(jobs), UNCHANGED <<reactions, failed, async>>,
         \A f \in Promise : Head(jobs).handler # Resume(f), StackPlain(stack, stack')
  PROVE  OneAwait'
<1>0. PromiseInv
  BY DEF AwaitInv
<1>1. jobs \in Seq(Job)
  BY <1>0, Typed
<1>2. \A f \in Promise : Moved(reactions, jobs, reactions', jobs', failed', f)
  BY <1>1, MovedServed
<1>3. failed' \in BOOLEAN /\ (failed => failed')
  BY <1>0, Typed
<1> QED
  BY <1>2, <1>3, PlainStep

LEMMA ReactionAwaits == AwaitInv /\ promise_reaction_job => OneAwait'
<1> SUFFICES ASSUME AwaitInv, promise_reaction_job PROVE OneAwait'
  OBVIOUS
<1>0. PromiseInv
  BY DEF AwaitInv
<1> DEFINE e == Head(jobs)
<1>1. /\ stack = <<>> /\ jobs # <<>> /\ e.is = "reaction" /\ jobs' = Tail(jobs)
      /\ UNCHANGED <<reactions, failed>>
  BY DEF promise_reaction_job, promiseVars
<1>2. /\ e \in Job /\ e.cap \in Pair \cup {None} /\ e.handler \in Handler
      /\ e.arg \in Result /\ e.reject \in BOOLEAN /\ Prim \in Result
  BY <1>0, <1>1, ServedSound, JobKinds DEF Result
<1>3. \/ e.handler = None /\ stack' = CallCap(<<>>, e.cap, e.arg, e.reject) /\ async' = async
      \/ e.handler = User /\ stack' = <<Code("handler", e.cap)>> /\ async' = async
      \/ /\ e.handler \notin {None, User} /\ e.handler.is = "resolving" /\ async' = async
         /\ stack' = Append(CallCap(<<>>, e.cap, Prim, FALSE),
                            Call(e.handler.pair, e.arg, e.handler.reject))
      \/ /\ e.handler \notin {None, User} /\ e.handler.is = "resume"
         /\ stack' = <<Code("async", <<e.handler.of, 0>>)>>
         /\ async' = [async EXCEPT ![e.handler.of] = "running"]
  BY <1>2, HandlerKinds DEF promise_reaction_job
<1> HIDE DEF e
<1>4. ASSUME async' = async, \A f \in Promise : e.handler # Resume(f), StackPlain(stack, stack')
      PROVE  OneAwait'
  BY <1>1, <1>4, ServedAwaits DEF e
<1>5. /\ StackPlain(stack, <<>>)
      /\ \A fr \in Frame : Plain(fr) => StackPlain(stack, <<fr>>)
      /\ \A fr, g \in Frame : Plain(fr) /\ Plain(g) => StackPlain(stack, Append(<<fr>>, g))
  BY <1>0, <1>1, PlainStack
<1>6. \A v \in Result, r \in BOOLEAN : \E fr \in Frame :
        /\ Plain(fr)
        /\ \/ CallCap(<<>>, e.cap, v, r) = <<>>
           \/ CallCap(<<>>, e.cap, v, r) = <<fr>>
  <2> SUFFICES ASSUME NEW v \in Result, NEW r \in BOOLEAN
               PROVE  \E fr \in Frame :
                        /\ Plain(fr)
                        /\ \/ CallCap(<<>>, e.cap, v, r) = <<>>
                           \/ CallCap(<<>>, e.cap, v, r) = <<fr>>
    OBVIOUS
  <2>1. CASE e.cap = None
    <3>1. CallCap(<<>>, e.cap, v, r) = <<>>
      BY <2>1 DEF CallCap
    <3>2. Code("script", None) \in Frame /\ Plain(Code("script", None))
      BY NewFrames DEF CodeFrames, Plain
    <3> QED
      BY <3>1, <3>2
  <2>2. CASE e.cap \in Pair /\ e.cap # None
    <3> DEFINE fr == Call(e.cap, v, r)
    <3>1. fr \in Frame /\ Plain(fr)
      BY <2>2, NewFrames DEF Plain
    <3> HIDE DEF fr
    <3>2. CallCap(<<>>, e.cap, v, r) = <<fr>>
      BY <2>2 DEF CallCap, fr
    <3> QED
      BY <3>1, <3>2
  <2> QED
    BY <1>2, <2>1, <2>2
<1>7. CASE e.handler = None /\ stack' = CallCap(<<>>, e.cap, e.arg, e.reject) /\ async' = async
  <2>1. \A f \in Promise : e.handler # Resume(f)
    BY <1>7, HandlerKinds
  <2>2. PICK fr \in Frame : /\ Plain(fr)
                            /\ stack' = <<>> \/ stack' = <<fr>>
    BY <1>2, <1>6, <1>7
  <2>3. StackPlain(stack, stack')
    BY <1>5, <2>2
  <2> QED
    BY <1>4, <1>7, <2>1, <2>3
<1>8. CASE e.handler = User /\ stack' = <<Code("handler", e.cap)>> /\ async' = async
  <2>1. \A f \in Promise : e.handler # Resume(f)
    BY <1>8, HandlerKinds
  <2> DEFINE fr == Code("handler", e.cap)
  <2>2. fr \in Frame /\ Plain(fr)
    BY <1>2, NewFrames DEF CodeFrames, Plain
  <2>3. stack' = <<fr>>
    BY <1>8
  <2> HIDE DEF fr
  <2>4. StackPlain(stack, stack')
    BY <1>5, <2>2, <2>3
  <2> QED
    BY <1>4, <1>8, <2>1, <2>4
<1>9. CASE /\ e.handler \notin {None, User} /\ e.handler.is = "resolving" /\ async' = async
           /\ stack' = Append(CallCap(<<>>, e.cap, Prim, FALSE),
                              Call(e.handler.pair, e.arg, e.handler.reject))
  <2>1. PICK i \in {0, 1}, x \in Pair : e.handler = Resolving(i, x)
    BY <1>2, <1>9, HandlerKinds
  <2>2. e.handler.pair = x /\ e.handler.reject = (i = 1) /\ \A f \in Promise : e.handler # Resume(f)
    BY <2>1, HandlerKinds
  <2> DEFINE g == Call(x, e.arg, i = 1)
  <2>3. g \in Frame /\ Plain(g)
    BY <1>2, NewFrames DEF Plain
  <2>4. stack' = Append(CallCap(<<>>, e.cap, Prim, FALSE), g)
    BY <1>9, <2>2
  <2> HIDE DEF g
  <2>5. PICK fr \in Frame : /\ Plain(fr)
                            /\ \/ CallCap(<<>>, e.cap, Prim, FALSE) = <<>>
                               \/ CallCap(<<>>, e.cap, Prim, FALSE) = <<fr>>
    BY <1>2, <1>6
  <2>6. stack' = <<g>> \/ stack' = Append(<<fr>>, g)
    <3> DEFINE c == CallCap(<<>>, e.cap, Prim, FALSE)
    <3>1. stack' = Append(c, g) /\ (c = <<>> \/ c = <<fr>>)
      BY <2>4, <2>5
    <3> HIDE DEF c
    <3>2. Append(<<>>, g) = <<g>>
      OBVIOUS
    <3> QED
      BY <3>1, <3>2
  <2>7. StackPlain(stack, stack')
    BY <1>5, <2>3, <2>5, <2>6
  <2> QED
    BY <1>4, <1>9, <2>2, <2>7
<1>10. CASE /\ e.handler \notin {None, User} /\ e.handler.is = "resume"
            /\ stack' = <<Code("async", <<e.handler.of, 0>>)>>
            /\ async' = [async EXCEPT ![e.handler.of] = "running"]
  <2>1. PICK f \in Promise : e.handler = Resume(f) /\ e.handler.of = f
    BY <1>2, <1>10, HandlerKinds
  <2>2. Waits(reactions, jobs, f, 0, 1)
    <3>1. 1 \in DOMAIN jobs /\ e = jobs[1]
      BY <1>0, <1>1, Typed, QueueServed DEF e
    <3> QED
      BY <1>1, <2>1, <3>1 DEF Waits
  <2>3. NotTwoAwaits(reactions, jobs, f) /\ Stopped(stack, f)
    <3>1. AwaitOf(async, reactions, jobs, stack, failed, f)
      BY DEF AwaitInv, OneAwait
    <3>2. ~Unawaited(reactions, jobs, f)
      BY <2>2 DEF Unawaited
    <3>3. async[f] \in {None, "running", "suspended", "done"}
      BY <1>0, Typed
    <3>4. async[f] = "suspended"
      BY <3>1, <3>2, <3>3 DEF AwaitOf
    <3> QED
      BY <3>1, <3>4 DEF AwaitOf
  <2>4. jobs \in Seq(Job) /\ failed' \in BOOLEAN /\ (failed => failed')
    BY <1>0, <1>1, Typed
  <2>5. Unawaited(reactions', jobs', f)
    <3>1. Unawaited(reactions, Tail(jobs), f)
      BY <1>1, <2>1, <2>3, <2>4, ServedOnce DEF e
    <3> QED
      BY <1>1, <3>1
  <2>6. \A g \in Promise \ {f} : Moved(reactions, jobs, reactions', jobs', failed', g)
    <3> SUFFICES ASSUME NEW g \in Promise \ {f}
                 PROVE  Moved(reactions, jobs, reactions', jobs', failed', g)
      OBVIOUS
    <3>1. e.handler # Resume(g)
      BY <2>1, HandlerKinds
    <3>2. Moved(reactions, jobs, reactions, Tail(jobs), failed', g)
      BY <1>1, <2>4, <3>1, MovedServed DEF e
    <3> QED
      BY <1>1, <3>2
  <2> DEFINE fr == Code("async", <<f, 0>>)
  <2>7. stack' = <<fr>>
    BY <1>10, <2>1
  <2> HIDE DEF fr
  <2>8. stack' = Append(stack, fr)
    BY <1>1, <2>7
  <2>9. async' = [async EXCEPT ![f] = "running"]
    BY <1>10, <2>1
  <2> QED
    BY <2>3, <2>4, <2>5, <2>6, <2>8, <2>9, EntersAwaits DEF fr
<1> QED
  BY <1>3, <1>7, <1>8, <1>9, <1>10

-----------------------------------------------------------------------------
(* The stronger invariant holds.                                           *)
LEMMA AwaitStart == Init => AwaitInv
<1> SUFFICES ASSUME Init PROVE OneAwait
  BY Start DEF AwaitInv
<1> SUFFICES ASSUME NEW f \in Promise PROVE AwaitOf(async, reactions, jobs, stack, failed, f)
  BY DEF OneAwait
<1>1. /\ reactions = [p \in Promise |-> <<>>] /\ jobs = <<>> /\ stack = <<>>
      /\ async = [p \in Promise |-> None]
  BY DEF Init
<1>2. Unawaited(reactions, jobs, f)
  BY <1>1 DEF Unawaited, Waits
<1>3. Stopped(stack, f)
  BY <1>1 DEF Stopped, Executes
<1>4. async[f] = None /\ None \notin {"running", "suspended"}
  BY <1>1, PromiseAssumption
<1> QED
  BY <1>2, <1>3, <1>4 DEF AwaitOf

LEMMA AwaitStep == AwaitInv /\ [Next]_vars => AwaitInv'
<1> SUFFICES ASSUME AwaitInv, [Next]_vars PROVE OneAwait'
  BY PromiseStep DEF AwaitInv
<1>1. CASE UNCHANGED vars
  <2>1. /\ reactions' = reactions /\ async' = async /\ jobs' = jobs
        /\ failed' = failed /\ stack' = stack
    BY <1>1 DEF vars
  <2> QED
    BY <2>1 DEF AwaitInv, OneAwait
<1>2. CASE Program
  <2>1. \/ JS_Eval \/ Leave \/ Throw \/ ThenRead
        \/ \E q \in Promise : js_promise_constructor(q) \/ js_async_function_call(q)
        \/ \E x \in Pair, v \in Value, r \in BOOLEAN : CallResolving(x, v, r)
        \/ \E q \in Promise, v \in {Prim, Object}, r \in BOOLEAN : js_promise_resolve(q, v, r)
        \/ \E p \in Promise, q \in Promise, h \in Handlers : js_promise_then(p, q, h[1], h[2])
        \/ \E p \in Promise : AwaitPromise(p)
        \/ \E q \in Promise, v \in {Prim, Object} : AwaitValue(q, v)
        \/ \E v \in Value : Return(v)
    BY <1>2 DEF Program
  <2>2. JS_Eval \/ Leave \/ Throw \/ ThenRead => OneAwait'
    BY CodeAwaits, ReturnAwaits, ThenReadAwaits
  <2>3. (\E q \in Promise : js_promise_constructor(q) \/ js_async_function_call(q)) => OneAwait'
    BY CodeAwaits, AsyncCallAwaits
  <2>4. (\E x \in Pair, v \in Value, r \in BOOLEAN : CallResolving(x, v, r)) => OneAwait'
    BY CodeAwaits
  <2>5. (\E q \in Promise, v \in {Prim, Object}, r \in BOOLEAN : js_promise_resolve(q, v, r)) => OneAwait'
    BY CodeAwaits
  <2>6. ASSUME NEW p \in Promise, NEW q \in Promise, NEW h \in Handlers,
               js_promise_then(p, q, h[1], h[2])
        PROVE  OneAwait'
    BY <2>6, ThenAwaits
  <2>7. (\E p \in Promise : AwaitPromise(p)) => OneAwait'
    BY AwaitPromiseAwaits
  <2>8. (\E q \in Promise, v \in {Prim, Object} : AwaitValue(q, v)) => OneAwait'
    BY AwaitValueAwaits
  <2>9. (\E v \in Value : Return(v)) => OneAwait'
    BY ReturnAwaits
  <2> QED
    BY <2>1, <2>2, <2>3, <2>4, <2>5, <2>6, <2>7, <2>8, <2>9
<1>3. CASE Native
  BY <1>3, ResolvingAwaits, AwaitResolvedAwaits DEF Native
<1>4. CASE JS_ExecutePendingJob
  BY <1>4, ReactionAwaits, ThenableAwaits DEF JS_ExecutePendingJob
<1> QED
  BY <1>1, <1>2, <1>3, <1>4 DEF Next

(* PROPERTY: at every moment an async function that is suspended waits for *)
(* one reaction or job at most and executes nowhere, one that runs is      *)
(* executed by one frame and waits for nothing, and one that has ended     *)
(* does neither.                                                           *)
THEOREM FunctionsSound == Spec => []AwaitInv
<1>1. Init => AwaitInv
  BY AwaitStart
<1>2. AwaitInv /\ [Next]_vars => AwaitInv'
  BY AwaitStep
<1> QED
  BY <1>1, <1>2, PTL DEF Spec

(* What waits and what executes, counted as the model counts them.         *)
LEMMA AwaitedAreWaits ==
  ASSUME AwaitInv, NEW f \in Promise
  PROVE  /\ \A r : r \in Awaited(f) <=> \E q, i : Waits(reactions, jobs, f, q, i) /\ r = <<q, i>>
         /\ \A i : i \in Executing(f) <=> Executes(stack, f, i)
<1>1. 0 \notin Promise
  BY PairParts
<1>2. \A r : r \in Awaited(f) <=>
        \/ \E q \in Promise : \E i \in DOMAIN reactions[q] :
             reactions[q][i].on[1] = Resume(f) /\ r = <<q, i>>
        \/ \E i \in DOMAIN jobs :
             jobs[i].is = "reaction" /\ jobs[i].handler = Resume(f) /\ r = <<0, i>>
  <2> DEFINE A(q) == {<<q, i>> : i \in {j \in DOMAIN reactions[q] : reactions[q][j].on[1] = Resume(f)}}
             B == {<<0, i>> : i \in {j \in DOMAIN jobs :
                                      jobs[j].is = "reaction" /\ jobs[j].handler = Resume(f)}}
             C == UNION {A(q) : q \in Promise}
  <2>1. Awaited(f) = C \cup B
    BY Zenon DEF Awaited
  <2>2. \A q, r : r \in A(q) <=>
          \E i \in DOMAIN reactions[q] : reactions[q][i].on[1] = Resume(f) /\ r = <<q, i>>
    OBVIOUS
  <2>3. \A r : r \in B <=>
          \E i \in DOMAIN jobs :
             jobs[i].is = "reaction" /\ jobs[i].handler = Resume(f) /\ r = <<0, i>>
    OBVIOUS
  <2> HIDE DEF A, B
  <2>4. \A r : r \in C <=> \E q \in Promise : r \in A(q)
    OBVIOUS
  <2> HIDE DEF C
  <2> QED
    BY <2>1, <2>2, <2>3, <2>4
<1>3. \A q, i : Waits(reactions, jobs, f, q, i) <=>
        \/ q \in Promise /\ i \in DOMAIN reactions[q] /\ reactions[q][i].on[1] = Resume(f)
        \/ q = 0 /\ i \in DOMAIN jobs /\ jobs[i].is = "reaction" /\ jobs[i].handler = Resume(f)
  BY DEF Waits
<1>4. \A i : i \in Executing(f) <=> Executes(stack, f, i)
  <2>1. Executing(f) = {i \in DOMAIN stack : FrameOf(stack[i], f)}
    BY Zenon DEF Executing, FrameOf
  <2> QED
    BY <2>1 DEF Executes
<1>5. \A r : r \in Awaited(f) <=> \E q, i : Waits(reactions, jobs, f, q, i) /\ r = <<q, i>>
  BY <1>2, <1>3
<1> QED
  BY <1>4, <1>5

LEMMA Counted ==
  ASSUME NEW S, \A x, y \in S : x = y
  PROVE  /\ S = {} => Cardinality(S) = 0
         /\ S # {} => Cardinality(S) = 1
<1>1. S = {} \/ \E x : S = {x}
  OBVIOUS
<1>2. S = {} => Cardinality(S) = 0
  BY FS_EmptySet
<1>3. (\E x : S = {x}) => Cardinality(S) = 1
  BY FS_Singleton
<1> QED
  BY <1>1, <1>2, <1>3

LEMMA AwaitsCounted == AwaitInv => ResumedOnce
<1> SUFFICES ASSUME AwaitInv, NEW f \in Promise
             PROVE  /\ async[f] = "suspended" =>
                         /\ Executing(f) = {}
                         /\ \/ Cardinality(Awaited(f)) = 1
                            \/ failed /\ Cardinality(Awaited(f)) = 0
                    /\ async[f] = "running" =>
                         Cardinality(Executing(f)) = 1 /\ Cardinality(Awaited(f)) = 0
                    /\ async[f] \in {None, "done"} =>
                         Executing(f) = {} /\ Cardinality(Awaited(f)) = 0
  BY DEF ResumedOnce
<1>1. AwaitOf(async, reactions, jobs, stack, failed, f)
  BY DEF AwaitInv, OneAwait
<1>2. Unawaited(reactions, jobs, f) => Awaited(f) = {}
  BY AwaitedAreWaits DEF Unawaited
<1>3. NotTwoAwaits(reactions, jobs, f) => \A x, y \in Awaited(f) : x = y
  BY AwaitedAreWaits DEF NotTwoAwaits
<1>4. SomeAwait(reactions, jobs, f) => Awaited(f) # {}
  <2> SUFFICES ASSUME NEW q, NEW i, Waits(reactions, jobs, f, q, i) PROVE <<q, i>> \in Awaited(f)
    BY DEF SomeAwait
  <2> QED
    BY AwaitedAreWaits
<1>5. Stopped(stack, f) => Executing(f) = {}
  BY AwaitedAreWaits DEF Stopped
<1>6. OneFrame(stack, f) => Executing(f) # {} /\ \A x, y \in Executing(f) : x = y
  BY AwaitedAreWaits DEF OneFrame
<1>7. Cardinality({}) = 0
  BY FS_EmptySet
<1>8. CASE async[f] = "suspended"
  <2>1. NotTwoAwaits(reactions, jobs, f) /\ Stopped(stack, f)
        /\ (~failed => SomeAwait(reactions, jobs, f))
    BY <1>1, <1>8 DEF AwaitOf
  <2>2. Awaited(f) = {} => failed
    BY <1>4, <2>1
  <2>3. \/ Cardinality(Awaited(f)) = 1
        \/ Awaited(f) = {} /\ Cardinality(Awaited(f)) = 0
    BY <1>3, <2>1, Counted
  <2> QED
    BY <1>5, <1>8, <2>1, <2>2, <2>3, PromiseAssumption
<1>9. CASE async[f] = "running"
  <2>1. Unawaited(reactions, jobs, f) /\ OneFrame(stack, f)
    BY <1>1, <1>9 DEF AwaitOf
  <2>2. Cardinality(Executing(f)) = 1
    BY <1>6, <2>1, Counted
  <2> QED
    BY <1>2, <1>7, <1>9, <2>1, <2>2, PromiseAssumption
<1>10. CASE async[f] \in {None, "done"}
  <2>1. Unawaited(reactions, jobs, f) /\ Stopped(stack, f)
    BY <1>1, <1>10 DEF AwaitOf
  <2> QED
    BY <1>2, <1>5, <1>7, <1>10, <2>1, PromiseAssumption
<1> QED
  BY <1>8, <1>9, <1>10

(* ResumedOnce: an async function is resumed only while it is suspended in *)
(* an await, once for each await, and never after it has ended.            *)
THEOREM ResumedRight == Spec => []ResumedOnce
BY FunctionsSound, AwaitsCounted, PTL

-----------------------------------------------------------------------------
(* Promises have the fates of PromiseFate as long as no allocation fails.  *)
(* The queue, the stack and the lists of reactions are seen as sets of     *)
(* what is in them; rs, js, s, g and u stand for values of reactions,      *)
(* jobs, stack, given and used.                                            *)
Items(s) == {s[i] : i \in DOMAIN s}

(* A pair the program does not know and that is not used yet tells of the  *)
(* promise it waits for, or of the outcome on its way to it.               *)
Hidden(g, u, x) == x[2] > 0 /\ x \notin g /\ x \notin u
JobOf(e, x)     == e.is = "reaction" /\ e.handler \in {Resolving(0, x), Resolving(1, x)}
CallOf(fr, x)   == fr.at = "call" /\ fr.pair = x
OutcomeOf(e)    == <<e.reject, e.arg>>

Tells(rs, js, s, x, t) ==
  \/ \E q \in Promise : \E rd \in Items(rs[q]) :
       rd.on[1] = Resolving(0, x) /\ t = Promises!FollowsTo(q)
  \/ \E e \in Items(js) : JobOf(e, x) /\ t = Promises!Takes(OutcomeOf(e))
  \/ \E fr \in Items(s) : CallOf(fr, x) /\ t = Promises!Takes(OutcomeOf(fr))

Follower(js, p, q) ==
  \E e \in Items(js) : e.is = "thenable" /\ e.of = p /\ e.thenable = q

Told(rs, js, s, g, u, p, t) ==
  \/ \E q \in Promise : Follower(js, p, q) /\ t = Promises!FollowsTo(q)
  \/ \E x \in Pair : x[1] = p /\ Hidden(g, u, x) /\ Tells(rs, js, s, x, t)

(* Reactions, jobs and frames call no hidden pair as their capability, and *)
(* reject with errors; a hidden pair is never resolved with a promise, and *)
(* it tells one thing.                                                     *)
OpenCap(g, cap) == cap # None => cap[2] = 0 \/ cap \in g
OpenReaction(g, rd) ==
  /\ OpenCap(g, rd.cap)
  /\ \A x \in Pair : rd.on[1] = Resolving(0, x) <=> rd.on[2] = Resolving(1, x)
OpenJob(g, e) == e.is = "reaction" => OpenCap(g, e.cap) /\ (e.reject => e.arg = Error)
OpenFrame(g, u, fr) ==
  /\ fr.at \in CodeFrames \ {"getter"} => OpenCap(g, fr.of)
  /\ fr.at = "call" =>
       /\ fr.reject => fr.arg = Error
       /\ Hidden(g, u, fr.pair) /\ ~fr.reject => fr.arg \in {Prim, Object}

OneTale(rs, js, s, x) ==
  \A t, w : Tells(rs, js, s, x, t) /\ Tells(rs, js, s, x, w) => t = w

OpenReactions(rs, g) == \A p \in Promise : \A rd \in Items(rs[p]) : OpenReaction(g, rd)
OpenJobs(js, g)      == \A e \in Items(js) : OpenJob(g, e)
OpenFrames(s, g, u)  == \A fr \in Items(s) : OpenFrame(g, u, fr)
OneTales(rs, js, s, g, u) == \A x \in Pair : Hidden(g, u, x) => OneTale(rs, js, s, x)
ErrorsOnly(st, re)   == \A p \in Promise : st[p] = "rejected" => re[p] = Error

FateInv ==
  /\ PromiseInv /\ ~failed /\ ErrorsOnly(state, result)
  /\ OpenReactions(reactions, given) /\ OpenJobs(jobs, given)
  /\ OpenFrames(stack, given, used)
  /\ OneTales(reactions, jobs, stack, given, used)

-----------------------------------------------------------------------------
(* What is in a sequence.                                                  *)
LEMMA ItemsOf ==
  ASSUME NEW S, NEW s \in Seq(S)
  PROVE  /\ Items(s) \subseteq S
         /\ \A e \in S : Items(Append(s, e)) = Items(s) \cup {e}
         /\ \A t \in Seq(S) : Items(s \o t) = Items(s) \cup Items(t)
         /\ s # <<>> => /\ Items(s) = Items(SubSeq(s, 1, Len(s) - 1)) \cup {s[Len(s)]}
                        /\ Items(s) = {Head(s)} \cup Items(Tail(s))
<1> DEFINE n == Len(s)
<1>0. n \in Nat /\ DOMAIN s = 1 .. n /\ \A i \in 1 .. n : s[i] \in S
  BY LenProperties, ElementOfSeq
<1>1. Items(s) \subseteq S
  BY <1>0 DEF Items
<1>2. ASSUME NEW e \in S PROVE Items(Append(s, e)) = Items(s) \cup {e}
  <2> DEFINE t == Append(s, e)
  <2>1. t \in Seq(S) /\ Len(t) = n + 1 /\ t[n + 1] = e /\ \A i \in 1 .. n : t[i] = s[i]
    BY AppendProperties
  <2>2. DOMAIN t = 1 .. n + 1
    BY <2>1, LenProperties
  <2> HIDE DEF t, n
  <2>3. \A i \in 1 .. n + 1 : i \in 1 .. n \/ i = n + 1
    BY <1>0
  <2>4. n + 1 \in 1 .. n + 1 /\ \A i \in 1 .. n : i \in 1 .. n + 1
    BY <1>0
  <2> QED
    BY <1>0, <2>1, <2>2, <2>3, <2>4 DEF Items, t
<1>3. ASSUME NEW t \in Seq(S) PROVE Items(s \o t) = Items(s) \cup Items(t)
  <2> DEFINE w == s \o t
             m == Len(t)
  <2>1. /\ w \in Seq(S) /\ Len(w) = n + m
        /\ \A i \in 1 .. n + m : w[i] = IF i <= n THEN s[i] ELSE t[i - n]
    BY ConcatProperties
  <2>2. m \in Nat /\ DOMAIN t = 1 .. m /\ DOMAIN w = 1 .. n + m
    BY <2>1, LenProperties
  <2> HIDE DEF w, n, m
  <2>3. \A i \in 1 .. n : i \in 1 .. n + m /\ w[i] = s[i]
    BY <1>0, <2>1, <2>2
  <2>4. \A i \in 1 .. m : n + i \in 1 .. n + m /\ w[n + i] = t[i]
    BY <1>0, <2>1, <2>2
  <2>5. \A i \in 1 .. n + m : i \in 1 .. n \/ (i - n \in 1 .. m /\ w[i] = t[i - n])
    BY <1>0, <2>1, <2>2
  <2>6. \A e : e \in Items(w) <=> \E i \in 1 .. n + m : e = w[i]
    BY <2>2 DEF Items
  <2>7. \A e : e \in Items(s) <=> \E i \in 1 .. n : e = s[i]
    BY <1>0 DEF Items
  <2>8. \A e : e \in Items(t) <=> \E i \in 1 .. m : e = t[i]
    BY <2>2 DEF Items
  <2>9. \A e : e \in Items(w) <=> e \in Items(s) \/ e \in Items(t)
    BY <2>3, <2>4, <2>5, <2>6, <2>7, <2>8
  <2> QED
    BY <2>9 DEF w
<1>4. ASSUME s # <<>> PROVE Items(s) = Items(SubSeq(s, 1, Len(s) - 1)) \cup {s[Len(s)]}
  <2> DEFINE t == SubSeq(s, 1, n - 1)
  <2>1. n \in Nat \ {0}
    BY <1>0, <1>4, EmptySeq
  <2>2. /\ t \in Seq(S) /\ Len(t) = IF 1 <= n - 1 THEN (n - 1) - 1 + 1 ELSE 0
        /\ \A i \in 1 .. (n - 1) - 1 + 1 : t[i] = s[1 + i - 1]
    <3> HIDE DEF n
    <3> QED
      BY <1>0, <2>1, SubSeqProperties
  <2>3. DOMAIN t = 1 .. Len(t)
    BY <2>2, LenProperties
  <2> HIDE DEF t, n
  <2>4. Len(t) = n - 1 /\ \A i \in 1 .. n - 1 : t[i] = s[i]
    BY <2>1, <2>2
  <2>5. DOMAIN t = 1 .. n - 1 /\ \A i \in 1 .. n : i \in 1 .. n - 1 \/ i = n
    BY <2>1, <2>3, <2>4
  <2>6. n \in 1 .. n /\ \A i \in 1 .. n - 1 : i \in 1 .. n
    BY <2>1
  <2> QED
    BY <1>0, <2>4, <2>5, <2>6 DEF Items, t, n
<1>5. ASSUME s # <<>> PROVE Items(s) = {Head(s)} \cup Items(Tail(s))
  <2> DEFINE t == Tail(s)
  <2>1. /\ n \in Nat \ {0} /\ Head(s) = s[1] /\ t \in Seq(S) /\ Len(t) = n - 1
        /\ \A i \in 1 .. Len(t) : t[i] = s[i + 1]
    BY <1>0, <1>5, EmptySeq, HeadTailProperties DEF Head
  <2>2. DOMAIN t = 1 .. n - 1
    BY <2>1, LenProperties
  <2> HIDE DEF t, n
  <2>3. \A i \in 1 .. n : i = 1 \/ (i - 1 \in 1 .. n - 1 /\ t[i - 1] = s[i])
    BY <2>1
  <2>4. 1 \in 1 .. n /\ \A i \in 1 .. n - 1 : i + 1 \in 1 .. n /\ t[i] = s[i + 1]
    BY <2>1
  <2>5. \A e : e \in Items(s) <=> \E i \in 1 .. n : e = s[i]
    BY <1>0 DEF Items
  <2>6. \A e : e \in Items(t) <=> \E i \in 1 .. n - 1 : e = t[i]
    BY <2>2 DEF Items
  <2>7. \A e : e \in Items(s) <=> e = s[1] \/ e \in Items(t)
    BY <2>3, <2>4, <2>5, <2>6
  <2> QED
    BY <2>1, <2>7 DEF t
<1> QED
  BY <1>1, <1>2, <1>3, <1>4, <1>5

LEMMA ItemsOfOne ==
  /\ Items(<<>>) = {}
  /\ \A e : Items(<<e>>) = {e}
<1>1. Items(<<>>) = {}
  BY DEF Items
<1>2. ASSUME NEW e PROVE Items(<<e>>) = {e}
  <2>1. DOMAIN <<e>> = {1} /\ <<e>>[1] = e
    OBVIOUS
  <2> QED
    BY <2>1 DEF Items
<1> QED
  BY <1>1, <1>2

(* The same of the queue, the stack and the reactions.                     *)
LEMMA StackItems ==
  ASSUME PromiseInv
  PROVE  /\ Items(stack) \subseteq Frame /\ Items(jobs) \subseteq Job
         /\ \A q \in Promise : Items(reactions[q]) \subseteq ReactionRecord
         /\ \A fr \in Frame : Items(Append(stack, fr)) = Items(stack) \cup {fr}
         /\ stack # <<>> =>
              /\ Items(stack) = Items(Pop) \cup {Top}
              /\ \A fr \in Frame : Items(Append(Pop, fr)) = Items(Pop) \cup {fr}
         /\ jobs # <<>> => Items(jobs) = Items(Tail(jobs)) \cup {Head(jobs)}
<1>1. /\ stack \in Seq(Frame) /\ jobs \in Seq(Job) /\ reactions \in [Promise -> Seq(ReactionRecord)]
  BY Typed
<1>2. \A q \in Promise : Items(reactions[q]) \subseteq ReactionRecord
  BY <1>1, ItemsOf
<1>3. /\ Items(stack) \subseteq Frame /\ Items(jobs) \subseteq Job
      /\ \A fr \in Frame : Items(Append(stack, fr)) = Items(stack) \cup {fr}
      /\ jobs # <<>> => Items(jobs) = {Head(jobs)} \cup Items(Tail(jobs))
  BY <1>1, ItemsOf
<1>4. ASSUME stack # <<>>
      PROVE  /\ Items(stack) = Items(Pop) \cup {Top}
             /\ \A fr \in Frame : Items(Append(Pop, fr)) = Items(Pop) \cup {fr}
  <2>1. Pop \in Seq(Frame)
    BY <1>4, TopFrame
  <2>2. Items(stack) = Items(Pop) \cup {Top}
    BY <1>1, <1>4, ItemsOf DEF Pop, Top
  <2> QED
    BY <2>1, <2>2, ItemsOf
<1> QED
  BY <1>2, <1>3, <1>4

(* What is in them is sound.                                               *)
LEMMA ItemsSound ==
  ASSUME PromiseInv
  PROVE  /\ \A q \in Promise : \A rd \in Items(reactions[q]) : ReactionSound(made, async, rd)
         /\ \A e \in Items(jobs) : JobSound(made, async, e)
         /\ \A fr \in Items(stack) : FrameSound(made, fr)
  BY DEF PromiseInv, Sound, Items

(* What is told of a pair is a promise to follow or an outcome, and only   *)
(* pairs that were made tell something.                                    *)
LEMMA TellsMade ==
  ASSUME PromiseInv, NEW x \in Pair, NEW t, Tells(reactions, jobs, stack, x, t)
  PROVE  PairMade(made, x)
<1>1. CASE \E q \in Promise : \E rd \in Items(reactions[q]) : rd.on[1] = Resolving(0, x)
  <2>1. PICK q \in Promise : \E rd \in Items(reactions[q]) : rd.on[1] = Resolving(0, x)
    BY <1>1
  <2>2. PICK rd \in Items(reactions[q]) : rd.on[1] = Resolving(0, x)
    BY <2>1
  <2>3. HandlerMade(made, async, rd.on[1])
    BY <2>2, ItemsSound DEF ReactionSound
  <2> QED
    BY <2>2, <2>3 DEF HandlerMade
<1>2. CASE \E e \in Items(jobs) : JobOf(e, x)
  <2>1. PICK e \in Items(jobs) : JobOf(e, x)
    BY <1>2
  <2>2. HandlerMade(made, async, e.handler)
    BY <2>1, ItemsSound DEF JobSound, JobOf
  <2> QED
    BY <2>1, <2>2 DEF HandlerMade, JobOf
<1>3. CASE \E fr \in Items(stack) : CallOf(fr, x)
  BY <1>3, ItemsSound DEF FrameSound, CallOf
<1> QED
  BY <1>1, <1>2, <1>3 DEF Tells

(* Fates tell apart.                                                       *)
LEMMA FatesApart ==
  /\ \A q, r : Promises!FollowsTo(q) = Promises!FollowsTo(r) => q = r
  /\ \A o, w : Promises!Takes(o) = Promises!Takes(w) => o = w
  /\ \A o, w : Promises!Settled(o) = Promises!Settled(w) => o = w
  /\ \A q, o : Promises!FollowsTo(q) # Promises!Takes(o)
  /\ \A q, o : Promises!FollowsTo(q) # Promises!Settled(o)
  /\ \A o, w : Promises!Takes(o) # Promises!Settled(w)
  /\ \A o : /\ Promises!FollowsTo(o) # Promises!Open /\ Promises!Takes(o) # Promises!Open
            /\ Promises!Settled(o) # Promises!Open
            /\ Promises!FollowsTo(o) # Promises!Unborn /\ Promises!Takes(o) # Promises!Unborn
            /\ Promises!Settled(o) # Promises!Unborn
  /\ Promises!Open # Promises!Unborn
<1>1. /\ \A q : Promises!FollowsTo(q).is = "follows" /\ Promises!FollowsTo(q).of = q
      /\ \A o : Promises!Takes(o).is = "takes" /\ Promises!Takes(o).by = o
      /\ \A o : Promises!Settled(o).is = "settled" /\ Promises!Settled(o).by = o
      /\ Promises!Open.is = "open" /\ Promises!Unborn.is = "none"
  BY DEF Promises!FollowsTo, Promises!Takes, Promises!Settled, Promises!Open, Promises!Unborn
<1> QED
  BY <1>1

(* Follows and Taking are what is told.                                    *)
ToldOf(p, t) == Told(reactions, jobs, stack, given, used, p, t)

LEMMA FollowsTold ==
  ASSUME PromiseInv, NEW p \in Promise
  PROVE  \A q : q \in Follows(p) <=> q \in Promise /\ ToldOf(p, Promises!FollowsTo(q))
<1>1. \A x : Private(x) <=> Hidden(given, used, x)
  BY DEF Private, Hidden
<1> DEFINE H(h) == h \notin {None, User} /\ h.is = "resolving" /\ h.pair[1] = p /\ Private(h.pair)
<1>2. ASSUME NEW q \in Promise, NEW rd \in Items(reactions[q])
      PROVE  H(rd.on[1]) <=> \E x \in Pair : x[1] = p /\ Hidden(given, used, x)
                                            /\ rd.on[1] = Resolving(0, x)
  <2>1. rd \in ReactionRecord /\ ReactionSound(made, async, rd)
    BY StackItems, ItemsSound
  <2>2. rd.on[1] \in Handler
    BY <2>1 DEF ReactionRecord
  <2>3. ASSUME H(rd.on[1]) PROVE \E x \in Pair : rd.on[1] = Resolving(0, x) /\ rd.on[1].pair = x
    <3>1. PICK i \in {0, 1}, x \in Pair : rd.on[1] = Resolving(i, x)
      BY <2>2, <2>3, HandlerKinds
    <3>2. i = 0 /\ rd.on[1].pair = x
      BY <2>1, <3>1, HandlerKinds DEF ReactionSound
    <3> QED
      BY <3>1, <3>2
  <2>4. ASSUME NEW x \in Pair, rd.on[1] = Resolving(0, x)
        PROVE  rd.on[1] \notin {None, User} /\ rd.on[1].is = "resolving" /\ rd.on[1].pair = x
    BY <2>4, HandlerKinds
  <2> QED
    BY <1>1, <2>3, <2>4
<1>3. ASSUME NEW q \in Promise
      PROVE  (\E i \in DOMAIN reactions[q] : H(reactions[q][i].on[1]))
               <=> \E rd \in Items(reactions[q]) : H(rd.on[1])
  BY DEF Items
<1>4. ASSUME NEW q \in Promise
      PROVE  (\E i \in DOMAIN jobs : jobs[i].is = "thenable" /\ jobs[i].of = p /\ jobs[i].thenable = q)
               <=> Follower(jobs, p, q)
  BY DEF Items, Follower
<1>5. \A q : q \in Follows(p) <=> q \in Promise /\
        \/ \E i \in DOMAIN jobs : jobs[i].is = "thenable" /\ jobs[i].of = p /\ jobs[i].thenable = q
        \/ \E i \in DOMAIN reactions[q] : H(reactions[q][i].on[1])
  BY DEF Follows
<1> HIDE DEF H
<1>6. \A q : q \in Follows(p) <=> q \in Promise /\
        \/ Follower(jobs, p, q)
        \/ \E rd \in Items(reactions[q]) : H(rd.on[1])
  BY <1>3, <1>4, <1>5
<1>7. ASSUME NEW q \in Promise
      PROVE  ToldOf(p, Promises!FollowsTo(q)) <=>
               \/ Follower(jobs, p, q)
               \/ \E rd \in Items(reactions[q]) :
                    \E x \in Pair : x[1] = p /\ Hidden(given, used, x) /\ rd.on[1] = Resolving(0, x)
  BY FatesApart DEF ToldOf, Told, Tells
<1> QED
  BY <1>2, <1>6, <1>7

LEMMA TakingTold ==
  ASSUME PromiseInv, NEW p \in Promise
  PROVE  \A o : o \in Taking(p) <=> ToldOf(p, Promises!Takes(o))
<1>1. \A x : Private(x) <=> Hidden(given, used, x)
  BY DEF Private, Hidden
<1> DEFINE J(e) == /\ e.is = "reaction" /\ e.handler \notin {None, User}
                   /\ e.handler.is = "resolving"
                   /\ e.handler.pair[1] = p /\ Private(e.handler.pair)
           C(fr) == fr.at = "call" /\ fr.pair[1] = p /\ Private(fr.pair)
<1>2. ASSUME NEW e \in Items(jobs)
      PROVE  J(e) <=> \E x \in Pair : x[1] = p /\ Hidden(given, used, x) /\ JobOf(e, x)
  <2>1. e \in Job
    BY StackItems
  <2>2. ASSUME J(e) PROVE \E x \in Pair : JobOf(e, x) /\ e.handler.pair = x
    <3>1. e.handler \in Handler
      BY <2>1, <2>2, JobKinds
    <3>2. PICK i \in {0, 1}, x \in Pair : e.handler = Resolving(i, x)
      BY <2>2, <3>1, HandlerKinds
    <3> QED
      BY <2>2, <3>2, HandlerKinds DEF JobOf
  <2>3. ASSUME NEW x \in Pair, JobOf(e, x)
        PROVE  /\ e.is = "reaction" /\ e.handler \notin {None, User}
               /\ e.handler.is = "resolving" /\ e.handler.pair = x
    BY <2>3, HandlerKinds DEF JobOf
  <2> QED
    BY <1>1, <2>2, <2>3
<1>3. ASSUME NEW fr \in Items(stack)
      PROVE  C(fr) <=> \E x \in Pair : x[1] = p /\ Hidden(given, used, x) /\ CallOf(fr, x)
  <2>1. fr \in Frame
    BY StackItems
  <2>2. fr.at = "call" => fr.pair \in Pair
    BY <2>1, FrameKinds DEF CodeFrames
  <2> QED
    BY <1>1, <2>2 DEF CallOf
<1>4. \A o : o \in Taking(p) <=>
        \/ \E i \in DOMAIN jobs : J(jobs[i]) /\ o = <<jobs[i].reject, jobs[i].arg>>
        \/ \E i \in DOMAIN stack : C(stack[i]) /\ o = <<stack[i].reject, stack[i].arg>>
  BY DEF Taking
<1> HIDE DEF J, C
<1>5. \A o : o \in Taking(p) <=>
        \/ \E e \in Items(jobs) : J(e) /\ o = OutcomeOf(e)
        \/ \E fr \in Items(stack) : C(fr) /\ o = OutcomeOf(fr)
  BY <1>4 DEF Items, OutcomeOf
<1>6. ASSUME NEW o
      PROVE  ToldOf(p, Promises!Takes(o)) <=>
        \/ \E e \in Items(jobs) : o = OutcomeOf(e) /\
             \E x \in Pair : x[1] = p /\ Hidden(given, used, x) /\ JobOf(e, x)
        \/ \E fr \in Items(stack) : o = OutcomeOf(fr) /\
             \E x \in Pair : x[1] = p /\ Hidden(given, used, x) /\ CallOf(fr, x)
  BY FatesApart DEF ToldOf, Told, Tells
<1> QED
  BY <1>2, <1>3, <1>5, <1>6

(* Whatever tells of a promise is a way in which it can be settled, so     *)
(* nothing is told of a promise whose way tells nothing.                   *)
LEMMA TellersAreWays ==
  ASSUME PromiseInv, NEW p \in Promise
  PROVE  /\ \A x \in Pair : \A t : x[1] = p /\ Hidden(given, used, x)
                               /\ Tells(reactions, jobs, stack, x, t)
              => x[2] \in Nat /\ x = <<p, x[2]>> /\ ByPair(made, used, p, x[2])
         /\ \A q : Follower(jobs, p, q) => \E i \in Nat : ByJob(jobs, p, i) /\ jobs[i].thenable = q
         /\ WayOf(state, made, used, jobs, stack, failed, p)
<1>1. ASSUME NEW x \in Pair, NEW t, x[1] = p, Hidden(given, used, x),
             Tells(reactions, jobs, stack, x, t)
      PROVE  x[2] \in Nat /\ x = <<p, x[2]>> /\ ByPair(made, used, p, x[2])
  <2>1. PairMade(made, x)
    BY <1>1, TellsMade
  <2>2. x[2] \in Nat /\ x = <<p, x[2]>> /\ made[p] \in Nat
    BY <1>1, PairParts, Typed
  <2> QED
    BY <1>1, <2>1, <2>2 DEF PairMade, Hidden, ByPair
<1>2. \A q : Follower(jobs, p, q) => \E i \in Nat : ByJob(jobs, p, i) /\ jobs[i].thenable = q
  BY Typed, LenProperties DEF Follower, Items, ByJob
<1>3. WayOf(state, made, used, jobs, stack, failed, p)
  BY DEF PromiseInv, OneWay
<1> QED
  BY <1>1, <1>2, <1>3

LEMMA OneTold ==
  ASSUME FateInv, NEW p \in Promise, NEW t, NEW w, ToldOf(p, t), ToldOf(p, w)
  PROVE  t = w
<1>0. PromiseInv /\ OneTales(reactions, jobs, stack, given, used)
  BY DEF FateInv
<1>1. /\ \A k, n \in Nat : /\ ByPair(made, used, p, k) /\ ByPair(made, used, p, n) => k = n
                           /\ ByJob(jobs, p, k) /\ ByJob(jobs, p, n) => k = n
                           /\ ~(ByPair(made, used, p, k) /\ ByJob(jobs, p, n))
  BY <1>0, TellersAreWays DEF WayOf, NotTwoWays
<1>2. CASE \E q \in Promise : Follower(jobs, p, q) /\ t = Promises!FollowsTo(q)
  <2>1. PICK q \in Promise : Follower(jobs, p, q) /\ t = Promises!FollowsTo(q)
    BY <1>2
  <2>2. PICK i \in Nat : ByJob(jobs, p, i) /\ jobs[i].thenable = q
    BY <1>0, <2>1, TellersAreWays
  <2>3. \A x \in Pair : ~(x[1] = p /\ Hidden(given, used, x) /\ Tells(reactions, jobs, stack, x, w))
    BY <1>0, <1>1, <2>2, TellersAreWays
  <2>4. PICK r \in Promise : Follower(jobs, p, r) /\ w = Promises!FollowsTo(r)
    BY <2>3 DEF ToldOf, Told
  <2>5. PICK j \in Nat : ByJob(jobs, p, j) /\ jobs[j].thenable = r
    BY <1>0, <2>4, TellersAreWays
  <2>6. i = j
    BY <1>1, <2>2, <2>5
  <2> QED
    BY <2>1, <2>2, <2>4, <2>5, <2>6
<1>3. CASE \E x \in Pair : x[1] = p /\ Hidden(given, used, x) /\ Tells(reactions, jobs, stack, x, t)
  <2>1. PICK x \in Pair : x[1] = p /\ Hidden(given, used, x) /\ Tells(reactions, jobs, stack, x, t)
    BY <1>3
  <2>2. x[2] \in Nat /\ x = <<p, x[2]>> /\ ByPair(made, used, p, x[2])
    BY <1>0, <2>1, TellersAreWays
  <2>3. \A q : ~Follower(jobs, p, q)
    BY <1>0, <1>1, <2>2, TellersAreWays
  <2>4. PICK y \in Pair : y[1] = p /\ Hidden(given, used, y) /\ Tells(reactions, jobs, stack, y, w)
    BY <2>3 DEF ToldOf, Told
  <2>5. y[2] \in Nat /\ y = <<p, y[2]>> /\ ByPair(made, used, p, y[2])
    BY <1>0, <2>4, TellersAreWays
  <2>6. x = y
    BY <1>1, <2>2, <2>5
  <2> QED
    BY <1>0, <2>1, <2>4, <2>6 DEF OneTales, OneTale
<1> QED
  BY <1>2, <1>3 DEF ToldOf, Told

LEMMA ToldTyped ==
  ASSUME FateInv, NEW p \in Promise, NEW t, ToldOf(p, t)
  PROVE  \/ \E q \in Promise : t = Promises!FollowsTo(q)
         \/ \E o \in Promises!Outcome : t = Promises!Takes(o)
<1>0. /\ PromiseInv /\ OpenJobs(jobs, given) /\ OpenFrames(stack, given, used)
      /\ \A v \in {Prim, Object} : <<FALSE, v>> \in Promises!Outcome
      /\ <<TRUE, Error>> \in Promises!Outcome
  BY DEF FateInv, Promises!Outcome, Promises!Fulfilled
<1>1. ASSUME NEW x \in Pair, Hidden(given, used, x), NEW e \in Items(jobs), JobOf(e, x)
      PROVE  OutcomeOf(e) \in Promises!Outcome
  <2>1. e \in Job /\ JobSound(made, async, e) /\ OpenJob(given, e)
    BY <1>0, StackItems, ItemsSound DEF OpenJobs
  <2>2. e.is = "reaction" /\ e.reject \in BOOLEAN
    BY <1>1, <2>1, JobKinds DEF JobOf
  <2> QED
    BY <1>0, <2>1, <2>2 DEF OutcomeOf, JobSound, OpenJob
<1>2. ASSUME NEW x \in Pair, Hidden(given, used, x), NEW fr \in Items(stack), CallOf(fr, x)
      PROVE  OutcomeOf(fr) \in Promises!Outcome
  <2>1. fr \in Frame /\ OpenFrame(given, used, fr)
    BY <1>0, StackItems DEF OpenFrames
  <2>2. fr.at = "call" /\ fr.reject \in BOOLEAN /\ Hidden(given, used, fr.pair)
    BY <1>2, <2>1, FrameKinds DEF CallOf, CodeFrames
  <2> QED
    BY <1>0, <2>1, <2>2 DEF OutcomeOf, OpenFrame
<1> QED
  BY <1>1, <1>2 DEF ToldOf, Told, Tells

(* The fate of every promise, from its state and what is told of it.       *)
FateRules ==
  \A p \in Promise :
    /\ state[p] = "none" => Fate(p) = Promises!Unborn
    /\ Settled(p) => Fate(p) = Promises!Settled(<<state[p] = "rejected", result[p]>>)
    /\ state[p] = "pending" => /\ \A t : ToldOf(p, t) => Fate(p) = t
                               /\ (\A t : ~ToldOf(p, t)) => Fate(p) = Promises!Open
    /\ Fate(p) \in Promises!Fates

LEMMA ToldPending ==
  ASSUME PromiseInv, NEW p \in Promise, NEW t, ToldOf(p, t)
  PROVE  state[p] = "pending"
BY TellersAreWays DEF ToldOf, Told, WayOf, NoWay

(* The arms of Fate: at most one of them applies.                          *)
LEMMA FateArms ==
  ASSUME NEW p
  PROVE  /\ state[p] = "none" /\ ~Settled(p) /\ Follows(p) = {} /\ Taking(p) = {}
              => Fate(p) = Promises!Unborn
         /\ state[p] # "none" /\ Settled(p) /\ Follows(p) = {} /\ Taking(p) = {}
              => Fate(p) = Promises!Settled(<<state[p] = "rejected", result[p]>>)
         /\ state[p] # "none" /\ ~Settled(p) /\ Follows(p) # {} /\ Taking(p) = {}
              => Fate(p) = Promises!FollowsTo(CHOOSE q \in Follows(p) : TRUE)
         /\ state[p] # "none" /\ ~Settled(p) /\ Follows(p) = {} /\ Taking(p) # {}
              => Fate(p) = Promises!Takes(CHOOSE o \in Taking(p) : TRUE)
         /\ state[p] # "none" /\ ~Settled(p) /\ Follows(p) = {} /\ Taking(p) = {}
              => Fate(p) = Promises!Open
<1> DEFINE a == Promises!Unborn
           b == Promises!Settled(<<state[p] = "rejected", result[p]>>)
           c == Promises!FollowsTo(CHOOSE q \in Follows(p) : TRUE)
           d == Promises!Takes(CHOOSE o \in Taking(p) : TRUE)
           e == Promises!Open
<1>1. Fate(p) = CASE state[p] = "none" -> a
                  [] Settled(p)        -> b
                  [] Follows(p) # {}   -> c
                  [] Taking(p) # {}    -> d
                  [] OTHER             -> e
  BY Zenon DEF Fate, Promises!Unborn, Promises!Settled, Promises!FollowsTo, Promises!Takes,
               Promises!Open
<1> HIDE DEF a, b, c, d, e
<1>2. /\ state[p] = "none" /\ ~Settled(p) /\ Follows(p) = {} /\ Taking(p) = {} => Fate(p) = a
      /\ state[p] # "none" /\ Settled(p) /\ Follows(p) = {} /\ Taking(p) = {} => Fate(p) = b
      /\ state[p] # "none" /\ ~Settled(p) /\ Follows(p) # {} /\ Taking(p) = {} => Fate(p) = c
      /\ state[p] # "none" /\ ~Settled(p) /\ Follows(p) = {} /\ Taking(p) # {} => Fate(p) = d
      /\ state[p] # "none" /\ ~Settled(p) /\ Follows(p) = {} /\ Taking(p) = {} => Fate(p) = e
  BY <1>1
<1> QED
  BY <1>2 DEF a, b, c, d, e

LEMMA FatesRuled == FateInv => FateRules
<1> SUFFICES ASSUME FateInv, NEW p \in Promise
             PROVE  /\ state[p] = "none" => Fate(p) = Promises!Unborn
                    /\ Settled(p) => Fate(p) = Promises!Settled(<<state[p] = "rejected", result[p]>>)
                    /\ state[p] = "pending" =>
                         /\ \A t : ToldOf(p, t) => Fate(p) = t
                         /\ (\A t : ~ToldOf(p, t)) => Fate(p) = Promises!Open
                    /\ Fate(p) \in Promises!Fates
  BY DEF FateRules
<1>0. /\ PromiseInv /\ ErrorsOnly(state, result)
      /\ state[p] \in {"none", "pending", "fulfilled", "rejected"}
      /\ \A q : q \in Follows(p) <=> q \in Promise /\ ToldOf(p, Promises!FollowsTo(q))
      /\ \A o : o \in Taking(p) <=> ToldOf(p, Promises!Takes(o))
  BY Typed, FollowsTold, TakingTold DEF FateInv
<1>1. state[p] # "pending" => Follows(p) = {} /\ Taking(p) = {}
  BY <1>0, ToldPending
<1>2. CASE state[p] = "none"
  <2>1. ~Settled(p)
    BY <1>2 DEF Settled
  <2>2. Fate(p) = Promises!Unborn
    BY <1>1, <1>2, <2>1, FateArms
  <2> QED
    BY <1>2, <2>1, <2>2 DEF Promises!Fates
<1>3. CASE Settled(p)
  <2> DEFINE o == <<state[p] = "rejected", result[p]>>
  <2>1. state[p] \in {"fulfilled", "rejected"}
    BY <1>3 DEF Settled
  <2>2. Fate(p) = Promises!Settled(o)
    BY <1>1, <1>3, <2>1, FateArms
  <2>3. o \in Promises!Outcome
    <3>1. CASE state[p] = "rejected"
      <4>1. result[p] = Error /\ (state[p] = "rejected") = TRUE
        BY <1>0, <3>1 DEF ErrorsOnly
      <4> QED
        BY <4>1 DEF Promises!Outcome
    <3>2. CASE state[p] = "fulfilled"
      <4>1. result[p] \in {Prim, Object} /\ (state[p] = "rejected") = FALSE
        BY <1>0, <3>2 DEF PromiseInv, NeverNested
      <4> QED
        BY <4>1 DEF Promises!Outcome, Promises!Fulfilled
    <3> QED
      BY <2>1, <3>1, <3>2
  <2> HIDE DEF o
  <2>4. Fate(p) \in Promises!Fates
    BY <2>2, <2>3 DEF Promises!Fates
  <2> QED
    BY <1>3, <2>1, <2>2, <2>4 DEF o
<1>4. CASE state[p] = "pending"
  <2>1. ~Settled(p) /\ state[p] # "none"
    BY <1>4 DEF Settled
  <2>2. ASSUME NEW t, ToldOf(p, t) PROVE Fate(p) = t /\ t \in Promises!Fates
    <3>1. \A w : ToldOf(p, w) => w = t
      BY <2>2, OneTold
    <3>2. CASE \E q \in Promise : t = Promises!FollowsTo(q)
      <4>1. PICK q \in Promise : t = Promises!FollowsTo(q)
        BY <3>2
      <4>2. Follows(p) # {} /\ (\A r \in Follows(p) : Promises!FollowsTo(r) = t) /\ Taking(p) = {}
        BY <1>0, <2>2, <3>1, <4>1, FatesApart
      <4>3. (CHOOSE r \in Follows(p) : TRUE) \in Follows(p)
        BY <4>2
      <4>4. Promise = Promises!Promise
        BY DEF Promise, Promises!Promise
      <4>5. t \in Promises!Fates
        BY <4>1, <4>4 DEF Promises!Fates
      <4> QED
        BY <2>1, <4>2, <4>3, <4>5, FateArms
    <3>3. CASE \E o \in Promises!Outcome : t = Promises!Takes(o)
      <4>1. PICK o \in Promises!Outcome : t = Promises!Takes(o)
        BY <3>3
      <4>2. Follows(p) = {} /\ Taking(p) # {} /\ \A w \in Taking(p) : Promises!Takes(w) = t
        BY <1>0, <2>2, <3>1, <4>1, FatesApart
      <4>3. (CHOOSE w \in Taking(p) : TRUE) \in Taking(p)
        BY <4>2
      <4>4. t \in Promises!Fates
        BY <4>1 DEF Promises!Fates
      <4> QED
        BY <2>1, <4>2, <4>3, <4>4, FateArms
    <3> QED
      BY <2>2, <3>2, <3>3, ToldTyped
  <2>3. ASSUME \A t : ~ToldOf(p, t) PROVE Fate(p) = Promises!Open
    <3>1. Follows(p) = {} /\ Taking(p) = {}
      BY <1>0, <2>3
    <3> QED
      BY <2>1, <3>1, FateArms
  <2>4. Fate(p) \in Promises!Fates
    BY <2>2, <2>3 DEF Promises!Fates
  <2> QED
    BY <1>4, <2>1, <2>2, <2>3, <2>4
<1> QED
  BY <1>0, <1>2, <1>3, <1>4 DEF Settled

-----------------------------------------------------------------------------
(* The steps of PromiseFate, from what happens to the promises.            *)
fates == [p \in Promise |-> Fate(p)]

KeepsFate(p) ==
  /\ state'[p] = state[p] /\ result'[p] = result[p]
  /\ state[p] = "pending" => \A t : ToldOf(p, t)' <=> ToldOf(p, t)

OpenFate(p) == state[p] = "pending" /\ \A t : ~ToldOf(p, t)
IsTold(p, t) == state[p] = "pending" /\ ToldOf(p, t)

LEMMA RulesNext == FateInv' => FateRules'
BY FatesRuled, PTL

LEMMA FateOfState ==
  ASSUME FateInv, NEW p \in Promise
  PROVE  /\ state[p] = "none" => Fate(p) = Promises!Unborn
         /\ OpenFate(p) => Fate(p) = Promises!Open
         /\ \A t : IsTold(p, t) => Fate(p) = t
         /\ state[p] = "fulfilled" => Fate(p) = Promises!Settled(<<FALSE, result[p]>>)
         /\ state[p] = "rejected" => Fate(p) = Promises!Settled(<<TRUE, result[p]>>)
         /\ Fate(p) \in Promises!Fates
<1>1. FateRules
  BY FatesRuled
<1>2. state[p] = "fulfilled" => Settled(p) /\ (state[p] = "rejected") = FALSE
  BY DEF Settled
<1>3. state[p] = "rejected" => Settled(p) /\ (state[p] = "rejected") = TRUE
  BY DEF Settled
<1>4. Settled(p) => Fate(p) = Promises!Settled(<<state[p] = "rejected", result[p]>>)
  BY <1>1 DEF FateRules
<1>5. /\ state[p] = "none" => Fate(p) = Promises!Unborn
      /\ OpenFate(p) => Fate(p) = Promises!Open
      /\ \A t : IsTold(p, t) => Fate(p) = t
      /\ Fate(p) \in Promises!Fates
  BY <1>1 DEF FateRules, OpenFate, IsTold
<1> QED
  BY <1>2, <1>3, <1>4, <1>5

LEMMA FateOfNext ==
  ASSUME FateInv', NEW p \in Promise
  PROVE  /\ state'[p] = "none" => Fate(p)' = Promises!Unborn
         /\ OpenFate(p)' => Fate(p)' = Promises!Open
         /\ \A t : IsTold(p, t)' => Fate(p)' = t
         /\ state'[p] = "fulfilled" => Fate(p)' = Promises!Settled(<<FALSE, result'[p]>>)
         /\ state'[p] = "rejected" => Fate(p)' = Promises!Settled(<<TRUE, result'[p]>>)
         /\ Fate(p)' \in Promises!Fates
<1>1. FateRules'
  BY RulesNext
<1>2. state'[p] = "fulfilled" => Settled(p)' /\ (state'[p] = "rejected") = FALSE
  BY DEF Settled
<1>3. state'[p] = "rejected" => Settled(p)' /\ (state'[p] = "rejected") = TRUE
  BY DEF Settled
<1>4. Settled(p)' => Fate(p)' = Promises!Settled(<<state'[p] = "rejected", result'[p]>>)
  BY <1>1 DEF FateRules
<1>5. /\ state'[p] = "none" => Fate(p)' = Promises!Unborn
      /\ OpenFate(p)' => Fate(p)' = Promises!Open
      /\ \A t : IsTold(p, t)' => Fate(p)' = t
      /\ Fate(p)' \in Promises!Fates
  BY <1>1 DEF FateRules, OpenFate, IsTold
<1> QED
  BY <1>2, <1>3, <1>4, <1>5

LEMMA SameFate ==
  ASSUME FateInv, FateInv', NEW p \in Promise, KeepsFate(p)
  PROVE  Fate(p)' = Fate(p)
<1>1. state[p] \in {"none", "pending", "fulfilled", "rejected"}
  BY Typed DEF FateInv
<1>2. state'[p] = state[p] /\ result'[p] = result[p]
  BY DEF KeepsFate
<1>3. CASE state[p] # "pending"
  BY <1>1, <1>2, <1>3, FateOfState, FateOfNext
<1>4. CASE OpenFate(p)
  <2>1. OpenFate(p)'
    BY <1>4 DEF OpenFate, KeepsFate
  <2> QED
    BY <1>4, <2>1, FateOfState, FateOfNext
<1>5. ASSUME NEW t, IsTold(p, t) PROVE Fate(p)' = Fate(p)
  <2>1. IsTold(p, t)'
    BY <1>5 DEF IsTold, KeepsFate
  <2> QED
    BY <1>5, <2>1, FateOfState, FateOfNext
<1> QED
  BY <1>3, <1>4, <1>5 DEF OpenFate, IsTold

LEMMA FatesOf ==
  /\ fates \in [Promise -> {Fate(p) : p \in Promise}] /\ \A p \in Promise : fates[p] = Fate(p)
  /\ DOMAIN fates = Promise /\ DOMAIN fates' = Promise
  /\ \A p \in Promise : fates'[p] = Fate(p)'
  /\ fates' = [p \in Promise |-> Fate(p)']
BY DEF fates

LEMMA StutterFates ==
  ASSUME FateInv, FateInv', \A p \in Promise : KeepsFate(p)
  PROVE  fates' = fates
<1>1. \A p \in Promise : Fate(p)' = Fate(p)
  BY SameFate
<1> QED
  BY <1>1 DEF fates

(* Every step of PromiseFate changes the fate of the promise it is about.  *)
LEMMA NextFates ==
  ASSUME NEW p \in Promise, fates'[p] # fates[p],
         \/ Promises!Create(p) \/ Promises!Reopen(p)
         \/ \E q \in Promise : Promises!Follow(p, q)
         \/ \E q \in Promise, born \in Promise, o \in Promises!Outcome :
              Promises!Take(p, q, o, born)
         \/ \E o \in Promises!Outcome : Promises!Settle(p, o)
  PROVE  Promises!Next
<1>1. Promises!Promise = Promise
  BY DEF Promise, Promises!Promise
<1> QED
  BY <1>1, Zenon DEF Promises!Next, fates

LEMMA CreateFate ==
  ASSUME FateInv, FateInv', NEW q \in Promise, state[q] = "none", OpenFate(q)',
         \A p \in Promise \ {q} : KeepsFate(p)
  PROVE  Promises!Next
<1>1. Fate(q) = Promises!Unborn /\ Fate(q)' = Promises!Open
  BY FateOfState, FateOfNext
<1>2. \A p \in Promise \ {q} : Fate(p)' = Fate(p)
  BY SameFate
<1>3. fates[q] = Promises!Unborn /\ fates' = [fates EXCEPT ![q] = Promises!Open]
  BY <1>1, <1>2, FatesOf DEF fates
<1>4. fates'[q] # fates[q]
  BY <1>1, FatesOf, FatesApart
<1>5. Promises!Create(q)
  BY <1>3 DEF Promises!Create, fates
<1> QED
  BY <1>4, <1>5, NextFates

LEMMA ReopenFate ==
  ASSUME FateInv, FateInv', NEW p \in Promise, IsTold(p, Promises!Takes(<<FALSE, Object>>)),
         OpenFate(p)', \A q \in Promise \ {p} : KeepsFate(q)
  PROVE  Promises!Next
<1>1. Fate(p) = Promises!Takes(<<FALSE, Object>>) /\ Fate(p)' = Promises!Open
  BY FateOfState, FateOfNext
<1>2. \A q \in Promise \ {p} : Fate(q)' = Fate(q)
  BY SameFate
<1>3. fates[p] = Promises!Takes(<<FALSE, Object>>) /\ fates' = [fates EXCEPT ![p] = Promises!Open]
  BY <1>1, <1>2, FatesOf DEF fates
<1>4. fates'[p] # fates[p]
  BY <1>1, FatesOf, FatesApart
<1>5. Promises!Reopen(p)
  BY <1>3 DEF Promises!Reopen, Promises!Fulfilled, fates
<1> QED
  BY <1>4, <1>5, NextFates

LEMMA FollowFate ==
  ASSUME FateInv, FateInv', NEW p \in Promise, NEW q \in Promise, p # q, OpenFate(p),
         state[q] # "none", IsTold(p, Promises!FollowsTo(q))',
         \A r \in Promise \ {p} : KeepsFate(r)
  PROVE  Promises!Next
<1>1. Fate(p) = Promises!Open /\ Fate(p)' = Promises!FollowsTo(q)
  BY FateOfState, FateOfNext
<1>2. \A r \in Promise \ {p} : Fate(r)' = Fate(r)
  BY SameFate
<1>3. fates[p] = Promises!Open /\ fates' = [fates EXCEPT ![p] = Promises!FollowsTo(q)]
  BY <1>1, <1>2, FatesOf DEF fates
<1>4. fates'[p] # fates[p]
  BY <1>1, FatesOf, FatesApart
<1>5. fates[q] # Promises!Unborn
  <2>1. state[q] \in {"none", "pending", "fulfilled", "rejected"}
    BY Typed DEF FateInv
  <2>2. ASSUME NEW t, IsTold(q, t) PROVE t # Promises!Unborn
    BY <2>2, ToldTyped, FatesApart DEF IsTold
  <2>3. Fate(q) # Promises!Unborn
    BY <2>1, <2>2, FateOfState, FatesApart DEF OpenFate, IsTold
  <2> QED
    BY <2>3, FatesOf
<1>6. Promises!Follow(p, q)
  BY <1>3, <1>5 DEF Promises!Follow, fates
<1> QED
  BY <1>4, <1>6, NextFates

LEMMA TakeFate ==
  ASSUME FateInv, FateInv', NEW p \in Promise, NEW q \in Promise, NEW born \in Promise,
         NEW o \in Promises!Outcome, IsTold(p, Promises!FollowsTo(q)), Settled(q),
         o = <<state[q] = "rejected", result[q]>>, state[born] = "none", OpenFate(born)',
         IsTold(p, Promises!Takes(o))', \A r \in Promise \ {p, born} : KeepsFate(r)
  PROVE  Promises!Next
<1>1. /\ Fate(p) = Promises!FollowsTo(q) /\ Fate(p)' = Promises!Takes(o)
      /\ Fate(born) = Promises!Unborn /\ Fate(born)' = Promises!Open
  BY FateOfState, FateOfNext
<1>2. Fate(q) = Promises!Settled(o)
  BY FatesRuled DEF FateRules
<1>3. \A r \in Promise \ {p, born} : Fate(r)' = Fate(r)
  BY SameFate
<1>4. p # born
  BY <1>1, FatesApart
<1>5. /\ fates[p] = Promises!FollowsTo(q) /\ fates[q] = Promises!Settled(o)
      /\ fates[born] = Promises!Unborn
      /\ fates' = [fates EXCEPT ![p] = Promises!Takes(o), ![born] = Promises!Open]
  BY <1>1, <1>2, <1>3, <1>4, FatesOf DEF fates
<1>6. fates'[p] # fates[p]
  BY <1>1, FatesOf, FatesApart
<1>7. Promises!Take(p, q, o, born)
  BY <1>5 DEF Promises!Take, fates
<1> QED
  BY <1>6, <1>7, NextFates

LEMMA SettleFate ==
  ASSUME FateInv, FateInv', NEW q \in Promise, NEW r \in BOOLEAN, NEW v,
         <<r, v>> \in Promises!Outcome,
         OpenFate(q) \/ IsTold(q, Promises!Takes(<<r, v>>)),
         state'[q] = IF r THEN "rejected" ELSE "fulfilled", result'[q] = v,
         \A p \in Promise \ {q} :
           \/ KeepsFate(p)
           \/ IsTold(p, Promises!FollowsTo(q)) /\ IsTold(p, Promises!Takes(<<r, v>>))'
  PROVE  Promises!Next
<1> DEFINE o == <<r, v>>
<1>1. Fate(q) \in {Promises!Open, Promises!Takes(o)}
  BY FateOfState
<1>2. Fate(q)' = Promises!Settled(o)
  BY FateOfNext
<1> HIDE DEF o
<1>3. \A p \in Promise \ {q} :
        \/ Fate(p)' = Fate(p)
        \/ Fate(p) = Promises!FollowsTo(q) /\ Fate(p)' = Promises!Takes(o)
  BY SameFate, FateOfState, FateOfNext DEF o
<1>4. \A p \in Promise : Fate(p)' \in Promises!Fates
  BY FateOfNext
<1>5. Promises!Promise = Promise
  BY DEF Promise, Promises!Promise
<1>6. fates' \in [Promise -> Promises!Fates]
  BY <1>4, FatesOf
<1>7. /\ fates[q] \in {Promises!Open, Promises!Takes(o)} /\ fates'[q] = Promises!Settled(o)
      /\ \A p \in Promise \ {q} :
           \/ fates'[p] = fates[p]
           \/ fates[p] = Promises!FollowsTo(q) /\ fates'[p] = Promises!Takes(o)
  BY <1>1, <1>2, <1>3, FatesOf
<1>8. fates'[q] # fates[q]
  BY <1>7, FatesApart
<1>9. Promises!Settle(q, o)
  BY <1>5, <1>6, <1>7 DEF Promises!Settle, fates
<1> QED
  BY <1>8, <1>9, NextFates DEF o

-----------------------------------------------------------------------------
(* Steps that change nothing of what is told: the reactions, jobs and      *)
(* frames that come or go have to do with no hidden pair.                  *)
SilentHandler(g, u, h) ==
  \A i \in {0, 1}, x \in Pair : Hidden(g, u, x) => h # Resolving(i, x)

SilentReactions(g, u) == {rd \in ReactionRecord : SilentHandler(g, u, rd.on[1])}
SilentJobs(g, u) ==
  {e \in Job : /\ e.is = "thenable" => e.thenable \notin Promise
               /\ e.is = "reaction" => SilentHandler(g, u, e.handler)}
SilentFrames(g, u) == {fr \in Frame : fr.at = "call" => ~Hidden(g, u, fr.pair)}

CalmReactions(g, u) == {rd \in SilentReactions(g, u) : OpenReaction(g, rd)}
CalmJobs(g, u)      == {e \in SilentJobs(g, u) : OpenJob(g, e)}
CalmFrames(g, u)    == {fr \in SilentFrames(g, u) : OpenFrame(g, u, fr)}

(* What comes from S to T is in C, and what goes is in Q.                  *)
Calmly(S, T, Q, C) ==
  /\ \A e \in T : e \in S \/ e \in C
  /\ \A e \in S : e \in T \/ e \in Q

CalmAll(rs, rs2, g, u) ==
  \A q \in Promise : Calmly(Items(rs[q]), Items(rs2[q]), SilentReactions(g, u), CalmReactions(g, u))
CalmQueue(js, js2, g, u) == Calmly(Items(js), Items(js2), SilentJobs(g, u), CalmJobs(g, u))
CalmStack(s, s2, g, u)   == Calmly(Items(s), Items(s2), SilentFrames(g, u), CalmFrames(g, u))

LEMMA CalmTales ==
  ASSUME NEW rs, NEW rs2, NEW js, NEW js2, NEW s, NEW s2, NEW g, NEW u,
         CalmAll(rs, rs2, g, u), CalmQueue(js, js2, g, u), CalmStack(s, s2, g, u)
  PROVE  /\ \A x \in Pair : Hidden(g, u, x) =>
              \A t : Tells(rs2, js2, s2, x, t) <=> Tells(rs, js, s, x, t)
         /\ \A p, q \in Promise : Follower(js2, p, q) <=> Follower(js, p, q)
<1>1. ASSUME NEW x \in Pair, Hidden(g, u, x)
      PROVE  /\ \A q \in Promise : \A rd : rd.on[1] = Resolving(0, x) =>
                  (rd \in Items(rs[q]) <=> rd \in Items(rs2[q]))
             /\ \A e : JobOf(e, x) => (e \in Items(js) <=> e \in Items(js2))
             /\ \A fr : CallOf(fr, x) => (fr \in Items(s) <=> fr \in Items(s2))
  <2>1. \A rd : rd.on[1] = Resolving(0, x) => rd \notin SilentReactions(g, u)
    BY <1>1 DEF SilentReactions, SilentHandler
  <2>2. \A e : JobOf(e, x) => e \notin SilentJobs(g, u)
    BY <1>1 DEF SilentJobs, SilentHandler, JobOf
  <2>3. \A fr : CallOf(fr, x) => fr \notin SilentFrames(g, u)
    BY <1>1 DEF SilentFrames, CallOf
  <2> QED
    BY <2>1, <2>2, <2>3 DEF CalmAll, CalmQueue, CalmStack, Calmly,
                            CalmReactions, CalmJobs, CalmFrames
<1>2. \A e : e.is = "thenable" /\ e.thenable \in Promise => (e \in Items(js) <=> e \in Items(js2))
  BY DEF CalmQueue, Calmly, CalmJobs, SilentJobs
<1>3. \A p, q \in Promise : Follower(js2, p, q) <=> Follower(js, p, q)
  BY <1>2 DEF Follower
<1>4. ASSUME NEW x \in Pair, Hidden(g, u, x), NEW t
      PROVE  Tells(rs2, js2, s2, x, t) <=> Tells(rs, js, s, x, t)
  BY <1>1, <1>4 DEF Tells
<1> QED
  BY <1>3, <1>4

(* What is open stays open as pairs are given and used.                    *)
LEMMA OpenStays ==
  ASSUME NEW g, NEW u, NEW g2, NEW u2, g \subseteq g2, u \subseteq u2
  PROVE  /\ \A x : Hidden(g2, u2, x) => Hidden(g, u, x)
         /\ \A rd : OpenReaction(g, rd) => OpenReaction(g2, rd)
         /\ \A e : OpenJob(g, e) => OpenJob(g2, e)
         /\ \A fr : OpenFrame(g, u, fr) => OpenFrame(g2, u2, fr)
<1>1. \A x : Hidden(g2, u2, x) => Hidden(g, u, x)
  BY DEF Hidden
<1>2. \A cap : OpenCap(g, cap) => OpenCap(g2, cap)
  BY DEF OpenCap
<1> QED
  BY <1>1, <1>2 DEF OpenReaction, OpenJob, OpenFrame

(* All is open after a step whose news is open.                            *)
LEMMA CalmOpen ==
  ASSUME FateInv, given \subseteq given', used \subseteq used',
         CalmAll(reactions, reactions', given', used'), CalmQueue(jobs, jobs', given', used'),
         CalmStack(stack, stack', given', used')
  PROVE  /\ OpenReactions(reactions', given') /\ OpenJobs(jobs', given')
         /\ OpenFrames(stack', given', used')
<1>1. /\ OpenReactions(reactions, given) /\ OpenJobs(jobs, given)
      /\ OpenFrames(stack, given, used)
  BY DEF FateInv
<1>2. OpenReactions(reactions', given')
  BY <1>1, OpenStays DEF CalmAll, Calmly, CalmReactions, OpenReactions
<1>3. OpenJobs(jobs', given')
  BY <1>1, OpenStays DEF CalmQueue, Calmly, CalmJobs, OpenJobs
<1>4. OpenFrames(stack', given', used')
  BY <1>1, OpenStays DEF CalmStack, Calmly, CalmFrames, OpenFrames
<1> QED
  BY <1>2, <1>3, <1>4

(* The same is told of every promise when every hidden pair tells what it  *)
(* told; a pair given to the program in its first day was never hidden, or *)
(* had nothing to tell.                                                    *)
LEMMA EvenTales ==
  ASSUME FateInv, given \subseteq given', used' = used,
         \A x \in given' \ given : x[2] = 0 \/ ~PairMade(made, x),
         \A x \in Pair : Hidden(given', used', x) =>
           \A t : Tells(reactions', jobs', stack', x, t) <=> Tells(reactions, jobs, stack, x, t),
         \A p, q \in Promise : Follower(jobs', p, q) <=> Follower(jobs, p, q)
  PROVE  /\ OneTales(reactions', jobs', stack', given', used')
         /\ \A p \in Promise : \A t : ToldOf(p, t)' <=> ToldOf(p, t)
<1>0. PromiseInv /\ OneTales(reactions, jobs, stack, given, used)
  BY DEF FateInv
<1>1. \A x : Hidden(given', used', x) => Hidden(given, used, x)
  BY DEF Hidden
<1>2. ASSUME NEW x \in Pair, NEW t, Hidden(given, used, x), Tells(reactions, jobs, stack, x, t)
      PROVE  Hidden(given', used', x)
  <2>1. PairMade(made, x)
    BY <1>0, <1>2, TellsMade
  <2> QED
    BY <1>2, <2>1 DEF Hidden
<1>3. OneTales(reactions', jobs', stack', given', used')
  BY <1>0, <1>1 DEF OneTales, OneTale
<1>4. \A p \in Promise : \A t : ToldOf(p, t)' <=> ToldOf(p, t)
  BY <1>1, <1>2 DEF ToldOf, Told
<1> QED
  BY <1>3, <1>4

(* A step that leaves what is told as it is leaves every fate as it is, or *)
(* creates a promise.                                                      *)
EvenStep ==
  /\ result' = result /\ failed' = failed
  /\ \/ state' = state
     \/ \E q \in Promise : state[q] = "none" /\ state' = [state EXCEPT ![q] = "pending"]

FateStep == FateInv' /\ (fates' = fates \/ Promises!Next)

LEMMA EvenFates ==
  ASSUME FateInv, PromiseInv', EvenStep,
         OpenReactions(reactions', given'), OpenJobs(jobs', given'),
         OpenFrames(stack', given', used'),
         OneTales(reactions', jobs', stack', given', used'),
         \A p \in Promise : \A t : ToldOf(p, t)' <=> ToldOf(p, t)
  PROVE  FateStep
<1>1. /\ PromiseInv /\ ~failed /\ ErrorsOnly(state, result)
      /\ state \in [Promise -> {"none", "pending", "fulfilled", "rejected"}]
  BY Typed DEF FateInv
<1>2. CASE state' = state
  <2>1. FateInv'
    BY <1>1, <1>2 DEF FateInv, EvenStep
  <2>2. \A p \in Promise : KeepsFate(p)
    BY <1>2 DEF KeepsFate, EvenStep
  <2> QED
    BY <2>1, <2>2, StutterFates DEF FateStep
<1>3. ASSUME NEW q \in Promise, state[q] = "none", state' = [state EXCEPT ![q] = "pending"]
      PROVE  FateStep
  <2>1. ErrorsOnly(state', result')
    BY <1>1, <1>3 DEF ErrorsOnly, EvenStep
  <2>2. FateInv'
    BY <1>1, <2>1 DEF FateInv, EvenStep
  <2>3. \A p \in Promise \ {q} : KeepsFate(p)
    BY <1>1, <1>3 DEF KeepsFate, EvenStep
  <2>4. \A t : ~ToldOf(q, t)
    BY <1>1, <1>3, ToldPending
  <2>5. OpenFate(q)'
    BY <1>1, <1>3, <2>4 DEF OpenFate
  <2> QED
    BY <1>3, <2>2, <2>3, <2>5, CreateFate DEF FateStep
<1> QED
  BY <1>2, <1>3 DEF EvenStep

CalmStep ==
  /\ result' = result /\ used' = used /\ failed' = failed
  /\ given \subseteq given' /\ \A x \in given' \ given : x[2] = 0
  /\ Stays
  /\ CalmAll(reactions, reactions', given', used') /\ CalmQueue(jobs, jobs', given', used')
  /\ CalmStack(stack, stack', given', used')

LEMMA CalmFates ==
  ASSUME FateInv, PromiseInv', CalmStep
  PROVE  FateStep
<1>1. /\ OpenReactions(reactions', given') /\ OpenJobs(jobs', given')
      /\ OpenFrames(stack', given', used')
  BY CalmOpen DEF CalmStep
<1>2. /\ \A x \in Pair : Hidden(given', used', x) =>
           \A t : Tells(reactions', jobs', stack', x, t) <=> Tells(reactions, jobs, stack, x, t)
      /\ \A p, q \in Promise : Follower(jobs', p, q) <=> Follower(jobs, p, q)
  BY CalmTales DEF CalmStep
<1>3. /\ OneTales(reactions', jobs', stack', given', used')
      /\ \A p \in Promise : \A t : ToldOf(p, t)' <=> ToldOf(p, t)
  BY <1>2, EvenTales DEF CalmStep
<1>4. EvenStep
  <2>1. PromiseInv
    BY DEF FateInv
  <2> QED
    BY <2>1, Created DEF EvenStep, CalmStep, Stays
<1> QED
  BY <1>1, <1>3, <1>4, EvenFates

-----------------------------------------------------------------------------
(* Calm changes of the stack, of the queue and of the reactions.           *)
LEMMA NewCalm ==
  ASSUME NEW g, NEW u
  PROVE  /\ \A k \in CodeFrames \ {"getter"}, c \in Pair \cup {None} :
              OpenCap(g, c) => Code(k, c) \in CalmFrames(g, u)
         /\ \A x \in Pair, v \in Result, r \in BOOLEAN :
              ~Hidden(g, u, x) /\ (r => v = Error) => Call(x, v, r) \in CalmFrames(g, u)
         /\ \A f, q \in Promise : Awaiting(f, q) \in CalmFrames(g, u)
         /\ \A p \in Promise : Getter(p) \in CalmFrames(g, u)
         /\ \A fr \in Frame : fr.at # "call" => fr \in SilentFrames(g, u)
<1>1. ASSUME NEW k \in CodeFrames \ {"getter"}, NEW c \in Pair \cup {None}, OpenCap(g, c)
      PROVE  Code(k, c) \in CalmFrames(g, u)
  <2>1. Code(k, c) \in Frame /\ Code(k, c).at = k /\ Code(k, c).of = c /\ k # "call"
    BY NewFrames DEF CodeFrames
  <2> QED
    BY <1>1, <2>1 DEF CalmFrames, SilentFrames, OpenFrame
<1>2. ASSUME NEW x \in Pair, NEW v \in Result, NEW r \in BOOLEAN, ~Hidden(g, u, x), r => v = Error
      PROVE  Call(x, v, r) \in CalmFrames(g, u)
  <2> DEFINE fr == Call(x, v, r)
  <2>1. /\ fr \in Frame /\ fr.at = "call" /\ fr.pair = x /\ fr.arg = v /\ fr.reject = r
        /\ "call" \notin CodeFrames
    BY NewFrames DEF CodeFrames
  <2> HIDE DEF fr
  <2>2. fr \in SilentFrames(g, u) /\ OpenFrame(g, u, fr)
    BY <1>2, <2>1 DEF SilentFrames, OpenFrame
  <2> QED
    BY <2>2 DEF CalmFrames, fr
<1>3. \A f, q \in Promise : Awaiting(f, q) \in CalmFrames(g, u)
  BY NewFrames DEF CalmFrames, SilentFrames, OpenFrame, CodeFrames
<1>4. \A p \in Promise : Getter(p) \in CalmFrames(g, u)
  BY NewFrames DEF CalmFrames, SilentFrames, OpenFrame, CodeFrames
<1>5. \A fr \in Frame : fr.at # "call" => fr \in SilentFrames(g, u)
  BY DEF SilentFrames
<1> QED
  BY <1>1, <1>2, <1>3, <1>4, <1>5

LEMMA CalmStacks ==
  ASSUME PromiseInv, NEW g, NEW u
  PROVE  /\ CalmStack(stack, stack, g, u)
         /\ \A fr \in CalmFrames(g, u) :
              /\ CalmStack(stack, Append(stack, fr), g, u)
              /\ stack = <<>> => CalmStack(stack, <<fr>>, g, u)
              /\ stack # <<>> /\ Top \in SilentFrames(g, u) =>
                   CalmStack(stack, Append(Pop, fr), g, u)
         /\ \A fr, f2 \in CalmFrames(g, u) :
              /\ stack = <<>> => CalmStack(stack, Append(<<fr>>, f2), g, u)
              /\ stack # <<>> /\ Top \in SilentFrames(g, u) =>
                   CalmStack(stack, Pop \o <<fr, f2>>, g, u)
         /\ stack # <<>> /\ Top \in SilentFrames(g, u) => CalmStack(stack, Pop, g, u)
<1> DEFINE C == CalmFrames(g, u)
<1>0. C \subseteq Frame
  BY DEF CalmFrames, SilentFrames
<1>1. \A s2, D : D \subseteq C /\ Items(s2) = Items(stack) \cup D => CalmStack(stack, s2, g, u)
  BY DEF CalmStack, Calmly
<1>2. ASSUME NEW s2, NEW D, stack # <<>>, Top \in SilentFrames(g, u), D \subseteq C,
             Items(s2) = Items(Pop) \cup D
      PROVE  CalmStack(stack, s2, g, u)
  <2>1. Items(stack) = Items(Pop) \cup {Top}
    BY <1>2, StackItems
  <2> DEFINE Q == SilentFrames(g, u)
  <2> HIDE DEF C, Q
  <2>2. Calmly(Items(stack), Items(s2), Q, C)
    <3>1. \A fr \in Items(s2) : fr \in Items(stack) \/ fr \in C
      BY <1>2, <2>1
    <3>2. \A fr \in Items(stack) : fr \in Items(s2) \/ fr \in Q
      BY <1>2, <2>1 DEF Q
    <3> QED
      BY <3>1, <3>2 DEF Calmly
  <2> QED
    BY <2>2 DEF CalmStack, C, Q
<1> HIDE DEF C
<1>3. CalmStack(stack, stack, g, u)
  BY DEF CalmStack, Calmly
<1>4. ASSUME NEW fr \in C
      PROVE  /\ CalmStack(stack, Append(stack, fr), g, u)
             /\ stack = <<>> => CalmStack(stack, <<fr>>, g, u)
             /\ stack # <<>> /\ Top \in SilentFrames(g, u) =>
                  CalmStack(stack, Append(Pop, fr), g, u)
  <2>1. {fr} \subseteq C /\ fr \in Frame
    BY <1>0
  <2>2. Items(Append(stack, fr)) = Items(stack) \cup {fr}
    BY <2>1, StackItems
  <2>3. stack = <<>> => Items(<<fr>>) = Items(stack) \cup {fr}
    BY ItemsOfOne
  <2>4. stack # <<>> => Items(Append(Pop, fr)) = Items(Pop) \cup {fr}
    BY <2>1, StackItems
  <2> QED
    BY <1>1, <1>2, <2>1, <2>2, <2>3, <2>4
<1>5. ASSUME NEW fr \in C, NEW f2 \in C
      PROVE  /\ stack = <<>> => CalmStack(stack, Append(<<fr>>, f2), g, u)
             /\ stack # <<>> /\ Top \in SilentFrames(g, u) =>
                  CalmStack(stack, Pop \o <<fr, f2>>, g, u)
  <2> DEFINE one == <<fr>>
             two == <<fr, f2>>
  <2>1. {fr, f2} \subseteq C /\ fr \in Frame /\ f2 \in Frame
    BY <1>0
  <2>2. one \in Seq(Frame)
    BY <2>1
  <2>3. Items(one) = {fr} /\ two = Append(one, f2)
    BY ItemsOfOne
  <2>4. two \in Seq(Frame)
    BY <2>1, TwoFrames
  <2> HIDE DEF one, two
  <2>5. Items(two) = {fr, f2}
    BY <2>2, <2>3, <2>1, ItemsOf
  <2>6. stack = <<>> => Items(Append(one, f2)) = Items(stack) \cup {fr, f2}
    BY <2>3, <2>5, ItemsOfOne
  <2>7. stack # <<>> => Items(Pop \o two) = Items(Pop) \cup {fr, f2}
    <3>1. stack # <<>> => Pop \in Seq(Frame)
      BY TopFrame
    <3> QED
      BY <2>4, <2>5, <3>1, ItemsOf
  <2> QED
    BY <1>1, <1>2, <2>1, <2>6, <2>7 DEF one, two
<1>6. stack # <<>> /\ Top \in SilentFrames(g, u) => CalmStack(stack, Pop, g, u)
  <2>1. Items(Pop) = Items(Pop) \cup {} /\ {} \subseteq C
    OBVIOUS
  <2> QED
    BY <1>2, <2>1
<1> QED
  BY <1>3, <1>4, <1>5, <1>6 DEF C

(* Nothing happens, or then() is called on a promise.                      *)
LEMMA CalmSame ==
  ASSUME NEW g, NEW u, NEW rs, NEW js
  PROVE  CalmAll(rs, rs, g, u) /\ CalmQueue(js, js, g, u)
BY DEF CalmAll, CalmQueue, Calmly

(* The job that a reaction becomes.                                        *)
Straight(rd) == \A x \in Pair : rd.on[1] # Resolving(1, x) /\ rd.on[2] # Resolving(0, x)

LEMMA OpenReactionJob ==
  ASSUME NEW g, NEW u, NEW rd \in ReactionRecord, OpenReaction(g, rd),
         NEW v \in Result, NEW r \in BOOLEAN, r => v = Error,
         Straight(rd)
  PROVE  LET e == Reaction(rd, v, r) IN
         /\ e \in Job /\ e.is = "reaction" /\ OpenJob(g, e) /\ OutcomeOf(e) = <<r, v>>
         /\ \A x \in Pair : JobOf(e, x) <=> rd.on[1] = Resolving(0, x)
         /\ SilentHandler(g, u, rd.on[1]) => e \in CalmJobs(g, u)
<1> DEFINE e == Reaction(rd, v, r)
<1>1. /\ e \in Job /\ e.is = "reaction" /\ e.cap = rd.cap /\ e.arg = v /\ e.reject = r
      /\ e.handler = IF r THEN rd.on[2] ELSE rd.on[1]
  BY DEF Reaction, ReactionRecord, Job
<1> HIDE DEF e
<1>2. OpenJob(g, e) /\ OutcomeOf(e) = <<r, v>>
  BY <1>1 DEF OpenJob, OpenReaction, OutcomeOf
<1>3. \A x \in Pair : JobOf(e, x) <=> rd.on[1] = Resolving(0, x)
  BY <1>1 DEF JobOf, OpenReaction, Straight
<1>4. SilentHandler(g, u, rd.on[1]) => e \in CalmJobs(g, u)
  <2>1. ASSUME NEW x \in Pair, NEW i \in {0, 1}, e.handler = Resolving(i, x)
        PROVE  rd.on[1] = Resolving(0, x)
    BY <1>1, <1>3, <2>1 DEF JobOf
  <2>2. SilentHandler(g, u, rd.on[1]) => SilentHandler(g, u, e.handler)
    BY <2>1 DEF SilentHandler
  <2> QED
    BY <1>1, <1>2, <2>2 DEF CalmJobs, SilentJobs
<1> QED
  BY <1>1, <1>2, <1>3, <1>4 DEF e

LEMMA CalmThen ==
  ASSUME FateInv, ~MayFail, NEW g, NEW u, NEW p \in Promise, state[p] # "none",
         NEW rd \in CalmReactions(g, u), Straight(rd),
         perform_promise_then(p, rd.cap, rd.on[1], rd.on[2], jobs)
  PROVE  /\ CalmAll(reactions, reactions', g, u) /\ CalmQueue(jobs, jobs', g, u)
         /\ failed' = failed
<1>0. /\ PromiseInv /\ reactions \in [Promise -> Seq(ReactionRecord)] /\ jobs \in Seq(Job)
      /\ state \in [Promise -> {"none", "pending", "fulfilled", "rejected"}]
      /\ result \in [Promise -> Result] /\ failed \in BOOLEAN
  BY Typed DEF FateInv
<1>1. /\ rd \in ReactionRecord /\ OpenReaction(g, rd) /\ SilentHandler(g, u, rd.on[1])
      /\ rd \in SilentReactions(g, u)
  BY DEF CalmReactions, SilentReactions
<1>2. [cap |-> rd.cap, on |-> <<rd.on[1], rd.on[2]>>] = rd
  BY <1>1 DEF ReactionRecord
<1>3. CASE state[p] = "pending"
  <2>1. reactions' = [reactions EXCEPT ![p] = Append(@, rd)] /\ jobs' = jobs /\ failed' = failed
    BY <1>2, <1>3 DEF perform_promise_then
  <2>2. /\ reactions'[p] = Append(reactions[p], rd)
        /\ \A q \in Promise \ {p} : reactions'[q] = reactions[q]
    BY <1>0, <2>1
  <2>3. Items(Append(reactions[p], rd)) = Items(reactions[p]) \cup {rd}
    BY <1>0, <1>1, ItemsOf
  <2>4. CalmAll(reactions, reactions', g, u)
    BY <2>2, <2>3 DEF CalmAll, Calmly
  <2> QED
    BY <2>1, <2>4, CalmSame
<1>4. CASE state[p] # "pending"
  <2> DEFINE e == Reaction(rd, result[p], state[p] = "rejected")
  <2>1. /\ \E part \in {<<e>>} : jobs' = jobs \o part /\ failed' = (failed \/ part # <<e>>)
        /\ reactions' = reactions
    BY <1>2, <1>4 DEF perform_promise_then, Enqueue
  <2>2. e \in CalmJobs(g, u) /\ e \in Job
    <3>1. result[p] \in Result /\ (state[p] = "rejected") \in BOOLEAN
          /\ (state[p] = "rejected" => result[p] = Error)
      BY <1>0 DEF FateInv, ErrorsOnly
    <3> QED
      BY <1>1, <3>1, OpenReactionJob DEF CalmJobs
  <2> HIDE DEF e
  <2>3. jobs' = Append(jobs, e) /\ failed' = failed
    <3>1. jobs' = jobs \o <<e>> /\ failed' = failed
      BY <1>0, <2>1
    <3> QED
      BY <1>0, <2>2, <3>1
  <2>4. Items(jobs') = Items(jobs) \cup {e}
    BY <1>0, <2>2, <2>3, ItemsOf
  <2>5. CalmQueue(jobs, jobs', g, u)
    BY <2>2, <2>4 DEF CalmQueue, Calmly
  <2> QED
    BY <2>1, <2>3, <2>5, CalmSame
<1> QED
  BY <1>3, <1>4

LEMMA NewCalmReaction ==
  ASSUME NEW g, NEW u, NEW cap \in Pair \cup {None}, OpenCap(g, cap), NEW h1, NEW h2
  PROVE  LET rd == [cap |-> cap, on |-> <<h1, h2>>] IN
         /\ rd.cap = cap /\ rd.on[1] = h1 /\ rd.on[2] = h2
         /\ h1 \in {None, User} /\ h2 \in {None, User} => rd \in CalmReactions(g, u) /\ Straight(rd)
         /\ \A x \in Pair : h1 = Resolving(0, x) /\ h2 = Resolving(1, x) =>
              /\ rd \in ReactionRecord /\ OpenReaction(g, rd) /\ Straight(rd)
              /\ ~Hidden(g, u, x) => rd \in CalmReactions(g, u)
         /\ \A f \in Promise : h1 = Resume(f) /\ h2 = Resume(f)
              => rd \in CalmReactions(g, u) /\ Straight(rd)
<1> DEFINE rd == [cap |-> cap, on |-> <<h1, h2>>]
<1>1. /\ rd.cap = cap /\ rd.on[1] = h1 /\ rd.on[2] = h2
      /\ h1 \in Handler /\ h2 \in Handler => rd \in ReactionRecord
  BY DEF ReactionRecord
<1> HIDE DEF rd
<1>2. ASSUME h1 \in Handler, h2 \in Handler,
             \A i \in {0, 1}, x \in Pair : h1 # Resolving(i, x) /\ h2 # Resolving(i, x)
      PROVE  rd \in CalmReactions(g, u) /\ Straight(rd)
  <2>1. SilentHandler(g, u, h1) /\ OpenReaction(g, rd) /\ Straight(rd)
    BY <1>1, <1>2 DEF SilentHandler, OpenReaction, Straight
  <2> QED
    BY <1>1, <1>2, <2>1 DEF CalmReactions, SilentReactions
<1>3. \A i \in {0, 1}, x \in Pair, j \in {0, 1}, y \in Pair :
        Resolving(i, x) = Resolving(j, y) => i = j /\ x = y
  BY HandlerKinds
<1>4. ASSUME NEW x \in Pair, h1 = Resolving(0, x), h2 = Resolving(1, x)
      PROVE  /\ rd \in ReactionRecord /\ OpenReaction(g, rd) /\ Straight(rd)
             /\ ~Hidden(g, u, x) => rd \in CalmReactions(g, u)
  <2>1. rd \in ReactionRecord
    BY <1>1, <1>4, HandlerKinds
  <2>2. OpenReaction(g, rd) /\ Straight(rd)
    BY <1>1, <1>3, <1>4 DEF OpenReaction, Straight
  <2>3. ~Hidden(g, u, x) => SilentHandler(g, u, h1)
    BY <1>3, <1>4 DEF SilentHandler
  <2> QED
    BY <1>1, <2>1, <2>2, <2>3 DEF CalmReactions, SilentReactions
<1>5. h1 \in {None, User} /\ h2 \in {None, User} => rd \in CalmReactions(g, u) /\ Straight(rd)
  BY <1>2, HandlerKinds
<1>6. \A f \in Promise : h1 = Resume(f) /\ h2 = Resume(f)
        => rd \in CalmReactions(g, u) /\ Straight(rd)
  BY <1>2, HandlerKinds
<1> QED
  BY <1>1, <1>4, <1>5, <1>6 DEF rd

-----------------------------------------------------------------------------
(* The steps of the program, and of awaits.                                *)
LEMMA NotHidden ==
  ASSUME NEW g, NEW u
  PROVE  /\ \A q : ~Hidden(g, u, <<q, 0>>) /\ OpenCap(g, <<q, 0>>)
         /\ \A x : x \in g \cup u => ~Hidden(g, u, x)
         /\ \A x : x # None /\ OpenCap(g, x) => ~Hidden(g, u, x)
         /\ OpenCap(g, None)
BY DEF Hidden, OpenCap

LEMMA EvalFate == FateInv /\ PromiseInv' /\ JS_Eval => FateStep
<1> SUFFICES ASSUME FateInv, PromiseInv', JS_Eval PROVE FateStep
  OBVIOUS
<1> DEFINE fr == Code("script", None)
<1>1. fr \in CalmFrames(given', used')
  BY NewCalm, NotHidden DEF CodeFrames
<1> HIDE DEF fr
<1>2. stack = <<>> /\ stack' = <<fr>> /\ UNCHANGED <<promiseVars, made, used, given, async, jobVars>>
  BY DEF JS_Eval, fr
<1>3. PromiseInv
  BY DEF FateInv
<1>4. CalmStack(stack, stack', given', used')
  BY <1>1, <1>2, <1>3, CalmStacks
<1>5. Stays
  BY <1>2 DEF Stays, promiseVars
<1>6. CalmStep
  BY <1>2, <1>4, <1>5, CalmSame DEF CalmStep, promiseVars, jobVars
<1> QED
  BY <1>6, CalmFates

LEMMA LeaveFate == FateInv /\ PromiseInv' /\ Leave => FateStep
<1> SUFFICES ASSUME FateInv, PromiseInv', Leave PROVE FateStep
  OBVIOUS
<1>1. stack # <<>> /\ Top.at # "call" /\ stack' = Pop
      /\ UNCHANGED <<promiseVars, made, used, given, async, jobVars>>
  BY DEF Leave, InCode
<1>2. PromiseInv
  BY DEF FateInv
<1>3. Top \in SilentFrames(given', used')
  BY <1>1, <1>2, TopFrame, NewCalm
<1>4. CalmStack(stack, stack', given', used')
  BY <1>1, <1>2, <1>3, CalmStacks
<1>5. Stays
  BY <1>1 DEF Stays, promiseVars
<1>6. CalmStep
  BY <1>1, <1>4, <1>5, CalmSame DEF CalmStep, promiseVars, jobVars
<1> QED
  BY <1>6, CalmFates

(* What ends and hands a value to its capability.                          *)
LEMMA EndFate ==
  ASSUME FateInv, PromiseInv', stack # <<>>, Top.at \in CodeFrames \ {"getter"},
         NEW v \in Result, NEW r \in BOOLEAN, r => v = Error,
         stack' = CallCap(Pop, Top.of, v, r),
         UNCHANGED <<promiseVars, made, used, given, jobVars>>
  PROVE  FateStep
<1>1. PromiseInv
  BY DEF FateInv
<1>2. /\ Top \in Frame /\ Top.of \in Pair \cup {None} /\ Pop \in Seq(Frame)
      /\ OpenFrame(given, used, Top) /\ Top \in Items(stack)
  <2>1. Top \in Items(stack)
    BY <1>1, StackItems
  <2> QED
    BY <1>1, <2>1, TopFrame, FrameKinds DEF CodeFrames, FateInv, OpenFrames
<1>3. OpenCap(given, Top.of)
  BY <1>2 DEF OpenFrame
<1>4. Top \in SilentFrames(given', used')
  BY <1>2, NewCalm DEF CodeFrames
<1>5. CalmStack(stack, stack', given', used')
  <2>1. CASE Top.of = None
    <3>1. stack' = Pop
      BY <2>1 DEF CallCap
    <3> QED
      BY <1>1, <1>4, <3>1, CalmStacks
  <2>2. CASE Top.of # None
    <3>1. stack' = Append(Pop, Call(Top.of, v, r))
      BY <2>2 DEF CallCap
    <3>2. ~Hidden(given', used', Top.of) /\ Top.of \in Pair
      BY <1>2, <1>3, <2>2, NotHidden
    <3>3. Call(Top.of, v, r) \in CalmFrames(given', used')
      BY <3>2, NewCalm
    <3> QED
      BY <1>1, <1>4, <3>1, <3>3, CalmStacks
  <2> QED
    BY <2>1, <2>2
<1>6. Stays
  BY DEF Stays, promiseVars
<1>7. CalmStep
  BY <1>5, <1>6, CalmSame DEF CalmStep, promiseVars, jobVars
<1> QED
  BY <1>7, CalmFates

LEMMA ThrowFate == FateInv /\ PromiseInv' /\ Throw => FateStep
BY EndFate DEF Throw, InCode, CodeFrames, Result

LEMMA ReturnFate ==
  ASSUME FateInv, PromiseInv', NEW v \in Value, Return(v)
  PROVE  FateStep
BY EndFate DEF Return, InCode, CodeFrames, Result, Value

LEMMA CallFate ==
  ASSUME FateInv, PromiseInv', NEW x \in Pair, NEW v \in Value, NEW r \in BOOLEAN,
         CallResolving(x, v, r)
  PROVE  FateStep
<1> DEFINE fr == Call(x, IF r THEN Error ELSE v, r)
<1>1. fr \in CalmFrames(given', used')
  <2>1. ~Hidden(given', used', x) /\ (IF r THEN Error ELSE v) \in Result
    BY NotHidden DEF CallResolving, Result, Value
  <2> QED
    BY <2>1, NewCalm
<1> HIDE DEF fr
<1>2. stack' = Append(stack, fr) /\ UNCHANGED <<promiseVars, made, used, given, async, jobVars>>
  BY DEF CallResolving, fr
<1>3. PromiseInv
  BY DEF FateInv
<1>4. CalmStack(stack, stack', given', used')
  BY <1>1, <1>2, <1>3, CalmStacks
<1>5. Stays
  BY <1>2 DEF Stays, promiseVars
<1>6. CalmStep
  BY <1>2, <1>4, <1>5, CalmSame DEF CalmStep, promiseVars, jobVars
<1> QED
  BY <1>6, CalmFates

LEMMA ConstructorFate ==
  ASSUME FateInv, PromiseInv', NEW q \in Promise, js_promise_constructor(q)
  PROVE  FateStep
<1> DEFINE fr == Code("executor", <<q, 0>>)
<1>1. Create(q) /\ stack' = Append(stack, fr) /\ given' = given \cup {<<q, 0>>}
      /\ UNCHANGED <<result, reactions, used, async, jobVars>>
  BY DEF js_promise_constructor
<1>2. fr \in CalmFrames(given', used')
  BY PairParts, NewCalm, NotHidden DEF CodeFrames
<1> HIDE DEF fr
<1>3. PromiseInv
  BY DEF FateInv
<1>4. CalmStack(stack, stack', given', used')
  BY <1>1, <1>2, <1>3, CalmStacks
<1>5. CalmStep
  BY <1>1, <1>4, CalmSame DEF CalmStep, Stays, jobVars
<1> QED
  BY <1>5, CalmFates

LEMMA ResolveFate ==
  ASSUME FateInv, PromiseInv', NEW q \in Promise, NEW v \in {Prim, Object}, NEW r \in BOOLEAN,
         js_promise_resolve(q, v, r)
  PROVE  FateStep
<1> DEFINE fr == Call(<<q, 0>>, IF r THEN Error ELSE v, r)
<1>1. Create(q) /\ stack' = Append(stack, fr)
      /\ UNCHANGED <<result, reactions, used, given, async, jobVars>>
  BY DEF js_promise_resolve
<1>2. fr \in CalmFrames(given', used')
  <2>1. (IF r THEN Error ELSE v) \in Result /\ <<q, 0>> \in Pair
    BY PairParts DEF Result
  <2> QED
    BY <2>1, NewCalm, NotHidden
<1> HIDE DEF fr
<1>3. PromiseInv
  BY DEF FateInv
<1>4. CalmStack(stack, stack', given', used')
  BY <1>1, <1>2, <1>3, CalmStacks
<1>5. CalmStep
  BY <1>1, <1>4, CalmSame DEF CalmStep, Stays, jobVars
<1> QED
  BY <1>5, CalmFates

LEMMA AsyncCallFate ==
  ASSUME FateInv, PromiseInv', NEW q \in Promise, js_async_function_call(q)
  PROVE  FateStep
<1> DEFINE fr == Code("async", <<q, 0>>)
<1>1. Create(q) /\ stack' = Append(stack, fr)
      /\ UNCHANGED <<result, reactions, used, given, jobVars>>
  BY DEF js_async_function_call
<1>2. fr \in CalmFrames(given', used')
  BY PairParts, NewCalm, NotHidden DEF CodeFrames
<1> HIDE DEF fr
<1>3. PromiseInv
  BY DEF FateInv
<1>4. CalmStack(stack, stack', given', used')
  BY <1>1, <1>2, <1>3, CalmStacks
<1>5. CalmStep
  BY <1>1, <1>4, CalmSame DEF CalmStep, Stays, jobVars
<1> QED
  BY <1>5, CalmFates

LEMMA ThenFate ==
  ASSUME FateInv, PromiseInv', ~MayFail, NEW p \in Promise, NEW q \in Promise, NEW h \in Handlers,
         js_promise_then(p, q, h[1], h[2])
  PROVE  FateStep
<1> DEFINE rd == [cap |-> <<q, 0>>, on |-> <<h[1], h[2]>>]
<1>1. /\ Create(q) /\ state[p] # "none"
      /\ perform_promise_then(p, <<q, 0>>, h[1], h[2], jobs)
      /\ UNCHANGED <<result, used, given, async, stack>>
  BY DEF js_promise_then, Made
<1>2. rd.cap = <<q, 0>> /\ rd.on[1] = h[1] /\ rd.on[2] = h[2]
  OBVIOUS
<1>3. rd \in CalmReactions(given', used') /\ Straight(rd)
  <2>1. OpenCap(given', <<q, 0>>) /\ <<q, 0>> \in Pair \cup {None}
    BY PairParts, NotHidden
  <2>2. CASE h[1] \in {None, User} /\ h[2] \in {None, User}
    BY <2>1, <2>2, NewCalmReaction
  <2>3. ASSUME NEW x \in given, h = js_create_resolving_functions(x)
        PROVE  rd \in CalmReactions(given', used') /\ Straight(rd)
    <3>1. x \in Pair /\ ~Hidden(given', used', x)
      BY <1>1, NotHidden, Typed DEF FateInv
    <3>2. h[1] = Resolving(0, x) /\ h[2] = Resolving(1, x)
      BY <2>3 DEF js_create_resolving_functions
    <3> QED
      BY <2>1, <3>1, <3>2, NewCalmReaction
  <2> QED
    BY <2>2, <2>3 DEF Handlers
<1> HIDE DEF rd
<1>4. PromiseInv
  BY DEF FateInv
<1>5. /\ CalmAll(reactions, reactions', given', used') /\ CalmQueue(jobs, jobs', given', used')
      /\ failed' = failed
  BY <1>1, <1>2, <1>3, CalmThen
<1>6. CalmStack(stack, stack', given', used')
  BY <1>1, <1>4, CalmStacks
<1>7. CalmStep
  BY <1>1, <1>5, <1>6 DEF CalmStep, Stays
<1> QED
  BY <1>7, CalmFates

(* An await suspends its function: the function on top leaves the stack.   *)
LEMMA SuspendFate ==
  ASSUME FateInv, PromiseInv', ~MayFail, stack # <<>>, Top.at # "call", stack' = Pop,
         NEW f \in Promise, NEW p \in Promise, state[p] # "none",
         perform_promise_then(p, None, Resume(f), Resume(f), jobs),
         UNCHANGED <<state, result, made, used, given>>
  PROVE  FateStep
<1> DEFINE rd == [cap |-> None, on |-> <<Resume(f), Resume(f)>>]
<1>1. /\ rd.cap = None /\ rd.on[1] = Resume(f) /\ rd.on[2] = Resume(f)
      /\ rd \in CalmReactions(given', used') /\ Straight(rd)
  BY NewCalmReaction, NotHidden
<1> HIDE DEF rd
<1>2. PromiseInv
  BY DEF FateInv
<1>3. /\ CalmAll(reactions, reactions', given', used') /\ CalmQueue(jobs, jobs', given', used')
      /\ failed' = failed
  BY <1>1, CalmThen
<1>4. Top \in SilentFrames(given', used')
  BY <1>2, TopFrame, NewCalm
<1>5. CalmStack(stack, stack', given', used')
  BY <1>2, <1>4, CalmStacks
<1>6. CalmStep
  BY <1>3, <1>5 DEF CalmStep, Stays
<1> QED
  BY <1>6, CalmFates

LEMMA AwaitPromiseFate ==
  ASSUME FateInv, PromiseInv', ~MayFail, NEW p \in Promise, AwaitPromise(p)
  PROVE  FateStep
<1>1. /\ stack # <<>> /\ Top.at = "async" /\ state[p] # "none"
      /\ perform_promise_then(p, None, Resume(Top.of[1]), Resume(Top.of[1]), jobs)
      /\ stack' = Pop /\ UNCHANGED <<state, result, made, used, given>>
  BY DEF AwaitPromise, InCode, Made
<1>2. Top.of \in Pair
  <2>1. PromiseInv
    BY DEF FateInv
  <2> QED
    BY <1>1, <2>1, TopFrame, FrameKinds DEF FrameSound, CodeFrames
<1>3. Top.of[1] \in Promise
  BY <1>2, PairParts
<1> QED
  BY <1>1, <1>3, SuspendFate

LEMMA AwaitResolvedFate == FateInv /\ PromiseInv' /\ ~MayFail /\ AwaitResolved => FateStep
<1> SUFFICES ASSUME FateInv, PromiseInv', ~MayFail, AwaitResolved PROVE FateStep
  OBVIOUS
<1>1. /\ stack # <<>> /\ Top.at = "await" /\ stack' = Pop
      /\ perform_promise_then(Top.on, None, Resume(Top.of), Resume(Top.of), jobs)
      /\ UNCHANGED <<state, result, made, used, given>>
  BY DEF AwaitResolved
<1>2. Top.of \in Promise /\ Top.on \in Promise /\ state[Top.on] # "none"
  <2>1. PromiseInv
    BY DEF FateInv
  <2>2. Top.of \in Promise /\ Top.on \in Promise /\ made[Top.on] > 0
    BY <1>1, <2>1, TopFrame, FrameKinds DEF FrameSound, CodeFrames
  <2> QED
    BY <2>1, <2>2, Typed
<1> QED
  BY <1>1, <1>2, SuspendFate

LEMMA AwaitValueFate ==
  ASSUME FateInv, PromiseInv', NEW q \in Promise, NEW v \in {Prim, Object}, AwaitValue(q, v)
  PROVE  FateStep
<1> DEFINE f == Top.of[1]
           fr == Awaiting(f, q)
           c == Call(<<q, 0>>, v, FALSE)
<1>1. /\ stack # <<>> /\ Top.at = "async" /\ Create(q) /\ stack' = Pop \o <<fr, c>>
      /\ UNCHANGED <<result, reactions, used, given, async, jobVars>>
  BY DEF AwaitValue, InCode
<1>2. PromiseInv
  BY DEF FateInv
<1>3. Top.of \in Pair
  BY <1>1, <1>2, TopFrame, FrameKinds DEF FrameSound, CodeFrames
<1>4. f \in Promise
  BY <1>3, PairParts
<1>5. fr \in CalmFrames(given', used')
  BY <1>4, NewCalm
<1>6. c \in CalmFrames(given', used')
  BY PairParts, NewCalm, NotHidden DEF Result
<1>7. Top \in SilentFrames(given', used')
  BY <1>1, <1>2, TopFrame, NewCalm
<1> HIDE DEF f, fr, c
<1>8. CalmStack(stack, stack', given', used')
  BY <1>1, <1>2, <1>5, <1>6, <1>7, CalmStacks
<1>9. CalmStep
  BY <1>1, <1>8, CalmSame DEF CalmStep, Stays, jobVars
<1> QED
  BY <1>9, CalmFates

-----------------------------------------------------------------------------
(* A job: one that resumes a function, or calls a handler of the program   *)
(* or a pair it knows, tells nothing; one that calls a hidden pair leaves  *)
(* the outcome on its way.                                                 *)
LEMMA ReactionFate ==
  ASSUME FateInv, PromiseInv', promise_reaction_job
  PROVE  FateStep
<1> DEFINE e == Head(jobs)
           g == given'
           u == used'
<1>1. /\ stack = <<>> /\ jobs # <<>> /\ e.is = "reaction" /\ jobs' = Tail(jobs)
      /\ UNCHANGED <<promiseVars, failed, made, used, given>>
  BY DEF promise_reaction_job
<1>2. PromiseInv /\ Items(jobs) = Items(Tail(jobs)) \cup {e}
  BY <1>1, StackItems DEF FateInv
<1>3. /\ e \in Job /\ e \in Items(jobs) /\ OpenJob(given, e) /\ JobSound(made, async, e)
      /\ e.cap \in Pair \cup {None} /\ e.arg \in Result /\ e.reject \in BOOLEAN
      /\ e.handler \in Handler
  <2>1. e \in Items(jobs) /\ e \in Job
    BY <1>2, StackItems
  <2> QED
    BY <1>1, <1>2, <2>1, ItemsSound, JobKinds DEF FateInv, OpenJobs
<1>4. OpenCap(g, e.cap) /\ (e.reject => e.arg = Error)
  BY <1>1, <1>3 DEF OpenJob
<1>5. Stays /\ result' = result /\ reactions' = reactions
  BY <1>1 DEF Stays, promiseVars
<1> HIDE DEF e, g, u
<1>6. ASSUME SilentHandler(g, u, e.handler), CalmStack(stack, stack', g, u) PROVE FateStep
  <2>1. e \in SilentJobs(g, u)
    BY <1>1, <1>3, <1>6 DEF SilentJobs
  <2>2. CalmQueue(jobs, jobs', g, u)
    BY <1>1, <1>2, <2>1 DEF CalmQueue, Calmly
  <2>3. CalmStep
    BY <1>1, <1>5, <1>6, <2>2, CalmSame DEF CalmStep, g, u
  <2> QED
    BY <2>3, CalmFates
<1>7. CASE e.handler = None
  <2>1. stack' = CallCap(<<>>, e.cap, e.arg, e.reject)
    BY <1>7, HandlerKinds DEF promise_reaction_job, e
  <2>2. SilentHandler(g, u, e.handler)
    BY <1>7, HandlerKinds DEF SilentHandler
  <2>3. CASE e.cap = None
    <3>1. stack' = stack
      BY <1>1, <2>1, <2>3 DEF CallCap
    <3> QED
      BY <1>2, <1>6, <2>2, <3>1, CalmStacks
  <2>4. CASE e.cap # None
    <3>1. stack' = Append(stack, Call(e.cap, e.arg, e.reject))
      BY <1>1, <2>1, <2>4 DEF CallCap
    <3>2. Call(e.cap, e.arg, e.reject) \in CalmFrames(g, u)
      BY <1>3, <1>4, <2>4, NotHidden, NewCalm
    <3> QED
      BY <1>2, <1>6, <2>2, <3>1, <3>2, CalmStacks
  <2> QED
    BY <2>3, <2>4
<1>8. CASE e.handler = User
  <2>1. stack' = <<Code("handler", e.cap)>>
    BY <1>8, HandlerKinds DEF promise_reaction_job, e
  <2>2. SilentHandler(g, u, e.handler)
    BY <1>8, HandlerKinds DEF SilentHandler
  <2>3. Code("handler", e.cap) \in CalmFrames(g, u)
    BY <1>3, <1>4, NewCalm DEF CodeFrames
  <2> QED
    BY <1>1, <1>2, <1>6, <2>1, <2>2, <2>3, CalmStacks
<1>9. CASE \E f \in Promise : e.handler = Resume(f)
  <2>1. PICK f \in Promise : e.handler = Resume(f)
    BY <1>9
  <2>2. e.handler \notin {None, User} /\ e.handler.is = "resume" /\ e.handler.of = f
    BY <2>1, HandlerKinds
  <2>3. stack' = <<Code("async", <<f, 0>>)>>
    BY <2>2 DEF promise_reaction_job, e
  <2>4. SilentHandler(g, u, e.handler)
    BY <2>1, HandlerKinds DEF SilentHandler
  <2>5. Code("async", <<f, 0>>) \in CalmFrames(g, u)
    BY PairParts, NewCalm, NotHidden DEF CodeFrames
  <2> QED
    BY <1>1, <1>2, <1>6, <2>3, <2>4, <2>5, CalmStacks
<1>10. CASE \E i \in {0, 1}, x \in Pair : e.handler = Resolving(i, x)
  <2>1. PICK i \in {0, 1}, x \in Pair : e.handler = Resolving(i, x)
    BY <1>10
  <2>2. /\ e.handler \notin {None, User} /\ e.handler.is = "resolving" /\ e.handler.pair = x
        /\ e.handler.reject = (i = 1)
    BY <2>1, HandlerKinds
  <2>3. e.handler.reject = e.reject
    BY <1>1, <1>3, <2>1, <2>2 DEF JobSound
  <2>4. stack' = Append(CallCap(<<>>, e.cap, Prim, FALSE), Call(x, e.arg, e.reject))
    BY <2>2, <2>3 DEF promise_reaction_job, e
  <2> DEFINE c == Call(x, e.arg, e.reject)
             b == Call(e.cap, Prim, FALSE)
  <2>5. e.cap # None => b \in CalmFrames(g, u)
    BY <1>3, <1>4, NotHidden, NewCalm DEF Result
  <2>6. /\ c \in Frame /\ c.at = "call" /\ c.pair = x /\ c.arg = e.arg /\ c.reject = e.reject
        /\ CallOf(c, x) /\ OutcomeOf(c) = OutcomeOf(e)
    BY <1>3, NewFrames DEF CallOf, OutcomeOf
  <2>7. CASE ~Hidden(g, u, x)
    <3>1. SilentHandler(g, u, e.handler)
      BY <2>1, <2>7, HandlerKinds DEF SilentHandler
    <3>2. c \in CalmFrames(g, u)
      BY <1>3, <1>4, <2>7, NewCalm
    <3>3. CASE e.cap = None
      <4>1. stack' = Append(stack, c)
        BY <1>1, <2>4, <3>3 DEF CallCap
      <4> QED
        BY <1>2, <1>6, <3>1, <3>2, <4>1, CalmStacks
    <3>4. CASE e.cap # None
      <4>1. stack' = Append(<<b>>, c)
        BY <2>4, <3>4 DEF CallCap
      <4> QED
        BY <1>1, <1>2, <1>6, <2>5, <3>1, <3>2, <3>4, <4>1, CalmStacks
    <3> QED
      BY <3>3, <3>4
  <2>8. CASE Hidden(g, u, x)
    <3> DEFINE B == IF e.cap = None THEN {} ELSE {b}
    <3> HIDE DEF b, c
    <3>1. Items(stack') = B \cup {c} /\ B \subseteq CalmFrames(g, u)
      <4>1. CASE e.cap = None
        <5>1. stack' = Append(stack, c)
          BY <1>1, <2>4, <4>1 DEF CallCap, c
        <5>2. Items(stack') = {} \cup {c}
          BY <1>1, <1>2, <2>6, <5>1, StackItems, ItemsOfOne
        <5> QED
          BY <4>1, <5>2
      <4>2. CASE e.cap # None
        <5>1. stack' = Append(<<b>>, c)
          BY <2>4, <4>2 DEF CallCap, b, c
        <5>2. b \in Frame
          BY <2>5, <4>2 DEF CalmFrames, SilentFrames
        <5>3. <<b>> \in Seq(Frame) /\ Items(<<b>>) = {b}
          BY <5>2, ItemsOfOne
        <5>4. Items(stack') = {b} \cup {c}
          <6> DEFINE one == <<b>>
          <6> HIDE DEF one
          <6>1. one \in Seq(Frame)
            BY <5>3 DEF one
          <6>2. Items(Append(one, c)) = Items(one) \cup {c}
            BY <2>6, <6>1, ItemsOf
          <6> QED
            BY <5>1, <5>3, <6>2 DEF one
        <5> QED
          BY <2>5, <4>2, <5>4
      <4> QED
        BY <4>1, <4>2
    <3> HIDE DEF B
    <3>2. Items(stack) = {} /\ g = given /\ u = used
      BY <1>1, ItemsOfOne DEF g, u
    <3>3. OpenFrames(stack', given', used')
      <4>1. OpenFrame(g, u, c)
        BY <1>1, <1>3, <1>4, <2>6 DEF OpenFrame, JobSound, CodeFrames
      <4> QED
        BY <3>1, <4>1 DEF OpenFrames, CalmFrames, g, u
    <3>4. OpenReactions(reactions', given') /\ OpenJobs(jobs', given')
      BY <1>1, <1>2, <1>5 DEF FateInv, OpenReactions, OpenJobs
    <3>5. \A p, q \in Promise : Follower(jobs', p, q) <=> Follower(jobs, p, q)
      BY <1>1, <1>2 DEF Follower
    <3>6. ASSUME NEW y \in Pair, Hidden(g, u, y)
          PROVE  /\ JobOf(e, y) <=> y = x
                 /\ \A fr \in Items(stack') : CallOf(fr, y) <=> fr = c /\ y = x
      <4>1. JobOf(e, y) <=> y = x
        BY <1>1, <2>1, HandlerKinds DEF JobOf
      <4>2. \A fr \in B : ~CallOf(fr, y)
        BY <3>1, <3>6 DEF CalmFrames, SilentFrames, CallOf
      <4> QED
        BY <2>6, <3>1, <4>1, <4>2 DEF CallOf
    <3>7. ASSUME NEW y \in Pair, Hidden(g, u, y), NEW t
          PROVE  Tells(reactions', jobs', stack', y, t) <=> Tells(reactions, jobs, stack, y, t)
      <4>1. (\E fr \in Items(stack') : CallOf(fr, y) /\ t = Promises!Takes(OutcomeOf(fr)))
              <=> y = x /\ t = Promises!Takes(OutcomeOf(e))
        BY <2>6, <3>1, <3>6, <3>7
      <4>2. (\E k \in Items(jobs) : JobOf(k, y) /\ t = Promises!Takes(OutcomeOf(k)))
              <=> \/ y = x /\ t = Promises!Takes(OutcomeOf(e))
                  \/ \E k \in Items(jobs') : JobOf(k, y) /\ t = Promises!Takes(OutcomeOf(k))
        BY <1>1, <1>2, <3>6, <3>7
      <4> QED
        BY <1>5, <3>2, <4>1, <4>2 DEF Tells
    <3>8. /\ OneTales(reactions', jobs', stack', given', used')
          /\ \A p \in Promise : \A t : ToldOf(p, t)' <=> ToldOf(p, t)
      BY <1>1, <3>5, <3>7, EvenTales DEF g, u
    <3>9. EvenStep
      BY <1>1, <1>5 DEF EvenStep, promiseVars
    <3> QED
      BY <3>3, <3>4, <3>8, <3>9, EvenFates
  <2> QED
    BY <2>7, <2>8
<1> QED
  BY <1>3, <1>7, <1>8, <1>9, <1>10, HandlerKinds

-----------------------------------------------------------------------------
(* A promise settles: who waits for it is told its outcome by a job.       *)
LEMMA SettledJobs ==
  ASSUME FateInv, ~MayFail, NEW p \in Promise, state[p] = "pending", NEW v \in Result,
         NEW r \in BOOLEAN, r => v = Error, ~r => v \in {Prim, Object},
         fulfill_or_reject_promise(p, v, r)
  PROVE  /\ result' = [result EXCEPT ![p] = v]
         /\ state' = [state EXCEPT ![p] = IF r THEN "rejected" ELSE "fulfilled"]
         /\ reactions' = [reactions EXCEPT ![p] = <<>>] /\ failed' = failed
         /\ Items(jobs') = Items(jobs) \cup Items(Taken(p, v, r))
         /\ \A e \in Items(Taken(p, v, r)) :
              e.is = "reaction" /\ OpenJob(given, e) /\ OutcomeOf(e) = <<r, v>>
         /\ \A x \in Pair : (\E e \in Items(Taken(p, v, r)) : JobOf(e, x))
                              <=> \E rd \in Items(reactions[p]) : rd.on[1] = Resolving(0, x)
<1> DEFINE new == Taken(p, v, r)
<1>0. PromiseInv /\ jobs \in Seq(Job) /\ failed \in BOOLEAN
  BY Typed DEF FateInv
<1>1. /\ result' = [result EXCEPT ![p] = v]
      /\ state' = [state EXCEPT ![p] = IF r THEN "rejected" ELSE "fulfilled"]
      /\ reactions' = [reactions EXCEPT ![p] = <<>>]
      /\ Enqueue(jobs, new)
  BY DEF fulfill_or_reject_promise, Taken
<1>2. new \in Seq(Job)
  BY <1>0, TakenJobs
<1>3. \A e : e \in Items(new) <=> \E rd \in Items(reactions[p]) : e = Reaction(rd, v, r)
  BY DEF Taken, Items
<1>4. ASSUME NEW rd \in Items(reactions[p])
      PROVE  LET e == Reaction(rd, v, r) IN
             /\ e.is = "reaction" /\ OpenJob(given, e) /\ OutcomeOf(e) = <<r, v>>
             /\ \A x \in Pair : JobOf(e, x) <=> rd.on[1] = Resolving(0, x)
  <2>1. rd \in ReactionRecord /\ OpenReaction(given, rd) /\ Straight(rd)
    BY <1>0, StackItems, ItemsSound DEF FateInv, OpenReactions, ReactionSound, Straight
  <2> QED
    BY <2>1, OpenReactionJob
<1> HIDE DEF new
<1>5. jobs' = jobs \o new /\ failed' = failed
  BY <1>0, <1>1 DEF Enqueue
<1>6. Items(jobs') = Items(jobs) \cup Items(new)
  BY <1>0, <1>2, <1>5, ItemsOf
<1> QED
  BY <1>1, <1>3, <1>4, <1>5, <1>6 DEF new

LEMMA SettlesFate ==
  ASSUME FateInv, PromiseInv', ~MayFail, NEW p \in Promise, state[p] = "pending",
         NEW v \in Result, NEW r \in BOOLEAN, r => v = Error, ~r => v \in {Prim, Object},
         fulfill_or_reject_promise(p, v, r), CalmStack(stack, stack', given', used'),
         given' = given, used \subseteq used', \A x \in used' \ used : x[1] = p,
         OpenFate(p) \/ IsTold(p, Promises!Takes(<<r, v>>))
  PROVE  FateStep
<1> DEFINE out == Promises!Takes(<<r, v>>)
           new == Items(Taken(p, v, r))
           S(x, t) == Tells(reactions, jobs, stack, x, t)
           S2(x, t) == Tells(reactions', jobs', stack', x, t)
<1>0. /\ PromiseInv /\ ~failed /\ ErrorsOnly(state, result) /\ OpenReactions(reactions, given)
      /\ OpenJobs(jobs, given) /\ OpenFrames(stack, given, used)
      /\ OneTales(reactions, jobs, stack, given, used)
      /\ reactions \in [Promise -> Seq(ReactionRecord)] /\ result \in [Promise -> Result]
      /\ state \in [Promise -> {"none", "pending", "fulfilled", "rejected"}]
  BY Typed DEF FateInv
<1>1. /\ result' = [result EXCEPT ![p] = v]
      /\ state' = [state EXCEPT ![p] = IF r THEN "rejected" ELSE "fulfilled"]
      /\ reactions' = [reactions EXCEPT ![p] = <<>>] /\ failed' = failed
      /\ Items(jobs') = Items(jobs) \cup new
      /\ \A e \in new : e.is = "reaction" /\ OpenJob(given, e) /\ OutcomeOf(e) = <<r, v>>
      /\ \A x \in Pair : (\E e \in new : JobOf(e, x))
                           <=> \E rd \in Items(reactions[p]) : rd.on[1] = Resolving(0, x)
  BY SettledJobs
<1>2. /\ Items(reactions'[p]) = {}
      /\ \A q \in Promise \ {p} : reactions'[q] = reactions[q]
      /\ state'[p] = (IF r THEN "rejected" ELSE "fulfilled") /\ result'[p] = v
      /\ \A q \in Promise \ {p} : state'[q] = state[q] /\ result'[q] = result[q]
  BY <1>0, <1>1, ItemsOfOne
<1>3. \A x : Hidden(given', used', x) => Hidden(given, used, x)
  BY DEF Hidden
<1>4. \A x : x[1] # p => (Hidden(given', used', x) <=> Hidden(given, used, x))
  BY DEF Hidden
<1> HIDE DEF new
<1>5. ErrorsOnly(state', result')
  BY <1>0, <1>2 DEF ErrorsOnly
<1>6. /\ OpenReactions(reactions', given') /\ OpenJobs(jobs', given')
      /\ OpenFrames(stack', given', used')
  <2>1. OpenReactions(reactions', given')
    BY <1>0, <1>2 DEF OpenReactions
  <2>2. OpenJobs(jobs', given')
    BY <1>0, <1>1 DEF OpenJobs
  <2>3. OpenFrames(stack', given', used')
    BY <1>0, OpenStays DEF CalmStack, Calmly, CalmFrames, OpenFrames
  <2> QED
    BY <2>1, <2>2, <2>3
<1>7. \A a, b : Follower(jobs', a, b) <=> Follower(jobs, a, b)
  BY <1>1 DEF Follower
<1>8. ASSUME NEW x \in Pair, Hidden(given', used', x), NEW t
      PROVE  S2(x, t) <=> \/ S(x, t) /\ t # Promises!FollowsTo(p)
                          \/ S(x, Promises!FollowsTo(p)) /\ t = out
  <2>1. (\E q \in Promise : \E rd \in Items(reactions'[q]) :
           rd.on[1] = Resolving(0, x) /\ t = Promises!FollowsTo(q))
          <=> /\ t # Promises!FollowsTo(p)
              /\ \E q \in Promise : \E rd \in Items(reactions[q]) :
                   rd.on[1] = Resolving(0, x) /\ t = Promises!FollowsTo(q)
    BY <1>2, FatesApart
  <2>2. S(x, Promises!FollowsTo(p)) <=> \E e \in new : JobOf(e, x)
    BY <1>1, FatesApart DEF Tells
  <2>3. (\E e \in Items(jobs') : JobOf(e, x) /\ t = Promises!Takes(OutcomeOf(e)))
          <=> \/ \E e \in Items(jobs) : JobOf(e, x) /\ t = Promises!Takes(OutcomeOf(e))
              \/ S(x, Promises!FollowsTo(p)) /\ t = out
    BY <1>1, <2>2
  <2>4. \A fr : CallOf(fr, x) => (fr \in Items(stack') <=> fr \in Items(stack))
    BY <1>8 DEF CallOf, CalmStack, Calmly, CalmFrames, SilentFrames
  <2>5. \A o : Promises!Takes(o) # Promises!FollowsTo(p)
    BY FatesApart
  <2> QED
    BY <2>1, <2>3, <2>4, <2>5 DEF Tells
<1> HIDE DEF S, S2, out
<1>9. OneTales(reactions', jobs', stack', given', used')
  <2>1. ASSUME NEW x \in Pair, Hidden(given', used', x), NEW t, NEW w, S2(x, t), S2(x, w)
        PROVE  t = w
    <3>1. \A a, b : S(x, a) /\ S(x, b) => a = b
      BY <1>0, <1>3, <2>1 DEF OneTales, OneTale, S
    <3> QED
      BY <1>8, <2>1, <3>1
  <2> QED
    BY <2>1 DEF OneTales, OneTale, S2
<1>10. FateInv'
  BY <1>0, <1>1, <1>5, <1>6, <1>9 DEF FateInv
<1>11. ASSUME NEW q \in Promise \ {p}
       PROVE  \/ KeepsFate(q)
              \/ IsTold(q, Promises!FollowsTo(p)) /\ IsTold(q, out)'
  <2>1. CASE state[q] = "pending" /\ \E x \in Pair : /\ x[1] = q /\ Hidden(given', used', x)
                                                     /\ S(x, Promises!FollowsTo(p))
    <3>1. PICK x \in Pair : x[1] = q /\ Hidden(given', used', x) /\ S(x, Promises!FollowsTo(p))
      BY <2>1
    <3>2. IsTold(q, Promises!FollowsTo(p))
      BY <1>3, <2>1, <3>1 DEF IsTold, ToldOf, Told, S
    <3>3. S2(x, out)
      BY <1>8, <3>1
    <3>4. IsTold(q, out)'
      BY <1>2, <2>1, <3>1, <3>3 DEF IsTold, ToldOf, Told, S2, out
    <3> QED
      BY <3>2, <3>4
  <2>2. CASE state[q] = "pending" /\ ~\E x \in Pair : /\ x[1] = q /\ Hidden(given', used', x)
                                                      /\ S(x, Promises!FollowsTo(p))
    <3>1. ASSUME NEW x \in Pair, x[1] = q, Hidden(given', used', x), NEW t
          PROVE  S2(x, t) <=> S(x, t)
      <4>1. ~S(x, Promises!FollowsTo(p))
        BY <2>2, <3>1
      <4>2. S(x, t) => t # Promises!FollowsTo(p)
        BY <4>1
      <4> QED
        BY <1>8, <3>1, <4>1, <4>2
    <3>2. ASSUME NEW t PROVE ToldOf(q, t)' <=> ToldOf(q, t)
      BY <1>4, <1>7, <3>1 DEF ToldOf, Told, S, S2
    <3> QED
      BY <1>2, <3>2 DEF KeepsFate
  <2>3. CASE state[q] # "pending"
    BY <1>2, <2>3 DEF KeepsFate
  <2> QED
    BY <2>1, <2>2, <2>3
<1>12. <<r, v>> \in Promises!Outcome
  BY DEF Promises!Outcome, Promises!Fulfilled
<1>13. Promises!Next
  BY <1>2, <1>10, <1>11, <1>12, SettleFate DEF out
<1> QED
  BY <1>10, <1>13 DEF FateStep

-----------------------------------------------------------------------------
(* What is told of a promise is what its one way to settle tells.          *)
OnlyWays ==
  /\ \A fr \in Items(stack) : fr.at = "getter" => fr.promise \in Promise /\ OpenFate(fr.promise)
  /\ \A x \in Pair : x \notin used /\ PairMade(made, x) =>
       /\ state[x[1]] = "pending"
       /\ \A t : ToldOf(x[1], t) <=> /\ Hidden(given, used, x)
                                     /\ Tells(reactions, jobs, stack, x, t)
  /\ \A e \in Items(jobs) : e.is = "thenable" =>
       /\ state[e.of] = "pending"
       /\ \A t : ToldOf(e.of, t) <=> e.thenable \in Promise /\ t = Promises!FollowsTo(e.thenable)

LEMMA WaysTell == PromiseInv => OnlyWays
<1> SUFFICES ASSUME PromiseInv PROVE OnlyWays
  OBVIOUS
<1>0. stack \in Seq(Frame) /\ jobs \in Seq(Job)
  BY Typed
<1>1. ASSUME NEW p \in Promise
      PROVE  /\ \A n \in Nat : ByPair(made, used, p, n) \/ ByJob(jobs, p, n) \/ ByGetter(stack, p, n)
                                 => state[p] = "pending"
             /\ NotTwoWays(made, used, jobs, stack, p)
  BY TellersAreWays DEF WayOf, NoWay
<1>2. ASSUME NEW fr \in Items(stack), fr.at = "getter"
      PROVE  fr.promise \in Promise /\ OpenFate(fr.promise)
  <2>1. PICK i \in DOMAIN stack : fr = stack[i]
    BY DEF Items
  <2>2. i \in Nat /\ fr \in Frame
    BY <1>0, <2>1, LenProperties, StackItems
  <2> DEFINE p == fr.promise
  <2>3. p \in Promise /\ ByGetter(stack, p, i)
    BY <1>2, <2>1, <2>2, FrameKinds DEF ByGetter
  <2> HIDE DEF p
  <2>4. \A t : ~ToldOf(p, t)
    BY <1>1, <2>2, <2>3, TellersAreWays DEF NotTwoWays, ToldOf, Told
  <2> QED
    BY <1>1, <2>2, <2>3, <2>4 DEF OpenFate, p
<1>3. ASSUME NEW x \in Pair, x \notin used, PairMade(made, x)
      PROVE  /\ state[x[1]] = "pending"
             /\ \A t : ToldOf(x[1], t) <=> /\ Hidden(given, used, x)
                                           /\ Tells(reactions, jobs, stack, x, t)
  <2> DEFINE p == x[1]
             n == x[2]
  <2>1. p \in Promise /\ n \in Nat /\ x = <<p, n>> /\ made[p] \in Nat
    BY PairParts, Typed
  <2>2. ByPair(made, used, p, n)
    BY <1>3, <2>1 DEF ByPair, PairMade
  <2> HIDE DEF p, n
  <2>3. \A q : ~Follower(jobs, p, q)
    BY <1>1, <2>1, <2>2, TellersAreWays DEF NotTwoWays
  <2>4. ASSUME NEW y \in Pair, NEW t, y[1] = p, Hidden(given, used, y),
               Tells(reactions, jobs, stack, y, t)
        PROVE  y = x
    <3>1. y[2] \in Nat /\ y = <<p, y[2]>> /\ ByPair(made, used, p, y[2])
      BY <2>1, <2>4, TellersAreWays
    <3> QED
      BY <1>1, <2>1, <2>2, <3>1 DEF NotTwoWays
  <2>5. \A t : ToldOf(p, t) <=> Hidden(given, used, x) /\ Tells(reactions, jobs, stack, x, t)
    BY <2>3, <2>4 DEF ToldOf, Told, p
  <2> QED
    BY <1>1, <2>1, <2>2, <2>5 DEF p
<1>4. ASSUME NEW e \in Items(jobs), e.is = "thenable"
      PROVE  /\ state[e.of] = "pending"
             /\ \A t : ToldOf(e.of, t) <=>
                  e.thenable \in Promise /\ t = Promises!FollowsTo(e.thenable)
  <2>1. PICK i \in DOMAIN jobs : e = jobs[i]
    BY DEF Items
  <2> DEFINE p == e.of
  <2>2. i \in Nat /\ p \in Promise /\ ByJob(jobs, p, i)
    BY <1>0, <1>4, <2>1, LenProperties, StackItems, JobKinds DEF ByJob
  <2> HIDE DEF p
  <2>3. \A x \in Pair : \A t : ~(/\ x[1] = p /\ Hidden(given, used, x)
                                /\ Tells(reactions, jobs, stack, x, t))
    BY <1>1, <2>2, TellersAreWays DEF NotTwoWays
  <2>4. \A q : Follower(jobs, p, q) <=> q = e.thenable
    <3>1. Follower(jobs, p, e.thenable)
      BY <1>4 DEF Follower, p
    <3>2. ASSUME NEW q, Follower(jobs, p, q) PROVE q = e.thenable
      <4>1. PICK j \in Nat : ByJob(jobs, p, j) /\ jobs[j].thenable = q
        BY <2>2, <3>2, TellersAreWays
      <4> QED
        BY <1>1, <2>1, <2>2, <4>1 DEF NotTwoWays
    <3> QED
      BY <3>1, <3>2
  <2>5. \A t : ToldOf(p, t) <=> e.thenable \in Promise /\ t = Promises!FollowsTo(e.thenable)
    BY <2>3, <2>4 DEF ToldOf, Told
  <2> QED
    BY <1>1, <2>2, <2>5 DEF p
<1> QED
  BY <1>2, <1>3, <1>4 DEF OnlyWays

LEMMA WaysTellNext == PromiseInv' => OnlyWays'
BY WaysTell, PTL

(* The property "then" of an object has been read.                         *)
LEMMA ThenReadFate ==
  ASSUME FateInv, PromiseInv', ~MayFail, ThenRead
  PROVE  FateStep
<1> DEFINE p == Top.promise
<1>1. /\ stack # <<>> /\ Top.at = "getter" /\ stack' = Pop /\ UNCHANGED <<made, used, given, async>>
  BY DEF ThenRead, InCode
<1>2. PromiseInv /\ jobs \in Seq(Job) /\ failed \in BOOLEAN
  BY Typed DEF FateInv
<1>3. Top \in Items(stack) /\ Top \in SilentFrames(given', used')
  BY <1>1, <1>2, StackItems, TopFrame, NewCalm
<1>4. p \in Promise /\ OpenFate(p) /\ state[p] = "pending"
  BY <1>1, <1>2, <1>3, WaysTell DEF OnlyWays, OpenFate
<1>5. CalmStack(stack, stack', given', used')
  BY <1>1, <1>2, <1>3, CalmStacks
<1> HIDE DEF p
<1>6. ASSUME fulfill_or_reject_promise(p, Error, TRUE) PROVE FateStep
  BY <1>1, <1>4, <1>5, <1>6, SettlesFate DEF Result
<1>7. ASSUME fulfill_or_reject_promise(p, Object, FALSE) PROVE FateStep
  BY <1>1, <1>4, <1>5, <1>7, SettlesFate DEF Result
<1>8. ASSUME Enqueue(jobs, <<Thenable(p, Object)>>), UNCHANGED promiseVars PROVE FateStep
  <2> DEFINE e == Thenable(p, Object)
  <2>1. e \in Job /\ e.is = "thenable" /\ e.thenable = Object
    BY <1>4, NewJobs
  <2> HIDE DEF e
  <2>2. jobs' = jobs \o <<e>> /\ failed' = failed
    BY <1>2, <1>8 DEF Enqueue, e
  <2>3. Items(jobs') = Items(jobs) \cup {e}
    <3>1. jobs' = Append(jobs, e)
      BY <1>2, <2>1, <2>2
    <3> QED
      BY <1>2, <2>1, <3>1, ItemsOf
  <2>4. e \in CalmJobs(given', used')
    BY <2>1, PromiseAssumption DEF CalmJobs, SilentJobs, OpenJob
  <2>5. CalmQueue(jobs, jobs', given', used')
    BY <2>3, <2>4 DEF CalmQueue, Calmly
  <2>6. CalmStep
    BY <1>1, <1>5, <1>8, <2>2, <2>5, CalmSame DEF CalmStep, Stays, promiseVars
  <2> QED
    BY <2>6, CalmFates
<1> QED
  BY <1>6, <1>7, <1>8 DEF ThenRead, p

(* A pair is spent: nothing is told of its promise but by the jobs or      *)
(* frames that come instead, and of the others what was told.              *)
LEMMA SpentFate ==
  ASSUME FateInv, PromiseInv', NEW x \in Pair, used' = used \cup {x}, given' = given,
         UNCHANGED <<state, result, reactions, failed>>,
         CalmStack(stack, stack', given', used'), Items(jobs) \subseteq Items(jobs'),
         \A e \in Items(jobs') \ Items(jobs) : e.is = "thenable" /\ e.of = x[1]
  PROVE  FateInv' /\ \A r \in Promise \ {x[1]} : KeepsFate(r)
<1>0. /\ ~failed /\ ErrorsOnly(state, result) /\ OpenReactions(reactions, given)
      /\ OpenJobs(jobs, given) /\ OpenFrames(stack, given, used)
      /\ OneTales(reactions, jobs, stack, given, used)
  BY DEF FateInv
<1>1. /\ \A y : Hidden(given', used', y) => Hidden(given, used, y)
      /\ \A y : y[1] # x[1] => (Hidden(given', used', y) <=> Hidden(given, used, y))
  BY DEF Hidden
<1>2. ASSUME NEW y \in Pair, Hidden(given', used', y), NEW t
      PROVE  Tells(reactions', jobs', stack', y, t) <=> Tells(reactions, jobs, stack, y, t)
  <2>1. \A e : JobOf(e, y) => (e \in Items(jobs') <=> e \in Items(jobs))
    BY DEF JobOf
  <2>2. \A fr : CallOf(fr, y) => (fr \in Items(stack') <=> fr \in Items(stack))
    BY <1>2 DEF CallOf, CalmStack, Calmly, CalmFrames, SilentFrames
  <2> QED
    BY <2>1, <2>2 DEF Tells
<1>3. OpenReactions(reactions', given') /\ OpenJobs(jobs', given')
  BY <1>0 DEF OpenReactions, OpenJobs, OpenJob
<1>4. OpenFrames(stack', given', used')
  BY <1>0, OpenStays DEF CalmStack, Calmly, CalmFrames, OpenFrames
<1>5. OneTales(reactions', jobs', stack', given', used')
  BY <1>0, <1>1, <1>2 DEF OneTales, OneTale
<1>6. FateInv'
  BY <1>0, <1>3, <1>4, <1>5 DEF FateInv
<1>7. ASSUME NEW r \in Promise \ {x[1]} PROVE KeepsFate(r)
  <2>1. \A q : Follower(jobs', r, q) <=> Follower(jobs, r, q)
    BY <1>7 DEF Follower
  <2>2. \A t : ToldOf(r, t)' <=> ToldOf(r, t)
    BY <1>1, <1>2, <1>7, <2>1 DEF ToldOf, Told
  <2> QED
    BY <2>2 DEF KeepsFate
<1> QED
  BY <1>6, <1>7

(* What a resolving function that is not used yet knows of its promise.    *)
LEMMA CallTells ==
  ASSUME FateInv, stack # <<>>, Top.at = "call", Top.pair \notin used
  PROVE  LET x == Top.pair
             p == x[1]
         IN /\ x \in Pair /\ p \in Promise /\ state[p] = "pending"
            /\ Top.arg \in Result /\ Top.reject \in BOOLEAN
            /\ Top.reject => Top.arg = Error
            /\ ~Top.reject => Top.arg \in Value /\ ValueMade(made, Top.arg)
            /\ ~Top.reject /\ ~OpenFate(p) => Top.arg \in {Prim, Object}
            /\ OpenFate(p) \/ IsTold(p, Promises!Takes(OutcomeOf(Top)))
<1> DEFINE x == Top.pair
           p == x[1]
<1>0. PromiseInv /\ OnlyWays /\ Top \in Items(stack) /\ Top \in Frame
  BY StackItems, TopFrame, WaysTell DEF FateInv
<1>1. FrameSound(made, Top) /\ OpenFrame(given, used, Top)
  BY <1>0, ItemsSound DEF FateInv, OpenFrames
<1>2. x \in Pair /\ p \in Promise /\ Top.arg \in Result /\ Top.reject \in BOOLEAN
  BY <1>0, FrameKinds, PairParts DEF CodeFrames
<1>3. PairMade(made, x)
  BY <1>1 DEF FrameSound
<1>4. /\ state[p] = "pending"
      /\ \A t : ToldOf(p, t) <=> Hidden(given, used, x) /\ Tells(reactions, jobs, stack, x, t)
  BY <1>0, <1>2, <1>3 DEF OnlyWays
<1>5. Tells(reactions, jobs, stack, x, Promises!Takes(OutcomeOf(Top)))
  BY <1>0 DEF Tells, CallOf
<1>6. /\ ~Hidden(given, used, x) => OpenFate(p)
      /\ Hidden(given, used, x) => IsTold(p, Promises!Takes(OutcomeOf(Top)))
  BY <1>4, <1>5 DEF OpenFate, IsTold
<1>7. /\ Top.reject => Top.arg = Error
      /\ ~Top.reject => Top.arg \in Value /\ ValueMade(made, Top.arg)
      /\ ~Top.reject /\ Hidden(given, used, x) => Top.arg \in {Prim, Object}
  BY <1>1 DEF FrameSound, OpenFrame
<1> QED
  BY <1>2, <1>4, <1>6, <1>7

LEMMA ResolvingFate ==
  ASSUME FateInv, PromiseInv', ~MayFail, js_promise_resolve_function_call
  PROVE  FateStep
<1> DEFINE x == Top.pair
           p == x[1]
           v == Top.arg
           r == Top.reject
<1>0. stack # <<>> /\ Top.at = "call" /\ UNCHANGED <<made, given, async>>
  BY DEF js_promise_resolve_function_call
<1>1. PromiseInv /\ jobs \in Seq(Job) /\ failed \in BOOLEAN /\ Top \in Frame
  BY <1>0, Typed, TopFrame DEF FateInv
<1>2. CASE x \in used
  <2>1. stack' = Pop /\ UNCHANGED <<promiseVars, used, jobVars>>
    BY <1>2 DEF js_promise_resolve_function_call
  <2>2. Top \in SilentFrames(given', used')
    BY <1>1, <1>2, <2>1, NotHidden DEF SilentFrames
  <2>3. CalmStack(stack, stack', given', used')
    BY <1>0, <1>1, <2>1, <2>2, CalmStacks
  <2>4. CalmStep
    BY <1>0, <2>1, <2>3, CalmSame DEF CalmStep, Stays, promiseVars, jobVars
  <2> QED
    BY <2>4, CalmFates
<1>3. CASE x \notin used
  <2>1. /\ x \in Pair /\ p \in Promise /\ state[p] = "pending" /\ v \in Result /\ r \in BOOLEAN
        /\ r => v = Error
        /\ ~r => v \in Value /\ ValueMade(made, v)
        /\ ~r /\ ~OpenFate(p) => v \in {Prim, Object}
        /\ OpenFate(p) \/ IsTold(p, Promises!Takes(<<r, v>>))
    BY <1>0, <1>3, CallTells DEF OutcomeOf
  <2>2. /\ used' = used \cup {x}
        /\ stack' = IF ~r /\ v = Object THEN Append(Pop, Getter(p)) ELSE Pop
        /\ CASE r \/ v \in {Prim, Error} -> fulfill_or_reject_promise(p, v, r)
             [] ~r /\ v = p -> self_resolution(p)
             [] ~r /\ v = Object -> UNCHANGED <<promiseVars, jobVars>>
             [] ~r /\ v \in Promise \ {p} -> follow(p, v)
    BY <1>3 DEF js_promise_resolve_function_call, set_already_resolved
  <2>3. Top \in SilentFrames(given', used')
    BY <1>1, <2>2, NotHidden DEF SilentFrames
  <2>4. CalmStack(stack, Pop, given', used')
    BY <1>0, <1>1, <2>3, CalmStacks
  <2>5. /\ \A q \in Promise : q \notin {Prim, Object, Error}
        /\ Object \notin {Prim, Error} /\ Value = {Prim, Object} \cup Promise
    BY PromiseAssumption DEF Value
  <2>6. \A y \in used' \ used : y[1] = p
    BY <2>2
  <2> HIDE DEF x, p, v, r
  <2>7. CASE r \/ v \in {Prim, Error}
    <3>1. stack' = Pop /\ fulfill_or_reject_promise(p, v, r)
      BY <2>1, <2>2, <2>5, <2>7
    <3>2. ~r => v \in {Prim, Object}
      BY <2>1, <2>5, <2>7
    <3> QED
      BY <1>0, <2>1, <2>2, <2>4, <2>6, <3>1, <3>2, SettlesFate
  <2>8. CASE ~r /\ v = p
    <3>1. stack' = Pop /\ fulfill_or_reject_promise(p, Error, TRUE)
      BY <2>1, <2>2, <2>5, <2>8 DEF self_resolution
    <3>2. OpenFate(p)
      BY <2>1, <2>5, <2>8
    <3>3. Error \in Result
      BY DEF Result
    <3> QED
      BY <1>0, <2>1, <2>2, <2>4, <2>6, <3>1, <3>2, <3>3, SettlesFate
  <2>9. CASE ~r /\ v = Object
    <3>1. stack' = Append(Pop, Getter(p)) /\ UNCHANGED <<promiseVars, jobVars>>
      BY <2>1, <2>2, <2>5, <2>9
    <3>2. Getter(p) \in CalmFrames(given', used') /\ Getter(p) \in Frame
          /\ Getter(p).at = "getter" /\ Getter(p).promise = p
      BY <2>1, NewCalm, NewFrames
    <3>3. CalmStack(stack, stack', given', used')
      BY <1>0, <1>1, <2>3, <3>1, <3>2, CalmStacks
    <3>4. FateInv' /\ \A q \in Promise \ {p} : KeepsFate(q)
      <4>1. Items(jobs') = Items(jobs) /\ UNCHANGED <<state, result, reactions, failed>>
        BY <3>1 DEF promiseVars, jobVars
      <4> QED
        BY <1>0, <2>1, <2>2, <3>3, <4>1, SpentFate DEF p
    <3>5. PICK c \in Promise : c = p
      BY <2>1
    <3>6. OpenFate(c)'
      <4>1. Getter(c) \in Items(stack') /\ Getter(c).at = "getter" /\ Getter(c).promise = c
        BY <1>0, <1>1, <3>1, <3>2, <3>5, StackItems
      <4>2. OpenFate(Getter(c).promise)'
        BY <4>1, WaysTellNext DEF OnlyWays
      <4> QED
        BY <4>1, <4>2 DEF OpenFate
    <3>7. CASE OpenFate(c)
      <4>1. KeepsFate(c)
        BY <3>1, <3>6, <3>7 DEF KeepsFate, OpenFate, promiseVars
      <4> QED
        BY <3>4, <3>5, <4>1, StutterFates DEF FateStep
    <3>8. CASE ~OpenFate(c)
      <4>1. IsTold(c, Promises!Takes(<<FALSE, Object>>))
        BY <2>1, <2>9, <3>5, <3>8
      <4> QED
        BY <3>4, <3>5, <3>6, <4>1, ReopenFate DEF FateStep
    <3> QED
      BY <3>7, <3>8
  <2>10. CASE ~r /\ v \in Promise \ {p}
    <3>1. PICK c \in Promise, q \in Promise : c = p /\ q = v /\ c # q
      BY <2>1, <2>10
    <3> DEFINE e == Thenable(c, q)
    <3>2. stack' = Pop /\ Enqueue(jobs, <<e>>) /\ UNCHANGED promiseVars
      BY <2>1, <2>2, <2>5, <2>10, <3>1 DEF follow
    <3>3. e \in Job /\ e.is = "thenable" /\ e.of = c /\ e.thenable = q
      BY NewJobs
    <3> HIDE DEF e
    <3>4. jobs' = Append(jobs, e) /\ failed' = failed
      <4>1. jobs' = jobs \o <<e>> /\ failed' = failed
        BY <1>1, <3>2 DEF Enqueue
      <4> QED
        BY <1>1, <3>3, <4>1
    <3>5. Items(jobs') = Items(jobs) \cup {e}
      BY <1>1, <3>3, <3>4, ItemsOf
    <3>6. FateInv' /\ \A k \in Promise \ {c} : KeepsFate(k)
      <4>1. UNCHANGED <<state, result, reactions, failed>>
        BY <3>2, <3>4 DEF promiseVars
      <4> QED
        BY <1>0, <2>1, <2>2, <2>4, <3>1, <3>2, <3>3, <3>5, <4>1, SpentFate DEF p
    <3>7. OpenFate(c)
      BY <2>1, <2>5, <2>10, <3>1
    <3>8. IsTold(c, Promises!FollowsTo(q))'
      <4>1. \A k \in Items(jobs') : k.is = "thenable" =>
              /\ state'[k.of] = "pending"
              /\ \A t : ToldOf(k.of, t)' <=>
                   k.thenable \in Promise /\ t = Promises!FollowsTo(k.thenable)
        BY WaysTellNext DEF OnlyWays
      <4>2. e \in Items(jobs')
        BY <3>5
      <4>3. state'[c] = "pending" /\ ToldOf(c, Promises!FollowsTo(q))'
        BY <3>3, <4>1, <4>2
      <4> QED
        BY <4>3 DEF IsTold
    <3>9. state[q] # "none"
      <4>1. made[q] > 0
        BY <2>1, <2>10, <3>1 DEF ValueMade
      <4> QED
        BY <1>1, <4>1, Typed DEF PromiseInv, Sound
    <3> QED
      BY <3>1, <3>6, <3>7, <3>8, <3>9, FollowFate DEF FateStep
<2> QED
    BY <2>1, <2>5, <2>7, <2>8, <2>9, <2>10
<1> QED
  BY <1>2, <1>3

-----------------------------------------------------------------------------
(* A thenable job calls then() with a new pair.                            *)
LEMMA JobTells ==
  ASSUME FateInv, jobs # <<>>, Head(jobs).is = "thenable"
  PROVE  LET e == Head(jobs) IN
         /\ e \in Job /\ e.of \in Promise /\ e.thenable \in Promise \cup {Object}
         /\ Items(jobs) = Items(Tail(jobs)) \cup {e}
         /\ made[e.of] \in Nat /\ <<e.of, made[e.of]>> \in Pair /\ made[e.of] > 0
         /\ state[e.of] = "pending"
         /\ e.thenable \in Promise => state[e.thenable] # "none"
         /\ \A t : ToldOf(e.of, t) <=>
              e.thenable \in Promise /\ t = Promises!FollowsTo(e.thenable)
         /\ \A t : ~Tells(reactions, jobs, stack, <<e.of, made[e.of]>>, t)
         /\ <<e.of, made[e.of]>> \notin used \cup given
<1> DEFINE e == Head(jobs)
           x == <<e.of, made[e.of]>>
<1>0. PromiseInv /\ OnlyWays /\ jobs \in Seq(Job) /\ Items(jobs) = Items(Tail(jobs)) \cup {e}
  BY WaysTell, StackItems, Typed DEF FateInv
<1>1. e \in Items(jobs) /\ e \in Job /\ e.of \in Promise /\ e.thenable \in Promise \cup {Object}
  BY <1>0, StackItems, JobKinds
<1>2. made[e.of] < MaxPairs /\ made[e.of] \in 0 .. MaxPairs /\ MaxPairs \in Nat
  <2>1. \A k \in Items(jobs) : JobFits(made, k)
    BY <1>0 DEF PromiseInv, RoomKept, Items
  <2> QED
    BY <1>0, <1>1, <2>1, Typed DEF JobFits
<1>3. made[e.of] \in Nat /\ x \in Pair /\ x[1] = e.of /\ x[2] = made[e.of]
  BY <1>1, <1>2 DEF Pair
<1>4. /\ state[e.of] = "pending"
      /\ \A t : ToldOf(e.of, t) <=>
           e.thenable \in Promise /\ t = Promises!FollowsTo(e.thenable)
  BY <1>0, <1>1 DEF OnlyWays
<1>5. made[e.of] > 0
  BY <1>0, <1>1, <1>2, <1>4, Typed
<1>6. e.thenable \in Promise => state[e.thenable] # "none"
  <2>1. JobSound(made, async, e)
    BY <1>0, <1>1, ItemsSound
  <2> QED
    BY <1>0, <2>1, Typed DEF JobSound, ValueMade
<1>7. ~PairMade(made, x)
  BY <1>3 DEF PairMade
<1>8. \A t : ~Tells(reactions, jobs, stack, x, t)
  BY <1>0, <1>3, <1>7, TellsMade
<1>9. x \notin used \cup given
  BY <1>0, <1>7 DEF PromiseInv, Sound
<1> QED
  BY <1>0, <1>1, <1>3, <1>4, <1>5, <1>6, <1>8, <1>9

(* The "then" of an object: the program is given the pair.                 *)
LEMMA ThenableObjectFate ==
  ASSUME FateInv, PromiseInv', stack = <<>>, jobs # <<>>, Head(jobs).is = "thenable",
         Head(jobs).thenable = Object, NEW x, x = <<Head(jobs).of, made[Head(jobs).of]>>,
         given' = given \cup {x}, stack' = <<Code("thenable", x)>>, jobs' = Tail(jobs),
         UNCHANGED <<state, result, reactions, used, failed>>
  PROVE  FateStep
<1> DEFINE e == Head(jobs)
<1>0. PromiseInv
  BY DEF FateInv
<1>1. /\ e \in Job /\ Items(jobs) = Items(Tail(jobs)) \cup {e} /\ x \in Pair
      /\ ~PairMade(made, x)
  BY JobTells DEF PairMade
<1>2. e \in SilentJobs(given', used')
  BY <1>1, PromiseAssumption DEF SilentJobs
<1> HIDE DEF e
<1>3. CalmQueue(jobs, jobs', given', used')
  BY <1>1, <1>2 DEF CalmQueue, Calmly
<1>4. CalmStack(stack, stack', given', used')
  <2>1. OpenCap(given', x) /\ x \in Pair \cup {None}
    BY <1>1 DEF OpenCap
  <2>2. Code("thenable", x) \in CalmFrames(given', used')
    BY <2>1, NewCalm DEF CodeFrames
  <2> QED
    BY <1>0, <2>2, CalmStacks
<1>5. CalmAll(reactions, reactions', given', used')
  BY CalmSame
<1>6. /\ OpenReactions(reactions', given') /\ OpenJobs(jobs', given')
      /\ OpenFrames(stack', given', used')
  BY <1>3, <1>4, <1>5, CalmOpen
<1>7. /\ \A y \in Pair : Hidden(given', used', y) =>
           \A t : Tells(reactions', jobs', stack', y, t) <=> Tells(reactions, jobs, stack, y, t)
      /\ \A p, q \in Promise : Follower(jobs', p, q) <=> Follower(jobs, p, q)
  BY <1>3, <1>4, <1>5, CalmTales
<1>8. /\ OneTales(reactions', jobs', stack', given', used')
      /\ \A p \in Promise : \A t : ToldOf(p, t)' <=> ToldOf(p, t)
  BY <1>1, <1>7, EvenTales
<1> QED
  BY <1>6, <1>8, EvenFates DEF EvenStep

(* The "then" of a promise t, which makes the promise q: the new pair x    *)
(* waits for t, or for the outcome of t that a job brings it.              *)
LEMMA ThenablePromiseFate ==
  ASSUME FateInv, PromiseInv', ~MayFail, stack = <<>>, jobs # <<>>,
         Head(jobs).is = "thenable", NEW c \in Promise, NEW t \in Promise, NEW q \in Promise,
         Head(jobs).of = c, Head(jobs).thenable = t, state[q] = "none",
         NEW x, x = <<c, made[c]>>, state' = [state EXCEPT ![q] = "pending"],
         made' = [made EXCEPT ![q] = 1, ![c] = @ + 1],
         perform_promise_then(t, <<q, 0>>, Resolving(0, x), Resolving(1, x), Tail(jobs)),
         UNCHANGED <<result, used, given, stack>>
  PROVE  FateStep
<1> DEFINE e == Head(jobs)
           rest == Tail(jobs)
           rd == [cap |-> <<q, 0>>, on |-> <<Resolving(0, x), Resolving(1, x)>>]
           S(y, w) == Tells(reactions, jobs, stack, y, w)
           S2(y, w) == Tells(reactions', jobs', stack', y, w)
<1>0. /\ PromiseInv /\ ~failed /\ ErrorsOnly(state, result) /\ OpenReactions(reactions, given)
      /\ OpenJobs(jobs, given) /\ OpenFrames(stack, given, used)
      /\ OneTales(reactions, jobs, stack, given, used)
      /\ reactions \in [Promise -> Seq(ReactionRecord)] /\ result \in [Promise -> Result]
      /\ state \in [Promise -> {"none", "pending", "fulfilled", "rejected"}]
      /\ made \in [Promise -> 0 .. MaxPairs] /\ jobs \in Seq(Job) /\ failed \in BOOLEAN
  BY Typed DEF FateInv
<1>1. /\ e \in Job /\ e.is = "thenable" /\ Items(jobs) = Items(rest) \cup {e}
      /\ x \in Pair /\ x[1] = c /\ x[2] = made[c] /\ made[c] \in Nat /\ made[c] > 0
      /\ x \notin used \cup given /\ state[c] = "pending" /\ state[t] # "none"
      /\ \A w : ToldOf(c, w) <=> w = Promises!FollowsTo(t)
      /\ \A w : ~S(x, w)
  BY JobTells
<1>2. rest \in Seq(Job)
  BY <1>0
<1>3. c # q /\ t # q
  BY <1>1
<1>4. /\ rd \in ReactionRecord /\ OpenReaction(given, rd) /\ Straight(rd)
      /\ rd.on[1] = Resolving(0, x)
  <2>1. OpenCap(given, <<q, 0>>) /\ <<q, 0>> \in Pair \cup {None}
    BY PairParts, NotHidden
  <2> QED
    BY <1>1, <2>1, NewCalmReaction
<1>5. \A y \in Pair : rd.on[1] = Resolving(0, y) <=> y = x
  BY <1>1, <1>4, HandlerKinds
<1> HIDE DEF e, rest, S, S2
<1>6. Hidden(given', used', x) /\ \A y : Hidden(given', used', y) <=> Hidden(given, used, y)
  BY <1>1 DEF Hidden
<1>7. OnlyWays'
  BY WaysTellNext
<1>8. /\ state'[c] = "pending" /\ state'[q] = "pending"
      /\ \A r \in Promise \ {q} : state'[r] = state[r]
      /\ made'[c] = made[c] + 1 /\ made'[q] = 1
  BY <1>0, <1>1, <1>3
<1>9. \A w : ToldOf(c, w)' <=> S2(x, w)
  <2>1. PairMade(made', x) /\ x \notin used'
    BY <1>1, <1>8 DEF PairMade
  <2> QED
    BY <1>1, <1>6, <1>7, <2>1 DEF OnlyWays, S2
<1>10. OpenFate(q)'
  <2>1. /\ <<q, 0>> \in Pair /\ <<q, 0>>[1] = q /\ ~Hidden(given', used', <<q, 0>>)
        /\ PairMade(made', <<q, 0>>)
    BY <1>8, PairParts, NotHidden DEF PairMade
  <2>2. <<q, 0>> \notin used'
    BY <1>0, PairParts, Typed DEF PromiseInv, Sound, PairMade
  <2>3. \A w : ~ToldOf(q, w)'
    BY <1>7, <2>1, <2>2 DEF OnlyWays
  <2> QED
    BY <1>8, <2>3 DEF OpenFate
<1>11. ASSUME failed' = failed, OpenReactions(reactions', given'), OpenJobs(jobs', given'),
              \A k \in Items(jobs') : k \in Items(rest) \/ k.is = "reaction",
              Items(rest) \subseteq Items(jobs'),
              \A y \in Pair \ {x} : Hidden(given, used, y) => \A w : S2(y, w) <=> S(y, w),
              \A w, z : S2(x, w) /\ S2(x, z) => w = z
       PROVE  FateInv' /\ \A r \in Promise \ {c, q} : KeepsFate(r)
  <2>1. ErrorsOnly(state', result')
    BY <1>0, <1>8 DEF ErrorsOnly
  <2>2. OneTales(reactions', jobs', stack', given', used')
    <3>1. ASSUME NEW y \in Pair, Hidden(given', used', y), NEW w, NEW z, S2(y, w), S2(y, z)
          PROVE  w = z
      <4>1. CASE y = x
        BY <1>11, <3>1, <4>1
      <4>2. CASE y # x
        <5>1. Hidden(given, used, y) /\ S(y, w) /\ S(y, z)
          BY <1>6, <1>11, <3>1, <4>2
        <5> QED
          BY <1>0, <5>1 DEF OneTales, OneTale, S
      <4> QED
        BY <4>1, <4>2
    <3> QED
      BY <3>1 DEF OneTales, OneTale, S2
  <2>3. OpenFrames(stack', given', used')
    BY <1>0 DEF OpenFrames
  <2>4. FateInv'
    BY <1>0, <1>11, <2>1, <2>2, <2>3 DEF FateInv
  <2>5. ASSUME NEW r \in Promise \ {c, q} PROVE KeepsFate(r)
    <3>1. \A p : Follower(jobs', r, p) <=> Follower(jobs, r, p)
      BY <1>1, <1>11, <2>5 DEF Follower, e
    <3>2. ASSUME NEW w PROVE ToldOf(r, w)' <=> ToldOf(r, w)
      BY <1>1, <1>6, <1>11, <2>5, <3>1 DEF ToldOf, Told, S, S2
    <3> QED
      BY <1>8, <2>5, <3>2 DEF KeepsFate
  <2> QED
    BY <2>4, <2>5
<1>12. \A y \in Pair : ~JobOf(e, y)
  BY <1>1 DEF JobOf
<1>13. OpenJobs(rest, given)
  BY <1>0, <1>1 DEF OpenJobs
<1>14. CASE state[t] = "pending"
  <2>1. reactions' = [reactions EXCEPT ![t] = Append(@, rd)] /\ jobs' = rest /\ failed' = failed
    BY <1>14 DEF perform_promise_then, rest
  <2> HIDE DEF rd
  <2>2. /\ Items(reactions'[t]) = Items(reactions[t]) \cup {rd}
        /\ \A p \in Promise \ {t} : reactions'[p] = reactions[p]
    <3>1. reactions'[t] = Append(reactions[t], rd)
      BY <1>0, <2>1
    <3>2. Items(Append(reactions[t], rd)) = Items(reactions[t]) \cup {rd}
      BY <1>0, <1>4, ItemsOf
    <3> QED
      BY <1>0, <2>1, <3>1, <3>2
  <2>3. ASSUME NEW y \in Pair, NEW w
        PROVE  S2(y, w) <=> S(y, w) \/ (y = x /\ w = Promises!FollowsTo(t))
    <3>1. (\E p \in Promise : \E k \in Items(reactions'[p]) :
             k.on[1] = Resolving(0, y) /\ w = Promises!FollowsTo(p))
            <=> \/ \E p \in Promise : \E k \in Items(reactions[p]) :
                     k.on[1] = Resolving(0, y) /\ w = Promises!FollowsTo(p)
                \/ y = x /\ w = Promises!FollowsTo(t)
      BY <1>5, <2>2
    <3>2. (\E k \in Items(jobs') : JobOf(k, y) /\ w = Promises!Takes(OutcomeOf(k)))
            <=> \E k \in Items(jobs) : JobOf(k, y) /\ w = Promises!Takes(OutcomeOf(k))
      BY <1>1, <1>12, <2>1
    <3> QED
      BY <3>1, <3>2 DEF Tells, S, S2
  <2>4. OpenReactions(reactions', given')
    BY <1>0, <1>4, <2>2 DEF OpenReactions
  <2>5. \A w : S2(x, w) <=> w = Promises!FollowsTo(t)
    BY <1>1, <2>3
  <2>6. FateInv' /\ \A r \in Promise \ {c, q} : KeepsFate(r)
    BY <1>11, <1>13, <2>1, <2>3, <2>4, <2>5
  <2>7. KeepsFate(c)
    BY <1>1, <1>8, <1>9, <2>5 DEF KeepsFate
  <2> QED
    BY <1>10, <2>6, <2>7, CreateFate DEF FateStep
<1>15. CASE state[t] # "pending"
  <2> DEFINE o == <<state[t] = "rejected", result[t]>>
             k == Reaction(rd, result[t], state[t] = "rejected")
  <2>1. /\ Settled(t) /\ o \in Promises!Outcome
        /\ (state[t] = "rejected") \in BOOLEAN /\ result[t] \in Result
        /\ state[t] = "rejected" => result[t] = Error
    <3>1. state[t] \in {"fulfilled", "rejected"}
      BY <1>0, <1>1, <1>15
    <3>2. CASE state[t] = "rejected"
      <4>1. result[t] = Error /\ (state[t] = "rejected") = TRUE
        BY <1>0, <3>2 DEF ErrorsOnly
      <4> QED
        BY <1>0, <3>1, <4>1 DEF Promises!Outcome, Settled
    <3>3. CASE state[t] = "fulfilled"
      <4>1. result[t] \in {Prim, Object} /\ (state[t] = "rejected") = FALSE
        BY <1>0, <3>3 DEF PromiseInv, NeverNested
      <4> QED
        BY <1>0, <3>1, <3>3, <4>1 DEF Promises!Outcome, Promises!Fulfilled, Settled
    <3> QED
      BY <3>1, <3>2, <3>3
  <2>2. reactions' = reactions /\ jobs' = rest \o <<k>> /\ failed' = failed
    BY <1>0, <1>15 DEF perform_promise_then, Enqueue, rest
  <2> HIDE DEF rd
  <2>3. /\ k \in Job /\ k.is = "reaction" /\ OpenJob(given, k) /\ OutcomeOf(k) = o
        /\ \A y \in Pair : JobOf(k, y) <=> y = x
    BY <1>4, <1>5, <2>1, OpenReactionJob
  <2> HIDE DEF k, o
  <2>4. Items(jobs') = Items(rest) \cup {k}
    <3>1. jobs' = Append(rest, k)
      BY <1>2, <2>2, <2>3
    <3> QED
      BY <1>2, <2>3, <3>1, ItemsOf
  <2>5. ASSUME NEW y \in Pair, NEW w
        PROVE  S2(y, w) <=> S(y, w) \/ (y = x /\ w = Promises!Takes(o))
    <3>1. (\E j \in Items(jobs') : JobOf(j, y) /\ w = Promises!Takes(OutcomeOf(j)))
            <=> \/ \E j \in Items(jobs) : JobOf(j, y) /\ w = Promises!Takes(OutcomeOf(j))
                \/ y = x /\ w = Promises!Takes(o)
      BY <1>1, <1>12, <2>3, <2>4
    <3> QED
      BY <2>2, <3>1 DEF Tells, S, S2
  <2>6. OpenReactions(reactions', given') /\ OpenJobs(jobs', given')
    BY <1>0, <1>13, <2>2, <2>3, <2>4 DEF OpenReactions, OpenJobs
  <2>7. \A w : S2(x, w) <=> w = Promises!Takes(o)
    BY <1>1, <2>5
  <2>8. FateInv' /\ \A r \in Promise \ {c, q} : KeepsFate(r)
    BY <1>11, <2>2, <2>3, <2>4, <2>5, <2>6, <2>7
  <2>9. PICK out \in Promises!Outcome : out = o
    BY <2>1
  <2>10. IsTold(c, Promises!Takes(out))'
    BY <1>8, <1>9, <2>7, <2>9 DEF IsTold
  <2>11. IsTold(c, Promises!FollowsTo(t))
    BY <1>1 DEF IsTold
  <2> QED
    BY <1>10, <2>1, <2>8, <2>9, <2>10, <2>11, TakeFate DEF FateStep, o
<1> QED
  BY <1>14, <1>15

LEMMA ThenableFate ==
  ASSUME FateInv, PromiseInv', ~MayFail, NEW q \in Promise, js_promise_resolve_thenable_job(q)
  PROVE  FateStep
<1> DEFINE e == Head(jobs)
<1>1. /\ stack = <<>> /\ jobs # <<>> /\ e.is = "thenable"
      /\ UNCHANGED <<result, used, async>>
      /\ \/ /\ e.thenable \in Promise /\ Fresh(q)
            /\ state' = [state EXCEPT ![q] = "pending"]
            /\ made' = [made EXCEPT ![q] = 1, ![e.of] = @ + 1]
            /\ perform_promise_then(e.thenable, <<q, 0>>, Resolving(0, <<e.of, made[e.of]>>),
                                    Resolving(1, <<e.of, made[e.of]>>), Tail(jobs))
            /\ UNCHANGED <<given, stack>>
         \/ /\ e.thenable = Object
            /\ given' = given \cup {<<e.of, made[e.of]>>}
            /\ stack' = <<Code("thenable", <<e.of, made[e.of]>>)>>
            /\ jobs' = Tail(jobs)
            /\ UNCHANGED <<state, reactions, failed>>
  BY DEF js_promise_resolve_thenable_job, js_create_resolving_functions
<1>2. e.of \in Promise /\ <<e.of, made[e.of]>> \in Pair
  BY <1>1, JobTells
<1>3. PICK c \in Promise, x \in Pair : c = e.of /\ x = <<c, made[c]>>
  BY <1>2
<1> HIDE DEF e
<1>4. ASSUME e.thenable = Object, given' = given \cup {<<e.of, made[e.of]>>},
             stack' = <<Code("thenable", <<e.of, made[e.of]>>)>>, jobs' = Tail(jobs),
             UNCHANGED <<state, reactions, failed>>
      PROVE  FateStep
  BY <1>1, <1>3, <1>4, ThenableObjectFate DEF e
<1>5. ASSUME e.thenable \in Promise, Fresh(q), state' = [state EXCEPT ![q] = "pending"],
             made' = [made EXCEPT ![q] = 1, ![e.of] = @ + 1],
             perform_promise_then(e.thenable, <<q, 0>>, Resolving(0, <<e.of, made[e.of]>>),
                                  Resolving(1, <<e.of, made[e.of]>>), Tail(jobs)),
             UNCHANGED <<given, stack>>
      PROVE  FateStep
  <2>1. PICK t \in Promise : t = e.thenable
    BY <1>5
  <2>2. perform_promise_then(t, <<q, 0>>, Resolving(0, x), Resolving(1, x), Tail(jobs))
    BY <1>3, <1>5, <2>1 DEF perform_promise_then, Enqueue
  <2>3. state[q] = "none" /\ made' = [made EXCEPT ![q] = 1, ![c] = @ + 1]
    BY <1>3, <1>5 DEF Fresh
  <2> QED
    BY <1>1, <1>3, <1>5, <2>1, <2>2, <2>3, ThenablePromiseFate DEF e
<1> QED
  BY <1>1, <1>4, <1>5

-----------------------------------------------------------------------------
(* The beginning, and every step.                                          *)
LEMMA FateStart == Init => FateInv /\ Promises!Init
<1> SUFFICES ASSUME Init PROVE FateInv /\ Promises!Init
  OBVIOUS
<1>1. /\ state = [p \in Promise |-> "none"] /\ reactions = [p \in Promise |-> <<>>]
      /\ jobs = <<>> /\ stack = <<>> /\ failed = FALSE
  BY DEF Init
<1>2. PromiseInv
  BY Start
<1>3. /\ \A p \in Promise : Items(reactions[p]) = {}
      /\ Items(jobs) = {} /\ Items(stack) = {}
  BY <1>1, ItemsOfOne
<1>4. /\ OpenReactions(reactions, given) /\ OpenJobs(jobs, given)
      /\ OpenFrames(stack, given, used)
      /\ OneTales(reactions, jobs, stack, given, used) /\ ErrorsOnly(state, result)
  BY <1>1, <1>3 DEF OpenReactions, OpenJobs, OpenFrames, OneTales, OneTale, Tells, ErrorsOnly
<1>5. FateInv
  BY <1>1, <1>2, <1>4 DEF FateInv
<1>6. \A p \in Promise : Fate(p) = Promises!Unborn
  BY <1>1, <1>5, FateOfState
<1>7. Promises!Promise = Promise
  BY DEF Promise, Promises!Promise
<1>8. Promises!Init
  BY <1>6, <1>7 DEF Promises!Init
<1> QED
  BY <1>5, <1>8

LEMMA FateNext == FateInv /\ ~MayFail /\ [Next]_vars => FateStep
<1> SUFFICES ASSUME FateInv, ~MayFail, [Next]_vars PROVE FateStep
  OBVIOUS
<1>0. PromiseInv'
  BY PromiseStep DEF FateInv
<1>1. CASE UNCHANGED vars
  <2>1. /\ UNCHANGED <<state, result, reactions, made, used, given, async, jobs, failed, stack>>
    BY <1>1 DEF vars
  <2>2. OpenReactions(reactions', given') /\ OpenJobs(jobs', given')
        /\ OpenFrames(stack', given', used')
        /\ OneTales(reactions', jobs', stack', given', used')
    BY <2>1 DEF FateInv
  <2>3. \A p \in Promise : \A t : ToldOf(p, t)' <=> ToldOf(p, t)
    BY <2>1 DEF ToldOf
  <2> QED
    BY <1>0, <2>1, <2>2, <2>3, EvenFates DEF EvenStep
<1>2. CASE Program
  <2>1. \/ JS_Eval \/ Leave \/ Throw \/ ThenRead
        \/ \E q \in Promise : js_promise_constructor(q) \/ js_async_function_call(q)
        \/ \E x \in Pair, v \in Value, r \in BOOLEAN : CallResolving(x, v, r)
        \/ \E q \in Promise, v \in {Prim, Object}, r \in BOOLEAN : js_promise_resolve(q, v, r)
        \/ \E p \in Promise, q \in Promise, h \in Handlers : js_promise_then(p, q, h[1], h[2])
        \/ \E p \in Promise : AwaitPromise(p)
        \/ \E q \in Promise, v \in {Prim, Object} : AwaitValue(q, v)
        \/ \E v \in Value : Return(v)
    BY <1>2 DEF Program
  <2>2. JS_Eval \/ Leave \/ Throw \/ ThenRead => FateStep
    BY <1>0, EvalFate, LeaveFate, ThrowFate, ThenReadFate
  <2>3. (\E q \in Promise : js_promise_constructor(q) \/ js_async_function_call(q)) => FateStep
    BY <1>0, ConstructorFate, AsyncCallFate
  <2>4. (\E x \in Pair, v \in Value, r \in BOOLEAN : CallResolving(x, v, r)) => FateStep
    BY <1>0, CallFate
  <2>5. ASSUME NEW q \in Promise, NEW v \in {Prim, Object}, NEW r \in BOOLEAN,
               js_promise_resolve(q, v, r)
        PROVE  FateStep
    BY <1>0, <2>5, ResolveFate
  <2>6. ASSUME NEW p \in Promise, NEW q \in Promise, NEW h \in Handlers,
               js_promise_then(p, q, h[1], h[2])
        PROVE  FateStep
    BY <1>0, <2>6, ThenFate
  <2>7. (\E p \in Promise : AwaitPromise(p)) => FateStep
    BY <1>0, AwaitPromiseFate
  <2>8. (\E q \in Promise, v \in {Prim, Object} : AwaitValue(q, v)) => FateStep
    BY <1>0, AwaitValueFate
  <2>9. (\E v \in Value : Return(v)) => FateStep
    BY <1>0, ReturnFate
  <2> QED
    BY <2>1, <2>2, <2>3, <2>4, <2>5, <2>6, <2>7, <2>8, <2>9
<1>3. CASE Native
  BY <1>0, <1>3, ResolvingFate, AwaitResolvedFate DEF Native
<1>4. CASE JS_ExecutePendingJob
  BY <1>0, <1>4, ReactionFate, ThenableFate DEF JS_ExecutePendingJob
<1> QED
  BY <1>1, <1>2, <1>3, <1>4 DEF Next

(* PROPERTY: a promise settles once, and one that was resolved with        *)
(* another promise takes the outcome of that promise and no other, through *)
(* the thenable job, the hidden pair and the reaction that the code makes  *)
(* for it, whatever the program does meanwhile: as long as no allocation   *)
(* fails every step is a step of PromiseFate or changes no fate.           *)
THEOREM PromisesKeepTheirFates == ~MayFail => (Spec => ImplementsPromiseFate)
<1>1. Init => FateInv /\ Promises!Init
  BY FateStart
<1>2. FateInv /\ ~MayFail /\ [Next]_vars => FateInv' /\ [Promises!Next]_fates
  BY FateNext DEF FateStep
<1>3. [Promises!Next]_fates => [Promises!Next]_[p \in Promise |-> Fate(p)]
  BY DEF fates
<1> SUFFICES ASSUME ~MayFail PROVE Spec => ImplementsPromiseFate
  OBVIOUS
<1>4. FateInv /\ [Next]_vars => FateInv' /\ [Promises!Next]_[p \in Promise |-> Fate(p)]
  BY <1>2, <1>3
<1> QED
  BY <1>1, <1>4, PTL DEF Spec, ImplementsPromiseFate, Promises!Spec
=============================================================================
