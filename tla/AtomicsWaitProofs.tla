------------------------- MODULE AtomicsWaitProofs --------------------------
(***************************************************************************)
(* Proofs about Atomics.wait and Atomics.notify (AtomicsWait), for any     *)
(* number of threads and any programs. s and u stand for values of state,  *)
(* u for the one after a step.                                             *)
(***************************************************************************)
EXTENDS AtomicsWait, FiniteSetTheorems, TLAPS

-----------------------------------------------------------------------------
(* The inductive invariant.                                                *)

T(s) == 1 .. Len(s.program)
OpOf(s, t) == s.program[t][s.at[t]]
InSeq(q, t) == \E i \in DOMAIN q : q[i] = t
Once(q) == \A i, j \in DOMAIN q : i # j => q[i] # q[j]

WaitPCs == {"listed", "asleep", "relock", "leaving"}
HoldPCs == {"in", "listed", "leaving", "signals"}
PCs == {"go"} \cup WaitPCs \cup HoldPCs

IsState(s) ==
  s = [mode |-> s.mode, program |-> s.program, at |-> s.at, pc |-> s.pc, mem |-> s.mem,
       mutex |-> s.mutex, js_atomics_waiter_list |-> s.js_atomics_waiter_list,
       linked |-> s.linked, signalled |-> s.signalled, why |-> s.why, ret |-> s.ret,
       el |-> s.el, waiter_list |-> s.waiter_list, sent |-> s.sent]

Typed(s) ==
  /\ IsState(s) /\ s.mode = "atomics" /\ s.program \in WaitPrograms
  /\ s.at \in [T(s) -> Nat \ {0}] /\ s.pc \in [T(s) -> PCs] /\ s.mem \in [Places -> Int]
  /\ s.mutex \in T(s) \cup {Nobody} /\ s.js_atomics_waiter_list \in Seq(T(s))
  /\ s.linked \in [T(s) -> BOOLEAN] /\ s.signalled \in [T(s) -> BOOLEAN]
  /\ s.why \in [T(s) -> {"none", "signal", "ETIMEDOUT", "nothing"}]
  /\ s.el \in Nat \ {0} /\ s.waiter_list \in Seq(T(s)) /\ s.sent \in 0 .. Len(s.waiter_list)

(* Which operations go with which place in the code.                       *)
Busy(s) ==
  \A t \in T(s) : s.pc[t] # "go" =>
    /\ s.at[t] <= Len(s.program[t])
    /\ s.pc[t] \in WaitPCs => OpOf(s, t).kind = "wait"
    /\ s.pc[t] = "signals" => OpOf(s, t).kind = "notify"
    /\ s.pc[t] = "in" => OpOf(s, t).kind \in {"wait", "notify"}

Mutexed(s) == \A t \in T(s) : s.pc[t] \in HoldPCs <=> s.mutex = t

Listed(s) ==
  /\ \A t \in T(s) : s.linked[t] <=> InSeq(s.js_atomics_waiter_list, t)
  /\ Once(s.js_atomics_waiter_list)
  /\ \A t \in T(s) : s.linked[t] => s.pc[t] \in WaitPCs

(* A call of notify: what it has taken off the list is no more than it was *)
(* asked for, and still waits; what it has passed, and when it is to take  *)
(* all, what it leaves, waits for other places.                            *)
Notifying(s) == s.mutex # Nobody /\ OpOf(s, s.mutex).kind = "notify"

TakenOne(s, i) ==
  LET w == s.waiter_list[i] IN
  /\ s.pc[w] \in {"asleep", "relock"} /\ ~s.linked[w]
  /\ OpOf(s, w).ptr = OpOf(s, s.mutex).ptr
  /\ i <= s.sent => s.signalled[w]

Elsewhere(s, j) == OpOf(s, s.js_atomics_waiter_list[j]).ptr # OpOf(s, s.mutex).ptr

Taken(s) ==
  /\ s.waiter_list # <<>> => Notifying(s) /\ Len(s.waiter_list) <= OpOf(s, s.mutex).count
  /\ Once(s.waiter_list)
  /\ \A i \in DOMAIN s.waiter_list : TakenOne(s, i)
  /\ Notifying(s) /\ s.pc[s.mutex] = "in" =>
       /\ Len(s.waiter_list) < OpOf(s, s.mutex).count /\ s.sent = 0
       /\ \A j \in DOMAIN s.js_atomics_waiter_list : j < s.el => Elsewhere(s, j)
  /\ s.mutex # Nobody /\ s.pc[s.mutex] = "signals" /\ OpOf(s, s.mutex).count = INT32_MAX =>
       \A j \in DOMAIN s.js_atomics_waiter_list : Elsewhere(s, j)

(* Who is off the list was signalled or is about to be.                    *)
Marked(s) ==
  \A t \in T(s) :
    /\ s.pc[t] \in WaitPCs /\ s.signalled[t] => ~s.linked[t]
    /\ s.pc[t] \in {"relock", "leaving"} /\ s.why[t] = "signal" => ~s.linked[t]
    /\ s.pc[t] = "listed" => s.linked[t]
    /\ s.pc[t] = "asleep" /\ ~s.linked[t] => s.signalled[t] \/ InSeq(s.waiter_list, t)

WillNotifyIn(s, ptr) ==
  \E t \in T(s) : \E i \in s.at[t] .. Len(s.program[t]) : NotifiesAll(s.program[t][i], ptr)

AnnouncesIn(p) ==
  \A t \in 1 .. Len(p) : \A i \in 1 .. Len(p[t]) :
    p[t][i].kind = "store" =>
      \E j \in i + 1 .. Len(p[t]) : NotifiesAll(p[t][j], p[t][i].ptr)

Remembered(s) ==
  AnnouncesIn(s.program) =>
    \A t \in T(s) : s.pc[t] \in {"listed", "asleep"} /\ s.mem[OpOf(s, t).ptr] # OpOf(s, t).v =>
      s.signalled[t] \/ WillNotifyIn(s, OpOf(s, t).ptr)

Good(s) == Typed(s) /\ Busy(s) /\ Mutexed(s) /\ Listed(s) /\ Taken(s) /\ Marked(s) /\ Remembered(s)

IInv == Good(state)

-----------------------------------------------------------------------------
(* Programs and lists.                                                     *)

(* Threads are numbers, and each has a sequence of operations.             *)
LEMMA Programs ==
  ASSUME NEW s, s.program \in WaitPrograms
  PROVE  /\ Len(s.program) \in Nat /\ Len(s.program) < INT32_MAX
         /\ T(s) \subseteq Nat \ {0} /\ Nobody \notin T(s)
         /\ \A t \in T(s) : /\ s.program[t] \in Seq(Operation)
                            /\ Len(s.program[t]) \in Nat
                            /\ \A i \in 1 .. Len(s.program[t]) : s.program[t][i] \in Operation
BY WaitAssumption DEF T, Nobody

(* A list of different threads is no longer than there are threads.        *)
LEMMA NotLonger ==
  ASSUME NEW n \in Nat, NEW q \in Seq(1 .. n), Once(q)
  PROVE  Len(q) <= n
<1>1. q \in Injection(1 .. Len(q), 1 .. n)
  <2>1. q \in [1 .. Len(q) -> 1 .. n] /\ DOMAIN q = 1 .. Len(q)
    OBVIOUS
  <2>2. \A i, j \in 1 .. Len(q) : q[i] = q[j] => i = j
    BY <2>1 DEF Once
  <2> QED
    BY <2>1, <2>2 DEF Injection, IsInjective
<1>2. IsFiniteSet(1 .. n) /\ Cardinality(1 .. n) = n
  BY FS_Interval
<1>3. Len(q) \in Nat /\ Cardinality(1 .. Len(q)) = Len(q)
  <2>1. \A k \in Nat : Cardinality(1 .. k) = k
    BY FS_Interval
  <2> QED
    BY <2>1
<1>4. Cardinality(1 .. Len(q)) <= Cardinality(1 .. n)
  BY <1>1, <1>2, FS_Injection
<1> QED
  BY <1>2, <1>3, <1>4

(* What list_del leaves, place by place.                                   *)
LEMMA Removed ==
  ASSUME NEW S, NEW s \in Seq(S), NEW r \in 1 .. Len(s)
  PROVE  /\ list_del(s, r) \in Seq(S)
         /\ Len(list_del(s, r)) = Len(s) - 1
         /\ \A q \in 1 .. Len(s) - 1 : list_del(s, r)[q] = s[IF q < r THEN q ELSE q + 1]
<1> DEFINE a == SubSeq(s, 1, r - 1)
           b == SubSeq(s, r + 1, Len(s))
<1>1. a \in Seq(S) /\ Len(a) = r - 1 /\ \A q \in 1 .. r - 1 : a[q] = s[q]
  OBVIOUS
<1>2. b \in Seq(S) /\ Len(b) = Len(s) - r /\ \A q \in 1 .. Len(s) - r : b[q] = s[q + r]
  OBVIOUS
<1> HIDE DEF a, b
<1>3. /\ a \o b \in Seq(S) /\ Len(a \o b) = Len(s) - 1
      /\ \A q \in 1 .. Len(s) - 1 : (a \o b)[q] = IF q < r THEN a[q] ELSE b[q - (r - 1)]
  <2>1. Len(s) \in Nat /\ r \in Nat /\ Len(a) + Len(b) = Len(s) - 1
    BY <1>1, <1>2
  <2>2. a \o b \in Seq(S) /\ Len(a \o b) = Len(s) - 1
    <3>1. a \in Seq(S) /\ b \in Seq(S)
      BY <1>1, <1>2
    <3>2. a \o b \in Seq(S)
      BY <3>1
    <3>3. Len(a \o b) = Len(a) + Len(b)
      BY <3>1
    <3> QED
      BY <2>1, <3>2, <3>3
  <2>3. ASSUME NEW q \in 1 .. Len(s) - 1
        PROVE  (a \o b)[q] = IF q < r THEN a[q] ELSE b[q - (r - 1)]
    <3>1. q \in 1 .. Len(a) + Len(b) /\ (q < r <=> q <= Len(a))
      BY <1>1, <2>1
    <3>2. (a \o b)[q] = IF q <= Len(a) THEN a[q] ELSE b[q - Len(a)]
      BY <1>1, <1>2, <3>1
    <3> QED
      BY <1>1, <3>1, <3>2
  <2> QED
    BY <2>2, <2>3
<1>4. list_del(s, r) = a \o b
  BY DEF list_del, a, b
<1>5. ASSUME NEW q \in 1 .. Len(s) - 1
      PROVE  (a \o b)[q] = s[IF q < r THEN q ELSE q + 1]
  <2>1. CASE q < r
    BY <1>1, <1>3, <2>1
  <2>2. CASE ~ (q < r)
    <3>1. q - (r - 1) \in 1 .. Len(s) - r /\ (q - (r - 1)) + r = q + 1
      BY <2>2
    <3> QED
      BY <1>2, <1>3, <2>2, <3>1
  <2> QED
    BY <2>1, <2>2
<1> QED
  BY <1>3, <1>4, <1>5

(* What is left of a list without one thread.                              *)
LEMMA RemovedOnce ==
  ASSUME NEW S, NEW q \in Seq(S), Once(q), NEW r \in 1 .. Len(q)
  PROVE  /\ list_del(q, r) \in Seq(S) /\ Once(list_del(q, r))
         /\ \A t : InSeq(list_del(q, r), t) <=> InSeq(q, t) /\ t # q[r]
         /\ \A j \in DOMAIN list_del(q, r) :
              \E k \in DOMAIN q : list_del(q, r)[j] = q[k] /\ (j < r => k = j)
<1> DEFINE d == list_del(q, r)
           Old(j) == IF j < r THEN j ELSE j + 1
<1>1. /\ d \in Seq(S) /\ Len(d) = Len(q) - 1 /\ Len(q) \in Nat
      /\ \A j \in 1 .. Len(q) - 1 : d[j] = q[Old(j)]
  BY Removed
<1>2. DOMAIN d = 1 .. Len(q) - 1 /\ DOMAIN q = 1 .. Len(q)
  BY <1>1
<1>3. \A j \in DOMAIN d : Old(j) \in DOMAIN q \ {r}
  BY <1>2
<1>4. \A j, k \in DOMAIN d : j # k => Old(j) # Old(k)
  BY <1>2
<1>5. \A k \in DOMAIN q \ {r} : \E j \in DOMAIN d : Old(j) = k
  <2> TAKE k \in DOMAIN q \ {r}
  <2>1. CASE k < r
    BY <1>2, <2>1
  <2>2. CASE ~(k < r)
    <3>1. k - 1 \in DOMAIN d /\ Old(k - 1) = k
      BY <1>2, <2>2
    <3> QED
      BY <3>1
  <2> QED
    BY <2>1, <2>2
<1>6. \A j \in DOMAIN d : d[j] = q[Old(j)] /\ (j < r => Old(j) = j)
  BY <1>1, <1>2
<1> HIDE DEF d, Old
<1>7. Once(d)
  BY <1>3, <1>4, <1>6 DEF Once
<1>8. ASSUME NEW t
      PROVE  InSeq(d, t) <=> InSeq(q, t) /\ t # q[r]
  <2>1. ASSUME InSeq(d, t)
        PROVE  InSeq(q, t) /\ t # q[r]
    BY <1>2, <1>3, <1>6, <2>1 DEF InSeq, Once
  <2>2. ASSUME InSeq(q, t), t # q[r]
        PROVE  InSeq(d, t)
    BY <1>5, <1>6, <2>2 DEF InSeq
  <2> QED
    BY <2>1, <2>2
<1>9. \A j \in DOMAIN d : \E k \in DOMAIN q : d[j] = q[k] /\ (j < r => k = j)
  BY <1>3, <1>6
<1>10. d \in Seq(S)
  BY <1>1
<1> QED
  BY <1>7, <1>8, <1>9, <1>10 DEF d

(* A list with one thread more.                                            *)
LEMMA Appended ==
  ASSUME NEW S, NEW q \in Seq(S), Once(q), NEW w \in S, ~InSeq(q, w)
  PROVE  /\ Append(q, w) \in Seq(S) /\ Once(Append(q, w)) /\ Len(Append(q, w)) = Len(q) + 1
         /\ \A t : InSeq(Append(q, w), t) <=> InSeq(q, t) \/ t = w
         /\ \A j \in DOMAIN q : Append(q, w)[j] = q[j]
         /\ Append(q, w)[Len(q) + 1] = w
<1> DEFINE a == Append(q, w)
<1>1. /\ a \in Seq(S) /\ Len(a) = Len(q) + 1 /\ Len(q) \in Nat
      /\ \A j \in 1 .. Len(q) : a[j] = q[j]
      /\ a[Len(q) + 1] = w /\ DOMAIN q = 1 .. Len(q) /\ DOMAIN a = 1 .. Len(q) + 1
  OBVIOUS
<1> HIDE DEF a
<1>2. Once(a)
  BY <1>1 DEF Once, InSeq
<1>3. ASSUME NEW t
      PROVE  InSeq(a, t) <=> InSeq(q, t) \/ t = w
  <2>1. ASSUME InSeq(a, t)
        PROVE  InSeq(q, t) \/ t = w
    <3>1. PICK i \in 1 .. Len(q) + 1 : a[i] = t
      BY <1>1, <2>1 DEF InSeq
    <3> QED
      BY <1>1, <3>1 DEF InSeq
  <2>2. ASSUME InSeq(q, t) \/ t = w
        PROVE  InSeq(a, t)
    <3>1. CASE t = w
      BY <1>1, <3>1 DEF InSeq
    <3>2. CASE InSeq(q, t)
      BY <1>1, <3>2 DEF InSeq
    <3> QED
      BY <2>2, <3>1, <3>2
  <2> QED
    BY <2>1, <2>2
<1> QED
  BY <1>1, <1>2, <1>3 DEF a

-----------------------------------------------------------------------------
(* What the actions do to the fields.                                      *)

(* A thread begins its next operation.                                     *)
Begun(s, t) == t \in T(s) /\ s.at[t] <= Len(s.program[t]) /\ s.pc[t] = "go"

(* The shape of the value and the programs.                                *)
Same(s, u) == /\ IsState(u) /\ u.mode = s.mode /\ u.program = s.program

(* The operation of t is over.                                             *)
Over(s, u, t) ==
  /\ u.at = [s.at EXCEPT ![t] = @ + 1]
  /\ u.pc = [s.pc EXCEPT ![t] = "go"]

SameAt(s, u) == u.at = s.at
PcTo(s, u, t, pc) == u.pc = [s.pc EXCEPT ![t] = pc]
SameMem(s, u) == u.mem = s.mem
SameMutex(s, u) == u.mutex = s.mutex
SameList(s, u) == u.js_atomics_waiter_list = s.js_atomics_waiter_list /\ u.linked = s.linked
SameMarks(s, u) == u.signalled = s.signalled
SameWhy(s, u) == u.why = s.why
SameCall(s, u) == u.el = s.el /\ u.waiter_list = s.waiter_list /\ u.sent = s.sent

Stores(s, u, t) ==
  /\ Same(s, u) /\ Begun(s, t) /\ OpOf(s, t).kind = "store"
  /\ Over(s, u, t) /\ u.mem = [s.mem EXCEPT ![OpOf(s, t).ptr] = OpOf(s, t).v]
  /\ SameMutex(s, u) /\ SameList(s, u) /\ SameMarks(s, u) /\ SameWhy(s, u) /\ SameCall(s, u)

Locks(s, u, t) ==
  /\ Same(s, u) /\ t \in T(s) /\ s.mutex = Nobody
  /\ \/ Begun(s, t) /\ OpOf(s, t).kind = "wait" /\ PcTo(s, u, t, "in")
     \/ s.pc[t] = "relock" /\ PcTo(s, u, t, "leaving")
  /\ SameAt(s, u) /\ SameMem(s, u) /\ u.mutex = t
  /\ SameList(s, u) /\ SameMarks(s, u) /\ SameWhy(s, u) /\ SameCall(s, u)

Differs(s, u, t) ==
  /\ Same(s, u) /\ t \in T(s) /\ s.pc[t] = "in" /\ OpOf(s, t).kind = "wait"
  /\ Over(s, u, t) /\ SameMem(s, u) /\ u.mutex = Nobody
  /\ SameList(s, u) /\ SameMarks(s, u) /\ SameWhy(s, u) /\ SameCall(s, u)

Enlists(s, u, t) ==
  /\ Same(s, u) /\ t \in T(s) /\ s.pc[t] = "in" /\ OpOf(s, t).kind = "wait"
  /\ s.mem[OpOf(s, t).ptr] = OpOf(s, t).v
  /\ SameAt(s, u) /\ PcTo(s, u, t, "listed") /\ SameMem(s, u) /\ SameMutex(s, u)
  /\ u.js_atomics_waiter_list = Append(s.js_atomics_waiter_list, t)
  /\ u.linked = [s.linked EXCEPT ![t] = TRUE] /\ u.signalled = [s.signalled EXCEPT ![t] = FALSE]
  /\ SameWhy(s, u) /\ SameCall(s, u)

Sleeps(s, u, t) ==
  /\ Same(s, u) /\ t \in T(s) /\ s.pc[t] = "listed"
  /\ SameAt(s, u) /\ PcTo(s, u, t, "asleep") /\ SameMem(s, u) /\ u.mutex = Nobody
  /\ SameList(s, u) /\ SameMarks(s, u) /\ SameWhy(s, u) /\ SameCall(s, u)

Wakes(s, u, t) ==
  /\ Same(s, u) /\ t \in T(s) /\ s.pc[t] = "asleep"
  /\ SameAt(s, u) /\ PcTo(s, u, t, "relock") /\ SameMem(s, u) /\ SameMutex(s, u)
  /\ \E why \in {"signal", "ETIMEDOUT", "nothing"} :
       u.why = [s.why EXCEPT ![t] = why] /\ (why = "signal" => s.signalled[t])
  /\ SameList(s, u) /\ SameMarks(s, u) /\ SameCall(s, u)

Leaves(s, u, t) ==
  /\ Same(s, u) /\ t \in T(s) /\ s.pc[t] = "leaving"
  /\ Over(s, u, t) /\ SameMem(s, u) /\ u.mutex = Nobody
  /\ u.linked = [s.linked EXCEPT ![t] = FALSE]
  /\ u.js_atomics_waiter_list =
       IF s.linked[t]
         THEN list_del(s.js_atomics_waiter_list, PlaceIn(s.js_atomics_waiter_list, t))
         ELSE s.js_atomics_waiter_list
  /\ SameMarks(s, u) /\ SameWhy(s, u) /\ SameCall(s, u)

DoesNothing(s, u, t) ==
  /\ Same(s, u) /\ Begun(s, t) /\ OpOf(s, t).kind = "notify" /\ OpOf(s, t).count = 0
  /\ Over(s, u, t) /\ SameMem(s, u) /\ SameMutex(s, u)
  /\ SameList(s, u) /\ SameMarks(s, u) /\ SameWhy(s, u) /\ SameCall(s, u)

Notifies(s, u, t) ==
  /\ Same(s, u) /\ Begun(s, t) /\ OpOf(s, t).kind = "notify" /\ OpOf(s, t).count > 0
  /\ s.mutex = Nobody
  /\ SameAt(s, u) /\ PcTo(s, u, t, "in") /\ SameMem(s, u) /\ u.mutex = t
  /\ SameList(s, u) /\ SameMarks(s, u) /\ SameWhy(s, u)
  /\ u.el = 1 /\ u.waiter_list = <<>> /\ u.sent = 0

AtWaiter(s, t) ==
  t \in T(s) /\ s.pc[t] = "in" /\ OpOf(s, t).kind = "notify" /\ s.el <= Len(s.js_atomics_waiter_list)

Takes(s, u, t, w) ==
  /\ Same(s, u) /\ AtWaiter(s, t)
  /\ w = s.js_atomics_waiter_list[s.el] /\ OpOf(s, w).ptr = OpOf(s, t).ptr
  /\ SameAt(s, u) /\ SameMem(s, u) /\ SameMutex(s, u)
  /\ PcTo(s, u, t, IF Len(s.waiter_list) + 1 >= OpOf(s, t).count THEN "signals" ELSE "in")
  /\ u.js_atomics_waiter_list = list_del(s.js_atomics_waiter_list, s.el)
  /\ u.linked = [s.linked EXCEPT ![w] = FALSE]
  /\ u.waiter_list = Append(s.waiter_list, w) /\ u.el = s.el /\ u.sent = s.sent
  /\ SameMarks(s, u) /\ SameWhy(s, u)

Passes(s, u, t) ==
  /\ Same(s, u) /\ AtWaiter(s, t)
  /\ OpOf(s, s.js_atomics_waiter_list[s.el]).ptr # OpOf(s, t).ptr
  /\ SameAt(s, u) /\ u.pc = s.pc /\ SameMem(s, u) /\ SameMutex(s, u)
  /\ SameList(s, u) /\ SameMarks(s, u) /\ SameWhy(s, u)
  /\ u.el = s.el + 1 /\ u.waiter_list = s.waiter_list /\ u.sent = s.sent

Looked(s, u, t) ==
  /\ Same(s, u) /\ t \in T(s) /\ s.pc[t] = "in" /\ OpOf(s, t).kind = "notify"
  /\ s.el > Len(s.js_atomics_waiter_list)
  /\ SameAt(s, u) /\ PcTo(s, u, t, "signals") /\ SameMem(s, u) /\ SameMutex(s, u)
  /\ SameList(s, u) /\ SameMarks(s, u) /\ SameWhy(s, u) /\ SameCall(s, u)

Signals(s, u, t) ==
  /\ Same(s, u) /\ t \in T(s) /\ s.pc[t] = "signals" /\ s.sent < Len(s.waiter_list)
  /\ SameAt(s, u) /\ u.pc = s.pc /\ SameMem(s, u) /\ SameMutex(s, u)
  /\ SameList(s, u) /\ SameWhy(s, u)
  /\ u.signalled = [s.signalled EXCEPT ![s.waiter_list[s.sent + 1]] = TRUE]
  /\ u.el = s.el /\ u.waiter_list = s.waiter_list /\ u.sent = s.sent + 1

Ends(s, u, t) ==
  /\ Same(s, u) /\ t \in T(s) /\ s.pc[t] = "signals" /\ s.sent = Len(s.waiter_list)
  /\ Over(s, u, t) /\ SameMem(s, u) /\ u.mutex = Nobody
  /\ SameList(s, u) /\ SameMarks(s, u) /\ SameWhy(s, u)
  /\ u.el = s.el /\ u.waiter_list = <<>> /\ u.sent = 0

Step(s, u) ==
  \E t \in T(s) :
    \/ Stores(s, u, t) \/ Locks(s, u, t) \/ Differs(s, u, t) \/ Enlists(s, u, t) \/ Sleeps(s, u, t)
    \/ Wakes(s, u, t) \/ Leaves(s, u, t) \/ DoesNothing(s, u, t) \/ Notifies(s, u, t)
    \/ Takes(s, u, t, s.js_atomics_waiter_list[s.el]) \/ Passes(s, u, t) \/ Looked(s, u, t)
    \/ Signals(s, u, t) \/ Ends(s, u, t)

(* Every action is one of these.                                           *)
LEMMA Fields ==
  ASSUME IInv, AtomicsNext
  PROVE  Step(state, state')
<1> USE DEF OpOf, IsState, Same
<1>1. IsState(state) /\ threads = T(state) /\ state.pc \in [T(state) -> PCs]
  BY DEF IInv, Good, Typed, threads, T
<1>2. PICK t \in threads :
        \/ js_atomics_store(t) \/ TakeMutex(t) \/ NotifyNobody(t) \/ NotEqual(t) \/ Enlist(t)
        \/ Sleep(t) \/ Wake(t) \/ Leave(t) \/ js_atomics_notify(t)
  BY DEF AtomicsNext
<1>3. ASSUME js_atomics_store(t)
      PROVE  Stores(state, state', t)
  BY <1>1, <1>3 DEF js_atomics_store, Is, Op, Returns,
     Stores, Begun, Over, SameMutex, SameList, SameMarks, SameWhy, SameCall
<1>4. ASSUME TakeMutex(t)
      PROVE  Locks(state, state', t)
  BY <1>1, <1>4 DEF TakeMutex, Is, InState, Op,
     Locks, Begun, PcTo, SameAt, SameMem, SameList, SameMarks, SameWhy, SameCall
<1>5. ASSUME NotEqual(t)
      PROVE  Differs(state, state', t)
  BY <1>1, <1>5 DEF NotEqual, InState, Op, Returns, Unlocked,
     Differs, Over, SameMem, SameList, SameMarks, SameWhy, SameCall
<1>6. ASSUME Enlist(t)
      PROVE  Enlists(state, state', t)
  BY <1>1, <1>6 DEF Enlist, InState, Op,
     Enlists, PcTo, SameAt, SameMem, SameMutex, SameWhy, SameCall
<1>7. ASSUME Sleep(t)
      PROVE  Sleeps(state, state', t)
  BY <1>1, <1>7 DEF Sleep, InState, Unlocked,
     Sleeps, PcTo, SameAt, SameMem, SameList, SameMarks, SameWhy, SameCall
<1>8. ASSUME Wake(t)
      PROVE  Wakes(state, state', t)
  BY <1>1, <1>8 DEF Wake, InState, Op,
     Wakes, PcTo, SameAt, SameMem, SameMutex, SameList, SameMarks, SameCall
<1>9. ASSUME Leave(t)
      PROVE  Leaves(state, state', t)
  BY <1>1, <1>9 DEF Leave, InState, Returns, Unlocked,
     Leaves, Over, SameMem, SameMarks, SameWhy, SameCall
<1>10. ASSUME NotifyNobody(t)
      PROVE  DoesNothing(state, state', t)
  BY <1>1, <1>10 DEF NotifyNobody, Is, Op, Returns,
     DoesNothing, Begun, Over, SameMem, SameMutex, SameList, SameMarks, SameWhy, SameCall
<1>11. ASSUME NotifyBegins(t)
      PROVE  Notifies(state, state', t)
  BY <1>1, <1>11 DEF NotifyBegins, Is, Op,
     Notifies, Begun, PcTo, SameAt, SameMem, SameList, SameMarks, SameWhy
<1>12. ASSUME NotifyTakes(t)
      PROVE  Takes(state, state', t, state.js_atomics_waiter_list[state.el])
  BY <1>1, <1>12 DEF NotifyTakes, OnWaiter, InLoop, InState, Op,
     Takes, AtWaiter, PcTo, SameAt, SameMem, SameMutex, SameMarks, SameWhy
<1>13. ASSUME NotifyPasses(t)
      PROVE  Passes(state, state', t)
  BY <1>1, <1>13 DEF NotifyPasses, OnWaiter, InLoop, InState, Op,
     Passes, AtWaiter, SameAt, SameMem, SameMutex, SameList, SameMarks, SameWhy
<1>14. ASSUME NotifyLooked(t)
      PROVE  Looked(state, state', t)
  BY <1>1, <1>14 DEF NotifyLooked, InLoop, InState, Op,
     Looked, PcTo, SameAt, SameMem, SameMutex, SameList, SameMarks, SameWhy, SameCall
<1>15. ASSUME Signal(t)
      PROVE  Signals(state, state', t)
  BY <1>1, <1>15 DEF Signal, InState,
     Signals, SameAt, SameMem, SameMutex, SameList, SameWhy
<1>16. ASSUME NotifyReturns(t)
      PROVE  Ends(state, state', t)
  BY <1>1, <1>16 DEF NotifyReturns, InState, Returns, Unlocked,
     Ends, Over, SameMem, SameList, SameMarks, SameWhy
<1> QED
  BY <1>1, <1>2, <1>3, <1>4, <1>5, <1>6, <1>7, <1>8, <1>9, <1>10, <1>11, <1>12, <1>13,
     <1>14, <1>15, <1>16 DEF Step, js_atomics_notify
-----------------------------------------------------------------------------
(* Steps that keep the invariant.                                          *)

(* A notify of all that is not over will still come.                       *)
LEMMA StillWill ==
  ASSUME NEW s, NEW u, NEW t \in T(s), NEW ptr, Typed(s), Same(s, u),
         u.at = s.at \/ (u.at = [s.at EXCEPT ![t] = @ + 1] /\ ~NotifiesAll(OpOf(s, t), ptr)),
         WillNotifyIn(s, ptr)
  PROVE  WillNotifyIn(u, ptr)
<1>0. PICK r \in T(s) : \E i \in s.at[r] .. Len(s.program[r]) : NotifiesAll(s.program[r][i], ptr)
  BY DEF WillNotifyIn
<1>1. PICK i \in s.at[r] .. Len(s.program[r]) : NotifiesAll(s.program[r][i], ptr)
  BY <1>0
<1>2. T(u) = T(s) /\ u.program = s.program
  BY DEF Same, T
<1>3. CASE u.at = s.at
  BY <1>1, <1>2, <1>3 DEF WillNotifyIn
<1>4. CASE u.at = [s.at EXCEPT ![t] = @ + 1] /\ ~NotifiesAll(OpOf(s, t), ptr)
  <2>1. i \in u.at[r] .. Len(u.program[r])
    <3>1. Len(s.program[r]) \in Nat /\ s.at[r] \in Nat /\ i \in Nat
      BY Programs DEF Typed
    <3>2. CASE r # t
      BY <1>1, <1>2, <1>4, <3>1, <3>2 DEF Typed
    <3>3. CASE r = t
      <4>1. i # s.at[r]
        BY <1>1, <1>4, <3>3 DEF OpOf
      <4>2. u.at[r] = s.at[r] + 1
        BY <1>4, <3>3 DEF Typed
      <4> QED
        BY <1>1, <1>2, <3>1, <4>1, <4>2
    <3> QED
      BY <3>2, <3>3
  <2> QED
    BY <1>1, <1>2, <2>1 DEF WillNotifyIn
<1> QED
  BY <1>3, <1>4

(* Operations.                                                             *)
LEMMA Operations ==
  ASSUME NEW s, Typed(s), NEW t \in T(s), s.at[t] <= Len(s.program[t])
  PROVE  /\ OpOf(s, t) \in Operation /\ OpOf(s, t).ptr \in Places /\ OpOf(s, t).v \in Int
         /\ OpOf(s, t).count \in 0 .. INT32_MAX /\ OpOf(s, t).kind \in {"store", "wait", "notify"}
<1>1. s.at[t] \in 1 .. Len(s.program[t])
  BY Programs DEF Typed
<1>2. OpOf(s, t) \in Operation
  BY <1>1, Programs DEF Typed, OpOf
<1> QED
  BY <1>2 DEF Operation

(* The threads other than t, and what they do, are as before.              *)
Moves(s, u, t) ==
  /\ T(u) = T(s) /\ u.program = s.program
  /\ \A r \in T(s) \ {t} : u.pc[r] = s.pc[r] /\ u.at[r] = s.at[r] /\ OpOf(u, r) = OpOf(s, r)

(* A step of t, with or without its operation being over.                  *)
LEMMA Movement ==
  ASSUME NEW s, NEW u, NEW t \in T(s), Typed(s), Same(s, u),
         NEW pc \in PCs, PcTo(s, u, t, pc), SameAt(s, u) \/ u.at = [s.at EXCEPT ![t] = @ + 1]
  PROVE  /\ Moves(s, u, t) /\ u.pc[t] = pc
         /\ u.at \in [T(u) -> Nat \ {0}] /\ u.pc \in [T(u) -> PCs]
         /\ SameAt(s, u) => \A r \in T(s) : OpOf(u, r) = OpOf(s, r)
<1>1. T(u) = T(s) /\ u.program = s.program
  BY DEF Same, T
<1>2. u.pc[t] = pc /\ u.pc \in [T(s) -> PCs] /\ \A r \in T(s) \ {t} : u.pc[r] = s.pc[r]
  BY DEF Typed, PcTo
<1>3. u.at \in [T(s) -> Nat \ {0}] /\ \A r \in T(s) \ {t} : u.at[r] = s.at[r]
  BY DEF Typed, SameAt
<1>4. \A r \in T(s) \ {t} : OpOf(u, r) = OpOf(s, r)
  BY <1>1, <1>3 DEF OpOf
<1>5. SameAt(s, u) => \A r \in T(s) : OpOf(u, r) = OpOf(s, r)
  BY <1>1 DEF OpOf, SameAt
<1> QED
  BY <1>1, <1>2, <1>3, <1>4, <1>5 DEF Moves

(* Nobody notifies.                                                        *)
LEMMA NoCall ==
  ASSUME NEW s, Good(s), ~Notifying(s)
  PROVE  s.waiter_list = <<>>
  BY DEF Good, Taken

(* Nobody notifies: there is nothing to say about the call.                *)
LEMMA Idle ==
  ASSUME NEW u, u.waiter_list = <<>>,
         \/ u.mutex = Nobody
         \/ OpOf(u, u.mutex).kind = "wait" /\ u.pc[u.mutex] # "signals"
  PROVE  Taken(u)
  BY DEF Taken, Notifying, Once

(* Whoever has the mutex, is on the list or in waiter_list is at work.     *)
LEMMA AtWork ==
  ASSUME NEW s, Good(s)
  PROVE  /\ s.mutex # Nobody => s.mutex \in T(s) /\ s.pc[s.mutex] \in HoldPCs
         /\ \A j \in DOMAIN s.js_atomics_waiter_list :
              LET w == s.js_atomics_waiter_list[j] IN
              w \in T(s) /\ s.linked[w] /\ s.pc[w] \in WaitPCs
         /\ \A i \in DOMAIN s.waiter_list :
              s.waiter_list[i] \in T(s) /\ s.pc[s.waiter_list[i]] \in {"asleep", "relock"}
<1>1. s.mutex # Nobody => s.mutex \in T(s) /\ s.pc[s.mutex] \in HoldPCs
  BY DEF Good, Typed, Mutexed
<1>2. ASSUME NEW j \in DOMAIN s.js_atomics_waiter_list
      PROVE  LET w == s.js_atomics_waiter_list[j] IN w \in T(s) /\ s.linked[w] /\ s.pc[w] \in WaitPCs
  <2>1. s.js_atomics_waiter_list[j] \in T(s)
    BY DEF Good, Typed
  <2> QED
    BY <2>1 DEF Good, Listed, InSeq
<1>3. ASSUME NEW i \in DOMAIN s.waiter_list
      PROVE  s.waiter_list[i] \in T(s) /\ s.pc[s.waiter_list[i]] \in {"asleep", "relock"}
  <2>1. s.waiter_list[i] \in T(s)
    BY DEF Good, Typed
  <2> QED
    BY <2>1 DEF Good, Taken, TakenOne
<1> QED
  BY <1>1, <1>2, <1>3

(* A call of notify under way.                                             *)
LEMMA InCall ==
  ASSUME NEW s, NEW t \in T(s), Good(s), s.pc[t] \in {"in", "signals"}, OpOf(s, t).kind = "notify"
  PROVE  /\ s.mutex = t /\ Notifying(s) /\ t # Nobody /\ Taken(s)
         /\ DOMAIN s.js_atomics_waiter_list = 1 .. Len(s.js_atomics_waiter_list)
         /\ Len(s.js_atomics_waiter_list) \in Nat /\ s.el \in Nat \ {0}
         /\ DOMAIN s.waiter_list = 1 .. Len(s.waiter_list) /\ Len(s.waiter_list) \in Nat
         /\ OpOf(s, t).count \in Nat /\ s.sent \in 0 .. Len(s.waiter_list)
<1>1. s.mutex = t /\ Taken(s) /\ t # Nobody
  BY Programs DEF Good, Mutexed, HoldPCs, Typed
<1>2. /\ s.js_atomics_waiter_list \in Seq(T(s)) /\ s.waiter_list \in Seq(T(s)) /\ s.el \in Nat \ {0}
      /\ s.sent \in 0 .. Len(s.waiter_list)
  BY DEF Good, Typed
<1>3. OpOf(s, t).count \in Nat
  <2>1. s.at[t] <= Len(s.program[t]) /\ Typed(s)
    BY DEF Good, Busy
  <2>2. OpOf(s, t).count \in 0 .. INT32_MAX
    BY <2>1, Operations
  <2> QED
    BY <2>2 DEF INT32_MAX
<1> QED
  BY <1>1, <1>2, <1>3 DEF Notifying

(* A step outside of all calls changes nothing about the one in progress.  *)
LEMMA CallKept ==
  ASSUME NEW s, NEW u, NEW t \in T(s), Good(s), Moves(s, u, t),
         s.pc[t] = "go", SameMutex(s, u), SameList(s, u), SameMarks(s, u), SameCall(s, u)
  PROVE  Taken(u)
<1>1. Taken(s)
  BY DEF Good
<1>2. /\ u.mutex = s.mutex /\ u.js_atomics_waiter_list = s.js_atomics_waiter_list
      /\ u.linked = s.linked /\ u.signalled = s.signalled
      /\ u.el = s.el /\ u.waiter_list = s.waiter_list /\ u.sent = s.sent
  BY DEF SameMutex, SameList, SameMarks, SameCall
<1>3. /\ s.mutex # Nobody => u.pc[s.mutex] = s.pc[s.mutex] /\ OpOf(u, s.mutex) = OpOf(s, s.mutex)
      /\ \A j \in DOMAIN s.js_atomics_waiter_list :
           OpOf(u, s.js_atomics_waiter_list[j]) = OpOf(s, s.js_atomics_waiter_list[j])
      /\ \A i \in DOMAIN s.waiter_list :
           LET w == s.waiter_list[i] IN OpOf(u, w) = OpOf(s, w) /\ u.pc[w] = s.pc[w]
  BY AtWork DEF Moves, HoldPCs, WaitPCs
<1>4. Notifying(u) <=> Notifying(s)
  BY <1>2, <1>3 DEF Notifying
<1>5. s.mutex # Nobody => \A j \in DOMAIN s.js_atomics_waiter_list : Elsewhere(s, j) <=> Elsewhere(u, j)
  BY <1>2, <1>3 DEF Elsewhere
<1>6. s.waiter_list # <<>> => s.mutex # Nobody
  BY <1>1 DEF Taken, Notifying
<1>7. \A i \in DOMAIN s.waiter_list : TakenOne(u, i)
  <2> TAKE i \in DOMAIN s.waiter_list
  <2>1. s.waiter_list # <<>> /\ TakenOne(s, i)
    BY <1>1 DEF Taken
  <2> QED
    BY <1>2, <1>3, <1>6, <2>1 DEF TakenOne
<1> QED
  BY <1>1, <1>2, <1>3, <1>4, <1>5, <1>6, <1>7 DEF Taken, Notifying

(* Nor does a step of one that waits, or goes on waiting.                  *)
LEMMA CallGoesOn ==
  ASSUME NEW s, NEW u, NEW t \in T(s), Good(s), Moves(s, u, t),
         s.pc[t] \notin HoldPCs, OpOf(u, t) = OpOf(s, t), u.pc[t] \in {"asleep", "relock"},
         SameMutex(s, u), SameList(s, u), SameMarks(s, u), SameCall(s, u)
  PROVE  Taken(u)
<1>1. Taken(s)
  BY DEF Good
<1>2. /\ u.mutex = s.mutex /\ u.js_atomics_waiter_list = s.js_atomics_waiter_list
      /\ u.linked = s.linked /\ u.signalled = s.signalled
      /\ u.el = s.el /\ u.waiter_list = s.waiter_list /\ u.sent = s.sent
  BY DEF SameMutex, SameList, SameMarks, SameCall
<1>3. /\ s.mutex # Nobody => u.pc[s.mutex] = s.pc[s.mutex] /\ OpOf(u, s.mutex) = OpOf(s, s.mutex)
      /\ \A j \in DOMAIN s.js_atomics_waiter_list :
           OpOf(u, s.js_atomics_waiter_list[j]) = OpOf(s, s.js_atomics_waiter_list[j])
      /\ \A i \in DOMAIN s.waiter_list :
           LET w == s.waiter_list[i] IN OpOf(u, w) = OpOf(s, w) /\ u.pc[w] \in {"asleep", "relock"}
  BY AtWork DEF Moves
<1>4. Notifying(u) <=> Notifying(s)
  BY <1>2, <1>3 DEF Notifying
<1>5. s.mutex # Nobody => \A j \in DOMAIN s.js_atomics_waiter_list : Elsewhere(s, j) <=> Elsewhere(u, j)
  BY <1>2, <1>3 DEF Elsewhere
<1>6. s.waiter_list # <<>> => s.mutex # Nobody
  BY <1>1 DEF Taken, Notifying
<1>7. \A i \in DOMAIN s.waiter_list : TakenOne(u, i)
  <2> TAKE i \in DOMAIN s.waiter_list
  <2>1. s.waiter_list # <<>> /\ TakenOne(s, i)
    BY <1>1 DEF Taken
  <2> QED
    BY <1>2, <1>3, <1>6, <2>1 DEF TakenOne
<1> QED
  BY <1>1, <1>2, <1>3, <1>4, <1>5, <1>6, <1>7 DEF Taken, Notifying

(* A step that adds to what is remembered, or takes nothing from it.       *)
LEMMA Recalled ==
  ASSUME NEW s, NEW u, NEW t \in T(s), Good(s), Moves(s, u, t), u.mem = s.mem, Same(s, u),
         SameMarks(s, u),
         \/ SameAt(s, u)
         \/ u.at = [s.at EXCEPT ![t] = @ + 1] /\ OpOf(s, t).kind \in {"store", "wait"}
         \/ u.at = [s.at EXCEPT ![t] = @ + 1] /\ OpOf(s, t).count = 0,
         \/ u.pc[t] \notin {"listed", "asleep"}
         \/ s.pc[t] \in {"listed", "asleep"} /\ OpOf(u, t) = OpOf(s, t)
  PROVE  Remembered(u)
<1> SUFFICES ASSUME AnnouncesIn(u.program),
                    NEW r \in T(u), u.pc[r] \in {"listed", "asleep"}, u.mem[OpOf(u, r).ptr] # OpOf(u, r).v,
                    ~u.signalled[r]
             PROVE  WillNotifyIn(u, OpOf(u, r).ptr)
  BY DEF Remembered
<1>1. r \in T(s) /\ s.pc[r] \in {"listed", "asleep"} /\ OpOf(u, r) = OpOf(s, r) /\ u.program = s.program
  BY DEF Moves
<1>2. WillNotifyIn(s, OpOf(s, r).ptr)
  BY <1>1 DEF Good, Remembered, SameMarks
<1>3. \/ u.at = s.at
      \/ u.at = [s.at EXCEPT ![t] = @ + 1] /\ ~NotifiesAll(OpOf(s, t), OpOf(s, r).ptr)
  BY DEF SameAt, NotifiesAll, INT32_MAX
<1>4. Typed(s)
  BY DEF Good
<1>5. WillNotifyIn(u, OpOf(s, r).ptr)
  BY <1>2, <1>3, <1>4, StillWill
<1> QED
  BY <1>1, <1>5

(* The operation of t is over, or goes on.                                 *)
LEMMA EndMoves ==
  ASSUME NEW s, NEW u, NEW t \in T(s), Typed(s), Same(s, u), Over(s, u, t)
  PROVE  /\ Moves(s, u, t) /\ u.pc[t] = "go"
         /\ u.at \in [T(u) -> Nat \ {0}] /\ u.pc \in [T(u) -> PCs]
<1>1. "go" \in PCs /\ PcTo(s, u, t, "go") /\ u.at = [s.at EXCEPT ![t] = @ + 1]
  BY DEF PCs, PcTo, Over
<1> QED
  BY <1>1, Movement

(* The operation of t goes on.                                             *)
LEMMA GoesOn ==
  ASSUME NEW s, NEW u, NEW t \in T(s), Typed(s), Same(s, u), SameAt(s, u),
         NEW pc \in PCs, PcTo(s, u, t, pc)
  PROVE  /\ Moves(s, u, t) /\ u.pc[t] = pc /\ OpOf(u, t) = OpOf(s, t) /\ u.at[t] = s.at[t]
         /\ u.at \in [T(u) -> Nat \ {0}] /\ u.pc \in [T(u) -> PCs]
  BY Movement DEF SameAt

(* The thread that stores notifies after it.                               *)
LEMMA StoresKeeps ==
  ASSUME NEW s, NEW u, NEW t, Good(s), Stores(s, u, t)
  PROVE  Good(u)
<1>a. t \in T(s) /\ Typed(s) /\ s.pc[t] = "go" /\ s.at[t] <= Len(s.program[t])
  BY DEF Good, Stores, Begun
<1>b. /\ Moves(s, u, t) /\ u.pc[t] = "go"
      /\ u.at \in [T(u) -> Nat \ {0}] /\ u.pc \in [T(u) -> PCs]
  BY <1>a, EndMoves DEF Stores
<1>c. /\ u.mutex = s.mutex /\ u.js_atomics_waiter_list = s.js_atomics_waiter_list
      /\ u.linked = s.linked /\ u.signalled = s.signalled /\ u.why = s.why
      /\ u.el = s.el /\ u.waiter_list = s.waiter_list /\ u.sent = s.sent
  BY DEF Stores, SameMutex, SameList, SameMarks, SameWhy, SameCall
<1>1. Typed(u)
  <2>1. u.mem \in [Places -> Int]
    BY <1>a, Operations DEF Stores, Typed
  <2> QED
    BY <1>a, <1>b, <1>c, <2>1 DEF Stores, Same, Typed, Moves
<1>2. Busy(u)
  BY <1>a, <1>b DEF Good, Busy, Moves
<1>3. Mutexed(u)
  BY <1>a, <1>b, <1>c DEF Good, Mutexed, Moves, HoldPCs
<1>4. Listed(u)
  BY <1>a, <1>b, <1>c DEF Good, Listed, Moves, WaitPCs
<1>5. Taken(u)
  BY <1>a, <1>b, CallKept DEF Stores
<1>6. Marked(u)
  BY <1>a, <1>b, <1>c DEF Good, Marked, Moves, WaitPCs
<1>7. Remembered(u)
  <2> SUFFICES ASSUME AnnouncesIn(u.program),
                      NEW r \in T(u), u.pc[r] \in {"listed", "asleep"}, u.mem[OpOf(u, r).ptr] # OpOf(u, r).v,
                      ~u.signalled[r]
               PROVE  WillNotifyIn(u, OpOf(u, r).ptr)
    BY DEF Remembered
  <2>1. r \in T(s) \ {t} /\ s.pc[r] \in {"listed", "asleep"} /\ OpOf(u, r) = OpOf(s, r)
    BY <1>a, <1>b DEF Moves
  <2>2. r \in T(s) /\ s.at[r] <= Len(s.program[r]) /\ OpOf(s, r).ptr \in Places
    BY <1>a, <2>1, Operations DEF Good, Busy
  <2>3. CASE OpOf(s, r).ptr # OpOf(s, t).ptr
    <3>1. s.mem[OpOf(s, r).ptr] # OpOf(s, r).v
      BY <1>a, <2>1, <2>2, <2>3, Operations DEF Stores, Typed
    <3>2. WillNotifyIn(s, OpOf(s, r).ptr)
      BY <1>b, <1>c, <2>1, <3>1 DEF Good, Remembered, Moves
    <3>3. u.at = [s.at EXCEPT ![t] = @ + 1] /\ ~NotifiesAll(OpOf(s, t), OpOf(s, r).ptr) /\ Same(s, u)
      BY <2>3 DEF Stores, Over, NotifiesAll
    <3> QED
      BY <1>a, <2>1, <3>2, <3>3, StillWill
  <2>4. CASE OpOf(s, r).ptr = OpOf(s, t).ptr
    <3>1. s.at[t] \in 1 .. Len(s.program[t]) /\ t \in 1 .. Len(s.program)
      <4>1. s.at[t] \in Nat \ {0} /\ Len(s.program[t]) \in Nat
        BY <1>a, Programs DEF Typed
      <4> QED
        BY <1>a, <4>1 DEF T
    <3>2. PICK j \in s.at[t] + 1 .. Len(s.program[t]) : NotifiesAll(s.program[t][j], OpOf(s, t).ptr)
      BY <1>b, <3>1 DEF Stores, AnnouncesIn, OpOf, Moves
    <3>3. u.at[t] = s.at[t] + 1
      BY <1>a DEF Stores, Over, Typed
    <3> QED
      BY <1>a, <1>b, <2>1, <2>4, <3>2, <3>3 DEF WillNotifyIn, Moves
  <2> QED
    BY <2>3, <2>4
<1> QED
  BY <1>1, <1>2, <1>3, <1>4, <1>5, <1>6, <1>7 DEF Good

(* A notify of nobody.                                                     *)
LEMMA DoesNothingKeeps ==
  ASSUME NEW s, NEW u, NEW t, Good(s), DoesNothing(s, u, t)
  PROVE  Good(u)
<1>a. t \in T(s) /\ Typed(s) /\ s.pc[t] = "go" /\ OpOf(s, t).count = 0
  BY DEF Good, DoesNothing, Begun
<1>b. /\ Moves(s, u, t) /\ u.pc[t] = "go"
      /\ u.at \in [T(u) -> Nat \ {0}] /\ u.pc \in [T(u) -> PCs]
  BY <1>a, EndMoves DEF DoesNothing
<1>c. /\ u.mem = s.mem /\ u.mutex = s.mutex /\ u.js_atomics_waiter_list = s.js_atomics_waiter_list
      /\ u.linked = s.linked /\ u.signalled = s.signalled /\ u.why = s.why
      /\ u.el = s.el /\ u.waiter_list = s.waiter_list /\ u.sent = s.sent
  BY DEF DoesNothing, SameMem, SameMutex, SameList, SameMarks, SameWhy, SameCall
<1>1. Typed(u)
  BY <1>a, <1>b, <1>c DEF DoesNothing, Same, Typed, Moves
<1>2. Busy(u)
  BY <1>a, <1>b DEF Good, Busy, Moves
<1>3. Mutexed(u)
  BY <1>a, <1>b, <1>c DEF Good, Mutexed, Moves, HoldPCs
<1>4. Listed(u)
  BY <1>a, <1>b, <1>c DEF Good, Listed, Moves, WaitPCs
<1>5. Taken(u)
  BY <1>a, <1>b, CallKept DEF DoesNothing
<1>6. Marked(u)
  BY <1>a, <1>b, <1>c DEF Good, Marked, Moves, WaitPCs
<1>7. Remembered(u)
  <2>1. Same(s, u) /\ SameMarks(s, u) /\ u.at = [s.at EXCEPT ![t] = @ + 1]
    BY DEF DoesNothing, Over
  <2> QED
    BY <1>a, <1>b, <1>c, <2>1, Recalled
<1> QED
  BY <1>1, <1>2, <1>3, <1>4, <1>5, <1>6, <1>7 DEF Good

(* A wait for a value that is there no more.                               *)
LEMMA DiffersKeeps ==
  ASSUME NEW s, NEW u, NEW t, Good(s), Differs(s, u, t)
  PROVE  Good(u)
<1>a. t \in T(s) /\ Typed(s) /\ s.pc[t] = "in" /\ OpOf(s, t).kind = "wait"
  BY DEF Good, Differs
<1>b. /\ Moves(s, u, t) /\ u.pc[t] = "go"
      /\ u.at \in [T(u) -> Nat \ {0}] /\ u.pc \in [T(u) -> PCs]
  BY <1>a, EndMoves DEF Differs
<1>c. /\ u.mem = s.mem /\ u.js_atomics_waiter_list = s.js_atomics_waiter_list /\ u.linked = s.linked
      /\ u.signalled = s.signalled /\ u.why = s.why /\ u.el = s.el
      /\ u.waiter_list = s.waiter_list /\ u.sent = s.sent
  BY DEF Differs, SameMem, SameList, SameMarks, SameWhy, SameCall
<1>d. s.mutex = t /\ u.mutex = Nobody /\ s.waiter_list = <<>>
  <2>1. s.mutex = t
    BY <1>a DEF Good, Mutexed, HoldPCs
  <2>2. ~Notifying(s)
    BY <1>a, <2>1 DEF Notifying
  <2> QED
    BY <2>1, <2>2, NoCall DEF Differs
<1>1. Typed(u)
  BY <1>a, <1>b, <1>c, <1>d DEF Differs, Same, Typed, Moves
<1>2. Busy(u)
  BY <1>a, <1>b DEF Good, Busy, Moves
<1>3. Mutexed(u)
  BY <1>a, <1>b, <1>c, <1>d, Programs DEF Good, Mutexed, Moves, HoldPCs, Typed
<1>4. Listed(u)
  BY <1>a, <1>b, <1>c DEF Good, Listed, Moves, WaitPCs
<1>5. Taken(u)
  <2>1. u.waiter_list = <<>> /\ u.mutex = Nobody
    BY <1>c, <1>d
  <2> QED
    BY <2>1, Idle
<1>6. Marked(u)
  BY <1>a, <1>b, <1>c DEF Good, Marked, Moves, WaitPCs
<1>7. Remembered(u)
  <2>1. Same(s, u) /\ SameMarks(s, u) /\ u.at = [s.at EXCEPT ![t] = @ + 1]
    BY DEF Differs, Over
  <2> QED
    BY <1>a, <1>b, <1>c, <2>1, Recalled
<1> QED
  BY <1>1, <1>2, <1>3, <1>4, <1>5, <1>6, <1>7 DEF Good

(* A listed thread releases the mutex.                                     *)
LEMMA SleepsKeeps ==
  ASSUME NEW s, NEW u, NEW t, Good(s), Sleeps(s, u, t)
  PROVE  Good(u)
<1>a. t \in T(s) /\ Typed(s) /\ s.pc[t] = "listed" /\ OpOf(s, t).kind = "wait"
  BY DEF Good, Sleeps, Busy, WaitPCs
<1>b. /\ Moves(s, u, t) /\ u.pc[t] = "asleep" /\ OpOf(u, t) = OpOf(s, t) /\ u.at[t] = s.at[t]
      /\ u.at \in [T(u) -> Nat \ {0}] /\ u.pc \in [T(u) -> PCs]
  <2>1. "asleep" \in PCs
    BY DEF PCs, WaitPCs, HoldPCs
  <2> QED
    BY <1>a, <2>1, GoesOn DEF Sleeps
<1>c. /\ u.mem = s.mem /\ u.js_atomics_waiter_list = s.js_atomics_waiter_list /\ u.linked = s.linked
      /\ u.signalled = s.signalled /\ u.why = s.why /\ u.el = s.el
      /\ u.waiter_list = s.waiter_list /\ u.sent = s.sent
  BY DEF Sleeps, SameMem, SameList, SameMarks, SameWhy, SameCall
<1>d. s.mutex = t /\ u.mutex = Nobody /\ s.waiter_list = <<>>
  <2>1. s.mutex = t
    BY <1>a DEF Good, Mutexed, HoldPCs
  <2>2. ~Notifying(s)
    BY <1>a, <2>1 DEF Notifying
  <2> QED
    BY <2>1, <2>2, NoCall DEF Sleeps
<1>1. Typed(u)
  BY <1>a, <1>b, <1>c, <1>d DEF Sleeps, Same, Typed, Moves
<1>2. Busy(u)
  BY <1>a, <1>b DEF Good, Busy, Moves, WaitPCs
<1>3. Mutexed(u)
  BY <1>a, <1>b, <1>c, <1>d, Programs DEF Good, Mutexed, Moves, HoldPCs, Typed
<1>4. Listed(u)
  BY <1>a, <1>b, <1>c DEF Good, Listed, Moves, WaitPCs
<1>5. Taken(u)
  <2>1. u.waiter_list = <<>> /\ u.mutex = Nobody
    BY <1>c, <1>d
  <2> QED
    BY <2>1, Idle
<1>6. Marked(u)
  BY <1>a, <1>b, <1>c DEF Good, Marked, Moves, WaitPCs
<1>7. Remembered(u)
  <2>1. Same(s, u) /\ SameMarks(s, u) /\ SameAt(s, u)
    BY DEF Sleeps
  <2> QED
    BY <1>a, <1>b, <1>c, <2>1, Recalled
<1> QED
  BY <1>1, <1>2, <1>3, <1>4, <1>5, <1>6, <1>7 DEF Good

(* A thread wakes, for whatever reason.                                    *)
LEMMA WakesKeeps ==
  ASSUME NEW s, NEW u, NEW t, Good(s), Wakes(s, u, t)
  PROVE  Good(u)
<1>a. t \in T(s) /\ Typed(s) /\ s.pc[t] = "asleep" /\ OpOf(s, t).kind = "wait"
  BY DEF Good, Wakes, Busy, WaitPCs
<1>b. /\ Moves(s, u, t) /\ u.pc[t] = "relock" /\ OpOf(u, t) = OpOf(s, t) /\ u.at[t] = s.at[t]
      /\ u.at \in [T(u) -> Nat \ {0}] /\ u.pc \in [T(u) -> PCs]
  <2>1. "relock" \in PCs
    BY DEF PCs, WaitPCs, HoldPCs
  <2> QED
    BY <1>a, <2>1, GoesOn DEF Wakes
<1>c. /\ u.mem = s.mem /\ u.mutex = s.mutex /\ u.js_atomics_waiter_list = s.js_atomics_waiter_list
      /\ u.linked = s.linked /\ u.signalled = s.signalled /\ u.el = s.el
      /\ u.waiter_list = s.waiter_list /\ u.sent = s.sent
  BY DEF Wakes, SameMem, SameMutex, SameList, SameMarks, SameCall
<1>d. PICK why \in {"signal", "ETIMEDOUT", "nothing"} :
        u.why = [s.why EXCEPT ![t] = why] /\ (why = "signal" => s.signalled[t])
  BY DEF Wakes
<1>e. /\ u.why[t] = why /\ \A r \in T(s) \ {t} : u.why[r] = s.why[r]
      /\ u.why \in [T(s) -> {"none", "signal", "ETIMEDOUT", "nothing"}]
  BY <1>a, <1>d DEF Typed
<1>1. Typed(u)
  BY <1>a, <1>b, <1>c, <1>e DEF Wakes, Same, Typed, Moves
<1>2. Busy(u)
  BY <1>a, <1>b DEF Good, Busy, Moves, WaitPCs
<1>3. Mutexed(u)
  BY <1>a, <1>b, <1>c, Programs DEF Good, Mutexed, Moves, HoldPCs, Typed
<1>4. Listed(u)
  BY <1>a, <1>b, <1>c DEF Good, Listed, Moves, WaitPCs
<1>5. Taken(u)
  <2>1. OpOf(u, t) = OpOf(s, t) /\ s.pc[t] \notin HoldPCs /\ u.pc[t] \in {"asleep", "relock"}
    BY <1>a, <1>b DEF HoldPCs
  <2> QED
    BY <1>a, <1>b, <2>1, CallGoesOn DEF Wakes
<1>6. Marked(u)
  BY <1>a, <1>b, <1>c, <1>d, <1>e DEF Good, Marked, Moves, WaitPCs
<1>7. Remembered(u)
  <2>1. Same(s, u) /\ SameMarks(s, u) /\ SameAt(s, u) /\ u.pc[t] \notin {"listed", "asleep"}
    BY <1>b DEF Wakes
  <2> QED
    BY <1>a, <1>b, <1>c, <2>1, Recalled
<1> QED
  BY <1>1, <1>2, <1>3, <1>4, <1>5, <1>6, <1>7 DEF Good

(* A wait takes the mutex, at first or again.                              *)
LEMMA LocksKeeps ==
  ASSUME NEW s, NEW u, NEW t, Good(s), Locks(s, u, t)
  PROVE  Good(u)
<1>a. t \in T(s) /\ Typed(s) /\ s.mutex = Nobody /\ u.mutex = t /\ Same(s, u) /\ SameAt(s, u)
  BY DEF Good, Locks
<1>b. PICK pc \in {"in", "leaving"} :
        /\ PcTo(s, u, t, pc)
        /\ pc = "in" => Begun(s, t) /\ OpOf(s, t).kind = "wait"
        /\ pc = "leaving" => s.pc[t] = "relock"
  BY DEF Locks
<1>c. /\ Moves(s, u, t) /\ u.pc[t] = pc /\ OpOf(u, t) = OpOf(s, t) /\ u.at[t] = s.at[t]
      /\ u.at \in [T(u) -> Nat \ {0}] /\ u.pc \in [T(u) -> PCs]
  <2>1. pc \in PCs
    BY DEF PCs, WaitPCs, HoldPCs
  <2> QED
    BY <1>a, <1>b, <2>1, GoesOn
<1>d. s.at[t] <= Len(s.program[t]) /\ OpOf(s, t).kind = "wait" /\ s.pc[t] \in {"go", "relock"}
  BY <1>a, <1>b DEF Good, Busy, Begun, WaitPCs
<1>e. /\ u.mem = s.mem /\ u.js_atomics_waiter_list = s.js_atomics_waiter_list /\ u.linked = s.linked
      /\ u.signalled = s.signalled /\ u.why = s.why /\ u.el = s.el
      /\ u.waiter_list = s.waiter_list /\ u.sent = s.sent
  BY DEF Locks, SameMem, SameList, SameMarks, SameWhy, SameCall
<1>f. s.waiter_list = <<>> /\ u.waiter_list = <<>>
  <2>1. ~Notifying(s)
    BY <1>a DEF Notifying
  <2> QED
    BY <1>e, <2>1, NoCall
<1>1. Typed(u)
  BY <1>a, <1>b, <1>c, <1>e DEF Same, Typed, Moves
<1>2. Busy(u)
  BY <1>a, <1>b, <1>c, <1>d DEF Good, Busy, Moves, WaitPCs
<1>3. Mutexed(u)
  BY <1>a, <1>b, <1>c, Programs DEF Good, Mutexed, Moves, HoldPCs, Typed
<1>4. Listed(u)
  BY <1>a, <1>b, <1>c, <1>d, <1>e DEF Good, Listed, Moves, WaitPCs, Begun
<1>5. Taken(u)
  <2>1. OpOf(u, u.mutex).kind = "wait" /\ u.pc[u.mutex] # "signals"
    BY <1>a, <1>b, <1>c, <1>d
  <2> QED
    BY <1>f, <2>1, Idle
<1>6. Marked(u)
  BY <1>a, <1>b, <1>c, <1>d, <1>e DEF Good, Marked, Moves, WaitPCs
<1>7. Remembered(u)
  <2>1. SameMarks(s, u) /\ u.pc[t] \notin {"listed", "asleep"}
    BY <1>b, <1>c DEF Locks
  <2> QED
    BY <1>a, <1>c, <1>e, <2>1, Recalled
<1> QED
  BY <1>1, <1>2, <1>3, <1>4, <1>5, <1>6, <1>7 DEF Good

(* A notify begins with nobody taken.                                      *)
LEMMA NotifiesKeeps ==
  ASSUME NEW s, NEW u, NEW t, Good(s), Notifies(s, u, t)
  PROVE  Good(u)
<1>a. /\ t \in T(s) /\ Typed(s) /\ s.mutex = Nobody /\ u.mutex = t /\ s.pc[t] = "go"
      /\ s.at[t] <= Len(s.program[t]) /\ OpOf(s, t).kind = "notify" /\ OpOf(s, t).count > 0
      /\ u.el = 1 /\ u.waiter_list = <<>> /\ u.sent = 0
  BY DEF Good, Notifies, Begun
<1>b. /\ Moves(s, u, t) /\ u.pc[t] = "in" /\ OpOf(u, t) = OpOf(s, t) /\ u.at[t] = s.at[t]
      /\ u.at \in [T(u) -> Nat \ {0}] /\ u.pc \in [T(u) -> PCs]
  <2>1. "in" \in PCs
    BY DEF PCs, WaitPCs, HoldPCs
  <2> QED
    BY <1>a, <2>1, GoesOn DEF Notifies
<1>c. /\ u.mem = s.mem /\ u.js_atomics_waiter_list = s.js_atomics_waiter_list /\ u.linked = s.linked
      /\ u.signalled = s.signalled /\ u.why = s.why
  BY DEF Notifies, SameMem, SameList, SameMarks, SameWhy
<1>d. s.waiter_list = <<>>
  <2>1. ~Notifying(s)
    BY <1>a DEF Notifying
  <2> QED
    BY <2>1, NoCall
<1>1. Typed(u)
  BY <1>a, <1>b, <1>c DEF Notifies, Same, Typed, Moves
<1>2. Busy(u)
  BY <1>a, <1>b DEF Good, Busy, Moves, WaitPCs
<1>3. Mutexed(u)
  BY <1>a, <1>b, <1>c, Programs DEF Good, Mutexed, Moves, HoldPCs, Typed
<1>4. Listed(u)
  BY <1>a, <1>b, <1>c DEF Good, Listed, Moves, WaitPCs
<1>5. Taken(u)
  <2>1. DOMAIN u.js_atomics_waiter_list = 1 .. Len(u.js_atomics_waiter_list)
    BY <1>a, <1>c DEF Typed
  <2> QED
    BY <1>a, <1>b, <2>1 DEF Taken, Notifying, Once, Elsewhere
<1>6. Marked(u)
  <2>1. \A r : ~InSeq(s.waiter_list, r)
    BY <1>d DEF InSeq
  <2> QED
    BY <1>a, <1>b, <1>c, <2>1 DEF Good, Marked, Moves, WaitPCs
<1>7. Remembered(u)
  <2>1. Same(s, u) /\ SameMarks(s, u) /\ SameAt(s, u) /\ u.pc[t] \notin {"listed", "asleep"}
    BY <1>b DEF Notifies
  <2> QED
    BY <1>a, <1>b, <1>c, <2>1, Recalled
<1> QED
  BY <1>1, <1>2, <1>3, <1>4, <1>5, <1>6, <1>7 DEF Good

(* A wait finds the value it expects.                                      *)
LEMMA EnlistsKeeps ==
  ASSUME NEW s, NEW u, NEW t, Good(s), Enlists(s, u, t)
  PROVE  Good(u)
<1>a. /\ t \in T(s) /\ Typed(s) /\ s.pc[t] = "in" /\ OpOf(s, t).kind = "wait"
      /\ s.mem[OpOf(s, t).ptr] = OpOf(s, t).v
  BY DEF Good, Enlists
<1>b. /\ Moves(s, u, t) /\ u.pc[t] = "listed" /\ OpOf(u, t) = OpOf(s, t) /\ u.at[t] = s.at[t]
      /\ u.at \in [T(u) -> Nat \ {0}] /\ u.pc \in [T(u) -> PCs]
  <2>1. "listed" \in PCs
    BY DEF PCs, WaitPCs, HoldPCs
  <2> QED
    BY <1>a, <2>1, GoesOn DEF Enlists
<1>c. /\ u.mem = s.mem /\ u.mutex = s.mutex /\ u.why = s.why
      /\ u.el = s.el /\ u.waiter_list = s.waiter_list /\ u.sent = s.sent
  BY DEF Enlists, SameMem, SameMutex, SameWhy, SameCall
<1>d. s.mutex = t /\ s.waiter_list = <<>> /\ ~InSeq(s.js_atomics_waiter_list, t)
  <2>1. s.mutex = t
    BY <1>a DEF Good, Mutexed, HoldPCs
  <2>2. ~Notifying(s)
    BY <1>a, <2>1 DEF Notifying
  <2>3. ~s.linked[t]
    BY <1>a DEF Good, Listed, WaitPCs
  <2> QED
    BY <1>a, <2>1, <2>2, <2>3, NoCall DEF Good, Listed
<1>e. /\ u.js_atomics_waiter_list \in Seq(T(s)) /\ Once(u.js_atomics_waiter_list)
      /\ \A r : InSeq(u.js_atomics_waiter_list, r) <=> InSeq(s.js_atomics_waiter_list, r) \/ r = t
  <2>1. s.js_atomics_waiter_list \in Seq(T(s)) /\ Once(s.js_atomics_waiter_list)
    BY DEF Good, Typed, Listed
  <2> QED
    BY <1>a, <1>d, <2>1, Appended DEF Enlists
<1>f. /\ u.linked[t] = TRUE /\ u.signalled[t] = FALSE
      /\ \A r \in T(s) \ {t} : u.linked[r] = s.linked[r] /\ u.signalled[r] = s.signalled[r]
      /\ u.linked \in [T(s) -> BOOLEAN] /\ u.signalled \in [T(s) -> BOOLEAN]
  BY <1>a DEF Enlists, Typed
<1>1. Typed(u)
  BY <1>a, <1>b, <1>c, <1>e, <1>f DEF Enlists, Same, Typed, Moves
<1>2. Busy(u)
  BY <1>a, <1>b DEF Good, Busy, Moves, WaitPCs
<1>3. Mutexed(u)
  BY <1>a, <1>b, <1>c, <1>d, Programs DEF Good, Mutexed, Moves, HoldPCs, Typed
<1>4. Listed(u)
  BY <1>a, <1>b, <1>c, <1>e, <1>f DEF Good, Listed, Moves, WaitPCs
<1>5. Taken(u)
  <2>1. u.waiter_list = <<>> /\ u.mutex = t
    BY <1>c, <1>d
  <2>2. OpOf(u, u.mutex).kind = "wait" /\ u.pc[u.mutex] # "signals"
    BY <1>a, <1>b, <2>1
  <2> QED
    BY <2>1, <2>2, Idle
<1>6. Marked(u)
  BY <1>a, <1>b, <1>c, <1>f DEF Good, Marked, Moves, WaitPCs
<1>7. Remembered(u)
  <2> SUFFICES ASSUME AnnouncesIn(u.program),
                      NEW r \in T(u), u.pc[r] \in {"listed", "asleep"}, u.mem[OpOf(u, r).ptr] # OpOf(u, r).v,
                      ~u.signalled[r]
               PROVE  WillNotifyIn(u, OpOf(u, r).ptr)
    BY DEF Remembered
  <2>1. r \in T(s) \ {t} /\ OpOf(u, r) = OpOf(s, r) /\ s.pc[r] \in {"listed", "asleep"}
    BY <1>a, <1>b, <1>c DEF Moves
  <2>2. WillNotifyIn(s, OpOf(s, r).ptr)
    BY <1>b, <1>c, <1>f, <2>1 DEF Good, Remembered, Moves
  <2>3. Same(s, u) /\ u.at = s.at
    BY DEF Enlists, SameAt
  <2> QED
    BY <1>a, <2>1, <2>2, <2>3, StillWill
<1> QED
  BY <1>1, <1>2, <1>3, <1>4, <1>5, <1>6, <1>7 DEF Good

(* A wait ends, and its waiter goes off the list.                          *)
LEMMA LeavesKeeps ==
  ASSUME NEW s, NEW u, NEW t, Good(s), Leaves(s, u, t)
  PROVE  Good(u)
<1>a. t \in T(s) /\ Typed(s) /\ s.pc[t] = "leaving" /\ OpOf(s, t).kind = "wait"
  BY DEF Good, Leaves, Busy, WaitPCs
<1>b. /\ Moves(s, u, t) /\ u.pc[t] = "go"
      /\ u.at \in [T(u) -> Nat \ {0}] /\ u.pc \in [T(u) -> PCs]
  BY <1>a, EndMoves DEF Leaves
<1>c. /\ u.mem = s.mem /\ u.signalled = s.signalled /\ u.why = s.why
      /\ u.el = s.el /\ u.waiter_list = s.waiter_list /\ u.sent = s.sent
  BY DEF Leaves, SameMem, SameMarks, SameWhy, SameCall
<1>d. s.mutex = t /\ u.mutex = Nobody /\ s.waiter_list = <<>>
  <2>1. s.mutex = t
    BY <1>a DEF Good, Mutexed, HoldPCs
  <2>2. ~Notifying(s)
    BY <1>a, <2>1 DEF Notifying
  <2> QED
    BY <2>1, <2>2, NoCall DEF Leaves
<1>e. /\ u.linked[t] = FALSE /\ u.linked \in [T(s) -> BOOLEAN]
      /\ \A r \in T(s) \ {t} : u.linked[r] = s.linked[r]
  BY <1>a DEF Leaves, Typed
<1>f. /\ u.js_atomics_waiter_list \in Seq(T(s)) /\ Once(u.js_atomics_waiter_list)
      /\ \A r : InSeq(u.js_atomics_waiter_list, r) <=> InSeq(s.js_atomics_waiter_list, r) /\ r # t
  <2> DEFINE list == s.js_atomics_waiter_list
  <2>1. list \in Seq(T(s)) /\ Once(list) /\ (s.linked[t] <=> InSeq(list, t))
    BY <1>a DEF Good, Typed, Listed
  <2>2. CASE s.linked[t]
    <3>1. PlaceIn(list, t) \in DOMAIN list /\ list[PlaceIn(list, t)] = t
      BY <2>1, <2>2 DEF InSeq, PlaceIn
    <3>2. PlaceIn(list, t) \in 1 .. Len(list)
      BY <2>1, <3>1
    <3>3. u.js_atomics_waiter_list = list_del(list, PlaceIn(list, t))
      BY <2>2 DEF Leaves
    <3> HIDE DEF list
    <3>4. /\ list_del(list, PlaceIn(list, t)) \in Seq(T(s)) /\ Once(list_del(list, PlaceIn(list, t)))
          /\ \A r : InSeq(list_del(list, PlaceIn(list, t)), r) <=> InSeq(list, r) /\ r # t
      BY <2>1, <3>1, <3>2, RemovedOnce
    <3> QED
      BY <3>3, <3>4 DEF list
  <2>3. CASE ~s.linked[t]
    BY <2>1, <2>3 DEF Leaves
  <2> QED
    BY <2>2, <2>3
<1>1. Typed(u)
  BY <1>a, <1>b, <1>c, <1>d, <1>e, <1>f DEF Leaves, Same, Typed, Moves
<1>2. Busy(u)
  BY <1>a, <1>b DEF Good, Busy, Moves
<1>3. Mutexed(u)
  BY <1>a, <1>b, <1>c, <1>d, Programs DEF Good, Mutexed, Moves, HoldPCs, Typed
<1>4. Listed(u)
  BY <1>a, <1>b, <1>c, <1>e, <1>f DEF Good, Listed, Moves, WaitPCs
<1>5. Taken(u)
  <2>1. u.waiter_list = <<>> /\ u.mutex = Nobody
    BY <1>c, <1>d
  <2> QED
    BY <2>1, Idle
<1>6. Marked(u)
  BY <1>a, <1>b, <1>c, <1>e DEF Good, Marked, Moves, WaitPCs
<1>7. Remembered(u)
  <2>1. Same(s, u) /\ SameMarks(s, u) /\ u.at = [s.at EXCEPT ![t] = @ + 1]
    BY DEF Leaves, Over
  <2> QED
    BY <1>a, <1>b, <1>c, <2>1, Recalled
<1> QED
  BY <1>1, <1>2, <1>3, <1>4, <1>5, <1>6, <1>7 DEF Good

(* A waiter of another place stays.                                        *)
LEMMA PassesKeeps ==
  ASSUME NEW s, NEW u, NEW t, Good(s), Passes(s, u, t)
  PROVE  Good(u)
<1>a. /\ t \in T(s) /\ Typed(s) /\ s.pc[t] = "in" /\ OpOf(s, t).kind = "notify"
      /\ s.el <= Len(s.js_atomics_waiter_list)
  BY DEF Good, Passes, AtWaiter
<1>b. /\ Moves(s, u, t) /\ u.pc = s.pc /\ u.at = s.at /\ T(u) = T(s)
      /\ \A r \in T(s) : OpOf(u, r) = OpOf(s, r)
  BY DEF Passes, Same, SameAt, T, OpOf, Moves
<1>c. /\ u.mem = s.mem /\ u.mutex = s.mutex /\ u.js_atomics_waiter_list = s.js_atomics_waiter_list
      /\ u.linked = s.linked /\ u.signalled = s.signalled /\ u.why = s.why
  BY DEF Passes, SameMem, SameMutex, SameList, SameMarks, SameWhy
<1>d. /\ s.mutex = t /\ Notifying(s) /\ t # Nobody /\ Taken(s)
      /\ DOMAIN s.js_atomics_waiter_list = 1 .. Len(s.js_atomics_waiter_list)
      /\ Len(s.js_atomics_waiter_list) \in Nat /\ s.el \in Nat \ {0}
      /\ DOMAIN s.waiter_list = 1 .. Len(s.waiter_list) /\ Len(s.waiter_list) \in Nat
      /\ OpOf(s, t).count \in Nat /\ s.sent \in 0 .. Len(s.waiter_list)
  BY <1>a, InCall
<1>e. u.el = s.el + 1 /\ u.waiter_list = s.waiter_list /\ u.sent = s.sent
  BY DEF Passes
<1>1. Typed(u)
  BY <1>a, <1>b, <1>c, <1>d, <1>e DEF Passes, Same, Typed, Moves
<1>2. Busy(u)
  BY <1>a, <1>b DEF Good, Busy, Moves
<1>3. Mutexed(u)
  BY <1>b, <1>c DEF Good, Mutexed
<1>4. Listed(u)
  BY <1>b, <1>c DEF Good, Listed
<1>5. Taken(u)
  <2>1. \A r \in T(s) : OpOf(u, r) = OpOf(s, r)
    BY <1>b
  <2>2. \A j \in DOMAIN s.js_atomics_waiter_list : Elsewhere(s, j) <=> Elsewhere(u, j)
    BY <1>a, <1>b, <1>c, <1>d, AtWork DEF Elsewhere
  <2>3. Elsewhere(s, s.el)
    BY <1>d DEF Elsewhere, Passes
  <2>4. \A j \in DOMAIN s.js_atomics_waiter_list : j < u.el => Elsewhere(u, j)
    BY <1>a, <1>d, <1>e, <2>2, <2>3 DEF Taken
  <2>5. \A i \in DOMAIN s.waiter_list : TakenOne(u, i)
    BY <1>a, <1>b, <1>c, <1>d, <1>e, AtWork DEF Taken, TakenOne
  <2>6. OpOf(u, u.mutex) = OpOf(s, s.mutex) /\ u.pc[u.mutex] = "in"
    BY <1>a, <1>b, <1>c, <1>d
  <2>7. Notifying(u)
    BY <1>a, <1>c, <1>d, <2>6 DEF Notifying
  <2> QED
    BY <1>a, <1>c, <1>d, <1>e, <2>4, <2>5, <2>6, <2>7 DEF Taken
<1>6. Marked(u)
  BY <1>b, <1>c, <1>e DEF Good, Marked
<1>7. Remembered(u)
  <2>1. Same(s, u) /\ SameMarks(s, u) /\ SameAt(s, u) /\ u.pc[t] \notin {"listed", "asleep"}
    BY <1>a, <1>b DEF Passes
  <2> QED
    BY <1>a, <1>b, <1>c, <2>1, Recalled
<1> QED
  BY <1>1, <1>2, <1>3, <1>4, <1>5, <1>6, <1>7 DEF Good

(* At the end of the list nobody is left for the place.                    *)
LEMMA LookedKeeps ==
  ASSUME NEW s, NEW u, NEW t, Good(s), Looked(s, u, t)
  PROVE  Good(u)
<1>a. /\ t \in T(s) /\ Typed(s) /\ s.pc[t] = "in" /\ OpOf(s, t).kind = "notify"
      /\ s.el > Len(s.js_atomics_waiter_list)
  BY DEF Good, Looked
<1>b. /\ Moves(s, u, t) /\ u.pc[t] = "signals" /\ OpOf(u, t) = OpOf(s, t) /\ u.at[t] = s.at[t]
      /\ u.at \in [T(u) -> Nat \ {0}] /\ u.pc \in [T(u) -> PCs]
  <2>1. "signals" \in PCs
    BY DEF PCs, WaitPCs, HoldPCs
  <2> QED
    BY <1>a, <2>1, GoesOn DEF Looked
<1>c. /\ u.mem = s.mem /\ u.mutex = s.mutex /\ u.js_atomics_waiter_list = s.js_atomics_waiter_list
      /\ u.linked = s.linked /\ u.signalled = s.signalled /\ u.why = s.why
      /\ u.el = s.el /\ u.waiter_list = s.waiter_list /\ u.sent = s.sent
  BY DEF Looked, SameMem, SameMutex, SameList, SameMarks, SameWhy, SameCall
<1>d. /\ s.mutex = t /\ Notifying(s) /\ t # Nobody /\ Taken(s)
      /\ DOMAIN s.js_atomics_waiter_list = 1 .. Len(s.js_atomics_waiter_list)
      /\ Len(s.js_atomics_waiter_list) \in Nat /\ s.el \in Nat \ {0}
      /\ DOMAIN s.waiter_list = 1 .. Len(s.waiter_list) /\ Len(s.waiter_list) \in Nat
      /\ OpOf(s, t).count \in Nat /\ s.sent \in 0 .. Len(s.waiter_list)
  BY <1>a, InCall
<1>e. \A r \in T(s) : OpOf(u, r) = OpOf(s, r)
  BY <1>b DEF Moves
<1>1. Typed(u)
  BY <1>a, <1>b, <1>c, <1>d DEF Looked, Same, Typed, Moves
<1>2. Busy(u)
  BY <1>a, <1>b DEF Good, Busy, Moves, WaitPCs
<1>3. Mutexed(u)
  BY <1>a, <1>b, <1>c DEF Good, Mutexed, Moves, HoldPCs
<1>4. Listed(u)
  BY <1>a, <1>b, <1>c DEF Good, Listed, Moves, WaitPCs
<1>5. Taken(u)
  <2>1. \A j \in DOMAIN s.js_atomics_waiter_list : Elsewhere(s, j) /\ (Elsewhere(s, j) <=> Elsewhere(u, j))
    BY <1>a, <1>c, <1>d, <1>e, AtWork DEF Elsewhere, Taken
  <2>2. \A i \in DOMAIN s.waiter_list : TakenOne(u, i)
    <3> TAKE i \in DOMAIN s.waiter_list
    <3>1. TakenOne(s, i) /\ s.waiter_list[i] \in T(s) \ {t}
      BY <1>a, <1>d, AtWork DEF Taken
    <3>2. u.pc[s.waiter_list[i]] = s.pc[s.waiter_list[i]]
      BY <1>b, <3>1 DEF Moves
    <3> QED
      BY <1>a, <1>c, <1>d, <1>e, <3>1, <3>2 DEF TakenOne
  <2>3. OpOf(u, u.mutex) = OpOf(s, s.mutex) /\ u.pc[u.mutex] = "signals"
    BY <1>a, <1>b, <1>c, <1>d
  <2>4. Notifying(u)
    BY <1>a, <1>c, <1>d, <2>3 DEF Notifying
  <2> QED
    BY <1>a, <1>c, <1>d, <2>1, <2>2, <2>3, <2>4 DEF Taken
<1>6. Marked(u)
  BY <1>a, <1>b, <1>c DEF Good, Marked, Moves, WaitPCs
<1>7. Remembered(u)
  <2>1. Same(s, u) /\ SameMarks(s, u) /\ SameAt(s, u) /\ u.pc[t] \notin {"listed", "asleep"}
    BY <1>b DEF Looked
  <2> QED
    BY <1>a, <1>b, <1>c, <2>1, Recalled
<1> QED
  BY <1>1, <1>2, <1>3, <1>4, <1>5, <1>6, <1>7 DEF Good

(* The next of those taken is signalled.                                   *)
LEMMA SignalsKeeps ==
  ASSUME NEW s, NEW u, NEW t, Good(s), Signals(s, u, t)
  PROVE  Good(u)
<1>a. /\ t \in T(s) /\ Typed(s) /\ s.pc[t] = "signals" /\ OpOf(s, t).kind = "notify"
      /\ s.sent < Len(s.waiter_list)
  BY DEF Good, Signals, Busy
<1>b. /\ Moves(s, u, t) /\ u.pc = s.pc /\ u.at = s.at /\ T(u) = T(s)
      /\ \A r \in T(s) : OpOf(u, r) = OpOf(s, r)
  BY DEF Signals, Same, SameAt, T, OpOf, Moves
<1>c. /\ u.mem = s.mem /\ u.mutex = s.mutex /\ u.js_atomics_waiter_list = s.js_atomics_waiter_list
      /\ u.linked = s.linked /\ u.why = s.why
  BY DEF Signals, SameMem, SameMutex, SameList, SameWhy
<1>d. /\ s.mutex = t /\ Notifying(s) /\ t # Nobody /\ Taken(s)
      /\ DOMAIN s.js_atomics_waiter_list = 1 .. Len(s.js_atomics_waiter_list)
      /\ Len(s.js_atomics_waiter_list) \in Nat /\ s.el \in Nat \ {0}
      /\ DOMAIN s.waiter_list = 1 .. Len(s.waiter_list) /\ Len(s.waiter_list) \in Nat
      /\ OpOf(s, t).count \in Nat /\ s.sent \in 0 .. Len(s.waiter_list)
  BY <1>a, InCall
<1>e. u.el = s.el /\ u.waiter_list = s.waiter_list /\ u.sent = s.sent + 1
  BY DEF Signals
<1>f. PICK w \in T(s) : w = s.waiter_list[s.sent + 1] /\ ~s.linked[w]
  <2>1. s.sent + 1 \in DOMAIN s.waiter_list
    BY <1>a, <1>d
  <2> QED
    BY <1>d, <2>1, AtWork DEF Taken, TakenOne
<1>g. /\ u.signalled[w] = TRUE /\ u.signalled \in [T(s) -> BOOLEAN]
      /\ \A r \in T(s) \ {w} : u.signalled[r] = s.signalled[r]
  <2>1. u.signalled = [s.signalled EXCEPT ![w] = TRUE]
    BY <1>f DEF Signals
  <2> QED
    BY <1>a, <2>1 DEF Typed
<1>1. Typed(u)
  BY <1>a, <1>b, <1>c, <1>d, <1>e, <1>g DEF Signals, Same, Typed, Moves
<1>2. Busy(u)
  BY <1>a, <1>b DEF Good, Busy, Moves
<1>3. Mutexed(u)
  BY <1>b, <1>c DEF Good, Mutexed
<1>4. Listed(u)
  BY <1>b, <1>c DEF Good, Listed
<1>5. Taken(u)
  <2>1. \A j \in DOMAIN s.js_atomics_waiter_list : Elsewhere(s, j) <=> Elsewhere(u, j)
    BY <1>a, <1>b, <1>c, <1>d, AtWork DEF Elsewhere
  <2>2. \A i \in DOMAIN s.waiter_list : TakenOne(u, i)
    <3> TAKE i \in DOMAIN s.waiter_list
    <3>1. TakenOne(s, i) /\ s.waiter_list[i] \in T(s)
      BY <1>d, AtWork DEF Taken
    <3>2. i <= s.sent + 1 => u.signalled[s.waiter_list[i]]
      BY <1>d, <1>f, <1>g, <3>1 DEF TakenOne
    <3> QED
      BY <1>a, <1>b, <1>c, <1>d, <1>e, <3>1, <3>2 DEF TakenOne
  <2>3. OpOf(u, u.mutex) = OpOf(s, s.mutex) /\ u.pc[u.mutex] = "signals"
    BY <1>a, <1>b, <1>c, <1>d
  <2>4. Notifying(u)
    BY <1>a, <1>c, <1>d, <2>3 DEF Notifying
  <2> QED
    BY <1>a, <1>c, <1>d, <1>e, <2>1, <2>2, <2>3, <2>4 DEF Taken
<1>6. Marked(u)
  BY <1>b, <1>c, <1>e, <1>f, <1>g DEF Good, Marked
<1>7. Remembered(u)
  <2> SUFFICES ASSUME AnnouncesIn(u.program),
                      NEW r \in T(u), u.pc[r] \in {"listed", "asleep"}, u.mem[OpOf(u, r).ptr] # OpOf(u, r).v,
                      ~u.signalled[r]
               PROVE  WillNotifyIn(u, OpOf(u, r).ptr)
    BY DEF Remembered
  <2>1. r \in T(s) /\ OpOf(u, r) = OpOf(s, r) /\ s.pc[r] \in {"listed", "asleep"} /\ ~s.signalled[r]
    BY <1>b, <1>f, <1>g
  <2>2. WillNotifyIn(s, OpOf(s, r).ptr)
    BY <1>b, <1>c, <2>1 DEF Good, Remembered, Moves
  <2>3. Same(s, u) /\ u.at = s.at
    BY <1>b DEF Signals
  <2> QED
    BY <1>a, <2>1, <2>2, <2>3, StillWill
<1> QED
  BY <1>1, <1>2, <1>3, <1>4, <1>5, <1>6, <1>7 DEF Good

(* A waiter is taken; if it is the last one asked for, not all were.       *)
LEMMA TakesKeeps ==
  ASSUME NEW s, NEW u, NEW t, NEW w, Good(s), Takes(s, u, t, w)
  PROVE  Good(u)
<1>a. /\ t \in T(s) /\ Typed(s) /\ s.pc[t] = "in" /\ OpOf(s, t).kind = "notify"
      /\ s.el <= Len(s.js_atomics_waiter_list) /\ w = s.js_atomics_waiter_list[s.el]
  BY DEF Good, Takes, AtWaiter
<1>b. PICK pc \in {"in", "signals"} :
        /\ PcTo(s, u, t, pc)
        /\ pc = IF Len(s.waiter_list) + 1 >= OpOf(s, t).count THEN "signals" ELSE "in"
  BY DEF Takes
<1>c. /\ Moves(s, u, t) /\ u.pc[t] = pc /\ OpOf(u, t) = OpOf(s, t) /\ u.at[t] = s.at[t]
      /\ u.at \in [T(u) -> Nat \ {0}] /\ u.pc \in [T(u) -> PCs]
  <2>1. pc \in PCs
    BY DEF PCs, WaitPCs, HoldPCs
  <2> QED
    BY <1>a, <1>b, <2>1, GoesOn DEF Takes
<1>d. /\ u.mem = s.mem /\ u.mutex = s.mutex /\ u.signalled = s.signalled /\ u.why = s.why
      /\ u.el = s.el /\ u.sent = s.sent
  BY DEF Takes, SameMem, SameMutex, SameMarks, SameWhy
<1>e. /\ s.mutex = t /\ Notifying(s) /\ t # Nobody /\ Taken(s)
      /\ DOMAIN s.js_atomics_waiter_list = 1 .. Len(s.js_atomics_waiter_list)
      /\ Len(s.js_atomics_waiter_list) \in Nat /\ s.el \in Nat \ {0}
      /\ DOMAIN s.waiter_list = 1 .. Len(s.waiter_list) /\ Len(s.waiter_list) \in Nat
      /\ OpOf(s, t).count \in Nat /\ s.sent \in 0 .. Len(s.waiter_list)
  BY <1>a, InCall
<1>f. /\ w \in T(s) /\ s.linked[w] /\ s.pc[w] \in {"asleep", "relock"} /\ w # t
      /\ ~InSeq(s.waiter_list, w)
  <2>1. w \in T(s) /\ s.linked[w] /\ s.pc[w] \in WaitPCs
    BY <1>a, <1>e, AtWork
  <2>2. w # t /\ s.pc[w] \notin HoldPCs
    BY <1>a, <1>e, <2>1 DEF Good, Mutexed, WaitPCs
  <2>3. \A i \in DOMAIN s.waiter_list : ~s.linked[s.waiter_list[i]]
    BY <1>e DEF Taken, TakenOne
  <2> QED
    BY <2>1, <2>2, <2>3 DEF InSeq, WaitPCs, HoldPCs
<1>g. /\ u.linked[w] = FALSE /\ u.linked \in [T(s) -> BOOLEAN]
      /\ \A r \in T(s) \ {w} : u.linked[r] = s.linked[r]
  <2>1. u.linked = [s.linked EXCEPT ![w] = FALSE] /\ s.linked \in [T(s) -> BOOLEAN]
    BY <1>a DEF Takes, Typed
  <2> QED
    BY <1>f, <2>1
<1>h. /\ u.js_atomics_waiter_list \in Seq(T(s)) /\ Once(u.js_atomics_waiter_list)
      /\ \A r : InSeq(u.js_atomics_waiter_list, r) <=> InSeq(s.js_atomics_waiter_list, r) /\ r # w
      /\ \A j \in DOMAIN u.js_atomics_waiter_list :
           \E k \in DOMAIN s.js_atomics_waiter_list :
             u.js_atomics_waiter_list[j] = s.js_atomics_waiter_list[k] /\ (j < s.el => k = j)
  <2> DEFINE list == s.js_atomics_waiter_list
  <2>1. list \in Seq(T(s)) /\ Once(list) /\ s.el \in 1 .. Len(list) /\ w = list[s.el]
    BY <1>a, <1>e DEF Good, Typed, Listed
  <2>2. u.js_atomics_waiter_list = list_del(list, s.el)
    BY DEF Takes
  <2> HIDE DEF list
  <2>3. /\ list_del(list, s.el) \in Seq(T(s)) /\ Once(list_del(list, s.el))
        /\ \A r : InSeq(list_del(list, s.el), r) <=> InSeq(list, r) /\ r # w
        /\ \A j \in DOMAIN list_del(list, s.el) :
             \E k \in DOMAIN list : list_del(list, s.el)[j] = list[k] /\ (j < s.el => k = j)
    BY <2>1, RemovedOnce
  <2> QED
    BY <2>2, <2>3 DEF list
<1>i. /\ u.waiter_list \in Seq(T(s)) /\ Once(u.waiter_list) /\ Len(u.waiter_list) = Len(s.waiter_list) + 1
      /\ \A r : InSeq(u.waiter_list, r) <=> InSeq(s.waiter_list, r) \/ r = w
      /\ \A i \in DOMAIN s.waiter_list : u.waiter_list[i] = s.waiter_list[i]
      /\ u.waiter_list[Len(s.waiter_list) + 1] = w
  <2>1. s.waiter_list \in Seq(T(s)) /\ Once(s.waiter_list)
    BY <1>a, <1>e DEF Typed, Taken
  <2>2. u.waiter_list = Append(s.waiter_list, w)
    BY DEF Takes
  <2> QED
    BY <1>f, <2>1, <2>2, Appended
<1>j. \A r \in T(s) : OpOf(u, r) = OpOf(s, r) /\ (r # t => u.pc[r] = s.pc[r])
  BY <1>c DEF Moves
<1>k. DOMAIN u.waiter_list = 1 .. Len(s.waiter_list) + 1
  BY <1>i
<1>1. Typed(u)
  <2>1. T(u) = T(s) /\ u.sent \in 0 .. Len(u.waiter_list)
    BY <1>c, <1>d, <1>e, <1>i DEF Moves
  <2> QED
    BY <1>a, <1>c, <1>d, <1>g, <1>h, <1>i, <2>1 DEF Takes, Same, Typed
<1>2. Busy(u)
  BY <1>a, <1>c DEF Good, Busy, Moves, WaitPCs
<1>3. Mutexed(u)
  BY <1>a, <1>c, <1>d DEF Good, Mutexed, Moves, HoldPCs
<1>4. Listed(u)
  BY <1>a, <1>c, <1>f, <1>g, <1>h DEF Good, Listed, Moves, WaitPCs
<1>5. Taken(u)
  <2>1. OpOf(u, u.mutex) = OpOf(s, s.mutex) /\ u.mutex = t /\ u.pc[u.mutex] = pc
    BY <1>c, <1>d, <1>e
  <2>2. Notifying(u)
    BY <1>a, <1>d, <1>e, <2>1 DEF Notifying
  <2>3. Len(s.waiter_list) < OpOf(s, t).count /\ s.sent = 0
    BY <1>a, <1>e DEF Taken
  <2>4. \A i \in DOMAIN u.waiter_list : TakenOne(u, i)
    <3> TAKE i \in DOMAIN u.waiter_list
    <3>1. CASE i \in DOMAIN s.waiter_list
      <4>1. TakenOne(s, i) /\ s.waiter_list[i] \in T(s) \ {t, w} /\ u.waiter_list[i] = s.waiter_list[i]
        BY <1>a, <1>e, <1>f, <1>i, <3>1, AtWork DEF Taken, InSeq
      <4> QED
        BY <1>d, <1>g, <1>j, <2>1, <4>1 DEF TakenOne
    <3>2. CASE i \notin DOMAIN s.waiter_list
      <4>1. i = Len(s.waiter_list) + 1
        BY <1>e, <1>k, <3>2
      <4>2. u.waiter_list[i] = w /\ ~(i <= u.sent)
        BY <1>d, <1>e, <1>i, <2>3, <4>1
      <4>3. OpOf(u, w).ptr = OpOf(u, u.mutex).ptr
        BY <1>a, <1>e, <1>f, <1>j, <2>1 DEF Takes
      <4> QED
        BY <1>f, <1>g, <1>j, <4>2, <4>3 DEF TakenOne
    <3> QED
      BY <3>1, <3>2
  <2>5. \A j \in DOMAIN u.js_atomics_waiter_list : j < u.el => Elsewhere(u, j)
    <3> TAKE j \in DOMAIN u.js_atomics_waiter_list
    <3> HAVE j < u.el
    <3>1. /\ j \in DOMAIN s.js_atomics_waiter_list
          /\ u.js_atomics_waiter_list[j] = s.js_atomics_waiter_list[j]
      BY <1>d, <1>h
    <3>2. Elsewhere(s, j) /\ s.js_atomics_waiter_list[j] \in T(s)
      BY <1>a, <1>d, <1>e, <3>1, AtWork DEF Taken
    <3> QED
      BY <1>j, <2>1, <3>1, <3>2 DEF Elsewhere
  <2>6. CASE pc = "in"
    <3>1. Len(u.waiter_list) < OpOf(u, u.mutex).count
      BY <1>b, <1>e, <1>i, <2>1, <2>6
    <3>2. Len(u.waiter_list) <= OpOf(u, u.mutex).count
      BY <1>e, <1>i, <2>1, <3>1
    <3> QED
      BY <1>d, <1>i, <2>1, <2>2, <2>3, <2>4, <2>5, <2>6, <3>1, <3>2 DEF Taken
  <2>7. CASE pc = "signals"
    <3>1. Len(u.waiter_list) <= OpOf(u, u.mutex).count
      BY <1>e, <1>i, <2>1, <2>3
    <3>2. OpOf(u, u.mutex).count # INT32_MAX
      <4>1. Len(s.program) \in Nat /\ Len(s.program) < INT32_MAX
        BY <1>a, Programs DEF Typed
      <4>2. Len(u.waiter_list) <= Len(s.program)
        BY <1>i, <4>1, NotLonger DEF T
      <4>3. OpOf(s, t).count <= Len(s.waiter_list) + 1
        BY <1>b, <1>e, <2>7
      <4> QED
        BY <1>e, <1>i, <2>1, <4>1, <4>2, <4>3 DEF INT32_MAX
    <3> QED
      BY <1>i, <2>1, <2>2, <2>4, <2>7, <3>1, <3>2 DEF Taken
  <2> QED
    BY <2>6, <2>7
<1>6. Marked(u)
  BY <1>a, <1>c, <1>d, <1>f, <1>g, <1>i DEF Good, Marked, Moves, WaitPCs
<1>7. Remembered(u)
  <2>1. Same(s, u) /\ SameMarks(s, u) /\ SameAt(s, u) /\ u.pc[t] \notin {"listed", "asleep"}
    BY <1>b, <1>c DEF Takes
  <2> QED
    BY <1>a, <1>c, <1>d, <2>1, Recalled
<1> QED
  BY <1>1, <1>2, <1>3, <1>4, <1>5, <1>6, <1>7 DEF Good

(* When the notify ends, all that it took are signalled.                   *)
LEMMA EndsKeeps ==
  ASSUME NEW s, NEW u, NEW t, Good(s), Ends(s, u, t)
  PROVE  Good(u)
<1>a. /\ t \in T(s) /\ Typed(s) /\ s.pc[t] = "signals" /\ OpOf(s, t).kind = "notify"
      /\ s.sent = Len(s.waiter_list)
  BY DEF Good, Ends, Busy
<1>b. /\ Moves(s, u, t) /\ u.pc[t] = "go"
      /\ u.at \in [T(u) -> Nat \ {0}] /\ u.pc \in [T(u) -> PCs]
  BY <1>a, EndMoves DEF Ends
<1>c. /\ u.mem = s.mem /\ u.mutex = Nobody /\ u.js_atomics_waiter_list = s.js_atomics_waiter_list
      /\ u.linked = s.linked /\ u.signalled = s.signalled /\ u.why = s.why
      /\ u.el = s.el /\ u.waiter_list = <<>> /\ u.sent = 0
  BY DEF Ends, SameMem, SameList, SameMarks, SameWhy
<1>d. /\ s.mutex = t /\ Notifying(s) /\ t # Nobody /\ Taken(s)
      /\ DOMAIN s.js_atomics_waiter_list = 1 .. Len(s.js_atomics_waiter_list)
      /\ Len(s.js_atomics_waiter_list) \in Nat /\ s.el \in Nat \ {0}
      /\ DOMAIN s.waiter_list = 1 .. Len(s.waiter_list) /\ Len(s.waiter_list) \in Nat
      /\ OpOf(s, t).count \in Nat /\ s.sent \in 0 .. Len(s.waiter_list)
  BY <1>a, InCall
<1>e. \A r \in T(s) : InSeq(s.waiter_list, r) => s.signalled[r]
  BY <1>a, <1>d DEF InSeq, Taken, TakenOne
<1>1. Typed(u)
  BY <1>a, <1>b, <1>c DEF Ends, Same, Typed, Moves
<1>2. Busy(u)
  BY <1>a, <1>b DEF Good, Busy, Moves
<1>3. Mutexed(u)
  BY <1>a, <1>b, <1>c, <1>d, Programs DEF Good, Mutexed, Moves, HoldPCs, Typed
<1>4. Listed(u)
  BY <1>a, <1>b, <1>c DEF Good, Listed, Moves, WaitPCs
<1>5. Taken(u)
  BY <1>c, Idle
<1>6. Marked(u)
  BY <1>a, <1>b, <1>c, <1>e DEF Good, Marked, Moves, WaitPCs
<1>7. Remembered(u)
  <2> SUFFICES ASSUME AnnouncesIn(u.program),
                      NEW r \in T(u), u.pc[r] \in {"listed", "asleep"}, u.mem[OpOf(u, r).ptr] # OpOf(u, r).v,
                      ~u.signalled[r]
               PROVE  WillNotifyIn(u, OpOf(u, r).ptr)
    BY DEF Remembered
  <2>1. /\ r \in T(s) \ {t} /\ OpOf(u, r) = OpOf(s, r) /\ s.pc[r] \in {"listed", "asleep"}
        /\ ~s.signalled[r]
    BY <1>a, <1>b, <1>c DEF Moves
  <2>2. WillNotifyIn(s, OpOf(s, r).ptr)
    BY <1>b, <1>c, <2>1 DEF Good, Remembered, Moves
  <2>3. ~NotifiesAll(OpOf(s, t), OpOf(s, r).ptr)
    <3> SUFFICES ASSUME OpOf(s, t).ptr = OpOf(s, r).ptr, OpOf(s, t).count = INT32_MAX
                 PROVE  FALSE
      BY DEF NotifiesAll
    <3>1. s.linked[r]
      BY <1>e, <2>1 DEF Good, Marked
    <3>2. PICK j \in DOMAIN s.js_atomics_waiter_list : s.js_atomics_waiter_list[j] = r
      BY <2>1, <3>1 DEF Good, Listed, InSeq
    <3>3. Elsewhere(s, j)
      BY <1>a, <1>d DEF Taken
    <3> QED
      BY <1>d, <3>2, <3>3 DEF Elsewhere
  <2>4. Same(s, u) /\ u.at = [s.at EXCEPT ![t] = @ + 1]
    BY DEF Ends, Over
  <2> QED
    BY <1>a, <2>1, <2>2, <2>3, <2>4, StillWill
<1> QED
  BY <1>1, <1>2, <1>3, <1>4, <1>5, <1>6, <1>7 DEF Good

-----------------------------------------------------------------------------
(* The theorems.                                                           *)

(* At the beginning nobody waits.                                          *)
LEMMA Begin ==
  ASSUME NEW p \in WaitPrograms
  PROVE  Good(Begins(p))
<1> DEFINE s == Begins(p)
<1>1. /\ s.mode = "atomics" /\ s.program = p /\ s.mutex = Nobody /\ s.js_atomics_waiter_list = <<>>
      /\ s.el = 1 /\ s.waiter_list = <<>> /\ s.sent = 0 /\ IsState(s)
      /\ s.at = [t \in T(s) |-> 1] /\ s.pc = [t \in T(s) |-> "go"] /\ s.mem = [ptr \in Places |-> 0]
      /\ s.linked = [t \in T(s) |-> FALSE] /\ s.signalled = [t \in T(s) |-> FALSE]
      /\ s.why = [t \in T(s) |-> "none"]
  BY DEF Begins, T, IsState
<1> HIDE DEF s
<1>2. \A t \in T(s) : s.pc[t] = "go" /\ ~s.linked[t] /\ t # Nobody
  BY <1>1, Programs
<1>3. Typed(s)
  <2>1. /\ s.js_atomics_waiter_list \in Seq(T(s)) /\ s.waiter_list \in Seq(T(s))
        /\ s.sent \in 0 .. Len(s.waiter_list) /\ s.el \in Nat \ {0}
    BY <1>1
  <2>2. s.at \in [T(s) -> Nat \ {0}] /\ s.mem \in [Places -> Int]
    BY <1>1
  <2>3. s.pc \in [T(s) -> PCs]
    BY <1>1 DEF PCs
  <2> QED
    BY <1>1, <2>1, <2>2, <2>3 DEF Typed
<1>4. Busy(s)
  BY <1>2 DEF Busy
<1>5. Mutexed(s)
  BY <1>1, <1>2 DEF Mutexed, HoldPCs
<1>6. Listed(s)
  BY <1>1, <1>2 DEF Listed, InSeq, Once
<1>7. Taken(s)
  BY <1>1, Idle
<1>8. Marked(s)
  BY <1>2 DEF Marked, WaitPCs
<1>9. Remembered(s)
  BY <1>2 DEF Remembered
<1> QED
  BY <1>3, <1>4, <1>5, <1>6, <1>7, <1>8, <1>9 DEF Good, s

(* Every step keeps the invariant.                                         *)
LEMMA Kept ==
  ASSUME IInv, [AtomicsNext]_state
  PROVE  IInv'
<1>1. CASE AtomicsNext
  <2>1. Good(state) /\ Step(state, state')
    BY <1>1, Fields DEF IInv
  <2>2. PICK t \in T(state) :
          \/ Stores(state, state', t) \/ Locks(state, state', t) \/ Differs(state, state', t)
          \/ Enlists(state, state', t) \/ Sleeps(state, state', t) \/ Wakes(state, state', t)
          \/ Leaves(state, state', t) \/ DoesNothing(state, state', t) \/ Notifies(state, state', t)
          \/ Takes(state, state', t, state.js_atomics_waiter_list[state.el]) \/ Passes(state, state', t)
          \/ Looked(state, state', t) \/ Signals(state, state', t) \/ Ends(state, state', t)
    BY <2>1 DEF Step
  <2>3. CASE \/ Stores(state, state', t) \/ Locks(state, state', t) \/ Differs(state, state', t)
             \/ Enlists(state, state', t) \/ Sleeps(state, state', t) \/ Wakes(state, state', t)
             \/ Leaves(state, state', t)
    <3>1. Good(state')
      BY <2>1, <2>3, StoresKeeps, LocksKeeps, DiffersKeeps, EnlistsKeeps, SleepsKeeps, WakesKeeps, LeavesKeeps
    <3> QED
      BY <3>1 DEF IInv
  <2>4. CASE \/ DoesNothing(state, state', t) \/ Notifies(state, state', t)
             \/ Takes(state, state', t, state.js_atomics_waiter_list[state.el]) \/ Passes(state, state', t)
             \/ Looked(state, state', t) \/ Signals(state, state', t) \/ Ends(state, state', t)
    <3>1. Good(state')
      BY <2>1, <2>4, DoesNothingKeeps, NotifiesKeeps, TakesKeeps, PassesKeeps, LookedKeeps, SignalsKeeps,
         EndsKeeps
    <3> QED
      BY <3>1 DEF IInv
  <2> QED
    BY <2>2, <2>3, <2>4
<1>2. CASE UNCHANGED state
  BY <1>2 DEF IInv
<1> QED
  BY <1>1, <1>2

(* What is invariant says that the list, the signals and the values agree. *)
LEMMA Agree ==
  ASSUME IInv
  PROVE  WaitersFound
<1>1. Good(state) /\ threads = T(state)
  BY DEF IInv, Good, Typed, threads, T
<1>2. \A t : Op(t) = OpOf(state, t) /\ (Waiting(t) <=> state.pc[t] \in WaitPCs)
  BY DEF Op, OpOf, Waiting, WaitPCs
<1>3. ListSound
  <2>1. Mutexed(state) /\ Listed(state)
    BY <1>1 DEF Good
  <2>2. \A t \in threads : Holding(t) <=> state.mutex = t
    BY <1>1, <2>1 DEF Mutexed, Holding, HoldPCs
  <2> QED
    BY <1>1, <1>2, <2>1, <2>2 DEF ListSound, Listed, InSeq, Once
<1>4. SignalsSound
  <2>1. ASSUME NEW i \in DOMAIN state.waiter_list
        PROVE  /\ i <= Op(state.mutex).count
               /\ i > state.sent => Waiting(state.waiter_list[i])
               /\ Op(state.waiter_list[i]).ptr = Op(state.mutex).ptr
    <3>1. TakenOne(state, i)
      BY <1>1 DEF Good, Taken
    <3>2. i <= OpOf(state, state.mutex).count
      <4>1. state.waiter_list \in Seq(T(state))
        BY <1>1 DEF Good, Typed
      <4>2. i \in 1 .. Len(state.waiter_list) /\ Len(state.waiter_list) \in Nat
        BY <4>1
      <4>3. state.waiter_list # <<>>
        BY <4>2
      <4>4. /\ Notifying(state) /\ Len(state.waiter_list) <= OpOf(state, state.mutex).count
        BY <1>1, <4>3 DEF Good, Taken
      <4>5. state.mutex \in T(state) /\ state.pc[state.mutex] \in {"in", "signals"}
        BY <1>1, <4>4, AtWork DEF Notifying, HoldPCs, Good, Busy, WaitPCs
      <4>6. OpOf(state, state.mutex).count \in Nat
        BY <1>1, <4>4, <4>5, InCall DEF Notifying
      <4> QED
        BY <4>2, <4>4, <4>6
    <3> QED
      BY <1>2, <3>1, <3>2 DEF TakenOne, WaitPCs
  <2>2. ASSUME NEW t \in threads
        PROVE  /\ Waiting(t) /\ state.signalled[t] => ~state.linked[t]
               /\ InState(t, "leaving") /\ state.why[t] = "signal" => ~state.linked[t]
    BY <1>1, <1>2 DEF Good, Marked, InState
  <2> QED
    BY <2>1, <2>2 DEF SignalsSound
<1>5. NoneForgotten
  <2>1. Announces => AnnouncesIn(state.program)
    BY <1>1 DEF Announces, AnnouncesIn, T
  <2>2. \A ptr : WillNotifyIn(state, ptr) => WillNotify(ptr)
    BY <1>1 DEF WillNotifyIn, WillNotify
  <2> QED
    BY <1>1, <1>2, <2>1, <2>2 DEF NoneForgotten, Good, Remembered, InState
<1> QED
  BY <1>3, <1>4, <1>5 DEF WaitersFound

(* Threads that wait and notify never leave their mutex, their list of     *)
(* waiters, the calls in progress and what was signalled at odds, however  *)
(* their steps interleave.                                                 *)
THEOREM WaitSound == AtomicsSpec => []IInv
<1>1. AtomicsInit => IInv
  BY Begin DEF AtomicsInit, IInv
<1>2. IInv /\ [AtomicsNext]_state => IInv'
  BY Kept
<1> QED
  BY <1>1, <1>2, PTL DEF AtomicsSpec

(* One thread is in the mutex; the list holds exactly the waiters nobody   *)
(* took off it and none that has returned; a notify signals no more than   *)
(* it was asked for; and no thread sleeps for good on a value that changed.*)
THEOREM WaitersAlwaysFound == AtomicsSpec => []WaitersFound
<1>1. AtomicsSpec => []IInv
  BY WaitSound
<1>2. IInv => WaitersFound
  BY Agree
<1> QED
  BY <1>1, <1>2, PTL
=============================================================================
