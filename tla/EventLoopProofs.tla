-------------------------- MODULE EventLoopProofs ---------------------------
(* Proofs about the event loop (EventLoop), for every number of timers,    *)
(* descriptors, signals and jobs, and every kind of program.               *)
EXTENDS EventLoop, SequenceTheorems, WellFoundedInduction, TLAPS

-----------------------------------------------------------------------------
(* Where the loop is. A handler runs nowhere but in a call, and its        *)
(* function has the reference of the call, and one more in a place that    *)
(* still owns it. Jobs are pending in the loop's own calls only after one  *)
(* that throws. What the end of the program lets go of stays gone.         *)
Where ==
  /\ running # None => pc = "handler"
  /\ running # None => refs > 0
  /\ kept => refs = 2
  /\ pc \in {"poll", "arm", "wait", "exit"} /\ ~program.throws => jobs = 0
  /\ pc \in {"freed", "last", "end"} => timers = <<>>
  /\ pc \in {"last", "end"} => root = {}

(* What a timer is made of: a structure exists as long as it is linked or  *)
(* has an object; its function is there until the timer has expired or the *)
(* structure is gone, or is freed under a structure that has only the list *)
(* left; a closure refers to timer objects as long as it exists.           *)
Owned ==
  /\ alloc = Linked \cup object
  /\ pc = "end" => object = {}
  /\ \A t \in Timer : func[t] = "undefined" => t \notin Linked
  /\ \A t \in Timer : func[t] # "undefined" => t \in alloc
  /\ \A t \in Timer : func[t] = "freed" => t \notin object
  /\ \A t \in Timer : running = <<"timer", t>> => func[t] = "undefined"
  /\ \A p \in captures : Closure(p[1])

(* Without cycles no function is freed before its timer.                   *)
Straight ==
  /\ Acyclic(captures)
  /\ pc # "undefined"
  /\ \A t \in Timer : func[t] # "freed"

LoopInv ==
  /\ TypeOK /\ program \in Programs /\ Where
  /\ pc # "undefined" => Owned
  /\ ~program.cycles => Straight

-----------------------------------------------------------------------------
(* Lists: an element that leaves a list without duplicates, and one that   *)
(* comes to its end.                                                       *)
LEMMA ListDel ==
  ASSUME NEW S, NEW s \in Seq(S), IsInjective(s), NEW x
  PROVE  /\ list_del(s, x) \in Seq(S)
         /\ IsInjective(list_del(s, x))
         /\ Range(list_del(s, x)) = Range(s) \ {x}
<1>1. CASE x \notin Range(s)
  BY <1>1 DEF list_del
<1>2. CASE x \in Range(s)
  <2> DEFINE k == CHOOSE i \in DOMAIN s : s[i] = x
             d == RemoveAt(s, k)
  <2>1. k \in 1 .. Len(s) /\ s[k] = x
    BY <1>2 DEF Range
  <2>2. list_del(s, x) = d
    BY <1>2 DEF list_del
  <2> HIDE DEF k
  <2>3. /\ SubSeq(s, 1, k - 1) \in Seq(S) /\ Len(SubSeq(s, 1, k - 1)) = k - 1
        /\ \A i \in 1 .. k - 1 : SubSeq(s, 1, k - 1)[i] = s[i]
    BY <2>1
  <2>4. /\ SubSeq(s, k + 1, Len(s)) \in Seq(S) /\ Len(SubSeq(s, k + 1, Len(s))) = Len(s) - k
        /\ \A i \in 1 .. Len(s) - k : SubSeq(s, k + 1, Len(s))[i] = s[k + i]
    BY <2>1
  <2>5. /\ d \in Seq(S) /\ Len(d) = Len(s) - 1
        /\ \A i \in 1 .. Len(s) - 1 : d[i] = IF i < k THEN s[i] ELSE s[i + 1]
    <3> DEFINE b == SubSeq(s, 1, k - 1)
               e == SubSeq(s, k + 1, Len(s))
    <3>1. d = b \o e
      BY DEF RemoveAt
    <3> HIDE DEF b, e, d
    <3>a. b \in Seq(S) /\ Len(b) = k - 1 /\ e \in Seq(S) /\ Len(e) = Len(s) - k
      BY <2>3, <2>4 DEF b, e
    <3>2. /\ b \o e \in Seq(S) /\ Len(b \o e) = Len(s) - 1
          /\ \A i \in 1 .. Len(s) - 1 : (b \o e)[i] = IF i <= Len(b) THEN b[i] ELSE e[i - Len(b)]
      <4>1. Len(b) + Len(e) = Len(s) - 1
        BY <2>1, <3>a
      <4> QED BY <4>1, <3>a, ConcatProperties
    <3>3. \A i \in 1 .. Len(s) - 1 : i < k => d[i] = s[i]
      BY <2>1, <2>3, <3>1, <3>2 DEF b
    <3>4. \A i \in 1 .. Len(s) - 1 : ~(i < k) => d[i] = s[i + 1]
      <4> TAKE i \in 1 .. Len(s) - 1
      <4> HAVE ~(i < k)
      <4>1. i - (k - 1) \in 1 .. Len(s) - k /\ k + (i - (k - 1)) = i + 1
        BY <2>1
      <4>2. d[i] = e[i - (k - 1)]
        BY <2>1, <2>3, <3>1, <3>2 DEF b
      <4> QED BY <4>1, <4>2, <2>4 DEF e
    <3> QED BY <3>1, <3>2, <3>3, <3>4
  <2> HIDE DEF d
  <2>6. IsInjective(d)
    BY <2>1, <2>5 DEF IsInjective
  <2>7. \A i \in 1 .. Len(s) : i # k => \E j \in 1 .. Len(d) : d[j] = s[i]
    <3> TAKE i \in 1 .. Len(s)
    <3>1. CASE i < k
      BY <3>1, <2>1, <2>5
    <3>2. CASE i > k
      <4>1. i - 1 \in 1 .. Len(d) /\ d[i - 1] = s[i]
        BY <3>2, <2>1, <2>5
      <4> QED BY <4>1
    <3> QED BY <3>1, <3>2, <2>1
  <2>8. \A j \in 1 .. Len(d) : \E i \in 1 .. Len(s) : d[j] = s[i] /\ i # k
    BY <2>1, <2>5
  <2>9. Range(d) = Range(s) \ {x}
    <3>1. Range(d) \subseteq Range(s) \ {x}
      <4>1. ASSUME NEW j \in 1 .. Len(d)
            PROVE  d[j] \in Range(s) \ {x}
        <5>1. PICK i \in 1 .. Len(s) : d[j] = s[i] /\ i # k
          BY <2>8
        <5>2. s[i] # s[k]
          BY <5>1, <2>1 DEF IsInjective
        <5> QED BY <5>1, <5>2, <2>1 DEF Range
      <4> QED BY <4>1, <2>5 DEF Range
    <3>2. Range(s) \ {x} \subseteq Range(d)
      <4>1. ASSUME NEW i \in 1 .. Len(s), s[i] # x
            PROVE  s[i] \in Range(d)
        <5>1. PICK j \in 1 .. Len(d) : d[j] = s[i]
          BY <4>1, <2>1, <2>7
        <5> QED BY <5>1, <2>5 DEF Range
      <4> QED BY <4>1 DEF Range
    <3> QED BY <3>1, <3>2
  <2> QED BY <2>2, <2>5, <2>6, <2>9
<1> QED BY <1>1, <1>2

LEMMA ListAdd ==
  ASSUME NEW S, NEW s \in Seq(S), IsInjective(s), NEW x \in S, x \notin Range(s)
  PROVE  /\ Append(s, x) \in Seq(S)
         /\ IsInjective(Append(s, x))
         /\ Range(Append(s, x)) = Range(s) \cup {x}
<1>1. /\ Append(s, x) \in Seq(S) /\ Len(Append(s, x)) = Len(s) + 1
      /\ \A i \in 1 .. Len(s) : Append(s, x)[i] = s[i]
      /\ Append(s, x)[Len(s) + 1] = x
  OBVIOUS
<1>2. IsInjective(Append(s, x))
  BY <1>1 DEF IsInjective, Range
<1>3. Range(Append(s, x)) \subseteq Range(s) \cup {x}
  BY <1>1 DEF Range
<1>4. Range(s) \cup {x} \subseteq Range(Append(s, x))
  BY <1>1 DEF Range
<1> QED BY <1>1, <1>2, <1>3, <1>4

LEMMA ListEmpty == IsInjective(<<>>) /\ Range(<<>>) = {} /\ \A S : <<>> \in Seq(S)
  BY DEF IsInjective, Range

LEMMA ListIn ==
  ASSUME NEW S, NEW s \in Seq(S)
  PROVE  Range(s) \subseteq S
  BY DEF Range

(* The smallest element of a set of natural numbers.                       *)
LEMMA Smallest ==
  ASSUME NEW S \in SUBSET Nat, S # {}
  PROVE  Min(S) \in S /\ \A y \in S : Min(S) <= y
<1>1. PICK x \in S : \A y \in S : <<y, x>> \notin OpToRel(<, Nat)
  BY WFMin, NatLessThanWellFounded
<1>2. \A y \in S : ~(y < x)
  BY <1>1, Zenon DEF OpToRel
<1>3. \A y \in S : x <= y
  BY <1>2
<1> QED BY <1>3 DEF Min
-----------------------------------------------------------------------------
(* What a collection takes: no timer object that the program holds or that *)
(* a closure outside refers to, and with the closures of what it takes all *)
(* references to it.                                                       *)
LEMMA GarbageTaken ==
  ASSUME TypeOK
  PROVE  /\ Garbage \subseteq object /\ Garbage \cap root = {}
         /\ \A a, b \in Timer : <<a, b>> \in captures /\ b \in Garbage
              => a \in Garbage /\ func[a] = "function"
         /\ \A b \in Garbage : b \in Timer
  BY DEF Garbage, Unreachable, TypeOK

(* Without cycles and with nothing left to finalize there is no garbage.   *)
LEMMA NoGarbage ==
  ASSUME TypeOK, Quiet, Acyclic(captures)
  PROVE  Garbage = {}
<1>1. SUFFICES ASSUME Garbage # {}
               PROVE  FALSE
  OBVIOUS
<1>2. PICK b \in Garbage : \A a \in Garbage : <<a, b>> \notin captures
  BY <1>1, GarbageTaken DEF Acyclic, TypeOK
<1>3. b \in object /\ b \notin root
  BY <1>2, GarbageTaken
<1>4. PICK a \in Timer : <<a, b>> \in captures
  BY <1>3 DEF Quiet, Held
<1> QED BY <1>2, <1>4, GarbageTaken

LEMMA CollectTyped ==
  ASSUME TypeOK, Collect, root' \subseteq root
  PROVE  /\ alloc' \subseteq Timer /\ object' \subseteq Timer /\ root' \subseteq object'
         /\ func' \in [Timer -> {"undefined", "function", "freed"}]
         /\ captures' \subseteq Timer \X object'
<1>1. /\ alloc' \subseteq Timer /\ object' \subseteq Timer /\ root' \subseteq object'
  BY GarbageTaken DEF Collect, TypeOK
<1>2. func' \in [Timer -> {"undefined", "function", "freed"}]
  BY DEF Collect, TypeOK
<1>3. ASSUME NEW p \in captures'
      PROVE  p \in Timer \X object'
  <2>1. p \in captures /\ p[1] \notin {t \in Garbage : func[t] = "function"}
    BY <1>3 DEF Collect, Without
  <2>2. PICK a \in Timer, b \in object : p = <<a, b>>
    BY <2>1 DEF TypeOK
  <2>3. b \notin Garbage
    BY <2>1, <2>2, GarbageTaken DEF TypeOK
  <2> QED BY <2>2, <2>3 DEF Collect
<1> QED BY <1>1, <1>2, <1>3

LEMMA CollectOwned ==
  ASSUME TypeOK, Owned, Collect, UNCHANGED <<timers, running>>
  PROVE  /\ alloc' = Linked' \cup object'
         /\ \A t \in Timer :
              /\ func'[t] = "undefined" => t \notin Linked'
              /\ func'[t] # "undefined" => t \in alloc'
              /\ func'[t] = "freed" => t \notin object'
              /\ running' = <<"timer", t>> => func'[t] = "undefined"
         /\ \A p \in captures' : Closure(p[1])'
<1>1. alloc' = Linked' \cup object'
  BY GarbageTaken DEF Collect, Owned, Linked
<1>2. ASSUME NEW t \in Timer
      PROVE  /\ func'[t] = "undefined" => t \notin Linked'
             /\ func'[t] # "undefined" => t \in alloc'
             /\ func'[t] = "freed" => t \notin object'
             /\ running' = <<"timer", t>> => func'[t] = "undefined"
  BY GarbageTaken DEF Collect, Owned, Linked, TypeOK
<1>3. ASSUME NEW p \in captures'
      PROVE  Closure(p[1])'
  <2>1. p \in captures /\ p[1] \in Timer /\ ~(p[1] \in Garbage /\ func[p[1]] = "function")
    BY DEF Collect, Without, TypeOK
  <2>2. func[p[1]] = "function" \/ running = <<"timer", p[1]>>
    BY <2>1 DEF Owned, Closure
  <2> QED BY <2>1, <2>2 DEF Collect, Closure
<1> QED BY <1>1, <1>2, <1>3

(* Removing closures leaves the graph without cycles.                      *)
LEMMA StillAcyclic ==
  ASSUME NEW c, NEW d, d \subseteq c, Acyclic(c)
  PROVE  Acyclic(d)
  BY DEF Acyclic

(* The list of the timers, and that of the descriptors.                    *)
LEMMA TimerLeaves ==
  ASSUME TypeOK, NEW t \in Timer, timers' = list_del(timers, t)
  PROVE  /\ timers' \in Seq(Timer) /\ IsInjective(timers')
         /\ Linked' = Linked \ {t}
  BY ListDel DEF TypeOK, Linked

(* The references to the function of a handler that is replaced, and of    *)
(* one that is called.                                                     *)
LEMMA Freed ==
  ASSUME TypeOK, Where, NEW places, FreePlace(places)
  PROVE  /\ kept' \in BOOLEAN /\ refs' \in 0 .. 2 /\ running' = running
         /\ refs # 0 => refs' # 0
<1>1. CASE kept /\ running \in places
  <2>1. kept' = FALSE /\ refs = 2 /\ refs' = refs - 1 /\ running' = running
    BY <1>1 DEF FreePlace, Where
  <2>2. kept' \in BOOLEAN
    BY <2>1, Zenon
  <2> QED BY <2>1, <2>2
<1>2. CASE ~(kept /\ running \in places)
  BY <1>2 DEF FreePlace, TypeOK, runVars
<1> QED BY <1>1, <1>2

LEMMA Called ==
  ASSUME NEW place, call_handler(place)
  PROVE  kept' \in BOOLEAN /\ refs' = 2 /\ running' = place /\ pc' = "handler"
<1>1. kept' \in BOOLEAN
  BY Zenon DEF call_handler
<1> QED BY <1>1 DEF call_handler, call_handler_dup

LEMMA js_os_timer_finalizer_Keeps ==
  ASSUME LoopInv, NEW b \in Timer, js_os_timer_finalizer(b)
  PROVE  LoopInv'
<1> USE LoopAssumption, NoneAssumption DEF LoopInv, js_os_timer_finalizer, Held, unlinked, Without, timerVars, programVars, handlerVars, signalVars, runVars
<1>1. TypeOK'
  <2>1. b \notin root /\ \A a \in Timer : <<a, b>> \notin captures
    BY DEF Held
  <2>2. root \subseteq object' /\ captures' \subseteq Timer \X object'
    BY <2>1 DEF TypeOK, Without
  <2>3. alloc' \subseteq Timer /\ object' \subseteq Timer /\ func' \in [Timer -> {"undefined", "function", "freed"}]
    BY DEF TypeOK
  <2> QED BY <2>2, <2>3 DEF TypeOK
<1>2. program' \in Programs /\ Where'
  BY DEF TypeOK, Where, Code, Place
<1>3. pc' # "undefined" => Owned'
  <2> SUFFICES ASSUME pc # "undefined"
               PROVE  Owned'
    OBVIOUS
  <2>1. CASE b \notin Linked
    <3>1. alloc' = Linked' \cup object' /\ (pc' = "end" => object' = {})
      BY <2>1 DEF Owned, TypeOK, Linked
    <3>2. \A p \in captures' : Closure(p[1])'
      BY <2>1 DEF Owned, TypeOK, Closure
    <3> QED BY <2>1, <3>1, <3>2 DEF Owned, TypeOK, Linked
  <2>2. CASE b \in Linked
    BY <2>2 DEF Owned, TypeOK, Linked, Closure
  <2> QED BY <2>1, <2>2
<1>4. ~program.cycles => Straight'
  BY DEF Straight, Acyclic, TypeOK, Code
<1> QED BY <1>1, <1>2, <1>3, <1>4

LEMMA JS_RunGC_Keeps ==
  ASSUME LoopInv, JS_RunGC
  PROVE  LoopInv'
<1> USE LoopAssumption, NoneAssumption DEF LoopInv, JS_RunGC, InCode, Collect, timerVars, programVars, handlerVars, signalVars, runVars
<1>1. TypeOK'
  BY CollectTyped DEF TypeOK
<1>2. program' \in Programs /\ Where'
  BY DEF TypeOK, Where, Code, Place
<1>3. pc' # "undefined" => Owned'
  BY CollectOwned DEF Owned, Code
<1>4. ~program.cycles => Straight'
  <2> SUFFICES ASSUME ~program.cycles
               PROVE  Straight'
    OBVIOUS
  <2>1. Garbage = {} /\ Acyclic(captures')
    BY NoGarbage, StillAcyclic DEF Straight, Without
  <2> QED BY <2>1 DEF Straight, TypeOK
<1> QED BY <1>1, <1>2, <1>3, <1>4

LEMMA js_os_setTimeout_Keeps ==
  ASSUME LoopInv, NEW t \in Timer, NEW delay \in 0 .. program.delay, js_os_setTimeout(t, delay)
  PROVE  LoopInv'
<1> USE LoopAssumption, NoneAssumption DEF LoopInv, js_os_setTimeout, InCode, Fresh, list_add_tail, timerVars, programVars, handlerVars, signalVars, runVars
<1>1. TypeOK'
  <2>1. t \notin Linked
    BY DEF Owned, Code
  <2>2. timers' \in Seq(Timer) /\ IsInjective(timers')
    BY <2>1, ListAdd DEF TypeOK, Linked
  <2>3. delay \in 0 .. MaxDelay
    OBVIOUS
  <2>4. left' \in [Timer -> 0 .. MaxDelay] /\ func' \in [Timer -> {"undefined", "function", "freed"}]
    BY <2>3 DEF TypeOK
  <2>5. /\ alloc' \subseteq Timer /\ object' \subseteq Timer /\ root' \subseteq object'
        /\ captures' \subseteq Timer \X object'
    BY DEF TypeOK
  <2> QED BY <2>2, <2>4, <2>5 DEF TypeOK
<1>2. program' \in Programs /\ Where'
  BY DEF TypeOK, Where, Code, Place
<1>3. pc' # "undefined" => Owned'
  <2> SUFFICES ASSUME pc # "undefined"
               PROVE  Owned'
    OBVIOUS
  <2>1. t \notin Linked
    BY DEF Owned
  <2>2. Linked' = Linked \cup {t}
    BY <2>1, ListAdd DEF TypeOK, Linked
  <2>3. alloc' = Linked' \cup object' /\ (pc' = "end" => object' = {})
    BY <2>2 DEF Owned, Code
  <2>4. running # <<"timer", t>>
    BY DEF Closure
  <2>5. ASSUME NEW p \in captures
        PROVE  Closure(p[1])'
    BY DEF Closure, Owned, TypeOK
  <2> QED BY <2>2, <2>3, <2>4, <2>5 DEF Owned, TypeOK
<1>4. ~program.cycles => Straight'
  BY DEF Straight, Acyclic, TypeOK, Code
<1> QED BY <1>1, <1>2, <1>3, <1>4

LEMMA js_os_clearTimeout_Keeps ==
  ASSUME LoopInv, NEW t \in Timer, js_os_clearTimeout(t)
  PROVE  LoopInv'
<1> USE LoopAssumption, NoneAssumption DEF LoopInv, js_os_clearTimeout, InCode, timerVars, programVars, handlerVars, signalVars, runVars
<1>1. TypeOK'
  BY TimerLeaves DEF TypeOK
<1>2. program' \in Programs /\ Where'
  BY DEF TypeOK, Where, Code, Place
<1>3. pc' # "undefined" => Owned'
  <2>1. Linked' = Linked \ {t} /\ t \in object
    BY TimerLeaves DEF TypeOK
  <2>2. pc # "undefined" => alloc' = Linked' \cup object'
    BY <2>1 DEF Owned
  <2> QED BY <2>1, <2>2 DEF Owned, Closure
<1>4. ~program.cycles => Straight'
  BY DEF Straight, Acyclic, TypeOK, Code
<1> QED BY <1>1, <1>2, <1>3, <1>4

LEMMA Capture_Keeps ==
  ASSUME LoopInv, NEW a \in Timer, NEW b \in Timer, Capture(a, b)
  PROVE  LoopInv'
<1> USE LoopAssumption, NoneAssumption DEF LoopInv, Capture, InCode, timerVars, programVars, handlerVars, signalVars, runVars
<1>1. TypeOK'
  BY DEF TypeOK, Place, Code
<1>2. program' \in Programs /\ Where'
  BY DEF TypeOK, Where, Code, Place
<1>3. pc' # "undefined" => Owned'
  BY DEF Owned, TypeOK, Linked, Closure, Code, Place
<1>4. ~program.cycles => Straight'
  BY DEF Straight, Acyclic, TypeOK, Code
<1> QED BY <1>1, <1>2, <1>3, <1>4

LEMMA Look_Keeps ==
  ASSUME LoopInv, NEW a \in Timer, NEW b \in Timer, Look(a, b)
  PROVE  LoopInv'
<1> USE LoopAssumption, NoneAssumption DEF LoopInv, Look, InCode, timerVars, programVars, handlerVars, signalVars, runVars
<1>1. TypeOK'
  BY DEF TypeOK, Place, Code
<1>2. program' \in Programs /\ Where'
  BY DEF TypeOK, Where, Code, Place
<1>3. pc' # "undefined" => Owned'
  BY DEF Owned, TypeOK, Linked, Closure, Code, Place
<1>4. ~program.cycles => Straight'
  BY DEF Straight, Acyclic, TypeOK, Code
<1> QED BY <1>1, <1>2, <1>3, <1>4

LEMMA Forget_Keeps ==
  ASSUME LoopInv, NEW b \in Timer, Forget(b)
  PROVE  LoopInv'
<1> USE LoopAssumption, NoneAssumption DEF LoopInv, Forget, InCode, timerVars, programVars, handlerVars, signalVars, runVars
<1>1. TypeOK'
  BY DEF TypeOK, Place, Code
<1>2. program' \in Programs /\ Where'
  BY DEF TypeOK, Where, Code, Place
<1>3. pc' # "undefined" => Owned'
  BY DEF Owned, TypeOK, Linked, Closure, Code, Place
<1>4. ~program.cycles => Straight'
  BY DEF Straight, Acyclic, TypeOK, Code
<1> QED BY <1>1, <1>2, <1>3, <1>4

LEMMA SetHandler_Keeps ==
  ASSUME LoopInv, NEW kind \in Kind, NEW fd \in Fd, SetHandler(kind, fd)
  PROVE  LoopInv'
<1> USE LoopAssumption, NoneAssumption DEF LoopInv, SetHandler, InCode, find_rh, FreePlace, timerVars, programVars, handlerVars, signalVars, runVars
<1>1. TypeOK'
  <2>1. rw' \in Seq(Fd) /\ IsInjective(rw')
    BY ListAdd DEF TypeOK
  <2>2. rw_func' \in [Fd -> SUBSET Kind]
    BY DEF TypeOK
  <2>3. kept' \in BOOLEAN /\ refs' \in 0 .. 2 /\ running' = running
    BY Freed
  <2> QED BY <2>1, <2>2, <2>3 DEF TypeOK
<1>2. program' \in Programs /\ Where'
  BY DEF TypeOK, Where, Code, Place
<1>3. pc' # "undefined" => Owned'
  BY DEF Owned, TypeOK, Linked, Closure, Code, Place
<1>4. ~program.cycles => Straight'
  BY DEF Straight, Acyclic, TypeOK, Code
<1> QED BY <1>1, <1>2, <1>3, <1>4

LEMMA UnsetHandler_Keeps ==
  ASSUME LoopInv, NEW kind \in Kind, NEW fd \in Fd, UnsetHandler(kind, fd)
  PROVE  LoopInv'
<1> USE LoopAssumption, NoneAssumption DEF LoopInv, UnsetHandler, InCode, LastHandlerGone, FreePlace, timerVars, programVars, handlerVars, signalVars, runVars
<1>1. TypeOK'
  <2>1. rw' \in Seq(Fd) /\ IsInjective(rw')
    BY ListDel DEF TypeOK
  <2>2. rw_func' \in [Fd -> SUBSET Kind]
    BY DEF TypeOK
  <2>3. kept' \in BOOLEAN /\ refs' \in 0 .. 2 /\ running' = running
    BY Freed
  <2> QED BY <2>1, <2>2, <2>3 DEF TypeOK
<1>2. program' \in Programs /\ Where'
  BY DEF TypeOK, Where, Code, Place
<1>3. pc' # "undefined" => Owned'
  BY DEF Owned, TypeOK, Linked, Closure, Code, Place
<1>4. ~program.cycles => Straight'
  BY DEF Straight, Acyclic, TypeOK, Code
<1> QED BY <1>1, <1>2, <1>3, <1>4

LEMMA js_os_signal_Keeps ==
  ASSUME LoopInv, NEW s \in program.signals, NEW on \in BOOLEAN, js_os_signal(s, on)
  PROVE  LoopInv'
<1> USE LoopAssumption, NoneAssumption DEF LoopInv, js_os_signal, InCode, FreePlace, timerVars, programVars, handlerVars, signalVars, runVars
<1>1. TypeOK'
  <2>1. sh' \subseteq Signal
    BY DEF TypeOK
  <2>2. kept' \in BOOLEAN /\ refs' \in 0 .. 2 /\ running' = running
    BY Freed
  <2> QED BY <2>1, <2>2 DEF TypeOK
<1>2. program' \in Programs /\ Where'
  BY DEF TypeOK, Where, Code, Place
<1>3. pc' # "undefined" => Owned'
  BY DEF Owned, TypeOK, Linked, Closure, Code, Place
<1>4. ~program.cycles => Straight'
  BY DEF Straight, Acyclic, TypeOK, Code
<1> QED BY <1>1, <1>2, <1>3, <1>4

LEMMA JS_EnqueueJob_Keeps ==
  ASSUME LoopInv, JS_EnqueueJob
  PROVE  LoopInv'
<1> USE LoopAssumption, NoneAssumption DEF LoopInv, JS_EnqueueJob, InCode, timerVars, programVars, handlerVars, signalVars, runVars
<1>1. TypeOK'
  BY DEF TypeOK, Place, Code
<1>2. program' \in Programs /\ Where'
  BY DEF TypeOK, Where, Code, Place
<1>3. pc' # "undefined" => Owned'
  BY DEF Owned, TypeOK, Linked, Closure, Code, Place
<1>4. ~program.cycles => Straight'
  BY DEF Straight, Acyclic, TypeOK, Code
<1> QED BY <1>1, <1>2, <1>3, <1>4

LEMMA Return_Keeps ==
  ASSUME LoopInv, Return
  PROVE  LoopInv'
<1> USE LoopAssumption, NoneAssumption DEF LoopInv, Return, InCode, EndCode, Without, timerVars, programVars, handlerVars, signalVars, runVars
<1>1. TypeOK'
  <2>1. captures' \subseteq Timer \X object
    BY DEF TypeOK
  <2>2. kept' \in BOOLEAN
    BY Zenon
  <2>3. running' \in Place \cup {None} /\ refs' \in 0 .. 2
    OBVIOUS
  <2> QED BY <2>1, <2>2, <2>3 DEF TypeOK, Code
<1>2. program' \in Programs /\ Where'
  BY DEF TypeOK, Where, Code, Place
<1>3. pc' # "undefined" => Owned'
  BY DEF Owned, TypeOK, Linked, Closure, Code, Place
<1>4. ~program.cycles => Straight'
  BY DEF Straight, Acyclic, TypeOK, Code
<1> QED BY <1>1, <1>2, <1>3, <1>4

LEMMA JobThrows_Keeps ==
  ASSUME LoopInv, JobThrows
  PROVE  LoopInv'
<1> USE LoopAssumption, NoneAssumption DEF LoopInv, JobThrows, InCode, EndCode, Without, timerVars, programVars, handlerVars, signalVars, runVars
<1>1. TypeOK'
  <2>1. captures' \subseteq Timer \X object
    BY DEF TypeOK
  <2>2. kept' \in BOOLEAN
    BY Zenon
  <2>3. running' \in Place \cup {None} /\ refs' \in 0 .. 2
    OBVIOUS
  <2> QED BY <2>1, <2>2, <2>3 DEF TypeOK, Code
<1>2. program' \in Programs /\ Where'
  BY DEF TypeOK, Where, Code, Place
<1>3. pc' # "undefined" => Owned'
  BY DEF Owned, TypeOK, Linked, Closure, Code, Place
<1>4. ~program.cycles => Straight'
  BY DEF Straight, Acyclic, TypeOK, Code
<1> QED BY <1>1, <1>2, <1>3, <1>4

LEMMA Tick_Keeps ==
  ASSUME LoopInv, Tick
  PROVE  LoopInv'
<1> USE LoopAssumption, NoneAssumption DEF LoopInv, Tick, timerVars, programVars, handlerVars, signalVars, runVars
<1>1. TypeOK'
  <2>1. left' \in [Timer -> 0 .. MaxDelay]
    BY DEF TypeOK
  <2>2. wait' \in Forever .. MaxWait
    BY DEF TypeOK, Forever
  <2> QED BY <2>1, <2>2 DEF TypeOK
<1>2. program' \in Programs /\ Where'
  BY DEF TypeOK, Where, Code, Place
<1>3. pc' # "undefined" => Owned'
  BY DEF Owned, TypeOK, Linked, Closure, Code, Place
<1>4. ~program.cycles => Straight'
  BY DEF Straight, Acyclic, TypeOK, Code
<1> QED BY <1>1, <1>2, <1>3, <1>4

LEMMA os_signal_handler_Keeps ==
  ASSUME LoopInv, NEW s \in Signal, os_signal_handler(s)
  PROVE  LoopInv'
<1> USE LoopAssumption, NoneAssumption DEF LoopInv, os_signal_handler, timerVars, programVars, handlerVars, signalVars, runVars
<1>1. TypeOK'
  <2>1. pending' \subseteq Signal /\ raised' \in 0 .. MaxSignals
    BY DEF TypeOK
  <2>2. wait' \in Forever .. MaxWait
    BY DEF TypeOK, Forever
  <2> QED BY <2>1, <2>2 DEF TypeOK
<1>2. program' \in Programs /\ Where'
  BY DEF TypeOK, Where, Code, Place
<1>3. pc' # "undefined" => Owned'
  BY DEF Owned, TypeOK, Linked, Closure, Code, Place
<1>4. ~program.cycles => Straight'
  BY DEF Straight, Acyclic, TypeOK, Code
<1> QED BY <1>1, <1>2, <1>3, <1>4

LEMMA JS_ExecutePendingJob_Keeps ==
  ASSUME LoopInv, JS_ExecutePendingJob
  PROVE  LoopInv'
<1> USE LoopAssumption, NoneAssumption DEF LoopInv, JS_ExecutePendingJob, timerVars, programVars, handlerVars, signalVars, runVars
<1>1. TypeOK'
  BY DEF TypeOK, Place, Code
<1>2. program' \in Programs /\ Where'
  BY DEF TypeOK, Where, Code, Place
<1>3. pc' # "undefined" => Owned'
  BY DEF Owned, TypeOK, Linked, Closure, Code, Place
<1>4. ~program.cycles => Straight'
  BY DEF Straight, Acyclic, TypeOK, Code
<1> QED BY <1>1, <1>2, <1>3, <1>4

LEMMA js_std_loop_Keeps ==
  ASSUME LoopInv, js_std_loop
  PROVE  LoopInv'
<1> USE LoopAssumption, NoneAssumption DEF LoopInv, js_std_loop, no_job_left, timerVars, programVars, handlerVars, signalVars, runVars
<1>1. TypeOK'
  BY DEF TypeOK, Place, Code
<1>2. program' \in Programs /\ Where'
  BY DEF TypeOK, Where, Code, Place
<1>3. pc' # "undefined" => Owned'
  BY DEF Owned, TypeOK, Linked, Closure, Code, Place
<1>4. ~program.cycles => Straight'
  BY DEF Straight, Acyclic, TypeOK, Code
<1> QED BY <1>1, <1>2, <1>3, <1>4

LEMMA poll_signal_Keeps ==
  ASSUME LoopInv, NEW s \in Signal, poll_signal(s)
  PROVE  LoopInv'
<1> USE LoopAssumption, NoneAssumption DEF LoopInv, poll_signal, Deliverable, call_handler, call_handler_dup, timerVars, programVars, handlerVars, signalVars, runVars
<1>1. TypeOK'
  BY DEF TypeOK, Place, Code
<1>2. program' \in Programs /\ Where'
  BY DEF TypeOK, Where, Code, Place
<1>3. pc' # "undefined" => Owned'
  <2>1. \A a \in Timer : running' # <<"timer", a>> /\ running # <<"timer", a>>
    BY DEF Where, Place
  <2>2. \A p \in captures : p[1] \in Timer
    BY DEF TypeOK
  <2> QED BY <2>1, <2>2 DEF Owned, Closure, Linked
<1>4. ~program.cycles => Straight'
  BY DEF Straight, Acyclic, TypeOK, Code
<1> QED BY <1>1, <1>2, <1>3, <1>4

LEMMA poll_Keeps ==
  ASSUME LoopInv, poll
  PROVE  LoopInv'
<1> USE LoopAssumption, NoneAssumption DEF LoopInv, poll, timerVars, programVars, handlerVars, signalVars, runVars
<1>1. TypeOK'
  BY DEF TypeOK, Place, Code
<1>2. program' \in Programs /\ Where'
  BY DEF TypeOK, Where, Code, Place
<1>3. pc' # "undefined" => Owned'
  BY DEF Owned, TypeOK, Linked, Closure, Code, Place
<1>4. ~program.cycles => Straight'
  BY DEF Straight, Acyclic, TypeOK, Code
<1> QED BY <1>1, <1>2, <1>3, <1>4

LEMMA poll_timer_Keeps ==
  ASSUME LoopInv, NEW t \in Timer, poll_timer(t)
  PROVE  LoopInv'
<1> USE LoopAssumption, NoneAssumption DEF LoopInv, poll_timer, First, Expired, call_handler, call_handler_dup, timerVars, programVars, handlerVars, signalVars, runVars
<1>1. TypeOK'
  <2>1. timers' \in Seq(Timer) /\ IsInjective(timers')
    BY TimerLeaves
  <2>2. alloc' \subseteq Timer /\ func' \in [Timer -> {"undefined", "function", "freed"}]
    BY DEF TypeOK
  <2>3. /\ running' \in Place \cup {None} /\ kept' \in BOOLEAN /\ refs' \in 0 .. 2
        /\ pc' \in {"handler", "undefined"}
    <3>1. CASE func[t] = "function"
      BY <3>1, Called DEF Place
    <3>2. CASE func[t] # "function"
      BY <3>2 DEF TypeOK
    <3> QED BY <3>1, <3>2
  <2> QED BY <2>1, <2>2, <2>3 DEF TypeOK, Code
<1>2. program' \in Programs /\ Where'
  BY DEF TypeOK, Where, Code, Place
<1>3. pc' # "undefined" => Owned'
  <2> SUFFICES ASSUME pc' # "undefined"
               PROVE  Owned'
    OBVIOUS
  <2>1. Linked' = Linked \ {t}
    BY TimerLeaves
  <2>2. alloc' = Linked' \cup object'
    BY <2>1 DEF Owned
  <2>3. running = None /\ func[t] = "function" /\ running' = <<"timer", t>>
    BY DEF Where
  <2>4. t \in alloc
    BY <2>3 DEF Owned
  <2>5. ASSUME NEW p \in captures
        PROVE  Closure(p[1])'
    BY <2>3 DEF Closure, Owned, TypeOK, Place
  <2>6. \A u \in Timer : u # t => func'[u] = func[u]
    BY DEF TypeOK
  <2>7. func'[t] = "undefined"
    BY DEF TypeOK
  <2> QED BY <2>1, <2>2, <2>3, <2>4, <2>5, <2>6, <2>7 DEF Owned, TypeOK
<1>4. ~program.cycles => Straight'
  <2> SUFFICES ASSUME ~program.cycles
               PROVE  Straight'
    OBVIOUS
  <2>1. func[t] = "function"
    BY DEF Owned, Straight, TypeOK
  <2> QED BY <2>1 DEF Straight, TypeOK
<1> QED BY <1>1, <1>2, <1>3, <1>4

LEMMA poll_wait_Keeps ==
  ASSUME LoopInv, poll_wait
  PROVE  LoopInv'
<1> USE LoopAssumption, NoneAssumption DEF LoopInv, poll_wait, timerVars, programVars, handlerVars, signalVars, runVars
<1>1. TypeOK'
  <2>1. Linked \subseteq Timer
    BY ListIn DEF TypeOK, Linked
  <2>2. Delay \in 0 .. MaxWait
    <3> DEFINE S == {MaxWait} \cup {left[t] : t \in Linked}
    <3>1. S \subseteq Nat
      BY <2>1 DEF TypeOK
    <3>2. Min(S) \in S /\ Min(S) <= MaxWait
      BY <3>1, Smallest
    <3> QED BY <3>1, <3>2 DEF Delay
  <2>3. wait' \in Forever .. MaxWait
    BY <2>2 DEF Forever
  <2> QED BY <2>3 DEF TypeOK
<1>2. program' \in Programs /\ Where'
  BY DEF TypeOK, Where, Code, Place
<1>3. pc' # "undefined" => Owned'
  BY DEF Owned, TypeOK, Linked, Closure, Code, Place
<1>4. ~program.cycles => Straight'
  BY DEF Straight, Acyclic, TypeOK, Code
<1> QED BY <1>1, <1>2, <1>3, <1>4

LEMMA poll_timeout_Keeps ==
  ASSUME LoopInv, poll_timeout
  PROVE  LoopInv'
<1> USE LoopAssumption, NoneAssumption DEF LoopInv, poll_timeout, timerVars, programVars, handlerVars, signalVars, runVars
<1>1. TypeOK'
  BY DEF TypeOK, Place, Code
<1>2. program' \in Programs /\ Where'
  BY DEF TypeOK, Where, Code, Place
<1>3. pc' # "undefined" => Owned'
  BY DEF Owned, TypeOK, Linked, Closure, Code, Place
<1>4. ~program.cycles => Straight'
  BY DEF Straight, Acyclic, TypeOK, Code
<1> QED BY <1>1, <1>2, <1>3, <1>4

LEMMA poll_console_Keeps ==
  ASSUME LoopInv, poll_console
  PROVE  LoopInv'
<1> USE LoopAssumption, NoneAssumption DEF LoopInv, poll_console, call_handler, call_handler_dup, timerVars, programVars, handlerVars, signalVars, runVars
<1>1. TypeOK'
  <2>1. running' \in Place
    BY DEF Place, Kind
  <2>2. kept' \in BOOLEAN /\ refs' \in 0 .. 2 /\ wait' \in Forever .. MaxWait
    BY DEF Forever
  <2> QED BY <2>1, <2>2 DEF TypeOK, Code
<1>2. program' \in Programs /\ Where'
  BY DEF TypeOK, Where, Code, Place
<1>3. pc' # "undefined" => Owned'
  <2>1. \A a \in Timer : running' # <<"timer", a>> /\ running # <<"timer", a>>
    BY DEF Where, Place
  <2>2. \A p \in captures : p[1] \in Timer
    BY DEF TypeOK
  <2> QED BY <2>1, <2>2 DEF Owned, Closure, Linked
<1>4. ~program.cycles => Straight'
  BY DEF Straight, Acyclic, TypeOK, Code
<1> QED BY <1>1, <1>2, <1>3, <1>4

LEMMA poll_select_Keeps ==
  ASSUME LoopInv, NEW ready \in SUBSET Watched, poll_select(ready)
  PROVE  LoopInv'
<1> USE LoopAssumption, NoneAssumption DEF LoopInv, poll_select, Watched, Chosen, call_handler, call_handler_dup, timerVars, programVars, handlerVars, signalVars, runVars
<1>1. TypeOK'
  <2>1. running' \in Place
    BY ListIn DEF Place, Kind, TypeOK
  <2>2. kept' \in BOOLEAN /\ refs' \in 0 .. 2 /\ wait' \in Forever .. MaxWait
    BY DEF Forever
  <2> QED BY <2>1, <2>2 DEF TypeOK, Code
<1>2. program' \in Programs /\ Where'
  BY DEF TypeOK, Where, Code, Place
<1>3. pc' # "undefined" => Owned'
  <2>1. \A a \in Timer : running' # <<"timer", a>> /\ running # <<"timer", a>>
    BY DEF Where, Place
  <2>2. \A p \in captures : p[1] \in Timer
    BY DEF TypeOK
  <2> QED BY <2>1, <2>2 DEF Owned, Closure, Linked
<1>4. ~program.cycles => Straight'
  BY DEF Straight, Acyclic, TypeOK, Code
<1> QED BY <1>1, <1>2, <1>3, <1>4

LEMMA js_std_free_handlers_Keeps ==
  ASSUME LoopInv, js_std_free_handlers
  PROVE  LoopInv'
<1> USE LoopAssumption, NoneAssumption DEF LoopInv, js_std_free_handlers, Without, timerVars, programVars, handlerVars, signalVars, runVars
<1>1. TypeOK'
  <2>1. /\ timers' \in Seq(Timer) /\ IsInjective(timers')
        /\ rw' \in Seq(Fd) /\ IsInjective(rw')
    BY ListEmpty
  <2>2. alloc' \subseteq Timer /\ func' \in [Timer -> {"undefined", "function", "freed"}]
    BY DEF TypeOK
  <2>3. captures' \subseteq Timer \X object /\ rw_func' \in [Fd -> SUBSET Kind] /\ sh' \subseteq Signal
    BY DEF TypeOK
  <2> QED BY <2>1, <2>2, <2>3 DEF TypeOK
<1>2. program' \in Programs /\ Where'
  BY DEF TypeOK, Where, Code, Place
<1>3. pc' # "undefined" => Owned'
  <2> SUFFICES ASSUME pc' # "undefined"
               PROVE  Owned'
    OBVIOUS
  <2>1. Linked' = {}
    BY ListEmpty DEF Linked
  <2>2. alloc' = Linked' \cup object'
    BY <2>1 DEF Owned
  <2>3. running = None
    BY DEF Where
  <2>4. ASSUME NEW t \in Timer
        PROVE  /\ func'[t] # "undefined" => t \in alloc'
               /\ func'[t] = "freed" => t \notin object'
               /\ running' = <<"timer", t>> => func'[t] = "undefined"
    BY <2>3 DEF Owned, Place
  <2>5. ASSUME NEW p \in captures'
        PROVE  Closure(p[1])'
    <3>1. p \in captures /\ p[1] \in Timer /\ p[1] \notin Linked \ object
      BY DEF TypeOK
    <3>2. func[p[1]] = "function"
      BY <3>1, <2>3 DEF Owned, Closure, Place
    <3> QED BY <3>1, <3>2 DEF Closure
  <2> QED BY <2>1, <2>2, <2>4, <2>5 DEF Owned
<1>4. ~program.cycles => Straight'
  <2> SUFFICES ASSUME ~program.cycles
               PROVE  Straight'
    OBVIOUS
  <2>1. Linked \subseteq Timer
    BY ListIn DEF TypeOK, Linked
  <2>2. pc' = "freed"
    BY <2>1 DEF Straight
  <2>3. Acyclic(captures')
    BY StillAcyclic DEF Straight
  <2> QED BY <2>2, <2>3 DEF Straight, TypeOK
<1> QED BY <1>1, <1>2, <1>3, <1>4

LEMMA JS_FreeContext_Keeps ==
  ASSUME LoopInv, JS_FreeContext
  PROVE  LoopInv'
<1> USE LoopAssumption, NoneAssumption DEF LoopInv, JS_FreeContext, timerVars, programVars, handlerVars, signalVars, runVars
<1>1. TypeOK'
  BY DEF TypeOK, Place, Code
<1>2. program' \in Programs /\ Where'
  BY DEF TypeOK, Where, Code, Place
<1>3. pc' # "undefined" => Owned'
  BY DEF Owned, TypeOK, Linked, Closure, Code, Place
<1>4. ~program.cycles => Straight'
  BY DEF Straight, Acyclic, TypeOK, Code
<1> QED BY <1>1, <1>2, <1>3, <1>4

LEMMA JS_FreeRuntime_Keeps ==
  ASSUME LoopInv, JS_FreeRuntime
  PROVE  LoopInv'
<1> USE LoopAssumption, NoneAssumption DEF LoopInv, JS_FreeRuntime, Collect, timerVars, programVars, handlerVars, signalVars, runVars
<1>1. TypeOK'
  BY CollectTyped DEF TypeOK
<1>2. program' \in Programs /\ Where'
  BY DEF TypeOK, Where, Code, Place
<1>3. pc' # "undefined" => Owned'
  <2>1. \A a, b \in Timer : <<a, b>> \in captures => a \in object /\ func[a] = "function"
    <3> TAKE a, b \in Timer
    <3> HAVE <<a, b>> \in captures
    <3>1. Closure(a) /\ running = None
      BY DEF Owned, Where
    <3>2. func[a] = "function"
      BY <3>1 DEF Closure, Place
    <3>3. Linked = {}
      BY ListEmpty DEF Where, Linked
    <3> QED BY <3>2, <3>3 DEF Owned
  <2>2. Unreachable(object)
    BY <2>1 DEF Unreachable, TypeOK, Where
  <2>3. object' = {}
    BY <2>2 DEF Garbage
  <2> QED BY <2>3, CollectOwned DEF Owned
<1>4. ~program.cycles => Straight'
  <2> SUFFICES ASSUME ~program.cycles
               PROVE  Straight'
    OBVIOUS
  <2>1. Garbage = {} /\ Acyclic(captures')
    BY NoGarbage, StillAcyclic DEF Straight, Without
  <2> QED BY <2>1 DEF Straight, TypeOK
<1> QED BY <1>1, <1>2, <1>3, <1>4

-----------------------------------------------------------------------------
(* The invariant holds at first and every step keeps it.                   *)
LEMMA LoopStart == Init => LoopInv
<1> SUFFICES ASSUME Init
             PROVE  LoopInv
  OBVIOUS
<1> USE LoopAssumption, NoneAssumption DEF Init
<1>1. Linked = {} /\ IsInjective(timers) /\ IsInjective(rw) /\ timers \in Seq(Timer) /\ rw \in Seq(Fd)
  BY ListEmpty DEF Linked
<1>2. kept \in BOOLEAN
  BY Zenon
<1>3. TypeOK
  BY <1>1, <1>2 DEF TypeOK, Code, Forever
<1>4. Owned
  BY <1>1 DEF Owned, Place
<1>5. Where /\ Straight
  BY DEF Where, Straight, Acyclic
<1> QED BY <1>3, <1>4, <1>5 DEF LoopInv

LEMMA LoopStep == LoopInv /\ [Next]_vars => LoopInv'
<1> SUFFICES ASSUME LoopInv, [Next]_vars
             PROVE  LoopInv'
  OBVIOUS
<1>1. ASSUME Program
      PROVE  LoopInv'
  <2> USE <1>1 DEF Program
  <2>1. ASSUME NEW t \in Timer,
               js_os_clearTimeout(t) \/ Forget(t)
                 \/ \E delay \in 0 .. program.delay : js_os_setTimeout(t, delay)
        PROVE  LoopInv'
    BY <2>1, js_os_clearTimeout_Keeps, Forget_Keeps, js_os_setTimeout_Keeps
  <2>2. ASSUME NEW a \in Timer, NEW b \in Timer, Capture(a, b) \/ Look(a, b)
        PROVE  LoopInv'
    BY <2>2, Capture_Keeps, Look_Keeps
  <2>3. ASSUME NEW kind \in Kind, NEW fd \in Fd, SetHandler(kind, fd) \/ UnsetHandler(kind, fd)
        PROVE  LoopInv'
    BY <2>3, SetHandler_Keeps, UnsetHandler_Keeps
  <2>4. ASSUME NEW s \in program.signals, NEW on \in BOOLEAN, js_os_signal(s, on)
        PROVE  LoopInv'
    BY <2>4, js_os_signal_Keeps
  <2> QED BY <2>1, <2>2, <2>3, <2>4, JS_EnqueueJob_Keeps
<1>2. ASSUME Return \/ JobThrows \/ JS_RunGC \/ Finalizer
      PROVE  LoopInv'
  BY <1>2, Return_Keeps, JobThrows_Keeps, JS_RunGC_Keeps, js_os_timer_finalizer_Keeps DEF Finalizer
<1>3. ASSUME Tick \/ (\E s \in Signal : os_signal_handler(s))
      PROVE  LoopInv'
  BY <1>3, Tick_Keeps, os_signal_handler_Keeps
<1>4. ASSUME Poll
      PROVE  LoopInv'
  BY <1>4, JS_ExecutePendingJob_Keeps, js_std_loop_Keeps, poll_Keeps, poll_wait_Keeps,
     poll_timeout_Keeps, poll_signal_Keeps, poll_timer_Keeps DEF Poll
<1>5. ASSUME Input
      PROVE  LoopInv'
  BY <1>5, poll_console_Keeps, poll_select_Keeps DEF Input
<1>6. ASSUME Teardown
      PROVE  LoopInv'
  BY <1>6, js_std_free_handlers_Keeps, JS_FreeContext_Keeps, JS_FreeRuntime_Keeps DEF Teardown
<1>7. ASSUME Finished \/ UNCHANGED vars
      PROVE  LoopInv'
  <2> USE <1>7 DEF Finished, vars, timerVars, programVars, handlerVars, signalVars, runVars
  <2>1. TypeOK' /\ program' \in Programs /\ Where'
    BY DEF LoopInv, TypeOK, Where
  <2>2. pc' # "undefined" => Owned'
    BY DEF LoopInv, Owned, Linked, Closure
  <2>3. ~program.cycles => Straight'
    BY DEF LoopInv, Straight, Acyclic
  <2> QED BY <2>1, <2>2, <2>3 DEF LoopInv
<1> QED BY <1>1, <1>2, <1>3, <1>4, <1>5, <1>6, <1>7 DEF Next

-----------------------------------------------------------------------------
(* The variables have their types, the lists have no duplicates and the    *)
(* counters stay within their bounds.                                      *)
THEOREM LoopTyped == Spec => []TypeOK
<1>1. LoopInv => TypeOK
  BY DEF LoopInv
<1> QED BY <1>1, LoopStart, LoopStep, PTL DEF Spec

(* A JSOSTimer exists exactly as long as the list or its object refers to  *)
(* it, in whatever order clearTimeout, finalizers, collections, expiry and *)
(* the end of the program come; and in a program whose closures do not     *)
(* refer to themselves the function of a handler is alive while it runs,   *)
(* also when it removes its own handler.                                   *)
THEOREM TimersAlive == Spec => []TimersSound
<1>1. LoopInv => TimerStructs
  BY ListEmpty DEF LoopInv, Where, Owned, Linked, TimerStructs
<1>2. LoopInv => AcyclicHandlerAlive
  BY DEF LoopInv, Where, Straight, AcyclicHandlerAlive, HandlerAlive
<1> QED BY <1>1, <1>2, LoopStart, LoopStep, PTL DEF Spec, TimersSound

(* The loop calls no handler, waits for none and does not end while jobs   *)
(* are pending, unless a job throws.                                       *)
THEOREM JobsBeforeHandlers == Spec => []JobsFirst
<1>1. LoopInv => JobsFirst
  BY DEF LoopInv, Where, JobsFirst
<1> QED BY <1>1, LoopStart, LoopStep, PTL DEF Spec
=============================================================================
