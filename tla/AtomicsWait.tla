---------------------------- MODULE AtomicsWait -----------------------------
(* Atomics.wait and Atomics.notify between threads that share a buffer     *)
(* (quickjs.c 50111-50316): one mutex and one list of waiters for all of   *)
(* them, each on the stack of its thread. Stores do not take the mutex.    *)
(* Compiled only with CONFIG_ATOMICS, which is commented out (97).         *)
EXTENDS Computation, Integers, Sequences, FiniteSets

CONSTANTS WaitPrograms    \* for every thread its operations, one after the other

INT32_MAX == 1000
Nobody == 0
Places == 1 .. 2

Operation ==
  [kind : {"store", "wait", "notify"}, ptr : Places, v : Int, count : 0 .. INT32_MAX,
   timeout : BOOLEAN, spurious : BOOLEAN]

ASSUME WaitAssumption ==
  \A p \in WaitPrograms :
    /\ DOMAIN p = 1 .. Len(p) /\ Len(p) \in Nat /\ Len(p) < INT32_MAX
    /\ \A t \in 1 .. Len(p) : p[t] \in Seq(Operation)

-----------------------------------------------------------------------------
(* A thread is about to begin its next operation (go), has the mutex (in), *)
(* has listed itself (listed), sleeps (asleep), waits for the mutex again  *)
(* (relock), has it (leaving), or signals the waiters it took off the list *)
(* (signals).                                                              *)

threads == IF state.mode = "atomics" THEN 1 .. Len(state.program) ELSE {}
Op(t) == state.program[t][state.at[t]]
Is(t, kind) == /\ state.mode = "atomics" /\ state.pc[t] = "go" /\ state.at[t] <= Len(state.program[t])
               /\ Op(t).kind = kind
InState(t, pc) == state.mode = "atomics" /\ state.pc[t] = pc

Begins(p) ==
  [mode |-> "atomics", program |-> p, at |-> [t \in 1 .. Len(p) |-> 1],
   pc |-> [t \in 1 .. Len(p) |-> "go"], mem |-> [ptr \in Places |-> 0],
   mutex |-> Nobody, js_atomics_waiter_list |-> <<>>, linked |-> [t \in 1 .. Len(p) |-> FALSE],
   signalled |-> [t \in 1 .. Len(p) |-> FALSE], why |-> [t \in 1 .. Len(p) |-> "none"],
   ret |-> [t \in 1 .. Len(p) |-> "none"], el |-> 1, waiter_list |-> <<>>, sent |-> 0]

AtomicsInit == state \in {Begins(p) : p \in WaitPrograms}

Returns(s, t, ret) == [s EXCEPT !.pc[t] = "go", !.at[t] = @ + 1, !.ret[t] = ret]
Unlocked(s) == [s EXCEPT !.mutex = Nobody]

PlaceIn(list, t) == CHOOSE i \in DOMAIN list : list[i] = t
list_del(list, i) == SubSeq(list, 1, i - 1) \o SubSeq(list, i + 1, Len(list))

js_atomics_store(t) ==
  /\ Is(t, "store")
  /\ state' = Returns([state EXCEPT !.mem[Op(t).ptr] = Op(t).v], t, Op(t).v)

-----------------------------------------------------------------------------
(* js_atomics_wait.                                                        *)

TakeMutex(t) ==
  /\ Is(t, "wait") \/ InState(t, "relock")
  /\ state.mutex = Nobody
  /\ state' = [state EXCEPT !.mutex = t, !.pc[t] = IF @ = "relock" THEN "leaving" ELSE "in"]

(* The value is read under the mutex.                                      *)
NotEqual(t) ==
  /\ InState(t, "in") /\ Op(t).kind = "wait"
  /\ state.mem[Op(t).ptr] # Op(t).v
  /\ state' = Returns(Unlocked(state), t, "not-equal")

Enlist(t) ==
  /\ InState(t, "in") /\ Op(t).kind = "wait"
  /\ state.mem[Op(t).ptr] = Op(t).v
  /\ state' = [state EXCEPT !.pc[t] = "listed", !.linked[t] = TRUE, !.signalled[t] = FALSE,
                 !.js_atomics_waiter_list = Append(@, t)]

Sleep(t) ==
  /\ InState(t, "listed")
  /\ state' = [Unlocked(state) EXCEPT !.pc[t] = "asleep"]

(* pthread_cond_wait and pthread_cond_timedwait return: for the signal, at *)
(* the time, or for no reason.                                             *)
Wake(t) ==
  /\ InState(t, "asleep")
  /\ \E why \in {"signal", "ETIMEDOUT", "nothing"} :
       /\ why = "signal" => state.signalled[t]
       /\ why = "ETIMEDOUT" => Op(t).timeout
       /\ why = "nothing" => Op(t).spurious
       /\ state' = [state EXCEPT !.pc[t] = "relock", !.why[t] = why]

(* Slip: a waiter that timed out stays in the list.                        *)
Slip_Leave(t) ==
  /\ InState(t, "leaving")
  /\ state' = Returns(Unlocked(state), t, IF state.why[t] = "ETIMEDOUT" THEN "timed-out" ELSE "ok")

Leave(t) ==
  /\ InState(t, "leaving")
  /\ LET left == [Unlocked(state) EXCEPT !.linked[t] = FALSE,
                    !.js_atomics_waiter_list = IF state.linked[t]
                      THEN list_del(@, PlaceIn(@, t)) ELSE @]
     IN state' = Returns(left, t, IF state.why[t] = "ETIMEDOUT" THEN "timed-out" ELSE "ok")

-----------------------------------------------------------------------------
(* js_atomics_notify. With a count of 0 it does not even take the mutex.   *)

NotifyNobody(t) ==
  /\ Is(t, "notify") /\ Op(t).count = 0
  /\ state' = Returns(state, t, 0)

NotifyBegins(t) ==
  /\ Is(t, "notify") /\ Op(t).count > 0 /\ state.mutex = Nobody
  /\ state' = [state EXCEPT !.mutex = t, !.pc[t] = "in", !.el = 1, !.waiter_list = <<>>, !.sent = 0]

(* One turn of the loop over the list: a waiter for the place is moved to  *)
(* a list of the call, count of them at most; another stays.               *)
InLoop(t) == InState(t, "in") /\ Op(t).kind = "notify"
OnWaiter(t) == InLoop(t) /\ state.el <= Len(state.js_atomics_waiter_list)

NotifyTakes(t) ==
  LET w == state.js_atomics_waiter_list[state.el] IN
  /\ OnWaiter(t) /\ Op(w).ptr = Op(t).ptr
  /\ state' = [state EXCEPT !.js_atomics_waiter_list = list_del(@, state.el), !.linked[w] = FALSE,
                 !.waiter_list = Append(@, w),
                 !.pc[t] = IF Len(state.waiter_list) + 1 >= Op(t).count THEN "signals" ELSE @]

NotifyPasses(t) ==
  /\ OnWaiter(t) /\ Op(state.js_atomics_waiter_list[state.el]).ptr # Op(t).ptr
  /\ state' = [state EXCEPT !.el = @ + 1]

NotifyLooked(t) ==
  /\ InLoop(t) /\ state.el > Len(state.js_atomics_waiter_list)
  /\ state' = [state EXCEPT !.pc[t] = "signals"]

Signal(t) ==
  /\ InState(t, "signals") /\ state.sent < Len(state.waiter_list)
  /\ state' = [state EXCEPT !.sent = @ + 1, !.signalled[state.waiter_list[state.sent + 1]] = TRUE]

NotifyReturns(t) ==
  /\ InState(t, "signals") /\ state.sent = Len(state.waiter_list)
  /\ state' = Returns(Unlocked([state EXCEPT !.waiter_list = <<>>, !.sent = 0]), t, state.sent)

js_atomics_notify(t) ==
  \/ NotifyBegins(t) \/ NotifyTakes(t) \/ NotifyPasses(t) \/ NotifyLooked(t)
  \/ Signal(t) \/ NotifyReturns(t)

AtomicsNext ==
  \/ \E t \in threads : js_atomics_store(t)
  \/ \E t \in threads : TakeMutex(t) \/ NotifyNobody(t)
  \/ \E t \in threads : NotEqual(t) \/ Enlist(t) \/ Sleep(t) \/ Wake(t) \/ Leave(t)
  \/ \E t \in threads : js_atomics_notify(t)

AtomicsSpec == AtomicsInit /\ [][AtomicsNext]_state

-----------------------------------------------------------------------------
Waiting(t) == state.pc[t] \in {"listed", "asleep", "relock", "leaving"}
Holding(t) == state.pc[t] \in {"in", "listed", "leaving", "signals"}

(* An operation that notifies every waiter of a place.                     *)
NotifiesAll(op, ptr) == op.kind = "notify" /\ op.ptr = ptr /\ op.count = INT32_MAX

(* Who is still to notify every waiter of a place.                         *)
WillNotify(ptr) ==
  \E t \in threads : \E i \in state.at[t] .. Len(state.program[t]) :
    NotifiesAll(state.program[t][i], ptr)

(* Every thread that stores then notifies.                                 *)
Announces ==
  \A t \in threads : \A i \in 1 .. Len(state.program[t]) :
    state.program[t][i].kind = "store" =>
      \E j \in i + 1 .. Len(state.program[t]) : NotifiesAll(state.program[t][j], state.program[t][i].ptr)

(* One thread has the mutex at a time; the list holds exactly the threads  *)
(* that wait and that nobody took off it, each once, and none that has     *)
(* returned, whose waiter is gone with its stack.                          *)
ListSound ==
  LET list == state.js_atomics_waiter_list IN
  /\ \A t \in threads : Holding(t) <=> state.mutex = t
  /\ \A t \in threads : state.linked[t] <=> \E i \in DOMAIN list : list[i] = t
  /\ \A i, j \in DOMAIN list : i # j => list[i] # list[j]
  /\ \A t \in threads : state.linked[t] => Waiting(t)

(* A notify never takes more than it was asked for, and whom it is still   *)
(* to signal has not returned; who wakes for a signal was counted by one.  *)
SignalsSound ==
  /\ \A i \in DOMAIN state.waiter_list :
       /\ i <= Op(state.mutex).count
       /\ i > state.sent => Waiting(state.waiter_list[i])
       /\ Op(state.waiter_list[i]).ptr = Op(state.mutex).ptr
  /\ \A t \in threads : Waiting(t) /\ state.signalled[t] => ~state.linked[t]
  /\ \A t \in threads : InState(t, "leaving") /\ state.why[t] = "signal" => ~state.linked[t]

(* When all threads announce what they store, a thread that sleeps         *)
(* although the value it slept on has changed was signalled or is still to *)
(* be notified.                                                            *)
NoneForgotten ==
  Announces => \A t \in threads :
    InState(t, "asleep") /\ state.mem[Op(t).ptr] # Op(t).v => state.signalled[t] \/ WillNotify(Op(t).ptr)

(* INVARIANT: the list of waiters, the signals and the values agree, and   *)
(* no one sleeps for good although what it waits for has happened.         *)
WaitersFound == state.mode = "atomics" => ListSound /\ SignalsSound /\ NoneForgotten
=============================================================================
