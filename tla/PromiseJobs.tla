----------------------------- MODULE PromiseJobs -----------------------------
(***************************************************************************)
(* Promises, resolving functions, async functions and the job queue of a   *)
(* JSRuntime (quickjs.c).                                                  *)
(*                                                                         *)
(* A promise can be settled through the pairs of resolving functions made  *)
(* for it: one when it is created, one more each time a thenable job runs  *)
(* for it.  The two functions of a pair share the flag already_resolved.   *)
(* The C stack is a sequence of frames.  A frame either runs program code, *)
(* which may do anything the language offers before it ends, or is C code  *)
(* about to call a resolving function or to continue an await.  A job      *)
(* starts only on an empty stack; program code that a getter runs in the   *)
(* middle of a resolution sees everything halfway.                         *)
(*                                                                         *)
(* Promises are of the intrinsic class: "constructor", "then" and the      *)
(* species of a promise are not overridden.  Every other object is Object, *)
(* whose property "then" is looked up by program code.                     *)
(***************************************************************************)
EXTENDS Integers, Sequences, FiniteSets

CONSTANTS
  None,          \* JS_UNDEFINED for a handler, a capability or a result
  User,          \* a handler written in the program
  Prim,          \* a value that is not an object
  Object,        \* an object that is not a promise
  Error,         \* what a throw gives
  MaxPromises,   \* bound on the promises created
  MaxPairs,      \* bound on the pairs of resolving functions of a promise
  MaxDepth,      \* bound on the frames of program code on the stack
  MayFail        \* an allocation can fail

VARIABLES
  state,      \* promise_state, "none" before the promise is created
  result,     \* promise_result
  reactions,  \* promise_reactions: both lists, whose entries come in pairs
  made,       \* how many pairs of resolving functions the promise has had
  used,       \* the pairs whose already_resolved is set
  given,      \* the pairs the program has been given
  async,      \* what the async function that returned the promise is doing
  jobs,       \* rt->job_list
  failed,     \* an allocation has failed
  stack       \* the frames of the C stack

vars == <<state, result, reactions, made, used, given, async, jobs, failed, stack>>
promiseVars == <<state, result, reactions>>
jobVars == <<jobs, failed>>

Promise == 1 .. MaxPromises
Pair    == Promise \X (0 .. MaxPairs - 1)
Value   == {Prim, Object} \cup Promise       \* what a program hands over

Made    == {p \in Promise : state[p] # "none"}
Settled(p) == state[p] \in {"fulfilled", "rejected"}

(* Handlers: one function of a pair (0 resolves, 1 rejects), or the        *)
(* continuation of an async function.                                      *)
Resolving(i, x) == [is |-> "resolving", reject |-> i = 1, pair |-> x]
Resume(p)       == [is |-> "resume", of |-> p]
Handler == {None, User} \cup {Resolving(i, x) : i \in {0, 1}, x \in Pair}
                        \cup {Resume(p) : p \in Promise}

ASSUME PromiseAssumption ==
  /\ MaxPromises \in Nat /\ MaxPairs \in Nat \ {0} /\ MaxDepth \in Nat \ {0}
  /\ MayFail \in BOOLEAN
  /\ {None, Prim, Object, Error} \cap Promise = {} /\ Object \notin {Prim, Error}
  /\ None # User /\ None \notin {"running", "suspended", "done"} \cup Pair
  /\ \A i \in {0, 1}, x \in Pair : Resolving(i, x) \notin {None, User}
  /\ \A p \in Promise : Resume(p) \notin {None, User}

(* Frames. *)
Code(kind, x)  == [at |-> kind, of |-> x]           \* program code
Call(x, v, r)  == [at |-> "call", pair |-> x, arg |-> v, reject |-> r]
Awaiting(p, q) == [at |-> "await", of |-> p, on |-> q]
Getter(p)      == [at |-> "getter", promise |-> p]  \* looks "then" up on Object

CodeFrames == {"script", "executor", "getter", "handler", "thenable", "async"}

Top  == stack[Len(stack)]
Pop  == SubSeq(stack, 1, Len(stack) - 1)
InCode == stack # <<>> /\ Top.at \in CodeFrames
Depth == Cardinality({i \in DOMAIN stack : stack[i].at \in CodeFrames})

(* C code calls a function of the capability it has, if any. *)
CallCap(st, cap, v, r) == IF cap = None THEN st ELSE Append(st, Call(cap, v, r))

(* Jobs. *)
Reaction(rd, v, r) ==
  [is |-> "reaction", cap |-> rd.cap, handler |-> rd.on[IF r THEN 2 ELSE 1],
   arg |-> v, reject |-> r]
Thenable(p, v) == [is |-> "thenable", of |-> p, thenable |-> v]

(* Room left under the bounds: a thenable job on a promise creates one.    *)
Promised ==
    Cardinality({i \in DOMAIN jobs : jobs[i].is = "thenable" /\ jobs[i].thenable \in Promise})
  + Cardinality({i \in DOMAIN stack : stack[i].at = "call" /\ stack[i].arg \in Promise})
Room == Cardinality(Promise \ Made) > Promised
RoomFor(x, v) ==
  /\ v \in Promise => v \in Made /\ Room
  /\ x # None /\ v \in Promise \cup {Object} => made[x[1]] < MaxPairs
Fresh(q) == state[q] = "none" /\ \A r \in 1 .. q - 1 : state[r] # "none"

-----------------------------------------------------------------------------
(* The operations that the actions are made of.                            *)

(* JS_EnqueueJob, whose result its callers here ignore: what is left of    *)
(* "new" is any part of it.                                                *)
Parts(new) ==
  UNION {{[i \in 1 .. k |-> new[f[i]]] :
            f \in {g \in [1 .. k -> DOMAIN new] : \A i, j \in 1 .. k : i < j => g[i] < g[j]}}
           : k \in 0 .. Len(new)}

Enqueue(queue, new) ==
  \E part \in IF MayFail THEN Parts(new) ELSE {new} :
    jobs' = queue \o part /\ failed' = (failed \/ part # new)

(* js_promise_constructor up to the executor: a promise and its first pair *)
Create(q) ==
  /\ Fresh(q)
  /\ state' = [state EXCEPT ![q] = "pending"]
  /\ made' = [made EXCEPT ![q] = 1]

(* Slip: the jobs of both lists are enqueued. *)
Slip_BothLists(p, v, r) ==
  IF state[p] # "pending"
    THEN UNCHANGED <<promiseVars, jobVars>>
    ELSE /\ result' = [result EXCEPT ![p] = v]
         /\ state' = [state EXCEPT ![p] = IF r THEN "rejected" ELSE "fulfilled"]
         /\ reactions' = [reactions EXCEPT ![p] = <<>>]
         /\ jobs' = jobs
              \o [i \in DOMAIN reactions[p] |-> Reaction(reactions[p][i], v, r)]
              \o [i \in DOMAIN reactions[p] |-> Reaction(reactions[p][i], v, ~r)]
         /\ UNCHANGED failed

(* fulfill_or_reject_promise: the jobs of one list are enqueued and both   *)
(* lists are freed.                                                        *)
fulfill_or_reject_promise(p, v, r) ==
  IF state[p] # "pending"
    THEN UNCHANGED <<promiseVars, jobVars>>
    ELSE /\ result' = [result EXCEPT ![p] = v]
         /\ state' = [state EXCEPT ![p] = IF r THEN "rejected" ELSE "fulfilled"]
         /\ reactions' = [reactions EXCEPT ![p] = <<>>]
         /\ Enqueue(jobs,
                        [i \in DOMAIN reactions[p] |-> Reaction(reactions[p][i], v, r)])

(* Slip: it does not look whether the promise is settled already. *)
Slip_OnlyPending(p, cap, onFulfilled, onRejected, queue) ==
  /\ reactions' = [reactions EXCEPT ![p] =
                     Append(@, [cap |-> cap, on |-> <<onFulfilled, onRejected>>])]
  /\ jobs' = queue /\ UNCHANGED failed

(* perform_promise_then, given what is left of the queue. *)
perform_promise_then(p, cap, onFulfilled, onRejected, queue) ==
  LET rd == [cap |-> cap, on |-> <<onFulfilled, onRejected>>] IN
  IF state[p] = "pending"
    THEN /\ reactions' = [reactions EXCEPT ![p] = Append(@, rd)]
         /\ jobs' = queue /\ UNCHANGED failed
    ELSE /\ Enqueue(queue, <<Reaction(rd, result[p], state[p] = "rejected")>>)
         /\ UNCHANGED reactions

-----------------------------------------------------------------------------
(* Program code.                                                           *)

(* The host evaluates a script or calls a handler. *)
JS_Eval ==
  /\ stack = <<>>
  /\ stack' = <<Code("script", None)>>
  /\ UNCHANGED <<promiseVars, made, used, given, async, jobVars>>

(* new Promise(executor). *)
js_promise_constructor(q) ==
  /\ InCode /\ Depth < MaxDepth /\ Room
  /\ Create(q)
  /\ stack' = Append(stack, Code("executor", <<q, 0>>))
  /\ given' = given \cup {<<q, 0>>}
  /\ UNCHANGED <<result, reactions, used, async, jobVars>>

(* The program calls a resolving function it has been given. *)
CallResolving(x, v, r) ==
  /\ InCode /\ x \in given
  /\ r \/ RoomFor(x, v)
  /\ stack' = Append(stack, Call(x, IF r THEN Error ELSE v, r))
  /\ UNCHANGED <<promiseVars, made, used, given, async, jobVars>>

(* Promise.resolve of a value that is not a promise, and Promise.reject. *)
js_promise_resolve(q, v, r) ==
  /\ InCode /\ Room /\ v \notin Promise
  /\ Create(q)
  /\ stack' = Append(stack, Call(<<q, 0>>, IF r THEN Error ELSE v, r))
  /\ UNCHANGED <<result, reactions, used, given, async, jobVars>>

(* promise.then(onFulfilled, onRejected). *)
js_promise_then(p, q, onFulfilled, onRejected) ==
  /\ InCode /\ Room /\ p \in Made
  /\ Create(q)
  /\ perform_promise_then(p, <<q, 0>>, onFulfilled, onRejected, jobs)
  /\ UNCHANGED <<result, used, given, async, stack>>

(* A call of an async function, whose promise is q. *)
js_async_function_call(q) ==
  /\ InCode /\ Room
  /\ Create(q)
  /\ async' = [async EXCEPT ![q] = "running"]
  /\ stack' = Append(stack, Code("async", <<q, 0>>))
  /\ UNCHANGED <<result, reactions, used, given, jobVars>>

(* await of a promise: the two continuations become its handlers. *)
AwaitPromise(p) ==
  /\ InCode /\ Top.at = "async" /\ p \in Made
  /\ LET f == Top.of[1] IN
       /\ perform_promise_then(p, None, Resume(f), Resume(f), jobs)
       /\ async' = [async EXCEPT ![f] = "suspended"]
  /\ stack' = Pop
  /\ UNCHANGED <<state, result, made, used, given>>

(* await of another value: a promise is created and resolved with it first *)
AwaitValue(q, v) ==
  /\ InCode /\ Top.at = "async" /\ v \notin Promise /\ Room
  /\ Create(q)
  /\ stack' = Pop \o <<Awaiting(Top.of[1], q), Call(<<q, 0>>, v, FALSE)>>
  /\ UNCHANGED <<result, reactions, used, given, async, jobVars>>

(* The program code on top of the stack ends, and C code goes on: the body *)
(* of a script, an executor or a thenable's "then", which return nothing.. *)
Leave ==
  /\ InCode /\ Top.at \in {"script", "executor", "thenable"}
  /\ stack' = Pop
  /\ UNCHANGED <<promiseVars, made, used, given, async, jobVars>>

(* ... the handler of a reaction and an async function, whose value        *)
(* resolves the capability; both end ...                                   *)
Return(v) ==
  /\ InCode /\ Top.at \in {"handler", "async"} /\ RoomFor(Top.of, v)
  /\ stack' = CallCap(Pop, Top.of, v, FALSE)
  /\ async' = IF Top.at = "async" THEN [async EXCEPT ![Top.of[1]] = "done"] ELSE async
  /\ UNCHANGED <<promiseVars, made, used, given, jobVars>>

(* ... or any of these by a throw, which rejects it; an await for which    *)
(* there is no memory ends the function in the same way.                   *)
Throw ==
  /\ InCode /\ Top.at \in {"script", "executor", "thenable", "handler", "async"}
  /\ stack' = CallCap(Pop, Top.of, Error, TRUE)
  /\ async' = IF Top.at = "async" THEN [async EXCEPT ![Top.of[1]] = "done"] ELSE async
  /\ UNCHANGED <<promiseVars, made, used, given, jobVars>>

(* js_promise_resolve_function_call after the property "then" was read:    *)
(* it threw, it is not a function, or it is one.                           *)
ThenRead ==
  /\ InCode /\ Top.at = "getter"
  /\ stack' = Pop
  /\ \/ fulfill_or_reject_promise(Top.promise, Error, TRUE)
     \/ fulfill_or_reject_promise(Top.promise, Object, FALSE)
     \/ /\ made[Top.promise] < MaxPairs
        /\ Enqueue(jobs, <<Thenable(Top.promise, Object)>>)
        /\ UNCHANGED promiseVars
  /\ UNCHANGED <<made, used, given, async>>

-----------------------------------------------------------------------------
(* C code.                                                                 *)

set_already_resolved(x, v) == used \cup {x}

(* Slip: "promise self resolution" is not an error. *)
Slip_SelfForgotten(p) == UNCHANGED <<promiseVars, jobVars>>

self_resolution(p) == fulfill_or_reject_promise(p, Error, TRUE)

(* Slip: a promise is a value like another. *)
Slip_Nested(p, q) == fulfill_or_reject_promise(p, q, FALSE)

(* The "then" of a promise is a function: a job will call it. *)
follow(p, q) == Enqueue(jobs, <<Thenable(p, q)>>) /\ UNCHANGED promiseVars

(* js_promise_resolve_function_call, up to the property "then". *)
js_promise_resolve_function_call ==
  /\ stack # <<>> /\ Top.at = "call"
  /\ LET x == Top.pair
         p == x[1]
         v == Top.arg
     IN
     IF x \in used
       THEN stack' = Pop /\ UNCHANGED <<promiseVars, used, jobVars>>
       ELSE /\ used' = set_already_resolved(x, v)
            /\ stack' = IF ~Top.reject /\ v = Object THEN Append(Pop, Getter(p)) ELSE Pop
            /\ CASE Top.reject \/ v \in {Prim, Error} ->
                      fulfill_or_reject_promise(p, v, Top.reject)
                 [] ~Top.reject /\ v = p -> self_resolution(p)
                 [] ~Top.reject /\ v = Object -> UNCHANGED <<promiseVars, jobVars>>
                 [] ~Top.reject /\ v \in Promise \ {p} -> follow(p, v)
  /\ UNCHANGED <<made, given, async>>

(* js_async_function_resume after the value awaited has become a promise. *)
AwaitResolved ==
  /\ stack # <<>> /\ Top.at = "await"
  /\ \/ /\ perform_promise_then(Top.on, None, Resume(Top.of), Resume(Top.of), jobs)
        /\ async' = [async EXCEPT ![Top.of] = "suspended"]
        /\ stack' = Pop
     \/ /\ MayFail
        /\ async' = [async EXCEPT ![Top.of] = "done"]
        /\ stack' = Append(Pop, Call(<<Top.of, 0>>, Error, TRUE))
        /\ failed' = TRUE
        /\ UNCHANGED <<reactions, jobs>>
  /\ UNCHANGED <<state, result, made, used, given>>

(* promise_reaction_job. *)
promise_reaction_job ==
  LET e == Head(jobs) IN
  /\ stack = <<>> /\ jobs # <<>> /\ e.is = "reaction"
  /\ jobs' = Tail(jobs)
  /\ CASE e.handler = None ->
            stack' = CallCap(<<>>, e.cap, e.arg, e.reject) /\ UNCHANGED async
       [] e.handler = User ->
            stack' = <<Code("handler", e.cap)>> /\ UNCHANGED async
       [] e.handler \notin {None, User} /\ e.handler.is = "resolving" ->
            /\ stack' = Append(CallCap(<<>>, e.cap, Prim, FALSE),
                               Call(e.handler.pair, e.arg, e.handler.reject))
            /\ UNCHANGED async
       [] e.handler \notin {None, User} /\ e.handler.is = "resume" ->
            /\ stack' = <<Code("async", <<e.handler.of, 0>>)>>
            /\ async' = [async EXCEPT ![e.handler.of] = "running"]
  /\ UNCHANGED <<promiseVars, failed, made, used, given>>

(* Slip: "then" is given the function that resolves twice. *)
Slip_ResolveTwice(x) == <<Resolving(0, x), Resolving(0, x)>>

js_create_resolving_functions(x) == <<Resolving(0, x), Resolving(1, x)>>

(* js_promise_resolve_thenable_job: a new pair is given to "then", that of *)
(* a promise or that of another object.                                    *)
js_promise_resolve_thenable_job(q) ==
  LET e == Head(jobs)
      x == <<e.of, made[e.of]>>
      fns == js_create_resolving_functions(x)
  IN
  /\ stack = <<>> /\ jobs # <<>> /\ e.is = "thenable"
  /\ \/ /\ e.thenable \in Promise /\ Fresh(q)
        /\ state' = [state EXCEPT ![q] = "pending"]
        /\ made' = [made EXCEPT ![q] = 1, ![e.of] = @ + 1]
        /\ perform_promise_then(e.thenable, <<q, 0>>, fns[1], fns[2], Tail(jobs))
        /\ UNCHANGED <<given, stack>>
     \/ /\ e.thenable = Object
        /\ made' = [made EXCEPT ![e.of] = @ + 1]
        /\ given' = given \cup {x}
        /\ stack' = <<Code("thenable", x)>>
        /\ jobs' = Tail(jobs)
        /\ UNCHANGED <<state, reactions, failed>>
     \/ /\ MayFail                     \* no memory for the pair
        /\ jobs' = Tail(jobs) /\ failed' = TRUE
        /\ UNCHANGED <<state, reactions, made, given, stack>>
     \/ /\ MayFail                     \* no memory in js_promise_then
        /\ made' = [made EXCEPT ![e.of] = @ + 1]
        /\ stack' = <<Call(x, Error, TRUE)>>
        /\ jobs' = Tail(jobs) /\ failed' = TRUE
        /\ UNCHANGED <<state, reactions, given>>
  /\ UNCHANGED <<result, used, async>>

-----------------------------------------------------------------------------
Init ==
  /\ state = [p \in Promise |-> "none"]
  /\ result = [p \in Promise |-> None]
  /\ reactions = [p \in Promise |-> <<>>]
  /\ made = [p \in Promise |-> 0]
  /\ used = {}
  /\ given = {}
  /\ async = [p \in Promise |-> None]
  /\ jobs = <<>> /\ failed = FALSE
  /\ stack = <<>>

(* What a program can pass to then(): handlers of its own, none, or the    *)
(* two functions of a pair it has, as Promise.race does.                   *)
Handlers ==
  {None, User} \X {None, User} \cup {js_create_resolving_functions(x) : x \in given}

Program ==
  \/ JS_Eval \/ Leave \/ Throw \/ ThenRead
  \/ \E q \in Promise : js_promise_constructor(q) \/ js_async_function_call(q)
  \/ \E x \in Pair, v \in Value, r \in BOOLEAN : CallResolving(x, v, r)
  \/ \E q \in Promise, v \in {Prim, Object}, r \in BOOLEAN : js_promise_resolve(q, v, r)
  \/ \E p \in Promise, q \in Promise, h \in Handlers : js_promise_then(p, q, h[1], h[2])
  \/ \E p \in Promise : AwaitPromise(p)
  \/ \E q \in Promise, v \in {Prim, Object} : AwaitValue(q, v)
  \/ \E v \in Value : Return(v)

JS_ExecutePendingJob ==
  \/ promise_reaction_job
  \/ \E q \in Promise : js_promise_resolve_thenable_job(q)

Native == js_promise_resolve_function_call \/ AwaitResolved

Next == Program \/ Native \/ JS_ExecutePendingJob

Spec == Init /\ [][Next]_vars

(* C code goes on and program code ends (a program that loops forever lets *)
(* nothing else happen), and the host comes back to the queue after every  *)
(* script or handler, as js_std_loop does.                                 *)
FairSpec ==
  /\ Spec
  /\ WF_vars(Native)
  /\ SF_vars(Leave \/ Throw \/ (\E v \in Value : Return(v)) \/ ThenRead)
  /\ SF_vars(JS_ExecutePendingJob)

-----------------------------------------------------------------------------
Result  == {None, Prim, Object, Error} \cup Promise
Job == [is : {"reaction"}, cap : Pair \cup {None}, handler : Handler, arg : Result,
        reject : BOOLEAN]
       \cup [is : {"thenable"}, of : Promise, thenable : Promise \cup {Object}]
Frame == [at : CodeFrames \ {"getter"}, of : Pair \cup {None}]
         \cup [at : {"getter"}, promise : Promise]
         \cup [at : {"call"}, pair : Pair, arg : Result, reject : BOOLEAN]
         \cup [at : {"await"}, of : Promise, on : Promise]

(* Pairs stay within the bound and jobs and frames are well formed. *)
TypeOK ==
  /\ state \in [Promise -> {"none", "pending", "fulfilled", "rejected"}]
  /\ result \in [Promise -> Result]
  /\ reactions \in [Promise -> Seq([cap : Pair \cup {None}, on : Handler \X Handler])]
  /\ made \in [Promise -> 0 .. MaxPairs]
  /\ used \subseteq Pair /\ given \subseteq Pair
  /\ async \in [Promise -> {None, "running", "suspended", "done"}]
  /\ jobs \in Seq(Job) /\ failed \in BOOLEAN
  /\ stack \in Seq(Frame)

(* The ways a promise can still be settled: a pair of resolving functions  *)
(* not yet used, a thenable job, the reading of "then" in progress.        *)
Rights(p) ==
  {<<"pair", n>> : n \in {m \in 0 .. made[p] - 1 : <<p, m>> \notin used}}
  \cup {<<"job", i>> : i \in {j \in DOMAIN jobs : jobs[j].is = "thenable" /\ jobs[j].of = p}}
  \cup {<<"getter", i>> : i \in {j \in DOMAIN stack : stack[j] = Getter(p)}}

(* "should never happen" (fulfill_or_reject_promise): a settled promise is *)
(* never settled again, because a pending promise can be settled in one    *)
(* way at a time, and a settled one in none.  As long as no allocation has *)
(* failed a pending promise never loses that way.                          *)
OneRight ==
  \A p \in Promise :
    LET n == Cardinality(Rights(p)) IN
    /\ state[p] = "pending" => n = 1 \/ (failed /\ n = 0)
    /\ state[p] # "pending" => n = 0

Awaited(f) ==       \* the reactions and jobs that resume f
  (UNION {{<<q, i>> : i \in {j \in DOMAIN reactions[q] : reactions[q][j].on[1] = Resume(f)}}
            : q \in Promise})
  \cup {<<0, i>> : i \in {j \in DOMAIN jobs :
                            jobs[j].is = "reaction" /\ jobs[j].handler = Resume(f)}}

Executing(f) ==     \* the frames in which f executes
  {i \in DOMAIN stack : \/ stack[i].at = "async" /\ stack[i].of[1] = f
                        \/ stack[i].at = "await" /\ stack[i].of = f}

(* js_async_function_resolve_call resumes without looking at the state of  *)
(* the function: it is called only for a function suspended in an await,   *)
(* once for each await, and never after the function has ended.            *)
ResumedOnce ==
  \A f \in Promise :
    LET n == Cardinality(Awaited(f)) IN
    /\ async[f] = "suspended" =>
         Executing(f) = {} /\ (n = 1 \/ (failed /\ n = 0))
    /\ async[f] = "running" => Cardinality(Executing(f)) = 1 /\ n = 0
    /\ async[f] \in {None, "done"} => Executing(f) = {} /\ n = 0

(* A promise is never fulfilled with a promise: it takes over its outcome. *)
NeverNested == \A p \in Promise : state[p] = "fulfilled" => result[p] \in {Prim, Object}

-----------------------------------------------------------------------------
(* What a promise promises (PromiseFate).                                  *)

(* A pair made for a thenable job on a promise, unknown to the program. *)
Private(x) == x[2] > 0 /\ x \notin given /\ x \notin used

(* The promise that p follows, and the outcome that p is about to take.    *)
Follows(p) ==
  {q \in Promise :
     \/ \E i \in DOMAIN jobs :
          jobs[i].is = "thenable" /\ jobs[i].of = p /\ jobs[i].thenable = q
     \/ \E i \in DOMAIN reactions[q] :
          LET h == reactions[q][i].on[1] IN
          h \notin {None, User} /\ h.is = "resolving" /\ h.pair[1] = p /\ Private(h.pair)}

Taking(p) ==
  {<<jobs[i].reject, jobs[i].arg>> : i \in {j \in DOMAIN jobs :
     /\ jobs[j].is = "reaction" /\ jobs[j].handler \notin {None, User}
     /\ jobs[j].handler.is = "resolving"
     /\ jobs[j].handler.pair[1] = p /\ Private(jobs[j].handler.pair)}}
  \cup {<<stack[i].reject, stack[i].arg>> : i \in {j \in DOMAIN stack :
     stack[j].at = "call" /\ stack[j].pair[1] = p /\ Private(stack[j].pair)}}

Fate(p) ==
  CASE state[p] = "none" -> [is |-> "none"]
    [] Settled(p)        -> [is |-> "settled", by |-> <<state[p] = "rejected", result[p]>>]
    [] Follows(p) # {}   -> [is |-> "follows", of |-> CHOOSE q \in Follows(p) : TRUE]
    [] Taking(p) # {}    -> [is |-> "takes", by |-> CHOOSE o \in Taking(p) : TRUE]
    [] OTHER             -> [is |-> "open"]

Promises == INSTANCE PromiseFate WITH fate <- [p \in Promise |-> Fate(p)]

(* A promise settles once, and one resolved with another promise takes its *)
(* outcome and no other: the fates are those of PromiseFate.               *)
ImplementsPromiseFate == Promises!Spec

(* The outcome of a promise reaches every promise that follows it. *)
OutcomeTaken == Promises!Taken

(* An async function goes on after the promise it awaits has settled. *)
AwaitEnds ==
  \A f \in Promise :
    (\/ \E p \in Promise : Settled(p) /\
          \E i \in DOMAIN reactions[p] : reactions[p][i].on[1] = Resume(f)
     \/ \E i \in DOMAIN jobs : jobs[i].is = "reaction" /\ jobs[i].handler = Resume(f))
      ~> async[f] = "running"

(* PROPERTY: no one waits for a settled promise: neither a promise that    *)
(* follows it nor an async function that awaits it.                        *)
WaitingEnds == OutcomeTaken /\ AwaitEnds
=============================================================================
