--------------------------- MODULE AsyncGenerator ---------------------------
(***************************************************************************)
(* An async generator and the queue of its requests (quickjs.c).           *)
(*                                                                         *)
(* The methods next, return and throw put a request at the end of a queue; *)
(* js_async_generator_resume_next runs the body for the request at its     *)
(* head.  The body runs until it yields, which answers that request, until *)
(* it ends, which does too, or until it awaits a promise, whose            *)
(* continuation is a job.  A return of a generator that has ended awaits   *)
(* its argument the same way.                                              *)
(*                                                                         *)
(* The C stack is a sequence of frames: program code ("script", "body")    *)
(* and loops of js_async_generator_resume_next.  A value that is awaited   *)
(* has its "then" read; what that code does here, the code around the      *)
(* await could have done.  Object.prototype has no accessor "then", which  *)
(* would run in the middle of the loop.  Values are left out.              *)
(***************************************************************************)
EXTENDS Naturals, Sequences, FiniteSets

CONSTANTS
  MaxRequests,  \* bound on the calls of next, return and throw
  MaxDepth      \* bound on the frames of the stack

ASSUME AsyncGeneratorAssumption ==
  MaxRequests \in Nat /\ MaxDepth \in Nat

VARIABLES
  state,     \* JSAsyncGeneratorData.state
  body,      \* func_state: where the body is
  queue,     \* JSAsyncGeneratorData.queue: the numbers of the requests
  asked,     \* the completion_type of every request made so far
  answers,   \* how requests have been answered, in order: a history
  awaits,    \* continuations of the body that wait for a promise
  returns,   \* continuations of a return that wait for a promise
  stack      \* the frames of the C stack

vars == <<state, body, queue, asked, answers, awaits, returns, stack>>

Request == 1 .. MaxRequests
Magic   == {"next", "return", "throw"}
Code    == {"script", "body"}

Top    == stack[Len(stack)]
Pop    == SubSeq(stack, 1, Len(stack) - 1)
InCode == stack # <<>> /\ Top \in Code
InBody == stack # <<>> /\ Top = "body"
InLoop == stack # <<>> /\ Top = "resume_next"

-----------------------------------------------------------------------------
(* The operations that the actions are made of.                            *)

(* js_async_generator_resolve_or_reject takes the request at the head out  *)
(* of the queue and settles its promise: with a value, with done, or by    *)
(* rejection.                                                              *)
resolve_or_reject(how, base) ==
  /\ queue' = Tail(queue)
  /\ answers' = Append(answers, <<Head(queue), how>>)
  /\ stack' = base

(* js_async_generator_complete: the frame is freed. *)
js_async_generator_complete ==
  /\ state' = "completed"
  /\ body' = IF state = "completed" THEN body ELSE "freed"

AwaitingReturn == "awaiting_return"

(* js_async_generator_await and js_async_generator_completed_return, whose *)
(* result is ignored when js_promise_resolve throws (the "constructor" of  *)
(* a promise is an accessor) or memory is short.                           *)
registered(n) == {n, n + 1}

-----------------------------------------------------------------------------
(* Slip: a request is also looked at while the body runs. *)
Slip_AlwaysResume == TRUE

(* Slip: a request is looked at only by the call that starts the body. *)
Slip_OnlyStart == state \in {"start", "completed"}

(* Whether a request is handled where it is made. *)
ResumeNow == state # "executing"

(* Slip: the request is put at the head of the queue. *)
Slip_AtHead(r) == <<r>> \o queue

Enqueued(r) == Append(queue, r)

(* next, return and throw. *)
js_async_generator_next(magic) ==
  /\ InCode /\ Len(asked) < MaxRequests /\ Len(stack) + 3 <= MaxDepth
  /\ asked' = Append(asked, magic)
  /\ queue' = Enqueued(Len(asked) + 1)
  /\ stack' = IF ResumeNow THEN Append(stack, "resume_next") ELSE stack
  /\ UNCHANGED <<state, body, answers, awaits, returns>>

(* One turn of the loop of js_async_generator_resume_next.  Nothing to do: *)
(* the queue is empty, or the head of the queue awaits its argument.       *)
ResumeNextEnds ==
  /\ InLoop /\ (queue = <<>> \/ state = "awaiting_return")
  /\ stack' = Pop
  /\ UNCHANGED <<state, body, queue, asked, answers, awaits, returns>>

(* SUSPENDED_START, and the request is not a next: the loop goes on.       *)
NeverStarted ==
  /\ InLoop /\ queue # <<>> /\ state = "start" /\ asked[Head(queue)] # "next"
  /\ js_async_generator_complete
  /\ UNCHANGED <<queue, asked, answers, awaits, returns, stack>>

(* COMPLETED: one request is answered, or awaits its argument.             *)
Completed ==
  /\ InLoop /\ queue # <<>> /\ state = "completed"
  /\ CASE asked[Head(queue)] = "next" ->
            resolve_or_reject("done", Pop) /\ UNCHANGED <<state, returns>>
       [] asked[Head(queue)] = "throw" ->
            resolve_or_reject("reject", Pop) /\ UNCHANGED <<state, returns>>
       [] asked[Head(queue)] = "return" ->
            /\ state' = AwaitingReturn
            /\ returns' \in registered(returns)
            /\ stack' = Pop
            /\ UNCHANGED <<queue, answers>>
  /\ UNCHANGED <<body, asked, awaits>>

(* SUSPENDED_START, SUSPENDED_YIELD, SUSPENDED_YIELD_STAR and, "only ...   *)
(* when restarting execution after await()", EXECUTING: the body runs.     *)
Resume ==
  /\ InLoop /\ queue # <<>>
  /\ \/ state \in {"yield", "yield_star", "executing"}
     \/ state = "start" /\ asked[Head(queue)] = "next"
  /\ state' = "executing"
  /\ body' = "running"
  /\ stack' = Append(stack, "body")
  /\ UNCHANGED <<queue, asked, answers, awaits, returns>>

(* The body yields: the head is answered and the loop goes on.             *)
Yield ==
  /\ InBody
  /\ state' \in {"yield", "yield_star"}
  /\ body' = "yielded"
  /\ resolve_or_reject("value", Pop)
  /\ UNCHANGED <<asked, awaits, returns>>

(* It ends by a return or a throw: likewise.                               *)
BodyEnds ==
  /\ InBody
  /\ js_async_generator_complete
  /\ \E how \in {"done", "reject"} : resolve_or_reject(how, Pop)
  /\ UNCHANGED <<asked, awaits, returns>>

(* It awaits: the loop is left.                                            *)
js_async_generator_await ==
  /\ InBody
  /\ body' = "awaiting"
  /\ awaits' \in registered(awaits)
  /\ stack' = SubSeq(stack, 1, Len(stack) - 2)
  /\ UNCHANGED <<state, queue, asked, answers, returns>>

(* js_async_generator_resolve_function, called by a job: the promise that  *)
(* the body awaits has settled ...                                         *)
AwaitSettled ==
  /\ stack = <<>> /\ awaits > 0
  /\ awaits' = awaits - 1
  /\ stack' = <<"resume_next">>
  /\ UNCHANGED <<state, body, queue, asked, answers, returns>>

(* ... or the one that a return awaits, which does not look at the queue.  *)
ReturnSettled ==
  /\ stack = <<>> /\ returns > 0
  /\ returns' = returns - 1
  /\ state' = "completed"
  /\ \E how \in {"done", "reject"} : resolve_or_reject(how, <<>>)
  /\ UNCHANGED <<body, asked, awaits>>

(* The host runs a script or a job, and program code that is not the body  *)
(* comes to its end.                                                       *)
JS_Eval ==
  /\ stack = <<>>
  /\ stack' = <<"script">>
  /\ UNCHANGED <<state, body, queue, asked, answers, awaits, returns>>

Leave ==
  /\ stack # <<>> /\ Top = "script"
  /\ stack' = Pop
  /\ UNCHANGED <<state, body, queue, asked, answers, awaits, returns>>

(* js_async_generator_function_call has made the object.                   *)
Init ==
  /\ state = "start" /\ body = "start"
  /\ queue = <<>> /\ asked = <<>> /\ answers = <<>>
  /\ awaits = 0 /\ returns = 0
  /\ stack = <<>>

Native == ResumeNextEnds \/ NeverStarted \/ Completed \/ Resume
BodyMoves == Yield \/ BodyEnds
Settled == AwaitSettled \/ ReturnSettled

Next ==
  \/ \E magic \in Magic : js_async_generator_next(magic)
  \/ ResumeNextEnds \/ NeverStarted \/ Completed \/ Resume
  \/ Yield \/ BodyEnds \/ js_async_generator_await
  \/ AwaitSettled \/ ReturnSettled \/ JS_Eval \/ Leave

Spec == Init /\ [][Next]_vars

(* C code goes on, and so does program code: scripts end, promises that    *)
(* are awaited settle and the host runs their jobs, and a body that runs   *)
(* time and again yields or ends at last.                                  *)
FairSpec ==
  /\ Spec
  /\ WF_vars(Native) /\ WF_vars(Leave) /\ SF_vars(Settled)
  /\ WF_vars(InBody /\ Next) /\ SF_vars(BodyMoves)

-----------------------------------------------------------------------------
States == {"start", "yield", "yield_star", "executing", "awaiting_return", "completed"}
Bodies == {"start", "running", "awaiting", "yielded", "freed"}

(* The queue holds requests that were made, in the order in which they     *)
(* were, and those answered are the ones before them.                      *)
TypeOK ==
  /\ state \in States /\ body \in Bodies
  /\ asked \in Seq(Magic) /\ Len(asked) <= MaxRequests
  /\ answers \in Seq(Request \X {"value", "done", "reject"})
  /\ awaits \in 0 .. 1 /\ returns \in 0 .. 1
  /\ stack \in Seq(Code \cup {"resume_next"})

(* Requests are answered once each and in the order in which they were     *)
(* made, and no request is dropped: those not answered are in the queue.   *)
InOrder ==
  [i \in DOMAIN answers |-> answers[i][1]] \o queue = [i \in DOMAIN asked |-> i]

Loops  == {i \in DOMAIN stack : stack[i] = "resume_next"}
Runs   == {i \in DOMAIN stack : stack[i] = "body"}

(* The assertions of js_async_generator_resolve_function and the abort of  *)
(* the loop: a continuation finds the generator in the state it was made   *)
(* for, with its request at the head of the queue; a body is resumed only  *)
(* where it has stopped, at most one run of it is on the stack, and a      *)
(* frame that has been freed is never used again.                          *)
ResumedWhereStopped ==
  /\ awaits = 1 => state = "executing" /\ body = "awaiting" /\ queue # <<>>
  /\ returns = 1 => state = "awaiting_return" /\ queue # <<>> /\ asked[Head(queue)] = "return"
  /\ Cardinality(Runs) <= 1
  /\ Runs # {} <=> body = "running"
  /\ state = "executing" <=> body \in {"running", "awaiting"}
  /\ state \in {"completed", "awaiting_return"} <=> body = "freed"
  /\ state = "executing" => queue # <<>>
  /\ InLoop /\ state = "executing" => body = "awaiting" /\ awaits = 0

(* An await whose continuation was not registered never ends. *)
Abandoned == stack = <<>> /\ awaits = 0 /\ returns = 0 /\ state \in {"executing", "awaiting_return"}

Waits(r) == \E i \in DOMAIN queue : queue[i] = r
Answered(r) == \E i \in DOMAIN answers : answers[i][1] = r

(* A request is answered in the end, whatever it waits behind, if promises *)
(* that are awaited settle; or else the generator has ended before it, and *)
(* nobody looks at the queue, or it awaits for ever.  A return that awaits *)
(* its argument is answered all the same.                                  *)
AnsweredOrOver ==
  \A r \in Request :
    /\ Waits(r) ~> Answered(r) \/ state = "completed" \/ Abandoned
    /\ (state = "awaiting_return" /\ queue # <<>> /\ Head(queue) = r)
         ~> Answered(r) \/ Abandoned
=============================================================================
