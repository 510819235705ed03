------------------------------ MODULE Generator ------------------------------
(***************************************************************************)
(* Generator objects (quickjs.c: js_generator_next and what it calls).     *)
(*                                                                         *)
(* A generator owns the frame of its body, a JSAsyncFunctionState.  The C  *)
(* stack is a sequence of frames: program code ("script", "body" and       *)
(* "inner", the methods and getters of the iterator that a yield* stands   *)
(* on), and the calls of js_generator_next in progress.  Program code may  *)
(* call any generator it likes before it ends, a generator that waits for  *)
(* it included.  If the body of that generator has run meanwhile, the call *)
(* that waits goes on with stack slots that are no longer there, or in a   *)
(* frame that has been freed: from there nothing is said (Overtaken).      *)
(* Values are left out.                                                    *)
(***************************************************************************)
EXTENDS Naturals, Sequences, FiniteSets

CONSTANTS
  Gen,          \* the generators
  MaxCalls      \* bound on the frames of the C stack

ASSUME GeneratorAssumption == MaxCalls \in Nat

VARIABLES
  status,   \* JSGeneratorData.state, "none" without an object
  frame,   \* JSGeneratorData.func_state: where the body is
  calls    \* the frames of the C stack

generatorVars == <<status, frame, calls>>

Methods == {"next", "return", "throw"}

(* Frames.  A call of js_generator_next waits for program code: the body,  *)
(* or the inner iterator, asked for a method, called, or closed.  "moved"  *)
(* is set when the body has been resumed since the call began to wait.     *)
Program(kind, g)    == [at |-> kind, of |-> g]
Wait(on, g, mag) == [at |-> "next", of |-> g, on |-> on, magic |-> mag, moved |-> FALSE]
Script           == [at |-> "script"]

Inner == {"method", "call", "close"}

Running    == calls[Len(calls)]
Below  == calls[Len(calls) - 1]             \* the call that program code returns to
Rest   == SubSeq(calls, 1, Len(calls) - 2)  \* the stack when that call returns
CodeRuns == calls # <<>> /\ Running.at # "next"
BodyRuns == CodeRuns /\ Running.at = "body"

Overtaken == \E i \in DOMAIN calls : calls[i].at = "next" /\ calls[i].moved
InInner == CodeRuns /\ Running.at = "inner"

WaitsInner(f, g) == f.at = "next" /\ f.of = g /\ f.on \in Inner

-----------------------------------------------------------------------------
(* free_generator_stack: the body will not run again. *)
free_generator_stack(g) ==
  IF status[g] = "completed"
    THEN UNCHANGED <<status, frame>>
    ELSE /\ frame' = [frame EXCEPT ![g] = "freed"]
         /\ status' = [status EXCEPT ![g] = "completed"]

(* From exec_no_arg, exec_arg or exec_throw: the body runs. *)
exec(g, mag, base) ==
  /\ status' = [status EXCEPT ![g] = "executing"]
  /\ frame' = [frame EXCEPT ![g] = "running"]
  /\ calls' = [i \in DOMAIN base |->
                 IF WaitsInner(base[i], g) THEN [base[i] EXCEPT !.moved = TRUE] ELSE base[i]]
              \o <<Wait("body", g, mag), Program("body", g)>>

(* The state SUSPENDED_YIELD_STAR: the inner iterator is called, after its *)
(* method "return" or "throw" has been read.                               *)
ask(g, mag, base) ==
  calls' = base \o <<Wait(IF mag = "next" THEN "call" ELSE "method", g, mag), Program("inner", g)>>

(* Slip: a generator that executes is like one suspended in a yield. *)
Slip_NoRunningCheck(g) == {"yield", "executing"}

Resumable(g) == {"yield"}

(* js_generator_next, up to the program code it runs. *)
js_generator_next(g, mag) ==
  /\ CodeRuns /\ Len(calls) + 2 <= MaxCalls
  /\ \/ /\ status[g] = "start" /\ mag # "next"
        /\ free_generator_stack(g)
        /\ UNCHANGED calls
     \/ /\ status[g] \in Resumable(g) \/ (status[g] = "start" /\ mag = "next")
        /\ exec(g, mag, calls)
     \/ /\ status[g] = "yield_star"
        /\ ask(g, mag, calls)
        /\ UNCHANGED <<status, frame>>

(* The body ends by a throw or a return ... *)
BodyReturns ==
  /\ BodyRuns
  /\ free_generator_stack(Running.of)
  /\ calls' = Rest

Suspended(g, how) ==
  /\ status' = [status EXCEPT ![g] = how]
  /\ frame' = [frame EXCEPT ![g] = how]

(* ... by a yield, whose value the caller gets ... *)
BodyYields ==
  /\ BodyRuns
  /\ Suspended(Running.of, "yield")
  /\ calls' = Rest

(* ... or by a yield*, and the call starts again with the inner iterator.  *)
BodyYieldsStar ==
  /\ BodyRuns
  /\ Suspended(Running.of, "yield_star")
  /\ ask(Running.of, Below.magic, Rest)

(* The program code of an inner iterator ends.  A result that is not done  *)
(* is given to the caller; everything else goes on with the frame.         *)
ResultNotDone ==
  /\ InInner /\ Below.on = "call"
  /\ calls' = Rest
  /\ UNCHANGED <<status, frame>>

GoesOn == InInner /\ ~Below.moved

(* A throw, or the TypeError once the iterator has been closed, resumes    *)
(* the body, and so does a result that is done, with its value ...         *)
InnerThrows == GoesOn /\ exec(Running.of, Below.magic, Rest)
ResultDone  == GoesOn /\ Below.on = "call" /\ exec(Running.of, Below.magic, Rest)

(* ... a method that was found is called ...                               *)
MethodFound ==
  /\ GoesOn /\ Below.on = "method"
  /\ calls' = Rest \o <<[Below EXCEPT !.on = "call"], Running>>
  /\ UNCHANGED <<status, frame>>

(* ... and without one, "return" resumes the body with its argument, and   *)
(* for "throw" the iterator is closed before the body gets a TypeError.    *)
NoMethod ==
  /\ GoesOn /\ Below.on = "method"
  /\ \/ /\ Below.magic = "return"
        /\ exec(Running.of, Below.magic, Rest)
     \/ /\ Below.magic = "throw"
        /\ calls' = Rest \o <<[Below EXCEPT !.on = "close"], Running>>
        /\ UNCHANGED <<status, frame>>

(* A generator function is called: its body runs to OP_initial_yield.      *)
js_generator_function_call(g) ==
  /\ CodeRuns /\ status[g] = "none"
  /\ Suspended(g, "start")
  /\ UNCHANGED calls

(* The last reference to the object goes; a call in progress holds one.    *)
js_generator_finalizer(g) ==
  /\ status[g] # "none"
  /\ \A i \in DOMAIN calls : calls[i] # Script => calls[i].of # g
  /\ Suspended(g, "none")
  /\ UNCHANGED calls

(* The host evaluates a script, which ends. *)
HostEvaluates == calls = <<>> /\ calls' = <<Script>> /\ UNCHANGED <<status, frame>>
ScriptEnds == calls = <<Script>> /\ calls' = <<>> /\ UNCHANGED <<status, frame>>

GeneratorInit ==
  /\ status = [g \in Gen |-> "none"]
  /\ frame = [g \in Gen |-> "none"]
  /\ calls = <<>>

GeneratorNext ==
  \/ HostEvaluates \/ ScriptEnds
  \/ \E g \in Gen, mag \in Methods : js_generator_next(g, mag)
  \/ \E g \in Gen : js_generator_function_call(g) \/ js_generator_finalizer(g)
  \/ BodyReturns \/ BodyYields \/ BodyYieldsStar
  \/ InnerThrows \/ MethodFound \/ NoMethod \/ ResultDone \/ ResultNotDone

GeneratorSpec == GeneratorInit /\ [][GeneratorNext]_generatorVars

-----------------------------------------------------------------------------
Statuses == {"none", "start", "yield", "yield_star", "executing", "completed"}
Frame  == [at : {"script"}] \cup [at : {"body", "inner"}, of : Gen]
          \cup [at : {"next"}, of : Gen, on : Inner \cup {"body"}, magic : Methods,
                moved : BOOLEAN]

(* States and frames are well formed, and a call in progress is always     *)
(* under the program code that it waits for.                               *)
GeneratorTypeOK ==
  /\ status \in [Gen -> Statuses]
  /\ frame \in [Gen -> (Statuses \ {"executing", "completed"}) \cup {"running", "freed"}]
  /\ Len(calls) <= MaxCalls
  /\ \A i \in DOMAIN calls :
       /\ calls[i] \in Frame
       /\ calls[i].at = "next" =>
            /\ i < Len(calls)
            /\ calls[i + 1] = Program(IF calls[i].on = "body" THEN "body" ELSE "inner", calls[i].of)

BodyFrames(g) == {i \in DOMAIN calls : calls[i] = Program("body", g)}

(* "cannot free the function if it is running" (async_func_free): the      *)
(* state always tells what has become of the frame.  A body runs at most   *)
(* once at a time, its frame is freed once and never while it runs or      *)
(* waits for an inner iterator, and nothing resumes it after that.         *)
FrameMatchesState ==
  \A g \in Gen :
    /\ BodyFrames(g) = {} <=> frame[g] # "running"
    /\ Cardinality(BodyFrames(g)) <= 1
    /\ frame[g] = CASE status[g] = "executing" -> "running"
                    [] status[g] = "completed" -> "freed"
                    [] OTHER -> status[g]
    /\ \A i \in DOMAIN calls :
         WaitsInner(calls[i], g) /\ ~calls[i].moved => status[g] = "yield_star"

==============================================================================
