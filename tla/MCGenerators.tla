----------------------------- MODULE MCGenerators -----------------------------
(* An async generator, or generators that call each other: kind says which *)
(* of the two systems a behaviour is of, the variables of the other rest.  *)
EXTENDS AsyncGenerator, Generator

VARIABLE kind

Both == <<vars, generatorVars, kind>>
Async == kind = "async" /\ UNCHANGED <<kind, generatorVars>>
Sync == kind = "sync" /\ UNCHANGED <<vars, kind>>

MCInit == Init /\ GeneratorInit /\ kind \in {"sync", "async"}

MCNext ==
  \/ Async /\ \E magic \in Magic : js_async_generator_next(magic)
  \/ Async /\ ResumeNextEnds
  \/ Async /\ NeverStarted
  \/ Async /\ Completed
  \/ Async /\ Resume
  \/ Async /\ Yield
  \/ Async /\ BodyEnds
  \/ Async /\ js_async_generator_await
  \/ Async /\ AwaitSettled
  \/ Async /\ ReturnSettled
  \/ Async /\ JS_Eval
  \/ Async /\ Leave
  \/ Sync /\ HostEvaluates
  \/ Sync /\ ScriptEnds
  \/ Sync /\ \E g \in Gen, mag \in Methods : js_generator_next(g, mag)
  \/ Sync /\ \E g \in Gen : js_generator_function_call(g)
  \/ Sync /\ \E g \in Gen : js_generator_finalizer(g)
  \/ Sync /\ BodyReturns
  \/ Sync /\ BodyYields
  \/ Sync /\ BodyYieldsStar
  \/ Sync /\ InnerThrows
  \/ Sync /\ MethodFound
  \/ Sync /\ NoMethod
  \/ Sync /\ ResultDone
  \/ Sync /\ ResultNotDone

(* The fairness of AsyncGenerator!FairSpec; none is needed of generators.  *)
MCSpec ==
  /\ MCInit /\ [][MCNext]_Both
  /\ WF_Both(Async /\ Native) /\ WF_Both(Async /\ Leave) /\ SF_Both(Async /\ Settled)
  /\ WF_Both(Async /\ InBody /\ Next) /\ SF_Both(Async /\ BodyMoves)
=============================================================================
