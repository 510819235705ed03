--------------------------- MODULE GeneratorProofs ---------------------------
(* Proofs about async generators (AsyncGenerator) and generators           *)
(* (Generator), for every number of requests, generators and frames.       *)
EXTENDS AsyncGenerator, Generator, FiniteSetTheorems, TLAPS

-----------------------------------------------------------------------------
(* Async generators. The requests answered are the first that were made,   *)
(* and those in the queue the ones after them.                             *)
Numbered ==
  /\ Len(answers) + Len(queue) = Len(asked)
  /\ \A i \in 1 .. Len(answers) : answers[i][1] = i
  /\ \A j \in 1 .. Len(queue) : queue[j] = Len(answers) + j

(* The C stack: a script or a job, in it at most one loop of               *)
(* js_async_generator_resume_next, in that at most one run of the body.    *)
Stacks == {<<>>, <<"script">>, <<"script", "resume_next">>, <<"script", "resume_next", "body">>,
           <<"resume_next">>, <<"resume_next", "body">>}

(* Where the generator is: each state goes with one state of the frame,    *)
(* and what waits for a promise is in the state that waits.                *)
Stopped ==
  /\ awaits = 1 => state = "executing" /\ body = "awaiting"
  /\ returns = 1 => state = "awaiting_return" /\ asked[Head(queue)] = "return"
  /\ InBody <=> body = "running"
  /\ state = "executing" <=> body \in {"running", "awaiting"}
  /\ state \in {"completed", "awaiting_return"} <=> body = "freed"
  /\ state \in {"executing", "awaiting_return"} => queue # <<>>
  /\ InLoop /\ state = "executing" => body = "awaiting" /\ awaits = 0

AsyncTypes ==
  /\ state \in States /\ body \in Bodies
  /\ asked \in Seq(Magic) /\ queue \in Seq(Nat)
  /\ answers \in Seq(Nat \X {"value", "done", "reject"})
  /\ awaits \in 0 .. 1 /\ returns \in 0 .. 1
  /\ stack \in Stacks

AsyncInv == AsyncTypes /\ Numbered /\ Stopped

LEMMA AsyncStart == Init => AsyncInv
  BY DEF Init, AsyncInv, AsyncTypes, Numbered, Stopped, States, Bodies, Stacks, InBody, InLoop

(* A request is answered: it was the first in the queue.                   *)
LEMMA AnsweredInOrder ==
  ASSUME AsyncInv, queue # <<>>, NEW how \in {"value", "done", "reject"}, NEW base,
         resolve_or_reject(how, base), asked' = asked
  PROVE  /\ Numbered'
         /\ queue' \in Seq(Nat)
         /\ answers' \in Seq(Nat \X {"value", "done", "reject"})
  BY DEF AsyncInv, AsyncTypes, Numbered, resolve_or_reject

(* Short sequences: those of one or two elements are the tuples of them,   *)
(* and so are the beginnings of tuples.                                    *)
LEMMA ShortTuples ==
  ASSUME NEW S, NEW t \in Seq(S)
  PROVE  /\ Len(t) = 1 => t = <<t[1]>>
         /\ Len(t) = 2 => t = <<t[1], t[2]>>
         /\ Len(t) = 3 => t = <<t[1], t[2], t[3]>>
  OBVIOUS

LEMMA Beginnings ==
  ASSUME NEW S, NEW s \in Seq(S), NEW n \in 0 .. Len(s)
  PROVE  /\ SubSeq(s, 1, n) \in Seq(S) /\ Len(SubSeq(s, 1, n)) = n
         /\ \A i \in 1 .. n : SubSeq(s, 1, n)[i] = s[i]
  OBVIOUS

LEMMA PairEnds ==
  ASSUME NEW a, NEW b
  PROVE  /\ Len(<<a, b>>) = 2 /\ <<a, b>>[2] = b
         /\ SubSeq(<<a, b>>, 1, 1) = <<a>> /\ SubSeq(<<a, b>>, 1, 0) = <<>>
<1> DEFINE t == <<a, b>>
<1>1. t \in Seq({a, b}) /\ Len(t) = 2 /\ t[1] = a /\ t[2] = b
  OBVIOUS
<1>2. SubSeq(<<a, b>>, 1, 0) = <<>>
  OBVIOUS
<1> HIDE DEF t
<1>3. SubSeq(t, 1, 1) \in Seq({a, b}) /\ Len(SubSeq(t, 1, 1)) = 1 /\ SubSeq(t, 1, 1)[1] = a
  BY <1>1, Beginnings
<1>4. SubSeq(t, 1, 1) = <<a>>
  BY <1>3, ShortTuples
<1> QED
  BY <1>1, <1>2, <1>4 DEF t

LEMMA TripleEnds ==
  ASSUME NEW a, NEW b, NEW c
  PROVE  /\ Len(<<a, b, c>>) = 3 /\ <<a, b, c>>[3] = c
         /\ SubSeq(<<a, b, c>>, 1, 2) = <<a, b>> /\ SubSeq(<<a, b, c>>, 1, 1) = <<a>>
<1> DEFINE S == {a, b, c}
           t == <<a, b, c>>
<1>1. t \in Seq(S) /\ Len(t) = 3 /\ t[1] = a /\ t[2] = b /\ t[3] = c
  OBVIOUS
<1> HIDE DEF S, t
<1>2. /\ SubSeq(t, 1, 1) \in Seq(S) /\ Len(SubSeq(t, 1, 1)) = 1 /\ SubSeq(t, 1, 1)[1] = a
      /\ SubSeq(t, 1, 2) \in Seq(S) /\ Len(SubSeq(t, 1, 2)) = 2
      /\ SubSeq(t, 1, 2)[1] = a /\ SubSeq(t, 1, 2)[2] = b
  BY <1>1, Beginnings
<1>3. SubSeq(t, 1, 1) = <<a>> /\ SubSeq(t, 1, 2) = <<a, b>>
  BY <1>2, ShortTuples
<1> QED
  BY <1>1, <1>3 DEF t

LEMMA PushedTuples ==
  ASSUME NEW a, NEW b, NEW c
  PROVE  Append(<<a>>, b) = <<a, b>> /\ Append(<<a, b>>, c) = <<a, b, c>>
<1>1. <<a>> \in Seq({a, b, c}) /\ <<a, b>> \in Seq({a, b, c})
  OBVIOUS
<1>2. /\ Append(<<a>>, b) \in Seq({a, b, c}) /\ Len(Append(<<a>>, b)) = 2
      /\ Append(<<a>>, b)[1] = a /\ Append(<<a>>, b)[2] = b
  BY <1>1
<1>3. /\ Append(<<a, b>>, c) \in Seq({a, b, c}) /\ Len(Append(<<a, b>>, c)) = 3
      /\ Append(<<a, b>>, c)[1] = a /\ Append(<<a, b>>, c)[2] = b /\ Append(<<a, b>>, c)[3] = c
  BY <1>1
<1> QED
  BY <1>2, <1>3, ShortTuples

(* What is left of the C stack when frames are taken off and put on.       *)
LEMMA StackShapes ==
  ASSUME NEW s \in Stacks, s # <<>>
  PROVE  /\ s[Len(s)] \in {"script", "resume_next", "body"}
         /\ s[Len(s)] = "script" =>
              /\ s = <<"script">> /\ SubSeq(s, 1, Len(s) - 1) = <<>>
              /\ Append(s, "resume_next") = <<"script", "resume_next">>
         /\ s[Len(s)] = "resume_next" =>
              /\ SubSeq(s, 1, Len(s) - 1) \in {<<>>, <<"script">>}
              /\ Append(s, "body") \in {<<"resume_next", "body">>, <<"script", "resume_next", "body">>}
         /\ s[Len(s)] = "body" =>
              /\ SubSeq(s, 1, Len(s) - 1) \in {<<"resume_next">>, <<"script", "resume_next">>}
              /\ SubSeq(s, 1, Len(s) - 2) \in {<<>>, <<"script">>}
<1>1. CASE s = <<"script">>
  <2>1. Len(s) = 1 /\ s[1] = "script" /\ SubSeq(s, 1, 0) = <<>>
    BY <1>1
  <2>2. Append(s, "resume_next") = <<"script", "resume_next">>
    BY <1>1, PushedTuples
  <2> QED
    BY <1>1, <2>1, <2>2
<1>2. CASE s = <<"resume_next">>
  <2>1. Len(s) = 1 /\ s[1] = "resume_next" /\ SubSeq(s, 1, 0) = <<>>
    BY <1>2
  <2>2. Append(s, "body") = <<"resume_next", "body">>
    BY <1>2, PushedTuples
  <2> QED
    BY <2>1, <2>2
<1>3. CASE s = <<"script", "resume_next">>
  <2>1. Len(s) = 2 /\ s[2] = "resume_next" /\ SubSeq(s, 1, 1) = <<"script">>
    BY <1>3, PairEnds
  <2>2. Append(s, "body") = <<"script", "resume_next", "body">>
    BY <1>3, PushedTuples
  <2> QED
    BY <2>1, <2>2
<1>4. CASE s = <<"resume_next", "body">>
  <2>1. Len(s) = 2 /\ s[2] = "body" /\ SubSeq(s, 1, 1) = <<"resume_next">> /\ SubSeq(s, 1, 0) = <<>>
    BY <1>4, PairEnds
  <2> QED
    BY <2>1
<1>5. CASE s = <<"script", "resume_next", "body">>
  <2>1. Len(s) = 3 /\ s[3] = "body"
    BY <1>5, TripleEnds
  <2>2. SubSeq(s, 1, 2) = <<"script", "resume_next">> /\ SubSeq(s, 1, 1) = <<"script">>
    BY <1>5, TripleEnds
  <2> QED
    BY <2>1, <2>2
<1> QED
  BY <1>1, <1>2, <1>3, <1>4, <1>5 DEF Stacks

(* Where the tops of the stack are.                                        *)
LEMMA InductiveTops ==
  ASSUME stack \in Stacks
  PROVE  /\ InCode /\ ~InBody => stack = <<"script">> /\ Append(stack, "resume_next") = <<"script", "resume_next">>
         /\ InLoop => Pop \in {<<>>, <<"script">>}
                      /\ Append(stack, "body") \in {<<"resume_next", "body">>, <<"script", "resume_next", "body">>}
         /\ InBody => /\ Pop \in {<<"resume_next">>, <<"script", "resume_next">>}
                      /\ SubSeq(stack, 1, Len(stack) - 2) \in {<<>>, <<"script">>}
         /\ (stack # <<>> /\ Top = "script") => Pop = <<>>
  BY StackShapes DEF InCode, InBody, InLoop, Top, Pop, Code

(* InLoop and InBody of the stacks that the steps leave.                   *)
Outside(s) == s \in Stacks /\ (s = <<>> \/ s[Len(s)] = "script")
Looping(s) == s \in Stacks /\ s # <<>> /\ s[Len(s)] = "resume_next"
Within(s) == s \in Stacks /\ s # <<>> /\ s[Len(s)] = "body"

LEMMA NamedStacks ==
  /\ \A s \in {<<>>, <<"script">>} : Outside(s)
  /\ \A s \in {<<"resume_next">>, <<"script", "resume_next">>} : Looping(s)
  /\ \A s \in {<<"resume_next", "body">>, <<"script", "resume_next", "body">>} : Within(s)
  BY PairEnds, TripleEnds DEF Outside, Looping, Within, Stacks

LEMMA StackMoves ==
  ASSUME stack \in Stacks
  PROVE  /\ InCode /\ ~InBody => Outside(stack) /\ Looping(Append(stack, "resume_next"))
         /\ InLoop => Outside(Pop) /\ Within(Append(stack, "body"))
         /\ InBody => Looping(Pop) /\ Outside(SubSeq(stack, 1, Len(stack) - 2))
         /\ (stack # <<>> /\ Top = "script") => Outside(Pop)
         /\ Outside(stack) \/ InLoop \/ InBody
  BY InductiveTops, NamedStacks, StackShapes DEF Outside, Looping, Within, InCode, InLoop, InBody, Top, Code

LEMMA Positions ==
  /\ Outside(stack) => ~InLoop /\ ~InBody
  /\ Looping(stack) <=> stack \in Stacks /\ InLoop
  /\ Within(stack) <=> stack \in Stacks /\ InBody
  BY DEF Outside, Looping, Within, InLoop, InBody, Top

LEMMA NextPositions ==
  /\ Outside(stack') => stack' \in Stacks /\ ~InLoop' /\ ~InBody'
  /\ Looping(stack') => stack' \in Stacks /\ InLoop' /\ ~InBody'
  /\ Within(stack') => stack' \in Stacks /\ InBody' /\ ~InLoop'
  BY DEF Outside, Looping, Within, InLoop, InBody, Top

LEMMA AsyncStep ==
  ASSUME AsyncInv, [Next]_vars
  PROVE  AsyncInv'
<1> USE DEF AsyncInv
<1>0. stack \in Stacks
  BY DEF AsyncTypes
<1>1. ASSUME NEW magic \in Magic, js_async_generator_next(magic)
      PROVE  AsyncInv'
  <2>1. /\ asked \in Seq(Magic) /\ queue \in Seq(Nat) /\ queue' = Append(queue, Len(asked) + 1)
        /\ asked' = Append(asked, magic)
        /\ UNCHANGED <<state, body, answers, awaits, returns>>
    BY <1>1 DEF js_async_generator_next, Enqueued, AsyncTypes
  <2>2. Numbered' /\ queue' # <<>> /\ asked' \in Seq(Magic) /\ queue' \in Seq(Nat)
    <3> DEFINE a == Len(answers)
               q == Len(queue)
    <3>0. a \in Nat /\ q \in Nat
      BY DEF AsyncTypes
    <3>1. /\ a + q = Len(asked)
          /\ \A j \in 1 .. q : queue[j] = a + j
          /\ \A i \in 1 .. a : answers[i][1] = i
      BY DEF Numbered
    <3>2. /\ queue' \in Seq(Nat) /\ Len(queue') = q + 1 /\ queue' # <<>>
          /\ asked' \in Seq(Magic) /\ Len(asked') = Len(asked) + 1 /\ Len(answers') = a
      BY <2>1
    <3>3. queue'[q + 1] = Len(asked) + 1 /\ \A j \in 1 .. q : queue'[j] = queue[j]
      BY <2>1
    <3> HIDE DEF a, q
    <3>4. queue'[q + 1] = a + (q + 1)
      BY <3>0, <3>1, <3>3
    <3>5. \A j \in 1 .. q + 1 : queue'[j] = a + j
      BY <3>0, <3>1, <3>3, <3>4
    <3>6. a + (q + 1) = Len(asked')
      BY <3>0, <3>1, <3>2
    <3> QED
      BY <2>1, <3>1, <3>2, <3>5, <3>6 DEF Numbered
  <2>3. returns = 1 => asked'[Head(queue')] = "return"
    <3>1. SUFFICES ASSUME returns = 1 PROVE asked'[Head(queue')] = "return"
      OBVIOUS
    <3>2. queue # <<>> /\ asked[Head(queue)] = "return"
      BY <3>1 DEF Stopped
    <3>3. Head(queue') = Head(queue) /\ Head(queue) = Len(answers) + 1 /\ Head(queue) \in 1 .. Len(asked)
      BY <2>1, <3>2 DEF Numbered, AsyncTypes
    <3> QED
      BY <2>1, <3>2, <3>3
  <2>4. CASE InBody
    <3>1. state = "executing" /\ stack' = stack
      BY <1>1, <2>4 DEF js_async_generator_next, Stopped, ResumeNow
    <3>2. (InBody' <=> InBody) /\ (InLoop' <=> InLoop) /\ stack' \in Stacks
      BY <1>0, <3>1 DEF InBody, InLoop, Top
    <3>3. AsyncTypes'
      BY <2>1, <2>2, <3>2 DEF AsyncTypes
    <3>4. Stopped'
      BY <2>1, <2>2, <2>3, <3>1, <3>2 DEF Stopped
    <3> QED
      BY <2>2, <3>3, <3>4
  <2>5. CASE ~InBody
    <3>1. Outside(stack) /\ ~InLoop /\ ~InBody /\ Looping(Append(stack, "resume_next"))
      BY <1>0, <1>1, <2>5, StackMoves, Positions DEF js_async_generator_next
    <3>2. \/ state # "executing" /\ stack' \in Stacks /\ InLoop' /\ ~InBody'
          \/ state = "executing" /\ stack' \in Stacks /\ ~InLoop' /\ ~InBody'
      <4>1. stack' = IF state # "executing" THEN Append(stack, "resume_next") ELSE stack
        BY <1>1 DEF js_async_generator_next, ResumeNow
      <4>2. Looping(stack') \/ Outside(stack')
        BY <3>1, <4>1
      <4> QED
        BY <3>1, <4>1, <4>2, NextPositions
    <3>3. AsyncTypes'
      BY <2>1, <2>2, <3>2 DEF AsyncTypes
    <3>4. Stopped'
      BY <2>1, <2>2, <2>3, <3>1, <3>2 DEF Stopped
    <3> QED
      BY <2>2, <3>3, <3>4
  <2> QED
    BY <2>4, <2>5
<1>2. CASE ResumeNextEnds
  <2>1. /\ InLoop /\ ~InBody /\ (queue = <<>> \/ state = "awaiting_return")
        /\ stack' \in Stacks /\ ~InLoop' /\ ~InBody'
        /\ UNCHANGED <<state, body, queue, asked, answers, awaits, returns>>
    BY <1>0, <1>2, StackMoves, NextPositions DEF ResumeNextEnds, InLoop, InBody
  <2> QED
    BY <2>1 DEF AsyncTypes, Numbered, Stopped
<1>3. CASE NeverStarted
  <2>1. state = "start" /\ body' = "freed" /\ state' = "completed" /\ awaits = 0 /\ returns = 0
    BY <1>3 DEF NeverStarted, js_async_generator_complete, Stopped, AsyncTypes
  <2>2. UNCHANGED <<queue, asked, answers, awaits, returns, stack>>
    BY <1>3 DEF NeverStarted
  <2>3. InLoop /\ InLoop' /\ ~InBody /\ ~InBody'
    BY <1>3, <2>2 DEF NeverStarted, InLoop, InBody, Top
  <2>4. AsyncTypes' /\ Numbered'
    BY <2>1, <2>2 DEF AsyncTypes, Numbered, States, Bodies
  <2> QED
    BY <2>1, <2>2, <2>3, <2>4 DEF Stopped
<1>4. CASE Completed
  <2>1. asked[Head(queue)] \in Magic
    <3>1. Head(queue) = Len(answers) + 1 /\ Len(answers) + 1 \in 1 .. Len(asked)
      <4>1. queue # <<>> /\ queue \in Seq(Nat) /\ answers \in Seq(Nat \X {"value", "done", "reject"})
            /\ Len(queue) # 0 /\ asked \in Seq(Magic)
        BY <1>4 DEF Completed, AsyncTypes
      <4> QED
        BY <4>1 DEF Numbered
    <3> QED
      BY <3>1 DEF AsyncTypes
  <2>2. Outside(stack') /\ ~InLoop' /\ ~InBody' /\ stack' \in Stacks /\ ~InBody
    <3>1. InLoop /\ stack' = Pop
      BY <1>4, <2>1 DEF Completed, resolve_or_reject, Magic
    <3> QED
      BY <1>0, <3>1, StackMoves, NextPositions, Positions DEF InLoop, InBody
  <2>3. state = "completed" /\ body = "freed" /\ queue # <<>> /\ UNCHANGED <<body, asked, awaits>>
        /\ returns = 0 /\ awaits = 0
    BY <1>4 DEF Completed, Stopped, AsyncTypes
  <2>4. CASE asked[Head(queue)] = "return"
    <3>1. /\ state' = "awaiting_return" /\ returns' \in 0 .. 1 /\ UNCHANGED <<queue, answers>>
      BY <1>4, <2>3, <2>4 DEF Completed, AwaitingReturn, registered
    <3> QED
      BY <2>2, <2>3, <2>4, <3>1 DEF AsyncTypes, Numbered, Stopped, States, Bodies
  <2>5. ASSUME NEW how \in {"done", "reject"}, resolve_or_reject(how, Pop), UNCHANGED <<state, returns>>
        PROVE  AsyncInv'
    <3>1. /\ Numbered' /\ queue' \in Seq(Nat)
          /\ answers' \in Seq(Nat \X {"value", "done", "reject"})
      BY <2>3, <2>5, AnsweredInOrder
    <3> QED
      BY <2>2, <2>3, <2>5, <3>1 DEF AsyncTypes, Stopped
  <2> QED
    BY <1>4, <2>1, <2>4, <2>5 DEF Completed, Magic
<1>5. CASE Resume
  <2>1. InLoop /\ queue # <<>> /\ state' = "executing" /\ body' = "running"
        /\ UNCHANGED <<queue, asked, answers, awaits, returns>>
    BY <1>5 DEF Resume
  <2>2. stack' \in Stacks /\ InBody' /\ ~InLoop'
    BY <1>0, <1>5, <2>1, StackMoves, NextPositions DEF Resume
  <2>3. awaits = 0 /\ returns = 0
    BY <1>5, <2>1 DEF Resume, Stopped, AsyncTypes
  <2> QED
    BY <2>1, <2>2, <2>3 DEF AsyncTypes, Numbered, Stopped, States, Bodies
<1>6. ASSUME InBody, NEW how \in {"value", "done", "reject"}, resolve_or_reject(how, Pop),
             UNCHANGED <<asked, awaits, returns>>,
             \/ state' \in {"yield", "yield_star"} /\ body' = "yielded"
             \/ state' = "completed" /\ body' = "freed"
      PROVE  AsyncInv'
  <2>1. state = "executing" /\ body = "running" /\ queue # <<>> /\ awaits = 0 /\ returns = 0
    BY <1>6 DEF Stopped, AsyncTypes
  <2>2. stack' \in Stacks /\ InLoop' /\ ~InBody'
    BY <1>0, <1>6, StackMoves, NextPositions DEF resolve_or_reject
  <2>3. /\ Numbered' /\ queue' \in Seq(Nat)
        /\ answers' \in Seq(Nat \X {"value", "done", "reject"})
    BY <1>6, <2>1, AnsweredInOrder
  <2> QED
    BY <1>6, <2>1, <2>2, <2>3 DEF AsyncTypes, Stopped, States, Bodies
<1>7. CASE Yield
  BY <1>6, <1>7 DEF Yield
<1>8. CASE BodyEnds
  <2>1. InBody /\ state' = "completed" /\ body' = "freed" /\ UNCHANGED <<asked, awaits, returns>>
    BY <1>8 DEF BodyEnds, js_async_generator_complete, Stopped
  <2>2. PICK how \in {"done", "reject"} : resolve_or_reject(how, Pop)
    BY <1>8 DEF BodyEnds
  <2> QED
    BY <1>6, <2>1, <2>2
<1>9. CASE js_async_generator_await
  <2>1. InBody /\ body' = "awaiting" /\ UNCHANGED <<state, queue, asked, answers, returns>>
    BY <1>9 DEF js_async_generator_await
  <2>2. stack' \in Stacks /\ ~InLoop' /\ ~InBody'
    BY <1>0, <1>9, <2>1, StackMoves, NextPositions DEF js_async_generator_await
  <2>3. state = "executing" /\ awaits = 0 /\ returns = 0 /\ queue # <<>>
    BY <2>1 DEF Stopped, AsyncTypes
  <2>4. awaits' \in 0 .. 1
    BY <1>9, <2>3 DEF js_async_generator_await, registered
  <2> QED
    BY <2>1, <2>2, <2>3, <2>4 DEF AsyncTypes, Numbered, Stopped, States, Bodies
<1>10. CASE AwaitSettled
  <2>1. stack' = <<"resume_next">> /\ awaits = 1 /\ awaits' = 0 /\ stack = <<>>
        /\ UNCHANGED <<state, body, queue, asked, answers, returns>>
    BY <1>10 DEF AwaitSettled, AsyncTypes
  <2>2. stack' \in Stacks /\ InLoop' /\ ~InBody'
    BY <2>1, NamedStacks, NextPositions
  <2> QED
    BY <2>1, <2>2 DEF AsyncTypes, Numbered, Stopped
<1>11. CASE ReturnSettled
  <2>1. /\ stack = <<>> /\ stack' = <<>> /\ returns = 1 /\ returns' = 0 /\ state' = "completed"
        /\ UNCHANGED <<body, asked, awaits>>
    BY <1>11 DEF ReturnSettled, resolve_or_reject, AsyncTypes
  <2>2. state = "awaiting_return" /\ queue # <<>> /\ body = "freed" /\ awaits = 0
    BY <2>1 DEF Stopped, AsyncTypes
  <2>3. PICK how \in {"done", "reject"} : resolve_or_reject(how, <<>>)
    BY <1>11 DEF ReturnSettled
  <2>4. /\ Numbered' /\ queue' \in Seq(Nat)
        /\ answers' \in Seq(Nat \X {"value", "done", "reject"})
    BY <2>1, <2>2, <2>3, AnsweredInOrder
  <2>5. stack' \in Stacks /\ ~InLoop' /\ ~InBody'
    BY <2>1, NamedStacks, NextPositions
  <2> QED
    BY <2>1, <2>2, <2>4, <2>5 DEF AsyncTypes, Stopped, States, Bodies
<1>12. CASE JS_Eval
  <2>1. stack = <<>> /\ stack' = <<"script">>
        /\ UNCHANGED <<state, body, queue, asked, answers, awaits, returns>>
    BY <1>12 DEF JS_Eval
  <2>2. stack' \in Stacks /\ ~InLoop' /\ ~InBody' /\ ~InBody /\ ~InLoop
    BY <1>0, <2>1, NamedStacks, NextPositions, Positions
  <2> QED
    BY <2>1, <2>2 DEF AsyncTypes, Numbered, Stopped
<1>13. CASE Leave
  <2>1. stack # <<>> /\ Top = "script" /\ stack' = Pop
        /\ UNCHANGED <<state, body, queue, asked, answers, awaits, returns>>
    BY <1>13 DEF Leave
  <2>2. stack' \in Stacks /\ ~InLoop' /\ ~InBody' /\ ~InBody
    BY <1>0, <2>1, StackMoves, NextPositions DEF InBody
  <2> QED
    BY <2>1, <2>2 DEF AsyncTypes, Numbered, Stopped
<1>14. CASE UNCHANGED vars
  BY <1>14 DEF vars, AsyncTypes, Numbered, Stopped, InBody, InLoop, Top
<1> QED
  BY <1>1, <1>2, <1>3, <1>4, <1>5, <1>7, <1>8, <1>9, <1>10, <1>11, <1>12, <1>13, <1>14 DEF Next

LEMMA AsyncInvariant == Spec => []AsyncInv
<1>1. Init => AsyncInv
  BY AsyncStart
<1>2. AsyncInv /\ [Next]_vars => AsyncInv'
  BY AsyncStep
<1> QED
  BY <1>1, <1>2, PTL DEF Spec

LEMMA Concatenated ==
  ASSUME NEW S, NEW s \in Seq(S), NEW t \in Seq(S), NEW i \in 1 .. Len(s) + Len(t)
  PROVE  (s \o t)[i] = IF i <= Len(s) THEN s[i] ELSE t[i - Len(s)]
  OBVIOUS

LEMMA SameSequence ==
  ASSUME NEW S, NEW s \in Seq(S), NEW t \in Seq(S), Len(s) = Len(t),
         \A i \in 1 .. Len(s) : s[i] = t[i]
  PROVE  s = t
  OBVIOUS

LEMMA Ordered == AsyncInv => InOrder
<1> SUFFICES ASSUME AsyncInv PROVE InOrder
  OBVIOUS
<1> DEFINE f == [i \in DOMAIN answers |-> answers[i][1]]
           g == [i \in DOMAIN asked |-> i]
           a == Len(answers)
           q == Len(queue)
           n == Len(asked)
<1>1. /\ answers \in Seq(Nat \X {"value", "done", "reject"}) /\ asked \in Seq(Magic)
      /\ a \in Nat /\ q \in Nat /\ n \in Nat /\ a + q = n
      /\ \A i \in 1 .. a : answers[i][1] = i
      /\ \A j \in 1 .. q : queue[j] = a + j
  BY DEF AsyncInv, AsyncTypes, Numbered
<1>2. f \in Seq(Nat) /\ Len(f) = a /\ \A i \in 1 .. a : f[i] = i
  BY <1>1
<1>3. g \in Seq(Nat) /\ Len(g) = n /\ \A i \in 1 .. n : g[i] = i
  BY <1>1
<1>4. queue \in Seq(Nat) /\ Len(queue) = q
  BY DEF AsyncInv, AsyncTypes
<1> HIDE DEF f, g, a, q, n
<1>5. f \o queue \in Seq(Nat) /\ Len(f \o queue) = n
  BY <1>1, <1>2, <1>4
<1>6. ASSUME NEW i \in 1 .. n
      PROVE  (f \o queue)[i] = i
  <2>1. CASE i <= a
    BY <1>1, <1>2, <1>4, <2>1, Concatenated
  <2>2. CASE ~(i <= a)
    <3>1. i - a \in 1 .. q
      BY <1>1, <2>2
    <3>2. (f \o queue)[i] = queue[i - a]
      BY <1>1, <1>2, <1>4, <2>2, Concatenated
    <3>3. queue[i - a] = a + (i - a)
      BY <1>1, <3>1
    <3> QED
      BY <1>1, <3>2, <3>3
  <2> QED
    BY <2>1, <2>2
<1>7. \A i \in 1 .. n : (f \o queue)[i] = g[i]
  BY <1>3, <1>6
<1>8. f \o queue = g
  BY <1>3, <1>5, <1>7, SameSequence
<1> QED
  BY <1>8 DEF f, g, InOrder

(* There is at most one run of the body, and it is at the top.             *)
LEMMA OneRun ==
  ASSUME stack \in Stacks
  PROVE  Runs = IF InBody THEN {Len(stack)} ELSE {}
<1>1. CASE stack = <<>>
  BY <1>1 DEF Runs, InBody
<1>2. CASE stack = <<"script">>
  BY <1>2 DEF Runs, InBody, Top
<1>3. CASE stack = <<"resume_next">>
  BY <1>3 DEF Runs, InBody, Top
<1>4. CASE stack = <<"script", "resume_next">>
  BY <1>4 DEF Runs, InBody, Top
<1>5. CASE stack = <<"resume_next", "body">>
  BY <1>5 DEF Runs, InBody, Top
<1>6. CASE stack = <<"script", "resume_next", "body">>
  BY <1>6 DEF Runs, InBody, Top
<1> QED
  BY <1>1, <1>2, <1>3, <1>4, <1>5, <1>6 DEF Stacks

LEMMA Resumed == AsyncInv => ResumedWhereStopped
<1> SUFFICES ASSUME AsyncInv PROVE ResumedWhereStopped
  OBVIOUS
<1>1. Runs = IF InBody THEN {Len(stack)} ELSE {}
  BY OneRun DEF AsyncInv, AsyncTypes
<1>2. Cardinality(Runs) <= 1 /\ (Runs # {} <=> InBody)
  <2>1. Cardinality({Len(stack)}) = 1 /\ Cardinality({}) = 0
    BY FS_EmptySet, FS_Singleton
  <2>2. CASE InBody
    <3>1. Runs = {Len(stack)}
      BY <1>1, <2>2
    <3>2. Cardinality(Runs) = 1 /\ Runs # {}
      BY <2>1, <3>1
    <3> QED
      BY <2>2, <3>2
  <2>3. CASE ~InBody
    <3>1. Runs = {}
      BY <1>1, <2>3
    <3> QED
      BY <2>1, <2>3, <3>1
  <2> QED
    BY <2>2, <2>3
<1> QED
  BY <1>2 DEF AsyncInv, Stopped, ResumedWhereStopped

(* The requests of an async generator are answered once each and in the    *)
(* order in which they were made, those not answered are in the queue: for *)
(* every number of requests and frames.                                    *)
THEOREM RequestsInOrder == Spec => []InOrder
BY AsyncInvariant, Ordered, PTL

(* The body is resumed only where it has stopped, a continuation finds the *)
(* generator in the state it was made for, and no freed frame is used.     *)
THEOREM OnlyWhereStopped == Spec => []ResumedWhereStopped
BY AsyncInvariant, Resumed, PTL

-----------------------------------------------------------------------------
(* Generators.  A C stack is a script and calls of js_generator_next, each *)
(* under the program code that it waits for.                               *)
CodeOf(w) == Program(IF w.on = "body" THEN "body" ELSE "inner", w.of)
Waiting == [at : {"next"}, of : Gen, on : Inner \cup {"body"}, magic : Methods, moved : BOOLEAN]

WellFormed(s) ==
  /\ s \in Seq(Frame)
  /\ s # <<>> => s[1] = Script /\ s[Len(s)].at # "next"
  /\ \A i \in 1 .. Len(s) :
       /\ s[i] = Script => i = 1
       /\ s[i].at = "next" => i < Len(s) /\ s[i + 1] = CodeOf(s[i])
       /\ s[i].at # "next" /\ i # 1 => s[i - 1].at = "next"

(* The calls that wait for code of g on a stack, and the runs of its body. *)
WaitsOn(s, g) == \E i \in 1 .. Len(s) : WaitsInner(s[i], g) /\ ~s[i].moved
Body(s, g) == {i \in 1 .. Len(s) : s[i] = Program("body", g)}

FrameOf(st) == CASE st = "executing" -> "running"
                 [] st = "completed" -> "freed"
                 [] OTHER -> st

Matching(s, st, fr) ==
  /\ st \in [Gen -> Statuses] /\ fr = [g \in Gen |-> FrameOf(st[g])]
  /\ WellFormed(s)
  /\ \A g \in Gen :
       /\ Body(s, g) # {} <=> st[g] = "executing"
       /\ \A i, j \in Body(s, g) : i = j
       /\ WaitsOn(s, g) => st[g] = "yield_star"

GeneratorInv == Matching(calls, status, frame)

LEMMA FrameKinds ==
  ASSUME NEW f \in Frame
  PROVE  /\ f = Script \/ (\E g \in Gen : f = Program("body", g) \/ f = Program("inner", g)) \/ f \in Waiting
         /\ f.at = "next" <=> f \in Waiting
         /\ f.at = "body" <=> \E g \in Gen : f = Program("body", g)
         /\ f.at = "inner" <=> \E g \in Gen : f = Program("inner", g)
         /\ f.at = "script" <=> f = Script
  BY DEF Frame, Script, Program, Waiting

(* What is left when the code at the top and the call that waits for it go. *)
LEMMA Returned ==
  ASSUME NEW s, WellFormed(s), s # <<>>, s[Len(s)] # Script
  PROVE  /\ Len(s) >= 3 /\ s[Len(s) - 1] \in Waiting /\ s[Len(s)] = CodeOf(s[Len(s) - 1])
         /\ WellFormed(SubSeq(s, 1, Len(s) - 2)) /\ SubSeq(s, 1, Len(s) - 2) # <<>>
         /\ Len(SubSeq(s, 1, Len(s) - 2)) = Len(s) - 2
         /\ \A i \in 1 .. Len(s) - 2 : SubSeq(s, 1, Len(s) - 2)[i] = s[i]
<1> DEFINE n == Len(s)
           r == SubSeq(s, 1, n - 2)
<1>1. s \in Seq(Frame) /\ n \in Nat /\ n >= 1 /\ \A i \in 1 .. n : s[i] \in Frame
  BY DEF WellFormed
<1>2. n # 1 /\ s[n].at # "next" /\ s[1] = Script
  BY <1>1 DEF WellFormed
<1>3. s[n - 1].at = "next" /\ n - 1 \in 1 .. n
  BY <1>1, <1>2 DEF WellFormed
<1>4. s[n - 1] \in Waiting /\ s[n] = CodeOf(s[n - 1])
  BY <1>1, <1>3, FrameKinds DEF WellFormed
<1>5. n - 1 # 1
  <2>1. Script.at = "script"
    BY DEF Script
  <2>2. CASE n - 1 = 1
    <3>1. s[1].at = "next"
      BY <1>3, <2>2
    <3> QED
      BY <1>2, <2>1, <3>1
  <2> QED
    BY <2>2
<1>6. n >= 3 /\ r \in Seq(Frame) /\ Len(r) = n - 2 /\ r # <<>> /\ \A i \in 1 .. n - 2 : r[i] = s[i]
  <2>0. n \in Nat /\ n >= 1 /\ n # 1 /\ n - 1 # 1
    BY <1>1, <1>2, <1>5
  <2>1. n >= 3 /\ n - 2 \in 0 .. n
    <3> HIDE DEF n
    <3> QED
      BY <2>0
  <2>2. r \in Seq(Frame) /\ Len(r) = n - 2 /\ \A i \in 1 .. n - 2 : r[i] = s[i]
    BY <1>1, <2>1, Beginnings
  <2> HIDE DEF r, n
  <2>3. r # <<>>
    <3>1. Len(r) # 0
      BY <2>0, <2>1, <2>2
    <3> QED
      BY <3>1
  <2> QED
    BY <2>1, <2>2, <2>3
<1>7. s[n - 2].at # "next"
  <2>1. n - 2 \in 1 .. n
    BY <1>1, <1>6
  <2>2. SUFFICES ASSUME s[n - 2].at = "next" PROVE FALSE
    OBVIOUS
  <2>3. s[n - 1] = CodeOf(s[n - 2])
    BY <1>1, <2>1, <2>2 DEF WellFormed
  <2> QED
    BY <1>3, <2>3 DEF CodeOf, Program
<1> HIDE DEF r, n
<1>8. WellFormed(r)
  <2>1. r[1] = Script /\ r[Len(r)].at # "next"
    BY <1>1, <1>2, <1>6, <1>7
  <2>2. ASSUME NEW i \in 1 .. Len(r)
        PROVE  /\ r[i] = Script => i = 1
               /\ r[i].at = "next" => i < Len(r) /\ r[i + 1] = CodeOf(r[i])
               /\ r[i].at # "next" /\ i # 1 => r[i - 1].at = "next"
    <3>1. i \in 1 .. n /\ r[i] = s[i] /\ (i # 1 => r[i - 1] = s[i - 1]) /\ (i # n - 2 => r[i + 1] = s[i + 1])
      BY <1>1, <1>6
    <3>2. /\ s[i] = Script => i = 1
          /\ s[i].at = "next" => s[i + 1] = CodeOf(s[i])
          /\ s[i].at # "next" /\ i # 1 => s[i - 1].at = "next"
      BY <3>1 DEF WellFormed, n
    <3>3. s[i].at = "next" => i # n - 2
      BY <1>7
    <3>4. i # n - 2 => i < Len(r)
      BY <1>1, <1>6
    <3> QED
      BY <3>1, <3>2, <3>3, <3>4
  <2> QED
    BY <1>6, <2>1, <2>2 DEF WellFormed
<1> QED
  BY <1>4, <1>6, <1>8 DEF r, n

LEMMA ReturnedCode ==
  ASSUME NEW s, WellFormed(s), s # <<>>, s[Len(s)] # Script, NEW g \in Gen
  PROVE  /\ Body(SubSeq(s, 1, Len(s) - 2), g) = Body(s, g) \ {Len(s)}
         /\ WaitsOn(SubSeq(s, 1, Len(s) - 2), g) => WaitsOn(s, g)
<1> DEFINE n == Len(s)
           r == SubSeq(s, 1, n - 2)
<1>1. /\ n \in Nat /\ n >= 3 /\ Len(r) = n - 2 /\ \A i \in 1 .. n - 2 : r[i] = s[i]
      /\ s[n - 1].at = "next"
  BY Returned DEF Waiting, WellFormed
<1> HIDE DEF n, r
<1>2. Body(r, g) = {i \in 1 .. n - 2 : s[i] = Program("body", g)}
  BY <1>1 DEF Body
<1>3. Body(s, g) = {i \in 1 .. n : s[i] = Program("body", g)}
  BY DEF Body, n
<1>4. s[n - 1] # Program("body", g)
  BY <1>1 DEF Program
<1>5. Body(r, g) = Body(s, g) \ {n}
  BY <1>1, <1>2, <1>3, <1>4
<1>6. ASSUME WaitsOn(r, g) PROVE WaitsOn(s, g)
  <2>1. PICK i \in 1 .. n - 2 : WaitsInner(r[i], g) /\ ~r[i].moved
    BY <1>1, <1>6 DEF WaitsOn
  <2>2. i \in 1 .. n /\ s[i] = r[i]
    BY <1>1
  <2> QED
    BY <2>1, <2>2 DEF WaitsOn, n
<1> QED
  BY <1>5, <1>6 DEF n, r

(* js_generator_next is called: w waits for its code.                      *)
LEMMA Called ==
  ASSUME NEW s, WellFormed(s), s # <<>>, NEW w \in Waiting, NEW p, p = CodeOf(w)
  PROVE  /\ WellFormed(s \o <<w, p>>)
         /\ Len(s \o <<w, p>>) = Len(s) + 2
         /\ (s \o <<w, p>>)[Len(s) + 1] = w /\ (s \o <<w, p>>)[Len(s) + 2] = p
         /\ \A i \in 1 .. Len(s) : (s \o <<w, p>>)[i] = s[i]
<1> DEFINE n == Len(s)
           t == s \o <<w, p>>
<1>1. s \in Seq(Frame) /\ n \in Nat /\ w \in Frame /\ p \in Frame /\ w.at = "next" /\ p.at # "next"
      /\ p # Script /\ w # Script
  BY DEF WellFormed, Waiting, Frame, CodeOf, Program, Script
<1>2. <<w, p>> \in Seq(Frame) /\ Len(<<w, p>>) = 2 /\ <<w, p>>[1] = w /\ <<w, p>>[2] = p
  BY <1>1
<1>3. t \in Seq(Frame) /\ Len(t) = n + 2
  BY <1>1, <1>2
<1>4. \A i \in 1 .. n : t[i] = s[i]
  BY <1>1, <1>2
<1>5. t[n + 1] = w /\ t[n + 2] = p
  BY <1>1, <1>2
<1>6. /\ n >= 1 /\ s[1] = Script /\ s[n].at # "next"
      /\ \A i \in 1 .. n :
           /\ s[i] = Script => i = 1
           /\ s[i].at = "next" => i < n /\ s[i + 1] = CodeOf(s[i])
           /\ s[i].at # "next" /\ i # 1 => s[i - 1].at = "next"
  BY <1>1 DEF WellFormed
<1> HIDE DEF t, n
<1>7. t[1] = Script /\ t[Len(t)].at # "next"
  BY <1>1, <1>3, <1>4, <1>5, <1>6
<1>8. ASSUME NEW i \in 1 .. n + 2
      PROVE  /\ t[i] = Script => i = 1
             /\ t[i].at = "next" => i < n + 2 /\ t[i + 1] = CodeOf(t[i])
             /\ t[i].at # "next" /\ i # 1 => t[i - 1].at = "next"
  <2>1. CASE i \in 1 .. n
    <3>1. /\ s[i] = Script => i = 1
          /\ s[i].at = "next" => i < n /\ s[i + 1] = CodeOf(s[i])
          /\ s[i].at # "next" /\ i # 1 => s[i - 1].at = "next"
      BY <1>6, <2>1
    <3>2. /\ t[i] = s[i] /\ (i # 1 => t[i - 1] = s[i - 1])
          /\ i < n => t[i + 1] = s[i + 1] /\ i < n + 2
      BY <1>1, <1>4, <2>1
    <3> QED
      BY <3>1, <3>2
  <2>2. CASE i = n + 1
    <3>1. t[i] = w /\ t[i + 1] = p /\ i < n + 2
      BY <1>1, <1>5, <2>2
    <3> QED
      BY <1>1, <3>1
  <2>3. CASE i = n + 2
    <3>1. t[i] = p /\ t[i - 1] = w
      BY <1>1, <1>5, <2>3
    <3> QED
      BY <1>1, <3>1
  <2> QED
    BY <1>1, <2>1, <2>2, <2>3
<1>9. WellFormed(t)
  BY <1>3, <1>7, <1>8 DEF WellFormed
<1> QED
  BY <1>3, <1>4, <1>5, <1>9 DEF t, n

LEMMA CalledCode ==
  ASSUME NEW s, WellFormed(s), s # <<>>, NEW w \in Waiting, NEW p, p = CodeOf(w), NEW g \in Gen
  PROVE  /\ Body(s \o <<w, p>>, g) =
              Body(s, g) \cup IF w.on = "body" /\ w.of = g THEN {Len(s) + 2} ELSE {}
         /\ WaitsOn(s \o <<w, p>>, g) => WaitsOn(s, g) \/ WaitsInner(w, g)
<1> DEFINE n == Len(s)
           t == s \o <<w, p>>
<1>1. n \in Nat
  BY DEF WellFormed
<1>2. Len(t) = n + 2 /\ t[n + 1] = w /\ t[n + 2] = p /\ \A i \in 1 .. n : t[i] = s[i]
  BY Called
<1>3. w # Program("body", g) /\ (p = Program("body", g) <=> w.on = "body" /\ w.of = g)
      /\ ~WaitsInner(p, g)
  BY DEF CodeOf, Program, Waiting, WaitsInner
<1>4. Body(s, g) = {i \in 1 .. n : s[i] = Program("body", g)}
  BY DEF Body
<1> HIDE DEF t, n
<1>5. Body(t, g) = {i \in 1 .. n + 2 : t[i] = Program("body", g)}
  BY <1>2 DEF Body
<1>6. 1 .. n + 2 = (1 .. n) \cup {n + 1, n + 2}
  BY <1>1
<1>7. Body(t, g) = Body(s, g) \cup IF w.on = "body" /\ w.of = g THEN {n + 2} ELSE {}
  BY <1>2, <1>3, <1>4, <1>5, <1>6
<1>8. ASSUME WaitsOn(t, g), ~WaitsInner(w, g) PROVE WaitsOn(s, g)
  <2>1. PICK i \in 1 .. n + 2 : WaitsInner(t[i], g) /\ ~t[i].moved
    BY <1>2, <1>8 DEF WaitsOn
  <2>2. i \in 1 .. n
    BY <1>2, <1>3, <1>6, <1>8, <2>1
  <2> QED
    BY <1>2, <2>1, <2>2 DEF WaitsOn, n
<1> QED
  BY <1>7, <1>8 DEF t, n

(* The body of g is resumed: the calls that wait for code of g are marked. *)
Marked(s, g) ==
  [i \in DOMAIN s |-> IF WaitsInner(s[i], g) THEN [s[i] EXCEPT !.moved = TRUE] ELSE s[i]]

LEMMA MarkedCode ==
  ASSUME NEW s, WellFormed(s), s # <<>>, NEW g \in Gen
  PROVE  /\ WellFormed(Marked(s, g)) /\ Marked(s, g) # <<>>
         /\ ~WaitsOn(Marked(s, g), g)
         /\ \A h \in Gen : /\ Body(Marked(s, g), h) = Body(s, h)
                           /\ WaitsOn(Marked(s, g), h) => WaitsOn(s, h)
<1> DEFINE n == Len(s)
           m == Marked(s, g)
<1>1. s \in Seq(Frame) /\ n \in Nat /\ n >= 1 /\ \A i \in 1 .. n : s[i] \in Frame
  BY DEF WellFormed
<1>2. ASSUME NEW i \in 1 .. n
      PROVE  /\ m[i] \in Frame /\ (m[i].at = "next" <=> s[i].at = "next")
             /\ s[i].at # "next" => m[i] = s[i]
             /\ s[i].at = "next" => CodeOf(m[i]) = CodeOf(s[i])
             /\ ~(WaitsInner(m[i], g) /\ ~m[i].moved)
             /\ \A h \in Gen : WaitsInner(m[i], h) /\ ~m[i].moved => WaitsInner(s[i], h) /\ ~s[i].moved
  <2>1. m[i] = IF WaitsInner(s[i], g) THEN [s[i] EXCEPT !.moved = TRUE] ELSE s[i]
    <3>1. i \in DOMAIN s
      BY <1>1
    <3> QED
      BY <3>1 DEF Marked
  <2>2. CASE WaitsInner(s[i], g)
    <3>1. s[i] \in Waiting
      BY <1>1, <2>2, FrameKinds DEF WaitsInner
    <3>2. m[i] = [s[i] EXCEPT !.moved = TRUE]
      BY <2>1, <2>2
    <3>3. m[i] \in Waiting /\ m[i].at = "next" /\ m[i].on = s[i].on /\ m[i].of = s[i].of /\ m[i].moved
      BY <3>1, <3>2 DEF Waiting
    <3>4. m[i] \in Frame /\ s[i].at = "next"
      BY <3>1, <3>3 DEF Frame, Waiting
    <3> QED
      BY <3>3, <3>4 DEF CodeOf, WaitsInner
  <2>3. CASE ~WaitsInner(s[i], g)
    BY <1>1, <2>1, <2>3
  <2> QED
    BY <2>2, <2>3
<1>3. m \in Seq(Frame) /\ Len(m) = n
  <2>1. DOMAIN m = 1 .. n
    BY <1>1 DEF Marked
  <2>2. m = [i \in 1 .. n |-> m[i]]
    BY <1>1 DEF Marked
  <2>3. m \in [1 .. n -> Frame]
    BY <1>2, <2>1, <2>2
  <2> HIDE DEF m
  <2> QED
    BY <1>1, <2>3
<1>4. m # <<>>
  BY <1>1, <1>3
<1> HIDE DEF m, n
<1>5. WellFormed(m)
  <2>1. s[1] = Script /\ s[n].at # "next"
    BY <1>1 DEF WellFormed, n
  <2>2. m[1] = Script /\ m[n].at # "next"
    BY <1>1, <1>2, <2>1 DEF Script
  <2>3. ASSUME NEW i \in 1 .. n
        PROVE  /\ m[i] = Script => i = 1
               /\ m[i].at = "next" => i < n /\ m[i + 1] = CodeOf(m[i])
               /\ m[i].at # "next" /\ i # 1 => m[i - 1].at = "next"
    <3>1. /\ s[i] = Script => i = 1
          /\ s[i].at = "next" => i < n /\ s[i + 1] = CodeOf(s[i])
          /\ s[i].at # "next" /\ i # 1 => s[i - 1].at = "next"
      BY DEF WellFormed, n
    <3>2. m[i] = Script => s[i] = Script
      BY <1>2 DEF Script
    <3>3. ASSUME m[i].at = "next" PROVE i < n /\ m[i + 1] = CodeOf(m[i])
      <4>1. s[i].at = "next" /\ i < n /\ s[i + 1] = CodeOf(s[i]) /\ CodeOf(m[i]) = CodeOf(s[i])
        BY <1>2, <3>1, <3>3
      <4>2. i + 1 \in 1 .. n /\ s[i + 1].at # "next"
        BY <1>1, <4>1 DEF CodeOf, Program
      <4> QED
        BY <1>2, <4>1, <4>2
    <3>4. ASSUME m[i].at # "next", i # 1 PROVE m[i - 1].at = "next"
      <4>1. i - 1 \in 1 .. n /\ s[i - 1].at = "next"
        BY <1>1, <1>2, <3>1, <3>4
      <4> QED
        BY <1>2, <4>1
    <3> QED
      BY <3>1, <3>2, <3>3, <3>4
  <2> QED
    BY <1>3, <2>2, <2>3 DEF WellFormed
<1>6. ~WaitsOn(m, g)
  BY <1>2, <1>3 DEF WaitsOn
<1>7. ASSUME NEW h \in Gen
      PROVE  Body(m, h) = Body(s, h) /\ (WaitsOn(m, h) => WaitsOn(s, h))
  <2>1. ASSUME NEW i \in 1 .. n PROVE m[i] = Program("body", h) <=> s[i] = Program("body", h)
    BY <1>2 DEF Program
  <2>2. Body(m, h) = Body(s, h)
    BY <1>3, <2>1 DEF Body, n
  <2>3. WaitsOn(m, h) => WaitsOn(s, h)
    BY <1>2, <1>3 DEF WaitsOn, n
  <2> QED
    BY <2>2, <2>3
<1> QED
  BY <1>4, <1>5, <1>6, <1>7 DEF m

(* What the operations do to stack, states and frames together.            *)
LEMMA Renamed ==
  ASSUME NEW s, NEW st, NEW fr, Matching(s, st, fr), NEW g \in Gen, st[g] # "executing",
         NEW x \in Statuses \ {"executing"}, st[g] = "yield_star" => ~WaitsOn(s, g) \/ x = "yield_star"
  PROVE  Matching(s, [st EXCEPT ![g] = x], [fr EXCEPT ![g] = FrameOf(x)])
  BY DEF Matching

LEMMA CodeReturns ==
  ASSUME NEW s, NEW st, NEW fr, Matching(s, st, fr), s # <<>>, NEW g \in Gen,
         s[Len(s)] = Program("inner", g)
  PROVE  Matching(SubSeq(s, 1, Len(s) - 2), st, fr) /\ SubSeq(s, 1, Len(s) - 2) # <<>>
<1> DEFINE r == SubSeq(s, 1, Len(s) - 2)
<1>1. WellFormed(s) /\ s[Len(s)] # Script
  BY DEF Matching, Program, Script
<1>2. WellFormed(r) /\ r # <<>>
  BY <1>1, Returned
<1>3. ASSUME NEW h \in Gen
      PROVE  Body(r, h) = Body(s, h) /\ (WaitsOn(r, h) => WaitsOn(s, h))
  <2>1. Len(s) \notin Body(s, h)
    BY DEF Body, Program
  <2>2. Body(r, h) = Body(s, h) \ {Len(s)} /\ (WaitsOn(r, h) => WaitsOn(s, h))
    BY <1>1, ReturnedCode
  <2> QED
    BY <2>1, <2>2
<1> QED
  BY <1>2, <1>3 DEF Matching

LEMMA BodyStops ==
  ASSUME NEW s, NEW st, NEW fr, Matching(s, st, fr), s # <<>>, NEW g \in Gen,
         s[Len(s)] = Program("body", g), NEW x \in Statuses \ {"executing"}
  PROVE  /\ st[g] = "executing" /\ SubSeq(s, 1, Len(s) - 2) # <<>>
         /\ Matching(SubSeq(s, 1, Len(s) - 2), [st EXCEPT ![g] = x], [fr EXCEPT ![g] = FrameOf(x)])
<1> DEFINE r == SubSeq(s, 1, Len(s) - 2)
<1>1. WellFormed(s) /\ s[Len(s)] # Script /\ Len(s) \in 1 .. Len(s)
  BY DEF Matching, WellFormed, Program, Script
<1>2. WellFormed(r) /\ r # <<>>
  BY <1>1, Returned
<1>3. \A h \in Gen : Body(r, h) = Body(s, h) \ {Len(s)} /\ (WaitsOn(r, h) => WaitsOn(s, h))
  BY <1>1, ReturnedCode
<1>4. Len(s) \in Body(s, g) /\ \A h \in Gen : Len(s) \in Body(s, h) => h = g
  BY <1>1 DEF Body, Program
<1>5. st[g] = "executing" /\ Body(r, g) = {} /\ ~WaitsOn(r, g)
  BY <1>3, <1>4 DEF Matching
<1> HIDE DEF r
<1>7. \A h \in Gen \ {g} : Body(r, h) = Body(s, h)
  BY <1>3, <1>4
<1>8. Matching(r, [st EXCEPT ![g] = x], [fr EXCEPT ![g] = FrameOf(x)])
  BY <1>2, <1>3, <1>5, <1>7 DEF Matching
<1> QED
  BY <1>2, <1>5, <1>8 DEF r

LEMMA InnerAsked ==
  ASSUME NEW s, NEW st, NEW fr, Matching(s, st, fr), s # <<>>, NEW g \in Gen, st[g] = "yield_star",
         NEW w \in Waiting, w.of = g, w.on # "body"
  PROVE  Matching(s \o <<w, Program("inner", g)>>, st, fr)
<1> DEFINE t == s \o <<w, Program("inner", g)>>
<1>1. WellFormed(s) /\ Program("inner", g) = CodeOf(w)
  BY DEF Matching, CodeOf
<1>2. WellFormed(t)
  BY <1>1, Called
<1>3. ASSUME NEW h \in Gen
      PROVE  Body(t, h) = Body(s, h) /\ (WaitsOn(t, h) => WaitsOn(s, h) \/ h = g)
  <2>1. /\ Body(t, h) = Body(s, h) \cup IF w.on = "body" /\ w.of = h THEN {Len(s) + 2} ELSE {}
        /\ WaitsOn(t, h) => WaitsOn(s, h) \/ WaitsInner(w, h)
    BY <1>1, CalledCode
  <2> QED
    BY <2>1 DEF WaitsInner
<1> HIDE DEF t
<1>4. Matching(t, st, fr)
  BY <1>2, <1>3 DEF Matching
<1> QED
  BY <1>4 DEF t

LEMMA BodyResumed ==
  ASSUME NEW s, NEW st, NEW fr, Matching(s, st, fr), s # <<>>, NEW g \in Gen, st[g] # "executing",
         NEW w \in Waiting, w.of = g, w.on = "body"
  PROVE  Matching(Marked(s, g) \o <<w, Program("body", g)>>,
                  [st EXCEPT ![g] = "executing"], [fr EXCEPT ![g] = "running"])
<1> DEFINE m == Marked(s, g)
           t == m \o <<w, Program("body", g)>>
<1>1. WellFormed(s) /\ Program("body", g) = CodeOf(w)
  BY DEF Matching, CodeOf
<1>2. /\ WellFormed(m) /\ m # <<>> /\ ~WaitsOn(m, g)
      /\ \A h \in Gen : Body(m, h) = Body(s, h) /\ (WaitsOn(m, h) => WaitsOn(s, h))
  BY <1>1, MarkedCode
<1>3. WellFormed(t)
  BY <1>1, <1>2, Called
<1>4. ASSUME NEW h \in Gen
      PROVE  /\ Body(t, h) = Body(s, h) \cup IF h = g THEN {Len(m) + 2} ELSE {}
             /\ WaitsOn(t, h) => WaitsOn(s, h) /\ h # g
  <2>1. /\ Body(t, h) = Body(m, h) \cup IF w.on = "body" /\ w.of = h THEN {Len(m) + 2} ELSE {}
        /\ WaitsOn(t, h) => WaitsOn(m, h) \/ WaitsInner(w, h)
    BY <1>1, <1>2, CalledCode
  <2>2. ~WaitsInner(w, h)
    BY DEF WaitsInner, Inner
  <2> QED
    BY <1>2, <2>1, <2>2
<1> HIDE DEF t, m
<1>5. Body(s, g) = {}
  BY DEF Matching
<1>6. Body(t, g) = {Len(m) + 2} /\ \A h \in Gen \ {g} : Body(t, h) = Body(s, h)
  BY <1>4, <1>5
<1> DEFINE u == [st EXCEPT ![g] = "executing"]
           f == [fr EXCEPT ![g] = "running"]
<1>7. /\ u \in [Gen -> Statuses] /\ u[g] = "executing" /\ \A h \in Gen \ {g} : u[h] = st[h]
      /\ f = [h \in Gen |-> FrameOf(u[h])]
  BY DEF Matching, FrameOf, Statuses
<1> HIDE DEF u, f
<1>8. Matching(t, u, f)
  BY <1>3, <1>4, <1>6, <1>7 DEF Matching
<1> QED
  BY <1>8 DEF t, m, u, f

(* exec and free_generator_stack in these terms.                           *)
LEMMA Exec ==
  ASSUME NEW base, Matching(base, status, frame), base # <<>>, NEW g \in Gen, NEW mag \in Methods,
         status[g] # "executing", exec(g, mag, base)
  PROVE  GeneratorInv'
<1> DEFINE w == Wait("body", g, mag)
<1>1. w \in Waiting /\ w.of = g /\ w.on = "body"
  BY DEF Wait, Waiting
<1>2. calls' = Marked(base, g) \o <<w, Program("body", g)>>
  BY DEF exec, Marked
<1>3. status' = [status EXCEPT ![g] = "executing"] /\ frame' = [frame EXCEPT ![g] = "running"]
  BY DEF exec
<1> HIDE DEF w
<1> QED
  BY <1>1, <1>2, <1>3, BodyResumed DEF GeneratorInv

LEMMA Asked ==
  ASSUME NEW base, NEW st, NEW fr, Matching(base, st, fr), base # <<>>, NEW g \in Gen, NEW mag \in Methods,
         st[g] = "yield_star", ask(g, mag, base)
  PROVE  Matching(calls', st, fr)
<1> DEFINE w == Wait(IF mag = "next" THEN "call" ELSE "method", g, mag)
<1>1. w \in Waiting /\ w.of = g /\ w.on # "body"
  BY DEF Wait, Waiting, Inner
<1>2. calls' = base \o <<w, Program("inner", g)>>
  BY DEF ask
<1> HIDE DEF w
<1> QED
  BY <1>1, <1>2, InnerAsked

(* Where the program code at the top returns to.                           *)
LEMMA TopCode ==
  ASSUME GeneratorInv, CodeRuns
  PROVE  /\ calls # <<>> /\ Running.at # "next" /\ Running = calls[Len(calls)]
         /\ BodyRuns => \E g \in Gen : Running = Program("body", g)
         /\ InInner => \E g \in Gen : /\ Running = Program("inner", g) /\ Running.of = g
                                      /\ Below \in Waiting /\ Below.of = g /\ Below.on # "body"
                                      /\ ~Below.moved => status[g] = "yield_star"
<1>1. WellFormed(calls) /\ calls # <<>> /\ Running \in Frame /\ Running.at # "next"
  BY DEF GeneratorInv, Matching, WellFormed, CodeRuns, Running
<1>2. BodyRuns => \E g \in Gen : Running = Program("body", g)
  BY <1>1, FrameKinds DEF BodyRuns
<1>3. ASSUME InInner
      PROVE  \E g \in Gen : /\ Running = Program("inner", g) /\ Running.of = g
                            /\ Below \in Waiting /\ Below.of = g /\ Below.on # "body"
                            /\ ~Below.moved => status[g] = "yield_star"
  <2>1. PICK g \in Gen : Running = Program("inner", g)
    BY <1>1, <1>3, FrameKinds DEF InInner
  <2>2. Running # Script
    BY <2>1 DEF Program, Script
  <2>3. Len(calls) >= 3 /\ Below \in Waiting /\ Running = CodeOf(Below)
    BY <1>1, <2>2, Returned DEF Running, Below
  <2>4. Below.of = g /\ Below.on # "body" /\ Running.of = g
    BY <2>1, <2>3 DEF CodeOf, Program
  <2>5. WaitsInner(Below, g)
    BY <2>3, <2>4 DEF WaitsInner, Waiting
  <2>6. ~Below.moved => WaitsOn(calls, g)
    <3>1. Len(calls) - 1 \in 1 .. Len(calls)
      BY <1>1, <2>3 DEF WellFormed
    <3> QED
      BY <2>5, <3>1 DEF WaitsOn, Below
  <2> QED
    BY <2>1, <2>3, <2>4, <2>6 DEF GeneratorInv, Matching
<1> QED
  BY <1>1, <1>2, <1>3 DEF Running

LEMMA GeneratorStep ==
  ASSUME GeneratorInv, [GeneratorNext]_generatorVars
  PROVE  GeneratorInv'
<1>0. Matching(calls, status, frame) /\ status \in [Gen -> Statuses]
  BY DEF GeneratorInv, Matching
<1>1. CASE HostEvaluates
  <2>1. WellFormed(<<Script>>) /\ WellFormed(<<>>)
    BY DEF WellFormed, Frame, Script
  <2>2. ASSUME NEW g \in Gen
        PROVE  Body(<<Script>>, g) = Body(<<>>, g) /\ ~WaitsOn(<<Script>>, g)
    BY DEF Body, WaitsOn, WaitsInner, Script, Program
  <2> QED
    BY <1>0, <1>1, <2>1, <2>2 DEF HostEvaluates, GeneratorInv, Matching
<1>2. CASE ScriptEnds
  <2>1. WellFormed(<<>>)
    BY DEF WellFormed, Frame, Script
  <2>2. ASSUME NEW g \in Gen
        PROVE  Body(<<Script>>, g) = Body(<<>>, g) /\ ~WaitsOn(<<>>, g)
    BY DEF Body, WaitsOn, WaitsInner, Script, Program
  <2> QED
    BY <1>0, <1>2, <2>1, <2>2 DEF ScriptEnds, GeneratorInv, Matching
<1>3. ASSUME NEW g \in Gen, NEW mag \in Methods, js_generator_next(g, mag)
      PROVE  GeneratorInv'
  <2>0. CodeRuns /\ calls # <<>>
    BY <1>3 DEF js_generator_next, CodeRuns
  <2>1. CASE status[g] = "start" /\ free_generator_stack(g) /\ UNCHANGED calls
    <3>1. /\ status' = [status EXCEPT ![g] = "completed"] /\ frame' = [frame EXCEPT ![g] = FrameOf("completed")]
      BY <2>1 DEF free_generator_stack, FrameOf
    <3>2. "completed" \in Statuses \ {"executing"}
      BY DEF Statuses
    <3> QED
      BY <1>0, <2>1, <3>1, <3>2, Renamed DEF GeneratorInv
  <2>2. CASE status[g] \in {"yield", "start"} /\ exec(g, mag, calls)
    BY <1>0, <2>0, <2>2, Exec
  <2>3. CASE status[g] = "yield_star" /\ ask(g, mag, calls) /\ UNCHANGED <<status, frame>>
    BY <1>0, <2>0, <2>3, Asked DEF GeneratorInv
  <2> QED
    BY <1>3, <2>1, <2>2, <2>3 DEF js_generator_next, Resumable
<1>4. ASSUME NEW g \in Gen, js_generator_function_call(g)
      PROVE  GeneratorInv'
  <2>1. /\ status[g] = "none" /\ UNCHANGED calls
        /\ status' = [status EXCEPT ![g] = "start"] /\ frame' = [frame EXCEPT ![g] = FrameOf("start")]
    BY <1>4 DEF js_generator_function_call, Suspended, FrameOf
  <2>2. "start" \in Statuses \ {"executing"}
    BY DEF Statuses
  <2> QED
    BY <1>0, <2>1, <2>2, Renamed DEF GeneratorInv
<1>5. ASSUME NEW g \in Gen, js_generator_finalizer(g)
      PROVE  GeneratorInv'
  <2>1. /\ UNCHANGED calls
        /\ status' = [status EXCEPT ![g] = "none"] /\ frame' = [frame EXCEPT ![g] = FrameOf("none")]
    BY <1>5 DEF js_generator_finalizer, Suspended, FrameOf
  <2>2. Body(calls, g) = {} /\ ~WaitsOn(calls, g)
    BY <1>5 DEF js_generator_finalizer, Body, WaitsOn, WaitsInner, Program, Script
  <2>3. "none" \in Statuses \ {"executing"} /\ status[g] # "executing"
    BY <1>0, <2>2 DEF Statuses, Matching
  <2> QED
    BY <1>0, <2>1, <2>2, <2>3, Renamed DEF GeneratorInv
<1>6. ASSUME BodyRuns
      PROVE  /\ BodyReturns => GeneratorInv'
             /\ BodyYields => GeneratorInv'
             /\ BodyYieldsStar => GeneratorInv'
  <2>1. CodeRuns
    BY <1>6 DEF BodyRuns
  <2>2. PICK g \in Gen : Running = Program("body", g) /\ Running.of = g
    BY <1>6, <2>1, TopCode DEF Program
  <2>3. calls # <<>> /\ calls[Len(calls)] = Program("body", g)
    BY <2>1, <2>2, TopCode
  <2>4. ASSUME NEW x \in Statuses \ {"executing"}
        PROVE  /\ status[g] = "executing" /\ Rest # <<>>
               /\ Matching(Rest, [status EXCEPT ![g] = x], [frame EXCEPT ![g] = FrameOf(x)])
    BY <1>0, <2>3, <2>4, BodyStops DEF Rest
  <2>5. ASSUME BodyReturns PROVE GeneratorInv'
    <3>1. "completed" \in Statuses \ {"executing"}
      BY DEF Statuses
    <3>2. free_generator_stack(g) /\ calls' = Rest
      BY <2>2, <2>5 DEF BodyReturns
    <3>3. status[g] = "executing"
      BY <2>4, <3>1
    <3>4. status' = [status EXCEPT ![g] = "completed"] /\ frame' = [frame EXCEPT ![g] = FrameOf("completed")]
      BY <3>2, <3>3 DEF free_generator_stack, FrameOf
    <3> QED
      BY <2>4, <3>1, <3>2, <3>4 DEF GeneratorInv
  <2>6. ASSUME BodyYields PROVE GeneratorInv'
    <3>1. "yield" \in Statuses \ {"executing"}
      BY DEF Statuses
    <3>2. calls' = Rest /\ status' = [status EXCEPT ![g] = "yield"] /\ frame' = [frame EXCEPT ![g] = FrameOf("yield")]
      BY <2>2, <2>6 DEF BodyYields, Suspended, FrameOf
    <3> QED
      BY <2>4, <3>1, <3>2 DEF GeneratorInv
  <2>7. ASSUME BodyYieldsStar PROVE GeneratorInv'
    <3>1. "yield_star" \in Statuses \ {"executing"}
      BY DEF Statuses
    <3>2. /\ ask(g, Below.magic, Rest)
          /\ status' = [status EXCEPT ![g] = "yield_star"] /\ frame' = [frame EXCEPT ![g] = FrameOf("yield_star")]
      BY <2>2, <2>7 DEF BodyYieldsStar, Suspended, FrameOf
    <3>3. Matching(Rest, status', frame') /\ Rest # <<>> /\ status'[g] = "yield_star"
      BY <1>0, <2>4, <3>1, <3>2
    <3>4. Below.magic \in Methods
      <4>1. WellFormed(calls) /\ calls[Len(calls)] # Script
        BY <1>0, <2>3 DEF Matching, Program, Script
      <4> QED
        BY <2>3, <4>1, Returned DEF Below, Waiting
    <3>5. Matching(calls', status', frame')
      BY <3>2, <3>3, <3>4, Asked
    <3> QED
      BY <3>5 DEF GeneratorInv
  <2> QED
    BY <2>5, <2>6, <2>7
<1>7. ASSUME InInner
      PROVE  /\ ResultNotDone => GeneratorInv'
             /\ InnerThrows \/ MethodFound \/ NoMethod \/ ResultDone => GeneratorInv'
  <2>1. CodeRuns
    BY <1>7 DEF InInner
  <2>2. PICK g \in Gen : /\ Running = Program("inner", g) /\ Running.of = g
                         /\ Below \in Waiting /\ Below.of = g /\ Below.on # "body"
                         /\ ~Below.moved => status[g] = "yield_star"
    BY <1>7, <2>1, TopCode
  <2>3. calls # <<>> /\ calls[Len(calls)] = Program("inner", g)
    BY <2>1, <2>2, TopCode
  <2>4. Matching(Rest, status, frame) /\ Rest # <<>>
    BY <1>0, <2>3, CodeReturns DEF Rest
  <2>5. Below.magic \in Methods
    BY <2>2 DEF Waiting
  <2>6. ASSUME ~Below.moved, exec(g, Below.magic, Rest) PROVE GeneratorInv'
    BY <2>2, <2>4, <2>5, <2>6, Exec
  <2>7. ASSUME ~Below.moved, NEW on \in {"call", "close"},
               calls' = Rest \o <<[Below EXCEPT !.on = on], Running>>, UNCHANGED <<status, frame>>
        PROVE  GeneratorInv'
    <3> DEFINE w == [Below EXCEPT !.on = on]
    <3>1. w \in Waiting /\ w.of = g /\ w.on # "body"
      BY <2>2, <2>7 DEF Waiting, Inner
    <3>2. calls' = Rest \o <<w, Program("inner", g)>>
      BY <2>2, <2>7
    <3> HIDE DEF w
    <3>3. Matching(calls', status, frame)
      BY <2>2, <2>4, <2>7, <3>1, <3>2, InnerAsked
    <3> QED
      BY <2>7, <3>3 DEF GeneratorInv
  <2>8. ASSUME ResultNotDone PROVE GeneratorInv'
    BY <2>4, <2>8 DEF ResultNotDone, GeneratorInv
  <2>9. ASSUME InnerThrows \/ ResultDone PROVE GeneratorInv'
    BY <2>2, <2>6, <2>9 DEF InnerThrows, ResultDone, GoesOn
  <2>10. ASSUME MethodFound PROVE GeneratorInv'
    BY <2>7, <2>10 DEF MethodFound, GoesOn
  <2>11. ASSUME NoMethod PROVE GeneratorInv'
    BY <2>2, <2>6, <2>7, <2>11 DEF NoMethod, GoesOn
  <2> QED
    BY <2>8, <2>9, <2>10, <2>11
<1>8. CASE UNCHANGED generatorVars
  BY <1>8 DEF generatorVars, GeneratorInv
<1>9. /\ BodyReturns \/ BodyYields \/ BodyYieldsStar => BodyRuns
      /\ InnerThrows \/ MethodFound \/ NoMethod \/ ResultDone \/ ResultNotDone => InInner
  BY DEF BodyReturns, BodyYields, BodyYieldsStar, InnerThrows, MethodFound, NoMethod, ResultDone,
         ResultNotDone, GoesOn
<1> QED
  BY <1>1, <1>2, <1>3, <1>4, <1>5, <1>6, <1>7, <1>8, <1>9 DEF GeneratorNext

LEMMA GeneratorInvariant == GeneratorSpec => []GeneratorInv
<1>1. GeneratorInit => GeneratorInv
  BY DEF GeneratorInit, GeneratorInv, Matching, WellFormed, Body, WaitsOn, FrameOf, Statuses
<1>2. GeneratorInv /\ [GeneratorNext]_generatorVars => GeneratorInv'
  BY GeneratorStep
<1> QED
  BY <1>1, <1>2, PTL DEF GeneratorSpec

LEMMA Matches == GeneratorInv => FrameMatchesState
<1> SUFFICES ASSUME GeneratorInv, NEW g \in Gen
             PROVE  /\ BodyFrames(g) = {} <=> frame[g] # "running"
                    /\ Cardinality(BodyFrames(g)) <= 1
                    /\ frame[g] = CASE status[g] = "executing" -> "running"
                                    [] status[g] = "completed" -> "freed"
                                    [] OTHER -> status[g]
                    /\ \A i \in DOMAIN calls :
                         WaitsInner(calls[i], g) /\ ~calls[i].moved => status[g] = "yield_star"
  BY DEF FrameMatchesState
<1>1. calls \in Seq(Frame) /\ DOMAIN calls = 1 .. Len(calls)
  BY DEF GeneratorInv, Matching, WellFormed
<1>2. BodyFrames(g) = Body(calls, g)
  BY <1>1 DEF BodyFrames, Body
<1>3. frame[g] = FrameOf(status[g]) /\ status[g] \in Statuses
  BY DEF GeneratorInv, Matching
<1>4. Cardinality(Body(calls, g)) <= 1
  <2>1. CASE Body(calls, g) = {}
    BY <2>1, FS_EmptySet
  <2>2. CASE Body(calls, g) # {}
    <3>1. PICK i \in Body(calls, g) : TRUE
      BY <2>2
    <3>2. Body(calls, g) = {i}
      BY <3>1 DEF GeneratorInv, Matching
    <3>3. Cardinality(Body(calls, g)) = 1
      BY <3>2, FS_Singleton
    <3> QED
      BY <3>3
  <2> QED
    BY <2>1, <2>2
<1>5. \A i \in DOMAIN calls : WaitsInner(calls[i], g) /\ ~calls[i].moved => status[g] = "yield_star"
  BY <1>1 DEF GeneratorInv, Matching, WaitsOn
<1>6. Body(calls, g) = {} <=> frame[g] # "running"
  BY <1>3 DEF GeneratorInv, Matching, FrameOf, Statuses
<1> QED
  BY <1>2, <1>3, <1>4, <1>5, <1>6 DEF FrameOf

(* The state of a generator always tells what has become of its frame: a   *)
(* body runs at most once at a time, its frame is freed once and never     *)
(* while it runs or waits, and nothing resumes it after that, for every    *)
(* set of generators that call each other and every depth of calls.        *)
THEOREM FramesMatch == GeneratorSpec => []FrameMatchesState
BY GeneratorInvariant, Matches, PTL

=============================================================================
