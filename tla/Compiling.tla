----------------------------- MODULE Compiling ------------------------------
(* A program from its text to the end of its run: parsed into code         *)
(* (Compiler), its names and its jumps resolved (CodeOptimizer), and run   *)
(* (CodeRun) by an environment that answers each read of a global, call,   *)
(* step of an iterator, yield... with an outcome TLC chooses. The code of  *)
(* the first pass and that of the last run side by side, and both are held *)
(* against what the program means (ProgramMeaning).                        *)
EXTENDS Computation, Integers, Sequences
CONSTANTS
  Programs,      \* the programs compiled, as trees
  LocalNames,    \* the names that are local variables
  MaxOutcomes    \* a run is followed for so many outcomes
LOCAL INSTANCE Compiler
LOCAL INSTANCE CodeOptimizer
LOCAL INSTANCE CodeRun
LOCAL INSTANCE ProgramMeaning

-----------------------------------------------------------------------------
AtStage(stage) == state.mode = "compiling" /\ state.stage = stage

CompilingInit ==
  state \in {[mode |-> "compiling", stage |-> "source", program |-> p] : p \in Programs}

Parse ==
  /\ AtStage("source")
  /\ state' = [mode |-> "compiling", stage |-> "parsed", program |-> state.program, fd |-> Compiled(state.program)]
ResolveVariables ==
  /\ AtStage("parsed")
  /\ state' = [state EXCEPT !.stage = "resolved", !.fd = [emitted |-> @, resolved |-> resolve_variables(@)]]
Loaded(program) == [code |-> program.code, pos |-> program.pos, m |-> Frame]
ResolveLabels ==
  /\ AtStage("resolved")
  /\ state' = [mode |-> "compiling", stage |-> "run", program |-> state.program, outs |-> <<>>,
                run |-> [emitted |-> Loaded(Emitted(state.fd.emitted)),
                         optimized |-> Loaded(Relocated(resolve_labels(state.fd.resolved)))]]

-----------------------------------------------------------------------------
(* Outcomes: a global is there or not, true, false or undefined by its     *)
(* name; an iterator gives a value, is done or throws; a generator is      *)
(* resumed by next, return or throw; the rest goes well or throws.         *)

Outcomes(event) ==
  CASE event.e = "" -> {"start"}
    [] event.e \in {"get", "get_undef"} ->
         (CASE event.x = "c" -> {"T", "F"} [] event.x = "u" -> {"T", "U"} [] event.x = "x" -> {"T", "X"}
            [] OTHER -> {"T"})
    [] event.e \in {"next", "key"} -> {"T", "D", "X"}
    [] event.e = "yield" -> {"N", "R", "X"}
    [] event.e = "strict_eq" -> {"T", "F"}
    [] event.e = "field" -> {"T", "U"}
    [] OTHER -> {"T", "X"}
Going(code) == state.run[code].m.how \in {"run", "unwind"}

(* The frame has started, or an outcome has come: both codes run on to     *)
(* where the next is missing.                                              *)
Reply(out) ==
  /\ AtStage("run")
  /\ Going("emitted") /\ Len(state.outs) < MaxOutcomes
  /\ out \in Outcomes(state.run["emitted"].m.event)
  /\ LET told == IF out = "start" THEN <<>> ELSE <<out>>
     IN state' = [state EXCEPT !.outs = @ \o told,
                    !.run = [c \in DOMAIN @ |->
                               [@[c] EXCEPT !.m = Run(state.run[c].code, state.run[c].pos, [@ EXCEPT !.outs = told])]]]

CompilingNext == Parse \/ ResolveVariables \/ ResolveLabels \/ \E out \in {"start", "T", "F", "U", "X", "D", "N", "R"} : Reply(out)

-----------------------------------------------------------------------------
(* What a run did so far: what it asked of the environment, in order, and  *)
(* how it ended.                                                           *)
Done1(code) ==
  LET m == state.run[code].m
  IN IF Going(code) THEN [log |-> Append(m.log, m.event), how |-> "cut"] ELSE [log |-> m.log, how |-> m.how, v |-> m.v]
Cut1(m) == IF m.how = "cut" THEN [log |-> m.log, how |-> "cut"] ELSE m
UnderWay == AtStage("run") /\ state.run["emitted"].m # Frame

(* The code js_parse_program emits does what the program says: for every   *)
(* answer of the environment it asks the same questions in the same order  *)
(* and ends alike. A jump out of a loop or a try that leaves a value too   *)
(* many on the stack, skips a finally or does not close an iterator would  *)
(* show here.                                                              *)
CompiledAsWritten ==
  UnderWay => Done1("emitted") = Cut1(Meaning(state.program, state.outs))

(* The passes after it change nothing a program can see: threaded jumps,   *)
(* inverted tests, dead code, finally blocks without code and fused        *)
(* operations.                                                             *)
OptimizedAlike == UnderWay => Done1("optimized") = Done1("emitted")

(* Both: the code of each pass does what the program says.                 *)
RunsAsWritten == CompiledAsWritten /\ OptimizedAlike
=============================================================================
