SPECIFICATION Spec
CONSTANT Programs <- CompiledFunctions
INVARIANTS FrameSound IteratorsClosedOnce
CHECK_DEADLOCK FALSE
