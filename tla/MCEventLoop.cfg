SPECIFICATION FairSpec
CONSTANTS
  Timer = {t1, t2}
  Fd = {f0}
  Console = f0
  Signal = {s1}
  None = None
  MaxDelay = 2
  MaxWait = 1
  MaxJobs = 1
  MaxSignals = 1
  Programs <- Three
INVARIANTS
  TimersSound
  JobsFirst
PROPERTIES
  LoopLives
CHECK_DEADLOCK FALSE
