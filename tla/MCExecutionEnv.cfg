SPECIFICATION FairSpec
CONSTANTS
  t1 = t1
  t2 = t2
  r1 = r1
  r2 = r2
  r3 = r3
  Threads <- MCThreads
  Runs <- MCRuns
  NoRun = NoRun
  CallerRun = CallerRun
  Free = Free
INVARIANTS
  OutputsFiledUnderOwnRun
  EnvironmentGivenBack
PROPERTIES
  ImplementsAttribution
  NoRunStuck
CHECK_DEADLOCK FALSE
