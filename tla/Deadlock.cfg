\* The program may deadlock when neither switch is set: that is its purpose.
CONSTANTS
  Threads = {t1, t2, t3}
  NumResources = 3
  Needed = 2
  Iterations = 2
  Nobody = Nobody
CHECK_DEADLOCK FALSE
SPECIFICATION FairSpec
INVARIANTS OneProcesses NoCircularWait StuckOnlyInCircle
PROPERTIES OrderedRunsEnd
