CONSTANTS
  NumJobs = 3
  ChunkSize = 2
  ChunkNum = 1
  HeavyWeight = 2
  MaxFills = 1
  MaxBytes = 20
  MaxThreads = 4
  MaxDepositors = 3
  Rounds = 3
  Iterations = 3
  WorkLimit = 4
  PipeLines = 5
  Main = Main
  Printer = Printer
  Nobody = Nobody
SPECIFICATION FairSpecOfAll
INVARIANTS FilesComplete JobsDisjoint SubJobsPrinted Deposits TakesTurns PipesDrained
PROPERTIES ImplementsWork Termination
