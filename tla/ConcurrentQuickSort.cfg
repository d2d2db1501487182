CONSTANTS
  Threads = {t1, t2}
  ArrayLen = 5
  MinLen = 2
  Values = {0, 1, 2}
  RunTimes = 2
  Main = Main
  Nobody = Nobody
  MaxThreads = 2
  TreeMinLen = 1
  TreeValues = {0, 1}
SPECIFICATION EitherSpec
INVARIANTS NoElementShared SortedButSegments PermitsMatch StrictLimit SortedAtEnd
PROPERTIES Termination
