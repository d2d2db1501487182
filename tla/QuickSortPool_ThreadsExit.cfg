CONSTANTS
  Threads = {t1, t2}
  ArrayLen = 3
  MinLen = 2
  Values = {0, 1, 2}
  RunTimes = 1
  Main = Main
  Nobody = Nobody
SPECIFICATION FairSpec
PROPERTIES ThreadsExit
