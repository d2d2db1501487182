CONSTANTS
  Clients = {c1, c2}
  k = k
  v = v
  Empty = Empty
  Strings = {k, v, Empty}
  Lines <- MCLines
  Absent = Absent
  Nobody = Nobody
SPECIFICATION FairSpec

PROPERTIES ExitEndsServer
