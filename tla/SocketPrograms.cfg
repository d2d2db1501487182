CONSTANTS
  MaxThreads = 3
  Capacity = 4
  RequestNum = 4
  Size = 2
  ShortCount = 4
  HdrSize = 2
  BufSize = 3
  AllocStep = 1
  Clients = {c1, c2, c3}
  LineLen = 2
  NumLines = 2
  MaxEvent = 2
  Listener = Listener
SPECIFICATION FairSpec
INVARIANTS TotalsMatch BufferFits BytesInOrder
PROPERTIES DescriptorsClosed Termination
