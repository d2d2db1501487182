CONSTANTS
  Producers = {p1, p2}
  Consumers = {c1, c2, c3}
  Capacity = 2
  CokeNum = 6
  Nobody = Nobody
SPECIFICATION EitherFairSpec
INVARIANTS ChecksHold SlotsAddUp AfterRunBalance
PROPERTIES ImplementsBuffer Termination
