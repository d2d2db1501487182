\* Three producers make 1 coke each, two consumers want 2 each: in the end a
\* consumer waits for ever.
CONSTANTS
  Producers = {p1, p2, p3}
  Consumers = {c1, c2}
  Capacity = 1
  CokeNum = 5
  Nobody = Nobody
  MaxSpurious = 1
CHECK_DEADLOCK FALSE
SPECIFICATION FairSpec
INVARIANTS NoLostWakeup
PROPERTIES ImplementsBuffer EndsOrStarves
