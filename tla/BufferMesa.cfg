CONSTANTS
  Producers = {p1, p2}
  Consumers = {c1, c2}
  Capacity = 1
  CokeNum = 4
  Nobody = Nobody
  MaxSpurious = 0
SPECIFICATION MesaSpec
INVARIANTS NoOverOrUnderflow
