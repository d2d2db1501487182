CONSTANTS
  Workers = {w1, w2, w3}
  NumUrls = 4
  Capacity = 2
  Main = Main
  Nobody = Nobody
SPECIFICATION FairSpec
INVARIANTS RingAccounting NumberIsPlace CountsAgree
PROPERTIES ImplementsPool Termination
