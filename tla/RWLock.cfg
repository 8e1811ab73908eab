CONSTANTS
  Clients = {c1, c2, c3}
  Nobody = Nobody
SPECIFICATION FairSpec
INVARIANTS
  TypeOK
  Exclusion
  CountsAgree
  NoLostWakeup
PROPERTIES
  ImplementsPromise
