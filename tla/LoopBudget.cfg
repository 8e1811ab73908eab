CONSTANTS
  Workers = {w1, w2}
  Shape = "both"
  Iterations = 4
  RekeyEvery = 1
  BlobCycleEvery = 2
  Handles = {h1, h2, h3}
  Keys = {k1, k2, k3, k4, k5}
  None = None
  Period = 6
  TallyBound = 9
SPECIFICATION FairSpec
INVARIANTS
  TypeOK
  RoundTripKeying
  HandlesAccounted
  BlobIsLiveKeying
  BaselineIsQuiet
  ElapsedToLastReturn
  PassSpentBudget
  FailureIsReported
  MismatchKeepsEvidence
PROPERTIES
  Terminates
  WriterGetsIn
