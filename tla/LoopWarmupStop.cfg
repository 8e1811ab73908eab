CONSTANTS
  Workers = {w1, w2}
  Shape = "both"
  Iterations = 2
  RekeyEvery = 1
  BlobCycleEvery = 2
  Handles = {h1, h2, h3}
  Keys = {k1, k2, k3, k4, k5}
  None = None
  Period = 6
  TallyBound = 9
SPECIFICATION Spec
PROPERTIES
  StopCheckedBeforeIteration
