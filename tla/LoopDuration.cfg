CONSTANTS
  Workers = {w1, w2}
  Shape = "stream"
  Iterations = 0
  RekeyEvery = 3
  BlobCycleEvery = 0
  Handles = {h1, h2}
  Keys = {k1, k2, k3, k4}
  None = None
  Period = 3
  TallyBound = 1
SPECIFICATION FairSpec
PROPERTIES
  StopEndsRun
  SomeWriterGetsIn
