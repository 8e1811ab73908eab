CONSTANTS
  MaxLimit = 7
  IntMax = 7
  Installed = {2, 7}
  AutoLarge = 4
  AutoSmall = 1
  Lines <- MCLines
  None = None
SPECIFICATION Spec
INVARIANTS
  LimitAsGiven
CHECK_DEADLOCK FALSE
