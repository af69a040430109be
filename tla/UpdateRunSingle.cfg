CONSTANTS
  N = 1
  Values = {a, b, c}
  Undeclared = Undeclared
  Cas = FALSE
  MaxDrift = 0
  MaxVersion = 2
  MaxAttempts = 2
  MaxPub = 3
  MaxRevision = 2
SPECIFICATION Spec
PROPERTIES OverwritesOnlyWhatWasChecked
CHECK_DEADLOCK FALSE
