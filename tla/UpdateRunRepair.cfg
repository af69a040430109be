\* One node: three requests over two edits and a value changed elsewhere and back.
CONSTANTS
  N = 1
  Values = {a, b}
  Undeclared = Undeclared
  Cas = TRUE
  MaxDrift = 2
  MaxVersion = 2
  MaxAttempts = 3
  MaxPub = 3
  MaxRevision = 2
SPECIFICATION FairSpec
INVARIANTS KeyIdentifiesUpdate
PROPERTIES SendsCurrentIntentOnly UpdateEndsInPublication
CHECK_DEADLOCK FALSE
