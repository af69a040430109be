CONSTANTS
  N = 2
  Values = {a, b}
  Undeclared = Undeclared
  Cas = TRUE
  MaxDrift = 1
  MaxVersion = 1
  MaxAttempts = 3
  MaxPub = 3
  MaxRevision = 1
SPECIFICATION StoredSpec
INVARIANTS TypeOK PublishedIsConfirmed FactsFollowWrites
PROPERTIES WritesAreAccepted
SYMMETRY ValueSymmetry
CHECK_DEADLOCK FALSE
