\* Two nodes, two workers, one edit at any moment, one retried request.
CONSTANTS
  w1 = w1
  w2 = w2
  a = a
  b = b
  c = c
  Workers = {w1, w2}
  NoWorker = NoWorker
  N = 2
  Values = {a, b}
  NoValue = NoValue
  Rejected = {}
  MaxVersion = 1
  MaxAttempts = 3
SPECIFICATION Spec
INVARIANTS AtMostOneEffect PublishedMatchesIntent BlockedMeansResolved EveryEffectIsAccountedFor EffectsFollowThePlan
\* A published Draft takes no more calls, and attempts are bounded.
CHECK_DEADLOCK FALSE
SYMMETRY Symmetry
