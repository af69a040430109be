CONSTANTS
  w1 = w1
  w2 = w2
  a = a
  b = b
  c = c
  Workers = {w1, w2}
  NoWorker = NoWorker
  N = 1
  Values = {a, b}
  NoValue = NoValue
  Rejected = {}
  MaxVersion = 1
  MaxAttempts = 2
SPECIFICATION FairSpec
PROPERTIES ResumeEndsInPublication
CHECK_DEADLOCK FALSE
