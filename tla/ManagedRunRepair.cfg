\* One node repaired back and forth: two edits over two good values and one a
\* rule rejects, three requests.
CONSTANTS
  w1 = w1
  w2 = w2
  a = a
  b = b
  c = c
  Workers = {w1, w2}
  NoWorker = NoWorker
  N = 1
  Values = {a, b, c}
  NoValue = NoValue
  Rejected = {c}
  MaxVersion = 2
  MaxAttempts = 3
SPECIFICATION Spec
INVARIANTS KeyIdentifiesRequest OnlyCheckedInputIsSent
PROPERTIES StaleWorkerNeverWrites HistoryIsImmutable PublicationSpec
CHECK_DEADLOCK FALSE
SYMMETRY Symmetry
