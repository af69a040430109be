\* Two synchronous and two asynchronous rules and the inspection, so that a rule may
\* fail before and after another; three ticks of time between them.
CONSTANTS
  s1 = s1
  s2 = s2
  Sync = {s1, s2}
  N = 2
  Budget = 3
SPECIFICATION FairSpec
INVARIANTS PassedIsChecked NothingLateIsGranted
PROPERTIES BudgetIsShared CheckEnds
CHECK_DEADLOCK FALSE
