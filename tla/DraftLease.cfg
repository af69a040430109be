\* Three workers on one Draft; a lease of two ticks can be renewed half-way.
CONSTANTS
  Workers = {w1, w2, w3}
  NoWorker = NoWorker
  Ttl = 2
  MaxFence = 3
SPECIFICATION FairSpec
PROPERTIES LostIsForever OnlyItsCallEndsALiveLease LockSpec LeaseIsFreedAgain
\* The fences run out: the Draft can be acquired no more.
CHECK_DEADLOCK FALSE
