\* Two collectors, two threads, one of which the slow collector can hold.
CONSTANTS
  fast = fast
  slow = slow
  Domains <- MCDomains
  MaxThreads = 2
  Cadences <- MCCadences
  MaxStagger = 1
  Hangs <- MCHangs
SPECIFICATION FairSpec
CHECK_DEADLOCK FALSE
INVARIANT OneRunPerDomain
INVARIANT DeadlineWithinInterval
PROPERTY ImplementsSampling
PROPERTY EveryRunIsReported
PROPERTY HealthyKeepSampling
