SPECIFICATION FairSpec
CONSTANTS
  n1 = n1
  n2 = n2
  w1 = w1
  w2 = w2
  Notification = {n1, n2}
  OldBuild <- WithoutN2
  Dispatcher = {w1, w2}
  BatchSize = 2
  DispatchTTL = 2
  RetryDelay = 1
  MaxAttempts = 2
  MaxFaults = 1
  MaxOverruns = 1
  Idle = Idle
INVARIANTS TypeOK OneDispatcherPerRow PostsAreBounded ResultsAreEarned
PROPERTIES ResultsAreFinal EveryNotificationSettles
