\* Three callers share two connections; PostgreSQL fails and recovers at will.
SPECIFICATION FairSpec
CONSTANTS
  Threads = {t1, t2, t3}
  PoolSize = 2
  TimedWait = TRUE
INVARIANTS TypeOK NoExtraConnection NoLostWakeup
PROPERTY AcquireReturns
