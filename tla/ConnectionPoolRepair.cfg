\* Two threads under load over two connections.
SPECIFICATION BusySpec
CONSTANTS
  Threads = {t1, t2}
  PoolSize = 2
  TimedWait = TRUE
PROPERTY FutureReleaseRepairs
