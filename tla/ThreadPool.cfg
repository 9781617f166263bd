\* Two workers, two sockets with everything they submit, one request.
CONSTANTS
  Workers = {w1, w2}
  Requests = {r1}
  Sockets = {s1, s2}
SPECIFICATION FairSpec
INVARIANTS TypeOK RunsOnce SleepersNotNeeded Drained
PROPERTIES EveryTaskRuns
