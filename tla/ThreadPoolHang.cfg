\* One request whose task may throw.
CONSTANTS
  Workers = {w1, w2}
  Requests = {r1, r2}
  Sockets = {s1}
SPECIFICATION Spec
INVARIANTS NoRequestHangs
