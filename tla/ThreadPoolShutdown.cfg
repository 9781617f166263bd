\* The signal, two open sockets and the destruction of the handlers.
CONSTANTS
  Workers = {w1, w2}
  Requests = {r1}
  Sockets = {s1, s2}
SPECIFICATION Spec
INVARIANTS HandlersOutliveTasks
