--------------------------- MODULE MCConnectionPool ---------------------------
(* TLC instances of ConnectionPool: interchangeable threads.               *)
EXTENDS ConnectionPool, TLC

Symmetric == Permutations(Threads)
=============================================================================
