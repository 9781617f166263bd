--------------------------- MODULE ConnectionPool ---------------------------
(***************************************************************************)
(* The blocking pool of PostgreSQL connections behind every Database call  *)
(* (backend/src/db/connection_pool.cpp).  Threads check a connection out   *)
(* with acquire(), which waits on a condition variable while the queue is  *)
(* empty and throws when acquire_timeout_ms elapses, and give it back when *)
(* their PooledConnection guard is destroyed.  A connection is "open" or   *)
(* "broken"; a broken one is noticed only where the code calls is_open().  *)
(*                                                                         *)
(* The mutex is held for the whole of each critical section, so a critical *)
(* section is one action; what runs outside of it (the health check and    *)
(* the reconnection of acquire, the replacement of release) is another.    *)
(***************************************************************************)
EXTENDS Integers, Sequences, FiniteSets

CONSTANTS
  Threads,     \* the threads that call into Database
  PoolSize,    \* pool_size_
  TimedWait    \* acquire_timeout_ms_ > 0

ASSUME PoolAssumption ==
  /\ IsFiniteSet(Threads)
  /\ PoolSize \in Nat \ {0}
  /\ TimedWait \in BOOLEAN

Health == {"open", "broken"}

(***************************************************************************)
(* A thread is outside the pool ("idle"), about to lock the mutex in       *)
(* acquire ("entering"), blocked on cv_ ("asleep"), notified and about to  *)
(* re-evaluate the predicate ("woken"), past its deadline ("late"), past   *)
(* the pop with the mutex released ("checking"), in the catch block of the *)
(* failed reconnection ("failing"), holding a guard ("using"), in release  *)
(* before its health check ("returning") and after it ("pushing").         *)
(***************************************************************************)
Phases == {"idle", "entering", "asleep", "woken", "late", "checking",
           "failing", "using", "returning", "pushing"}

VARIABLES
  connections,   \* connections_: the queue of idle connections
  pc,            \* where each thread is
  held,          \* the connection a thread has moved out of the queue
  databaseUp     \* whether create_connection() succeeds

vars == <<connections, pc, held, databaseUp>>

None == "none"

Init ==
  /\ connections = [i \in 1..PoolSize |-> "open"]
  /\ pc = [t \in Threads |-> "idle"]
  /\ held = [t \in Threads |-> None]
  /\ databaseUp = TRUE

Goto(t, phase) == pc' = [pc EXCEPT ![t] = phase]

Sleepers == {t \in Threads : pc[t] = "asleep"}
Notified == {t \in Threads : pc[t] \in {"woken", "late"}}

(***************************************************************************)
(* cv_.notify_one() in a step that also moves thread t to a phase: one     *)
(* sleeper, if there is one, becomes runnable.                             *)
(***************************************************************************)
NotifyOneAnd(t, phase) ==
  \/ /\ Sleepers = {}
     /\ Goto(t, phase)
  \/ \E w \in Sleepers : pc' = [pc EXCEPT ![t] = phase, ![w] = "woken"]

-----------------------------------------------------------------------------
(* acquire() *)

StartAcquire(t) ==
  /\ pc[t] = "idle"
  /\ Goto(t, "entering")
  /\ UNCHANGED <<connections, held, databaseUp>>

\* A bug: the front is moved out and never popped.
TakeFrontNoPop(t) ==
  /\ pc[t] \in {"entering", "woken", "late"}
  /\ connections # <<>>
  /\ held' = [held EXCEPT ![t] = Head(connections)]
  /\ Goto(t, "checking")
  /\ UNCHANGED <<connections, databaseUp>>

\* The predicate holds: move the front out, pop, unlock.
TakeFront(t) ==
  /\ pc[t] \in {"entering", "woken", "late"}
  /\ connections # <<>>
  /\ held' = [held EXCEPT ![t] = Head(connections)]
  /\ connections' = Tail(connections)
  /\ Goto(t, "checking")
  /\ UNCHANGED databaseUp

\* The predicate is false: wait (again).
Sleep(t) ==
  /\ pc[t] \in {"entering", "woken"}
  /\ connections = <<>>
  /\ Goto(t, "asleep")
  /\ UNCHANGED <<connections, held, databaseUp>>

\* wait_for reaches its absolute deadline, asleep or just notified; it
\* evaluates the predicate once more.
Deadline(t) ==
  /\ TimedWait
  /\ pc[t] \in {"asleep", "woken"}
  /\ Goto(t, "late")
  /\ UNCHANGED <<connections, held, databaseUp>>

\* A condition variable may wake up without a notification.
WakeSpuriously(t) ==
  /\ pc[t] = "asleep"
  /\ Goto(t, "woken")
  /\ UNCHANGED <<connections, held, databaseUp>>

\* A bug: the wait is re-armed with a fresh timeout.
ThrowTimeoutRearmed(t) ==
  /\ pc[t] = "late"
  /\ connections = <<>>
  /\ Goto(t, "asleep")
  /\ UNCHANGED <<connections, held, databaseUp>>

\* ... and throws ConnectionPoolTimeout when it is still false.
ThrowTimeout(t) ==
  /\ pc[t] = "late"
  /\ connections = <<>>
  /\ Goto(t, "idle")
  /\ UNCHANGED <<connections, held, databaseUp>>

\* is_open(), and one attempt to reconnect a stale connection.
CheckHealth(t) ==
  /\ pc[t] = "checking"
  /\ IF held[t] = "open" \/ databaseUp
     THEN /\ held' = [held EXCEPT ![t] = "open"]
          /\ Goto(t, "using")
     ELSE /\ held' = [held EXCEPT ![t] = None]
          /\ Goto(t, "failing")
  /\ UNCHANGED <<connections, databaseUp>>

\* The catch block, under the mutex: a second attempt gives the slot back,
\* or the slot is lost; a waiter is notified; the exception leaves acquire.
CatchReconnectFailure(t) ==
  /\ pc[t] = "failing"
  /\ connections' = IF databaseUp THEN Append(connections, "open") ELSE connections
  /\ NotifyOneAnd(t, "idle")
  /\ UNCHANGED <<held, databaseUp>>

-----------------------------------------------------------------------------
(* ~PooledConnection() -> release() *)

FinishUse(t) ==
  /\ pc[t] = "using"
  /\ Goto(t, "returning")
  /\ UNCHANGED <<connections, held, databaseUp>>

\* Before the lock: a broken connection is replaced, or becomes nullptr.
ReplaceBroken(t) ==
  /\ pc[t] = "returning"
  /\ held' = [held EXCEPT ![t] = IF @ = "open" \/ databaseUp THEN "open" ELSE None]
  /\ Goto(t, "pushing")
  /\ UNCHANGED <<connections, databaseUp>>

\* A bug: the nullptr of a failed replacement is pushed.
PushNull(t) ==
  /\ pc[t] = "pushing"
  /\ connections' = Append(connections, held[t])
  /\ held' = [held EXCEPT ![t] = None]
  /\ NotifyOneAnd(t, "idle")
  /\ UNCHANGED databaseUp

\* A bug: nobody is notified.
PushSilently(t) ==
  /\ pc[t] = "pushing"
  /\ connections' = IF held[t] = None THEN connections
                    ELSE Append(connections, held[t])
  /\ held' = [held EXCEPT ![t] = None]
  /\ Goto(t, "idle")
  /\ UNCHANGED databaseUp

\* Under the lock: the connection, if there is one, goes to the back.
PushAndNotify(t) ==
  /\ pc[t] = "pushing"
  /\ connections' = IF held[t] = None THEN connections
                    ELSE Append(connections, held[t])
  /\ held' = [held EXCEPT ![t] = None]
  /\ NotifyOneAnd(t, "idle")
  /\ UNCHANGED databaseUp

-----------------------------------------------------------------------------
(* PostgreSQL *)

\* The server goes away: every established connection is broken.
DatabaseFails ==
  /\ databaseUp
  /\ databaseUp' = FALSE
  /\ connections' = [i \in DOMAIN connections |-> "broken"]
  /\ held' = [t \in Threads |-> IF held[t] = None THEN None ELSE "broken"]
  /\ UNCHANGED pc

DatabaseRecovers ==
  /\ ~databaseUp
  /\ databaseUp' = TRUE
  /\ UNCHANGED <<connections, pc, held>>

Step(t) ==
  \/ TakeFront(t) \/ Sleep(t) \/ ThrowTimeout(t)
  \/ CheckHealth(t) \/ CatchReconnectFailure(t)
  \/ FinishUse(t) \/ ReplaceBroken(t) \/ PushAndNotify(t)

Next ==
  \/ \E t \in Threads :
       StartAcquire(t) \/ Step(t) \/ Deadline(t) \/ WakeSpuriously(t)
  \/ DatabaseFails
  \/ DatabaseRecovers

Spec == Init /\ [][Next]_vars

(***************************************************************************)
(* A thread that can run does, and time reaches every deadline.  Nobody is *)
(* obliged to call acquire, no wakeup is spurious by obligation, and the   *)
(* database is obliged neither to fail nor to come back.                   *)
(***************************************************************************)
FairSpec ==
  /\ Spec
  /\ \A t \in Threads : WF_vars(Step(t)) /\ WF_vars(Deadline(t))

\* The same under load: every idle thread calls into Database again.
BusySpec == FairSpec /\ \A t \in Threads : WF_vars(StartAcquire(t))

-----------------------------------------------------------------------------
TypeOK ==
  /\ connections \in Seq(Health)
  /\ pc \in [Threads -> Phases]
  /\ held \in [Threads -> Health \cup {None}]
  /\ databaseUp \in BOOLEAN

Owners == {t \in Threads : held[t] # None}

(***************************************************************************)
(* A slot is never duplicated: the connections in the queue and those the  *)
(* threads have moved out of it, a slot that acquire's catch block is      *)
(* about to give back included, never exceed pool_size_.                   *)
(***************************************************************************)
NoExtraConnection ==
  Len(connections)
    + Cardinality(Owners)
    + Cardinality({t \in Threads : pc[t] = "failing"}) <= PoolSize

(***************************************************************************)
(* No wakeup is lost: while a thread sleeps on cv_, every idle connection  *)
(* is matched by a thread that has left its wait and has not run yet, so   *)
(* no connection lies idle while a caller sleeps.                          *)
(***************************************************************************)
NoLostWakeup ==
  Sleepers # {} => Len(connections) <= Cardinality(Notified)

(***************************************************************************)
(* acquire() never hangs ("rather than hanging the request (and a worker   *)
(* thread) forever"): with a timeout, a caller ends up with a connection   *)
(* or with an exception, whatever the other threads and the database do.   *)
(***************************************************************************)
AcquireReturns ==
  \A t \in Threads : pc[t] = "entering" ~> pc[t] \in {"using", "idle"}

(***************************************************************************)
(* The comment of release(): "Pool will be one connection short until a    *)
(* future release repairs it".  Once the database stays up and the threads *)
(* keep acquiring and releasing, the pool has its pool_size_ connections   *)
(* again.                                                                  *)
(***************************************************************************)
FutureReleaseRepairs ==
  <>[]databaseUp => <>[](Len(connections) + Cardinality(Owners) = PoolSize)
=============================================================================
