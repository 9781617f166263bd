------------------------- MODULE ConnectionPoolProofs -------------------------
(***************************************************************************)
(* What holds of the connection pool for every number of threads and every *)
(* pool size: its types, that no wakeup is lost, and that the pool never   *)
(* has a connection too many.  TypeOK and NoLostWakeup are together        *)
(* inductive, and so are TypeOK, NoExtraConnection and Engaged.            *)
(***************************************************************************)
EXTENDS ConnectionPool, FiniteSetTheorems, TLAPS

-----------------------------------------------------------------------------
(* Types *)

(* A notification moves one sleeper, if any, and leaves pc well typed.     *)
LEMMA NotifyTypes ==
  ASSUME NEW t \in Threads, NEW phase \in Phases,
         pc \in [Threads -> Phases], NotifyOneAnd(t, phase)
  PROVE  pc' \in [Threads -> Phases]
  BY DEF NotifyOneAnd, Goto, Sleepers, Phases

LEMMA InitTypes == Init => TypeOK
  BY PoolAssumption DEF Init, TypeOK, Health, Phases, None

(* Every step of the pool keeps the types of its variables.                *)
LEMMA NextTypes == TypeOK /\ [Next]_vars => TypeOK'
<1> SUFFICES ASSUME TypeOK, [Next]_vars PROVE TypeOK'
  OBVIOUS
<1> USE DEF TypeOK
<1>1. ASSUME NEW t \in Threads, StartAcquire(t) PROVE TypeOK'
  BY <1>1 DEF StartAcquire, Goto, Phases
<1>2. ASSUME NEW t \in Threads, TakeFront(t) PROVE TypeOK'
  <2>1. Head(connections) \in Health /\ Tail(connections) \in Seq(Health)
    BY <1>2 DEF TakeFront
  <2> QED BY <1>2, <2>1 DEF TakeFront, Goto, Phases
<1>3. ASSUME NEW t \in Threads, Sleep(t) PROVE TypeOK'
  BY <1>3 DEF Sleep, Goto, Phases
<1>4. ASSUME NEW t \in Threads, Deadline(t) PROVE TypeOK'
  BY <1>4 DEF Deadline, Goto, Phases
<1>5. ASSUME NEW t \in Threads, WakeSpuriously(t) PROVE TypeOK'
  BY <1>5 DEF WakeSpuriously, Goto, Phases
<1>6. ASSUME NEW t \in Threads, ThrowTimeout(t) PROVE TypeOK'
  BY <1>6 DEF ThrowTimeout, Goto, Phases
<1>7. ASSUME NEW t \in Threads, CheckHealth(t) PROVE TypeOK'
  BY <1>7 DEF CheckHealth, Goto, Phases, Health
<1>8. ASSUME NEW t \in Threads, CatchReconnectFailure(t) PROVE TypeOK'
  <2>1. Append(connections, "open") \in Seq(Health)
    BY DEF Health
  <2>2. pc' \in [Threads -> Phases]
    BY <1>8, NotifyTypes DEF CatchReconnectFailure, Phases
  <2> QED BY <1>8, <2>1, <2>2 DEF CatchReconnectFailure
<1>9. ASSUME NEW t \in Threads, FinishUse(t) PROVE TypeOK'
  BY <1>9 DEF FinishUse, Goto, Phases
<1>10. ASSUME NEW t \in Threads, ReplaceBroken(t) PROVE TypeOK'
  BY <1>10 DEF ReplaceBroken, Goto, Phases, Health
<1>11. ASSUME NEW t \in Threads, PushAndNotify(t) PROVE TypeOK'
  <2>1. held[t] # None => Append(connections, held[t]) \in Seq(Health)
    OBVIOUS
  <2>2. pc' \in [Threads -> Phases]
    BY <1>11, NotifyTypes DEF PushAndNotify, Phases
  <2>3. held' \in [Threads -> Health \cup {None}]
    BY <1>11 DEF PushAndNotify
  <2> QED BY <1>11, <2>1, <2>2, <2>3 DEF PushAndNotify
<1>12. CASE DatabaseFails
  <2>1. connections' \in Seq(Health)
    BY <1>12 DEF DatabaseFails, Health
  <2> QED BY <1>12, <2>1 DEF DatabaseFails, Health
<1>13. CASE DatabaseRecovers
  BY <1>13 DEF DatabaseRecovers
<1>14. CASE UNCHANGED vars
  BY <1>14 DEF vars
<1> QED
  BY <1>1, <1>2, <1>3, <1>4, <1>5, <1>6, <1>7, <1>8, <1>9, <1>10, <1>11,
     <1>12, <1>13, <1>14 DEF Next, Step

(* The type invariant of the pool, for every set of threads and pool size. *)
THEOREM PoolTypes == Spec => []TypeOK
<1>1. Init => TypeOK
  BY InitTypes
<1>2. TypeOK /\ [Next]_vars => TypeOK'
  BY NextTypes
<1> QED BY <1>1, <1>2, PTL DEF Spec

-----------------------------------------------------------------------------
(* No lost wakeup *)

LEMMA NotifiedFinite ==
  IsFiniteSet(Notified) /\ Cardinality(Notified) \in Nat
  BY PoolAssumption, FS_Subset, FS_CardinalityType, Notified \subseteq Threads
  DEF Notified

(* A step that appends at most one connection and notifies keeps the       *)
(* balance: the sleeper it moves makes up for the connection.              *)
LEMMA NotifyKeepsBalance ==
  ASSUME TypeOK, TypeOK', NoLostWakeup, NEW t \in Threads,
         pc[t] \in {"failing", "pushing"}, NotifyOneAnd(t, "idle"),
         Len(connections') <= Len(connections) + 1
  PROVE  NoLostWakeup'
<1>1. CASE Sleepers = {}
  <2>1. Sleepers' = {}
    BY <1>1 DEF NotifyOneAnd, Goto, Sleepers, TypeOK
  <2> QED BY <2>1 DEF NoLostWakeup
<1>2. CASE Sleepers # {}
  <2>1. PICK w \in Sleepers : pc' = [pc EXCEPT ![t] = "idle", ![w] = "woken"]
    BY <1>2 DEF NotifyOneAnd
  <2>2. Notified' = Notified \cup {w} /\ w \notin Notified
    BY <2>1 DEF Notified, Sleepers, TypeOK
  <2>3. Cardinality(Notified') = Cardinality(Notified) + 1
    BY <2>2, NotifiedFinite, FS_AddElement
  <2>4. Len(connections) \in Nat /\ Len(connections') \in Nat
    BY DEF TypeOK
  <2> QED BY <1>2, <2>3, <2>4, NotifiedFinite DEF NoLostWakeup
<1> QED BY <1>1, <1>2

(* A thread that leaves its wait only adds to those that will look.        *)
LEMMA LeavingKeepsBalance ==
  ASSUME TypeOK, NoLostWakeup, NEW t \in Threads, NEW phase \in {"woken", "late"},
         pc[t] \in {"asleep", "woken"}, Goto(t, phase), UNCHANGED connections
  PROVE  NoLostWakeup'
<1>1. Notified' = Notified \cup {t} /\ Sleepers' \subseteq Sleepers
  BY DEF Notified, Sleepers, Goto, TypeOK
<1>2. Cardinality(Notified') >= Cardinality(Notified)
  BY <1>1, NotifiedFinite, FS_AddElement
<1>3. Len(connections) \in Nat
  BY DEF TypeOK
<1>4. Cardinality(Notified') \in Nat
  BY <1>1, NotifiedFinite, FS_AddElement, FS_CardinalityType
<1> QED BY <1>1, <1>2, <1>3, <1>4, NotifiedFinite DEF NoLostWakeup

(* A step outside the condition variable that adds no connection.          *)
LEMMA ElsewhereKeepsBalance ==
  ASSUME TypeOK, NoLostWakeup, Sleepers' = Sleepers, Notified' = Notified,
         Len(connections') = Len(connections)
  PROVE  NoLostWakeup'
  BY DEF NoLostWakeup

LEMMA NextBalance == TypeOK /\ NoLostWakeup /\ [Next]_vars => NoLostWakeup'
<1> SUFFICES ASSUME TypeOK, NoLostWakeup, [Next]_vars PROVE NoLostWakeup'
  OBVIOUS
<1>a. TypeOK'
  BY NextTypes
<1>1. ASSUME NEW t \in Threads, StartAcquire(t) PROVE NoLostWakeup'
  BY <1>1, ElsewhereKeepsBalance
  DEF StartAcquire, Goto, Sleepers, Notified, TypeOK
<1>2. ASSUME NEW t \in Threads, TakeFront(t) PROVE NoLostWakeup'
  <2>1. Len(connections) \in Nat /\ Len(connections') = Len(connections) - 1
    BY <1>2 DEF TakeFront, TypeOK
  <2>2. Sleepers' = Sleepers /\ Notified' = Notified \ {t}
    BY <1>2 DEF TakeFront, Goto, Sleepers, Notified, TypeOK
  <2>3. Cardinality(Notified') >= Cardinality(Notified) - 1
    BY <2>2, NotifiedFinite, FS_RemoveElement
  <2>4. Cardinality(Notified') \in Nat
    BY <2>2, NotifiedFinite, FS_RemoveElement, FS_CardinalityType
  <2> QED BY <2>1, <2>2, <2>3, <2>4, NotifiedFinite DEF NoLostWakeup
<1>3. ASSUME NEW t \in Threads, Sleep(t) \/ ThrowTimeout(t) PROVE NoLostWakeup'
  <2>1. Len(connections') = 0
    BY <1>3 DEF Sleep, ThrowTimeout
  <2>2. Notified' \subseteq Threads
    BY DEF Notified
  <2>3. Cardinality(Notified') \in Nat
    BY <2>2, PoolAssumption, FS_Subset, FS_CardinalityType
  <2> QED BY <2>1, <2>3 DEF NoLostWakeup
<1>4. ASSUME NEW t \in Threads, Deadline(t) \/ WakeSpuriously(t) PROVE NoLostWakeup'
  BY <1>4, LeavingKeepsBalance DEF Deadline, WakeSpuriously
<1>5. ASSUME NEW t \in Threads, CheckHealth(t) \/ FinishUse(t) \/ ReplaceBroken(t)
      PROVE  NoLostWakeup'
  <2>1. UNCHANGED connections /\ Sleepers' = Sleepers /\ Notified' = Notified
    BY <1>5
    DEF CheckHealth, FinishUse, ReplaceBroken, Goto, Sleepers, Notified, TypeOK
  <2> QED BY <2>1, ElsewhereKeepsBalance
<1>6. ASSUME NEW t \in Threads, CatchReconnectFailure(t) PROVE NoLostWakeup'
  <2>1. Len(connections') <= Len(connections) + 1
    BY <1>6 DEF CatchReconnectFailure, TypeOK
  <2> QED BY <1>6, <1>a, <2>1, NotifyKeepsBalance DEF CatchReconnectFailure
<1>7. ASSUME NEW t \in Threads, PushAndNotify(t) PROVE NoLostWakeup'
  <2>1. Len(connections') <= Len(connections) + 1
    BY <1>7 DEF PushAndNotify, TypeOK
  <2> QED BY <1>7, <1>a, <2>1, NotifyKeepsBalance DEF PushAndNotify
<1>8. CASE DatabaseFails
  <2>1. Len(connections') = Len(connections)
    BY <1>8, <1>a DEF DatabaseFails, TypeOK
  <2> QED
    BY <1>8, <2>1, ElsewhereKeepsBalance DEF DatabaseFails, Sleepers, Notified
<1>9. CASE DatabaseRecovers
  BY <1>9, ElsewhereKeepsBalance DEF DatabaseRecovers, Sleepers, Notified
<1>10. CASE UNCHANGED vars
  BY <1>10, ElsewhereKeepsBalance DEF vars, Sleepers, Notified
<1> QED
  BY <1>1, <1>2, <1>3, <1>4, <1>5, <1>6, <1>7, <1>8, <1>9, <1>10 DEF Next, Step

(***************************************************************************)
(* No caller of acquire() sleeps beside an idle connection, for every set  *)
(* of threads, every pool size, and every failure of PostgreSQL.           *)
(***************************************************************************)
THEOREM PoolNoLostWakeup == Spec => []NoLostWakeup
<1>1. Init => NoLostWakeup
  BY DEF Init, NoLostWakeup, Sleepers
<1>2. TypeOK /\ NoLostWakeup /\ [Next]_vars => NoLostWakeup'
  BY NextBalance
<1> QED BY <1>1, <1>2, PoolTypes, PTL DEF Spec


-----------------------------------------------------------------------------
(* No extra connection *)

Failing == {t \in Threads : pc[t] = "failing"}

(***************************************************************************)
(* NoExtraConnection alone is not inductive: a health check or a           *)
(* replacement that put a connection where none was held would add one.  A *)
(* thread that checks, uses or returns a connection holds one.             *)
(***************************************************************************)
Engaged == \A t \in Threads :
  pc[t] \in {"checking", "using", "returning"} => held[t] # None

LEMMA CountsFinite ==
  /\ IsFiniteSet(Owners) /\ Cardinality(Owners) \in Nat
  /\ IsFiniteSet(Failing) /\ Cardinality(Failing) \in Nat
<1>1. IsFiniteSet(Owners)
  BY PoolAssumption, FS_Subset, Owners \subseteq Threads DEF Owners
<1>2. IsFiniteSet(Failing)
  BY PoolAssumption, FS_Subset, Failing \subseteq Threads DEF Failing
<1> QED BY <1>1, <1>2, FS_CardinalityType

(* A notification moves a sleeper, which is neither engaged nor failing:   *)
(* only the thread that notifies counts.                                   *)
LEMMA NotifyMoves ==
  ASSUME TypeOK, NEW t \in Threads, pc[t] \in {"failing", "pushing"},
         NotifyOneAnd(t, "idle")
  PROVE  /\ Failing' = Failing \ {t}
         /\ \A u \in Threads :
              pc'[u] \in {"checking", "using", "returning"} => u # t /\ pc[u] = pc'[u]
<1>1. CASE Sleepers = {}
  BY <1>1 DEF NotifyOneAnd, Goto, Failing, TypeOK
<1>2. CASE Sleepers # {}
  <2>1. PICK w \in Sleepers : pc' = [pc EXCEPT ![t] = "idle", ![w] = "woken"]
    BY <1>2 DEF NotifyOneAnd
  <2>2. w # t /\ pc[w] = "asleep" /\ w \in Threads
    BY <2>1 DEF Sleepers
  <2>3. pc'[t] = "idle" /\ pc'[w] = "woken"
        /\ \A u \in Threads \ {t, w} : pc'[u] = pc[u]
    BY <2>1, <2>2 DEF TypeOK
  <2>4. Failing' = Failing \ {t}
    BY <2>2, <2>3 DEF Failing
  <2> QED BY <2>3, <2>4
<1> QED BY <1>1, <1>2

(* Every step keeps an engaged thread's connection in its hands.           *)
LEMMA NextEngaged == TypeOK /\ Engaged /\ [Next]_vars => Engaged'
<1> SUFFICES ASSUME TypeOK, Engaged, [Next]_vars,
                    NEW u \in Threads, pc'[u] \in {"checking", "using", "returning"}
             PROVE  held'[u] # None
  BY DEF Engaged
<1> USE DEF TypeOK
<1>h. \A c \in Health : c # None
  BY DEF Health, None
<1>1. ASSUME NEW t \in Threads,
             StartAcquire(t) \/ Sleep(t) \/ ThrowTimeout(t) \/ Deadline(t) \/ WakeSpuriously(t)
      PROVE  held'[u] # None
  BY <1>1 DEF StartAcquire, Sleep, ThrowTimeout, Deadline, WakeSpuriously, Goto, Engaged
<1>2. ASSUME NEW t \in Threads, TakeFront(t) PROVE held'[u] # None
  <2>1. Head(connections) \in Health
    BY <1>2 DEF TakeFront
  <2> QED BY <1>2, <1>h, <2>1 DEF TakeFront, Goto, Engaged
<1>3. ASSUME NEW t \in Threads, CheckHealth(t) \/ FinishUse(t) \/ ReplaceBroken(t)
      PROVE  held'[u] # None
  BY <1>3, <1>h DEF CheckHealth, FinishUse, ReplaceBroken, Goto, Engaged, Health
<1>4. ASSUME NEW t \in Threads, CatchReconnectFailure(t) PROVE held'[u] # None
  BY <1>4, NotifyMoves DEF CatchReconnectFailure, Engaged
<1>5. ASSUME NEW t \in Threads, PushAndNotify(t) PROVE held'[u] # None
  <2>1. u # t /\ pc[u] = pc'[u]
    BY <1>5, NotifyMoves DEF PushAndNotify
  <2> QED BY <1>5, <2>1 DEF PushAndNotify, Engaged
<1>6. CASE DatabaseFails
  BY <1>6 DEF DatabaseFails, Engaged, None
<1>7. CASE DatabaseRecovers \/ UNCHANGED vars
  BY <1>7 DEF DatabaseRecovers, vars, Engaged
<1> QED BY <1>1, <1>2, <1>3, <1>4, <1>5, <1>6, <1>7 DEF Next, Step

(* A step that lets nobody hold or repair a connection and adds none.      *)
LEMMA StillNoExtra ==
  ASSUME TypeOK, NoExtraConnection, Len(connections') = Len(connections),
         Owners' \subseteq Owners, Failing' \subseteq Failing
  PROVE  NoExtraConnection'
<1>1. Cardinality(Owners') <= Cardinality(Owners) /\ Cardinality(Owners') \in Nat
  BY CountsFinite, FS_Subset, FS_CardinalityType
<1>2. Cardinality(Failing') <= Cardinality(Failing) /\ Cardinality(Failing') \in Nat
  BY CountsFinite, FS_Subset, FS_CardinalityType
<1>3. Len(connections) \in Nat /\ PoolSize \in Nat
  BY PoolAssumption DEF TypeOK
<1> QED BY <1>1, <1>2, <1>3, CountsFinite DEF NoExtraConnection, Failing

(* Each step moves a connection, or a slot being repaired, between the     *)
(* queue and the threads, or loses it; none makes a new one.               *)
LEMMA NextNoExtra ==
  TypeOK /\ Engaged /\ NoExtraConnection /\ [Next]_vars => NoExtraConnection'
<1> SUFFICES ASSUME TypeOK, Engaged, NoExtraConnection, [Next]_vars
             PROVE  NoExtraConnection'
  OBVIOUS
<1>a. /\ Len(connections) \in Nat /\ PoolSize \in Nat
      /\ Cardinality(Owners) \in Nat /\ Cardinality(Failing) \in Nat
      /\ Len(connections) + Cardinality(Owners) + Cardinality(Failing) <= PoolSize
  BY PoolAssumption, CountsFinite DEF TypeOK, NoExtraConnection, Failing
<1>b. SUFFICES Len(connections') + Cardinality(Owners') + Cardinality(Failing') <= PoolSize
  BY DEF NoExtraConnection, Failing
<1>h. \A c \in Health : c # None
  BY DEF Health, None
<1>1. ASSUME NEW t \in Threads,
             \/ StartAcquire(t) \/ Sleep(t) \/ ThrowTimeout(t) \/ Deadline(t)
             \/ WakeSpuriously(t) \/ FinishUse(t)
      PROVE  NoExtraConnection'
  <2>1. /\ UNCHANGED <<connections, held>>
        /\ Failing' \subseteq Failing
    BY <1>1
    DEF StartAcquire, Sleep, ThrowTimeout, Deadline, WakeSpuriously, FinishUse, Goto,
        Failing, TypeOK
  <2>2. Owners' = Owners
    BY <2>1 DEF Owners
  <2> QED BY <2>1, <2>2, StillNoExtra
<1>2. ASSUME NEW t \in Threads, TakeFront(t)
      PROVE  Len(connections') + Cardinality(Owners') + Cardinality(Failing') <= PoolSize
  <2>1. Len(connections') = Len(connections) - 1
    BY <1>2 DEF TakeFront, TypeOK
  <2>2. Owners' = Owners \cup {t}
    <3>1. Head(connections) # None
      BY <1>2, <1>h DEF TakeFront, TypeOK
    <3> QED BY <1>2, <3>1 DEF TakeFront, Owners, TypeOK
  <2>3. Failing' = Failing
    BY <1>2 DEF TakeFront, Goto, Failing, TypeOK
  <2>4. /\ IsFiniteSet(Owners')
        /\ \/ Cardinality(Owners') = Cardinality(Owners)
           \/ Cardinality(Owners') = Cardinality(Owners) + 1
    BY <2>2, CountsFinite, FS_AddElement
  <2> QED BY <1>a, <2>1, <2>3, <2>4
<1>3. ASSUME NEW t \in Threads, CheckHealth(t)
      PROVE  Len(connections') + Cardinality(Owners') + Cardinality(Failing') <= PoolSize
  <2>1. t \in Owners
    BY <1>3 DEF CheckHealth, Engaged, Owners
  <2>2. UNCHANGED connections
    BY <1>3 DEF CheckHealth
  <2>3. CASE held[t] = "open" \/ databaseUp
    <3>1. Owners' = Owners /\ Failing' = Failing
      BY <1>3, <2>1, <2>3 DEF CheckHealth, Goto, Owners, Failing, TypeOK, None
    <3> QED BY <1>a, <2>2, <3>1
  <2>4. CASE ~(held[t] = "open" \/ databaseUp)
    <3>1. Owners' = Owners \ {t} /\ Failing' = Failing \cup {t} /\ t \notin Failing
      BY <1>3, <2>4 DEF CheckHealth, Goto, Owners, Failing, TypeOK
    <3>2. Cardinality(Owners') = Cardinality(Owners) - 1
      BY <2>1, <3>1, CountsFinite, FS_RemoveElement
    <3>3. Cardinality(Failing') = Cardinality(Failing) + 1
      BY <3>1, CountsFinite, FS_AddElement
    <3> QED BY <1>a, <2>2, <3>2, <3>3
  <2> QED BY <2>3, <2>4
<1>4. ASSUME NEW t \in Threads, CatchReconnectFailure(t)
      PROVE  Len(connections') + Cardinality(Owners') + Cardinality(Failing') <= PoolSize
  <2>1. Len(connections') <= Len(connections) + 1 /\ Len(connections') \in Nat
    BY <1>4, NextTypes DEF CatchReconnectFailure, TypeOK
  <2>2. Owners' = Owners
    BY <1>4 DEF CatchReconnectFailure, Owners
  <2>3. t \in Failing /\ Failing' = Failing \ {t}
    BY <1>4, NotifyMoves DEF CatchReconnectFailure, Failing
  <2>4. Cardinality(Failing') = Cardinality(Failing) - 1
    BY <2>3, CountsFinite, FS_RemoveElement
  <2> QED BY <1>a, <2>1, <2>2, <2>4
<1>5. ASSUME NEW t \in Threads, ReplaceBroken(t) PROVE NoExtraConnection'
  <2>1. t \in Owners
    BY <1>5 DEF ReplaceBroken, Engaged, Owners
  <2>2. Owners' \subseteq Owners
    BY <1>5, <2>1 DEF ReplaceBroken, Owners, TypeOK
  <2>3. UNCHANGED connections /\ Failing' \subseteq Failing
    BY <1>5 DEF ReplaceBroken, Goto, Failing, TypeOK
  <2> QED BY <2>2, <2>3, StillNoExtra
<1>6. ASSUME NEW t \in Threads, PushAndNotify(t)
      PROVE  Len(connections') + Cardinality(Owners') + Cardinality(Failing') <= PoolSize
  <2>1. Owners' = Owners \ {t}
    BY <1>6 DEF PushAndNotify, Owners, TypeOK
  <2>2. Failing' = Failing
    BY <1>6, NotifyMoves DEF PushAndNotify, Failing
  <2>3. CASE held[t] = None
    <3>1. UNCHANGED connections /\ Owners' = Owners
      BY <1>6, <2>1, <2>3 DEF PushAndNotify, Owners
    <3> QED BY <1>a, <2>2, <3>1
  <2>4. CASE held[t] # None
    <3>1. Len(connections') = Len(connections) + 1
      BY <1>6, <2>4 DEF PushAndNotify, TypeOK
    <3>2. t \in Owners
      BY <2>4 DEF Owners
    <3>3. Cardinality(Owners') = Cardinality(Owners) - 1
      BY <2>1, <3>2, CountsFinite, FS_RemoveElement
    <3> QED BY <1>a, <2>2, <3>1, <3>3
  <2> QED BY <2>3, <2>4
<1>7. CASE DatabaseFails
  <2>1. Len(connections') = Len(connections)
    BY <1>7, NextTypes DEF DatabaseFails, TypeOK
  <2>2. Owners' = Owners /\ Failing' = Failing
    BY <1>7 DEF DatabaseFails, Owners, Failing, TypeOK, None
  <2> QED BY <1>a, <2>1, <2>2
<1>8. CASE DatabaseRecovers \/ UNCHANGED vars
  <2>1. UNCHANGED <<connections, held, pc>>
    BY <1>8 DEF DatabaseRecovers, vars
  <2>2. Owners' = Owners /\ Failing' = Failing
    BY <2>1 DEF Owners, Failing
  <2> QED BY <1>a, <2>1, <2>2
<1>9. ASSUME NEW t \in Threads, Step(t)
      PROVE  Len(connections') + Cardinality(Owners') + Cardinality(Failing') <= PoolSize
  BY <1>9, <1>1, <1>2, <1>3, <1>4, <1>5, <1>6 DEF Step, NoExtraConnection, Failing
<1> QED
  BY <1>1, <1>7, <1>8, <1>9 DEF Next, NoExtraConnection, Failing

(***************************************************************************)
(* However many threads call and however often PostgreSQL fails, the       *)
(* connections in the queue, those in use and the slots under repair never *)
(* exceed pool_size_: acquire's catch block gives a slot back once.        *)
(***************************************************************************)
THEOREM PoolNoExtra == Spec => []NoExtraConnection
<1>1. Init => Engaged
  BY DEF Init, Engaged
<1>2. Init => NoExtraConnection
  <2> SUFFICES ASSUME Init PROVE NoExtraConnection
    OBVIOUS
  <2>1. Len(connections) = PoolSize
    BY PoolAssumption DEF Init
  <2>2. Owners = {} /\ Failing = {}
    BY DEF Init, Owners, Failing
  <2>3. Cardinality(Owners) = 0 /\ Cardinality(Failing) = 0
    BY <2>2, FS_EmptySet
  <2> QED BY <2>1, <2>3, PoolAssumption DEF NoExtraConnection, Failing
<1>3. TypeOK /\ Engaged /\ [Next]_vars => Engaged'
  BY NextEngaged
<1>4. TypeOK /\ Engaged /\ NoExtraConnection /\ [Next]_vars => NoExtraConnection'
  BY NextNoExtra
<1> QED BY <1>1, <1>2, <1>3, <1>4, PoolTypes, PTL DEF Spec
=============================================================================
