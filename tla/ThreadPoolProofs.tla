--------------------------- MODULE ThreadPoolProofs ---------------------------
(***************************************************************************)
(* What holds of the worker threads for every number of workers, requests  *)
(* and sockets: no task is lost or run twice, the destructor drains the    *)
(* queue, and no sleeper is needed.  The inductive invariant adds to       *)
(* RunsOnce what a worker's phase says of its task, of stopped_ and of the *)
(* queue.                                                                  *)
(***************************************************************************)
EXTENDS ThreadPool, FiniteSetTheorems, TLAPS

-----------------------------------------------------------------------------
(* The tasks *)

LEMMA NoneIsNoTask == None \notin Tasks
  BY DEF None, Tasks, HttpTasks, SocketTasks

LEMMA HttpIsTask == HttpTasks \subseteq Tasks
  BY DEF Tasks

LEMMA SocketTask ==
  ASSUME NEW s \in Sockets
  PROVE  <<"online", s>> \in Tasks /\ <<"offline", s>> \in Tasks
  BY DEF Tasks, SocketTasks

LEMMA UpgradeSocket ==
  ASSUME NEW t \in HttpTasks, t[1] = "upgrade"
  PROVE  t[2] \in Sockets
  BY DEF HttpTasks

(* The closure that answers carries its task.                              *)
LEMMA AnswerTask ==
  ASSUME NEW c \in Closures, c # Shutdown
  PROVE  c[2] \in HttpTasks
  BY DEF Closures

LEMMA AnswerClosure ==
  ASSUME NEW t \in HttpTasks
  PROVE  <<Answer, t>> \in Closures
  BY DEF Closures

-----------------------------------------------------------------------------
(* Types *)

LEMMA InitTypes == Init => TypeOK
<1> SUFFICES ASSUME Init PROVE TypeOK
  OBVIOUS
<1>1. tasks \in Seq(Tasks) /\ deferred \in Seq(Closures)
  BY DEF Init
<1>2. ran \in [Tasks -> Nat]
  BY DEF Init
<1> QED BY <1>1, <1>2 DEF Init, TypeOK, WorkerPhases, MainPhases

(* submit() keeps the types of what it changes.                            *)
LEMMA SubmitTypes ==
  ASSUME TypeOK, NEW t \in Tasks, Submit(t)
  PROVE  /\ tasks' \in Seq(Tasks)
         /\ at' \in [Workers -> WorkerPhases]
         /\ doing' \in [Workers -> Tasks \cup {None}]
         /\ stopped' \in BOOLEAN
         /\ main' \in MainPhases
         /\ asked' \subseteq Tasks
         /\ ran' \in [Tasks -> Nat]
<1>1. Append(tasks, t) \in Seq(Tasks)
  BY DEF TypeOK
<1>2. asked \cup {t} \subseteq Tasks
  BY DEF TypeOK
<1> QED BY <1>1, <1>2 DEF Submit, TypeOK, MainPhases

(* Every step of the loop thread keeps the types of the variables.         *)
LEMMA MainTypes == TypeOK /\ MainStep => TypeOK'
<1> SUFFICES ASSUME TypeOK, MainStep PROVE TypeOK'
  OBVIOUS
<1>1. ASSUME NEW t \in HttpTasks, Request(t) PROVE TypeOK'
  <2>1. t \in Tasks
    BY HttpIsTask
  <2> QED BY <1>1, <2>1, SubmitTypes DEF Request, TypeOK
<1>2. ASSUME NEW t \in HttpTasks, Abort(t) PROVE TypeOK'
  BY <1>2 DEF Abort, TypeOK, poolVars
<1>3. ASSUME NEW s \in Sockets, CloseSocket(s) PROVE TypeOK'
  <2>1. <<"offline", s>> \in Tasks
    BY SocketTask
  <2> QED BY <1>3, <2>1, SubmitTypes DEF CloseSocket, TypeOK
<1>4. CASE NotifyOne
  BY <1>4 DEF NotifyOne, TypeOK, Asleep, WorkerPhases, MainPhases
<1>5. CASE Signal
  <2>1. Append(deferred, Shutdown) \in Seq(Closures)
    BY DEF TypeOK, Closures
  <2> QED BY <1>5, <2>1 DEF Signal, TypeOK, poolVars
<1>6. CASE RunShutdown
  <2>1. Tail(deferred) \in Seq(Closures)
    BY <1>6 DEF RunShutdown, TypeOK
  <2> QED BY <1>6, <2>1 DEF RunShutdown, TypeOK, poolVars
<1>7. CASE RunAnswer
  <2> DEFINE t == Head(deferred)[2]
  <2>1. Tail(deferred) \in Seq(Closures) /\ Head(deferred) \in Closures
    BY <1>7 DEF RunAnswer, TypeOK
  <2>2. t \in HttpTasks
    BY <1>7, <2>1, AnswerTask DEF RunAnswer
  <2>3. CASE UNCHANGED <<poolVars, main, open, asked, ran>>
    BY <1>7, <2>1, <2>3 DEF RunAnswer, TypeOK, poolVars
  <2>4. CASE t[1] = "upgrade" /\ open' = open \cup {t[2]} /\ Submit(<<"online", t[2]>>)
    <3>1. t[2] \in Sockets
      BY <2>2, <2>4, UpgradeSocket
    <3>2. <<"online", t[2]>> \in Tasks
      BY <3>1, SocketTask
    <3>3. open' \subseteq Sockets /\ toClose' \subseteq open'
      BY <1>7, <2>4, <3>1 DEF RunAnswer, TypeOK
    <3>4. deferred' \in Seq(Closures) /\ inFlight' \subseteq HttpTasks /\ listening' \in BOOLEAN
      BY <1>7, <2>1 DEF RunAnswer, TypeOK
    <3> HIDE DEF t
    <3> QED BY <2>4, <3>2, <3>3, <3>4, SubmitTypes DEF TypeOK
  <2> QED BY <1>7, <2>3, <2>4 DEF RunAnswer
<1>8. CASE Return
  BY <1>8 DEF Return, TypeOK, MainPhases, poolVars
<1>9. CASE StoreStopped
  BY <1>9 DEF StoreStopped, TypeOK, MainPhases
<1>10. CASE NotifyAll
  BY <1>10 DEF NotifyAll, TypeOK, MainPhases, WorkerPhases
<1>11. CASE Join
  BY <1>11 DEF Join, TypeOK, MainPhases, poolVars
<1> QED
  BY <1>1, <1>2, <1>3, <1>4, <1>5, <1>6, <1>7, <1>8, <1>9, <1>10, <1>11 DEF MainStep

(* A worker in a task holds it: what TaskEnds counts is a task.            *)
Holding == \A w \in Workers : at[w] = "running" <=> doing[w] # None

(* Every step of a worker keeps the types of the variables.                *)
LEMMA WorkerTypes ==
  ASSUME TypeOK, Holding, NEW w \in Workers,
         WorkerStep(w) \/ WakeSpuriously(w) \/ Crash(w)
  PROVE  TypeOK'
<1>1. CASE Take(w)
  <2>1. Tail(tasks) \in Seq(Tasks) /\ Head(tasks) \in Tasks
    BY <1>1 DEF Take, TypeOK
  <2> QED BY <1>1, <2>1 DEF Take, TypeOK, loopVars, WorkerPhases
<1>2. CASE Exit(w)
  BY <1>2 DEF Exit, TypeOK, loopVars, WorkerPhases
<1>3. CASE Decide(w)
  BY <1>3 DEF Decide, TypeOK, loopVars, WorkerPhases
<1>4. CASE Block(w)
  BY <1>4 DEF Block, TypeOK, loopVars, WorkerPhases
<1>5. ASSUME TaskEnds(w), deferred' \in Seq(Closures) PROVE TypeOK'
  <2>1. doing[w] \in Tasks
    BY <1>5 DEF TaskEnds, Holding, TypeOK
  <2>2. ran' \in [Tasks -> Nat]
    BY <1>5, <2>1 DEF TaskEnds, TypeOK
  <2> QED BY <1>5, <2>2 DEF TaskEnds, TypeOK, WorkerPhases
<1>6. CASE Finish(w)
  <2>1. doing[w] \in HttpTasks => <<Answer, doing[w]>> \in Closures
    BY AnswerClosure
  <2>2. deferred' \in Seq(Closures)
    BY <1>6, <2>1 DEF Finish, TypeOK
  <2> QED BY <1>5, <1>6, <2>2 DEF Finish
<1>7. CASE Throw(w)
  BY <1>5, <1>7 DEF Throw, TypeOK
<1>8. CASE WakeSpuriously(w)
  BY <1>8 DEF WakeSpuriously, TypeOK, loopVars, WorkerPhases
<1>9. CASE Crash(w)
  BY <1>9 DEF Crash, TypeOK, poolVars, MainPhases
<1> QED BY <1>1, <1>2, <1>3, <1>4, <1>6, <1>7, <1>8, <1>9 DEF WorkerStep

-----------------------------------------------------------------------------
(* A task runs once *)

(* A worker leaves only when there is nothing left to do, and nothing is   *)
(* submitted after run() has returned.                                     *)
Leaving ==
  /\ \A w \in Workers : at[w] = "gone" => stopped /\ tasks = <<>>
  /\ stopped => main \notin {"loop", "notifying", "stopping"}
  /\ main = "done" => \A w \in Workers : at[w] = "gone"

(* A socket is opened by the one answer to its upgrade, and nothing was    *)
(* submitted for it before; an open socket has not been closed.            *)
Connecting(s) == <<"upgrade", s>> \notin asked \/ <<"upgrade", s>> \in inFlight

Connections ==
  /\ inFlight \subseteq asked
  /\ \A s \in Sockets : Connecting(s) =>
       s \notin open /\ <<"online", s>> \notin asked /\ <<"offline", s>> \notin asked
  /\ \A s \in open : <<"offline", s>> \notin asked

Inv == TypeOK /\ Holding /\ Leaving /\ Connections /\ RunsOnce

(* submit() of a task that was not submitted before.                       *)
LEMMA SubmitOnce ==
  ASSUME TypeOK, RunsOnce, NEW t \in Tasks, t \notin asked, Submit(t)
  PROVE  RunsOnce'
<1> DEFINE n == Len(tasks) + 1
<1>1. /\ tasks \in Seq(Tasks) /\ Len(tasks) \in Nat
      /\ tasks' = Append(tasks, t) /\ doing' = doing /\ ran' = ran
      /\ asked' = asked \cup {t}
  BY DEF Submit, TypeOK
<1>2. ~Queued(t) /\ ~InHands(t) /\ ran[t] = 0
  BY DEF RunsOnce
<1>3. DOMAIN tasks' = DOMAIN tasks \cup {n} /\ n \notin DOMAIN tasks /\ tasks'[n] = t
  BY <1>1
<1>4. \A i \in DOMAIN tasks : tasks'[i] = tasks[i]
  BY <1>1
<1>5. \A u \in Tasks : Queued(u)' <=> Queued(u) \/ u = t
  BY <1>3, <1>4 DEF Queued
<1>6. \A u \in Tasks : InHands(u)' <=> InHands(u)
  BY <1>1 DEF InHands
<1>7. \A i, j \in DOMAIN tasks' : tasks'[i] = tasks'[j] => i = j
  BY <1>2, <1>3, <1>4 DEF RunsOnce, Queued
<1>8. \A v, w \in Workers : doing'[v] = doing'[w] => v = w \/ doing'[v] = None
  BY <1>1 DEF RunsOnce
<1>9. \A u \in Tasks :
        /\ u \in asked' <=> Queued(u)' \/ InHands(u)' \/ ran'[u] = 1
        /\ ran'[u] \in {0, 1}
        /\ ran'[u] = 1 => ~Queued(u)' /\ ~InHands(u)'
        /\ ~(Queued(u)' /\ InHands(u)')
  BY <1>1, <1>2, <1>5, <1>6 DEF RunsOnce
<1> QED BY <1>7, <1>8, <1>9 DEF RunsOnce

(* The pop moves the front from the queue into the worker's hands.         *)
LEMMA TakeOnce ==
  ASSUME TypeOK, Holding, RunsOnce, NEW w \in Workers, Take(w)
  PROVE  RunsOnce'
<1> DEFINE t == Head(tasks)
<1>1. /\ tasks \in Seq(Tasks) /\ Len(tasks) \in Nat \ {0} /\ t \in Tasks /\ t = tasks[1]
      /\ tasks' = Tail(tasks) /\ doing' = [doing EXCEPT ![w] = t]
      /\ doing \in [Workers -> Tasks \cup {None}] /\ doing[w] = None
      /\ ran' = ran /\ asked' = asked
  BY DEF Take, TypeOK, Holding
<1>2. /\ DOMAIN tasks' = 1..(Len(tasks) - 1) /\ DOMAIN tasks = 1..Len(tasks)
      /\ \A i \in DOMAIN tasks' : tasks'[i] = tasks[i + 1]
  BY <1>1
<1> HIDE DEF t
<1>3. \A u \in Tasks : Queued(u)' <=> Queued(u) /\ u # t
  <2> SUFFICES ASSUME NEW u \in Tasks PROVE Queued(u)' <=> Queued(u) /\ u # t
    OBVIOUS
  <2>1. ASSUME NEW i \in DOMAIN tasks', tasks'[i] = u PROVE Queued(u) /\ u # t
    <3>1. i + 1 \in DOMAIN tasks /\ 1 \in DOMAIN tasks /\ tasks[i + 1] = u /\ i + 1 # 1
      BY <1>1, <1>2, <2>1
    <3> QED BY <1>1, <3>1 DEF Queued, RunsOnce
  <2>2. ASSUME NEW i \in DOMAIN tasks, tasks[i] = u, u # t PROVE Queued(u)'
    <3>1. i # 1
      BY <1>1, <2>2
    <3>2. i - 1 \in DOMAIN tasks' /\ tasks'[i - 1] = u
      BY <1>1, <1>2, <2>2, <3>1
    <3> QED BY <3>2 DEF Queued
  <2> QED BY <2>1, <2>2 DEF Queued
<1>4. \A u \in Tasks : InHands(u)' <=> InHands(u) \/ u = t
  BY <1>1, NoneIsNoTask DEF InHands
<1>5. Queued(t) /\ ~InHands(t) /\ ran[t] = 0 /\ t \in asked
  <2>1. 1 \in DOMAIN tasks
    BY <1>1, <1>2
  <2> QED BY <1>1, <2>1 DEF Queued, RunsOnce
<1>6. \A i, j \in DOMAIN tasks' : tasks'[i] = tasks'[j] => i = j
  <2> SUFFICES ASSUME NEW i \in DOMAIN tasks', NEW j \in DOMAIN tasks', tasks'[i] = tasks'[j]
               PROVE  i = j
    OBVIOUS
  <2>1. i + 1 \in DOMAIN tasks /\ j + 1 \in DOMAIN tasks /\ tasks[i + 1] = tasks[j + 1]
    BY <1>1, <1>2
  <2>2. i + 1 = j + 1
    BY <2>1 DEF RunsOnce
  <2> QED BY <1>1, <1>2, <2>2
<1>7. \A u, v \in Workers : doing'[u] = doing'[v] => u = v \/ doing'[u] = None
  BY <1>1, <1>5 DEF RunsOnce, InHands
<1>8. \A u \in Tasks :
        /\ u \in asked' <=> Queued(u)' \/ InHands(u)' \/ ran'[u] = 1
        /\ ran'[u] \in {0, 1}
        /\ ran'[u] = 1 => ~Queued(u)' /\ ~InHands(u)'
        /\ ~(Queued(u)' /\ InHands(u)')
  BY <1>1, <1>3, <1>4, <1>5 DEF RunsOnce
<1> QED BY <1>6, <1>7, <1>8 DEF RunsOnce

(* The end of a task moves it from the worker's hands into the past.       *)
LEMMA EndOnce ==
  ASSUME TypeOK, Holding, RunsOnce, NEW w \in Workers, TaskEnds(w)
  PROVE  RunsOnce'
<1> DEFINE t == doing[w]
<1>1. /\ t \in Tasks /\ doing \in [Workers -> Tasks \cup {None}] /\ ran \in [Tasks -> Nat]
      /\ doing' = [doing EXCEPT ![w] = None]
      /\ ran' = [ran EXCEPT ![t] = ran[t] + 1]
      /\ tasks' = tasks /\ asked' = asked
  BY DEF TaskEnds, TypeOK, Holding
<1>2. \A u \in Tasks : Queued(u)' <=> Queued(u)
  BY <1>1 DEF Queued
<1>3. InHands(t) /\ ~Queued(t) /\ ran[t] = 0 /\ t \in asked
  BY <1>1 DEF InHands, RunsOnce
<1>4. \A u \in Tasks : InHands(u)' <=> InHands(u) /\ u # t
  BY <1>1, NoneIsNoTask DEF InHands, RunsOnce
<1>5. ran'[t] = 1 /\ \A u \in Tasks : u # t => ran'[u] = ran[u]
  BY <1>1, <1>3
<1> HIDE DEF t
<1>6. \A u, v \in Workers : doing'[u] = doing'[v] => u = v \/ doing'[u] = None
  BY <1>1 DEF RunsOnce
<1>7. \A u \in Tasks :
        /\ u \in asked' <=> Queued(u)' \/ InHands(u)' \/ ran'[u] = 1
        /\ ran'[u] \in {0, 1}
        /\ ran'[u] = 1 => ~Queued(u)' /\ ~InHands(u)'
        /\ ~(Queued(u)' /\ InHands(u)')
  BY <1>1, <1>2, <1>3, <1>4, <1>5 DEF RunsOnce
<1> QED BY <1>1, <1>6, <1>7 DEF RunsOnce

LEMMA KeepOnce ==
  ASSUME RunsOnce, UNCHANGED <<tasks, doing, asked, ran>>
  PROVE  RunsOnce'
  BY DEF RunsOnce, Queued, InHands

-----------------------------------------------------------------------------
(* The invariant *)

LEMMA InitInv == Init => Inv
<1> SUFFICES ASSUME Init PROVE Inv
  OBVIOUS
<1>1. Holding /\ Leaving /\ Connections
  BY DEF Init, Holding, Leaving, Connections, Connecting
<1>2. RunsOnce
  BY NoneIsNoTask DEF Init, RunsOnce, Queued, InHands
<1> QED BY <1>1, <1>2, InitTypes DEF Inv

(* A worker's phase agrees with its hands after every step.                *)
LEMMA HoldingKept ==
  ASSUME TypeOK, Holding, [Next]_vars
  PROVE  Holding'
<1>1. CASE MainStep
  <2>1. doing' = doing
    BY <1>1 DEF MainStep, Request, Abort, CloseSocket, NotifyOne, Signal, RunShutdown,
         RunAnswer, Return, StoreStopped, NotifyAll, Join, Submit, poolVars
  <2>2. \A w \in Workers : at'[w] = at[w] \/ (at[w] = "asleep" /\ at'[w] = "awake")
    BY <1>1 DEF TypeOK, MainStep, Request, Abort, CloseSocket, NotifyOne, Asleep, Signal,
         RunShutdown, RunAnswer, Return, StoreStopped, NotifyAll, Join, Submit, poolVars
  <2> QED BY <2>1, <2>2 DEF Holding
<1>2. ASSUME NEW w \in Workers, Take(w) PROVE Holding'
  <2>1. Head(tasks) \in Tasks
    BY <1>2 DEF Take, TypeOK
  <2> QED BY <1>2, <2>1, NoneIsNoTask DEF Take, Holding, TypeOK
<1>3. ASSUME NEW w \in Workers, TaskEnds(w) PROVE Holding'
  BY <1>3 DEF TaskEnds, Holding, TypeOK
<1>4. ASSUME NEW w \in Workers, Exit(w) \/ Decide(w) \/ Block(w) \/ WakeSpuriously(w)
      PROVE  Holding'
  BY <1>4 DEF Exit, Decide, Block, WakeSpuriously, Holding, TypeOK
<1>5. ASSUME NEW w \in Workers, Crash(w) PROVE Holding'
  BY <1>5 DEF Crash, Holding, poolVars
<1>6. CASE UNCHANGED vars
  BY <1>6 DEF vars, Holding
<1> QED
  BY <1>1, <1>2, <1>3, <1>4, <1>5, <1>6 DEF Next, WorkerStep, Finish, Throw, Ended

(* Nothing is submitted past run(), and those who left had nothing to do.  *)
LEMMA LeavingKept ==
  ASSUME TypeOK, Leaving, [Next]_vars
  PROVE  Leaving'
<1>1. ASSUME main = "loop", stopped' = stopped, main' \in {"loop", "notifying", "stopping"},
             \A w \in Workers : at'[w] = "gone" => at[w] = "gone"
      PROVE  Leaving'
  BY <1>1 DEF Leaving
<1>2. ASSUME NEW t \in HttpTasks, Request(t) \/ Abort(t) PROVE Leaving'
  BY <1>1, <1>2 DEF Request, Abort, Idle, Submit, poolVars
<1>3. ASSUME NEW s \in Sockets, CloseSocket(s) PROVE Leaving'
  BY <1>1, <1>3 DEF CloseSocket, Submit
<1>4. CASE NotifyOne
  BY <1>4 DEF NotifyOne, Asleep, Leaving, TypeOK
<1>5. CASE Signal
  BY <1>5 DEF Signal, Leaving, poolVars
<1>6. CASE RunShutdown \/ RunAnswer \/ Return
  BY <1>1, <1>6 DEF RunShutdown, RunAnswer, Return, Idle, Submit, poolVars
<1>7. CASE StoreStopped
  BY <1>7 DEF StoreStopped, Leaving
<1>8. CASE NotifyAll
  BY <1>8 DEF NotifyAll, Leaving, TypeOK
<1>9. CASE Join
  BY <1>9 DEF Join, Leaving, poolVars
<1>10. ASSUME NEW w \in Workers, Take(w) PROVE Leaving'
  BY <1>10 DEF Take, Leaving, TypeOK, loopVars
<1>11. ASSUME NEW w \in Workers, Exit(w) PROVE Leaving'
  BY <1>11 DEF Exit, Leaving, TypeOK, loopVars
<1>12. ASSUME NEW w \in Workers, Decide(w) \/ Block(w) \/ WakeSpuriously(w) PROVE Leaving'
  BY <1>12 DEF Decide, Block, WakeSpuriously, Leaving, TypeOK, loopVars
<1>13. ASSUME NEW w \in Workers, TaskEnds(w) PROVE Leaving'
  BY <1>13 DEF TaskEnds, Leaving, TypeOK
<1>14. ASSUME NEW w \in Workers, Crash(w) PROVE Leaving'
  BY <1>14 DEF Crash, Leaving, HandlersAlive, poolVars
<1>15. CASE UNCHANGED vars
  BY <1>15 DEF vars, Leaving
<1> QED
  BY <1>2, <1>3, <1>4, <1>5, <1>6, <1>7, <1>8, <1>9, <1>10, <1>11, <1>12, <1>13, <1>14, <1>15
  DEF Next, MainStep, WorkerStep, Finish, Throw, Ended

(* A step that submits nothing and opens nothing keeps the connections.    *)
LEMMA ConnectionsUntouched ==
  ASSUME Connections, asked' = asked, inFlight' \subseteq inFlight, open' \subseteq open
  PROVE  Connections'
  BY DEF Connections, Connecting

(* Every socket is opened once and closed once.                            *)
LEMMA ConnectionsKept ==
  ASSUME TypeOK, Connections, [Next]_vars
  PROVE  Connections'
<1>1. ASSUME NEW t \in HttpTasks, Request(t) PROVE Connections'
  <2>1. \A s \in Sockets : <<"online", s>> # t /\ <<"offline", s>> # t
    BY DEF HttpTasks
  <2>2. \A s \in Sockets : Connecting(s)' => Connecting(s)
    BY <1>1 DEF Request, Submit, Connecting
  <2> QED BY <1>1, <2>1, <2>2 DEF Request, Submit, Connections, TypeOK
<1>2. ASSUME NEW t \in HttpTasks, Abort(t) PROVE Connections'
  BY <1>2, ConnectionsUntouched DEF Abort
<1>3. ASSUME NEW s \in Sockets, CloseSocket(s) PROVE Connections'
  <2>1. s \in open /\ open' = open \ {s} /\ asked' = asked \cup {<<"offline", s>>}
        /\ inFlight' = inFlight
    BY <1>3 DEF CloseSocket, Submit, TypeOK
  <2>2. \A u \in Sockets : Connecting(u)' => Connecting(u) /\ u # s
    BY <2>1 DEF Connecting, Connections
  <2>3. \A u \in Sockets : u # s => <<"offline", u>> # <<"offline", s>>
    OBVIOUS
  <2>4. \A u \in Sockets : <<"online", u>> # <<"offline", s>>
    OBVIOUS
  <2> QED BY <2>1, <2>2, <2>3, <2>4 DEF Connections, TypeOK
<1>4. CASE NotifyOne \/ Signal \/ RunShutdown \/ Return \/ StoreStopped \/ NotifyAll \/ Join
  BY <1>4, ConnectionsUntouched
  DEF NotifyOne, Signal, RunShutdown, Return, StoreStopped, NotifyAll, Join
<1>5. CASE RunAnswer
  <2> DEFINE t == Head(deferred)[2]
  <2>1. CASE UNCHANGED <<poolVars, main, open, asked, ran>>
    BY <1>5, <2>1, ConnectionsUntouched DEF RunAnswer
  <2>2. CASE t[1] = "upgrade" /\ t \in inFlight /\ open' = open \cup {t[2]}
             /\ Submit(<<"online", t[2]>>)
    <3>1. PICK s \in Sockets : t = <<"upgrade", s>>
      BY <2>2 DEF TypeOK, HttpTasks
    <3>2. /\ inFlight' = inFlight \ {t} /\ open' = open \cup {s}
          /\ asked' = asked \cup {<<"online", s>>}
      BY <1>5, <2>2, <3>1 DEF RunAnswer, Submit
    <3>3. Connecting(s) /\ t \in asked
      BY <2>2, <3>1 DEF Connecting, Connections
    <3>4. \A u \in Sockets : Connecting(u)' => Connecting(u) /\ u # s
      BY <3>1, <3>2, <3>3 DEF Connecting
    <3>5. \A u \in Sockets : /\ u # s => <<"online", u>> # <<"online", s>>
                             /\ <<"offline", u>> # <<"online", s>>
      OBVIOUS
    <3>6. \A u \in Sockets : <<"upgrade", u>> # <<"online", s>>
      OBVIOUS
    <3> HIDE DEF t
    <3> QED BY <3>2, <3>3, <3>4, <3>5 DEF Connections, TypeOK
  <2> QED BY <1>5, <2>1, <2>2 DEF RunAnswer
<1>6. ASSUME NEW w \in Workers, WorkerStep(w) \/ WakeSpuriously(w) \/ Crash(w)
      PROVE  Connections'
  BY <1>6, ConnectionsUntouched
  DEF WorkerStep, Take, Exit, Decide, Block, Finish, Throw, TaskEnds, WakeSpuriously, Crash,
      loopVars
<1>7. CASE UNCHANGED vars
  BY <1>7, ConnectionsUntouched DEF vars
<1> QED BY <1>1, <1>2, <1>3, <1>4, <1>5, <1>6, <1>7 DEF Next, MainStep, Ended

(* The pop, the end of a task and the submissions of new tasks keep        *)
(* RunsOnce; every other step leaves the queue, the hands and the history. *)
LEMMA RunsOnceKept ==
  ASSUME Inv, [Next]_vars
  PROVE  RunsOnce'
<1> USE DEF Inv
<1>1. ASSUME NEW t \in HttpTasks, Request(t) PROVE RunsOnce'
  BY <1>1, SubmitOnce, HttpIsTask DEF Request
<1>2. ASSUME NEW s \in Sockets, CloseSocket(s) PROVE RunsOnce'
  <2>1. s \in open
    BY <1>2 DEF CloseSocket, TypeOK
  <2>2. <<"offline", s>> \in Tasks \ asked
    BY <2>1, SocketTask DEF Connections
  <2> QED BY <1>2, <2>2, SubmitOnce DEF CloseSocket
<1>3. CASE RunAnswer
  <2> DEFINE t == Head(deferred)[2]
  <2>1. CASE UNCHANGED <<poolVars, main, open, asked, ran>>
    BY <2>1, KeepOnce DEF poolVars
  <2>2. CASE t[1] = "upgrade" /\ t \in inFlight /\ Submit(<<"online", t[2]>>)
    <3>1. PICK s \in Sockets : t = <<"upgrade", s>>
      BY <2>2 DEF TypeOK, HttpTasks
    <3>2. Submit(<<"online", s>>) /\ <<"upgrade", s>> \in inFlight
      BY <2>2, <3>1
    <3>3. <<"online", s>> \in Tasks \ asked
      BY <3>2, SocketTask DEF Connections, Connecting
    <3> QED BY <3>2, <3>3, SubmitOnce
  <2> QED BY <1>3, <2>1, <2>2 DEF RunAnswer
<1>4. ASSUME NEW t \in HttpTasks, Abort(t) PROVE RunsOnce'
  BY <1>4, KeepOnce DEF Abort, poolVars
<1>5. CASE NotifyOne \/ Signal \/ RunShutdown \/ Return \/ StoreStopped \/ NotifyAll \/ Join
  BY <1>5, KeepOnce
  DEF NotifyOne, Signal, RunShutdown, Return, StoreStopped, NotifyAll, Join, poolVars
<1>6. ASSUME NEW w \in Workers, Take(w) PROVE RunsOnce'
  BY <1>6, TakeOnce
<1>7. ASSUME NEW w \in Workers, TaskEnds(w) PROVE RunsOnce'
  BY <1>7, EndOnce
<1>8. ASSUME NEW w \in Workers,
             Exit(w) \/ Decide(w) \/ Block(w) \/ WakeSpuriously(w) \/ Crash(w)
      PROVE  RunsOnce'
  BY <1>8, KeepOnce DEF Exit, Decide, Block, WakeSpuriously, Crash, poolVars
<1>9. CASE UNCHANGED vars
  BY <1>9, KeepOnce DEF vars
<1> QED
  BY <1>1, <1>2, <1>3, <1>4, <1>5, <1>6, <1>7, <1>8, <1>9
  DEF Next, MainStep, WorkerStep, Finish, Throw, Ended

LEMMA NextInv == Inv /\ [Next]_vars => Inv'
<1> SUFFICES ASSUME Inv, [Next]_vars PROVE Inv'
  OBVIOUS
<1>1. TypeOK'
  <2>1. CASE UNCHANGED vars
    BY <2>1 DEF Inv, TypeOK, vars
  <2> QED BY <2>1, MainTypes, WorkerTypes DEF Inv, Next, Ended
<1> QED BY <1>1, HoldingKept, LeavingKept, ConnectionsKept, RunsOnceKept DEF Inv

LEMMA InvAlways == Spec => []Inv
  BY InitInv, NextInv, PTL DEF Spec

(* The type invariant of the pool and the loop, for every set of workers,  *)
(* requests and sockets.                                                   *)
THEOREM WorkersTypes == Spec => []TypeOK
<1>1. Inv => TypeOK
  BY DEF Inv
<1> QED BY <1>1, InvAlways, PTL

(* No task is lost, handed to two workers or run twice, whatever the       *)
(* interleaving of submits, workers, exceptions and the shutdown.          *)
THEOREM WorkersRunOnce == Spec => []RunsOnce
<1>1. Inv => RunsOnce
  BY DEF Inv
<1> QED BY <1>1, InvAlways, PTL

(* The destructor of the pool returns only when all that was submitted has *)
(* run: every worker has left, and left an empty queue behind.             *)
THEOREM WorkersDrain == Spec => []Drained
<1>1. Inv => Drained
  <2> SUFFICES ASSUME Inv, main = "done", NEW t \in asked PROVE ran[t] = 1
    BY DEF Drained
  <2>1. \A w \in Workers : at[w] = "gone" /\ tasks = <<>> /\ doing[w] = None
    BY DEF Inv, Leaving, Holding
  <2>2. t \in Tasks /\ tasks = <<>>
    BY <2>1, ThreadPoolAssumption DEF Inv, TypeOK
  <2>3. ~Queued(t) /\ ~InHands(t)
    BY <2>1, <2>2, NoneIsNoTask DEF Queued, InHands
  <2> QED BY <2>2, <2>3 DEF Inv, RunsOnce
<1> QED BY <1>1, InvAlways, PTL

-----------------------------------------------------------------------------
(* No lost wakeup *)

(* A worker that goes to sleep holds the mutex since it saw the queue      *)
(* empty, so nothing was pushed meanwhile.                                 *)
Balance ==
  /\ SleepersNotNeeded
  /\ \A w \in Workers : at[w] = "drowsy" => tasks = <<>>

LEMMA AwakeFinite ==
  IsFiniteSet(Awake) /\ Cardinality(Awake) \in Nat
  BY ThreadPoolAssumption, FS_Subset, FS_CardinalityType, Awake \subseteq Workers DEF Awake

(* One more worker awake.                                                  *)
LEMMA OneMoreAwake ==
  ASSUME TypeOK, NEW w \in Workers, at[w] # "awake", at' = [at EXCEPT ![w] = "awake"]
  PROVE  Cardinality(Awake') = Cardinality(Awake) + 1
<1>1. Awake' = Awake \cup {w} /\ w \notin Awake
  BY DEF Awake, TypeOK
<1> QED BY <1>1, AwakeFinite, FS_AddElement

(* submit(): the task is paid for by the notification that follows.        *)
LEMMA SubmitBalance ==
  ASSUME TypeOK, Balance, NEW t \in Tasks, Submit(t), main = "loop"
  PROVE  Balance'
<1>1. tasks \in Seq(Tasks) /\ tasks' = Append(tasks, t) /\ at' = at /\ main' = "notifying"
  BY DEF Submit, TypeOK
<1>2. Len(tasks) \in Nat /\ Len(tasks') = Len(tasks) + 1
  BY <1>1
<1>3. Awake' = Awake /\ Asleep' = Asleep
  BY <1>1 DEF Awake, Asleep
<1>4. \A w \in Workers : at'[w] # "drowsy"
  BY <1>1 DEF Submit, MutexFree
<1> QED BY <1>1, <1>2, <1>3, <1>4, AwakeFinite DEF Balance, SleepersNotNeeded

(* A step that leaves the queue and the workers, outside of a submit.      *)
LEMMA BalanceUntouched ==
  ASSUME Balance, UNCHANGED <<tasks, at>>, main' = "notifying" <=> main = "notifying"
  PROVE  Balance'
  BY DEF Balance, SleepersNotNeeded, Awake, Asleep

LEMMA BalanceKept ==
  ASSUME Inv, Balance, [Next]_vars
  PROVE  Balance'
<1> USE DEF Inv
<1>0. tasks \in Seq(Tasks) /\ Len(tasks) \in Nat /\ at \in [Workers -> WorkerPhases]
  BY DEF TypeOK
<1>1. ASSUME NEW t \in HttpTasks, Request(t) PROVE Balance'
  BY <1>1, SubmitBalance, HttpIsTask DEF Request, Idle
<1>2. ASSUME NEW s \in Sockets, CloseSocket(s) PROVE Balance'
  BY <1>2, SubmitBalance, SocketTask DEF CloseSocket
<1>3. CASE RunAnswer
  <2> DEFINE t == Head(deferred)[2]
  <2>1. CASE UNCHANGED <<poolVars, main, open, asked, ran>>
    BY <2>1, BalanceUntouched DEF poolVars
  <2>2. CASE t[1] = "upgrade" /\ t \in inFlight /\ Submit(<<"online", t[2]>>)
    <3>1. t[2] \in Sockets
      BY <2>2, UpgradeSocket DEF TypeOK
    <3>2. <<"online", t[2]>> \in Tasks /\ main = "loop"
      BY <1>3, <3>1, SocketTask DEF RunAnswer, Idle
    <3> HIDE DEF t
    <3> QED BY <2>2, <3>2, SubmitBalance
  <2> QED BY <1>3, <2>1, <2>2 DEF RunAnswer
<1>4. CASE NotifyOne
  <2>1. CASE Asleep = {} /\ UNCHANGED at
    BY <1>4, <2>1 DEF NotifyOne, Balance, SleepersNotNeeded, Asleep
  <2>2. ASSUME NEW w \in Asleep, at' = [at EXCEPT ![w] = "awake"] PROVE Balance'
    <3>1. Cardinality(Awake') = Cardinality(Awake) + 1
      BY <2>2, OneMoreAwake DEF Asleep
    <3>2. tasks' = tasks /\ main = "notifying" /\ main' = "loop"
      BY <1>4 DEF NotifyOne
    <3>3. Asleep # {} /\ \A v \in Workers : at'[v] = "drowsy" => at[v] = "drowsy"
      BY <1>0, <2>2 DEF Asleep
    <3> QED BY <1>0, <3>1, <3>2, <3>3, AwakeFinite DEF Balance, SleepersNotNeeded
  <2> QED BY <1>4, <2>1, <2>2 DEF NotifyOne
<1>5. ASSUME NEW t \in HttpTasks, Abort(t) PROVE Balance'
  BY <1>5, BalanceUntouched DEF Abort, poolVars
<1>6. CASE Signal \/ RunShutdown \/ Return \/ StoreStopped \/ Join
  BY <1>6, BalanceUntouched
  DEF Signal, RunShutdown, Return, StoreStopped, Join, Idle, poolVars
<1>7. CASE NotifyAll
  BY <1>0, <1>7 DEF NotifyAll, Balance, SleepersNotNeeded, Asleep
<1>8. ASSUME NEW w \in Workers, Take(w) PROVE Balance'
  <2>1. Awake' = Awake \ {w} /\ w \in Awake
    BY <1>0, <1>8 DEF Take, Awake
  <2>2. Cardinality(Awake') = Cardinality(Awake) - 1
    BY <2>1, AwakeFinite, FS_RemoveElement
  <2>3. Len(tasks') = Len(tasks) - 1 /\ main' = main
    BY <1>0, <1>8 DEF Take, loopVars
  <2>4. Asleep' = Asleep /\ \A v \in Workers : at'[v] # "drowsy"
    BY <1>0, <1>8 DEF Take, Asleep, MutexFree
  <2> QED BY <1>0, <2>2, <2>3, <2>4, AwakeFinite DEF Balance, SleepersNotNeeded
<1>9. ASSUME NEW w \in Workers, Exit(w) \/ Decide(w) \/ Block(w) PROVE Balance'
  <2>1. tasks = <<>> /\ tasks' = <<>>
    BY <1>9 DEF Exit, Decide, Block, Balance
  <2>2. IsFiniteSet(Awake') /\ Cardinality(Awake') \in Nat
    BY ThreadPoolAssumption, FS_Subset, FS_CardinalityType, Awake' \subseteq Workers DEF Awake
  <2> QED BY <2>1, <2>2 DEF Balance, SleepersNotNeeded
<1>10. ASSUME NEW w \in Workers, WakeSpuriously(w) \/ TaskEnds(w) PROVE Balance'
  <2>1. Cardinality(Awake') = Cardinality(Awake) + 1
    BY <1>10, OneMoreAwake DEF WakeSpuriously, TaskEnds
  <2>2. tasks' = tasks /\ main' = main
    BY <1>10 DEF WakeSpuriously, TaskEnds, loopVars
  <2>3. Asleep' \subseteq Asleep /\ \A v \in Workers : at'[v] = "drowsy" => at[v] = "drowsy"
    BY <1>0, <1>10 DEF WakeSpuriously, TaskEnds, Asleep
  <2> QED BY <1>0, <2>1, <2>2, <2>3, AwakeFinite DEF Balance, SleepersNotNeeded
<1>11. ASSUME NEW w \in Workers, Crash(w) PROVE Balance'
  BY <1>11, BalanceUntouched DEF Crash, HandlersAlive, poolVars
<1>12. CASE UNCHANGED vars
  BY <1>12, BalanceUntouched DEF vars
<1> QED
  BY <1>1, <1>2, <1>3, <1>4, <1>5, <1>6, <1>7, <1>8, <1>9, <1>10, <1>11, <1>12
  DEF Next, MainStep, WorkerStep, Finish, Throw, Ended

(* However many workers sleep, those awake are enough for the queue.       *)
THEOREM WorkersNoLostWakeup == Spec => []SleepersNotNeeded
<1>1. Init => Balance
  BY DEF Init, Balance, SleepersNotNeeded, Asleep
<1>2. Inv /\ Balance /\ [Next]_vars => Balance'
  BY BalanceKept
<1>3. Balance => SleepersNotNeeded
  BY DEF Balance
<1> QED BY <1>1, <1>2, <1>3, InvAlways, PTL DEF Spec
=============================================================================
