------------------------------ MODULE ThreadPool ------------------------------
(***************************************************************************)
(* The pool of worker threads that every handler submits its database work *)
(* to (backend/src/db/db_thread_pool.cpp), from the first request to the   *)
(* orderly shutdown of an instance (backend/src/main.cpp): the loop thread *)
(* submits tasks, runs the closures the tasks defer, and after a signal    *)
(* closes the sockets, leaves run(), destroys the handlers of run_server   *)
(* and then the pool.                                                      *)
(*                                                                         *)
(* A task is a request, the check of a WebSocket upgrade, or what the open *)
(* and close handlers of a socket submit.  What a task does to the data is *)
(* the business of the other modules; here it runs, or throws.             *)
(***************************************************************************)
EXTENDS Integers, Sequences, FiniteSets

CONSTANTS
  Workers,     \* the threads of the pool
  Requests,    \* the HTTP requests that may arrive
  Sockets      \* the WebSocket connections that may be made, one per user

ASSUME ThreadPoolAssumption ==
  /\ IsFiniteSet(Workers)
  /\ Workers # {}

HttpTasks == ({"request"} \X Requests) \cup ({"upgrade"} \X Sockets)
SocketTasks == {"online", "offline"} \X Sockets
Tasks == HttpTasks \cup SocketTasks

Answer == "answer"
Shutdown == <<"shutdown">>
Closures == ({Answer} \X HttpTasks) \cup {Shutdown}

(***************************************************************************)
(* A worker is about to lock the mutex and evaluate the predicate of its   *)
(* wait ("awake"), has found it false and still holds the mutex            *)
(* ("drowsy"), is blocked on cv_ ("asleep"), runs a task ("running") or    *)
(* has returned ("gone").                                                  *)
(*                                                                         *)
(* The main thread is in the event loop ("loop"), there between the push   *)
(* and the notification of a submit ("notifying"), or past run(): about to *)
(* destroy the pool ("stopping"), between stopped_ and notify_all          *)
(* ("waking"), joining the workers ("joining"), at the end of main()       *)
(* ("done").  "crashed" is an outcome of the use of a destroyed handler.   *)
(***************************************************************************)
WorkerPhases == {"awake", "drowsy", "asleep", "running", "gone"}
MainPhases == {"loop", "notifying", "stopping", "waking", "joining", "done", "crashed"}

VARIABLES
  tasks,       \* tasks_: the queue
  at,          \* where each worker is
  doing,       \* the task a worker has moved out of the queue
  stopped,     \* stopped_
  main,        \* where the main thread is
  toClose,     \* what is left to close of the sockets close_all() has listed
  listening,   \* global_listen_socket is open
  open,        \* the open WebSockets
  inFlight,    \* the HTTP tasks whose client still waits for the answer
  deferred,    \* the closures deferred to the loop
  asked,       \* history: the tasks that have been submitted
  ran          \* history: how often each task has run

poolVars == <<tasks, at, doing, stopped>>
loopVars == <<main, toClose, listening, open, inFlight, deferred>>
vars == <<tasks, at, doing, stopped, main, toClose, listening, open, inFlight,
          deferred, asked, ran>>

None == <<"none">>

Init ==
  /\ tasks = <<>>
  /\ at = [w \in Workers |-> "awake"]
  /\ doing = [w \in Workers |-> None]
  /\ stopped = FALSE
  /\ main = "loop"
  /\ toClose = {}
  /\ listening = TRUE
  /\ open = {}
  /\ inFlight = {}
  /\ deferred = <<>>
  /\ asked = {}
  /\ ran = [t \in Tasks |-> 0]

\* The mutex outlives a step only in the hands of a worker whose predicate
\* was false.
MutexFree == \A w \in Workers : at[w] # "drowsy"

\* The locals of run_server exist.
HandlersAlive == main \in {"loop", "notifying"}

\* The loop is between two callbacks.
Idle == main = "loop" /\ toClose = {}

Asleep == {w \in Workers : at[w] = "asleep"}
Awake == {w \in Workers : at[w] = "awake"}

-----------------------------------------------------------------------------
(* submit(): push under the mutex, then notify one worker *)

Submit(t) ==
  /\ MutexFree
  /\ tasks' = Append(tasks, t)
  /\ asked' = asked \cup {t}
  /\ main' = "notifying"
  /\ UNCHANGED <<at, doing, stopped, ran>>

\* A bug: nobody is notified.
NotifyNobody ==
  /\ main = "notifying"
  /\ main' = "loop"
  /\ UNCHANGED <<poolVars, toClose, listening, open, inFlight, deferred, asked, ran>>

NotifyOne ==
  /\ main = "notifying"
  /\ main' = "loop"
  /\ \/ Asleep = {} /\ UNCHANGED at
     \/ \E w \in Asleep : at' = [at EXCEPT ![w] = "awake"]
  /\ UNCHANGED <<tasks, doing, stopped, toClose, listening, open, inFlight, deferred, asked, ran>>

-----------------------------------------------------------------------------
(* The loop thread *)

\* A request or an upgrade arrives, after the signal over a connection that
\* was kept alive.
Request(t) ==
  /\ Idle
  /\ t \in HttpTasks \ asked
  /\ inFlight' = inFlight \cup {t}
  /\ Submit(t)
  /\ UNCHANGED <<toClose, listening, open, deferred>>

\* onAborted: the client has gone.
Abort(t) ==
  /\ Idle
  /\ t \in inFlight
  /\ inFlight' = inFlight \ {t}
  /\ UNCHANGED <<poolVars, main, toClose, listening, open, deferred, asked, ran>>

\* A bug: close_all() forgets to step to the next socket.
CloseSocketAgain(s) ==
  /\ main = "loop"
  /\ s \in IF toClose = {} THEN open ELSE toClose
  /\ open' = open \ {s}
  /\ Submit(<<"offline", s>>)
  /\ UNCHANGED <<toClose, listening, inFlight, deferred>>

\* The close handler, after the client has closed its socket or, one by one,
\* for the sockets that close_all() has listed.
CloseSocket(s) ==
  /\ main = "loop"
  /\ s \in IF toClose = {} THEN open ELSE toClose
  /\ open' = open \ {s}
  /\ toClose' = toClose \ {s}
  /\ Submit(<<"offline", s>>)
  /\ UNCHANGED <<listening, inFlight, deferred>>

\* The handler of SIGTERM and SIGINT defers the shutdown; the second signal
\* before the closure has run adds nothing.
Signal ==
  /\ HandlersAlive
  /\ \A i \in DOMAIN deferred : deferred[i] # Shutdown
  /\ deferred' = Append(deferred, Shutdown)
  /\ UNCHANGED <<poolVars, main, toClose, listening, open, inFlight, asked, ran>>

\* close_all() lists the sockets that are open now.
RunShutdown ==
  /\ Idle
  /\ deferred # <<>>
  /\ Head(deferred) = Shutdown
  /\ deferred' = Tail(deferred)
  /\ listening' = FALSE
  /\ toClose' = open
  /\ UNCHANGED <<poolVars, main, open, inFlight, asked, ran>>

\* The closure that answers: the aborted request, the response, the upgrade.
RunAnswer ==
  /\ Idle
  /\ deferred # <<>>
  /\ Head(deferred) # Shutdown
  /\ deferred' = Tail(deferred)
  /\ LET t == Head(deferred)[2] IN
       /\ inFlight' = inFlight \ {t}
       /\ \/ UNCHANGED <<poolVars, main, open, asked, ran>>
          \/ /\ t[1] = "upgrade"
             /\ t \in inFlight
             /\ open' = open \cup {t[2]}
             /\ Submit(<<"online", t[2]>>)
  /\ UNCHANGED <<toClose, listening>>

\* run() returns when no socket is left to poll; the handlers are destroyed.
Return ==
  /\ Idle
  /\ ~listening
  /\ open = {}
  /\ inFlight = {}
  /\ main' = "stopping"
  /\ UNCHANGED <<poolVars, toClose, listening, open, inFlight, deferred, asked, ran>>

-----------------------------------------------------------------------------
(* ~DbThreadPool(): neither step takes the mutex *)

StoreStopped ==
  /\ main = "stopping"
  /\ stopped' = TRUE
  /\ main' = "waking"
  /\ UNCHANGED <<tasks, at, doing, toClose, listening, open, inFlight, deferred, asked, ran>>

NotifyAll ==
  /\ main = "waking"
  /\ at' = [w \in Workers |-> IF at[w] = "asleep" THEN "awake" ELSE at[w]]
  /\ main' = "joining"
  /\ UNCHANGED <<tasks, doing, stopped, toClose, listening, open, inFlight, deferred, asked, ran>>

Join ==
  /\ main = "joining"
  /\ \A w \in Workers : at[w] = "gone"
  /\ main' = "done"
  /\ UNCHANGED <<poolVars, toClose, listening, open, inFlight, deferred, asked, ran>>

-----------------------------------------------------------------------------
(* A worker *)

\* A bug: the front is moved out and never popped.
TakeNoPop(w) ==
  /\ at[w] = "awake"
  /\ MutexFree
  /\ tasks # <<>>
  /\ doing' = [doing EXCEPT ![w] = Head(tasks)]
  /\ at' = [at EXCEPT ![w] = "running"]
  /\ UNCHANGED <<tasks, stopped, loopVars, asked, ran>>

Take(w) ==
  /\ at[w] = "awake"
  /\ MutexFree
  /\ tasks # <<>>
  /\ doing' = [doing EXCEPT ![w] = Head(tasks)]
  /\ tasks' = Tail(tasks)
  /\ at' = [at EXCEPT ![w] = "running"]
  /\ UNCHANGED <<stopped, loopVars, asked, ran>>

\* A bug: a stopped worker leaves without looking at the queue.
ExitAtOnce(w) ==
  /\ at[w] = "awake"
  /\ MutexFree
  /\ stopped
  /\ at' = [at EXCEPT ![w] = "gone"]
  /\ UNCHANGED <<tasks, doing, stopped, loopVars, asked, ran>>

Exit(w) ==
  /\ at[w] = "awake"
  /\ MutexFree
  /\ stopped
  /\ tasks = <<>>
  /\ at' = [at EXCEPT ![w] = "gone"]
  /\ UNCHANGED <<tasks, doing, stopped, loopVars, asked, ran>>

\* The predicate of the wait is false.
Decide(w) ==
  /\ at[w] = "awake"
  /\ MutexFree
  /\ ~stopped
  /\ tasks = <<>>
  /\ at' = [at EXCEPT ![w] = "drowsy"]
  /\ UNCHANGED <<tasks, doing, stopped, loopVars, asked, ran>>

\* The wait unlocks the mutex and blocks in one step.
Block(w) ==
  /\ at[w] = "drowsy"
  /\ at' = [at EXCEPT ![w] = "asleep"]
  /\ UNCHANGED <<tasks, doing, stopped, loopVars, asked, ran>>

\* A condition variable may wake up without a notification.
WakeSpuriously(w) ==
  /\ at[w] = "asleep"
  /\ at' = [at EXCEPT ![w] = "awake"]
  /\ UNCHANGED <<tasks, doing, stopped, loopVars, asked, ran>>

TaskEnds(w) ==
  /\ at[w] = "running"
  /\ at' = [at EXCEPT ![w] = "awake"]
  /\ doing' = [doing EXCEPT ![w] = None]
  /\ ran' = [ran EXCEPT ![doing[w]] = @ + 1]
  /\ UNCHANGED <<tasks, stopped, main, toClose, listening, open, inFlight, asked>>

\* The task runs to its end; a request or an upgrade defers its answer.  (The
\* closures that only broadcast are left to WsHub.)
Finish(w) ==
  /\ TaskEnds(w)
  /\ deferred' = IF doing[w] \in HttpTasks
                 THEN Append(deferred, <<Answer, doing[w]>>)
                 ELSE deferred

\* A bug: the exception ends the worker.
ThrowUncaught(w) ==
  /\ at[w] = "running"
  /\ at' = [at EXCEPT ![w] = "gone"]
  /\ doing' = [doing EXCEPT ![w] = None]
  /\ ran' = [ran EXCEPT ![doing[w]] = @ + 1]
  /\ UNCHANGED <<tasks, stopped, loopVars, asked>>

\* An exception escapes from the task before anything is deferred, and the
\* catch blocks of the worker log it.
Throw(w) ==
  /\ TaskEnds(w)
  /\ UNCHANGED deferred

\* A task uses the handler it has captured after its destruction.
Crash(w) ==
  /\ at[w] = "running"
  /\ ~HandlersAlive
  /\ main # "crashed"
  /\ main' = "crashed"
  /\ UNCHANGED <<poolVars, toClose, listening, open, inFlight, deferred, asked, ran>>

-----------------------------------------------------------------------------
MainStep ==
  \/ \E t \in HttpTasks : Request(t) \/ Abort(t)
  \/ \E s \in Sockets : CloseSocket(s)
  \/ NotifyOne \/ Signal \/ RunShutdown \/ RunAnswer
  \/ Return \/ StoreStopped \/ NotifyAll \/ Join

WorkerStep(w) ==
  /\ main # "crashed"
  /\ \/ Take(w) \/ Exit(w) \/ Decide(w) \/ Block(w)
     \/ Finish(w) \/ Throw(w)

\* The end of the process.
Ended == main \in {"done", "crashed"} /\ UNCHANGED vars

Next ==
  \/ MainStep
  \/ \E w \in Workers : WorkerStep(w) \/ (main # "crashed" /\ WakeSpuriously(w)) \/ Crash(w)
  \/ Ended

Spec == Init /\ [][Next]_vars

(***************************************************************************)
(* The operating system schedules the workers, and the loop thread when it *)
(* is between the push and the notification of a submit: nothing is asked  *)
(* of clients, of signals or of spurious wake-ups.                         *)
(***************************************************************************)
FairSpec ==
  /\ Spec
  /\ \A w \in Workers : WF_vars(WorkerStep(w))
  /\ WF_vars(NotifyOne)
  /\ WF_vars(StoreStopped)
  /\ WF_vars(NotifyAll)

-----------------------------------------------------------------------------
TypeOK ==
  /\ tasks \in Seq(Tasks)
  /\ at \in [Workers -> WorkerPhases]
  /\ doing \in [Workers -> Tasks \cup {None}]
  /\ stopped \in BOOLEAN
  /\ main \in MainPhases
  /\ toClose \subseteq open
  /\ listening \in BOOLEAN
  /\ open \subseteq Sockets
  /\ inFlight \subseteq HttpTasks
  /\ deferred \in Seq(Closures)
  /\ asked \subseteq Tasks
  /\ ran \in [Tasks -> Nat]

Queued(t) == \E i \in DOMAIN tasks : tasks[i] = t
InHands(t) == \E w \in Workers : doing[w] = t

\* Every task that was submitted is, once, in the queue, in the hands of a
\* worker or behind it, through the drain of the destructor included: the pop
\* under the mutex hands no task to two workers and drops none.
RunsOnce ==
  /\ \A i, j \in DOMAIN tasks : tasks[i] = tasks[j] => i = j
  /\ \A v, w \in Workers : doing[v] = doing[w] => v = w \/ doing[v] = None
  /\ \A t \in Tasks :
       /\ t \in asked <=> Queued(t) \/ InHands(t) \/ ran[t] = 1
       /\ ran[t] \in {0, 1}
       /\ ran[t] = 1 => ~Queued(t) /\ ~InHands(t)
       /\ ~(Queued(t) /\ InHands(t))

\* A worker sleeps only if those awake, with the one about to be notified,
\* are enough for the queue: no notification is lost between the evaluation
\* of the predicate and the wait, whatever the order of submits and wake-ups.
SleepersNotNeeded ==
  Asleep # {} =>
    Len(tasks) <= Cardinality(Awake) + (IF main = "notifying" THEN 1 ELSE 0)

\* ~DbThreadPool() returns only when everything submitted has run: the
\* workers drain the queue before they leave.
Drained == main = "done" => \A t \in asked : ran[t] = 1

\* A task submitted runs, even if the instance is being shut down meanwhile
\* (unless a use of a destroyed handler ends the process).
EveryTaskRuns ==
  \A t \in Tasks : t \in asked ~> (ran[t] > 0 \/ main = "crashed")

\* The worker threads have nothing to do, nor has the loop.
Quiet ==
  /\ Idle
  /\ deferred = <<>>
  /\ tasks = <<>>
  /\ \A w \in Workers : at[w] = "asleep"

\* "a stalled/exhausted pool surfaces as a typed error mapped to 503, rather
\* than hanging the request": no client is left waiting when there is nothing
\* left to do.
NoRequestHangs == Quiet => inFlight = {}

\* "Shut down cleanly.": no task is left to run with a handler that
\* run_server has destroyed on its return.
HandlersOutliveTasks ==
  ~HandlersAlive => tasks = <<>> /\ \A w \in Workers : at[w] # "running"
=============================================================================
