---------------------------- MODULE MessagesProofs ----------------------------
(***************************************************************************)
(* Proofs about Messages: its types, that it implements MessageFeed, and   *)
(* that what the database keeps of a message and what the tabs are sent of *)
(* it agree, for any number of instances, workers, users and tabs.         *)
(***************************************************************************)
EXTENDS Messages, FiniteSetTheorems, SequenceTheorems, TLAPS

(* A send that has inserted its row, and a deletion that has marked its.   *)
Posted(task) == task.op = "send" /\ task.at \in {"mentions", "notify"}
Cleaning(task) == task.op = "delete" /\ task.at = "blob"

\* What a task remembers is stored.
Refers(task) ==
  /\ task.op = "send" =>
       task.reply \in 0 .. Len(rows) /\ (~Posted(task) => task.frames = <<>>)
  /\ task.op \in {"edit", "delete", "react", "unreact", "read"} => task.message \in DOMAIN rows
  /\ Posted(task) =>
       /\ task.message \in DOMAIN rows /\ task.change \in DOMAIN log
       /\ LET row == rows[task.message] IN
            /\ row.author = task.user /\ row.tokens = task.tokens
            /\ row.reply = task.reply /\ row.file = NoFile
       /\ task.at = "notify" => \A p \in task.pending : p.to # task.user
  /\ Cleaning(task) => task.change \in DOMAIN log /\ rows[task.message].deleted

\* A task in a queue has not begun.
Begins(task) ==
  /\ task.op \in Posting => task.at = "server"
  /\ task.op = "delete" => task.at = "owner"

Stored ==
  /\ \A i \in Instances : \A k \in DOMAIN tasks[i] : Begins(tasks[i][k]) /\ Refers(tasks[i][k])
  /\ \A i \in Instances, w \in Workers : Refers(running[i][w])
  /\ Len(log) <= MaxChanges /\ Len(notes) <= MaxNotes

\* The log tells who has sent and deleted what.
Told ==
  /\ \A m \in DOMAIN rows :
       /\ rows[m].reply < m
       /\ \E n \in DOMAIN log :
            log[n].kind = "new" /\ log[n].message = m /\ log[n].by = rows[m].author
  /\ \A n \in DOMAIN log :
       /\ log[n].message \in DOMAIN rows
       /\ log[n].kind = "new" => log[n].by = rows[log[n].message].author
       /\ log[n].kind = "deleted" => rows[log[n].message].deleted
  /\ \A k \in DOMAIN notes : notes[k].message \in DOMAIN rows

-----------------------------------------------------------------------------
(* A file has one request that makes it, and then one message *)

Uploading(task, f) == task.op = "upload" /\ task.file = f

AttachedTo(f) ==
  /\ uploads[f] = "ready" =>
       /\ \A m \in DOMAIN rows : rows[m].file # f
       /\ \A i \in Instances : \A k \in DOMAIN tasks[i] : ~Uploading(tasks[i][k], f)
       /\ \A i \in Instances, w \in Workers : ~Uploading(running[i][w], f)
  /\ \A m, n \in DOMAIN rows : rows[m].file = f /\ rows[n].file = f => m = n
  /\ \A i \in Instances : \A k \in DOMAIN tasks[i] : Uploading(tasks[i][k], f) =>
       /\ \A m \in DOMAIN rows : rows[m].file # f
       /\ \A j \in Instances, w \in Workers : ~Uploading(running[j][w], f)
       /\ \A j \in Instances : \A l \in DOMAIN tasks[j] :
            Uploading(tasks[j][l], f) => i = j /\ k = l
  /\ \A i \in Instances, w \in Workers : Uploading(running[i][w], f) =>
       /\ \A m \in DOMAIN rows : rows[m].file # f
       /\ \A j \in Instances, v \in Workers :
            Uploading(running[j][v], f) => i = j /\ w = v
       /\ running[i][w].at = "insert" => f \in blobs
  /\ \A m \in DOMAIN rows : rows[m].file = f /\ ~rows[m].deleted => f \in blobs
  /\ f \in blobs =>
       \/ \E m \in DOMAIN rows : rows[m].file = f /\ ~rows[m].deleted
       \/ \E i \in Instances, w \in Workers :
            Uploading(running[i][w], f) /\ running[i][w].at = "insert"
       \/ \E i \in Instances, w \in Workers :
            Cleaning(running[i][w]) /\ rows[running[i][w].message].file = f

Attached == \A f \in Uploads : AttachedTo(f)

-----------------------------------------------------------------------------
(* A frame is in one place until it is fanned out, and then once on each   *)
(* wire.                                                                   *)

\* The frames that a task will hand to the loop.
Parcel(task) ==
  IF Posted(task) THEN Append(task.frames, Change(task.change))
  ELSE IF Cleaning(task) THEN <<Change(task.change)>> ELSE <<>>
Carried(i, w) == ToSet(Parcel(running[i][w]))
Deferred(i, k) == ToSet(loop[i][k].frames)

Committed(f) == f \in Frames /\ f[2] \in IF f[1] = "change" THEN DOMAIN log ELSE DOMAIN notes

Unsent(f) ==
  /\ \A j \in Instances : \A l \in DOMAIN wire[j] : wire[j][l].frame # f
  /\ \A t \in Tabs : got[t][f] = 0

Distinct(frames) == \A k, l \in DOMAIN frames : frames[k] = frames[l] => k = l

OnceCarried ==
  \A i \in Instances, w \in Workers :
    /\ Distinct(Parcel(running[i][w]))
    /\ \A f \in Carried(i, w) :
         /\ Committed(f) /\ Unsent(f)
         /\ \A j \in Instances : \A l \in DOMAIN loop[j] : f \notin Deferred(j, l)
         /\ \A j \in Instances, v \in Workers : f \in Carried(j, v) => i = j /\ w = v

OnceDeferred ==
  \A i \in Instances : \A k \in DOMAIN loop[i] :
    /\ Distinct(loop[i][k].frames)
    /\ \A f \in Deferred(i, k) :
         /\ Committed(f) /\ Unsent(f)
         /\ \A j \in Instances : \A l \in DOMAIN loop[j] :
              f \in Deferred(j, l) => i = j /\ k = l

OnceWired ==
  \A i \in Instances : \A k \in DOMAIN wire[i] :
    /\ Committed(wire[i][k].frame)
    /\ \A l \in DOMAIN wire[i] : wire[i][k].frame = wire[i][l].frame => k = l
    /\ wire[i][k].from # i =>
         \A t \in Tabs : HomeOf[t] = i => got[t][wire[i][k].frame] = 0

OnceGot ==
  \A t \in Tabs, f \in Frames : got[t][f] \in {0, 1} /\ (got[t][f] = 1 => Committed(f))

Once == OnceCarried /\ OnceDeferred /\ OnceWired /\ OnceGot

-----------------------------------------------------------------------------
(* Nothing is lost before it is fanned out *)

Owed(n, t) ==
  /\ UserOf[t] \in Subscribed
  /\ ~(log[n].kind = "new" /\ rows[log[n].message].file # NoFile)
  /\ ~(log[n].kind = "read" /\ log[n].by = UserOf[t])

UnderWay(f, t) ==
  \/ \E i \in Instances, w \in Workers : f \in Carried(i, w)
  \/ \E i \in Instances : \E k \in DOMAIN loop[i] : f \in Deferred(i, k)
  \/ \E k \in DOMAIN wire[HomeOf[t]] :
       wire[HomeOf[t]][k].frame = f /\ wire[HomeOf[t]][k].from # HomeOf[t]

\* A closure passes over the author of a receipt, or who sees no message of
\* an upload that was aborted.
Spares(closure, n) ==
  /\ closure.do = "announce" =>
       \A u \in closure.except : log[n].kind = "read" /\ log[n].by = u
  /\ closure.do = "uploaded" => log[n].kind = "new" /\ rows[log[n].message].file # NoFile

Reaches(f, t) == got[t][f] = 1 \/ UnderWay(f, t)

Spared ==
  \A i \in Instances : \A k \in DOMAIN loop[i] : \A n \in DOMAIN log :
    Change(n) \in Deferred(i, k) => Spares(loop[i][k], n)

Delivered ==
  ~dropped => \A n \in DOMAIN log, t \in Tabs : Owed(n, t) => Reaches(Change(n), t)

-----------------------------------------------------------------------------
(* Whom a message concerns *)

Notified(m) == {notes[k].to : k \in {k \in DOMAIN notes : notes[k].message = m}}
Others(m) == Users \ {rows[m].author}
Mentions(m) == Mentioned(rows[m].tokens) \cap Others(m)
Replied(m) == IF rows[m].reply = 0 THEN {} ELSE {rows[rows[m].reply].author} \cap Others(m)
Concerned(m) ==
  Mentions(m) \cup Replied(m) \cup IF channel.direct THEN Members \cap Others(m) ELSE {}


\* A worker that has inserted a message and has not announced it.
Writes(i, w, m) == Posted(running[i][w]) /\ running[i][w].message = m

Apart(m) ==
  \A i, j \in Instances, w, v \in Workers :
    Writes(i, w, m) /\ Writes(j, v, m) => i = j /\ w = v

\* What the worker has yet to write.
Pends(m) ==
  \A i \in Instances, w \in Workers : Writes(i, w, m) =>
    /\ running[i][w].at = "mentions" => Notified(m) = {}
    /\ running[i][w].at = "notify" =>
         Notified(m) \cup {p.to : p \in running[i][w].pending} = Concerned(m)

Settled(m) ==
  /\ Notified(m) = Concerned(m) \/ \E i \in Instances, w \in Workers : Writes(i, w, m)
  /\ \A u \in Mentions(m) :
       \/ <<m, u>> \in mentions
       \/ m <= readState[u].at
       \/ \E i \in Instances, w \in Workers : Writes(i, w, m) /\ running[i][w].at = "mentions"

NoticedAt(m) == Apart(m) /\ Pends(m) /\ (rows[m].file = NoFile => Settled(m))
Noticed == \A m \in DOMAIN rows : NoticedAt(m)

-----------------------------------------------------------------------------
(* Sequences *)

LEMMA Elements ==
  ASSUME NEW S, NEW s \in Seq(S)
  PROVE  /\ DOMAIN s = 1 .. Len(s) /\ Len(s) \in Nat
         /\ \A k \in DOMAIN s : s[k] \in S
  OBVIOUS

\* A reading point moves for one user, and only forward.
LEMMA Forward ==
  ASSUME NEW S, NEW u \in S, NEW m \in Nat,
         NEW before \in [S -> [at : Nat, message : Nat]], NEW after,
         after = [before EXCEPT ![u] = IF m > @.at THEN [at |-> m, message |-> m] ELSE @]
  PROVE  /\ after \in [S -> [at : Nat, message : Nat]]
         /\ after[u].at >= m
         /\ \A v \in S : after[v] # before[v] =>
              after[v].at > before[v].at /\ after[v].message = after[v].at
<1>1. PICK point : point = before[u]
  OBVIOUS
<1>2. point \in [at : Nat, message : Nat] /\ point.at \in Nat
  BY <1>1
<1>3. PICK moved : moved = IF m > point.at THEN [at |-> m, message |-> m] ELSE point
  OBVIOUS
<1>4. after = [before EXCEPT ![u] = moved]
  BY <1>1, <1>3
<1>5. /\ moved \in [at : Nat, message : Nat] /\ moved.at >= m
      /\ moved # point => moved.at > point.at /\ moved.message = moved.at
  <2>1. CASE m > point.at
    BY <1>2, <1>3, <2>1
  <2>2. CASE ~(m > point.at)
    BY <1>2, <1>3, <2>2
  <2> QED BY <2>1, <2>2
<1>6. after \in [S -> [at : Nat, message : Nat]]
  BY <1>4, <1>5
<1>7. after[u] = moved
  BY <1>4
<1>8. \A v \in S \ {u} : after[v] = before[v]
  BY <1>4
<1> QED BY <1>1, <1>5, <1>6, <1>7, <1>8

\* A send that goes on after its row is inserted refers to what it did.
LEMMA GoesOn ==
  ASSUME NEW task \in Sends, NEW next \in Sends, Refers(task), Posted(task), Posted(next),
         next.message = task.message, next.change = task.change, next.user = task.user,
         next.tokens = task.tokens, next.reply = task.reply,
         next.at = "notify" => \A p \in next.pending : p.to # next.user
  PROVE  Refers(next)
<1>1. next.op = "send"
  BY DEF Sends
<1>2. next.reply \in 0 .. Len(rows)
  BY DEF Refers, Posted
<1>3. /\ next.message \in DOMAIN rows /\ next.change \in DOMAIN log
      /\ LET row == rows[next.message] IN
           /\ row.author = next.user /\ row.tokens = next.tokens
           /\ row.reply = next.reply /\ row.file = NoFile
  BY DEF Refers
<1> QED BY <1>1, <1>2, <1>3 DEF Refers, Cleaning

LEMMA Longer ==
  ASSUME NEW S, NEW s \in Seq(S), NEW e \in S
  PROVE  LET longer == Append(s, e) IN
         /\ longer \in Seq(S) /\ Len(longer) = Len(s) + 1
         /\ DOMAIN longer = DOMAIN s \cup {Len(s) + 1} /\ Len(s) + 1 \notin DOMAIN s
         /\ \A k \in DOMAIN s : longer[k] = s[k]
         /\ longer[Len(s) + 1] = e
  OBVIOUS

LEMMA Rest ==
  ASSUME NEW S, NEW s \in Seq(S), s # <<>>
  PROVE  /\ Tail(s) \in Seq(S) /\ Head(s) \in S /\ 1 \in DOMAIN s /\ Head(s) = s[1]
         /\ \A k \in DOMAIN Tail(s) : k + 1 \in DOMAIN s /\ Tail(s)[k] = s[k + 1] /\ k + 1 # 1
         /\ \A k \in DOMAIN s : k = 1 \/ (k - 1 \in DOMAIN Tail(s) /\ Tail(s)[k - 1] = s[k])
  OBVIOUS

LEMMA Replaced ==
  ASSUME NEW S, NEW s \in Seq(S), NEW m \in DOMAIN s, NEW e \in S
  PROVE  LET after == [s EXCEPT ![m] = e] IN
         /\ after \in Seq(S) /\ Len(after) = Len(s) /\ DOMAIN after = DOMAIN s
         /\ after[m] = e
         /\ \A k \in DOMAIN s : k # m => after[k] = s[k]
  OBVIOUS

LEMMA Joined ==
  ASSUME NEW S, NEW s \in Seq(S), NEW t \in Seq(S)
  PROVE  /\ s \o t \in Seq(S) /\ DOMAIN (s \o t) = 1 .. Len(s) + Len(t)
         /\ \A k \in DOMAIN s : (s \o t)[k] = s[k]
         /\ \A k \in DOMAIN (s \o t) \ DOMAIN s :
              k - Len(s) \in DOMAIN t /\ (s \o t)[k] = t[k - Len(s)]
         /\ \A k \in DOMAIN t : k + Len(s) \in DOMAIN (s \o t) \ DOMAIN s
                                  /\ (s \o t)[k + Len(s)] = t[k]
  OBVIOUS

-----------------------------------------------------------------------------
(* Types *)

\* Which record a task is, by what it does.
LEMMA TaskForms ==
  ASSUME NEW task \in Tasks \cup {Idle}
  PROVE  /\ task.op = "send" => task \in Sends
         /\ task.op = "upload" => task \in Completions
         /\ task.op = "delete" => task \in Deletions
         /\ task.op \in {"edit", "react", "unreact", "read"} =>
              task \in [op : {"edit", "react", "unreact", "read"}, user : Users, message : Nat]
         /\ task.op = "none" => task = Idle
         /\ task # Idle => task.op # "none"
  BY DEF Tasks, Idle, Sends, Completions, Deletions

\* A worker goes on with another task, or with none.
LEMMA Worked ==
  ASSUME TypeOK, NEW i \in Instances, NEW w \in Workers, NEW task \in Tasks \cup {Idle},
         running' = [running EXCEPT ![i][w] = task]
  PROVE  /\ running' \in [Instances -> [Workers -> Tasks \cup {Idle}]]
         /\ running'[i][w] = task
         /\ \A j \in Instances, v \in Workers :
              ~(j = i /\ v = w) => running'[j][v] = running[j][v]
  BY DEF TypeOK

\* A task, a closure or a frame joins a queue or leaves it.
LEMMA Joins ==
  ASSUME NEW S, NEW queues \in [Instances -> Seq(S)], NEW i \in Instances, NEW e \in S,
         NEW after, after = [queues EXCEPT ![i] = Append(@, e)]
  PROVE  /\ after \in [Instances -> Seq(S)]
         /\ after[i] = Append(queues[i], e)
         /\ \A j \in Instances : j # i => after[j] = queues[j]
  OBVIOUS

LEMMA Leaves ==
  ASSUME NEW S, NEW queues \in [Instances -> Seq(S)], NEW i \in Instances, queues[i] # <<>>,
         NEW after, after = [queues EXCEPT ![i] = Tail(@)]
  PROVE  /\ after \in [Instances -> Seq(S)]
         /\ after[i] = Tail(queues[i])
         /\ \A j \in Instances : j # i => after[j] = queues[j]
<1>1. Tail(queues[i]) \in Seq(S)
  OBVIOUS
<1> QED BY <1>1

\* Init gives every variable a value of its type.
LEMMA TypesStart == Init => TypeOK
<1> SUFFICES ASSUME Init PROVE TypeOK
  OBVIOUS
<1>1. PICK s \in Scenarios :
        /\ channel = [direct |-> s.direct, archived |-> FALSE,
                      tabs |-> s.tabs, contents |-> s.contents]
        /\ budget = s.budget
  BY DEF Init
<1>2. channel \in [direct : BOOLEAN, archived : BOOLEAN, tabs : SUBSET Tabs,
                   contents : SUBSET Contents]
      /\ budget \in [Kinds -> Nat]
  BY <1>1, MessagesAssumption
<1>3. rows \in Seq(Rows) /\ notes \in Seq(Notes) /\ log \in Seq(Changes)
  BY DEF Init
<1>4. /\ tasks \in [Instances -> Seq(Tasks)] /\ loop \in [Instances -> Seq(Closures)]
      /\ wire \in [Instances -> Seq([from : Instances, frame : Frames])]
  BY DEF Init
<1>5. got \in [Tabs -> [Frames -> Nat]]
  BY DEF Init
<1> QED BY <1>2, <1>3, <1>4, <1>5, MessagesAssumption DEF Init, TypeOK

-----------------------------------------------------------------------------
(* What a step leaves of the tables, and the kinds of step *)

\* Nothing that a task remembers is ever taken back.
Grows ==
  /\ \A m \in DOMAIN rows :
       /\ m \in DOMAIN rows'
       /\ rows'[m].author = rows[m].author /\ rows'[m].tokens = rows[m].tokens
       /\ rows'[m].reply = rows[m].reply /\ rows'[m].file = rows[m].file
       /\ rows[m].deleted => rows'[m].deleted
  /\ \A n \in DOMAIN log : n \in DOMAIN log' /\ log'[n] = log[n]
  /\ \A k \in DOMAIN notes : k \in DOMAIN notes' /\ notes'[k] = notes[k]

\* A client has asked for something.
Requested ==
  \E i \in Instances, task \in Tasks :
    /\ Begins(task) /\ Refers(task)
    /\ Submit(i, task)
    /\ IF task.op = "upload"
       THEN uploads[task.file] = "ready" /\ uploads' = [uploads EXCEPT ![task.file] = "asked"]
       ELSE UNCHANGED uploads
    /\ budget' \in [Kinds -> Nat]
    /\ UNCHANGED <<dbVars, running, loop, got, wire, log, dropped>>

\* Something has changed that the tasks look at.
Elsewhere ==
  /\ \A f \in Uploads : uploads[f] = "ready" <=> uploads'[f] = "ready"
  /\ channel'.direct = channel.direct
  /\ UNCHANGED <<rows, reactions, mentions, notes, readState, blobs, threadVars, got,
                 wire, log, dropped>>

\* A worker has checked something, and goes on or refuses.
Checked(i, w) ==
  /\ running[i][w] # Idle /\ ~Posted(running[i][w]) /\ ~Cleaning(running[i][w])
  /\ \E task \in Tasks \cup {Idle} :
       /\ running' = [running EXCEPT ![i][w] = task]
       /\ task # Idle =>
            /\ task = [running[i][w] EXCEPT !.at = task.at]
            /\ ~Posted(task) /\ ~Cleaning(task)
            /\ task.op = "upload" => running[i][w].at # "insert" /\ task.at # "insert"
       /\ task = Idle /\ running[i][w].op = "upload" => running[i][w].at # "insert"
  /\ UNCHANGED <<dbVars, tasks, loop, got, uploads, wire, log, dropped, budget>>

\* The read points only advance, and mentions go only when they are passed.
Reads ==
  /\ readState' \in [Users -> [at : Nat, message : Nat]]
  /\ \A u \in Users : readState'[u] # readState[u] =>
       readState'[u].at > readState[u].at /\ readState'[u].message = readState'[u].at
  /\ \A p \in mentions \ mentions' : p[1] <= readState'[p[2]].at

\* A worker has edited a message, reacted to it or read it.
Touched(i, w) ==
  /\ running[i][w].op \in {"edit", "react", "unreact", "read"}
  /\ LET u == running[i][w].user  m == running[i][w].message  kind == log'[Len(log) + 1].kind IN
       /\ kind \in {"edited", "reacted", "unreacted", "read"}
       /\ kind = "edited" => rows[m].author = u /\ ~rows[m].deleted
       /\ Log(kind, m, u)
       /\ \E except \in SUBSET Users :
            /\ except \subseteq IF kind = "read" THEN {u} ELSE {}
            /\ FinishWith(i, w, Announcing(<<Change(Next1(log))>>, except))
       /\ rows' \in Seq(Rows) /\ DOMAIN rows' = DOMAIN rows
       /\ \A l \in DOMAIN rows : rows'[l] = [rows[l] EXCEPT !.text = rows'[l].text]
       /\ reactions' \subseteq (DOMAIN rows) \X Users
       /\ mentions' \subseteq mentions /\ Reads
  /\ UNCHANGED <<notes, channel, serverArchived, roles, ranks, blobs, got, uploads, wire,
                 dropped, budget>>

WorkerWrites(i, w) ==
  \/ CreateMessage(i, w) \/ StoreMentions(i, w) \/ Notify(i, w) \/ FinishSending(i, w)
  \/ Assemble(i, w) \/ CreateFileMessage(i, w) \/ DeleteRow(i, w) \/ RemoveBlob(i, w)

-----------------------------------------------------------------------------
(* Every step is of one of these kinds *)

\* What a client asks for names a message that is stored.
LEMMA Asking ==
  ASSUME TypeOK, NEW t \in Tabs,
         \/ WriteSocket(t) \/ \E f \in Uploads : CompleteUpload(t, f)
  PROVE  Requested /\ TypeOK'
<1>1. UserOf[t] \in Users /\ HomeOf[t] \in Instances
  BY MessagesAssumption
<1>2. \A task \in Tasks : Submit(HomeOf[t], task) =>
        tasks' \in [Instances -> Seq(Tasks)]
  BY <1>1, Joins DEF TypeOK, Submit
<1>3. \A kind \in Kinds : Spend(kind) => budget' \in [Kinds -> Nat]
  BY DEF TypeOK, Spend
<1>4. ASSUME NEW kind \in Kinds, NEW task \in Tasks, Ask(t, kind, task), Begins(task),
             Refers(task), task.op # "upload", UNCHANGED uploads
      PROVE  Requested /\ TypeOK'
  <2>1. tasks' \in [Instances -> Seq(Tasks)] /\ budget' \in [Kinds -> Nat]
    BY <1>2, <1>3, <1>4 DEF Ask
  <2>2. Requested
    BY <1>1, <1>4, <2>1 DEF Requested, Ask
  <2> QED BY <1>4, <2>1, <2>2 DEF Ask, TypeOK, dbVars
<1>5. ASSUME NEW m \in DOMAIN rows PROVE m \in Nat
  BY Elements DEF TypeOK
<1>6. CASE WriteSocket(t)
  <2>1. CASE Send(t)
    <3>1. PICK tokens \in channel.contents, reply \in {0} \cup DOMAIN rows :
            Ask(t, "send", [op |-> "send", at |-> "server", user |-> UserOf[t],
                    tokens |-> tokens, reply |-> reply, message |-> 0,
                    change |-> 0, pending |-> {}, frames |-> <<>>])
      BY <2>1 DEF Send
    <3> DEFINE task == [op |-> "send", at |-> "server", user |-> UserOf[t],
                    tokens |-> tokens, reply |-> reply, message |-> 0,
                    change |-> 0, pending |-> {}, frames |-> <<>>]
    <3>2. tokens \in Contents /\ reply \in 0 .. Len(rows)
      BY Elements DEF TypeOK
    <3>3. task \in Tasks
      BY <1>1, <3>2 DEF Tasks, Sends
    <3>4. Begins(task) /\ Refers(task) /\ task.op # "upload"
      BY <3>2 DEF Begins, Refers, Posting, Posted, Cleaning
    <3> QED BY <1>4, <1>6, <3>1, <3>3, <3>4 DEF WriteSocket, Kinds
  <2>2. ASSUME NEW m \in DOMAIN rows, Edit(t, m) PROVE Requested /\ TypeOK'
    <3> DEFINE task == [op |-> "edit", user |-> UserOf[t], message |-> m]
    <3>1. task \in Tasks
      BY <1>1, <1>5, <2>2 DEF Tasks
    <3>2. Begins(task) /\ Refers(task) /\ task.op # "upload"
      BY <2>2 DEF Begins, Refers, Posting, Posted, Cleaning
    <3> QED BY <1>4, <1>6, <2>2, <3>1, <3>2 DEF WriteSocket, Edit, Kinds
  <2>3. ASSUME NEW m \in DOMAIN rows, Delete(t, m) PROVE Requested /\ TypeOK'
    <3> DEFINE task == [op |-> "delete", at |-> "owner", user |-> UserOf[t],
                        message |-> m, change |-> 0]
    <3>1. task \in Tasks
      BY <1>1, <1>5, <2>3 DEF Tasks, Deletions
    <3>2. Begins(task) /\ Refers(task) /\ task.op # "upload"
      BY <2>3 DEF Begins, Refers, Posting, Posted, Cleaning
    <3> QED BY <1>4, <1>6, <2>3, <3>1, <3>2 DEF WriteSocket, Delete, Kinds
  <2>4. ASSUME NEW m \in DOMAIN rows, React(t, m) PROVE Requested /\ TypeOK'
    <3>1. PICK op \in {"react", "unreact"} :
            Ask(t, "react", [op |-> op, user |-> UserOf[t], message |-> m])
      BY <2>4 DEF React
    <3> DEFINE task == [op |-> op, user |-> UserOf[t], message |-> m]
    <3>2. task \in Tasks
      BY <1>1, <1>5, <2>4 DEF Tasks
    <3>3. Begins(task) /\ Refers(task) /\ task.op # "upload"
      BY <2>4 DEF Begins, Refers, Posting, Posted, Cleaning
    <3> QED BY <1>4, <1>6, <3>1, <3>2, <3>3 DEF WriteSocket, Kinds
  <2>5. ASSUME NEW m \in DOMAIN rows, MarkRead(t, m) PROVE Requested /\ TypeOK'
    <3> DEFINE task == [op |-> "read", user |-> UserOf[t], message |-> m]
    <3>1. task \in Tasks
      BY <1>1, <1>5, <2>5 DEF Tasks
    <3>2. Begins(task) /\ Refers(task) /\ task.op # "upload"
      BY <2>5 DEF Begins, Refers, Posting, Posted, Cleaning
    <3> QED BY <1>4, <1>6, <2>5, <3>1, <3>2 DEF WriteSocket, MarkRead, Kinds
  <2> QED BY <1>6, <2>1, <2>2, <2>3, <2>4, <2>5 DEF WriteSocket
<1>7. ASSUME NEW f \in Uploads, CompleteUpload(t, f) PROVE Requested /\ TypeOK'
  <2> DEFINE task == [op |-> "upload", at |-> "server", user |-> UserOf[t], file |-> f]
  <2>1. task \in Tasks
    BY <1>1, <1>7 DEF Tasks, Completions
  <2>2. Begins(task) /\ Refers(task) /\ task.op = "upload" /\ task.file = f
    BY DEF Begins, Refers, Posting, Posted, Cleaning
  <2>3. tasks' \in [Instances -> Seq(Tasks)] /\ budget' \in [Kinds -> Nat]
    BY <1>2, <1>3, <1>7, <2>1 DEF CompleteUpload, Ask, Kinds
  <2>4. Ask(t, "upload", task) /\ uploads[f] = "ready"
        /\ uploads' = [uploads EXCEPT ![f] = "asked"]
    BY <1>7 DEF CompleteUpload
  <2>5. Submit(HomeOf[t], task)
        /\ UNCHANGED <<dbVars, running, loop, got, wire, log, dropped>>
    BY <2>4 DEF Ask
  <2>6. uploads' \in [Uploads -> {"ready", "asked", "aborted"}]
    BY <2>4 DEF TypeOK
  <2> HIDE DEF task
  <2>7. Requested
    BY <1>1, <2>1, <2>2, <2>3, <2>4, <2>5 DEF Requested
  <2> QED BY <2>3, <2>5, <2>6, <2>7 DEF TypeOK, dbVars
<1> QED BY <1>6, <1>7

\* Archivals, role changes and aborted uploads.
LEMMA Around ==
  ASSUME TypeOK, OtherRequest \/ \E f \in Uploads : AbortUpload(f)
  PROVE  Elsewhere /\ TypeOK'
<1>1. \A kind \in Kinds : Spend(kind) => budget' \in [Kinds -> Nat]
  BY DEF TypeOK, Spend
<1>2. ASSUME NEW f \in Uploads, AbortUpload(f) PROVE Elsewhere /\ TypeOK'
  <2>1. budget' \in [Kinds -> Nat]
    BY <1>1, <1>2 DEF AbortUpload, Kinds
  <2>2. uploads' \in [Uploads -> {"ready", "asked", "aborted"}]
        /\ \A g \in Uploads : uploads[g] = "ready" <=> uploads'[g] = "ready"
    BY <1>2 DEF AbortUpload, TypeOK
  <2> QED BY <1>2, <2>1, <2>2 DEF AbortUpload, Elsewhere, TypeOK, dbVars, threadVars
<1>3. CASE ArchiveServer
  <2>1. budget' \in [Kinds -> Nat]
    BY <1>1, <1>3 DEF ArchiveServer, Kinds
  <2> QED BY <1>3, <2>1 DEF ArchiveServer, Elsewhere, TypeOK, threadVars
<1>4. CASE ArchiveChannel
  <2>1. budget' \in [Kinds -> Nat]
    BY <1>1, <1>4 DEF ArchiveChannel, Kinds
  <2>2. channel'.direct = channel.direct
        /\ channel' \in [direct : BOOLEAN, archived : BOOLEAN, tabs : SUBSET Tabs,
                         contents : SUBSET Contents]
    BY <1>4 DEF ArchiveChannel, TypeOK
  <2> QED BY <1>4, <2>1, <2>2 DEF ArchiveChannel, Elsewhere, TypeOK, threadVars
<1>5. ASSUME NEW u \in Users, ChangeRole(u) PROVE Elsewhere /\ TypeOK'
  <2>1. budget' \in [Kinds -> Nat]
    BY <1>1, <1>5 DEF ChangeRole, Kinds
  <2>2. roles' \in [Users -> Roles]
    BY <1>5 DEF ChangeRole, TypeOK
  <2> QED BY <1>5, <2>1, <2>2 DEF ChangeRole, Elsewhere, TypeOK, threadVars
<1>6. ASSUME NEW u \in Users, ChangeRank(u) PROVE Elsewhere /\ TypeOK'
  <2>1. budget' \in [Kinds -> Nat]
    BY <1>1, <1>6 DEF ChangeRank, Kinds
  <2>2. ranks' \in [Users -> {"user", "admin", "owner"}]
    BY <1>6 DEF ChangeRank, TypeOK
  <2> QED BY <1>6, <2>1, <2>2 DEF ChangeRank, Elsewhere, TypeOK, threadVars
<1> QED BY <1>2, <1>3, <1>4, <1>5, <1>6 DEF OtherRequest

Checks(i, w) ==
  \/ CheckServer(i, w) \/ CheckChannel(i, w) \/ CheckRole(i, w) \/ MissUpload(i, w)
  \/ FindOwner(i, w) \/ CheckDeleteRole(i, w) \/ CheckAuthorRank(i, w)
  \/ (EditMessage(i, w) /\ UNCHANGED log)

\* A check writes nothing.
LEMMA Checking ==
  ASSUME TypeOK, NEW i \in Instances, NEW w \in Workers, Checks(i, w)
  PROVE  Checked(i, w) /\ TypeOK'
<1> DEFINE task == running[i][w]
           still == <<dbVars, tasks, loop, got, uploads, wire, log, dropped, budget>>
<1>1. task \in Tasks \cup {Idle}
  BY DEF TypeOK
<1>2. ASSUME NEW stage,
             \/ task \in Sends /\ stage \in {"channel", "role", "insert"}
             \/ task \in Completions /\ stage \in {"channel", "role", "assemble"}
             \/ task \in Deletions /\ stage \in {"own", "role", "author", "admin"}
      PROVE  LET next == [task EXCEPT !.at = stage] IN
             /\ next \in Tasks /\ next # Idle /\ next = [task EXCEPT !.at = next.at]
             /\ ~Posted(next) /\ ~Cleaning(next)
             /\ next.op = "upload" => next.at # "insert"
  <2>1. CASE task \in Sends /\ stage \in {"channel", "role", "insert"}
    BY <2>1 DEF Sends, Tasks, Idle, Posted, Cleaning
  <2>2. CASE task \in Completions /\ stage \in {"channel", "role", "assemble"}
    BY <2>2 DEF Completions, Tasks, Idle, Posted, Cleaning
  <2>3. CASE task \in Deletions /\ stage \in {"own", "role", "author", "admin"}
    BY <2>3 DEF Deletions, Tasks, Idle, Posted, Cleaning
  <2> QED BY <1>2, <2>1, <2>2, <2>3
<1>3. ASSUME NEW stage, Advance(i, w, stage), UNCHANGED still,
             ~Posted(task), ~Cleaning(task), task.op = "upload" => task.at # "insert",
             \/ task \in Sends /\ stage \in {"channel", "role", "insert"}
             \/ task \in Completions /\ stage \in {"channel", "role", "assemble"}
             \/ task \in Deletions /\ stage \in {"own", "role", "author", "admin"}
      PROVE  Checked(i, w) /\ TypeOK'
  <2> DEFINE next == [task EXCEPT !.at = stage]
  <2>1. running' = [running EXCEPT ![i][w] = next]
    BY <1>3 DEF Advance, Goto
  <2>2. /\ next \in Tasks /\ next # Idle /\ next = [task EXCEPT !.at = next.at]
        /\ ~Posted(next) /\ ~Cleaning(next)
        /\ next.op = "upload" => next.at # "insert"
    BY <1>2, <1>3
  <2>3. task # Idle
    BY <1>3 DEF Sends, Completions, Deletions, Idle
  <2> HIDE DEF next
  <2>4. running' \in [Instances -> [Workers -> Tasks \cup {Idle}]]
    BY <2>1, <2>2, Worked
  <2>5. TypeOK'
    BY <1>3, <2>4 DEF TypeOK, dbVars
  <2>6. next.op = "upload" => task.at # "insert" /\ next.at # "insert"
    BY <1>3, <2>2 DEF Completions, Sends, Deletions
  <2> QED BY <1>3, <2>1, <2>2, <2>3, <2>5, <2>6 DEF Checked
<1>4. ASSUME Refuse(i, w), UNCHANGED still, task # Idle,
             ~Posted(task), ~Cleaning(task), task.op = "upload" => task.at # "insert"
      PROVE  Checked(i, w) /\ TypeOK'
  <2>1. running' = [running EXCEPT ![i][w] = Idle]
    BY <1>4 DEF Refuse, Goto
  <2>2. running' \in [Instances -> [Workers -> Tasks \cup {Idle}]]
    BY <2>1, Worked
  <2> QED BY <1>4, <2>1, <2>2 DEF Checked, TypeOK, dbVars
<1>5. /\ task.op = "send" => task \in Sends
      /\ task.op = "upload" => task \in Completions
      /\ task.op = "delete" => task \in Deletions
      /\ task = Idle => task.op = "none"
  BY <1>1, TaskForms DEF Idle
<1>6. CASE CheckServer(i, w)
  BY <1>3, <1>4, <1>5, <1>6
     DEF CheckServer, ExecutesAt, Posting, Advance, Refuse, Goto, Posted, Cleaning
<1>7. CASE CheckChannel(i, w)
  BY <1>3, <1>4, <1>5, <1>7
     DEF CheckChannel, ExecutesAt, Posting, Advance, Refuse, Goto, Posted, Cleaning
<1>8. CASE CheckRole(i, w)
  BY <1>3, <1>4, <1>5, <1>8
     DEF CheckRole, Executes, ExecutesAt, Posting, Advance, Refuse, Goto, Posted, Cleaning
<1>9. CASE FindOwner(i, w)
  BY <1>3, <1>5, <1>9 DEF FindOwner, ExecutesAt, Advance, Goto, Posted, Cleaning
<1>10. CASE CheckDeleteRole(i, w)
  BY <1>3, <1>4, <1>5, <1>10
     DEF CheckDeleteRole, ExecutesAt, Advance, Refuse, Goto, Posted, Cleaning
<1>11. CASE CheckAuthorRank(i, w)
  BY <1>3, <1>4, <1>5, <1>11
     DEF CheckAuthorRank, ExecutesAt, Advance, Refuse, Goto, Posted, Cleaning
<1>12. CASE EditMessage(i, w) /\ UNCHANGED log
  <2>1. \A kind, m, u : ~Log(kind, m, u)
    <3> SUFFICES ASSUME NEW kind, NEW m, NEW u, Log(kind, m, u) PROVE FALSE
      OBVIOUS
    <3>1. log' = Append(log, [kind |-> kind, message |-> m, by |-> u])
      BY DEF Log
    <3>2. Len(log') = Len(log) + 1 /\ Len(log) \in Nat
      BY <3>1 DEF TypeOK
    <3> QED BY <1>12, <3>2
  <2>2. Refuse(i, w) /\ UNCHANGED <<rows, log>>
    BY <1>12, <2>1 DEF EditMessage
  <2>3. UNCHANGED still
    BY <1>12, <2>2 DEF EditMessage, Refuse, Goto, dbVars
  <2>4. task.op = "edit"
    BY <1>12 DEF EditMessage, Executes
  <2> QED BY <1>4, <1>5, <2>2, <2>3, <2>4 DEF Posted, Cleaning
<1>13. CASE MissUpload(i, w)
  BY <1>4, <1>5, <1>13
     DEF MissUpload, ExecutesAt, Refuse, Goto, Posted, Cleaning, Completions, Idle
<1> QED BY <1>6, <1>7, <1>8, <1>9, <1>10, <1>11, <1>12, <1>13 DEF Checks

\* A change is committed.
LEMMA Logging ==
  ASSUME TypeOK, NEW kind, NEW m \in Nat \ {0}, NEW u \in Users, Log(kind, m, u),
         kind \in {"new", "edited", "deleted", "reacted", "unreacted", "read"}
  PROVE  /\ log' \in Seq(Changes) /\ Len(log) \in Nat
         /\ Len(log') = Len(log) + 1 /\ Len(log') <= MaxChanges
         /\ DOMAIN log' = DOMAIN log \cup {Len(log) + 1} /\ Len(log) + 1 \notin DOMAIN log
         /\ \A n \in DOMAIN log : log'[n] = log[n]
         /\ log'[Len(log) + 1] = [kind |-> kind, message |-> m, by |-> u]
         /\ Change(Next1(log)) \in Frames /\ Next1(log) = Len(log) + 1
<1>1. log \in Seq(Changes) /\ [kind |-> kind, message |-> m, by |-> u] \in Changes
  BY DEF TypeOK, Changes
<1>2. log' = Append(log, [kind |-> kind, message |-> m, by |-> u]) /\ Len(log) < MaxChanges
  BY DEF Log
<1>3. Len(log) \in Nat /\ Len(log) + 1 \in 1 .. MaxChanges
  BY <1>1, <1>2, MessagesAssumption
<1>4. Change(Next1(log)) \in Frames
  BY <1>3 DEF Frames, Next1
<1> QED BY <1>1, <1>2, <1>3, <1>4, Longer DEF Next1

\* A worker ends its task with a closure.
LEMMA Finishing ==
  ASSUME TypeOK, NEW i \in Instances, NEW w \in Workers, NEW closure \in Closures,
         FinishWith(i, w, closure)
  PROVE  /\ running' \in [Instances -> [Workers -> Tasks \cup {Idle}]]
         /\ running'[i][w] = Idle
         /\ \A j \in Instances, v \in Workers :
              ~(j = i /\ v = w) => running'[j][v] = running[j][v]
         /\ loop' \in [Instances -> Seq(Closures)]
         /\ loop'[i] = Append(loop[i], closure)
         /\ \A j \in Instances : j # i => loop'[j] = loop[j]
         /\ tasks' = tasks
<1>1. loop \in [Instances -> Seq(Closures)] /\ loop' = [loop EXCEPT ![i] = Append(@, closure)]
  BY DEF TypeOK, FinishWith
<1>2. /\ loop' \in [Instances -> Seq(Closures)]
      /\ loop'[i] = Append(loop[i], closure)
      /\ \A j \in Instances : j # i => loop'[j] = loop[j]
  BY <1>1, Joins
<1>3. running' = [running EXCEPT ![i][w] = Idle] /\ tasks' = tasks
  BY DEF FinishWith
<1>4. Idle \in Tasks \cup {Idle}
  OBVIOUS
<1>5. /\ running' \in [Instances -> [Workers -> Tasks \cup {Idle}]]
      /\ running'[i][w] = Idle
      /\ \A j \in Instances, v \in Workers :
           ~(j = i /\ v = w) => running'[j][v] = running[j][v]
  BY ZenonT(60), <1>3, <1>4, Worked
<1> QED BY <1>2, <1>3, <1>5

LEMMA Announcements ==
  ASSUME NEW frames \in Seq(Frames), NEW except \in SUBSET Users
  PROVE  Announcing(frames, except) \in Closures
  BY DEF Announcing, Closures

Touches(i, w) ==
  \/ (EditMessage(i, w) /\ log' # log)
  \/ AddReaction(i, w) \/ RemoveReaction(i, w) \/ UpdateReadState(i, w)

\* Edits, reactions and receipts keep to what Touched says of them.
LEMMA Touching ==
  ASSUME TypeOK, Stored, NEW i \in Instances, NEW w \in Workers, Touches(i, w)
  PROVE  Touched(i, w) /\ TypeOK'
<1> DEFINE task == running[i][w]  u == task.user  m == task.message
<1>1. task.op \in {"edit", "react", "unreact", "read"}
  BY DEF Touches, EditMessage, AddReaction, RemoveReaction, UpdateReadState, Executes
<1>2. task \in [op : {"edit", "react", "unreact", "read"}, user : Users, message : Nat]
  BY <1>1, TaskForms DEF TypeOK
<1>3. u \in Users /\ m \in DOMAIN rows /\ m \in Nat \ {0}
  <2>1. m \in DOMAIN rows
    BY <1>1 DEF Stored, Refers
  <2> QED BY <1>2, <2>1, Elements DEF TypeOK
<1>4. \A l \in DOMAIN rows : rows[l] \in Rows
  BY Elements DEF TypeOK
<1> DEFINE Fits(kind, except) ==
      /\ Log(kind, m, u)
      /\ except \in SUBSET Users /\ except \subseteq IF kind = "read" THEN {u} ELSE {}
      /\ FinishWith(i, w, Announcing(<<Change(Next1(log))>>, except))
      /\ kind = "edited" => rows[m].author = u /\ ~rows[m].deleted
      /\ rows' \in Seq(Rows) /\ DOMAIN rows' = DOMAIN rows
      /\ \A l \in DOMAIN rows : rows'[l] = [rows[l] EXCEPT !.text = rows'[l].text]
      /\ reactions' \subseteq (DOMAIN rows) \X Users
      /\ mentions' \subseteq mentions /\ Reads
      /\ UNCHANGED <<notes, channel, serverArchived, roles, ranks, blobs, got, uploads,
                     wire, dropped, budget>>
<1>6. ASSUME NEW kind \in {"edited", "reacted", "unreacted", "read"}, NEW except,
             Fits(kind, except)
      PROVE  Touched(i, w) /\ TypeOK'
  <2>1. log' \in Seq(Changes) /\ Change(Next1(log)) \in Frames
        /\ log'[Len(log) + 1].kind = kind
    <3>1. Log(kind, m, u)
      BY <1>6
    <3>2. kind \in {"new", "edited", "deleted", "reacted", "unreacted", "read"}
      BY <1>6
    <3>3. log' \in Seq(Changes) /\ Change(Next1(log)) \in Frames
          /\ log'[Len(log) + 1] = [kind |-> kind, message |-> m, by |-> u]
      <4>1. m \in Nat \ {0} /\ u \in Users
        BY <1>3
      <4> HIDE DEF m, u, Fits
      <4> QED BY <3>1, <3>2, <4>1, Logging
    <3> QED BY <3>3
  <2>2. Announcing(<<Change(Next1(log))>>, except) \in Closures
    <3>1. <<Change(Next1(log))>> \in Seq(Frames)
      BY <2>1
    <3> QED BY <1>6, <3>1, Announcements
  <2>3. /\ running' \in [Instances -> [Workers -> Tasks \cup {Idle}]]
        /\ loop' \in [Instances -> Seq(Closures)] /\ tasks' = tasks
    BY <1>6, <2>2, Finishing
  <2>4. mentions' \subseteq (DOMAIN rows') \X Users /\ reactions' \subseteq (DOMAIN rows') \X Users
    BY <1>6 DEF TypeOK
  <2>5. TypeOK'
    BY <1>6, <2>1, <2>3, <2>4 DEF TypeOK, Reads
  <2>6. Touched(i, w)
    BY <1>1, <1>6, <2>1 DEF Touched
  <2> QED BY <2>5, <2>6
<1>7. /\ rows = rows' => /\ rows' \in Seq(Rows) /\ DOMAIN rows' = DOMAIN rows
                         /\ \A l \in DOMAIN rows : rows'[l] = [rows[l] EXCEPT !.text = rows'[l].text]
      /\ UNCHANGED <<mentions, readState>> => mentions' \subseteq mentions /\ Reads
  <2>1. \A l \in DOMAIN rows : rows[l] = [rows[l] EXCEPT !.text = rows[l].text]
    BY <1>4 DEF Rows
  <2> QED BY <2>1 DEF TypeOK, Reads
<1>8. CASE EditMessage(i, w) /\ log' # log
  <2>1. /\ rows[m].author = u /\ ~rows[m].deleted
        /\ rows' = [rows EXCEPT ![m].text = "edited"]
        /\ Log("edited", m, u)
        /\ FinishWith(i, w, Announcing(<<Change(Next1(log))>>, {}))
    BY <1>8 DEF EditMessage
  <2>2. [rows[m] EXCEPT !.text = "edited"] \in Rows
    BY <1>3, <1>4 DEF Rows
  <2>3. rows' = [rows EXCEPT ![m] = [rows[m] EXCEPT !.text = "edited"]]
    BY <2>1
  <2>4. /\ rows' \in Seq(Rows) /\ DOMAIN rows' = DOMAIN rows
        /\ rows'[m] = [rows[m] EXCEPT !.text = "edited"]
        /\ \A l \in DOMAIN rows : l # m => rows'[l] = rows[l]
    BY <1>3, <2>2, <2>3, Replaced DEF TypeOK
  <2>5. \A l \in DOMAIN rows : rows'[l] = [rows[l] EXCEPT !.text = rows'[l].text]
    <3>1. rows[m] \in Rows /\ rows'[m].text = "edited"
      BY <1>3, <1>4, <2>4 DEF Rows
    <3>2. \A l \in DOMAIN rows : rows[l] = [rows[l] EXCEPT !.text = rows[l].text]
      BY <1>4 DEF Rows
    <3> QED BY <2>4, <3>1, <3>2
  <2>6. UNCHANGED <<reactions, mentions, notes, readState, channel, serverArchived,
                    roles, ranks, blobs, got, uploads, wire, dropped, budget>>
    BY <1>8 DEF EditMessage
  <2>7. reactions' \subseteq (DOMAIN rows) \X Users
    BY <2>6 DEF TypeOK
  <2>8. Fits("edited", {})
    BY <1>7, <2>1, <2>4, <2>5, <2>6, <2>7
  <2> QED BY <1>6, <2>8
<1>9. CASE AddReaction(i, w)
  <2>1. /\ reactions' = reactions \cup {<<m, u>>}
        /\ Log("reacted", m, u)
        /\ FinishWith(i, w, Announcing(<<Change(Next1(log))>>, {}))
        /\ UNCHANGED <<rows, mentions, notes, readState, channel, serverArchived,
                 roles, ranks, blobs, got, uploads, wire, dropped, budget>>
    BY <1>9 DEF AddReaction
  <2>2. reactions' \subseteq (DOMAIN rows) \X Users
    BY <1>3, <2>1 DEF TypeOK
  <2>3. Fits("reacted", {})
    BY <1>7, <2>1, <2>2
  <2> QED BY <1>6, <2>3
<1>10. CASE RemoveReaction(i, w)
  <2>1. /\ reactions' = reactions \ {<<m, u>>}
        /\ Log("unreacted", m, u)
        /\ FinishWith(i, w, Announcing(<<Change(Next1(log))>>, {}))
        /\ UNCHANGED <<rows, mentions, notes, readState, channel, serverArchived,
                 roles, ranks, blobs, got, uploads, wire, dropped, budget>>
    BY <1>10 DEF RemoveReaction
  <2>2. reactions' \subseteq (DOMAIN rows) \X Users
    BY <2>1 DEF TypeOK
  <2>3. Fits("unreacted", {})
    BY <1>7, <2>1, <2>2
  <2> QED BY <1>6, <2>3
<1>11. CASE UpdateReadState(i, w)
  <2>1. /\ readState' = [readState EXCEPT ![u] =
              IF m > @.at THEN [at |-> m, message |-> m] ELSE @]
        /\ mentions' = {p \in mentions : p[2] # u \/ p[1] > m}
        /\ Log("read", m, u)
        /\ FinishWith(i, w, Announcing(<<Change(Next1(log))>>, {u}))
        /\ UNCHANGED <<rows, reactions, notes, channel, serverArchived, roles, ranks,
                 blobs, got, uploads, wire, dropped, budget>>
    BY <1>11 DEF UpdateReadState
  <2>2. readState \in [Users -> [at : Nat, message : Nat]] /\ m \in Nat /\ u \in Users
    BY <1>3 DEF TypeOK
  <2>3. /\ readState' \in [Users -> [at : Nat, message : Nat]]
        /\ readState'[u].at >= m
        /\ \A v \in Users : readState'[v] # readState[v] =>
             readState'[v].at > readState[v].at /\ readState'[v].message = readState'[v].at
    <3>1. readState' = [readState EXCEPT ![u] =
               IF m > @.at THEN [at |-> m, message |-> m] ELSE @]
      BY <2>1
    <3> HIDE DEF m, u
    <3> QED BY <2>2, <3>1, Forward
  <2>4. \A p \in mentions : p[1] \in Nat
    BY Elements DEF TypeOK
  <2>5. \A p \in mentions \ mentions' : p[1] <= readState'[p[2]].at
    <3>1. mentions' = {p \in mentions : p[2] # u \/ p[1] > m}
      BY <2>1
    <3>2. readState'[u].at >= m /\ readState'[u].at \in Nat
      BY <2>2, <2>3
    <3> HIDE DEF m, u
    <3>3. \A p \in mentions \ mentions' : p[2] = u /\ p[1] <= m
      BY <2>2, <2>4, <3>1
    <3> QED BY <2>2, <2>4, <3>2, <3>3
  <2>6. reactions' \subseteq (DOMAIN rows) \X Users
    BY <2>1 DEF TypeOK
  <2>7. mentions' \subseteq mentions /\ Reads
    BY <2>1, <2>3, <2>5 DEF Reads
  <2>8. Fits("read", {u})
    BY <1>3, <1>7, <2>1, <2>6, <2>7
  <2> QED BY <1>6, <2>8
<1> QED BY <1>8, <1>9, <1>10, <1>11 DEF Touches

-----------------------------------------------------------------------------
(* What each write does *)

\* A row is inserted, and the log says so.
LEMMA Inserting ==
  ASSUME TypeOK, NEW u \in Users, NEW tokens \in Contents, NEW reply \in Nat,
         NEW file \in Uploads \cup {NoFile}, Insert(u, tokens, reply, file)
  PROVE  /\ rows' \in Seq(Rows) /\ Len(rows) \in Nat /\ Next1(rows) = Len(rows) + 1
         /\ DOMAIN rows' = DOMAIN rows \cup {Len(rows) + 1} /\ Len(rows) + 1 \notin DOMAIN rows
         /\ \A m \in DOMAIN rows : rows'[m] = rows[m]
         /\ LET row == rows'[Len(rows) + 1] IN
              /\ row.author = u /\ row.tokens = tokens /\ row.reply = reply
              /\ row.file = file /\ ~row.deleted
         /\ Log("new", Len(rows) + 1, u)
         /\ log' \in Seq(Changes) /\ Len(log) \in Nat
         /\ Len(log') = Len(log) + 1 /\ Len(log') <= MaxChanges
         /\ DOMAIN log' = DOMAIN log \cup {Len(log) + 1} /\ Len(log) + 1 \notin DOMAIN log
         /\ \A n \in DOMAIN log : log'[n] = log[n]
         /\ log'[Len(log) + 1] = [kind |-> "new", message |-> Len(rows) + 1, by |-> u]
         /\ Change(Len(log) + 1) \in Frames /\ Next1(log) = Len(log) + 1
<1> DEFINE row == [author |-> u, tokens |-> tokens, reply |-> reply,
                   file |-> file, text |-> "sent", deleted |-> FALSE]
<1>1. row \in Rows /\ row.author = u /\ row.tokens = tokens /\ row.reply = reply
      /\ row.file = file /\ ~row.deleted
  BY DEF Rows
<1>2. rows' = Append(rows, row) /\ Log("new", Next1(rows), u)
  BY DEF Insert
<1> HIDE DEF row
<1>3. /\ rows' \in Seq(Rows) /\ Len(rows) \in Nat /\ Next1(rows) = Len(rows) + 1
      /\ DOMAIN rows' = DOMAIN rows \cup {Len(rows) + 1} /\ Len(rows) + 1 \notin DOMAIN rows
      /\ \A m \in DOMAIN rows : rows'[m] = rows[m]
      /\ rows'[Len(rows) + 1] = row
  BY <1>1, <1>2, Longer DEF TypeOK, Next1
<1>4. Log("new", Len(rows) + 1, u) /\ Len(rows) + 1 \in Nat \ {0}
  BY <1>2, <1>3
<1>5. "new" \in {"new", "edited", "deleted", "reacted", "unreacted", "read"}
  OBVIOUS
<1>6. /\ log' \in Seq(Changes) /\ Len(log) \in Nat
      /\ Len(log') = Len(log) + 1 /\ Len(log') <= MaxChanges
      /\ DOMAIN log' = DOMAIN log \cup {Len(log) + 1} /\ Len(log) + 1 \notin DOMAIN log
      /\ \A n \in DOMAIN log : log'[n] = log[n]
      /\ log'[Len(log) + 1] = [kind |-> "new", message |-> Len(rows) + 1, by |-> u]
      /\ Change(Next1(log)) \in Frames /\ Next1(log) = Len(log) + 1
  BY <1>4, <1>5, Logging
<1> QED BY <1>1, <1>3, <1>4, <1>6

LEMMA Creating ==
  ASSUME TypeOK, Stored, NEW i \in Instances, NEW w \in Workers, CreateMessage(i, w)
  PROVE  LET task == running[i][w]  next == running'[i][w] IN
         /\ TypeOK'
         /\ task \in Sends /\ next \in Sends /\ task.at = "insert" /\ ~Posted(task)
         /\ next.at = "mentions" /\ Posted(next)
         /\ next.message = Len(rows) + 1 /\ next.change = Len(log) + 1
         /\ next.user = task.user /\ next.tokens = task.tokens /\ next.reply = task.reply
         /\ next.frames = <<>>
         /\ \A j \in Instances, v \in Workers :
              ~(j = i /\ v = w) => running'[j][v] = running[j][v]
         /\ Insert(task.user, task.tokens, task.reply, NoFile)
         /\ UNCHANGED <<tasks, loop, reactions, mentions, notes, readState, channel,
                        serverArchived, roles, ranks, blobs, got, uploads, wire, dropped, budget>>
<1> DEFINE task == running[i][w]
           next == [task EXCEPT !.at = "mentions", !.message = Next1(rows), !.change = Next1(log)]
<1>1. task \in Sends /\ task.at = "insert" /\ ~Posted(task)
  <2>1. task.op = "send" /\ task.at = "insert"
    BY DEF CreateMessage, ExecutesAt
  <2> QED BY <2>1, TaskForms DEF TypeOK, Posted
<1>2. task.frames = <<>>
  BY <1>1 DEF Stored, Refers, Sends
<1>3. /\ Insert(task.user, task.tokens, task.reply, NoFile)
      /\ running' = [running EXCEPT ![i][w] = next]
      /\ UNCHANGED <<tasks, loop, reactions, mentions, notes, readState, channel,
                     serverArchived, roles, ranks, blobs, got, uploads, wire, dropped, budget>>
  BY DEF CreateMessage, Goto
<1>4. /\ task.user \in Users /\ task.tokens \in Contents /\ task.reply \in Nat
      /\ NoFile \in Uploads \cup {NoFile}
  BY <1>1 DEF Sends
<1>5. /\ rows' \in Seq(Rows) /\ Len(rows) \in Nat /\ Next1(rows) = Len(rows) + 1
      /\ DOMAIN rows \subseteq DOMAIN rows'
      /\ log' \in Seq(Changes) /\ Len(log) \in Nat /\ Next1(log) = Len(log) + 1
  BY <1>3, <1>4, Inserting
<1>6. next \in Sends /\ next.at = "mentions"
  <2>1. Next1(rows) \in Nat /\ Next1(log) \in Nat
    BY <1>5
  <2> QED BY <1>1, <2>1 DEF Sends
<1>7. /\ Posted(next) /\ next.message = Len(rows) + 1 /\ next.change = Len(log) + 1
      /\ next.user = task.user /\ next.tokens = task.tokens /\ next.reply = task.reply
      /\ next.frames = <<>>
  BY <1>1, <1>2, <1>5 DEF Sends, Posted
<1>8. next \in Tasks
  BY <1>6 DEF Tasks
<1> HIDE DEF next
<1>9. /\ running' \in [Instances -> [Workers -> Tasks \cup {Idle}]]
      /\ running'[i][w] = next
      /\ \A j \in Instances, v \in Workers :
           ~(j = i /\ v = w) => running'[j][v] = running[j][v]
  BY ZenonT(60), <1>3, <1>8, Worked
<1>10. TypeOK'
  BY <1>3, <1>5, <1>9 DEF TypeOK
<1> QED BY <1>1, <1>3, <1>6, <1>7, <1>9, <1>10

LEMMA CreatingFile ==
  ASSUME TypeOK, NEW i \in Instances, NEW w \in Workers, CreateFileMessage(i, w)
  PROVE  LET task == running[i][w] IN
         /\ TypeOK'
         /\ task \in Completions /\ task.at = "insert" /\ running'[i][w] = Idle
         /\ \A j \in Instances, v \in Workers :
              ~(j = i /\ v = w) => running'[j][v] = running[j][v]
         /\ Insert(task.user, <<>>, 0, task.file)
         /\ [do |-> "uploaded", frames |-> <<Change(Len(log) + 1)>>, file |-> task.file] \in Closures
         /\ loop'[i] = Append(loop[i],
              [do |-> "uploaded", frames |-> <<Change(Len(log) + 1)>>, file |-> task.file])
         /\ \A j \in Instances : j # i => loop'[j] = loop[j]
         /\ UNCHANGED <<tasks, reactions, mentions, notes, readState, channel, serverArchived,
                        roles, ranks, blobs, got, uploads, wire, dropped, budget>>
<1> DEFINE task == running[i][w]
           closure == [do |-> "uploaded", frames |-> <<Change(Next1(log))>>, file |-> task.file]
<1>1. task \in Completions /\ task.at = "insert"
  <2>1. task.op = "upload" /\ task.at = "insert"
    BY DEF CreateFileMessage, ExecutesAt
  <2> QED BY <2>1, TaskForms DEF TypeOK
<1>2. /\ Insert(task.user, <<>>, 0, task.file)
      /\ FinishWith(i, w, closure)
      /\ UNCHANGED <<reactions, mentions, notes, readState, channel, serverArchived,
                     roles, ranks, blobs, got, uploads, wire, dropped, budget>>
  BY DEF CreateFileMessage
<1>3. task.user \in Users /\ <<>> \in Contents /\ task.file \in Uploads
  BY <1>1 DEF Completions, Contents
<1>4. 0 \in Nat /\ task.file \in Uploads \cup {NoFile}
  BY <1>3
<1>5. /\ rows' \in Seq(Rows) /\ DOMAIN rows \subseteq DOMAIN rows'
      /\ log' \in Seq(Changes) /\ Change(Next1(log)) \in Frames /\ Next1(log) = Len(log) + 1
  BY <1>2, <1>3, <1>4, Inserting
<1>6. closure \in Closures
  BY <1>3, <1>5 DEF Closures
<1>7. closure = [do |-> "uploaded", frames |-> <<Change(Len(log) + 1)>>, file |-> task.file]
  BY <1>5
<1> HIDE DEF closure
<1>8. /\ running' \in [Instances -> [Workers -> Tasks \cup {Idle}]]
      /\ running'[i][w] = Idle
      /\ \A j \in Instances, v \in Workers :
           ~(j = i /\ v = w) => running'[j][v] = running[j][v]
      /\ loop' \in [Instances -> Seq(Closures)]
      /\ loop'[i] = Append(loop[i], closure)
      /\ \A j \in Instances : j # i => loop'[j] = loop[j]
      /\ tasks' = tasks
  BY <1>2, <1>6, Finishing
<1>9. TypeOK'
  BY <1>2, <1>5, <1>8 DEF TypeOK
<1> QED BY <1>1, <1>2, <1>6, <1>7, <1>8, <1>9

\* What a task makes of a message it has sent.
LEMMA Storing ==
  ASSUME TypeOK, Stored, NEW i \in Instances, NEW w \in Workers, StoreMentions(i, w)
  PROVE  LET task == running[i][w]  next == running'[i][w] IN
         /\ TypeOK'
         /\ task \in Sends /\ task.at = "mentions" /\ next \in Sends /\ next.at = "notify"
         /\ Posted(task) /\ Posted(next)
         /\ next.message = task.message /\ next.change = task.change
         /\ next.user = task.user /\ next.tokens = task.tokens /\ next.reply = task.reply
         /\ next.frames = task.frames /\ next.pending = Notifications(task)
         /\ \A j \in Instances, v \in Workers :
              ~(j = i /\ v = w) => running'[j][v] = running[j][v]
         /\ mentions' = mentions \cup
              ({task.message} \X (Mentioned(task.tokens) \ {task.user}))
         /\ UNCHANGED <<tasks, loop, rows, reactions, notes, readState, channel, serverArchived,
                        roles, ranks, blobs, got, uploads, wire, log, dropped, budget>>
<1> DEFINE task == running[i][w]
           next == [task EXCEPT !.at = "notify", !.pending = Notifications(task)]
<1>1. task \in Sends /\ task.at = "mentions" /\ Posted(task)
  <2>1. task.op = "send" /\ task.at = "mentions"
    BY DEF StoreMentions, ExecutesAt
  <2> QED BY <2>1, TaskForms DEF TypeOK, Posted
<1>2. task.message \in DOMAIN rows /\ task.reply \in 0 .. Len(rows)
  BY <1>1 DEF Stored, Refers, Sends
<1>3. Members \subseteq Users /\ Mentioned(task.tokens) \subseteq Users
  BY DEF Members, Mentioned, Named
<1>4. Notifications(task) \subseteq Pending
  <2>1. \A nth \in DOMAIN task.tokens : nth \in Nat
    BY <1>1, Elements DEF Sends, Contents
  <2>2. task.reply # 0 => rows[task.reply].author \in Users
    <3>1. task.reply # 0 => task.reply \in DOMAIN rows
      BY <1>2 DEF TypeOK
    <3>2. \A m \in DOMAIN rows : rows[m] \in Rows
      BY Elements DEF TypeOK
    <3> QED BY <3>1, <3>2 DEF Rows
  <2> QED BY <1>3, <2>1, <2>2 DEF Notifications, Pending
<1>5. /\ running' = [running EXCEPT ![i][w] = next]
      /\ mentions' = mentions \cup
           ({task.message} \X (Mentioned(task.tokens) \ {task.user}))
      /\ UNCHANGED <<tasks, loop, rows, reactions, notes, readState, channel, serverArchived,
                     roles, ranks, blobs, got, uploads, wire, log, dropped, budget>>
  BY DEF StoreMentions, Goto
<1>6. /\ next \in Sends /\ next.at = "notify" /\ Posted(next)
      /\ next.message = task.message /\ next.change = task.change
      /\ next.user = task.user /\ next.tokens = task.tokens /\ next.reply = task.reply
      /\ next.frames = task.frames /\ next.pending = Notifications(task)
  BY <1>1, <1>4 DEF Sends, Posted
<1>7. next \in Tasks
  BY <1>6 DEF Tasks
<1> HIDE DEF next
<1>8. /\ running' \in [Instances -> [Workers -> Tasks \cup {Idle}]]
      /\ running'[i][w] = next
      /\ \A j \in Instances, v \in Workers :
           ~(j = i /\ v = w) => running'[j][v] = running[j][v]
  BY ZenonT(60), <1>5, <1>7, Worked
<1>9. mentions' \subseteq (DOMAIN rows) \X Users
  BY <1>2, <1>3, <1>5 DEF TypeOK
<1>10. TypeOK'
  BY <1>5, <1>8, <1>9 DEF TypeOK
<1> QED BY <1>1, <1>5, <1>6, <1>8, <1>10

LEMMA Notifying ==
  ASSUME TypeOK, Stored, NEW i \in Instances, NEW w \in Workers, Notify(i, w)
  PROVE  LET task == running[i][w]  next == running'[i][w] IN
         /\ TypeOK'
         /\ task \in Sends /\ task.at = "notify" /\ next \in Sends /\ next.at = "notify"
         /\ Posted(task) /\ Posted(next)
         /\ next.message = task.message /\ next.change = task.change
         /\ next.user = task.user /\ next.tokens = task.tokens /\ next.reply = task.reply
         /\ next.frames = Append(task.frames, Note(Len(notes) + 1))
         /\ Note(Len(notes) + 1) \in Frames
         /\ \E p \in task.pending :
              /\ p \in Pending /\ next.pending = task.pending \ {p}
              /\ DOMAIN notes' = DOMAIN notes \cup {Len(notes) + 1}
              /\ Len(notes) + 1 \notin DOMAIN notes
              /\ \A k \in DOMAIN notes : notes'[k] = notes[k]
              /\ notes'[Len(notes) + 1] = [to |-> p.to, type |-> p.type, message |-> task.message]
              /\ notes' = Append(notes, [to |-> p.to, type |-> p.type, message |-> task.message])
         /\ Len(notes') <= MaxNotes
         /\ \A j \in Instances, v \in Workers :
              ~(j = i /\ v = w) => running'[j][v] = running[j][v]
         /\ UNCHANGED <<tasks, loop, rows, reactions, mentions, readState, channel,
                        serverArchived, roles, ranks, blobs, got, uploads, wire, log, dropped,
                        budget>>
<1> DEFINE task == running[i][w]
<1>1. task \in Sends /\ task.at = "notify" /\ Posted(task)
  <2>1. task.op = "send" /\ task.at = "notify"
    BY DEF Notify, ExecutesAt
  <2> QED BY <2>1, TaskForms DEF TypeOK, Posted
<1>2. task.message \in DOMAIN rows
  BY <1>1 DEF Stored, Refers
<1>3. PICK p \in task.pending :
        /\ Len(notes) < MaxNotes
        /\ notes' = Append(notes, [to |-> p.to, type |-> p.type, message |-> task.message])
        /\ Goto(i, w, [task EXCEPT !.pending = @ \ {p},
                                   !.frames = Append(@, Note(Next1(notes)))])
  BY DEF Notify
<1> DEFINE note == [to |-> p.to, type |-> p.type, message |-> task.message]
           next == [task EXCEPT !.pending = @ \ {p}, !.frames = Append(@, Note(Next1(notes)))]
<1>4. p \in Pending
  BY <1>1, <1>3 DEF Sends
<1>5. note \in Notes
  <2>1. task.message \in Nat \ {0}
    BY <1>2, Elements DEF TypeOK
  <2> QED BY <1>4, <2>1 DEF Notes, Pending
<1>6. /\ notes' \in Seq(Notes) /\ Len(notes') = Len(notes) + 1
      /\ DOMAIN notes' = DOMAIN notes \cup {Len(notes) + 1}
      /\ Len(notes) + 1 \notin DOMAIN notes
      /\ \A k \in DOMAIN notes : notes'[k] = notes[k]
      /\ notes'[Len(notes) + 1] = note
  <2>1. notes' = Append(notes, note)
    BY <1>3
  <2> HIDE DEF note
  <2> QED BY <1>5, <2>1, Longer DEF TypeOK
<1>7. Note(Next1(notes)) \in Frames /\ Next1(notes) = Len(notes) + 1 /\ Len(notes') <= MaxNotes
  <2>1. Len(notes) + 1 \in 1 .. MaxNotes
    BY <1>3, MessagesAssumption DEF TypeOK
  <2> QED BY <1>6, <2>1 DEF Frames, Next1
<1>8. Append(task.frames, Note(Next1(notes))) \in Seq(Frames)
  BY <1>1, <1>7 DEF Sends
<1>9. next \in Sends
  BY <1>1, <1>8 DEF Sends
<1>10. /\ next.at = "notify" /\ Posted(next)
       /\ next.message = task.message /\ next.change = task.change
       /\ next.user = task.user /\ next.tokens = task.tokens /\ next.reply = task.reply
       /\ next.frames = Append(task.frames, Note(Len(notes) + 1))
       /\ next.pending = task.pending \ {p}
  BY <1>1, <1>7 DEF Sends, Posted
<1>11. next \in Tasks
  BY <1>9 DEF Tasks
<1>12. running' = [running EXCEPT ![i][w] = next] /\ UNCHANGED <<tasks, loop>>
  BY <1>3 DEF Goto
<1>13. UNCHANGED <<rows, reactions, mentions, readState, channel, serverArchived, roles,
                   ranks, blobs, got, uploads, wire, log, dropped, budget>>
  BY DEF Notify
<1> HIDE DEF next
<1>14. /\ running' \in [Instances -> [Workers -> Tasks \cup {Idle}]]
       /\ running'[i][w] = next
       /\ \A j \in Instances, v \in Workers :
            ~(j = i /\ v = w) => running'[j][v] = running[j][v]
  BY ZenonT(60), <1>11, <1>12, Worked
<1>15. TypeOK'
  BY <1>6, <1>12, <1>13, <1>14 DEF TypeOK
<1>16. Note(Len(notes) + 1) \in Frames
  BY <1>7
<1> QED
  BY <1>1, <1>3, <1>4, <1>6, <1>7, <1>9, <1>10, <1>12, <1>13, <1>14, <1>15, <1>16

\* A task that carries frames carries committed ones.
LEMMA Parcels ==
  ASSUME TypeOK, Stored, NEW i \in Instances, NEW w \in Workers
  PROVE  /\ Parcel(running[i][w]) \in Seq(Frames)
         /\ Posted(running[i][w]) =>
              /\ running[i][w] \in Sends
              /\ Parcel(running[i][w]) =
                   Append(running[i][w].frames, Change(running[i][w].change))
         /\ Cleaning(running[i][w]) =>
              /\ running[i][w] \in Deletions
              /\ Parcel(running[i][w]) = <<Change(running[i][w].change)>>
         /\ ~Posted(running[i][w]) /\ ~Cleaning(running[i][w]) =>
              Parcel(running[i][w]) = <<>>
<1> DEFINE task == running[i][w]
<1>1. task \in Tasks \cup {Idle}
  BY DEF TypeOK
<1>2. \A n \in DOMAIN log : Change(n) \in Frames
  <2>1. DOMAIN log \subseteq 1 .. MaxChanges
    BY MessagesAssumption DEF TypeOK, Stored
  <2> QED BY <2>1 DEF Frames
<1>3. CASE Posted(task)
  <2>1. task \in Sends /\ ~Cleaning(task)
    BY <1>1, <1>3, TaskForms DEF Posted, Cleaning
  <2>2. Change(task.change) \in Frames /\ task.frames \in Seq(Frames)
    BY <1>2, <1>3, <2>1 DEF Stored, Refers, Sends
  <2>3. Append(task.frames, Change(task.change)) \in Seq(Frames)
    BY <2>2
  <2> QED BY <1>3, <2>1, <2>3 DEF Parcel
<1>4. CASE Cleaning(task)
  <2>1. task \in Deletions /\ ~Posted(task)
    BY <1>1, <1>4, TaskForms DEF Posted, Cleaning
  <2>2. Change(task.change) \in Frames
    BY <1>2, <1>4 DEF Stored, Refers
  <2>3. <<Change(task.change)>> \in Seq(Frames)
    BY <2>2
  <2> QED BY <1>4, <2>1, <2>3 DEF Parcel
<1>5. CASE ~Posted(task) /\ ~Cleaning(task)
  BY <1>5 DEF Parcel
<1> QED BY <1>3, <1>4, <1>5

\* A task hands its parcel over to the loop.
HandsOver(i, w) ==
  /\ running'[i][w] = Idle
  /\ \A j \in Instances, v \in Workers :
       ~(j = i /\ v = w) => running'[j][v] = running[j][v]
  /\ Announcing(Parcel(running[i][w]), {}) \in Closures
  /\ loop'[i] = Append(loop[i], Announcing(Parcel(running[i][w]), {}))
  /\ \A j \in Instances : j # i => loop'[j] = loop[j]
  /\ UNCHANGED <<tasks, rows, reactions, mentions, notes, readState, channel, serverArchived,
                 roles, ranks, got, uploads, wire, log, dropped, budget>>

LEMMA EndingSend ==
  ASSUME TypeOK, Stored, NEW i \in Instances, NEW w \in Workers, FinishSending(i, w)
  PROVE  LET task == running[i][w] IN
         /\ TypeOK'
         /\ task \in Sends /\ Posted(task) /\ task.at = "notify" /\ task.pending = {}
         /\ HandsOver(i, w) /\ blobs' = blobs
<1> DEFINE task == running[i][w]
<1>1. task \in Sends /\ task.at = "notify" /\ Posted(task) /\ task.pending = {}
  <2>1. task.op = "send" /\ task.at = "notify" /\ task.pending = {}
    BY DEF FinishSending, ExecutesAt
  <2> QED BY <2>1, TaskForms DEF TypeOK, Posted
<1>2. Parcel(task) \in Seq(Frames) /\ Parcel(task) = Append(task.frames, Change(task.change))
  BY <1>1, Parcels
<1>3. FinishWith(i, w, Announcing(Parcel(task), {}))
  BY <1>2 DEF FinishSending
<1>4. Announcing(Parcel(task), {}) \in Closures
  BY <1>2, Announcements
<1>5. /\ running' \in [Instances -> [Workers -> Tasks \cup {Idle}]]
      /\ running'[i][w] = Idle
      /\ \A j \in Instances, v \in Workers :
           ~(j = i /\ v = w) => running'[j][v] = running[j][v]
      /\ loop' \in [Instances -> Seq(Closures)]
      /\ loop'[i] = Append(loop[i], Announcing(Parcel(task), {}))
      /\ \A j \in Instances : j # i => loop'[j] = loop[j]
      /\ tasks' = tasks
  BY <1>3, <1>4, Finishing
<1>6. UNCHANGED <<dbVars, got, uploads, wire, log, dropped, budget>>
  BY DEF FinishSending
<1>7. TypeOK'
  BY <1>5, <1>6 DEF TypeOK, dbVars
<1>8. HandsOver(i, w) /\ blobs' = blobs
  BY <1>4, <1>5, <1>6 DEF HandsOver, dbVars
<1> QED BY <1>1, <1>7, <1>8

LEMMA Removing ==
  ASSUME TypeOK, Stored, NEW i \in Instances, NEW w \in Workers, RemoveBlob(i, w)
  PROVE  LET task == running[i][w] IN
         /\ TypeOK'
         /\ task \in Deletions /\ Cleaning(task) /\ HandsOver(i, w)
         /\ blobs' = blobs \ {rows[task.message].file}
<1> DEFINE task == running[i][w]
<1>1. task \in Deletions /\ Cleaning(task)
  <2>1. task.op = "delete" /\ task.at = "blob"
    BY DEF RemoveBlob, ExecutesAt
  <2> QED BY <2>1, TaskForms DEF TypeOK, Cleaning
<1>2. Parcel(task) \in Seq(Frames) /\ Parcel(task) = <<Change(task.change)>>
  BY <1>1, Parcels
<1>3. FinishWith(i, w, Announcing(Parcel(task), {})) /\ blobs' = blobs \ {rows[task.message].file}
  BY <1>2 DEF RemoveBlob
<1>4. Announcing(Parcel(task), {}) \in Closures
  BY <1>2, Announcements
<1>5. /\ running' \in [Instances -> [Workers -> Tasks \cup {Idle}]]
      /\ running'[i][w] = Idle
      /\ \A j \in Instances, v \in Workers :
           ~(j = i /\ v = w) => running'[j][v] = running[j][v]
      /\ loop' \in [Instances -> Seq(Closures)]
      /\ loop'[i] = Append(loop[i], Announcing(Parcel(task), {}))
      /\ \A j \in Instances : j # i => loop'[j] = loop[j]
      /\ tasks' = tasks
  BY <1>3, <1>4, Finishing
<1>6. UNCHANGED <<rows, reactions, mentions, notes, readState, channel, serverArchived,
                  roles, ranks, got, uploads, wire, log, dropped, budget>>
  BY DEF RemoveBlob
<1>7. TypeOK'
  BY <1>3, <1>5, <1>6 DEF TypeOK
<1>8. HandsOver(i, w)
  BY <1>4, <1>5, <1>6 DEF HandsOver
<1> QED BY <1>1, <1>3, <1>7, <1>8

LEMMA Assembling ==
  ASSUME TypeOK, NEW i \in Instances, NEW w \in Workers, Assemble(i, w)
  PROVE  LET task == running[i][w]  next == running'[i][w] IN
         /\ TypeOK'
         /\ task \in Completions /\ next \in Completions
         /\ task.at = "assemble" /\ next.at = "insert" /\ next.file = task.file
         /\ \A j \in Instances, v \in Workers :
              ~(j = i /\ v = w) => running'[j][v] = running[j][v]
         /\ blobs' = blobs \cup {task.file}
         /\ UNCHANGED <<tasks, loop, rows, reactions, mentions, notes, readState, channel,
                        serverArchived, roles, ranks, got, uploads, wire, log, dropped, budget>>
<1> DEFINE task == running[i][w]  next == [task EXCEPT !.at = "insert"]
<1>1. task \in Completions /\ task.at = "assemble"
  <2>1. task.op = "upload" /\ task.at = "assemble"
    BY DEF Assemble, ExecutesAt
  <2> QED BY <2>1, TaskForms DEF TypeOK
<1>2. next \in Completions /\ next.at = "insert" /\ next.file = task.file
  BY <1>1 DEF Completions
<1>3. next \in Tasks /\ task.file \in Uploads
  BY <1>1, <1>2 DEF Tasks, Completions
<1>4. /\ running' = [running EXCEPT ![i][w] = next]
      /\ blobs' = blobs \cup {task.file}
      /\ UNCHANGED <<tasks, loop, rows, reactions, mentions, notes, readState, channel,
                     serverArchived, roles, ranks, got, uploads, wire, log, dropped, budget>>
  BY DEF Assemble, Advance, Goto
<1> HIDE DEF next
<1>5. /\ running' \in [Instances -> [Workers -> Tasks \cup {Idle}]]
      /\ running'[i][w] = next
      /\ \A j \in Instances, v \in Workers :
           ~(j = i /\ v = w) => running'[j][v] = running[j][v]
  BY ZenonT(60), <1>3, <1>4, Worked
<1>6. TypeOK'
  BY <1>3, <1>4, <1>5 DEF TypeOK
<1> QED BY <1>1, <1>2, <1>4, <1>5, <1>6

LEMMA Marking ==
  ASSUME TypeOK, Stored, NEW i \in Instances, NEW w \in Workers, DeleteRow(i, w)
  PROVE  LET task == running[i][w]  next == running'[i][w] IN
         /\ TypeOK'
         /\ task \in Deletions /\ next \in Deletions /\ ~Cleaning(task) /\ Cleaning(next)
         /\ next.message = task.message /\ next.change = Len(log) + 1
         /\ task.message \in DOMAIN rows /\ task.message \in Nat \ {0}
         /\ \A j \in Instances, v \in Workers :
              ~(j = i /\ v = w) => running'[j][v] = running[j][v]
         /\ DOMAIN rows' = DOMAIN rows /\ rows'[task.message].deleted
         /\ \A m \in DOMAIN rows :
              /\ rows'[m].author = rows[m].author /\ rows'[m].tokens = rows[m].tokens
              /\ rows'[m].reply = rows[m].reply /\ rows'[m].file = rows[m].file
         /\ \A m \in DOMAIN rows : m # task.message => rows'[m] = rows[m]
         /\ Log("deleted", task.message, task.user)
         /\ UNCHANGED <<tasks, loop, reactions, mentions, notes, readState, channel,
                        serverArchived, roles, ranks, blobs, got, uploads, wire, dropped, budget>>
<1> DEFINE task == running[i][w]  m == task.message
           next == [task EXCEPT !.at = "blob", !.change = Next1(log)]
           row == [rows[m] EXCEPT !.text = "", !.deleted = TRUE]
<1>1. task \in Deletions /\ ~Cleaning(task)
  <2>1. task.op = "delete" /\ task.at \in {"own", "admin"}
    BY DEF DeleteRow, ExecutesAt
  <2> QED BY <2>1, TaskForms DEF TypeOK, Cleaning
<1>2. m \in DOMAIN rows /\ m \in Nat \ {0} /\ task.user \in Users
  <2>1. m \in DOMAIN rows
    BY <1>1 DEF Stored, Refers, Deletions
  <2> QED BY <1>1, <2>1, Elements DEF TypeOK, Deletions
<1>3. /\ rows' = [rows EXCEPT ![m] = row]
      /\ Log("deleted", m, task.user)
      /\ running' = [running EXCEPT ![i][w] = next]
      /\ UNCHANGED <<tasks, loop, reactions, mentions, notes, readState, channel,
                     serverArchived, roles, ranks, blobs, got, uploads, wire, dropped, budget>>
  BY DEF DeleteRow, Goto
<1>4. \A l \in DOMAIN rows : rows[l] \in Rows
  BY Elements DEF TypeOK
<1>5. row \in Rows /\ row.deleted
      /\ row.author = rows[m].author /\ row.tokens = rows[m].tokens
      /\ row.reply = rows[m].reply /\ row.file = rows[m].file
  BY <1>2, <1>4 DEF Rows
<1>6. /\ rows' \in Seq(Rows) /\ DOMAIN rows' = DOMAIN rows /\ rows'[m] = row
      /\ \A l \in DOMAIN rows : l # m => rows'[l] = rows[l]
  <2> HIDE DEF row, m
  <2> QED BY <1>2, <1>3, <1>5, Replaced DEF TypeOK
<1>7. \A l \in DOMAIN rows :
        /\ rows'[l].author = rows[l].author /\ rows'[l].tokens = rows[l].tokens
        /\ rows'[l].reply = rows[l].reply /\ rows'[l].file = rows[l].file
  <2> HIDE DEF row, m
  <2> QED BY <1>5, <1>6
<1>8. log' \in Seq(Changes) /\ Len(log) \in Nat /\ Next1(log) = Len(log) + 1
  <2>1. "deleted" \in {"new", "edited", "deleted", "reacted", "unreacted", "read"}
    OBVIOUS
  <2> HIDE DEF m
  <2> QED BY <1>2, <1>3, <2>1, Logging
<1>9. next \in Deletions
  <2>1. Next1(log) \in Nat
    BY <1>8
  <2> QED BY <1>1, <2>1 DEF Deletions
<1>10. Cleaning(next) /\ next.message = m /\ next.change = Len(log) + 1
  BY <1>1, <1>8 DEF Deletions, Cleaning
<1>11. next \in Tasks
  BY <1>9 DEF Tasks
<1> HIDE DEF next
<1>12. /\ running' \in [Instances -> [Workers -> Tasks \cup {Idle}]]
       /\ running'[i][w] = next
       /\ \A j \in Instances, v \in Workers :
            ~(j = i /\ v = w) => running'[j][v] = running[j][v]
  BY ZenonT(60), <1>3, <1>11, Worked
<1>13. TypeOK'
  BY <1>3, <1>6, <1>8, <1>12 DEF TypeOK
<1>14. rows'[m].deleted
  BY <1>5, <1>6
<1> QED BY <1>1, <1>2, <1>3, <1>6, <1>7, <1>9, <1>10, <1>12, <1>13, <1>14

-----------------------------------------------------------------------------
(* What the loops do *)

LEMMA Dequeuing ==
  ASSUME TypeOK, NEW i \in Instances, NEW w \in Workers, Dequeue(i, w)
  PROVE  /\ TypeOK'
         /\ running[i][w] = Idle /\ 1 \in DOMAIN tasks[i] /\ running'[i][w] = tasks[i][1]
         /\ running'[i][w] \in Tasks
         /\ \A j \in Instances, v \in Workers :
              ~(j = i /\ v = w) => running'[j][v] = running[j][v]
         /\ \A k \in DOMAIN tasks'[i] : k + 1 \in DOMAIN tasks[i]
                                        /\ tasks'[i][k] = tasks[i][k + 1] /\ k + 1 # 1
         /\ \A j \in Instances : j # i => tasks'[j] = tasks[j]
         /\ UNCHANGED <<dbVars, loop, got, uploads, wire, log, dropped, budget>>
<1>1. /\ running[i][w] = Idle /\ tasks[i] # <<>>
      /\ running' = [running EXCEPT ![i][w] = Head(tasks[i])]
      /\ tasks' = [tasks EXCEPT ![i] = Tail(@)]
      /\ UNCHANGED <<dbVars, loop, got, uploads, wire, log, dropped, budget>>
  BY DEF Dequeue
<1>2. tasks \in [Instances -> Seq(Tasks)] /\ tasks[i] \in Seq(Tasks)
  BY DEF TypeOK
<1>3. /\ Head(tasks[i]) \in Tasks /\ 1 \in DOMAIN tasks[i] /\ Head(tasks[i]) = tasks[i][1]
      /\ \A k \in DOMAIN Tail(tasks[i]) :
           k + 1 \in DOMAIN tasks[i] /\ Tail(tasks[i])[k] = tasks[i][k + 1] /\ k + 1 # 1
  BY <1>1, <1>2, Rest
<1>4. /\ tasks' \in [Instances -> Seq(Tasks)] /\ tasks'[i] = Tail(tasks[i])
      /\ \A j \in Instances : j # i => tasks'[j] = tasks[j]
  BY <1>1, <1>2, Leaves
<1>5. PICK task \in Tasks \cup {Idle} : task = Head(tasks[i])
  BY <1>3
<1>6. /\ running' \in [Instances -> [Workers -> Tasks \cup {Idle}]]
      /\ running'[i][w] = Head(tasks[i])
      /\ \A j \in Instances, v \in Workers :
           ~(j = i /\ v = w) => running'[j][v] = running[j][v]
  <2>1. running' = [running EXCEPT ![i][w] = task]
    BY <1>1, <1>5
  <2>2. /\ running' \in [Instances -> [Workers -> Tasks \cup {Idle}]]
        /\ running'[i][w] = task
        /\ \A j \in Instances, v \in Workers :
             ~(j = i /\ v = w) => running'[j][v] = running[j][v]
    <3>1. task \in Tasks \cup {Idle}
      BY <1>5
    <3> QED BY ZenonT(60), <2>1, <3>1, Worked
  <2> QED BY <1>5, <2>2
<1>7. TypeOK'
  BY <1>1, <1>4, <1>6 DEF TypeOK, dbVars
<1> QED BY <1>1, <1>3, <1>4, <1>6, <1>7

\* The tabs of an instance that a frame is for have it once more.
LEMMA FanningOut ==
  ASSUME TypeOK, NEW i \in Instances, NEW frames, NEW except, FanOut(i, frames, except)
  PROVE  /\ got' \in [Tabs -> [Frames -> Nat]]
         /\ \A t \in Tabs, f \in Frames :
              got'[t][f] = IF HomeOf[t] = i /\ f \in ToSet(frames) /\ IsFor(f, t)
                                /\ UserOf[t] \notin except
                           THEN got[t][f] + 1 ELSE got[t][f]
  BY DEF TypeOK, FanOut

\* A closure leaves the loop, and is fanned out and published.
Broadcasts(i, except) ==
  /\ loop[i] # <<>> /\ loop' = [loop EXCEPT ![i] = Tail(@)]
  /\ FanOut(i, Head(loop[i]).frames, except)
  /\ Publish(i, Head(loop[i]).frames)
  /\ UNCHANGED <<dbVars, tasks, running, uploads, log, dropped, budget>>

\* A closure leaves the loop in vain.
Skips(i) ==
  /\ loop[i] # <<>> /\ loop' = [loop EXCEPT ![i] = Tail(@)]
  /\ UNCHANGED <<dbVars, tasks, running, got, uploads, wire, log, dropped, budget>>

LEMMA HeadOfLoop ==
  ASSUME TypeOK, NEW i \in Instances, loop[i] # <<>>
  PROVE  /\ loop[i] \in Seq(Closures) /\ 1 \in DOMAIN loop[i]
         /\ Head(loop[i]) = loop[i][1] /\ loop[i][1] \in Closures
         /\ loop[i][1].frames \in Seq(Frames)
<1>1. loop[i] \in Seq(Closures)
  BY DEF TypeOK
<1>2. 1 \in DOMAIN loop[i] /\ Head(loop[i]) = loop[i][1] /\ loop[i][1] \in Closures
  BY <1>1, Rest
<1> QED BY <1>1, <1>2 DEF Closures

LEMMA RunningLoop ==
  ASSUME NEW i \in Instances, LoopStep(i)
  PROVE  \/ Head(loop[i]).do = "announce" /\ Broadcasts(i, Head(loop[i]).except)
         \/ Head(loop[i]).do = "uploaded" /\ (Broadcasts(i, {}) \/ Skips(i))
  BY DEF LoopStep, RunAnnounce, RunUploaded, Runs, RunsHead, Broadcasts, Skips

\* What is published reaches every wire, each frame once.
LEMMA Publishing ==
  ASSUME TypeOK, NEW i \in Instances, NEW frames \in Seq(Frames), Publish(i, frames)
  PROVE  /\ wire' \in [Instances -> Seq([from : Instances, frame : Frames])]
         /\ \A j \in Instances :
              /\ \A k \in DOMAIN wire[j] : k \in DOMAIN wire'[j] /\ wire'[j][k] = wire[j][k]
              /\ \A k \in DOMAIN wire'[j] \ DOMAIN wire[j] :
                   /\ k - Len(wire[j]) \in DOMAIN frames
                   /\ wire'[j][k] = [from |-> i, frame |-> frames[k - Len(wire[j])]]
              /\ \A k \in DOMAIN frames :
                   /\ k + Len(wire[j]) \in DOMAIN wire'[j]
                   /\ wire'[j][k + Len(wire[j])] = [from |-> i, frame |-> frames[k]]
              /\ Len(wire[j]) \in Nat /\ DOMAIN wire'[j] \subseteq Nat
<1> DEFINE S == [from : Instances, frame : Frames]
           sent == [k \in DOMAIN frames |-> [from |-> i, frame |-> frames[k]]]
<1>1. sent \in Seq(S) /\ DOMAIN sent = DOMAIN frames
  <2>1. DOMAIN frames = 1 .. Len(frames) /\ Len(frames) \in Nat
        /\ \A k \in DOMAIN frames : frames[k] \in Frames
    BY Elements
  <2>2. sent \in [1 .. Len(frames) -> S]
    BY <2>1
  <2> QED BY <2>1, <2>2
<1>2. \A k \in DOMAIN frames : sent[k] = [from |-> i, frame |-> frames[k]]
  OBVIOUS
<1>3. wire' = [j \in Instances |-> wire[j] \o sent]
  BY DEF Publish
<1>4. \A j \in Instances : wire[j] \in Seq(S)
  BY DEF TypeOK
<1> HIDE DEF sent, S
<1>5. ASSUME NEW j \in Instances
      PROVE  /\ wire'[j] = wire[j] \o sent /\ wire'[j] \in Seq(S)
             /\ \A k \in DOMAIN wire[j] : k \in DOMAIN wire'[j] /\ wire'[j][k] = wire[j][k]
             /\ \A k \in DOMAIN wire'[j] \ DOMAIN wire[j] :
                  /\ k - Len(wire[j]) \in DOMAIN sent
                  /\ wire'[j][k] = sent[k - Len(wire[j])]
             /\ \A k \in DOMAIN sent :
                  /\ k + Len(wire[j]) \in DOMAIN wire'[j]
                  /\ wire'[j][k + Len(wire[j])] = sent[k]
             /\ Len(wire[j]) \in Nat /\ DOMAIN wire'[j] \subseteq Nat
  <2>1. wire'[j] = wire[j] \o sent
    BY <1>3
  <2>2. Len(wire[j]) \in Nat /\ Len(sent) \in Nat /\ DOMAIN wire[j] = 1 .. Len(wire[j])
    BY <1>1, <1>4
  <2> QED BY <1>1, <1>4, <2>1, <2>2, Joined
<1>6. wire' \in [Instances -> Seq(S)]
  BY <1>3, <1>5
<1>7. ASSUME NEW j \in Instances
      PROVE  /\ \A k \in DOMAIN wire'[j] \ DOMAIN wire[j] :
                  /\ k - Len(wire[j]) \in DOMAIN frames
                  /\ wire'[j][k] = [from |-> i, frame |-> frames[k - Len(wire[j])]]
             /\ \A k \in DOMAIN frames :
                  /\ k + Len(wire[j]) \in DOMAIN wire'[j]
                  /\ wire'[j][k + Len(wire[j])] = [from |-> i, frame |-> frames[k]]
  BY SMTT(60), <1>1, <1>2, <1>5
<1>8. wire' \in [Instances -> Seq([from : Instances, frame : Frames])]
  BY <1>6 DEF S
<1> QED BY <1>5, <1>7, <1>8

LEMMA Broadcasting ==
  ASSUME TypeOK, NEW i \in Instances, NEW except, Broadcasts(i, except)
  PROVE  TypeOK'
<1>1. Head(loop[i]).frames \in Seq(Frames)
  BY HeadOfLoop DEF Broadcasts
<1>2. wire' \in [Instances -> Seq([from : Instances, frame : Frames])]
  BY <1>1, Publishing DEF Broadcasts
<1>3. got' \in [Tabs -> [Frames -> Nat]]
  BY FanningOut DEF Broadcasts
<1>4. loop \in [Instances -> Seq(Closures)] /\ loop' = [loop EXCEPT ![i] = Tail(@)]
      /\ loop[i] # <<>>
  BY DEF TypeOK, Broadcasts
<1>5. loop' \in [Instances -> Seq(Closures)]
  BY <1>4, Leaves
<1> QED BY <1>2, <1>3, <1>5 DEF TypeOK, Broadcasts, dbVars

LEMMA Skipping ==
  ASSUME TypeOK, NEW i \in Instances, Skips(i)
  PROVE  TypeOK'
<1>1. loop \in [Instances -> Seq(Closures)] /\ loop' = [loop EXCEPT ![i] = Tail(@)]
      /\ loop[i] # <<>>
  BY DEF TypeOK, Skips
<1>2. loop' \in [Instances -> Seq(Closures)]
  BY <1>1, Leaves
<1> QED BY <1>2 DEF TypeOK, Skips, dbVars

\* The wire of an instance gets shorter.
LEMMA Receiving ==
  ASSUME TypeOK, NEW i \in Instances, Receive(i)
  PROVE  /\ TypeOK'
         /\ wire[i] # <<>> /\ 1 \in DOMAIN wire[i]
         /\ wire[i][1] \in [from : Instances, frame : Frames]
         /\ \A k \in DOMAIN wire'[i] :
              k + 1 \in DOMAIN wire[i] /\ wire'[i][k] = wire[i][k + 1] /\ k + 1 # 1
         /\ \A k \in DOMAIN wire[i] :
              k = 1 \/ (k - 1 \in DOMAIN wire'[i] /\ wire'[i][k - 1] = wire[i][k])
         /\ \A j \in Instances : j # i => wire'[j] = wire[j]
         /\ IF wire[i][1].from = i THEN got' = got
            ELSE \A t \in Tabs, f \in Frames :
                   got'[t][f] = IF HomeOf[t] = i /\ f = wire[i][1].frame /\ IsFor(f, t)
                                THEN got[t][f] + 1 ELSE got[t][f]
         /\ UNCHANGED <<dbVars, threadVars, uploads, log, dropped, budget>>
<1>1. /\ wire[i] # <<>> /\ wire' = [wire EXCEPT ![i] = Tail(@)]
      /\ IF Head(wire[i]).from = i THEN UNCHANGED got
         ELSE FanOut(i, <<Head(wire[i]).frame>>, {})
      /\ UNCHANGED <<dbVars, threadVars, uploads, log, dropped, budget>>
  BY DEF Receive
<1>2. wire \in [Instances -> Seq([from : Instances, frame : Frames])]
      /\ wire[i] \in Seq([from : Instances, frame : Frames])
  BY DEF TypeOK
<1>3. /\ Head(wire[i]) \in [from : Instances, frame : Frames]
      /\ 1 \in DOMAIN wire[i] /\ Head(wire[i]) = wire[i][1]
      /\ \A k \in DOMAIN Tail(wire[i]) :
           k + 1 \in DOMAIN wire[i] /\ Tail(wire[i])[k] = wire[i][k + 1] /\ k + 1 # 1
      /\ \A k \in DOMAIN wire[i] :
           k = 1 \/ (k - 1 \in DOMAIN Tail(wire[i]) /\ Tail(wire[i])[k - 1] = wire[i][k])
  BY <1>1, <1>2, Rest
<1>4. /\ wire' \in [Instances -> Seq([from : Instances, frame : Frames])]
      /\ wire'[i] = Tail(wire[i])
      /\ \A j \in Instances : j # i => wire'[j] = wire[j]
  BY <1>1, <1>2, Leaves
<1>5. CASE wire[i][1].from = i
  <2>1. got' = got
    BY <1>1, <1>3, <1>5
  <2>2. TypeOK'
    BY <1>1, <1>4, <2>1 DEF TypeOK, dbVars, threadVars
  <2> QED BY <1>1, <1>3, <1>4, <1>5, <2>1, <2>2
<1>6. CASE wire[i][1].from # i
  <2>1. FanOut(i, <<wire[i][1].frame>>, {})
    BY <1>1, <1>3, <1>6
  <2>2. /\ got' \in [Tabs -> [Frames -> Nat]]
        /\ \A t \in Tabs, f \in Frames :
             got'[t][f] = IF HomeOf[t] = i /\ f \in ToSet(<<wire[i][1].frame>>) /\ IsFor(f, t)
                               /\ UserOf[t] \notin {}
                          THEN got[t][f] + 1 ELSE got[t][f]
    BY <2>1, FanningOut
  <2>3. \A f : f \in ToSet(<<wire[i][1].frame>>) <=> f = wire[i][1].frame
    BY DEF ToSet
  <2>4. TypeOK'
    BY <1>1, <1>4, <2>2 DEF TypeOK, dbVars, threadVars
  <2>5. \A t \in Tabs, f \in Frames :
          got'[t][f] = IF HomeOf[t] = i /\ f = wire[i][1].frame /\ IsFor(f, t)
                       THEN got[t][f] + 1 ELSE got[t][f]
    BY <2>2, <2>3
  <2> QED BY <1>1, <1>3, <1>4, <1>6, <2>4, <2>5
<1> QED BY <1>5, <1>6

LEMMA Losing ==
  ASSUME TypeOK, NEW i \in Instances, Lose(i)
  PROVE  /\ TypeOK' /\ dropped'
         /\ wire'[i] = <<>> /\ \A j \in Instances : j # i => wire'[j] = wire[j]
         /\ UNCHANGED <<dbVars, threadVars, got, uploads, log>>
<1>1. wire' = [wire EXCEPT ![i] = <<>>] /\ dropped' = TRUE /\ Spend("loss")
      /\ UNCHANGED <<dbVars, threadVars, got, uploads, log>>
  BY DEF Lose
<1>2. budget' \in [Kinds -> Nat]
  BY SMTT(60), <1>1 DEF TypeOK, Spend, Kinds
<1>3. wire' \in [Instances -> Seq([from : Instances, frame : Frames])]
      /\ wire'[i] = <<>> /\ \A j \in Instances : j # i => wire'[j] = wire[j]
  <2>1. <<>> \in Seq([from : Instances, frame : Frames])
    OBVIOUS
  <2> QED BY <1>1, <2>1 DEF TypeOK
<1> QED BY <1>1, <1>2, <1>3 DEF TypeOK, dbVars, threadVars

-----------------------------------------------------------------------------
(* Every step is of a known kind and keeps the types *)

Works(i, w) == Dequeue(i, w) \/ Checked(i, w) \/ Touched(i, w) \/ WorkerWrites(i, w)

LEMMA WritesTyped ==
  ASSUME TypeOK, Stored, NEW i \in Instances, NEW w \in Workers, WorkerWrites(i, w)
  PROVE  TypeOK'
  BY Creating, Storing, Notifying, EndingSend, Assembling, CreatingFile, Marking, Removing
     DEF WorkerWrites

LEMMA Working ==
  ASSUME TypeOK, Stored, NEW i \in Instances, NEW w \in Workers, WorkerStep(i, w)
  PROVE  Works(i, w) /\ TypeOK'
<1>1. CASE Dequeue(i, w)
  BY <1>1, Dequeuing DEF Works
<1>2. CASE Checks(i, w)
  BY <1>2, Checking DEF Works
<1>3. CASE Touches(i, w)
  BY <1>3, Touching DEF Works
<1>4. CASE WorkerWrites(i, w)
  BY <1>4, WritesTyped DEF Works
<1>5. EditMessage(i, w) => Checks(i, w) \/ Touches(i, w)
  BY DEF Checks, Touches
<1> QED
  BY <1>1, <1>2, <1>3, <1>4, <1>5 DEF WorkerStep, Checks, Touches, WorkerWrites

LEMMA Looping ==
  ASSUME TypeOK, NEW i \in Instances, LoopStep(i)
  PROVE  TypeOK'
<1>1. PICK except : Broadcasts(i, except) \/ Skips(i)
  BY RunningLoop
<1> QED BY <1>1, Broadcasting, Skipping

\* What happens in a step.
KnownStep ==
  \/ Requested \/ Elsewhere \/ UNCHANGED vars
  \/ \E i \in Instances :
       (\E w \in Workers : Works(i, w)) \/ LoopStep(i) \/ Receive(i) \/ Lose(i)

LEMMA StepKinds ==
  ASSUME TypeOK, Stored, [Next]_vars
  PROVE  KnownStep /\ TypeOK'
<1>1. CASE ClientStep
  <2>1. ASSUME NEW t \in channel.tabs,
               WriteSocket(t) \/ \E f \in Uploads : CompleteUpload(t, f)
        PROVE  Requested /\ TypeOK'
    <3>1. t \in Tabs
      BY <2>1 DEF TypeOK
    <3> QED BY <2>1, <3>1, Asking
  <2>2. CASE \E f \in Uploads : AbortUpload(f)
    BY <2>2, Around DEF KnownStep
  <2> QED BY <1>1, <2>1, <2>2 DEF ClientStep, KnownStep
<1>2. CASE OtherRequest
  BY <1>2, Around DEF KnownStep
<1>3. ASSUME NEW i \in Instances, NEW w \in Workers, WorkerStep(i, w)
      PROVE  KnownStep /\ TypeOK'
  BY <1>3, Working DEF KnownStep
<1>4. ASSUME NEW i \in Instances, LoopStep(i) \/ Receive(i) \/ Lose(i)
      PROVE  KnownStep /\ TypeOK'
  BY <1>4, Looping, Receiving, Losing DEF KnownStep
<1>5. CASE UNCHANGED vars
  BY <1>5 DEF vars, dbVars, threadVars, TypeOK, KnownStep
<1> QED BY <1>1, <1>2, <1>3, <1>4, <1>5 DEF Next

-----------------------------------------------------------------------------
(* What a task remembers stays true *)

\* A row is marked or edited, or one is appended; a change is appended.
LEMMA Growing ==
  ASSUME TypeOK, Stored, KnownStep
  PROVE  Grows /\ Len(log') <= MaxChanges /\ Len(notes') <= MaxNotes
<1>0. \A l \in DOMAIN rows : rows[l] \in Rows
  BY Elements DEF TypeOK
<1>1. CASE UNCHANGED <<rows, log, notes>>
  BY <1>1 DEF Grows, Stored
<1>2. ASSUME NEW kind, NEW m, NEW u, Log(kind, m, u)
      PROVE  /\ Len(log') <= MaxChanges
             /\ \A n \in DOMAIN log : n \in DOMAIN log' /\ log'[n] = log[n]
  <2>1. log' = Append(log, [kind |-> kind, message |-> m, by |-> u]) /\ Len(log) < MaxChanges
    BY <1>2 DEF Log
  <2> QED BY <2>1, MessagesAssumption DEF TypeOK
<1>3. UNCHANGED notes => \A k \in DOMAIN notes : k \in DOMAIN notes' /\ notes'[k] = notes[k]
  OBVIOUS
<1>4. ASSUME NEW i \in Instances, NEW w \in Workers, Touched(i, w)
      PROVE  Grows /\ Len(log') <= MaxChanges /\ Len(notes') <= MaxNotes
  <2>1. /\ DOMAIN rows' = DOMAIN rows /\ UNCHANGED notes
        /\ \A l \in DOMAIN rows : rows'[l] = [rows[l] EXCEPT !.text = rows'[l].text]
        /\ \E kind, m, u : Log(kind, m, u)
    BY <1>4 DEF Touched
  <2>2. \A l \in DOMAIN rows :
          /\ rows'[l].author = rows[l].author /\ rows'[l].tokens = rows[l].tokens
          /\ rows'[l].reply = rows[l].reply /\ rows'[l].file = rows[l].file
          /\ rows[l].deleted => rows'[l].deleted
    BY ZenonT(60), <1>0, <2>1 DEF Rows
  <2> QED BY <1>2, <1>3, <2>1, <2>2 DEF Grows, Stored
<1>5. ASSUME NEW u \in Users, NEW tokens \in Contents, NEW reply \in Nat,
             NEW file \in Uploads \cup {NoFile}, Insert(u, tokens, reply, file),
             UNCHANGED notes
      PROVE  Grows /\ Len(log') <= MaxChanges /\ Len(notes') <= MaxNotes
  <2>1. /\ \A m \in DOMAIN rows : m \in DOMAIN rows' /\ rows'[m] = rows[m]
        /\ Log("new", Len(rows) + 1, u)
    BY <1>5, Inserting
  <2> QED BY <1>2, <1>3, <1>5, <2>1 DEF Grows, Stored
<1>6. ASSUME NEW i \in Instances, NEW w \in Workers, CreateMessage(i, w)
      PROVE  Grows /\ Len(log') <= MaxChanges /\ Len(notes') <= MaxNotes
  <2>1. running[i][w] \in Sends
        /\ Insert(running[i][w].user, running[i][w].tokens, running[i][w].reply, NoFile)
        /\ UNCHANGED notes
    BY <1>6, Creating
  <2>2. running[i][w].user \in Users /\ running[i][w].tokens \in Contents
        /\ running[i][w].reply \in Nat /\ NoFile \in Uploads \cup {NoFile}
    BY <2>1 DEF Sends
  <2> QED BY <1>5, <2>1, <2>2
<1>7. ASSUME NEW i \in Instances, NEW w \in Workers, CreateFileMessage(i, w)
      PROVE  Grows /\ Len(log') <= MaxChanges /\ Len(notes') <= MaxNotes
  <2>1. running[i][w] \in Completions
        /\ Insert(running[i][w].user, <<>>, 0, running[i][w].file)
        /\ UNCHANGED notes
    BY <1>7, CreatingFile
  <2>2. running[i][w].user \in Users /\ <<>> \in Contents /\ 0 \in Nat
        /\ running[i][w].file \in Uploads \cup {NoFile}
    BY <2>1 DEF Completions, Contents
  <2> QED BY <1>5, <2>1, <2>2
<1>8. ASSUME NEW i \in Instances, NEW w \in Workers, DeleteRow(i, w)
      PROVE  Grows /\ Len(log') <= MaxChanges /\ Len(notes') <= MaxNotes
  <2> DEFINE m == running[i][w].message
  <2>1. /\ DOMAIN rows' = DOMAIN rows /\ rows'[m].deleted /\ UNCHANGED notes
        /\ \A l \in DOMAIN rows :
             /\ rows'[l].author = rows[l].author /\ rows'[l].tokens = rows[l].tokens
             /\ rows'[l].reply = rows[l].reply /\ rows'[l].file = rows[l].file
        /\ \A l \in DOMAIN rows : l # m => rows'[l] = rows[l]
        /\ Log("deleted", m, running[i][w].user)
    BY <1>8, Marking
  <2>2. \A l \in DOMAIN rows : rows[l].deleted => rows'[l].deleted
    BY <2>1
  <2> QED BY <1>2, <1>3, <2>1, <2>2 DEF Grows, Stored
<1>9. ASSUME NEW i \in Instances, NEW w \in Workers, Notify(i, w)
      PROVE  Grows /\ Len(log') <= MaxChanges /\ Len(notes') <= MaxNotes
  <2>1. /\ \A k \in DOMAIN notes : k \in DOMAIN notes' /\ notes'[k] = notes[k]
        /\ Len(notes') <= MaxNotes /\ UNCHANGED <<rows, log>>
    BY <1>9, Notifying
  <2> QED BY <2>1 DEF Grows, Stored
<1>10. ASSUME NEW i \in Instances, NEW w \in Workers, WorkerWrites(i, w)
       PROVE  Grows /\ Len(log') <= MaxChanges /\ Len(notes') <= MaxNotes
  <2>1. StoreMentions(i, w) \/ FinishSending(i, w) \/ Assemble(i, w) \/ RemoveBlob(i, w)
          => UNCHANGED <<rows, log, notes>>
    BY DEF StoreMentions, FinishSending, Assemble, RemoveBlob, dbVars
  <2> QED BY <1>1, <1>6, <1>7, <1>8, <1>9, <1>10, <2>1 DEF WorkerWrites
<1>11. ASSUME NEW i \in Instances, NEW w \in Workers, Works(i, w)
       PROVE  Grows /\ Len(log') <= MaxChanges /\ Len(notes') <= MaxNotes
  BY <1>1, <1>4, <1>10, <1>11 DEF Works, Dequeue, Checked, dbVars
<1>12. \A i \in Instances : LoopStep(i) \/ Receive(i) \/ Lose(i) => UNCHANGED <<rows, log, notes>>
  BY DEF LoopStep, RunAnnounce, RunUploaded, Receive, Lose, dbVars
<1>13. Requested \/ Elsewhere \/ UNCHANGED vars => UNCHANGED <<rows, log, notes>>
  BY DEF Requested, Elsewhere, vars, dbVars
<1> QED BY <1>1, <1>11, <1>12, <1>13 DEF KnownStep

LEMMA RefersStays ==
  ASSUME TypeOK, TypeOK', Grows, NEW task, Refers(task)
  PROVE  Refers(task)'
<1>1. Len(rows) <= Len(rows') /\ Len(rows) \in Nat /\ Len(rows') \in Nat
  <2>1. rows \in Seq(Rows) /\ rows' \in Seq(Rows)
    BY DEF TypeOK
  <2>2. DOMAIN rows \subseteq DOMAIN rows'
    BY DEF Grows
  <2>3. DOMAIN rows = 1 .. Len(rows) /\ DOMAIN rows' = 1 .. Len(rows')
        /\ Len(rows) \in Nat /\ Len(rows') \in Nat
    BY <2>1
  <2>4. CASE Len(rows) = 0
    BY <2>3, <2>4
  <2>5. CASE Len(rows) # 0
    <3>1. Len(rows) \in DOMAIN rows'
      BY <2>2, <2>3, <2>5
    <3> QED BY <2>3, <3>1
  <2> QED BY <2>4, <2>5
<1>2. \A r \in 0 .. Len(rows) : r \in 0 .. Len(rows')
  BY <1>1
<1> QED BY <1>2 DEF Refers, Grows, Posted, Cleaning

LEMMA StoredStays ==
  ASSUME TypeOK, TypeOK', Stored, Grows, Len(log') <= MaxChanges, Len(notes') <= MaxNotes,
         \A j \in Instances : \A k \in DOMAIN tasks'[j] :
           \/ \E l \in DOMAIN tasks[j] : tasks'[j][k] = tasks[j][l]
           \/ Begins(tasks[j][k])' /\ Refers(tasks[j][k])',
         \A j \in Instances, v \in Workers :
           running'[j][v] = running[j][v] \/ Refers(running[j][v])'
  PROVE  Stored'
<1>1. ASSUME NEW j \in Instances, NEW k \in DOMAIN tasks'[j]
      PROVE  Begins(tasks[j][k])' /\ Refers(tasks[j][k])'
  <2>1. CASE \E l \in DOMAIN tasks[j] : tasks'[j][k] = tasks[j][l]
    <3>1. PICK l \in DOMAIN tasks[j] : tasks'[j][k] = tasks[j][l]
      BY <2>1
    <3>2. PICK task : task = tasks[j][l]
      OBVIOUS
    <3>3. Begins(task) /\ Refers(task)
      BY <3>2 DEF Stored
    <3>4. Refers(task)' /\ task = tasks'[j][k]
      BY <3>1, <3>2, <3>3, RefersStays
    <3> QED BY <3>3, <3>4 DEF Refers, Begins
  <2> QED BY <2>1
<1>2. ASSUME NEW j \in Instances, NEW v \in Workers
      PROVE  Refers(running[j][v])'
  <2>1. CASE running'[j][v] = running[j][v]
    <3>1. PICK task : task = running[j][v]
      OBVIOUS
    <3>2. Refers(task)
      BY <3>1 DEF Stored
    <3>3. Refers(task)' /\ task = running'[j][v]
      BY <2>1, <3>1, <3>2, RefersStays
    <3> QED BY <3>3 DEF Refers
  <2> QED BY <2>1
<1> QED BY <1>1, <1>2 DEF Stored

LEMMA StoredStep ==
  ASSUME TypeOK, TypeOK', Stored, KnownStep
  PROVE  Stored'
<1>1. Grows /\ Len(log') <= MaxChanges /\ Len(notes') <= MaxNotes
  BY Growing
<1> DEFINE QueuesKept == \A j \in Instances : \A k \in DOMAIN tasks'[j] :
             \/ \E l \in DOMAIN tasks[j] : tasks'[j][k] = tasks[j][l]
             \/ Begins(tasks[j][k])' /\ Refers(tasks[j][k])'
           WorkersKept == \A j \in Instances, v \in Workers :
             running'[j][v] = running[j][v] \/ Refers(running[j][v])'
<1>2. ASSUME QueuesKept, WorkersKept PROVE Stored'
  BY <1>1, <1>2, StoredStays
<1>3. UNCHANGED tasks => QueuesKept
  OBVIOUS
<1>4. UNCHANGED running => WorkersKept
  OBVIOUS
<1>5. CASE Requested
  <2>1. PICK i \in Instances, task \in Tasks :
          Begins(task) /\ Refers(task) /\ tasks' = [tasks EXCEPT ![i] = Append(@, task)]
          /\ running' = running
    BY <1>5 DEF Requested, Submit
  <2>2. Refers(task)' /\ Begins(task)'
    BY <1>1, <2>1, RefersStays DEF Begins
  <2>3. tasks \in [Instances -> Seq(Tasks)]
    BY DEF TypeOK
  <2>4. /\ tasks'[i] = Append(tasks[i], task)
        /\ \A j \in Instances : j # i => tasks'[j] = tasks[j]
    BY <2>1, <2>3, Joins
  <2>5. ASSUME NEW j \in Instances, NEW k \in DOMAIN tasks'[j]
        PROVE  \/ \E l \in DOMAIN tasks[j] : tasks'[j][k] = tasks[j][l]
               \/ Begins(tasks[j][k])' /\ Refers(tasks[j][k])'
    <3>1. CASE j # i
      BY <2>4, <3>1
    <3>2. CASE j = i
      <4>1. /\ DOMAIN tasks'[i] = DOMAIN tasks[i] \cup {Len(tasks[i]) + 1}
            /\ \A l \in DOMAIN tasks[i] : tasks'[i][l] = tasks[i][l]
            /\ tasks'[i][Len(tasks[i]) + 1] = task
        BY <2>3, <2>4, Longer
      <4>2. CASE k \in DOMAIN tasks[i]
        BY <3>2, <4>1, <4>2
      <4>3. CASE k = Len(tasks[i]) + 1
        <5>1. tasks'[j][k] = task
          BY <3>2, <4>1, <4>3
        <5> QED BY <2>2, <5>1 DEF Begins, Refers
      <4> QED BY <3>2, <4>1, <4>2, <4>3
    <3> QED BY <3>1, <3>2
  <2> QED BY <1>2, <1>4, <2>1, <2>5
<1>6. ASSUME NEW i \in Instances, NEW w \in Workers, Dequeue(i, w) PROVE Stored'
  <2>1. /\ 1 \in DOMAIN tasks[i] /\ running'[i][w] = tasks[i][1]
        /\ \A j \in Instances, v \in Workers :
             ~(j = i /\ v = w) => running'[j][v] = running[j][v]
        /\ \A k \in DOMAIN tasks'[i] : k + 1 \in DOMAIN tasks[i]
                                       /\ tasks'[i][k] = tasks[i][k + 1] /\ k + 1 # 1
        /\ \A j \in Instances : j # i => tasks'[j] = tasks[j]
    BY <1>6, Dequeuing
  <2>2. QueuesKept
    BY <2>1
  <2>3. PICK task : task = tasks[i][1]
    OBVIOUS
  <2>4. Refers(task)
    BY <2>1, <2>3 DEF Stored
  <2>5. Refers(task)' /\ task = running'[i][w]
    BY <1>1, <2>1, <2>3, <2>4, RefersStays
  <2>6. Refers(running[i][w])'
    BY <2>5 DEF Refers
  <2> QED BY <1>2, <2>1, <2>2, <2>6
<1>7. ASSUME NEW i \in Instances, NEW w \in Workers, UNCHANGED tasks,
             \A j \in Instances, v \in Workers :
               ~(j = i /\ v = w) => running'[j][v] = running[j][v],
             Refers(running[i][w])'
      PROVE  Stored'
  BY <1>2, <1>3, <1>7
<1>8. \A task : task = Idle => Refers(task)'
  BY DEF Refers, Idle, Posted, Cleaning
<1>9. ASSUME NEW i \in Instances, NEW w \in Workers, UNCHANGED tasks,
             \A j \in Instances, v \in Workers :
               ~(j = i /\ v = w) => running'[j][v] = running[j][v],
             running'[i][w] = Idle
      PROVE  Stored'
  <2>1. Refers(running[i][w])'
    BY <1>8, <1>9 DEF Refers, Idle, Posted, Cleaning
  <2> QED BY <1>7, <1>9, <2>1
<1>10. ASSUME NEW i \in Instances, NEW w \in Workers, Checked(i, w) PROVE Stored'
  <2>1. PICK task \in Tasks \cup {Idle} :
          /\ running' = [running EXCEPT ![i][w] = task]
          /\ task # Idle => /\ task = [running[i][w] EXCEPT !.at = task.at]
                            /\ ~Posted(task) /\ ~Cleaning(task)
    BY <1>10 DEF Checked
  <2>2. /\ running'[i][w] = task
        /\ \A j \in Instances, v \in Workers :
             ~(j = i /\ v = w) => running'[j][v] = running[j][v]
    <3>1. task \in Tasks \cup {Idle}
      BY <2>1
    <3> QED BY ZenonT(60), <2>1, <3>1, Worked
  <2>3. UNCHANGED <<tasks, rows, log>> /\ ~Posted(running[i][w]) /\ ~Cleaning(running[i][w])
    BY <1>10 DEF Checked, dbVars
  <2>4. CASE task = Idle
    BY <1>9, <2>2, <2>3, <2>4
  <2>5. CASE task # Idle
    <3>1. PICK old \in Tasks \cup {Idle} : old = running[i][w]
      BY DEF TypeOK
    <3>2. /\ task = [old EXCEPT !.at = task.at] /\ ~Posted(task) /\ ~Cleaning(task)
          /\ ~Posted(old) /\ Refers(old)
      BY <2>1, <2>3, <2>5, <3>1 DEF Stored
    <3>3. Refers(task)
      <4>1. old \in Tasks
        BY <2>5, <3>2 DEF Tasks, Sends, Completions, Deletions, Idle
      <4>2. CASE old.op = "send"
        <5>1. old \in Sends
          BY <4>1, <4>2, TaskForms
        <5>2. task.op = "send" /\ task.reply = old.reply /\ task.frames = old.frames
          BY <3>2, <5>1 DEF Sends
        <5> QED BY <3>2, <4>2, <5>2 DEF Refers
      <4>3. CASE old.op = "delete"
        <5>1. old \in Deletions
          BY <4>1, <4>3, TaskForms
        <5>2. task.op = "delete" /\ task.message = old.message
          BY <3>2, <5>1 DEF Deletions
        <5> QED BY <3>2, <4>3, <5>2 DEF Refers
      <4>4. CASE old.op = "upload"
        <5>1. old \in Completions
          BY <4>1, <4>4, TaskForms
        <5>2. task.op = "upload"
          BY <3>2, <5>1 DEF Completions
        <5> QED BY <3>2, <5>2 DEF Refers
      <4>5. CASE old.op \in {"edit", "react", "unreact", "read"}
        <5>1. old \in [op : {"edit", "react", "unreact", "read"}, user : Users, message : Nat]
          BY <4>1, <4>5, TaskForms
        <5>2. task.op = old.op /\ task.message = old.message
          BY <3>2, <5>1
        <5> QED BY <3>2, <4>5, <5>2 DEF Refers
      <4> QED BY <4>1, <4>2, <4>3, <4>4, <4>5 DEF Tasks, Sends, Completions, Deletions
    <3>4. Refers(task)' /\ task = running'[i][w]
      BY <1>1, <2>2, <3>3, RefersStays
    <3>5. Refers(running[i][w])'
      BY <3>4 DEF Refers
    <3> QED BY <1>7, <2>2, <2>3, <3>5
  <2> QED BY <2>4, <2>5
<1>11. ASSUME NEW i \in Instances, NEW w \in Workers, Touched(i, w) PROVE Stored'
  <2>1. /\ running' = [running EXCEPT ![i][w] = Idle] /\ tasks' = tasks
        /\ Idle \in Tasks \cup {Idle}
    BY <1>11 DEF Touched, FinishWith
  <2>2. /\ running'[i][w] = Idle
        /\ \A j \in Instances, v \in Workers :
             ~(j = i /\ v = w) => running'[j][v] = running[j][v]
    BY ZenonT(60), <2>1, Worked
  <2> QED BY <1>9, <2>1, <2>2
<1>12. ASSUME NEW i \in Instances, NEW w \in Workers, CreateMessage(i, w) PROVE Stored'
  <2> DEFINE task == running[i][w]  next == running'[i][w]
  <2>1. /\ task \in Sends /\ next \in Sends /\ ~Posted(task) /\ next.at = "mentions"
        /\ next.message = Len(rows) + 1 /\ next.change = Len(log) + 1
        /\ next.user = task.user /\ next.tokens = task.tokens /\ next.reply = task.reply
        /\ next.frames = <<>>
        /\ \A j \in Instances, v \in Workers :
             ~(j = i /\ v = w) => running'[j][v] = running[j][v]
        /\ Insert(task.user, task.tokens, task.reply, NoFile) /\ UNCHANGED tasks
    BY <1>12, Creating
  <2>2. task.user \in Users /\ task.tokens \in Contents /\ task.reply \in Nat
        /\ NoFile \in Uploads \cup {NoFile} /\ next.op = "send"
    BY <2>1 DEF Sends
  <2>3. /\ DOMAIN rows' = DOMAIN rows \cup {Len(rows) + 1}
        /\ LET row == rows'[Len(rows) + 1] IN
             /\ row.author = task.user /\ row.tokens = task.tokens /\ row.reply = task.reply
             /\ row.file = NoFile
        /\ Len(log) + 1 \in DOMAIN log'
    <3>1. PICK u \in Users, tokens \in Contents, reply \in Nat, file \in Uploads \cup {NoFile} :
            u = task.user /\ tokens = task.tokens /\ reply = task.reply /\ file = NoFile
      BY <2>2
    <3>2. Insert(u, tokens, reply, file)
      BY <2>1, <3>1
    <3>3. /\ DOMAIN rows' = DOMAIN rows \cup {Len(rows) + 1}
          /\ LET row == rows'[Len(rows) + 1] IN
               /\ row.author = u /\ row.tokens = tokens /\ row.reply = reply
               /\ row.file = file
          /\ DOMAIN log' = DOMAIN log \cup {Len(log) + 1}
      BY <3>2, Inserting
    <3> QED BY <3>1, <3>3
  <2>4. task.reply \in 0 .. Len(rows')
    <3>1. task.reply \in 0 .. Len(rows)
      BY <2>1 DEF Stored, Refers, Sends
    <3>2. Len(rows) + 1 \in DOMAIN rows' /\ rows' \in Seq(Rows) /\ rows \in Seq(Rows)
      BY <2>3 DEF TypeOK
    <3> QED BY <3>1, <3>2
  <2>5. Refers(running[i][w])'
    BY <2>1, <2>2, <2>3, <2>4 DEF Refers, Posted, Cleaning
  <2> QED BY <1>7, <2>1, <2>5
<1>13. ASSUME NEW i \in Instances, NEW w \in Workers, StoreMentions(i, w) PROVE Stored'
  <2> DEFINE task == running[i][w]  next == running'[i][w]
  <2>1. /\ next \in Sends /\ task \in Sends /\ Posted(task) /\ Posted(next)
        /\ next.message = task.message /\ next.change = task.change
        /\ next.user = task.user /\ next.tokens = task.tokens /\ next.reply = task.reply
        /\ \A j \in Instances, v \in Workers :
             ~(j = i /\ v = w) => running'[j][v] = running[j][v]
        /\ next.pending = Notifications(task)
        /\ UNCHANGED <<tasks, rows, log>>
    BY <1>13, Storing
  <2>2. \A p \in next.pending : p.to # next.user
    BY <2>1 DEF Notifications
  <2>3. Refers(task)
    BY DEF Stored
  <2>4. Refers(next)
    <3> HIDE DEF task, next
    <3> QED BY <2>1, <2>2, <2>3, GoesOn
  <2>5. Refers(running[i][w])'
    BY <2>1, <2>4 DEF Refers, Posted, Cleaning
  <2> QED BY <1>7, <2>1, <2>5
<1>14. ASSUME NEW i \in Instances, NEW w \in Workers, Notify(i, w) PROVE Stored'
  <2> DEFINE task == running[i][w]  next == running'[i][w]
  <2>1. /\ next \in Sends /\ task \in Sends /\ Posted(task) /\ Posted(next)
        /\ next.message = task.message /\ next.change = task.change
        /\ next.user = task.user /\ next.tokens = task.tokens /\ next.reply = task.reply
        /\ \A j \in Instances, v \in Workers :
             ~(j = i /\ v = w) => running'[j][v] = running[j][v]
        /\ task.at = "notify" /\ next.pending \subseteq task.pending
        /\ UNCHANGED <<tasks, rows, log>>
    BY ZenonT(60), <1>14, Notifying
  <2>2. Refers(task)
    BY DEF Stored
  <2>3. \A p \in next.pending : p.to # next.user
    <3>1. \A p \in task.pending : p.to # task.user
      BY <2>1, <2>2 DEF Refers
    <3> QED BY <2>1, <3>1
  <2>4. Refers(next)
    <3> HIDE DEF task, next
    <3> QED BY <2>1, <2>2, <2>3, GoesOn
  <2>5. Refers(running[i][w])'
    BY <2>1, <2>4 DEF Refers, Posted, Cleaning
  <2> QED BY <1>7, <2>1, <2>5
<1>15. ASSUME NEW i \in Instances, NEW w \in Workers, HandsOver(i, w) PROVE Stored'
  BY <1>9, <1>15 DEF HandsOver
<1>16. ASSUME NEW i \in Instances, NEW w \in Workers, Assemble(i, w) PROVE Stored'
  <2>1. /\ running'[i][w] \in Completions /\ UNCHANGED tasks
        /\ \A j \in Instances, v \in Workers :
             ~(j = i /\ v = w) => running'[j][v] = running[j][v]
    BY <1>16, Assembling
  <2>2. Refers(running[i][w])'
    BY <2>1 DEF Refers, Posted, Cleaning, Completions
  <2> QED BY <1>7, <2>1, <2>2
<1>17. ASSUME NEW i \in Instances, NEW w \in Workers, CreateFileMessage(i, w) PROVE Stored'
  BY <1>9, <1>17, CreatingFile
<1>18. ASSUME NEW i \in Instances, NEW w \in Workers, DeleteRow(i, w) PROVE Stored'
  <2> DEFINE task == running[i][w]  next == running'[i][w]
  <2>1. /\ task \in Deletions /\ next \in Deletions
        /\ next.message = task.message /\ next.change = Len(log) + 1
        /\ task.message \in DOMAIN rows /\ task.message \in Nat \ {0}
        /\ \A j \in Instances, v \in Workers :
             ~(j = i /\ v = w) => running'[j][v] = running[j][v]
        /\ DOMAIN rows' = DOMAIN rows /\ rows'[task.message].deleted
        /\ Log("deleted", task.message, task.user) /\ UNCHANGED tasks
    BY <1>18, Marking
  <2>2. Len(log) + 1 \in DOMAIN log'
    <3>1. log' = Append(log, [kind |-> "deleted", message |-> task.message, by |-> task.user])
      BY <2>1 DEF Log
    <3> QED BY <3>1 DEF TypeOK
  <2>3. Refers(running[i][w])'
    BY <2>1, <2>2 DEF Refers, Posted, Cleaning, Deletions
  <2> QED BY <1>7, <2>1, <2>3
<1>19. ASSUME NEW i \in Instances, NEW w \in Workers, Works(i, w) PROVE Stored'
  <2>1. FinishSending(i, w) \/ RemoveBlob(i, w) => HandsOver(i, w)
    BY EndingSend, Removing
  <2> QED
    BY <1>6, <1>10, <1>11, <1>12, <1>13, <1>14, <1>15, <1>16, <1>17, <1>18, <1>19, <2>1
       DEF Works, WorkerWrites
<1>20. \A i \in Instances : LoopStep(i) \/ Receive(i) \/ Lose(i) => UNCHANGED <<tasks, running>>
  BY DEF LoopStep, RunAnnounce, RunUploaded, Receive, Lose, threadVars
<1>21. Elsewhere \/ UNCHANGED vars => UNCHANGED <<tasks, running>>
  BY DEF Elsewhere, vars, threadVars
<1> QED BY <1>2, <1>3, <1>4, <1>5, <1>19, <1>20, <1>21 DEF KnownStep

-----------------------------------------------------------------------------
(* The log tells of the rows, and the feed accepts what it is told *)

\* The author of a message, as the feed knows it.
LEMMA Authors ==
  ASSUME Told, NEW m
  PROVE  /\ m \in DOMAIN rows => Feed!Author(m) = {rows[m].author} /\ Feed!IsPosted(m)
         /\ m \notin DOMAIN rows => ~Feed!IsPosted(m)
         /\ Feed!IsDeleted(m) => rows[m].deleted
<1>1. ASSUME m \in DOMAIN rows PROVE Feed!Author(m) = {rows[m].author}
  <2>1. PICK n \in DOMAIN log :
          log[n].kind = "new" /\ log[n].message = m /\ log[n].by = rows[m].author
    BY <1>1 DEF Told
  <2>2. \A l \in DOMAIN log :
          log[l].kind = "new" /\ log[l].message = m => log[l].by = rows[m].author
    BY DEF Told
  <2> QED BY <2>1, <2>2 DEF Feed!Author, Feed!Posted
<1>2. ASSUME m \notin DOMAIN rows PROVE Feed!Author(m) = {}
  BY <1>2 DEF Told, Feed!Author, Feed!Posted
<1>3. Feed!IsDeleted(m) => rows[m].deleted
  BY DEF Told, Feed!IsDeleted
<1> QED BY <1>1, <1>2, <1>3 DEF Feed!IsPosted

LEMMA Prefix ==
  ASSUME NEW S, NEW s \in Seq(S), NEW e \in S, NEW longer, longer = Append(s, e)
  PROVE  /\ Len(longer) = Len(s) + 1 /\ SubSeq(longer, 1, Len(s)) = s
         /\ longer[Len(longer)] = e
<1>1. /\ longer \in Seq(S) /\ Len(longer) = Len(s) + 1 /\ Len(s) \in Nat
      /\ longer[Len(longer)] = e
      /\ \A k \in 1 .. Len(s) : longer[k] = s[k] /\ s[k] \in S
  OBVIOUS
<1>2. /\ SubSeq(longer, 1, Len(s)) \in Seq(S)
      /\ Len(SubSeq(longer, 1, Len(s))) = Len(s)
      /\ \A k \in 1 .. Len(s) : SubSeq(longer, 1, Len(s))[k] = s[k]
  BY <1>1
<1>3. SubSeq(longer, 1, Len(s)) = s
  BY <1>2, SeqEqual
<1> QED BY <1>1, <1>3

\* The kinds of change the log has.
ChangeKinds == {"new", "edited", "deleted", "reacted", "unreacted", "read"}

\* A legal change is one the feed takes.
LEMMA Committing ==
  ASSUME TypeOK, NEW kind \in ChangeKinds, NEW m \in Nat \ {0}, NEW u \in Users,
         Log(kind, m, u), Feed!Legal([kind |-> kind, message |-> m, by |-> u]),
         UNCHANGED <<notes, got>>
  PROVE  Feed!Commit
<1> DEFINE e == [kind |-> kind, message |-> m, by |-> u]
<1>1. e \in Changes
  BY DEF Changes, ChangeKinds
<1>2. log' = Append(log, e) /\ log \in Seq(Changes)
  BY DEF Log, TypeOK
<1>3. Feed!Legal(e)
  OBVIOUS
<1> HIDE DEF e
<1>4. Len(log') = Len(log) + 1 /\ SubSeq(log', 1, Len(log)) = log /\ log'[Len(log')] = e
  BY <1>1, <1>2, Prefix
<1>5. Feed!Legal(log'[Len(log')])
  BY <1>3, <1>4
<1> QED BY <1>4, <1>5 DEF Feed!Commit

\* A message is inserted.
LEMMA ToldInsert ==
  ASSUME TypeOK, Told, NEW u \in Users, NEW tokens \in Contents, NEW reply \in 0 .. Len(rows),
         NEW file \in Uploads \cup {NoFile}, Insert(u, tokens, reply, file),
         UNCHANGED <<notes, got>>
  PROVE  Told' /\ Feed!Commit
<1>1. reply \in Nat /\ Len(rows) \in Nat
  BY DEF TypeOK
<1>2. /\ DOMAIN rows' = DOMAIN rows \cup {Len(rows) + 1} /\ Len(rows) + 1 \notin DOMAIN rows
      /\ \A m \in DOMAIN rows : rows'[m] = rows[m]
      /\ LET row == rows'[Len(rows) + 1] IN row.author = u /\ row.reply = reply
      /\ Log("new", Len(rows) + 1, u)
      /\ DOMAIN log' = DOMAIN log \cup {Len(log) + 1} /\ Len(log) + 1 \notin DOMAIN log
      /\ \A n \in DOMAIN log : log'[n] = log[n]
      /\ log'[Len(log) + 1] = [kind |-> "new", message |-> Len(rows) + 1, by |-> u]
  BY <1>1, Inserting
<1>3. ~Feed!IsPosted(Len(rows) + 1)
  BY <1>2, Authors
<1>4. Feed!Legal([kind |-> "new", message |-> Len(rows) + 1, by |-> u])
  BY <1>3 DEF Feed!Legal
<1>5. Feed!Commit
  <2>1. "new" \in ChangeKinds /\ Len(rows) + 1 \in Nat \ {0}
    BY <1>1 DEF ChangeKinds
  <2> QED BY <1>2, <1>4, <2>1, Committing
<1>6. ASSUME NEW m \in DOMAIN rows'
      PROVE  /\ rows'[m].reply < m
             /\ \E n \in DOMAIN log' :
                  log'[n].kind = "new" /\ log'[n].message = m /\ log'[n].by = rows'[m].author
  <2>1. CASE m \in DOMAIN rows
    BY <1>2, <2>1 DEF Told
  <2>2. CASE m = Len(rows) + 1
    BY <1>1, <1>2, <2>2
  <2> QED BY <1>2, <2>1, <2>2
<1>7. ASSUME NEW n \in DOMAIN log'
      PROVE  /\ log'[n].message \in DOMAIN rows'
             /\ log'[n].kind = "new" => log'[n].by = rows'[log'[n].message].author
             /\ log'[n].kind = "deleted" => rows'[log'[n].message].deleted
  <2>1. CASE n \in DOMAIN log
    BY <1>2, <2>1 DEF Told
  <2>2. CASE n = Len(log) + 1
    BY <1>2, <2>2
  <2> QED BY <1>2, <2>1, <2>2
<1>8. \A k \in DOMAIN notes' : notes'[k].message \in DOMAIN rows'
  BY <1>2 DEF Told
<1> QED BY <1>5, <1>6, <1>7, <1>8 DEF Told

\* A message that is stored is changed.
LEMMA ToldChange ==
  ASSUME TypeOK, Told, NEW kind \in ChangeKinds \ {"new"}, NEW m \in DOMAIN rows,
         NEW u \in Users, Log(kind, m, u), Grows, DOMAIN rows' = DOMAIN rows,
         kind = "edited" => rows[m].author = u /\ ~rows[m].deleted,
         kind = "deleted" => rows'[m].deleted, UNCHANGED <<notes, got>>
  PROVE  Told' /\ Feed!Commit
<1>1. m \in Nat \ {0} /\ kind \in ChangeKinds
  BY Elements DEF TypeOK
<1>2. /\ DOMAIN log' = DOMAIN log \cup {Len(log) + 1} /\ Len(log) + 1 \notin DOMAIN log
      /\ \A n \in DOMAIN log : log'[n] = log[n]
      /\ log'[Len(log) + 1] = [kind |-> kind, message |-> m, by |-> u]
  BY <1>1, Logging DEF ChangeKinds
<1>3. /\ Feed!Author(m) = {rows[m].author} /\ Feed!IsPosted(m)
      /\ Feed!IsDeleted(m) => rows[m].deleted
  BY Authors
<1>4. Feed!Legal([kind |-> kind, message |-> m, by |-> u])
  BY <1>3 DEF Feed!Legal
<1>5. Feed!Commit
  BY <1>1, <1>4, Committing
<1>6. ASSUME NEW l \in DOMAIN rows'
      PROVE  /\ rows'[l].reply < l
             /\ \E n \in DOMAIN log' :
                  log'[n].kind = "new" /\ log'[n].message = l /\ log'[n].by = rows'[l].author
  BY <1>2 DEF Told, Grows
<1>7. ASSUME NEW n \in DOMAIN log'
      PROVE  /\ log'[n].message \in DOMAIN rows'
             /\ log'[n].kind = "new" => log'[n].by = rows'[log'[n].message].author
             /\ log'[n].kind = "deleted" => rows'[log'[n].message].deleted
  <2>1. CASE n \in DOMAIN log
    BY <1>2, <2>1 DEF Told, Grows
  <2>2. CASE n = Len(log) + 1
    BY <1>2, <2>2
  <2> QED BY <1>2, <2>1, <2>2
<1>8. \A k \in DOMAIN notes' : notes'[k].message \in DOMAIN rows'
  BY DEF Told
<1> QED BY <1>5, <1>6, <1>7, <1>8 DEF Told

\* Somebody is told of a message.
LEMMA ToldNote ==
  ASSUME TypeOK, Stored, Told, NEW i \in Instances, NEW w \in Workers, Notify(i, w)
  PROVE  Told' /\ Feed!Notify
<1> DEFINE task == running[i][w]
<1>1. /\ task \in Sends /\ task.at = "notify" /\ Posted(task)
      /\ UNCHANGED <<rows, got, log>>
  BY Notifying
<1>2. PICK p \in task.pending :
        /\ p \in Pending
        /\ DOMAIN notes' = DOMAIN notes \cup {Len(notes) + 1}
        /\ \A k \in DOMAIN notes : notes'[k] = notes[k]
        /\ notes'[Len(notes) + 1] = [to |-> p.to, type |-> p.type, message |-> task.message]
        /\ notes' = Append(notes, [to |-> p.to, type |-> p.type, message |-> task.message])
  <2> HIDE DEF task
  <2>1. \E p \in task.pending :
          /\ p \in Pending /\ running'[i][w].pending = task.pending \ {p}
          /\ DOMAIN notes' = DOMAIN notes \cup {Len(notes) + 1}
          /\ Len(notes) + 1 \notin DOMAIN notes
          /\ \A k \in DOMAIN notes : notes'[k] = notes[k]
          /\ notes'[Len(notes) + 1] = [to |-> p.to, type |-> p.type, message |-> task.message]
          /\ notes' = Append(notes, [to |-> p.to, type |-> p.type, message |-> task.message])
    BY Notifying, Zenon DEF task
  <2> QED BY <2>1
<1>3. /\ task.message \in DOMAIN rows /\ task.message \in Nat \ {0}
      /\ rows[task.message].author = task.user /\ p.to # task.user
  <2>1. task.message \in DOMAIN rows /\ rows[task.message].author = task.user
        /\ p.to # task.user
    BY <1>1 DEF Stored, Refers
  <2> QED BY <2>1, Elements DEF TypeOK
<1> DEFINE note == [to |-> p.to, type |-> p.type, message |-> task.message]
<1>4. note \in Notes
  BY <1>2, <1>3 DEF Notes, Pending
<1>5. note.message = task.message /\ note.to = p.to
  OBVIOUS
<1>6. PICK m \in DOMAIN rows : m = task.message
  BY <1>3
<1>7. Feed!Author(m) = {rows[m].author} /\ Feed!IsPosted(m)
  BY Authors
<1>8. Feed!IsPosted(note.message) /\ note.to \notin Feed!Author(note.message)
  BY <1>3, <1>5, <1>6, <1>7
<1>9. notes' = Append(notes, note) /\ notes \in Seq(Notes)
  BY <1>2 DEF TypeOK
<1>10. notes'[Len(notes) + 1] = note
  BY <1>2
<1> HIDE DEF note
<1>11. Len(notes') = Len(notes) + 1 /\ SubSeq(notes', 1, Len(notes)) = notes
       /\ notes'[Len(notes')] = note
  BY <1>4, <1>9, Prefix
<1>12. Feed!Notify
  BY <1>1, <1>8, <1>11 DEF Feed!Notify
<1>13. \A k \in DOMAIN notes' : notes'[k].message \in DOMAIN rows
  BY <1>2, <1>3, <1>5, <1>10 DEF Told
<1> QED BY <1>1, <1>12, <1>13 DEF Told

\* What is told stays true, and the feed accepts what is new.
LEMMA ToldStep ==
  ASSUME TypeOK, Stored, Told, KnownStep
  PROVE  /\ Told'
         /\ \/ Feed!Commit \/ Feed!Notify
            \/ UNCHANGED <<log, notes>>
<1>1. Grows
  BY Growing
<1>2. ASSUME UNCHANGED <<rows, log, notes>> PROVE Told' /\ UNCHANGED <<log, notes>>
  BY <1>2 DEF Told
<1>3. ASSUME NEW i \in Instances, NEW w \in Workers, Touched(i, w)
      PROVE  Told' /\ Feed!Commit
  <2> DEFINE task == running[i][w]
  <2>1. task.op \in {"edit", "react", "unreact", "read"}
    BY <1>3 DEF Touched
  <2>2. task \in [op : {"edit", "react", "unreact", "read"}, user : Users, message : Nat]
    BY <2>1, TaskForms DEF TypeOK
  <2>3. task.message \in DOMAIN rows
    BY <2>1 DEF Stored, Refers
  <2>4. PICK kind \in ChangeKinds, m \in DOMAIN rows, u \in Users :
          kind = log'[Len(log) + 1].kind /\ m = task.message /\ u = task.user
    <3>1. log'[Len(log) + 1].kind \in ChangeKinds
      BY <1>3 DEF Touched, ChangeKinds
    <3> QED BY <2>2, <2>3, <3>1
  <2>5. /\ kind \in {"edited", "reacted", "unreacted", "read"}
        /\ kind = "edited" => rows[m].author = u /\ ~rows[m].deleted
        /\ Log(kind, m, u) /\ DOMAIN rows' = DOMAIN rows
        /\ UNCHANGED <<notes, got>>
    BY <1>3, <2>4 DEF Touched
  <2>6. kind \in ChangeKinds \ {"new"} /\ kind # "deleted"
    BY <2>5 DEF ChangeKinds
  <2> QED BY <1>1, <2>5, <2>6, ToldChange
<1>4. ASSUME NEW i \in Instances, NEW w \in Workers, CreateMessage(i, w)
      PROVE  Told' /\ Feed!Commit
  <2> DEFINE task == running[i][w]
  <2>1. /\ task \in Sends /\ Insert(task.user, task.tokens, task.reply, NoFile)
        /\ UNCHANGED <<notes, got>>
    BY <1>4, Creating
  <2>2. task.reply \in 0 .. Len(rows)
    BY <2>1 DEF Stored, Refers, Sends
  <2>3. PICK u \in Users, tokens \in Contents, reply \in 0 .. Len(rows),
             file \in Uploads \cup {NoFile} :
          u = task.user /\ tokens = task.tokens /\ reply = task.reply /\ file = NoFile
    BY <2>1, <2>2 DEF Sends
  <2>4. Insert(u, tokens, reply, file)
    BY <2>1, <2>3
  <2> QED BY <2>1, <2>4, ToldInsert
<1>5. ASSUME NEW i \in Instances, NEW w \in Workers, CreateFileMessage(i, w)
      PROVE  Told' /\ Feed!Commit
  <2> DEFINE task == running[i][w]
  <2>1. /\ task \in Completions /\ Insert(task.user, <<>>, 0, task.file)
        /\ UNCHANGED <<notes, got>>
    BY <1>5, CreatingFile
  <2>2. 0 \in 0 .. Len(rows) /\ <<>> \in Contents
    BY DEF TypeOK, Contents
  <2>3. PICK u \in Users, tokens \in Contents, reply \in 0 .. Len(rows),
             file \in Uploads \cup {NoFile} :
          u = task.user /\ tokens = <<>> /\ reply = 0 /\ file = task.file
    BY <2>1, <2>2 DEF Completions
  <2>4. Insert(u, tokens, reply, file)
    BY <2>1, <2>3
  <2> QED BY <2>1, <2>4, ToldInsert
<1>6. ASSUME NEW i \in Instances, NEW w \in Workers, DeleteRow(i, w)
      PROVE  Told' /\ Feed!Commit
  <2> DEFINE task == running[i][w]
  <2>1. /\ task \in Deletions /\ task.message \in DOMAIN rows
        /\ DOMAIN rows' = DOMAIN rows /\ rows'[task.message].deleted
        /\ Log("deleted", task.message, task.user)
        /\ UNCHANGED <<notes, got>>
    BY <1>6, Marking
  <2>2. PICK kind \in ChangeKinds \ {"new"}, m \in DOMAIN rows, u \in Users :
          kind = "deleted" /\ m = task.message /\ u = task.user
    BY <2>1 DEF Deletions, ChangeKinds
  <2>3. /\ Log(kind, m, u)
        /\ kind = "edited" => rows[m].author = u /\ ~rows[m].deleted
        /\ kind = "deleted" => rows'[m].deleted
    BY <2>1, <2>2
  <2> QED BY <1>1, <2>1, <2>3, ToldChange
<1>7. ASSUME NEW i \in Instances, NEW w \in Workers, Works(i, w)
      PROVE  Told' /\ (Feed!Commit \/ Feed!Notify \/ UNCHANGED <<log, notes>>)
  <2>1. CASE Dequeue(i, w) \/ Checked(i, w)
    BY <1>2, <2>1 DEF Dequeue, Checked, dbVars
  <2>2. CASE StoreMentions(i, w)
    BY <1>2, <2>2, Storing
  <2>3. CASE FinishSending(i, w) \/ RemoveBlob(i, w)
    BY <1>2, <2>3 DEF FinishSending, RemoveBlob, dbVars
  <2>4. CASE Assemble(i, w)
    BY <1>2, <2>4 DEF Assemble
  <2>5. CASE Notify(i, w)
    BY <2>5, ToldNote
  <2> QED
    BY <1>3, <1>4, <1>5, <1>6, <1>7, <2>1, <2>2, <2>3, <2>4, <2>5 DEF Works, WorkerWrites
<1>8. ASSUME NEW i \in Instances, LoopStep(i) \/ Receive(i) \/ Lose(i)
      PROVE  Told' /\ UNCHANGED <<log, notes>>
  <2>1. UNCHANGED <<rows, log, notes>>
    BY <1>8 DEF LoopStep, RunAnnounce, RunUploaded, Receive, Lose, dbVars
  <2> QED BY <1>2, <2>1
<1>9. CASE Requested \/ Elsewhere \/ UNCHANGED vars
  <2>1. UNCHANGED <<rows, log, notes>>
    BY <1>9 DEF Requested, Elsewhere, vars, dbVars
  <2> QED BY <1>2, <2>1
<1> QED BY <1>7, <1>8, <1>9 DEF KnownStep

-----------------------------------------------------------------------------
(* A frame is sent once *)

\* What has been committed stays so.
LEMMA StaysCommitted ==
  ASSUME Grows, NEW f, Committed(f)
  PROVE  Committed(f)'
  BY DEF Grows, Committed

\* Nothing moves.
LEMMA OnceIdle ==
  ASSUME Once, Grows, UNCHANGED <<loop, wire, got>>,
         \A j \in Instances, v \in Workers : Parcel(running'[j][v]) = Parcel(running[j][v])
  PROVE  Once'
<1>1. \A f : Committed(f) => Committed(f)'
  BY StaysCommitted
<1>2. \A j \in Instances, v \in Workers : Carried(j, v)' = Carried(j, v)
  BY DEF Carried
<1>3. \A f : Unsent(f)' = Unsent(f)
  BY DEF Unsent
<1>4. \A j \in Instances : \A l : Deferred(j, l)' = Deferred(j, l)
  BY DEF Deferred
<1>5. OnceCarried'
  BY <1>1, <1>2, <1>3, <1>4 DEF Once, OnceCarried
<1>6. OnceDeferred'
  BY <1>1, <1>3, <1>4 DEF Once, OnceDeferred
<1>7. OnceWired'
  BY <1>1 DEF Once, OnceWired
<1>8. OnceGot'
  BY <1>1 DEF Once, OnceGot
<1> QED BY <1>5, <1>6, <1>7, <1>8 DEF Once

\* What is not committed is nowhere.
LEMMA Nowhere ==
  ASSUME Once, NEW f \in Frames, ~Committed(f)
  PROVE  /\ Unsent(f)
         /\ \A j \in Instances : \A l \in DOMAIN loop[j] : f \notin Deferred(j, l)
         /\ \A j \in Instances, v \in Workers : f \notin Carried(j, v)
<1>1. Unsent(f)
  BY DEF Once, OnceWired, OnceGot, Unsent
<1> QED BY <1>1 DEF Once, OnceCarried, OnceDeferred

\* A task takes on frames that have just been committed.
LEMMA OnceBorn ==
  ASSUME Once, Grows, UNCHANGED <<loop, wire, got>>, NEW i \in Instances, NEW w \in Workers,
         \A j \in Instances, v \in Workers :
           ~(j = i /\ v = w) => Parcel(running'[j][v]) = Parcel(running[j][v]),
         Distinct(Parcel(running'[i][w])),
         \A f \in ToSet(Parcel(running'[i][w])) :
           f \in Carried(i, w) \/ (f \in Frames /\ ~Committed(f) /\ Committed(f)')
  PROVE  Once'
<1>1. \A f : Committed(f) => Committed(f)'
  BY StaysCommitted
<1>2. \A j \in Instances, v \in Workers : ~(j = i /\ v = w) => Carried(j, v)' = Carried(j, v)
  BY DEF Carried
<1>3. \A f : Unsent(f)' = Unsent(f)
  BY DEF Unsent
<1>4. \A j \in Instances : \A l : Deferred(j, l)' = Deferred(j, l)
  BY DEF Deferred
<1>5. ASSUME NEW f \in Carried(i, w)'
      PROVE  /\ Committed(f)' /\ Unsent(f)
             /\ \A j \in Instances : \A l \in DOMAIN loop[j] : f \notin Deferred(j, l)
             /\ \A j \in Instances, v \in Workers : f \in Carried(j, v) => i = j /\ w = v
  <2>1. f \in Carried(i, w) \/ (f \in Frames /\ ~Committed(f) /\ Committed(f)')
    BY <1>5 DEF Carried
  <2>2. CASE f \in Carried(i, w)
    BY <1>1, <2>2 DEF Once, OnceCarried
  <2>3. CASE f \in Frames /\ ~Committed(f) /\ Committed(f)'
    BY <2>3, Nowhere
  <2> QED BY <2>1, <2>2, <2>3
<1>6. OnceCarried'
  <2> SUFFICES ASSUME NEW j \in Instances, NEW v \in Workers
               PROVE  /\ Distinct(Parcel(running'[j][v]))
                      /\ \A f \in Carried(j, v)' :
                           /\ Committed(f)' /\ Unsent(f)'
                           /\ \A k \in Instances : \A l \in DOMAIN loop'[k] :
                                f \notin Deferred(k, l)'
                           /\ \A k \in Instances, u \in Workers :
                                f \in Carried(k, u)' => j = k /\ v = u
    BY DEF OnceCarried
  <2>1. CASE j = i /\ v = w
    BY <1>2, <1>3, <1>4, <1>5, <2>1
  <2>2. CASE ~(j = i /\ v = w)
    <3>1. Carried(j, v)' = Carried(j, v) /\ Parcel(running'[j][v]) = Parcel(running[j][v])
      BY <1>2, <2>2
    <3>2. \A f \in Carried(j, v) : f \notin Carried(i, w)'
      BY <1>5, <2>2
    <3> QED BY <1>1, <1>2, <1>3, <1>4, <2>2, <3>1, <3>2 DEF Once, OnceCarried
  <2> QED BY <2>1, <2>2
<1>7. OnceDeferred'
  BY <1>1, <1>3, <1>4 DEF Once, OnceDeferred
<1>8. OnceWired'
  BY <1>1 DEF Once, OnceWired
<1>9. OnceGot'
  BY <1>1 DEF Once, OnceGot
<1> QED BY <1>6, <1>7, <1>8, <1>9 DEF Once

\* A task ends with a closure that has the frames it carried, or new ones.
LEMMA OnceDeferring ==
  ASSUME TypeOK, Once, Grows, UNCHANGED <<wire, got>>,
         NEW i \in Instances, NEW w \in Workers, NEW closure \in Closures,
         \A j \in Instances, v \in Workers :
           ~(j = i /\ v = w) => Parcel(running'[j][v]) = Parcel(running[j][v]),
         Parcel(running'[i][w]) = <<>>,
         loop'[i] = Append(loop[i], closure),
         \A j \in Instances : j # i => loop'[j] = loop[j],
         Distinct(closure.frames),
         \A f \in ToSet(closure.frames) :
           f \in Carried(i, w) \/ (f \in Frames /\ ~Committed(f) /\ Committed(f)')
  PROVE  Once'
<1>1. \A f : Committed(f) => Committed(f)'
  BY StaysCommitted
<1>2. \A j \in Instances, v \in Workers : ~(j = i /\ v = w) => Carried(j, v)' = Carried(j, v)
  BY DEF Carried
<1>3. Carried(i, w)' = {} /\ Distinct(Parcel(running'[i][w]))
  BY DEF Carried, ToSet, Distinct
<1>4. \A f : Unsent(f)' = Unsent(f)
  BY DEF Unsent
<1>0. PICK last : last = Len(loop[i]) + 1
  OBVIOUS
<1>5. /\ DOMAIN loop'[i] = DOMAIN loop[i] \cup {last} /\ last \notin DOMAIN loop[i]
      /\ loop'[i][last] = closure
      /\ \A k \in DOMAIN loop[i] : loop'[i][k] = loop[i][k]
  <2>1. loop[i] \in Seq(Closures)
    BY DEF TypeOK
  <2> QED BY <1>0, <2>1, Longer
<1>6. /\ \A j \in Instances : \A l \in DOMAIN loop[j] :
           l \in DOMAIN loop'[j] /\ Deferred(j, l)' = Deferred(j, l)
      /\ Deferred(i, last)' = ToSet(closure.frames)
      /\ \A j \in Instances : \A l \in DOMAIN loop'[j] :
           l \in DOMAIN loop[j] \/ (j = i /\ l = last)
  <2>1. ASSUME NEW j \in Instances, NEW l \in DOMAIN loop[j]
        PROVE  l \in DOMAIN loop'[j] /\ loop'[j][l] = loop[j][l]
    BY <1>5
  <2>2. \A j \in Instances : \A l \in DOMAIN loop'[j] :
          l \in DOMAIN loop[j] \/ (j = i /\ l = last)
    BY <1>5
  <2>3. Deferred(i, last)' = ToSet(closure.frames)
    BY <1>5 DEF Deferred
  <2> QED BY <2>1, <2>2, <2>3 DEF Deferred
<1>7. ASSUME NEW f \in ToSet(closure.frames)
      PROVE  /\ Committed(f)' /\ Unsent(f)
             /\ \A j \in Instances : \A l \in DOMAIN loop[j] : f \notin Deferred(j, l)
             /\ \A j \in Instances, v \in Workers : f \in Carried(j, v) => i = j /\ w = v
  <2>1. CASE f \in Carried(i, w)
    BY <1>1, <2>1 DEF Once, OnceCarried
  <2>2. CASE f \in Frames /\ ~Committed(f) /\ Committed(f)'
    BY <2>2, Nowhere
  <2> QED BY <2>1, <2>2
<1>8. OnceCarried'
  <2> SUFFICES ASSUME NEW j \in Instances, NEW v \in Workers
               PROVE  /\ Distinct(Parcel(running'[j][v]))
                      /\ \A f \in Carried(j, v)' :
                           /\ Committed(f)' /\ Unsent(f)'
                           /\ \A k \in Instances : \A l \in DOMAIN loop'[k] :
                                f \notin Deferred(k, l)'
                           /\ \A k \in Instances, u \in Workers :
                                f \in Carried(k, u)' => j = k /\ v = u
    BY DEF OnceCarried
  <2>1. CASE j = i /\ v = w
    BY <1>3, <2>1
  <2>2. CASE ~(j = i /\ v = w)
    <3>1. Carried(j, v)' = Carried(j, v) /\ Parcel(running'[j][v]) = Parcel(running[j][v])
      BY <1>2, <2>2
    <3>2. \A f \in Carried(j, v) : f \notin ToSet(closure.frames)
      BY <1>7, <2>2
    <3>3. \A f \in Carried(j, v) : \A k \in Instances : \A l \in DOMAIN loop'[k] :
            f \notin Deferred(k, l)'
      <4>1. \A f \in Carried(j, v) : \A k \in Instances : \A l \in DOMAIN loop[k] :
              f \notin Deferred(k, l)
        BY DEF Once, OnceCarried
      <4> QED BY <1>6, <3>2, <4>1
    <3> QED BY <1>1, <1>2, <1>3, <1>4, <2>2, <3>1, <3>3 DEF Once, OnceCarried
  <2> QED BY <2>1, <2>2
<1>9. OnceDeferred'
  <2> SUFFICES ASSUME NEW j \in Instances, NEW k \in DOMAIN loop'[j]
               PROVE  /\ Distinct(loop'[j][k].frames)
                      /\ \A f \in Deferred(j, k)' :
                           /\ Committed(f)' /\ Unsent(f)'
                           /\ \A n \in Instances : \A l \in DOMAIN loop'[n] :
                                f \in Deferred(n, l)' => j = n /\ k = l
    BY DEF OnceDeferred
  <2>1. CASE j = i /\ k = last
    <3>1. Distinct(loop'[i][last].frames)
      BY <1>5
    <3>2. ASSUME NEW f \in ToSet(closure.frames), NEW n \in Instances,
                 NEW l \in DOMAIN loop'[n], f \in Deferred(n, l)'
          PROVE  n = i /\ l = last
      BY <1>6, <1>7, <3>2
    <3> QED BY <1>4, <1>6, <1>7, <2>1, <3>1, <3>2
  <2>2. CASE k \in DOMAIN loop[j]
    <3>1. Deferred(j, k)' = Deferred(j, k) /\ loop'[j][k] = loop[j][k]
      BY <1>5, <1>6, <2>2
    <3>2. \A f \in Deferred(j, k) : f \notin ToSet(closure.frames)
      BY <1>7, <2>2
    <3>3. ASSUME NEW f \in Deferred(j, k), NEW n \in Instances, NEW l \in DOMAIN loop'[n],
                 f \in Deferred(n, l)'
          PROVE  j = n /\ k = l
      <4>1. l \in DOMAIN loop[n] /\ f \in Deferred(n, l)
        BY <1>6, <3>2, <3>3
      <4> QED BY <2>2, <3>3, <4>1 DEF Once, OnceDeferred
    <3>4. Distinct(loop[j][k].frames) /\ \A f \in Deferred(j, k) : Committed(f)' /\ Unsent(f)'
      BY <1>1, <1>4, <2>2 DEF Once, OnceDeferred
    <3> QED BY <3>1, <3>3, <3>4
  <2> QED BY <1>6, <2>1, <2>2
<1>10. OnceWired'
  BY <1>1 DEF Once, OnceWired
<1>11. OnceGot'
  BY <1>1 DEF Once, OnceGot
<1> QED BY <1>8, <1>9, <1>10, <1>11 DEF Once

\* The first closure of a loop is dropped.
LEMMA OnceSkipped ==
  ASSUME TypeOK, Once, NEW i \in Instances, loop[i] # <<>>,
         loop' = [loop EXCEPT ![i] = Tail(@)]
  PROVE  \A j \in Instances : \A l \in DOMAIN loop'[j] :
           \E k \in DOMAIN loop[j] :
             /\ loop'[j][l] = loop[j][k] /\ (j = i => k = l + 1 /\ k # 1) /\ (j # i => k = l)
<1>1. loop \in [Instances -> Seq(Closures)] /\ loop[i] \in Seq(Closures)
  BY DEF TypeOK
<1>2. loop'[i] = Tail(loop[i]) /\ \A j \in Instances : j # i => loop'[j] = loop[j]
  BY <1>1, Leaves
<1>3. \A l \in DOMAIN Tail(loop[i]) :
        l + 1 \in DOMAIN loop[i] /\ Tail(loop[i])[l] = loop[i][l + 1] /\ l + 1 # 1
  BY <1>1, Rest
<1> QED BY <1>2, <1>3

\* Whatever leaves a loop, what stays in it is in one place.
LEMMA OnceShorter ==
  ASSUME TypeOK, Once, NEW i \in Instances, loop[i] # <<>>,
         loop' = [loop EXCEPT ![i] = Tail(@)],
         UNCHANGED <<running, log, notes>>,
         \A f \in Frames : Unsent(f) /\ f \notin Deferred(i, 1) => Unsent(f)'
  PROVE  OnceCarried' /\ OnceDeferred'
<1>1. \A j \in Instances : \A l \in DOMAIN loop'[j] :
        \E k \in DOMAIN loop[j] :
          /\ loop'[j][l] = loop[j][k] /\ (j = i => k = l + 1 /\ k # 1) /\ (j # i => k = l)
  BY OnceSkipped
<1>2. 1 \in DOMAIN loop[i]
  BY HeadOfLoop
<1>3. \A f : Committed(f)' = Committed(f)
  BY DEF Committed
<1>4. \A j \in Instances, v \in Workers : Carried(j, v)' = Carried(j, v)
  BY DEF Carried
<1>5. \A j \in Instances : \A l \in DOMAIN loop'[j] :
        \E k \in DOMAIN loop[j] :
          /\ loop'[j][l] = loop[j][k] /\ Deferred(j, l)' = Deferred(j, k)
          /\ (j = i => k = l + 1 /\ k # 1) /\ (j # i => k = l)
  BY <1>1 DEF Deferred
<1>6. OnceCarried'
  <2> SUFFICES ASSUME NEW j \in Instances, NEW v \in Workers
               PROVE  /\ Distinct(Parcel(running'[j][v]))
                      /\ \A f \in Carried(j, v)' :
                           /\ Committed(f)' /\ Unsent(f)'
                           /\ \A k \in Instances : \A l \in DOMAIN loop'[k] :
                                f \notin Deferred(k, l)'
                           /\ \A k \in Instances, u \in Workers :
                                f \in Carried(k, u)' => j = k /\ v = u
    BY DEF OnceCarried
  <2>1. Distinct(Parcel(running'[j][v]))
    BY DEF Once, OnceCarried
  <2>2. ASSUME NEW f \in Carried(j, v)
        PROVE  /\ Committed(f) /\ Unsent(f)
               /\ \A k \in Instances : \A l \in DOMAIN loop[k] : f \notin Deferred(k, l)
               /\ \A k \in Instances, u \in Workers : f \in Carried(k, u) => j = k /\ v = u
    BY DEF Once, OnceCarried
  <2>3. \A f \in Carried(j, v) : Unsent(f)' /\ \A k \in Instances : \A l \in DOMAIN loop'[k] :
          f \notin Deferred(k, l)'
    BY <1>2, <1>5, <2>2 DEF Committed
  <2> QED BY <1>3, <1>4, <2>1, <2>2, <2>3
<1>7. OnceDeferred'
  <2> SUFFICES ASSUME NEW j \in Instances, NEW k \in DOMAIN loop'[j]
               PROVE  /\ Distinct(loop'[j][k].frames)
                      /\ \A f \in Deferred(j, k)' :
                           /\ Committed(f)' /\ Unsent(f)'
                           /\ \A n \in Instances : \A l \in DOMAIN loop'[n] :
                                f \in Deferred(n, l)' => j = n /\ k = l
    BY DEF OnceDeferred
  <2>1. PICK old \in DOMAIN loop[j] :
          /\ loop'[j][k] = loop[j][old] /\ Deferred(j, k)' = Deferred(j, old)
          /\ (j = i => old = k + 1 /\ old # 1) /\ (j # i => old = k)
    BY <1>5
  <2>2. Distinct(loop'[j][k].frames)
    BY <2>1 DEF Once, OnceDeferred
  <2>3. ASSUME NEW f \in Deferred(j, old)
        PROVE  /\ Committed(f) /\ Unsent(f)
               /\ \A n \in Instances : \A l \in DOMAIN loop[n] :
                    f \in Deferred(n, l) => j = n /\ old = l
    BY DEF Once, OnceDeferred
  <2>4. ASSUME NEW f \in Deferred(j, old) PROVE Unsent(f)'
    <3>1. f \notin Deferred(i, 1)
      BY <1>2, <2>1, <2>3
    <3> QED BY <2>3, <3>1 DEF Committed
  <2>5. ASSUME NEW f \in Deferred(j, old), NEW n \in Instances, NEW l \in DOMAIN loop'[n],
               f \in Deferred(n, l)'
        PROVE  j = n /\ k = l
    <3>1. PICK was \in DOMAIN loop[n] :
            /\ Deferred(n, l)' = Deferred(n, was)
            /\ (n = i => was = l + 1) /\ (n # i => was = l)
      BY <1>5
    <3>2. j = n /\ old = was
      BY <2>3, <2>5, <3>1
    <3>3. k \in Nat /\ l \in Nat
      <4>1. loop' \in [Instances -> Seq(Closures)]
        BY Leaves DEF TypeOK
      <4> QED BY <4>1, Elements
    <3> QED BY <2>1, <3>1, <3>2, <3>3
  <2> QED BY <1>3, <2>1, <2>2, <2>3, <2>4, <2>5
<1> QED BY <1>6, <1>7

\* A closure is fanned out: the tabs of its instance have its frames, and so
\* have the wires.
LEMMA OnceBroadcast ==
  ASSUME TypeOK, Once, NEW i \in Instances, NEW except, Broadcasts(i, except)
  PROVE  Once' /\ Feed!Push
<1>1. /\ loop[i] # <<>> /\ loop' = [loop EXCEPT ![i] = Tail(@)] /\ UNCHANGED <<log, notes>>
      /\ UNCHANGED running
  BY DEF Broadcasts, dbVars
<1>2. PICK frames \in Seq(Frames) :
        frames = loop[i][1].frames /\ frames = Head(loop[i]).frames
  BY <1>1, HeadOfLoop
<1>3. 1 \in DOMAIN loop[i] /\ Deferred(i, 1) = ToSet(frames)
  BY <1>1, <1>2, HeadOfLoop DEF Deferred
<1>4. /\ Distinct(frames)
      /\ \A f \in ToSet(frames) : f \in Frames /\ Committed(f) /\ Unsent(f)
  <2>1. Distinct(frames) /\ \A f \in ToSet(frames) : Committed(f) /\ Unsent(f)
    BY <1>2, <1>3 DEF Once, OnceDeferred
  <2>2. \A f \in ToSet(frames) : f \in Frames
    BY <1>2, Elements DEF ToSet
  <2> QED BY <2>1, <2>2
<1>5. \A j \in Instances :
        /\ \A k \in DOMAIN wire[j] : k \in DOMAIN wire'[j] /\ wire'[j][k] = wire[j][k]
        /\ \A k \in DOMAIN wire'[j] \ DOMAIN wire[j] :
             /\ k - Len(wire[j]) \in DOMAIN frames
             /\ wire'[j][k] = [from |-> i, frame |-> frames[k - Len(wire[j])]]
        /\ Len(wire[j]) \in Nat /\ DOMAIN wire'[j] \subseteq Nat
  <2>1. Publish(i, frames)
    BY <1>2 DEF Broadcasts
  <2> QED BY <2>1, Publishing
<1>6. \A t \in Tabs, f \in Frames :
        got'[t][f] = IF HomeOf[t] = i /\ f \in ToSet(frames) /\ IsFor(f, t)
                          /\ UserOf[t] \notin except
                     THEN got[t][f] + 1 ELSE got[t][f]
  <2>1. FanOut(i, frames, except)
    BY <1>2 DEF Broadcasts
  <2> QED BY <2>1, FanningOut
<1>7. got' \in [Tabs -> [Frames -> Nat]]
  BY <1>2, FanningOut DEF Broadcasts
<1>8. ASSUME NEW j \in Instances, NEW k \in DOMAIN wire'[j] \ DOMAIN wire[j]
      PROVE  wire'[j][k].frame \in ToSet(frames) /\ wire'[j][k].from = i
  <2>1. /\ k - Len(wire[j]) \in DOMAIN frames
        /\ wire'[j][k] = [from |-> i, frame |-> frames[k - Len(wire[j])]]
    BY <1>5
  <2> QED BY <2>1 DEF ToSet
<1>9. \A f : Committed(f)' = Committed(f)
  BY <1>1 DEF Committed
<1>10. \A t \in Tabs, f \in Frames : f \notin ToSet(frames) => got'[t][f] = got[t][f]
  BY <1>6
<1>11. ASSUME NEW f, Unsent(f), f \notin Deferred(i, 1), f \in Frames PROVE Unsent(f)'
  <2>1. \A t \in Tabs : got'[t][f] = 0
    BY <1>3, <1>10, <1>11 DEF Unsent
  <2>2. \A j \in Instances : \A l \in DOMAIN wire'[j] : wire'[j][l].frame # f
    BY <1>3, <1>5, <1>8, <1>11 DEF Unsent
  <2> QED BY <2>1, <2>2 DEF Unsent
<1>12. OnceCarried' /\ OnceDeferred'
  BY <1>1, <1>11, OnceShorter
<1>13. OnceWired'
  <2> SUFFICES ASSUME NEW j \in Instances, NEW k \in DOMAIN wire'[j]
               PROVE  /\ Committed(wire'[j][k].frame)
                      /\ \A l \in DOMAIN wire'[j] :
                           wire'[j][k].frame = wire'[j][l].frame => k = l
                      /\ wire'[j][k].from # j =>
                           \A t \in Tabs : HomeOf[t] = j => got'[t][wire'[j][k].frame] = 0
    BY <1>1 DEF OnceWired, Committed
  <2>1. \A l \in DOMAIN wire[j] : wire[j][l].frame \notin ToSet(frames)
    BY <1>4 DEF Unsent
  <2>2. CASE k \in DOMAIN wire[j]
    <3>1. wire'[j][k] = wire[j][k] /\ Committed(wire[j][k].frame)
      BY <1>5, <2>2 DEF Once, OnceWired
    <3>2. \A l \in DOMAIN wire'[j] : wire'[j][k].frame = wire'[j][l].frame => k = l
      <4> SUFFICES ASSUME NEW l \in DOMAIN wire'[j], wire'[j][k].frame = wire'[j][l].frame
                   PROVE  k = l
        OBVIOUS
      <4>1. l \in DOMAIN wire[j]
        BY <1>8, <2>1, <2>2, <3>1
      <4> QED BY <1>5, <2>2, <4>1 DEF Once, OnceWired
    <3>3. wire[j][k].from # j =>
            \A t \in Tabs : HomeOf[t] = j => got'[t][wire[j][k].frame] = 0
      <4>1. wire[j][k].frame \in Frames /\ wire[j][k].frame \notin ToSet(frames)
        BY <2>1, <2>2, <3>1 DEF Committed
      <4> QED BY <1>10, <2>2, <4>1 DEF Once, OnceWired
    <3> QED BY <3>1, <3>2, <3>3
  <2>3. CASE k \notin DOMAIN wire[j]
    <3>1. /\ wire'[j][k].frame \in ToSet(frames) /\ wire'[j][k].from = i
          /\ wire'[j][k].frame \in Frames /\ Committed(wire'[j][k].frame)
      BY <1>4, <1>8, <2>3
    <3>2. \A l \in DOMAIN wire'[j] : wire'[j][k].frame = wire'[j][l].frame => k = l
      <4> SUFFICES ASSUME NEW l \in DOMAIN wire'[j], wire'[j][k].frame = wire'[j][l].frame
                   PROVE  k = l
        OBVIOUS
      <4>1. l \notin DOMAIN wire[j]
        BY <1>5, <2>1, <3>1
      <4>2. /\ k - Len(wire[j]) \in DOMAIN frames /\ l - Len(wire[j]) \in DOMAIN frames
            /\ frames[k - Len(wire[j])] = frames[l - Len(wire[j])]
        <5>1. ASSUME NEW n \in DOMAIN wire'[j] \ DOMAIN wire[j]
              PROVE  /\ n - Len(wire[j]) \in DOMAIN frames
                     /\ wire'[j][n].frame = frames[n - Len(wire[j])]
          <6>1. /\ n - Len(wire[j]) \in DOMAIN frames
                /\ wire'[j][n] = [from |-> i, frame |-> frames[n - Len(wire[j])]]
            BY <1>5
          <6> QED BY <6>1
        <5> QED BY <2>3, <4>1, <5>1
      <4>3. k - Len(wire[j]) = l - Len(wire[j])
        BY <1>4, <4>2 DEF Distinct
      <4>4. k \in Nat /\ l \in Nat /\ Len(wire[j]) \in Nat
        BY <1>5
      <4> QED BY <4>3, <4>4
    <3>3. ASSUME NEW t \in Tabs, HomeOf[t] = j, j # i PROVE got'[t][wire'[j][k].frame] = 0
      BY <1>4, <1>6, <3>1, <3>3 DEF Unsent
    <3> QED BY <3>1, <3>2, <3>3
  <2> QED BY <2>2, <2>3
<1>14. \A t \in Tabs, f \in Frames : f \in ToSet(frames) => got[t][f] = 0
  BY <1>4 DEF Unsent
<1>15. OnceGot'
  BY <1>4, <1>6, <1>9, <1>14 DEF Once, OnceGot
<1>16. Feed!Push
  <2>1. got' \in [Tabs -> [Frames -> {0, 1}]]
    BY <1>7, <1>15 DEF OnceGot
  <2>2. \A t \in Tabs, f \in Frames : got'[t][f] # got[t][f] =>
          got[t][f] = 0 /\ Feed!IsCommitted(f) /\ Feed!IsFor(f, t)
    BY <1>4, <1>6, <1>14 DEF Feed!IsCommitted, Committed, Feed!IsFor, IsFor
  <2> QED BY <1>1, <2>1, <2>2 DEF Feed!Push
<1> QED BY <1>12, <1>13, <1>15, <1>16 DEF Once

LEMMA OnceSkip ==
  ASSUME TypeOK, Once, NEW i \in Instances, Skips(i)
  PROVE  Once' /\ UNCHANGED <<log, notes, got>>
<1>1. /\ loop[i] # <<>> /\ loop' = [loop EXCEPT ![i] = Tail(@)]
      /\ UNCHANGED <<running, log, notes, got, wire>>
  BY DEF Skips, dbVars
<1>2. \A f : Unsent(f)' = Unsent(f) /\ Committed(f)' = Committed(f)
  BY <1>1 DEF Unsent, Committed
<1>3. OnceCarried' /\ OnceDeferred'
  BY <1>1, <1>2, OnceShorter
<1>4. OnceWired' /\ OnceGot'
  BY <1>1, <1>2 DEF Once, OnceWired, OnceGot
<1> QED BY <1>1, <1>3, <1>4 DEF Once

\* Tabs and wires apart, a frame that is carried or deferred is left alone.
LEMMA OnceElsewhere ==
  ASSUME Once, UNCHANGED <<running, loop, log, notes>>,
         \A f \in Frames : Unsent(f) => Unsent(f)'
  PROVE  OnceCarried' /\ OnceDeferred'
<1>1. \A j \in Instances, v \in Workers : Carried(j, v)' = Carried(j, v)
  BY DEF Carried
<1>2. \A j \in Instances : \A l : Deferred(j, l)' = Deferred(j, l)
  BY DEF Deferred
<1>3. \A f : Committed(f)' = Committed(f) /\ (Committed(f) => f \in Frames)
  BY DEF Committed
<1>4. OnceCarried'
  BY <1>1, <1>2, <1>3 DEF Once, OnceCarried
<1>5. OnceDeferred'
  BY <1>2, <1>3 DEF Once, OnceDeferred
<1> QED BY <1>4, <1>5

\* An instance receives what another has published.
LEMMA OnceReceived ==
  ASSUME TypeOK, Once, NEW i \in Instances, Receive(i)
  PROVE  Once' /\ (Feed!Push \/ UNCHANGED <<log, notes, got>>)
<1>1. UNCHANGED <<running, loop, log, notes>>
  BY DEF Receive, dbVars, threadVars
<1>2. PICK head \in [from : Instances, frame : Frames] : head = wire[i][1]
  BY Receiving
<1>3. /\ TypeOK' /\ 1 \in DOMAIN wire[i]
      /\ \A k \in DOMAIN wire'[i] :
           k + 1 \in DOMAIN wire[i] /\ wire'[i][k] = wire[i][k + 1] /\ k + 1 # 1
      /\ \A j \in Instances : j # i => wire'[j] = wire[j]
      /\ IF head.from = i THEN got' = got
         ELSE \A t \in Tabs, f \in Frames :
                got'[t][f] = IF HomeOf[t] = i /\ f = head.frame /\ IsFor(f, t)
                             THEN got[t][f] + 1 ELSE got[t][f]
  BY <1>2, Receiving
<1>4. \A f : Committed(f)' = Committed(f) /\ (Committed(f) => f \in Frames)
  BY <1>1 DEF Committed
<1>5. /\ Committed(head.frame)
      /\ head.from # i => \A t \in Tabs : HomeOf[t] = i => got[t][head.frame] = 0
      /\ \A k \in DOMAIN wire[i] : wire[i][k].frame = head.frame => k = 1
  BY <1>2, <1>3 DEF Once, OnceWired
<1>6. \A k \in DOMAIN wire'[i] : wire'[i][k].frame # head.frame
  BY <1>3, <1>5
<1>7. \A t \in Tabs, f \in Frames :
        got'[t][f] # got[t][f] =>
          /\ head.from # i /\ HomeOf[t] = i /\ f = head.frame /\ IsFor(f, t)
          /\ got[t][f] = 0 /\ got'[t][f] = 1
  BY <1>3, <1>5
<1>8. ASSUME NEW f \in Frames, Unsent(f) PROVE Unsent(f)'
  <2>1. f # head.frame
    BY <1>2, <1>3, <1>8 DEF Unsent
  <2>2. \A t \in Tabs : got'[t][f] = 0
    BY <1>7, <1>8, <2>1 DEF Unsent
  <2>3. \A j \in Instances : \A l \in DOMAIN wire'[j] : wire'[j][l].frame # f
    BY <1>3, <1>8 DEF Unsent
  <2> QED BY <2>2, <2>3 DEF Unsent
<1>9. OnceCarried' /\ OnceDeferred'
  BY <1>1, <1>8, OnceElsewhere
<1>10. OnceWired'
  <2> SUFFICES ASSUME NEW j \in Instances, NEW k \in DOMAIN wire'[j]
               PROVE  /\ Committed(wire'[j][k].frame)
                      /\ \A l \in DOMAIN wire'[j] :
                           wire'[j][k].frame = wire'[j][l].frame => k = l
                      /\ wire'[j][k].from # j =>
                           \A t \in Tabs : HomeOf[t] = j => got'[t][wire'[j][k].frame] = 0
    BY <1>1 DEF OnceWired, Committed
  <2>1. CASE j = i
    <3>1. /\ Committed(wire'[i][k].frame)
          /\ wire'[i][k].from # i =>
               \A t \in Tabs : HomeOf[t] = i => got[t][wire'[i][k].frame] = 0
      BY <1>3, <2>1 DEF Once, OnceWired
    <3>2. \A l \in DOMAIN wire'[i] : wire'[i][k].frame = wire'[i][l].frame => k = l
      <4>1. \A l \in DOMAIN wire'[i] : l \in Nat
        <5>1. wire'[i] \in Seq([from : Instances, frame : Frames])
          BY <1>3 DEF TypeOK
        <5> QED BY <5>1, Elements
      <4> SUFFICES ASSUME NEW l \in DOMAIN wire'[i], wire'[i][k].frame = wire'[i][l].frame
                   PROVE  k = l
        OBVIOUS
      <4>2. k + 1 = l + 1
        BY <1>3, <2>1 DEF Once, OnceWired
      <4> QED BY <2>1, <4>1, <4>2
    <3>3. wire'[i][k].frame \in Frames /\ wire'[i][k].frame # head.frame
      BY <1>4, <1>6, <2>1, <3>1
    <3> QED BY <1>7, <2>1, <3>1, <3>2, <3>3
  <2>2. CASE j # i
    <3>1. wire'[j] = wire[j] /\ wire[j][k].frame \in Frames /\ Committed(wire[j][k].frame)
      BY <1>3, <1>4, <2>2 DEF Once, OnceWired
    <3> QED BY <1>7, <2>2, <3>1 DEF Once, OnceWired
  <2> QED BY <2>1, <2>2
<1>11. OnceGot'
  BY <1>4, <1>5, <1>7 DEF Once, OnceGot
<1>12. Feed!Push
  <2>1. got' \in [Tabs -> [Frames -> {0, 1}]]
    BY <1>3, <1>11 DEF TypeOK, OnceGot
  <2>2. \A t \in Tabs, f \in Frames : got'[t][f] # got[t][f] =>
          got[t][f] = 0 /\ Feed!IsCommitted(f) /\ Feed!IsFor(f, t)
    BY <1>5, <1>7 DEF Feed!IsCommitted, Committed, Feed!IsFor, IsFor
  <2> QED BY <1>1, <2>1, <2>2 DEF Feed!Push
<1> QED BY <1>9, <1>10, <1>11, <1>12 DEF Once

\* Redis loses what an instance has not received.
LEMMA OnceLost ==
  ASSUME TypeOK, Once, NEW i \in Instances, Lose(i)
  PROVE  Once' /\ UNCHANGED <<log, notes, got>>
<1>1. /\ UNCHANGED <<running, loop, log, notes, got>>
      /\ wire'[i] = <<>> /\ \A j \in Instances : j # i => wire'[j] = wire[j]
  BY Losing DEF dbVars, threadVars
<1>2. \A j \in Instances : \A k \in DOMAIN wire'[j] : j # i
  BY <1>1
<1>3. \A f : Unsent(f) => Unsent(f)'
  BY <1>1, <1>2 DEF Unsent
<1>4. \A f : Committed(f)' = Committed(f)
  BY <1>1 DEF Committed
<1>5. OnceCarried' /\ OnceDeferred'
  BY <1>1, <1>3, OnceElsewhere
<1>6. OnceWired' /\ OnceGot'
  BY <1>1, <1>2, <1>4 DEF Once, OnceWired, OnceGot
<1> QED BY <1>1, <1>5, <1>6 DEF Once

LEMMA Single ==
  ASSUME NEW f
  PROVE  /\ Append(<<>>, f) = <<f>> /\ Distinct(<<f>>)
         /\ \A g : g \in ToSet(<<f>>) <=> g = f
  BY DEF Distinct, ToSet

\* A frame is inserted before the last one.
LEMMA BeforeLast ==
  ASSUME NEW S, NEW s \in Seq(S), NEW f \in S, NEW last \in S,
         Distinct(Append(s, last)), f \notin ToSet(Append(s, last))
  PROVE  /\ Distinct(Append(Append(s, f), last))
         /\ \A g \in ToSet(Append(Append(s, f), last)) : g = f \/ g \in ToSet(Append(s, last))
<1> DEFINE old == Append(s, last)  new == Append(Append(s, f), last)  n == Len(s)
<1>1. /\ n \in Nat /\ DOMAIN old = 1 .. n + 1 /\ DOMAIN new = 1 .. n + 2
      /\ \A k \in 1 .. n : old[k] = s[k] /\ new[k] = s[k]
      /\ old[n + 1] = last /\ new[n + 1] = f /\ new[n + 2] = last
  OBVIOUS
<1> DEFINE was(k) == IF k = n + 2 THEN n + 1 ELSE k
<1>2. \A k \in DOMAIN new : k # n + 1 => was(k) \in DOMAIN old /\ new[k] = old[was(k)]
  BY <1>1
<1>3. \A k \in DOMAIN new : k # n + 1 => new[k] \in ToSet(old)
  BY <1>2 DEF ToSet
<1>4. ASSUME NEW k \in DOMAIN new, NEW l \in DOMAIN new, new[k] = new[l] PROVE k = l
  <2>1. k = n + 1 <=> l = n + 1
    BY <1>1, <1>3, <1>4
  <2>2. CASE k # n + 1
    <3>1. was(k) = was(l)
      BY <1>2, <1>4, <2>1, <2>2 DEF Distinct
    <3> QED BY <1>1, <2>1, <2>2, <3>1
  <2> QED BY <2>1, <2>2
<1>5. Distinct(new)
  BY <1>4 DEF Distinct
<1>6. ASSUME NEW g \in ToSet(new) PROVE g = f \/ g \in ToSet(old)
  <2>1. PICK k \in DOMAIN new : g = new[k]
    BY DEF ToSet
  <2> QED BY <1>1, <1>3, <2>1
<1> QED BY <1>5, <1>6

\* The frame of a change or a note that has just been written is a new one.
LEMMA NewFrames ==
  /\ DOMAIN log' = DOMAIN log \cup {Len(log) + 1} /\ Len(log) + 1 \notin DOMAIN log
       /\ Change(Len(log) + 1) \in Frames
     => ~Committed(Change(Len(log) + 1)) /\ \A f : f = Change(Len(log) + 1) => Committed(f)'
  /\ DOMAIN notes' = DOMAIN notes \cup {Len(notes) + 1} /\ Len(notes) + 1 \notin DOMAIN notes
       /\ Note(Len(notes) + 1) \in Frames
     => ~Committed(Note(Len(notes) + 1)) /\ \A f : f = Note(Len(notes) + 1) => Committed(f)'
  BY DEF Committed, Change, Note

\* A closure has the frame of the change that was committed with it.
LEMMA OnceAnnounced ==
  ASSUME TypeOK, Once, Grows, UNCHANGED <<wire, got>>,
         NEW i \in Instances, NEW w \in Workers, NEW closure \in Closures,
         ~Posted(running[i][w]), ~Cleaning(running[i][w]),
         \A j \in Instances, v \in Workers :
           ~(j = i /\ v = w) => running'[j][v] = running[j][v],
         running'[i][w] = Idle,
         loop'[i] = Append(loop[i], closure),
         \A j \in Instances : j # i => loop'[j] = loop[j],
         closure.frames = <<Change(Len(log) + 1)>>,
         DOMAIN log' = DOMAIN log \cup {Len(log) + 1}, Len(log) + 1 \notin DOMAIN log
  PROVE  Once'
<1>1. PICK f : f = Change(Len(log) + 1)
  OBVIOUS
<1>2. closure.frames = <<f>> /\ Distinct(closure.frames) /\ ToSet(closure.frames) = {f}
  <2>1. closure.frames = <<f>>
    BY <1>1
  <2> QED BY <2>1, Single
<1>3. f \in Frames
  <2>1. closure.frames \in Seq(Frames)
    BY DEF Closures
  <2> QED BY <1>2, <2>1
<1>4. ~Committed(f) /\ Committed(f)'
  BY <1>1, <1>3, NewFrames
<1>5. Parcel(running'[i][w]) = <<>>
  BY DEF Parcel, Idle, Posted, Cleaning
<1>6. \A g \in ToSet(closure.frames) :
        g \in Carried(i, w) \/ (g \in Frames /\ ~Committed(g) /\ Committed(g)')
  BY <1>2, <1>3, <1>4
<1> QED BY <1>2, <1>5, <1>6, OnceDeferring

\* A task takes up the frame of the change that was committed with it.
LEMMA OnceTaken ==
  ASSUME TypeOK, Once, Grows, UNCHANGED <<loop, wire, got>>,
         NEW i \in Instances, NEW w \in Workers,
         \A j \in Instances, v \in Workers :
           ~(j = i /\ v = w) => running'[j][v] = running[j][v],
         Parcel(running'[i][w]) = <<Change(Len(log) + 1)>>,
         Parcel(running'[i][w]) \in Seq(Frames),
         DOMAIN log' = DOMAIN log \cup {Len(log) + 1}, Len(log) + 1 \notin DOMAIN log
  PROVE  Once'
<1>1. PICK f : f = Change(Len(log) + 1)
  OBVIOUS
<1>2. PICK parcel \in Seq(Frames) : parcel = Parcel(running'[i][w])
  OBVIOUS
<1>3. parcel = <<f>>
  BY <1>1, <1>2
<1>4. f \in Frames
  BY <1>2, <1>3
<1>5. ~Committed(f) /\ Committed(f)'
  BY <1>1, <1>4, NewFrames
<1>6. Distinct(parcel) /\ ToSet(parcel) = {f}
  BY <1>3, Single
<1>7. /\ Distinct(Parcel(running'[i][w]))
      /\ \A g \in ToSet(Parcel(running'[i][w])) :
           g \in Carried(i, w) \/ (g \in Frames /\ ~Committed(g) /\ Committed(g)')
  BY <1>2, <1>4, <1>5, <1>6
<1> QED BY <1>7, OnceBorn

LEMMA OnceWorks ==
  ASSUME TypeOK, Stored, Once, KnownStep, NEW i \in Instances, NEW w \in Workers, Works(i, w)
  PROVE  Once'
<1> DEFINE task == running[i][w]  next == running'[i][w]
           Another(j, v) == ~(j = i /\ v = w)
<1>1. Grows
  BY Growing
<1>2. ASSUME \A j \in Instances, v \in Workers : Another(j, v) => running'[j][v] = running[j][v],
             Parcel(next) = Parcel(task), UNCHANGED <<loop, wire, got>>
      PROVE  Once'
  <2>1. \A j \in Instances, v \in Workers : Parcel(running'[j][v]) = Parcel(running[j][v])
    BY <1>2
  <2> QED BY <1>1, <1>2, <2>1, OnceIdle
<1>3. CASE Dequeue(i, w)
  <2>1. /\ task = Idle /\ 1 \in DOMAIN tasks[i] /\ next = tasks[i][1]
        /\ \A j \in Instances, v \in Workers : Another(j, v) => running'[j][v] = running[j][v]
        /\ UNCHANGED <<loop, wire, got>>
    BY <1>3, Dequeuing
  <2>2. Begins(next)
    BY <2>1 DEF Stored
  <2>3. Parcel(next) = <<>>
    BY <2>2 DEF Begins, Posting, Parcel, Posted, Cleaning
  <2>4. Parcel(task) = <<>>
    BY <2>1 DEF Idle, Parcel, Posted, Cleaning
  <2> QED BY <1>2, <2>1, <2>3, <2>4
<1>4. CASE Checked(i, w)
  <2>1. PICK other \in Tasks \cup {Idle} :
          /\ running' = [running EXCEPT ![i][w] = other]
          /\ other # Idle => ~Posted(other) /\ ~Cleaning(other)
    BY <1>4 DEF Checked
  <2>2. /\ ~Posted(task) /\ ~Cleaning(task) /\ UNCHANGED <<loop, wire, got>>
    BY <1>4 DEF Checked
  <2>3. /\ next = other
        /\ \A j \in Instances, v \in Workers : Another(j, v) => running'[j][v] = running[j][v]
    <3>1. other \in Tasks \cup {Idle}
      BY <2>1
    <3> QED BY ZenonT(60), <2>1, <3>1, Worked
  <2>4. Parcel(other) = <<>> /\ Parcel(task) = <<>>
    BY <2>1, <2>2 DEF Parcel, Posted, Cleaning, Idle
  <2> QED BY <1>2, <2>2, <2>3, <2>4
<1>5. CASE Touched(i, w)
  <2> DEFINE u == task.user  m == task.message  kind == log'[Len(log) + 1].kind
  <2>1. task.op \in {"edit", "react", "unreact", "read"}
    BY <1>5 DEF Touched
  <2>2. task \in [op : {"edit", "react", "unreact", "read"}, user : Users, message : Nat]
        /\ ~Posted(task) /\ ~Cleaning(task)
    BY <2>1, TaskForms DEF TypeOK, Posted, Cleaning
  <2>3. u \in Users /\ m \in Nat \ {0}
    <3>1. m \in DOMAIN rows
      BY <2>1 DEF Stored, Refers
    <3> QED BY <2>2, <3>1, Elements DEF TypeOK
  <2>4. PICK except \in SUBSET Users :
          FinishWith(i, w, Announcing(<<Change(Next1(log))>>, except))
    BY <1>5 DEF Touched
  <2>5. kind \in {"edited", "reacted", "unreacted", "read"} /\ Log(kind, m, u)
        /\ UNCHANGED <<got, wire>>
    BY <1>5 DEF Touched
  <2>6. /\ DOMAIN log' = DOMAIN log \cup {Len(log) + 1} /\ Len(log) + 1 \notin DOMAIN log
        /\ Change(Next1(log)) \in Frames /\ Next1(log) = Len(log) + 1
    <3>1. PICK k \in {"new", "edited", "deleted", "reacted", "unreacted", "read"},
               l \in Nat \ {0}, v \in Users : k = kind /\ l = m /\ v = u
      BY <2>3, <2>5
    <3>2. Log(k, l, v)
      BY <2>5, <3>1
    <3> QED BY <3>2, Logging
  <2>7. <<Change(Len(log) + 1)>> \in Seq(Frames)
    BY <2>6
  <2>8. PICK closure \in Closures : closure = Announcing(<<Change(Len(log) + 1)>>, except)
    BY <2>7, Announcements
  <2>9. closure.frames = <<Change(Len(log) + 1)>> /\ FinishWith(i, w, closure)
    BY <2>4, <2>6, <2>8 DEF Announcing
  <2>10. /\ next = Idle /\ loop'[i] = Append(loop[i], closure)
         /\ \A j \in Instances, v \in Workers : Another(j, v) => running'[j][v] = running[j][v]
         /\ \A j \in Instances : j # i => loop'[j] = loop[j]
    BY <2>9, Finishing
  <2> QED BY <1>1, <2>2, <2>5, <2>6, <2>9, <2>10, OnceAnnounced
<1>6. CASE CreateMessage(i, w)
  <2>1. /\ task \in Sends /\ next \in Sends /\ Posted(next)
        /\ next.change = Len(log) + 1 /\ next.frames = <<>>
        /\ \A j \in Instances, v \in Workers : Another(j, v) => running'[j][v] = running[j][v]
        /\ Insert(task.user, task.tokens, task.reply, NoFile)
        /\ UNCHANGED <<loop, wire, got>>
    BY <1>6, Creating
  <2>2. PICK u \in Users, tokens \in Contents, reply \in Nat, file \in Uploads \cup {NoFile} :
          u = task.user /\ tokens = task.tokens /\ reply = task.reply /\ file = NoFile
    BY <2>1 DEF Sends
  <2>3. Insert(u, tokens, reply, file)
    BY <2>1, <2>2
  <2>4. /\ DOMAIN log' = DOMAIN log \cup {Len(log) + 1} /\ Len(log) + 1 \notin DOMAIN log
        /\ Change(Len(log) + 1) \in Frames
    BY <2>3, Inserting
  <2>5. Parcel(next) = <<Change(Len(log) + 1)>> /\ Parcel(next) \in Seq(Frames)
    <3>1. Parcel(next) = Append(<<>>, Change(Len(log) + 1))
      BY <2>1 DEF Parcel
    <3> QED BY <2>4, <3>1
  <2> QED BY <1>1, <2>1, <2>4, <2>5, OnceTaken
<1>7. CASE StoreMentions(i, w)
  <2>1. /\ Posted(task) /\ Posted(next) /\ next.change = task.change /\ next.frames = task.frames
        /\ \A j \in Instances, v \in Workers : Another(j, v) => running'[j][v] = running[j][v]
        /\ UNCHANGED <<loop, wire, got>>
    BY <1>7, Storing
  <2>2. Parcel(next) = Parcel(task)
    BY <2>1 DEF Parcel
  <2> QED BY <1>2, <2>1, <2>2
<1>8. CASE Notify(i, w)
  <2>1. /\ task \in Sends /\ Posted(task) /\ Posted(next) /\ next.change = task.change
        /\ next.frames = Append(task.frames, Note(Len(notes) + 1))
        /\ Note(Len(notes) + 1) \in Frames
        /\ \A j \in Instances, v \in Workers : Another(j, v) => running'[j][v] = running[j][v]
        /\ UNCHANGED <<loop, wire, got>>
    BY <1>8, Notifying
  <2>2. DOMAIN notes' = DOMAIN notes \cup {Len(notes) + 1} /\ Len(notes) + 1 \notin DOMAIN notes
    <3>1. \E p : /\ DOMAIN notes' = DOMAIN notes \cup {Len(notes) + 1}
                 /\ Len(notes) + 1 \notin DOMAIN notes
      BY <1>8, Notifying, Zenon
    <3> QED BY <3>1
  <2>3. PICK frames \in Seq(Frames), f \in Frames, last \in Frames :
          frames = task.frames /\ f = Note(Len(notes) + 1) /\ last = Change(task.change)
    <3>1. Parcel(task) = Append(task.frames, Change(task.change))
          /\ Parcel(task) \in Seq(Frames)
      BY <2>1, Parcels
    <3>2. task.frames \in Seq(Frames)
      BY <2>1 DEF Sends
    <3>3. Change(task.change) \in Frames
      <4>1. task.change \in 1 .. MaxChanges
        <5>1. task.change \in DOMAIN log
          BY <2>1 DEF Stored, Refers
        <5> QED BY <5>1, MessagesAssumption DEF Stored, TypeOK
      <4> QED BY <4>1 DEF Frames
    <3> QED BY <2>1, <3>2, <3>3
  <2>4. Parcel(task) = Append(frames, last) /\ Parcel(next) = Append(Append(frames, f), last)
    BY <2>1, <2>3 DEF Parcel
  <2>5. ~Committed(f) /\ Committed(f)'
    BY <2>2, <2>3, NewFrames
  <2>6. Distinct(Append(frames, last)) /\ f \notin ToSet(Append(frames, last))
    <3>1. Distinct(Parcel(task)) /\ \A g \in Carried(i, w) : Committed(g)
      BY DEF Once, OnceCarried
    <3> QED BY <2>4, <2>5, <3>1 DEF Carried
  <2>7. /\ Distinct(Append(Append(frames, f), last))
        /\ \A g \in ToSet(Append(Append(frames, f), last)) :
             g = f \/ g \in ToSet(Append(frames, last))
    BY <2>6, BeforeLast
  <2>8. /\ Distinct(Parcel(next))
        /\ \A g \in ToSet(Parcel(next)) :
             g \in Carried(i, w) \/ (g \in Frames /\ ~Committed(g) /\ Committed(g)')
    BY <2>4, <2>5, <2>7 DEF Carried
  <2>9. \A j \in Instances, v \in Workers :
          Another(j, v) => Parcel(running'[j][v]) = Parcel(running[j][v])
    BY <2>1
  <2> QED BY <1>1, <2>1, <2>8, <2>9, OnceBorn
<1>9. ASSUME HandsOver(i, w) PROVE Once'
  <2>1. PICK closure \in Closures : closure = Announcing(Parcel(task), {})
    BY <1>9 DEF HandsOver
  <2>2. closure.frames = Parcel(task) /\ Parcel(next) = <<>>
    BY <1>9, <2>1 DEF HandsOver, Announcing, Parcel, Idle, Posted, Cleaning
  <2>3. /\ \A j \in Instances, v \in Workers :
             Another(j, v) => Parcel(running'[j][v]) = Parcel(running[j][v])
        /\ loop'[i] = Append(loop[i], closure)
        /\ \A j \in Instances : j # i => loop'[j] = loop[j]
        /\ UNCHANGED <<wire, got>>
    BY <1>9, <2>1 DEF HandsOver
  <2>4. Distinct(closure.frames) /\ \A f \in ToSet(closure.frames) : f \in Carried(i, w)
    BY <2>2 DEF Once, OnceCarried, Carried
  <2> QED BY <1>1, <2>2, <2>3, <2>4, OnceDeferring
<1>10. CASE Assemble(i, w)
  <2>1. /\ task \in Completions /\ next \in Completions
        /\ \A j \in Instances, v \in Workers : Another(j, v) => running'[j][v] = running[j][v]
        /\ UNCHANGED <<loop, wire, got>>
    BY <1>10, Assembling
  <2>2. Parcel(next) = <<>> /\ Parcel(task) = <<>>
    BY <2>1 DEF Completions, Parcel, Posted, Cleaning
  <2> QED BY <1>2, <2>1, <2>2
<1>11. CASE CreateFileMessage(i, w)
  <2>1. /\ task \in Completions /\ next = Idle
        /\ \A j \in Instances, v \in Workers : Another(j, v) => running'[j][v] = running[j][v]
        /\ Insert(task.user, <<>>, 0, task.file)
        /\ \A j \in Instances : j # i => loop'[j] = loop[j]
        /\ UNCHANGED <<got, wire>>
    BY <1>11, CreatingFile
  <2>2. PICK closure \in Closures :
          /\ closure = [do |-> "uploaded", frames |-> <<Change(Len(log) + 1)>>,
                        file |-> task.file]
          /\ loop'[i] = Append(loop[i], closure)
    BY <1>11, CreatingFile
  <2>3. closure.frames = <<Change(Len(log) + 1)>>
    BY <2>2
  <2>4. <<>> \in Contents /\ 0 \in Nat
    BY DEF Contents
  <2>5. PICK u \in Users, tokens \in Contents, reply \in Nat, file \in Uploads \cup {NoFile} :
          u = task.user /\ tokens = <<>> /\ reply = 0 /\ file = task.file
    BY <2>1, <2>4 DEF Completions
  <2>6. Insert(u, tokens, reply, file)
    BY <2>1, <2>5
  <2>7. DOMAIN log' = DOMAIN log \cup {Len(log) + 1} /\ Len(log) + 1 \notin DOMAIN log
    BY <2>6, Inserting
  <2>8. ~Posted(task) /\ ~Cleaning(task)
    BY <2>1 DEF Completions, Posted, Cleaning
  <2> QED BY <1>1, <2>1, <2>2, <2>3, <2>7, <2>8, OnceAnnounced
<1>12. CASE DeleteRow(i, w)
  <2>1. /\ task \in Deletions /\ next \in Deletions /\ Cleaning(next)
        /\ next.change = Len(log) + 1 /\ task.message \in Nat \ {0}
        /\ \A j \in Instances, v \in Workers : Another(j, v) => running'[j][v] = running[j][v]
        /\ Log("deleted", task.message, task.user)
        /\ UNCHANGED <<loop, wire, got>>
    BY <1>12, Marking
  <2>2. PICK k \in {"new", "edited", "deleted", "reacted", "unreacted", "read"},
             l \in Nat \ {0}, v \in Users :
          k = "deleted" /\ l = task.message /\ v = task.user
    BY <2>1 DEF Deletions
  <2>3. /\ DOMAIN log' = DOMAIN log \cup {Len(log) + 1} /\ Len(log) + 1 \notin DOMAIN log
        /\ Change(Len(log) + 1) \in Frames
    <3>1. Log(k, l, v)
      BY <2>1, <2>2
    <3> QED BY <3>1, Logging
  <2>4. Parcel(next) = <<Change(Len(log) + 1)>> /\ Parcel(next) \in Seq(Frames)
    <3>1. Parcel(next) = <<Change(Len(log) + 1)>>
      BY <2>1 DEF Parcel, Posted, Cleaning
    <3> QED BY <2>3, <3>1
  <2> QED BY <1>1, <2>1, <2>3, <2>4, OnceTaken
<1>13. FinishSending(i, w) \/ RemoveBlob(i, w) => HandsOver(i, w)
  BY EndingSend, Removing
<1> QED
  BY <1>3, <1>4, <1>5, <1>6, <1>7, <1>8, <1>9, <1>10, <1>11, <1>12, <1>13
     DEF Works, WorkerWrites

\* A step keeps Once, and what tabs are sent the feed sends them.
LEMMA OnceStep ==
  ASSUME TypeOK, Stored, Once, KnownStep
  PROVE  Once' /\ (Feed!Push \/ UNCHANGED got)
<1>1. Grows
  BY Growing
<1>2. ASSUME NEW i \in Instances, NEW w \in Workers, Works(i, w)
      PROVE  Once' /\ UNCHANGED got
  <2>1. UNCHANGED got
    BY <1>2 DEF Works, Dequeue, Checked, Touched, WorkerWrites, CreateMessage, StoreMentions,
       Notify, FinishSending, Assemble, CreateFileMessage, DeleteRow, RemoveBlob
  <2> QED BY <1>2, <2>1, OnceWorks
<1>3. ASSUME NEW i \in Instances, LoopStep(i)
      PROVE  Once' /\ (Feed!Push \/ UNCHANGED got)
  <2>1. PICK except : Broadcasts(i, except) \/ Skips(i)
    BY <1>3, RunningLoop
  <2> QED BY <2>1, OnceBroadcast, OnceSkip
<1>4. ASSUME NEW i \in Instances, Receive(i) \/ Lose(i)
      PROVE  Once' /\ (Feed!Push \/ UNCHANGED got)
  BY <1>4, OnceReceived, OnceLost
<1>5. CASE Requested \/ Elsewhere \/ UNCHANGED vars
  <2>1. UNCHANGED <<running, loop, wire, got>>
    BY <1>5 DEF Requested, Elsewhere, vars, threadVars
  <2>2. \A j \in Instances, v \in Workers : Parcel(running'[j][v]) = Parcel(running[j][v])
    BY <2>1
  <2> QED BY <1>1, <2>1, <2>2, OnceIdle
<1> QED BY <1>2, <1>3, <1>4, <1>5 DEF KnownStep

-----------------------------------------------------------------------------
(* The feed *)

FeedInv == TypeOK /\ Stored /\ Told /\ Once

\* At first nothing is stored, and no frame is anywhere.
LEMMA FeedStarts == Init => FeedInv /\ Feed!Init
<1> SUFFICES ASSUME Init PROVE FeedInv /\ Feed!Init
  OBVIOUS
<1>1. /\ rows = <<>> /\ notes = <<>> /\ log = <<>>
      /\ tasks = [i \in Instances |-> <<>>] /\ loop = [i \in Instances |-> <<>>]
      /\ wire = [i \in Instances |-> <<>>]
      /\ running = [i \in Instances |-> [w \in Workers |-> Idle]]
      /\ got = [t \in Tabs |-> [f \in Frames |-> 0]]
  BY DEF Init
<1>2. /\ DOMAIN rows = {} /\ DOMAIN notes = {} /\ DOMAIN log = {} /\ Len(log) = 0 /\ Len(notes) = 0
      /\ \A i \in Instances :
           /\ DOMAIN tasks[i] = {} /\ DOMAIN loop[i] = {} /\ DOMAIN wire[i] = {}
           /\ \A w \in Workers : running[i][w] = Idle
      /\ \A t \in Tabs, f \in Frames : got[t][f] = 0
  BY <1>1
<1>3. Refers(Idle) /\ ~Posted(Idle) /\ ~Cleaning(Idle)
  BY DEF Refers, Posted, Cleaning, Idle
<1>4. Stored
  BY <1>2, <1>3, MessagesAssumption DEF Stored
<1>5. Told
  BY <1>2 DEF Told
<1>6. Parcel(Idle) = <<>> /\ Distinct(<<>>) /\ ToSet(<<>>) = {}
  BY <1>3 DEF Parcel, Distinct, ToSet
<1>7. Once
  BY <1>2, <1>6 DEF Once, OnceCarried, OnceDeferred, OnceWired, OnceGot, Carried
<1> QED BY <1>1, <1>4, <1>5, <1>7, TypesStart DEF FeedInv, Feed!Init

LEMMA FeedStep ==
  ASSUME FeedInv, [Next]_vars
  PROVE  FeedInv' /\ [Feed!Next]_Feed!vars /\ KnownStep
<1>1. KnownStep /\ TypeOK'
  BY StepKinds DEF FeedInv
<1>2. Stored'
  BY <1>1, StoredStep DEF FeedInv
<1>3. Told' /\ (Feed!Commit \/ Feed!Notify \/ UNCHANGED <<log, notes>>)
  BY <1>1, ToldStep DEF FeedInv
<1>4. Once' /\ (Feed!Push \/ UNCHANGED got)
  BY <1>1, OnceStep DEF FeedInv
<1> QED BY <1>1, <1>2, <1>3, <1>4 DEF FeedInv, Feed!Next, Feed!vars

LEMMA FeedAlways == Spec => []FeedInv
<1>1. Init => FeedInv
  BY FeedStarts
<1>2. FeedInv /\ [Next]_vars => FeedInv'
  BY FeedStep
<1> QED BY <1>1, <1>2, PTL DEF Spec

(* The variables keep to their types: no task works on a record it was not *)
(* given, no frame is made that was not committed, and no queue, loop or   *)
(* wire holds anything but tasks, closures and frames                      *)
(* (ws_handler.cpp, file_handler.cpp).                                     *)
THEOREM TypesHold == Spec => []TypeOK
<1>1. FeedInv => TypeOK
  BY DEF FeedInv
<1> QED BY <1>1, FeedAlways, PTL

(* The tasks, the loops and Redis implement the feed: a change that is     *)
(* committed is legal for what was committed before it, a notification is  *)
(* for somebody other than the author of a posted message, and no tab is   *)
(* sent a frame twice, or before it is committed, or that is for another   *)
(* user (local_fan_out, publish and the subscriber of redis_pubsub).       *)
THEOREM FeedImplemented == Spec => ImplementsFeed
<1>1. Init => Feed!Init
  BY FeedStarts
<1>2. FeedInv /\ [Next]_vars => [Feed!Next]_Feed!vars
  BY FeedStep
<1> QED BY <1>1, <1>2, FeedAlways, PTL DEF Spec, ImplementsFeed, Feed!Spec

-----------------------------------------------------------------------------
(* The attachments *)

\* Nothing happens to a file.
SameRows(f) ==
  /\ \A m \in DOMAIN rows : rows[m].file = f =>
       m \in DOMAIN rows' /\ rows'[m].file = f /\ rows'[m].deleted = rows[m].deleted
  /\ \A m \in DOMAIN rows' : rows'[m].file = f =>
       m \in DOMAIN rows /\ rows[m].file = f /\ rows'[m].deleted = rows[m].deleted
SameWorkers(f) ==
  \A i \in Instances, w \in Workers :
    /\ Uploading(running'[i][w], f) =>
         Uploading(running[i][w], f) /\ (running'[i][w].at = "insert" => running[i][w].at = "insert")
    /\ Uploading(running[i][w], f) /\ running[i][w].at = "insert" =>
         Uploading(running'[i][w], f) /\ running'[i][w].at = "insert"
    /\ Cleaning(running[i][w]) /\ rows[running[i][w].message].file = f =>
         Cleaning(running'[i][w]) /\ rows'[running'[i][w].message].file = f
NoMoreTasks(f) ==
  \A i \in Instances : \A k \in DOMAIN tasks'[i] : Uploading(tasks'[i][k], f) =>
    k \in DOMAIN tasks[i] /\ Uploading(tasks[i][k], f)

LEMMA AttachedStays ==
  ASSUME NEW f, AttachedTo(f), SameRows(f), SameWorkers(f), NoMoreTasks(f),
         uploads'[f] = "ready" => uploads[f] = "ready", f \in blobs' <=> f \in blobs
  PROVE  AttachedTo(f)'
<1>1. uploads'[f] = "ready" =>
        /\ \A m \in DOMAIN rows' : rows'[m].file # f
        /\ \A i \in Instances : \A k \in DOMAIN tasks'[i] : ~Uploading(tasks'[i][k], f)
        /\ \A i \in Instances, w \in Workers : ~Uploading(running'[i][w], f)
  BY DEF AttachedTo, SameRows, SameWorkers, NoMoreTasks
<1>2. \A m, n \in DOMAIN rows' : rows'[m].file = f /\ rows'[n].file = f => m = n
  BY DEF AttachedTo, SameRows
<1>3. ASSUME NEW i \in Instances, NEW k \in DOMAIN tasks'[i], Uploading(tasks'[i][k], f)
      PROVE  /\ \A m \in DOMAIN rows' : rows'[m].file # f
             /\ \A j \in Instances, w \in Workers : ~Uploading(running'[j][w], f)
             /\ \A j \in Instances : \A l \in DOMAIN tasks'[j] :
                  Uploading(tasks'[j][l], f) => i = j /\ k = l
  <2>1. k \in DOMAIN tasks[i] /\ Uploading(tasks[i][k], f)
    BY <1>3 DEF NoMoreTasks
  <2>2. /\ \A m \in DOMAIN rows : rows[m].file # f
        /\ \A j \in Instances, w \in Workers : ~Uploading(running[j][w], f)
        /\ \A j \in Instances : \A l \in DOMAIN tasks[j] :
             Uploading(tasks[j][l], f) => i = j /\ k = l
    BY <2>1 DEF AttachedTo
  <2> QED BY <2>2 DEF SameRows, SameWorkers, NoMoreTasks
<1>4. ASSUME NEW i \in Instances, NEW w \in Workers, Uploading(running'[i][w], f)
      PROVE  /\ \A m \in DOMAIN rows' : rows'[m].file # f
             /\ \A j \in Instances, v \in Workers :
                  Uploading(running'[j][v], f) => i = j /\ w = v
             /\ running'[i][w].at = "insert" => f \in blobs'
  <2>1. Uploading(running[i][w], f) /\ (running'[i][w].at = "insert" => running[i][w].at = "insert")
    BY <1>4 DEF SameWorkers
  <2>2. /\ \A m \in DOMAIN rows : rows[m].file # f
        /\ \A j \in Instances, v \in Workers :
             Uploading(running[j][v], f) => i = j /\ w = v
        /\ running[i][w].at = "insert" => f \in blobs
    BY <2>1 DEF AttachedTo
  <2> QED BY <2>1, <2>2 DEF SameRows, SameWorkers
<1>5. \A m \in DOMAIN rows' : rows'[m].file = f /\ ~rows'[m].deleted => f \in blobs'
  BY DEF AttachedTo, SameRows
<1>6. ASSUME f \in blobs'
      PROVE  \/ \E m \in DOMAIN rows' : rows'[m].file = f /\ ~rows'[m].deleted
             \/ \E i \in Instances, w \in Workers :
                  Uploading(running'[i][w], f) /\ running'[i][w].at = "insert"
             \/ \E i \in Instances, w \in Workers :
                  Cleaning(running'[i][w]) /\ rows'[running'[i][w].message].file = f
  <2>1. \/ \E m \in DOMAIN rows : rows[m].file = f /\ ~rows[m].deleted
        \/ \E i \in Instances, w \in Workers :
             Uploading(running[i][w], f) /\ running[i][w].at = "insert"
        \/ \E i \in Instances, w \in Workers :
             Cleaning(running[i][w]) /\ rows[running[i][w].message].file = f
    BY <1>6 DEF AttachedTo
  <2>2. CASE \E m \in DOMAIN rows : rows[m].file = f /\ ~rows[m].deleted
    BY <2>2 DEF SameRows
  <2>3. CASE \E i \in Instances, w \in Workers :
               Uploading(running[i][w], f) /\ running[i][w].at = "insert"
    BY <2>3 DEF SameWorkers
  <2>4. CASE \E i \in Instances, w \in Workers :
               Cleaning(running[i][w]) /\ rows[running[i][w].message].file = f
    BY <2>4 DEF SameWorkers
  <2> QED BY <2>1, <2>2, <2>3, <2>4
<1> QED BY <1>1, <1>2, <1>3, <1>4, <1>5, <1>6 DEF AttachedTo

\* A request to complete an upload is the one of its file.
LEMMA AttachedRequest ==
  ASSUME TypeOK, Attached, Requested
  PROVE  Attached'
<1>1. PICK i \in Instances, task \in Tasks :
        /\ Begins(task)
        /\ Submit(i, task)
        /\ IF task.op = "upload"
           THEN uploads[task.file] = "ready" /\ uploads' = [uploads EXCEPT ![task.file] = "asked"]
           ELSE UNCHANGED uploads
        /\ UNCHANGED <<rows, running, blobs>>
  BY DEF Requested, dbVars
<1>2. PICK last : last = Len(tasks[i]) + 1
  OBVIOUS
<1>3. /\ \A j \in Instances : j # i => tasks'[j] = tasks[j]
      /\ DOMAIN tasks'[i] = DOMAIN tasks[i] \cup {last} /\ last \notin DOMAIN tasks[i]
      /\ \A k \in DOMAIN tasks[i] : tasks'[i][k] = tasks[i][k]
      /\ tasks'[i][last] = task
  <2>1. tasks \in [Instances -> Seq(Tasks)] /\ tasks[i] \in Seq(Tasks)
    BY DEF TypeOK
  <2>2. tasks' = [tasks EXCEPT ![i] = Append(@, task)]
    BY <1>1 DEF Submit
  <2>3. tasks'[i] = Append(tasks[i], task) /\ \A j \in Instances : j # i => tasks'[j] = tasks[j]
    BY <2>1, <2>2, Joins
  <2> QED BY <1>2, <2>1, <2>3, Longer
<1>4. ASSUME NEW f \in Uploads, ~Uploading(task, f) PROVE AttachedTo(f)'
  <2>1. uploads'[f] = uploads[f]
    BY <1>1, <1>4 DEF Uploading, TypeOK
  <2>2. SameRows(f) /\ SameWorkers(f)
    BY <1>1 DEF SameRows, SameWorkers
  <2>3. NoMoreTasks(f)
    BY <1>3, <1>4 DEF NoMoreTasks
  <2> QED BY <1>1, <2>1, <2>2, <2>3, AttachedStays DEF Attached
<1>5. ASSUME NEW f \in Uploads, Uploading(task, f) PROVE AttachedTo(f)'
  <2>1. uploads[f] = "ready" /\ uploads'[f] # "ready"
    BY <1>1, <1>5 DEF Uploading, TypeOK
  <2>2. AttachedTo(f)
    BY DEF Attached
  <2>3. /\ \A m \in DOMAIN rows : rows[m].file # f
        /\ \A j \in Instances : \A k \in DOMAIN tasks[j] : ~Uploading(tasks[j][k], f)
        /\ \A j \in Instances, w \in Workers : ~Uploading(running[j][w], f)
    BY <2>1, <2>2 DEF AttachedTo
  <2>4. \A j \in Instances : \A k \in DOMAIN tasks'[j] :
          Uploading(tasks'[j][k], f) => j = i /\ k = last
    BY <1>3, <2>3
  <2>5. UNCHANGED <<rows, running, blobs>>
    BY <1>1
  <2>6. f \in blobs =>
          \E j \in Instances, w \in Workers :
            Cleaning(running[j][w]) /\ rows[running[j][w].message].file = f
    BY <2>2, <2>3 DEF AttachedTo
  <2> QED BY <2>1, <2>3, <2>4, <2>5, <2>6 DEF AttachedTo
<1> QED BY <1>4, <1>5 DEF Attached

\* A worker takes the upload from the queue.
LEMMA AttachedDequeue ==
  ASSUME TypeOK, Stored, Attached, NEW i \in Instances, NEW w \in Workers, Dequeue(i, w)
  PROVE  Attached'
<1>1. /\ running[i][w] = Idle /\ 1 \in DOMAIN tasks[i] /\ running'[i][w] = tasks[i][1]
      /\ \A j \in Instances, v \in Workers :
           ~(j = i /\ v = w) => running'[j][v] = running[j][v]
      /\ \A k \in DOMAIN tasks'[i] : k + 1 \in DOMAIN tasks[i]
                                     /\ tasks'[i][k] = tasks[i][k + 1] /\ k + 1 # 1
      /\ \A j \in Instances : j # i => tasks'[j] = tasks[j]
      /\ UNCHANGED <<rows, uploads, blobs>> /\ TypeOK'
  BY Dequeuing DEF dbVars
<1>2. Begins(tasks[i][1])
  BY <1>1 DEF Stored
<1>3. ~Cleaning(running[i][w]) /\ \A f : ~Uploading(running[i][w], f)
  BY <1>1 DEF Idle, Cleaning, Uploading
<1>4. \A f : Uploading(running'[i][w], f) => running'[i][w].at # "insert"
  BY <1>1, <1>2 DEF Begins, Posting, Uploading
<1> SUFFICES ASSUME NEW f \in Uploads PROVE AttachedTo(f)'
  BY DEF Attached
<1>5. AttachedTo(f)
  BY DEF Attached
<1>6. \A k \in DOMAIN tasks'[i] : k \in Nat
  <2>1. tasks'[i] \in Seq(Tasks)
    BY <1>1 DEF TypeOK
  <2> QED BY <2>1, Elements
<1>7. uploads'[f] = "ready" =>
        /\ \A m \in DOMAIN rows' : rows'[m].file # f
        /\ \A j \in Instances : \A k \in DOMAIN tasks'[j] : ~Uploading(tasks'[j][k], f)
        /\ \A j \in Instances, v \in Workers : ~Uploading(running'[j][v], f)
  BY <1>1, <1>5 DEF AttachedTo
<1>8. \A m, n \in DOMAIN rows' : rows'[m].file = f /\ rows'[n].file = f => m = n
  BY <1>1, <1>5 DEF AttachedTo
<1>9. ASSUME NEW j \in Instances, NEW k \in DOMAIN tasks'[j], Uploading(tasks'[j][k], f)
      PROVE  /\ \A m \in DOMAIN rows' : rows'[m].file # f
             /\ \A n \in Instances, v \in Workers : ~Uploading(running'[n][v], f)
             /\ \A n \in Instances : \A l \in DOMAIN tasks'[n] :
                  Uploading(tasks'[n][l], f) => j = n /\ k = l
  <2>1. PICK old \in DOMAIN tasks[j] :
          Uploading(tasks[j][old], f) /\ (j = i => old = k + 1 /\ old # 1) /\ (j # i => old = k)
    BY <1>1, <1>9
  <2>2. /\ \A m \in DOMAIN rows : rows[m].file # f
        /\ \A n \in Instances, v \in Workers : ~Uploading(running[n][v], f)
        /\ \A n \in Instances : \A l \in DOMAIN tasks[n] :
             Uploading(tasks[n][l], f) => j = n /\ old = l
    BY <1>5, <2>1 DEF AttachedTo
  <2>3. ~Uploading(running'[i][w], f)
    BY <1>1, <2>1, <2>2
  <2>4. ASSUME NEW n \in Instances, NEW l \in DOMAIN tasks'[n], Uploading(tasks'[n][l], f)
        PROVE  j = n /\ k = l
    <3>1. PICK was \in DOMAIN tasks[n] :
            Uploading(tasks[n][was], f) /\ (n = i => was = l + 1) /\ (n # i => was = l)
      BY <1>1, <2>4
    <3>2. j = n /\ old = was
      BY <2>2, <3>1
    <3> QED BY <1>6, <2>1, <3>1, <3>2
  <2> QED BY <1>1, <2>2, <2>3, <2>4
<1>10. ASSUME NEW j \in Instances, NEW u \in Workers, Uploading(running'[j][u], f)
       PROVE  /\ \A m \in DOMAIN rows' : rows'[m].file # f
              /\ \A n \in Instances, v \in Workers :
                   Uploading(running'[n][v], f) => j = n /\ u = v
              /\ running'[j][u].at = "insert" => f \in blobs'
  <2>1. CASE j = i /\ u = w
    <3>1. /\ \A m \in DOMAIN rows : rows[m].file # f
          /\ \A n \in Instances, v \in Workers : ~Uploading(running[n][v], f)
      BY <1>1, <1>5, <1>10, <2>1 DEF AttachedTo
    <3> QED BY <1>1, <1>4, <1>10, <2>1, <3>1
  <2>2. CASE ~(j = i /\ u = w)
    <3>1. Uploading(running[j][u], f) /\ running'[j][u] = running[j][u]
      BY <1>1, <1>10, <2>2
    <3>2. ~Uploading(running'[i][w], f)
      BY <1>1, <1>5, <3>1 DEF AttachedTo
    <3> QED BY <1>1, <1>5, <3>1, <3>2 DEF AttachedTo
  <2> QED BY <2>1, <2>2
<1>11. \A m \in DOMAIN rows' : rows'[m].file = f /\ ~rows'[m].deleted => f \in blobs'
  BY <1>1, <1>5 DEF AttachedTo
<1>12. ASSUME f \in blobs'
       PROVE  \/ \E m \in DOMAIN rows' : rows'[m].file = f /\ ~rows'[m].deleted
              \/ \E j \in Instances, v \in Workers :
                   Uploading(running'[j][v], f) /\ running'[j][v].at = "insert"
              \/ \E j \in Instances, v \in Workers :
                   Cleaning(running'[j][v]) /\ rows'[running'[j][v].message].file = f
  <2>1. \/ \E m \in DOMAIN rows : rows[m].file = f /\ ~rows[m].deleted
        \/ \E j \in Instances, v \in Workers :
             Uploading(running[j][v], f) /\ running[j][v].at = "insert"
        \/ \E j \in Instances, v \in Workers :
             Cleaning(running[j][v]) /\ rows[running[j][v].message].file = f
    BY <1>1, <1>5, <1>12 DEF AttachedTo
  <2> QED BY <1>1, <1>3, <2>1
<1> QED BY <1>7, <1>8, <1>9, <1>10, <1>11, <1>12 DEF AttachedTo

LEMMA AttachedAssemble ==
  ASSUME TypeOK, Attached, NEW i \in Instances, NEW w \in Workers, Assemble(i, w)
  PROVE  Attached'
<1> DEFINE task == running[i][w]  next == running'[i][w]
<1>1. /\ task \in Completions /\ next \in Completions
      /\ task.at = "assemble" /\ next.at = "insert" /\ next.file = task.file
      /\ \A j \in Instances, v \in Workers :
           ~(j = i /\ v = w) => running'[j][v] = running[j][v]
      /\ blobs' = blobs \cup {task.file}
      /\ UNCHANGED <<tasks, rows, uploads>>
  BY Assembling
<1>2. /\ ~Cleaning(task)
      /\ \A f : (Uploading(task, f) <=> task.file = f) /\ (Uploading(next, f) <=> task.file = f)
  BY <1>1 DEF Completions, Cleaning, Uploading
<1>3. ASSUME NEW f \in Uploads, task.file # f PROVE AttachedTo(f)'
  <2>1. SameRows(f) /\ SameWorkers(f) /\ NoMoreTasks(f)
    BY <1>1, <1>2, <1>3 DEF SameRows, SameWorkers, NoMoreTasks
  <2>2. f \in blobs' <=> f \in blobs
    BY <1>1, <1>3
  <2> QED BY <1>1, <2>1, <2>2, AttachedStays DEF Attached
<1>4. ASSUME NEW f \in Uploads, task.file = f PROVE AttachedTo(f)'
  <2>1. AttachedTo(f) /\ Uploading(running[i][w], f) /\ f \in blobs'
        /\ Uploading(running'[i][w], f) /\ running'[i][w].at = "insert"
    BY <1>1, <1>2, <1>4 DEF Attached
  <2>2. /\ uploads[f] # "ready" /\ \A m \in DOMAIN rows : rows[m].file # f
        /\ \A j \in Instances, v \in Workers : Uploading(running[j][v], f) => i = j /\ w = v
        /\ \A j \in Instances : \A k \in DOMAIN tasks[j] : ~Uploading(tasks[j][k], f)
    BY <2>1 DEF AttachedTo
  <2>3. \A j \in Instances, v \in Workers : Uploading(running'[j][v], f) => i = j /\ w = v
    BY <1>1, <2>2
  <2> QED BY <1>1, <2>1, <2>2, <2>3 DEF AttachedTo
<1> QED BY <1>3, <1>4 DEF Attached

\* The upload becomes a message.
LEMMA AttachedCreate ==
  ASSUME TypeOK, Stored, Attached, NEW i \in Instances, NEW w \in Workers,
         CreateFileMessage(i, w)
  PROVE  Attached'
<1> DEFINE task == running[i][w]
<1>1. /\ task \in Completions /\ task.at = "insert" /\ running'[i][w] = Idle
      /\ \A j \in Instances, v \in Workers :
           ~(j = i /\ v = w) => running'[j][v] = running[j][v]
      /\ Insert(task.user, <<>>, 0, task.file)
      /\ UNCHANGED <<tasks, uploads, blobs>>
  BY CreatingFile
<1>2. PICK u \in Users, tokens \in Contents, reply \in Nat, file \in Uploads \cup {NoFile} :
        u = task.user /\ tokens = <<>> /\ reply = 0 /\ file = task.file
  <2>1. <<>> \in Contents /\ 0 \in Nat
    BY DEF Contents
  <2> QED BY <1>1, <2>1 DEF Completions
<1>3. PICK new : new = Len(rows) + 1
  OBVIOUS
<1>4. /\ DOMAIN rows' = DOMAIN rows \cup {new} /\ new \notin DOMAIN rows
      /\ \A m \in DOMAIN rows : rows'[m] = rows[m]
      /\ rows'[new].file = task.file /\ ~rows'[new].deleted
  <2>1. Insert(u, tokens, reply, file)
    BY <1>1, <1>2
  <2>2. /\ DOMAIN rows' = DOMAIN rows \cup {Len(rows) + 1} /\ Len(rows) + 1 \notin DOMAIN rows
        /\ \A m \in DOMAIN rows : rows'[m] = rows[m]
        /\ rows'[Len(rows) + 1].file = file /\ ~rows'[Len(rows) + 1].deleted
    BY <2>1, Inserting
  <2> QED BY <1>2, <1>3, <2>2
<1>5. /\ ~Cleaning(task) /\ \A f : Uploading(task, f) <=> task.file = f
      /\ ~Cleaning(running'[i][w]) /\ \A f : ~Uploading(running'[i][w], f)
  BY <1>1 DEF Completions, Cleaning, Uploading, Idle
<1>6. ASSUME NEW f \in Uploads, task.file # f PROVE AttachedTo(f)'
  <2>1. SameRows(f) /\ NoMoreTasks(f)
    BY <1>1, <1>4, <1>6 DEF SameRows, NoMoreTasks
  <2>2. SameWorkers(f)
    <3> SUFFICES ASSUME NEW j \in Instances, NEW v \in Workers
                 PROVE  /\ Uploading(running'[j][v], f) =>
                             Uploading(running[j][v], f)
                               /\ (running'[j][v].at = "insert" => running[j][v].at = "insert")
                        /\ Uploading(running[j][v], f) /\ running[j][v].at = "insert" =>
                             Uploading(running'[j][v], f) /\ running'[j][v].at = "insert"
                        /\ Cleaning(running[j][v]) /\ rows[running[j][v].message].file = f =>
                             Cleaning(running'[j][v]) /\ rows'[running'[j][v].message].file = f
      BY DEF SameWorkers
    <3>1. CASE j = i /\ v = w
      BY <1>5, <1>6, <3>1
    <3>2. CASE ~(j = i /\ v = w)
      <4>1. Cleaning(running[j][v]) => running[j][v].message \in DOMAIN rows
        BY DEF Stored, Refers, Cleaning
      <4> QED BY <1>1, <1>4, <3>2, <4>1
    <3> QED BY <3>1, <3>2
  <2> QED BY <1>1, <2>1, <2>2, AttachedStays DEF Attached
<1>7. ASSUME NEW f \in Uploads, task.file = f PROVE AttachedTo(f)'
  <2>1. AttachedTo(f) /\ Uploading(running[i][w], f) /\ f \in blobs
    BY <1>1, <1>5, <1>7 DEF Attached, AttachedTo
  <2>2. /\ uploads[f] # "ready" /\ \A m \in DOMAIN rows : rows[m].file # f
        /\ \A j \in Instances, v \in Workers : Uploading(running[j][v], f) => i = j /\ w = v
        /\ \A j \in Instances : \A k \in DOMAIN tasks[j] : ~Uploading(tasks[j][k], f)
    BY <2>1 DEF AttachedTo
  <2>3. \A j \in Instances, v \in Workers : ~Uploading(running'[j][v], f)
    BY <1>1, <1>5, <2>2
  <2>4. \A m \in DOMAIN rows' : rows'[m].file = f => m = new
    BY <1>4, <2>2
  <2>5. rows'[new].file = f /\ ~rows'[new].deleted /\ new \in DOMAIN rows' /\ f \in blobs'
    BY <1>1, <1>4, <1>7, <2>1
  <2> QED BY <1>1, <2>2, <2>3, <2>4, <2>5 DEF AttachedTo
<1> QED BY <1>6, <1>7 DEF Attached

\* A message is marked as deleted; its attachment is then to be removed.
LEMMA AttachedMark ==
  ASSUME TypeOK, Stored, Attached, NEW i \in Instances, NEW w \in Workers, DeleteRow(i, w)
  PROVE  Attached'
<1> DEFINE task == running[i][w]
<1>1. PICK m : m = task.message
  OBVIOUS
<1>2. /\ task \in Deletions /\ ~Cleaning(task) /\ Cleaning(running'[i][w])
      /\ running'[i][w] \in Deletions
      /\ running'[i][w].message = m /\ m \in DOMAIN rows
      /\ \A j \in Instances, v \in Workers :
           ~(j = i /\ v = w) => running'[j][v] = running[j][v]
      /\ DOMAIN rows' = DOMAIN rows /\ rows'[m].deleted
      /\ \A l \in DOMAIN rows : rows'[l].file = rows[l].file
      /\ \A l \in DOMAIN rows : l # m => rows'[l] = rows[l]
      /\ UNCHANGED <<tasks, uploads, blobs>>
  BY <1>1, Marking
<1>3. \A f : ~Uploading(task, f) /\ ~Uploading(running'[i][w], f)
  BY <1>2 DEF Deletions, Uploading
<1>4. \A j \in Instances, v \in Workers :
        Cleaning(running[j][v]) => running[j][v].message \in DOMAIN rows
  BY DEF Stored, Refers, Cleaning
<1>5. \A f : \A j \in Instances, v \in Workers :
        Uploading(running[j][v], f) \/ Uploading(running'[j][v], f) =>
          running'[j][v] = running[j][v]
  BY <1>2, <1>3
<1>6. \A f : \A j \in Instances, v \in Workers :
        Cleaning(running[j][v]) /\ rows[running[j][v].message].file = f =>
          Cleaning(running'[j][v]) /\ rows'[running'[j][v].message].file = f
  BY <1>2, <1>4
<1>7. ASSUME NEW f \in Uploads, rows[m].file # f PROVE AttachedTo(f)'
  <2>1. SameRows(f) /\ NoMoreTasks(f)
    BY <1>2, <1>7 DEF SameRows, NoMoreTasks
  <2>2. SameWorkers(f)
    BY <1>5, <1>6 DEF SameWorkers
  <2> QED BY <1>2, <2>1, <2>2, AttachedStays DEF Attached
<1>8. ASSUME NEW f \in Uploads, rows[m].file = f PROVE AttachedTo(f)'
  <2>1. AttachedTo(f)
    BY DEF Attached
  <2>2. /\ uploads[f] # "ready"
        /\ \A j \in Instances, v \in Workers : ~Uploading(running[j][v], f)
        /\ \A j \in Instances : \A k \in DOMAIN tasks[j] : ~Uploading(tasks[j][k], f)
        /\ \A l \in DOMAIN rows : rows[l].file = f => l = m
    BY <1>2, <1>8, <2>1 DEF AttachedTo
  <2>3. ASSUME NEW j \in Instances, NEW v \in Workers PROVE ~Uploading(running'[j][v], f)
    <3>1. CASE j = i /\ v = w
      BY <1>3, <3>1
    <3>2. CASE ~(j = i /\ v = w)
      BY <1>2, <2>2, <3>2
    <3> QED BY <3>1, <3>2
  <2>4. Cleaning(running'[i][w]) /\ rows'[running'[i][w].message].file = f
    BY <1>2, <1>8
  <2>5. \A l \in DOMAIN rows' : rows'[l].file = f => l = m /\ rows'[l].deleted
    BY <1>2, <2>2
  <2> QED BY <1>2, <2>2, <2>3, <2>4, <2>5 DEF AttachedTo
<1> QED BY <1>7, <1>8 DEF Attached

\* The attachment of a deleted message is removed.
LEMMA AttachedRemove ==
  ASSUME TypeOK, Stored, Attached, NEW i \in Instances, NEW w \in Workers, RemoveBlob(i, w)
  PROVE  Attached'
<1> DEFINE task == running[i][w]
<1>1. PICK m : m = task.message
  OBVIOUS
<1>2. /\ task \in Deletions /\ Cleaning(task) /\ running'[i][w] = Idle
      /\ \A j \in Instances, v \in Workers :
           ~(j = i /\ v = w) => running'[j][v] = running[j][v]
      /\ blobs' = blobs \ {rows[m].file} /\ UNCHANGED <<tasks, rows, uploads>>
  BY <1>1, Removing DEF HandsOver
<1>3. m \in DOMAIN rows /\ rows[m].deleted
  BY <1>1, <1>2 DEF Stored, Refers, Cleaning
<1>4. \A f : ~Uploading(task, f) /\ ~Uploading(running'[i][w], f)
  BY <1>2 DEF Deletions, Uploading, Idle
<1>5. \A f : \A j \in Instances, v \in Workers :
        Uploading(running[j][v], f) \/ Uploading(running'[j][v], f) =>
          running'[j][v] = running[j][v]
  BY <1>2, <1>4
<1>6. ASSUME NEW f \in Uploads, rows[m].file # f PROVE AttachedTo(f)'
  <2>1. SameRows(f) /\ NoMoreTasks(f)
    BY <1>2 DEF SameRows, NoMoreTasks
  <2>2. SameWorkers(f)
    BY <1>1, <1>2, <1>5, <1>6 DEF SameWorkers
  <2>3. f \in blobs' <=> f \in blobs
    BY <1>2, <1>6
  <2> QED BY <1>2, <2>1, <2>2, <2>3, AttachedStays DEF Attached
<1>7. ASSUME NEW f \in Uploads, rows[m].file = f PROVE AttachedTo(f)'
  <2>1. AttachedTo(f) /\ f \notin blobs'
    BY <1>2, <1>7 DEF Attached
  <2>2. /\ uploads[f] # "ready"
        /\ \A j \in Instances, v \in Workers : ~Uploading(running[j][v], f)
        /\ \A j \in Instances : \A k \in DOMAIN tasks[j] : ~Uploading(tasks[j][k], f)
        /\ \A l \in DOMAIN rows : rows[l].file = f => l = m
    BY <1>3, <1>7, <2>1 DEF AttachedTo
  <2>3. ASSUME NEW j \in Instances, NEW v \in Workers PROVE ~Uploading(running'[j][v], f)
    <3>1. CASE j = i /\ v = w
      BY <1>4, <3>1
    <3>2. CASE ~(j = i /\ v = w)
      BY <1>2, <2>2, <3>2
    <3> QED BY <3>1, <3>2
  <2> QED BY <1>2, <1>3, <2>1, <2>2, <2>3 DEF AttachedTo
<1> QED BY <1>6, <1>7 DEF Attached

\* A task that has no file, and removes none, goes on or ends.
LEMMA AttachedAside ==
  ASSUME Stored, Attached, NEW i \in Instances, NEW w \in Workers,
         \A f \in Uploads : ~Uploading(running[i][w], f) /\ ~Uploading(running'[i][w], f),
         ~Cleaning(running[i][w]),
         \A j \in Instances, v \in Workers :
           ~(j = i /\ v = w) => running'[j][v] = running[j][v],
         \A m \in DOMAIN rows : m \in DOMAIN rows' /\ rows'[m].file = rows[m].file,
         \A f \in Uploads : SameRows(f),
         UNCHANGED <<tasks, uploads, blobs>>
  PROVE  Attached'
<1> SUFFICES ASSUME NEW f \in Uploads PROVE AttachedTo(f)'
  BY DEF Attached
<1>1. \A j \in Instances, v \in Workers :
        Cleaning(running[j][v]) => running[j][v].message \in DOMAIN rows
  BY DEF Stored, Refers, Cleaning
<1>2. SameWorkers(f)
  <2> SUFFICES ASSUME NEW j \in Instances, NEW v \in Workers
               PROVE  /\ Uploading(running'[j][v], f) =>
                           Uploading(running[j][v], f)
                             /\ (running'[j][v].at = "insert" => running[j][v].at = "insert")
                      /\ Uploading(running[j][v], f) /\ running[j][v].at = "insert" =>
                           Uploading(running'[j][v], f) /\ running'[j][v].at = "insert"
                      /\ Cleaning(running[j][v]) /\ rows[running[j][v].message].file = f =>
                           Cleaning(running'[j][v]) /\ rows'[running'[j][v].message].file = f
    BY DEF SameWorkers
  <2>1. CASE j = i /\ v = w
    BY <2>1
  <2>2. CASE ~(j = i /\ v = w)
    BY <1>1, <2>2
  <2> QED BY <2>1, <2>2
<1>3. NoMoreTasks(f)
  BY DEF NoMoreTasks
<1> QED BY <1>2, <1>3, AttachedStays DEF Attached

LEMMA AttachedStep ==
  ASSUME TypeOK, Stored, Attached, KnownStep
  PROVE  Attached'
<1>1. ASSUME UNCHANGED <<rows, tasks, running, blobs>>,
             \A f \in Uploads : uploads[f] = "ready" <=> uploads'[f] = "ready"
      PROVE  Attached'
  <2>1. \A f \in Uploads : SameRows(f) /\ SameWorkers(f) /\ NoMoreTasks(f)
    BY <1>1 DEF SameRows, SameWorkers, NoMoreTasks
  <2> QED BY <1>1, <2>1, AttachedStays DEF Attached
<1>2. CASE Requested
  BY <1>2, AttachedRequest
<1>3. CASE Elsewhere
  BY <1>1, <1>3 DEF Elsewhere, threadVars
<1>4. CASE UNCHANGED vars
  BY <1>1, <1>4 DEF vars, dbVars, threadVars
<1>5. ASSUME NEW i \in Instances, LoopStep(i) \/ Receive(i) \/ Lose(i) PROVE Attached'
  <2>1. UNCHANGED <<rows, tasks, running, blobs, uploads>>
    BY <1>5 DEF LoopStep, RunAnnounce, RunUploaded, Receive, Lose, dbVars, threadVars
  <2> QED BY <1>1, <2>1
<1>6. ASSUME NEW i \in Instances, NEW w \in Workers, Works(i, w) PROVE Attached'
  <2> DEFINE task == running[i][w]  next == running'[i][w]
             Another(j, v) == ~(j = i /\ v = w)
  <2>1. UNCHANGED rows => \A f \in Uploads : SameRows(f)
    BY DEF SameRows
  <2>2. \A other : other.op = "send" \/ other = Idle =>
          ~Cleaning(other) /\ \A f \in Uploads : ~Uploading(other, f)
    BY DEF Cleaning, Uploading, Idle
  <2>3. CASE Dequeue(i, w)
    BY <2>3, AttachedDequeue
  <2>4. CASE Checked(i, w)
    <3>1. PICK old \in Tasks \cup {Idle}, other \in Tasks \cup {Idle} :
            /\ old = task /\ running' = [running EXCEPT ![i][w] = other]
            /\ other # Idle =>
                 /\ other = [old EXCEPT !.at = other.at]
                 /\ other.op = "upload" => old.at # "insert" /\ other.at # "insert"
            /\ other = Idle /\ old.op = "upload" => old.at # "insert"
      <4>1. task \in Tasks \cup {Idle}
        BY DEF TypeOK
      <4> QED BY <2>4, <4>1 DEF Checked
    <3>2. ~Cleaning(old) /\ old # Idle /\ UNCHANGED <<rows, tasks, uploads, blobs>>
      BY <2>4, <3>1 DEF Checked, dbVars
    <3>3. /\ next = other
          /\ \A j \in Instances, v \in Workers : Another(j, v) => running'[j][v] = running[j][v]
      <4>1. other \in Tasks \cup {Idle} /\ running' = [running EXCEPT ![i][w] = other]
        BY <3>1
      <4>2. /\ running'[i][w] = other
            /\ \A j \in Instances, v \in Workers :
                 ~(j = i /\ v = w) => running'[j][v] = running[j][v]
        BY ZenonT(60), <4>1, Worked
      <4> QED BY <4>2
    <3>4. ASSUME NEW f, Uploading(other, f) PROVE Uploading(old, f) /\ other.at # "insert"
      <4>1. other # Idle /\ other = [old EXCEPT !.at = other.at] /\ other.op = "upload"
        BY <3>1, <3>4 DEF Uploading, Idle
      <4>2. old.op = "upload" /\ other.file = old.file
        BY <3>2, <4>1 DEF Tasks, Sends, Completions, Deletions
      <4> QED BY <3>1, <3>4, <4>1, <4>2 DEF Uploading
    <3>5. ASSUME NEW f, Uploading(old, f) PROVE old.at # "insert"
      <4>1. CASE other = Idle
        BY <3>1, <3>5, <4>1 DEF Uploading
      <4>2. CASE other # Idle
        <5>1. old.op = "upload" /\ other = [old EXCEPT !.at = other.at]
          BY <3>1, <3>5, <4>2 DEF Uploading
        <5>2. old \in Completions
          BY <3>2, <5>1, TaskForms
        <5>3. other.op = "upload"
          BY <5>1, <5>2 DEF Completions
        <5> QED BY <3>1, <4>2, <5>3
      <4> QED BY <4>1, <4>2
    <3> SUFFICES ASSUME NEW f \in Uploads PROVE AttachedTo(f)'
      BY DEF Attached
    <3>6. SameWorkers(f)
      <4> SUFFICES ASSUME NEW j \in Instances, NEW v \in Workers
                   PROVE  /\ Uploading(running'[j][v], f) =>
                               Uploading(running[j][v], f)
                                 /\ (running'[j][v].at = "insert" => running[j][v].at = "insert")
                          /\ Uploading(running[j][v], f) /\ running[j][v].at = "insert" =>
                               Uploading(running'[j][v], f) /\ running'[j][v].at = "insert"
                          /\ Cleaning(running[j][v]) /\ rows[running[j][v].message].file = f =>
                               Cleaning(running'[j][v])
                                 /\ rows'[running'[j][v].message].file = f
        BY DEF SameWorkers
      <4>1. CASE j = i /\ v = w
        BY <3>1, <3>2, <3>3, <3>4, <3>5, <4>1
      <4>2. CASE Another(j, v)
        BY <3>2, <3>3, <4>2
      <4> QED BY <4>1, <4>2
    <3>7. SameRows(f) /\ NoMoreTasks(f)
      BY <3>2 DEF SameRows, NoMoreTasks
    <3> QED BY <3>2, <3>6, <3>7, AttachedStays DEF Attached
  <2>5. CASE Touched(i, w)
    <3>1. /\ DOMAIN rows' = DOMAIN rows
          /\ \A l \in DOMAIN rows : rows'[l] = [rows[l] EXCEPT !.text = rows'[l].text]
          /\ task.op \in {"edit", "react", "unreact", "read"}
          /\ running' = [running EXCEPT ![i][w] = Idle] /\ UNCHANGED <<tasks, uploads, blobs>>
      BY <2>5 DEF Touched, FinishWith
    <3>2. \A l \in DOMAIN rows : rows'[l].file = rows[l].file /\ rows'[l].deleted = rows[l].deleted
      <4>1. \A l \in DOMAIN rows : rows[l] \in Rows
        BY Elements DEF TypeOK
      <4> QED BY <3>1, <4>1 DEF Rows
    <3>3. \A f \in Uploads : SameRows(f)
      BY <3>1, <3>2 DEF SameRows
    <3>4. /\ next = Idle
          /\ \A j \in Instances, v \in Workers : Another(j, v) => running'[j][v] = running[j][v]
      <4>1. Idle \in Tasks \cup {Idle}
        OBVIOUS
      <4> QED BY ZenonT(60), <3>1, <4>1, Worked
    <3>5. ~Cleaning(task) /\ \A f \in Uploads : ~Uploading(task, f) /\ ~Uploading(next, f)
      BY <2>2, <3>1, <3>4 DEF Cleaning, Uploading
    <3> QED BY <3>1, <3>2, <3>3, <3>4, <3>5, AttachedAside
  <2>6. CASE CreateMessage(i, w)
    <3>1. /\ task \in Sends /\ next \in Sends
          /\ \A j \in Instances, v \in Workers : Another(j, v) => running'[j][v] = running[j][v]
          /\ Insert(task.user, task.tokens, task.reply, NoFile)
          /\ UNCHANGED <<tasks, uploads, blobs>>
      BY <2>6, Creating
    <3>2. PICK u \in Users, tokens \in Contents, reply \in Nat, file \in Uploads \cup {NoFile} :
            u = task.user /\ tokens = task.tokens /\ reply = task.reply /\ file = NoFile
      BY <3>1 DEF Sends
    <3>3. Insert(u, tokens, reply, file)
      BY <3>1, <3>2
    <3>4. /\ DOMAIN rows' = DOMAIN rows \cup {Len(rows) + 1}
          /\ \A m \in DOMAIN rows : rows'[m] = rows[m]
          /\ rows'[Len(rows) + 1].file = file
      BY <3>3, Inserting
    <3>5. \A f \in Uploads : SameRows(f)
      BY <3>2, <3>4, MessagesAssumption DEF SameRows
    <3>6. task.op = "send" /\ next.op = "send"
      BY <3>1 DEF Sends
    <3> QED BY <2>2, <3>1, <3>4, <3>5, <3>6, AttachedAside
  <2>7. CASE StoreMentions(i, w) \/ Notify(i, w)
    <3>1. /\ task \in Sends /\ next \in Sends
          /\ \A j \in Instances, v \in Workers : Another(j, v) => running'[j][v] = running[j][v]
          /\ UNCHANGED <<rows, tasks, uploads, blobs>>
      BY <2>7, Storing, Notifying
    <3>2. task.op = "send" /\ next.op = "send"
      BY <3>1 DEF Sends
    <3> QED BY <2>1, <2>2, <3>1, <3>2, AttachedAside
  <2>8. CASE FinishSending(i, w)
    <3>1. /\ task \in Sends /\ next = Idle
          /\ \A j \in Instances, v \in Workers : Another(j, v) => running'[j][v] = running[j][v]
          /\ UNCHANGED <<rows, tasks, uploads, blobs>>
      BY <2>8, EndingSend DEF HandsOver
    <3>2. task.op = "send"
      BY <3>1 DEF Sends
    <3> QED BY <2>1, <2>2, <3>1, <3>2, AttachedAside
  <2> QED
    BY <1>6, <2>3, <2>4, <2>5, <2>6, <2>7, <2>8, AttachedAssemble, AttachedCreate, AttachedMark,
       AttachedRemove DEF Works, WorkerWrites
<1> QED BY <1>2, <1>3, <1>4, <1>5, <1>6 DEF KnownStep

LEMMA AttachedStarts == Init => Attached
<1> SUFFICES ASSUME Init, NEW f \in Uploads PROVE AttachedTo(f)
  BY DEF Attached
<1>1. /\ DOMAIN rows = {} /\ blobs = {}
      /\ \A i \in Instances : DOMAIN tasks[i] = {} /\ \A w \in Workers : running[i][w] = Idle
  BY DEF Init
<1>2. ~Uploading(Idle, f) /\ ~Cleaning(Idle)
  BY DEF Uploading, Cleaning, Idle
<1> QED BY <1>1, <1>2 DEF AttachedTo

LEMMA AttachedMatches ==
  ASSUME TypeOK, Attached
  PROVE  BlobsMatchMessages
<1>1. ASSUME NEW m \in DOMAIN rows, rows[m].file # NoFile, ~rows[m].deleted
      PROVE  rows[m].file \in blobs
  <2>1. rows[m] \in Rows
    BY Elements DEF TypeOK
  <2>2. rows[m].file \in Uploads
    BY <1>1, <2>1 DEF Rows
  <2> QED BY <1>1, <2>2 DEF Attached, AttachedTo
<1>2. ASSUME Quiet, NEW f \in blobs
      PROVE  \E m \in DOMAIN rows : rows[m].file = f /\ ~rows[m].deleted
  <2>1. \A i \in Instances, w \in Workers :
          ~Uploading(running[i][w], f) /\ ~Cleaning(running[i][w])
    BY <1>2 DEF Quiet, Idle, Uploading, Cleaning
  <2>2. AttachedTo(f) /\ f \in Uploads
    BY DEF Attached, TypeOK
  <2> QED BY <2>1, <2>2 DEF AttachedTo
<1> QED BY <1>1, <1>2 DEF BlobsMatchMessages

(* A live message finds its attachment, and nothing is left in the storage *)
(* when a message is deleted: every request to complete an upload makes a   *)
(* file of its own or none, one message comes of it, and whoever marks it  *)
(* as deleted goes on to remove the file                                   *)
(* (the completion of an upload, delete_message, admin_delete_message).    *)
THEOREM AttachmentsHold == Spec => []BlobsMatchMessages
<1>1. Init => Attached
  BY AttachedStarts
<1>2. FeedInv /\ Attached /\ [Next]_vars => Attached'
  <2> SUFFICES ASSUME FeedInv, Attached, [Next]_vars PROVE Attached'
    OBVIOUS
  <2>1. KnownStep
    BY FeedStep
  <2> QED BY <2>1, AttachedStep DEF FeedInv
<1>3. FeedInv /\ Attached => BlobsMatchMessages
  BY AttachedMatches DEF FeedInv
<1> QED BY <1>1, <1>2, <1>3, FeedAlways, PTL DEF Spec

-----------------------------------------------------------------------------
(* The deliveries *)

\* What is owed, and spared, of a change does not change.
LEMMA OwedStays ==
  ASSUME Told, Grows, NEW n \in DOMAIN log
  PROVE  /\ n \in DOMAIN log' /\ \A t \in Tabs : Owed(n, t)' <=> Owed(n, t)
         /\ \A closure : Spares(closure, n)' <=> Spares(closure, n)
<1>1. n \in DOMAIN log' /\ log'[n] = log[n]
  BY DEF Grows
<1>2. log[n].message \in DOMAIN rows
  BY DEF Told
<1>3. rows'[log[n].message].file = rows[log[n].message].file
  BY <1>2 DEF Grows
<1> QED BY <1>1, <1>3 DEF Owed, Spares

\* A frame stays where it is, or is carried or deferred elsewhere.
LEMMA ReachesStill ==
  ASSUME UNCHANGED <<wire, got>>,
         \A j \in Instances : \A k \in DOMAIN loop[j] :
           k \in DOMAIN loop'[j] /\ loop'[j][k] = loop[j][k],
         NEW f, NEW t \in Tabs, Reaches(f, t),
         \A j \in Instances, v \in Workers : f \in Carried(j, v) =>
           \/ \E i \in Instances, w \in Workers : f \in ToSet(Parcel(running'[i][w]))
           \/ \E i \in Instances : \E k \in DOMAIN loop'[i] : f \in ToSet(loop'[i][k].frames)
  PROVE  Reaches(f, t)'
<1>1. \A i \in Instances, w \in Workers : Carried(i, w)' = ToSet(Parcel(running'[i][w]))
  BY DEF Carried
<1>2. \A i \in Instances : \A k : Deferred(i, k)' = ToSet(loop'[i][k].frames)
  BY DEF Deferred
<1>3. CASE got[t][f] = 1
  BY <1>3 DEF Reaches
<1>4. CASE \E i \in Instances, w \in Workers : f \in Carried(i, w)
  BY <1>1, <1>2, <1>4 DEF Reaches, UnderWay
<1>5. CASE \E i \in Instances : \E k \in DOMAIN loop[i] : f \in Deferred(i, k)
  <2>1. PICK i \in Instances : \E k \in DOMAIN loop[i] : f \in Deferred(i, k)
    BY <1>5
  <2>3. PICK k \in DOMAIN loop[i] : f \in Deferred(i, k)
    BY <2>1
  <2>2. f \in Deferred(i, k)' /\ k \in DOMAIN loop'[i]
    BY <2>3 DEF Deferred
  <2> QED BY <2>2 DEF Reaches, UnderWay
<1>6. CASE \E k \in DOMAIN wire[HomeOf[t]] :
             wire[HomeOf[t]][k].frame = f /\ wire[HomeOf[t]][k].from # HomeOf[t]
  BY <1>6 DEF Reaches, UnderWay
<1> QED BY <1>3, <1>4, <1>5, <1>6 DEF Reaches, UnderWay

\* A closure is put at the end of a loop.
LEMMA Appended ==
  ASSUME TypeOK, NEW i \in Instances, NEW closure \in Closures,
         loop'[i] = Append(loop[i], closure),
         \A j \in Instances : j # i => loop'[j] = loop[j]
  PROVE  /\ \A j \in Instances : \A k \in DOMAIN loop[j] :
              k \in DOMAIN loop'[j] /\ loop'[j][k] = loop[j][k]
         /\ \E k \in DOMAIN loop'[i] : loop'[i][k] = closure
         /\ \A j \in Instances : \A k \in DOMAIN loop'[j] :
              k \in DOMAIN loop[j] \/ loop'[j][k] = closure
<1>1. loop[i] \in Seq(Closures)
  BY DEF TypeOK
<1>2. /\ DOMAIN loop'[i] = DOMAIN loop[i] \cup {Len(loop[i]) + 1}
      /\ loop'[i][Len(loop[i]) + 1] = closure
      /\ \A k \in DOMAIN loop[i] : loop'[i][k] = loop[i][k]
  BY <1>1, Longer
<1> QED BY <1>2

\* What a worker does with the frames it carries and the changes it commits.
Conveys(i, w) ==
  /\ UNCHANGED <<wire, got, dropped>>
  /\ \A j \in Instances, v \in Workers : ~(j = i /\ v = w) => running'[j][v] = running[j][v]
  /\ \A j \in Instances : \A k \in DOMAIN loop[j] :
       k \in DOMAIN loop'[j] /\ loop'[j][k] = loop[j][k]
  /\ \A f : f \in Carried(i, w) \/ (\E n \in DOMAIN log' \ DOMAIN log : f = Change(n)) =>
       \/ f \in ToSet(Parcel(running'[i][w]))
       \/ \E k \in DOMAIN loop'[i] : f \in ToSet(loop'[i][k].frames)
  /\ \A j \in Instances : \A k \in DOMAIN loop'[j] \ DOMAIN loop[j] : \A closure :
       closure = loop'[j][k] =>
         \A n \in DOMAIN log' : Change(n) \in ToSet(closure.frames) => Spares(closure, n)'

LEMMA DeliveredConveying ==
  ASSUME TypeOK, Stored, Told, Once, Spared, Delivered, Grows,
         NEW i \in Instances, NEW w \in Workers, Conveys(i, w)
  PROVE  Spared' /\ Delivered'
<1>1. /\ UNCHANGED <<wire, got, dropped>>
      /\ \A j \in Instances, v \in Workers : ~(j = i /\ v = w) => running'[j][v] = running[j][v]
      /\ \A j \in Instances : \A k \in DOMAIN loop[j] :
           k \in DOMAIN loop'[j] /\ loop'[j][k] = loop[j][k]
  BY DEF Conveys
<1>2. ASSUME NEW f, f \in Carried(i, w) \/ (\E n \in DOMAIN log' \ DOMAIN log : f = Change(n))
      PROVE  \/ f \in ToSet(Parcel(running'[i][w]))
             \/ \E k \in DOMAIN loop'[i] : f \in ToSet(loop'[i][k].frames)
  BY <1>2 DEF Conveys
<1>3. ASSUME NEW f, NEW j \in Instances, NEW v \in Workers, f \in Carried(j, v)
      PROVE  \/ \E n \in Instances, u \in Workers : f \in ToSet(Parcel(running'[n][u]))
             \/ \E n \in Instances : \E k \in DOMAIN loop'[n] : f \in ToSet(loop'[n][k].frames)
  <2>1. CASE j = i /\ v = w
    BY <1>2, <1>3, <2>1
  <2>2. CASE ~(j = i /\ v = w)
    BY <1>1, <1>3, <2>2 DEF Carried
  <2> QED BY <2>1, <2>2
<1>4. ASSUME NEW n \in DOMAIN log', NEW t \in Tabs, Owed(n, t)', ~dropped'
      PROVE  Reaches(Change(n), t)'
  <2>1. PICK f : f = Change(n)
    OBVIOUS
  <2>2. CASE n \in DOMAIN log
    <3>1. Reaches(f, t)
      BY <1>1, <1>4, <2>1, <2>2, OwedStays DEF Delivered
    <3>2. Reaches(f, t)'
      BY <1>1, <1>3, <3>1, ReachesStill
    <3> QED BY <2>1, <3>2
  <2>3. CASE n \notin DOMAIN log
    <3>1. \/ f \in ToSet(Parcel(running'[i][w]))
          \/ \E k \in DOMAIN loop'[i] : f \in ToSet(loop'[i][k].frames)
      BY <1>2, <2>1, <2>3
    <3>2. Reaches(f, t)'
      BY <3>1 DEF Reaches, UnderWay, Carried, Deferred
    <3> QED BY <2>1, <3>2
  <2> QED BY <2>2, <2>3
<1>5. ASSUME NEW j \in Instances, NEW k \in DOMAIN loop'[j], NEW n \in DOMAIN log',
             Change(n) \in ToSet(loop'[j][k].frames)
      PROVE  Spares(loop[j][k], n)'
  <2>1. PICK closure : closure = loop'[j][k]
    OBVIOUS
  <2>2. Spares(closure, n)'
    <3>1. CASE k \in DOMAIN loop[j]
      <4>1. loop[j][k] = closure /\ Change(n) \in Deferred(j, k)
        BY <1>1, <1>5, <2>1, <3>1 DEF Deferred
      <4>2. Committed(Change(n))
        BY <3>1, <4>1 DEF Once, OnceDeferred
      <4>3. n \in DOMAIN log
        BY <4>2 DEF Committed, Change
      <4> QED BY <3>1, <4>1, <4>3, OwedStays DEF Spared
    <3>2. CASE k \notin DOMAIN loop[j]
      BY <1>5, <2>1, <3>2 DEF Conveys
    <3> QED BY <3>1, <3>2
  <2> QED BY <2>1, <2>2 DEF Spares
<1>6. Spared'
  BY <1>5 DEF Spared, Deferred
<1> QED BY <1>4, <1>6 DEF Delivered

\* A task keeps its frames, and takes those of the changes it commits.
LEMMA ConveysCarrying ==
  ASSUME UNCHANGED <<loop, wire, got, dropped>>, NEW i \in Instances, NEW w \in Workers,
         \A j \in Instances, v \in Workers :
           ~(j = i /\ v = w) => running'[j][v] = running[j][v],
         \A f \in Carried(i, w) : f \in ToSet(Parcel(running'[i][w])),
         \A n \in DOMAIN log' \ DOMAIN log : Change(n) \in ToSet(Parcel(running'[i][w]))
  PROVE  Conveys(i, w)
  BY DEF Conveys

\* A task hands its frames to the loop, and those of the changes it commits.
LEMMA ConveysDeferring ==
  ASSUME TypeOK, UNCHANGED <<wire, got, dropped>>, NEW i \in Instances, NEW w \in Workers,
         NEW closure \in Closures,
         \A j \in Instances, v \in Workers :
           ~(j = i /\ v = w) => running'[j][v] = running[j][v],
         loop'[i] = Append(loop[i], closure),
         \A j \in Instances : j # i => loop'[j] = loop[j],
         \A f \in Carried(i, w) : f \in ToSet(closure.frames),
         \A n \in DOMAIN log' \ DOMAIN log : Change(n) \in ToSet(closure.frames),
         \A n \in DOMAIN log' : Change(n) \in ToSet(closure.frames) => Spares(closure, n)'
  PROVE  Conveys(i, w)
<1>1. /\ \A j \in Instances : \A k \in DOMAIN loop[j] :
           k \in DOMAIN loop'[j] /\ loop'[j][k] = loop[j][k]
      /\ \E k \in DOMAIN loop'[i] : loop'[i][k] = closure
      /\ \A j \in Instances : \A k \in DOMAIN loop'[j] :
           k \in DOMAIN loop[j] \/ loop'[j][k] = closure
  BY Appended
<1>2. PICK k \in DOMAIN loop'[i] : loop'[i][k] = closure
  BY <1>1
<1>3. \A f : f \in ToSet(closure.frames) =>
        \E l \in DOMAIN loop'[i] : f \in ToSet(loop'[i][l].frames)
  BY <1>2
<1>4. \A f : f \in Carried(i, w) \/ (\E n \in DOMAIN log' \ DOMAIN log : f = Change(n)) =>
        \E l \in DOMAIN loop'[i] : f \in ToSet(loop'[i][l].frames)
  BY <1>3
<1>5. ASSUME NEW j \in Instances, NEW l \in DOMAIN loop'[j] \ DOMAIN loop[j], NEW other,
             other = loop'[j][l]
      PROVE  other = closure
  BY <1>1, <1>5
<1> QED BY <1>1, <1>4, <1>5 DEF Conveys

\* A closure announces the change that was committed with it.
LEMMA ConveysAnnouncement ==
  ASSUME TypeOK, UNCHANGED <<wire, got, dropped>>,
         NEW i \in Instances, NEW w \in Workers, NEW closure \in Closures,
         ~Posted(running[i][w]), ~Cleaning(running[i][w]),
         \A j \in Instances, v \in Workers :
           ~(j = i /\ v = w) => running'[j][v] = running[j][v],
         loop'[i] = Append(loop[i], closure),
         \A j \in Instances : j # i => loop'[j] = loop[j],
         closure.frames = <<Change(Len(log) + 1)>>,
         DOMAIN log' = DOMAIN log \cup {Len(log) + 1},
         \A n : n = Len(log) + 1 => Spares(closure, n)'
  PROVE  Conveys(i, w)
<1>1. PICK n : n = Len(log) + 1
  OBVIOUS
<1>2. PICK f : f = Change(n)
  OBVIOUS
<1>3. closure.frames = <<f>> /\ \A g : g \in ToSet(<<f>>) <=> g = f
  <2>1. closure.frames = <<f>>
    BY <1>1, <1>2
  <2> QED BY <2>1, Single
<1>4. \A g \in Carried(i, w) : g \in ToSet(closure.frames)
  BY DEF Carried, Parcel, ToSet
<1>5. \A m \in DOMAIN log' \ DOMAIN log : Change(m) \in ToSet(closure.frames)
  BY <1>1, <1>2, <1>3
<1>6. \A m \in DOMAIN log' : Change(m) \in ToSet(closure.frames) => Spares(closure, m)'
  <2> SUFFICES ASSUME NEW m \in DOMAIN log', Change(m) \in ToSet(closure.frames)
               PROVE  Spares(closure, m)'
    OBVIOUS
  <2>1. m = n
    BY <1>2, <1>3 DEF Change
  <2> QED BY <1>1, <2>1
<1> QED BY <1>4, <1>5, <1>6, ConveysDeferring

\* What is announced to all spares nobody.
LEMMA SparesNobody ==
  ASSUME NEW closure, closure.do = "announce", closure.except = {}, NEW n
  PROVE  Spares(closure, n)'
  BY DEF Spares

LEMMA ConveysTouched ==
  ASSUME TypeOK, Stored, NEW i \in Instances, NEW w \in Workers, Touched(i, w)
  PROVE  Conveys(i, w)
<1> DEFINE task == running[i][w]  next == running'[i][w]
           u == task.user  m == task.message  kind == log'[Len(log) + 1].kind
<1>1. task.op \in {"edit", "react", "unreact", "read"}
  BY DEF Touched
<1>2. task \in [op : {"edit", "react", "unreact", "read"}, user : Users, message : Nat]
      /\ ~Posted(task) /\ ~Cleaning(task)
  BY <1>1, TaskForms DEF TypeOK, Posted, Cleaning
<1>3. u \in Users /\ m \in Nat \ {0}
  <2>1. m \in DOMAIN rows
    BY <1>1 DEF Stored, Refers
  <2> QED BY <1>2, <2>1, Elements DEF TypeOK
<1>4. PICK except \in SUBSET Users :
        /\ except \subseteq IF kind = "read" THEN {u} ELSE {}
        /\ FinishWith(i, w, Announcing(<<Change(Next1(log))>>, except))
  BY DEF Touched
<1>5. kind \in {"edited", "reacted", "unreacted", "read"} /\ Log(kind, m, u)
      /\ UNCHANGED <<got, wire, dropped>>
  BY DEF Touched
<1>6. /\ DOMAIN log' = DOMAIN log \cup {Len(log) + 1}
      /\ log'[Len(log) + 1].by = u
      /\ Change(Next1(log)) \in Frames /\ Next1(log) = Len(log) + 1
  <2>1. PICK k \in {"new", "edited", "deleted", "reacted", "unreacted", "read"},
             l \in Nat \ {0}, v \in Users : k = kind /\ l = m /\ v = u
    BY <1>3, <1>5
  <2>2. Log(k, l, v)
    BY <1>5, <2>1
  <2>3. /\ DOMAIN log' = DOMAIN log \cup {Len(log) + 1}
        /\ log'[Len(log) + 1] = [kind |-> k, message |-> l, by |-> v]
        /\ Change(Next1(log)) \in Frames /\ Next1(log) = Len(log) + 1
    BY <2>2, Logging
  <2> QED BY <2>1, <2>3
<1>7. <<Change(Len(log) + 1)>> \in Seq(Frames)
  BY <1>6
<1>8. PICK closure \in Closures : closure = Announcing(<<Change(Len(log) + 1)>>, except)
  BY <1>7, Announcements
<1>9. /\ closure.frames = <<Change(Len(log) + 1)>> /\ closure.do = "announce"
      /\ closure.except = except /\ FinishWith(i, w, closure)
  BY <1>4, <1>6, <1>8 DEF Announcing
<1>10. /\ next = Idle /\ loop'[i] = Append(loop[i], closure)
       /\ \A j \in Instances, v \in Workers :
            ~(j = i /\ v = w) => running'[j][v] = running[j][v]
       /\ \A j \in Instances : j # i => loop'[j] = loop[j]
  BY <1>9, Finishing
<1>11. \A n : n = Len(log) + 1 => Spares(closure, n)'
  <2> SUFFICES ASSUME NEW n, n = Len(log) + 1 PROVE Spares(closure, n)'
    OBVIOUS
  <2>1. \A v \in closure.except : log'[n].kind = "read" /\ log'[n].by = v
    BY <1>4, <1>6, <1>9
  <2> QED BY <1>9, <2>1 DEF Spares
<1> QED BY <1>2, <1>5, <1>6, <1>9, <1>10, <1>11, ConveysAnnouncement

LEMMA ConveysFile ==
  ASSUME TypeOK, NEW i \in Instances, NEW w \in Workers, CreateFileMessage(i, w)
  PROVE  Conveys(i, w)
<1> DEFINE task == running[i][w]
<1>1. /\ task \in Completions
      /\ \A j \in Instances, v \in Workers :
           ~(j = i /\ v = w) => running'[j][v] = running[j][v]
      /\ Insert(task.user, <<>>, 0, task.file)
      /\ \A j \in Instances : j # i => loop'[j] = loop[j]
      /\ UNCHANGED <<got, wire, dropped>>
  BY CreatingFile
<1>2. PICK closure \in Closures :
        /\ closure = [do |-> "uploaded", frames |-> <<Change(Len(log) + 1)>>,
                      file |-> task.file]
        /\ loop'[i] = Append(loop[i], closure)
  BY CreatingFile
<1>3. closure.frames = <<Change(Len(log) + 1)>> /\ closure.do = "uploaded"
  BY <1>2
<1>4. <<>> \in Contents /\ 0 \in Nat
  BY DEF Contents
<1>5. PICK u \in Users, tokens \in Contents, reply \in Nat, file \in Uploads \cup {NoFile} :
        u = task.user /\ tokens = <<>> /\ reply = 0 /\ file = task.file
  BY <1>1, <1>4 DEF Completions
<1>6. Insert(u, tokens, reply, file)
  BY <1>1, <1>5
<1>7. /\ DOMAIN log' = DOMAIN log \cup {Len(log) + 1}
      /\ log'[Len(log) + 1] = [kind |-> "new", message |-> Len(rows) + 1, by |-> u]
      /\ rows'[Len(rows) + 1].file = file
  BY <1>6, Inserting
<1>8. file # NoFile
  BY <1>1, <1>5, MessagesAssumption DEF Completions
<1>9. \A n : n = Len(log) + 1 => Spares(closure, n)'
  <2> SUFFICES ASSUME NEW n, n = Len(log) + 1 PROVE Spares(closure, n)'
    OBVIOUS
  <2>1. log'[n].kind = "new" /\ rows'[log'[n].message].file # NoFile
    BY <1>7, <1>8
  <2> QED BY <1>3, <2>1 DEF Spares
<1>10. ~Posted(task) /\ ~Cleaning(task)
  BY <1>1 DEF Completions, Posted, Cleaning
<1> QED BY <1>1, <1>2, <1>3, <1>7, <1>9, <1>10, ConveysAnnouncement

LEMMA ConveysOver ==
  ASSUME TypeOK, NEW i \in Instances, NEW w \in Workers, HandsOver(i, w)
  PROVE  Conveys(i, w)
<1>1. PICK closure \in Closures : closure = Announcing(Parcel(running[i][w]), {})
  BY DEF HandsOver
<1>2. closure.frames = Parcel(running[i][w]) /\ closure.do = "announce" /\ closure.except = {}
  BY <1>1 DEF Announcing
<1>3. \A f \in Carried(i, w) : f \in ToSet(closure.frames)
  BY <1>2 DEF Carried
<1>4. \A n : Spares(closure, n)'
  BY <1>2, SparesNobody
<1>5. /\ \A j \in Instances, v \in Workers :
           ~(j = i /\ v = w) => running'[j][v] = running[j][v]
      /\ loop'[i] = Append(loop[i], closure)
      /\ \A j \in Instances : j # i => loop'[j] = loop[j]
      /\ UNCHANGED <<wire, got, log, dropped>>
  BY <1>1 DEF HandsOver
<1> QED BY <1>3, <1>4, <1>5, ConveysDeferring

\* A frame inserted before the last one takes nothing away.
LEMMA StillThere ==
  ASSUME NEW S, NEW s \in Seq(S), NEW f \in S, NEW last \in S
  PROVE  \A g \in ToSet(Append(s, last)) : g \in ToSet(Append(Append(s, f), last))
<1> DEFINE old == Append(s, last)  new == Append(Append(s, f), last)  n == Len(s)
<1>1. /\ n \in Nat /\ DOMAIN old = 1 .. n + 1 /\ DOMAIN new = 1 .. n + 2
      /\ \A k \in 1 .. n : old[k] = s[k] /\ new[k] = s[k]
      /\ old[n + 1] = last /\ new[n + 2] = last
  OBVIOUS
<1> SUFFICES ASSUME NEW g \in ToSet(old) PROVE g \in ToSet(new)
  OBVIOUS
<1>2. PICK k \in DOMAIN old : g = old[k]
  BY DEF ToSet
<1>3. \E l \in DOMAIN new : g = new[l]
  <2>1. CASE k = n + 1
    <3>1. n + 2 \in DOMAIN new /\ g = new[n + 2]
      BY <1>1, <1>2, <2>1
    <3> QED BY <3>1
  <2>2. CASE k # n + 1
    <3>1. k \in DOMAIN new /\ g = new[k]
      BY <1>1, <1>2, <2>2
    <3> QED BY <3>1
  <2> QED BY <2>1, <2>2
<1> QED BY <1>3 DEF ToSet

LEMMA ConveysNotify ==
  ASSUME TypeOK, Stored, NEW i \in Instances, NEW w \in Workers, Notify(i, w)
  PROVE  Conveys(i, w)
<1> DEFINE task == running[i][w]  next == running'[i][w]
<1>1. /\ task \in Sends /\ Posted(task) /\ Posted(next) /\ next.change = task.change
      /\ next.frames = Append(task.frames, Note(Len(notes) + 1))
      /\ Note(Len(notes) + 1) \in Frames
      /\ \A j \in Instances, v \in Workers :
           ~(j = i /\ v = w) => running'[j][v] = running[j][v]
      /\ UNCHANGED <<loop, wire, got, log, dropped>>
  BY Notifying
<1>2. Parcel(task) = Append(task.frames, Change(task.change)) /\ Change(task.change) \in Frames
  <2>1. Parcel(task) = Append(task.frames, Change(task.change))
    BY <1>1, Parcels
  <2>2. task.change \in 1 .. MaxChanges
    <3>1. task.change \in DOMAIN log
      BY <1>1 DEF Stored, Refers
    <3> QED BY <3>1, MessagesAssumption DEF Stored, TypeOK
  <2> QED BY <2>1, <2>2 DEF Frames
<1>3. PICK frames \in Seq(Frames), f \in Frames, last \in Frames :
        frames = task.frames /\ f = Note(Len(notes) + 1) /\ last = Change(task.change)
  BY <1>1, <1>2 DEF Sends
<1>4. Parcel(task) = Append(frames, last) /\ Parcel(next) = Append(Append(frames, f), last)
  BY <1>1, <1>3 DEF Parcel
<1>5. \A g \in ToSet(Parcel(task)) : g \in ToSet(Parcel(next))
  BY <1>4, StillThere
<1> QED BY <1>1, <1>5, ConveysCarrying DEF Carried

LEMMA ConveysWorks ==
  ASSUME TypeOK, Stored, NEW i \in Instances, NEW w \in Workers, Works(i, w)
  PROVE  Conveys(i, w)
<1> DEFINE task == running[i][w]  next == running'[i][w]
           TheRest == \A j \in Instances, v \in Workers :
                        ~(j = i /\ v = w) => running'[j][v] = running[j][v]
<1>1. ASSUME TheRest, UNCHANGED <<loop, wire, got, log, dropped>>,
             Parcel(task) = <<>> \/ Parcel(next) = Parcel(task)
      PROVE  Conveys(i, w)
  BY <1>1, ConveysCarrying DEF Carried, ToSet
<1>2. ASSUME TheRest, UNCHANGED <<loop, wire, got, dropped>>, Parcel(task) = <<>>,
             Parcel(next) = <<Change(Len(log) + 1)>>,
             DOMAIN log' = DOMAIN log \cup {Len(log) + 1}
      PROVE  Conveys(i, w)
  <2>1. PICK f : f = Change(Len(log) + 1)
    OBVIOUS
  <2>2. f \in ToSet(Parcel(next))
    <3>1. Parcel(next) = <<f>>
      BY <1>2, <2>1
    <3> QED BY <3>1, Single
  <2>3. \A n \in DOMAIN log' \ DOMAIN log : Change(n) \in ToSet(Parcel(next))
    BY <1>2, <2>1, <2>2
  <2> QED BY <1>2, <2>3, ConveysCarrying DEF Carried, ToSet
<1>3. CASE Dequeue(i, w)
  <2>1. task = Idle /\ TheRest /\ UNCHANGED <<loop, wire, got, log, dropped>>
    BY <1>3, Dequeuing
  <2>2. Parcel(task) = <<>>
    BY <2>1 DEF Parcel, Posted, Cleaning, Idle
  <2> QED BY <1>1, <2>1, <2>2
<1>4. CASE Checked(i, w)
  <2>1. PICK other \in Tasks \cup {Idle} : running' = [running EXCEPT ![i][w] = other]
    BY <1>4 DEF Checked
  <2>2. TheRest
    BY <2>1, Worked
  <2>3. Parcel(task) = <<>> /\ UNCHANGED <<loop, wire, got, log, dropped>>
    BY <1>4 DEF Checked, Parcel
  <2> QED BY <1>1, <2>2, <2>3
<1>5. CASE CreateMessage(i, w)
  <2>1. /\ task \in Sends /\ next \in Sends /\ ~Posted(task) /\ Posted(next)
        /\ next.change = Len(log) + 1 /\ next.frames = <<>>
        /\ TheRest /\ UNCHANGED <<loop, wire, got, dropped>>
        /\ Insert(task.user, task.tokens, task.reply, NoFile)
    BY <1>5, Creating
  <2>2. PICK u \in Users, tokens \in Contents, reply \in Nat, file \in Uploads \cup {NoFile} :
          u = task.user /\ tokens = task.tokens /\ reply = task.reply /\ file = NoFile
    BY <2>1 DEF Sends
  <2>3. DOMAIN log' = DOMAIN log \cup {Len(log) + 1}
    <3>1. Insert(u, tokens, reply, file)
      BY <2>1, <2>2
    <3> QED BY <3>1, Inserting
  <2>4. Parcel(task) = <<>>
    BY <2>1 DEF Parcel, Posted, Cleaning, Sends
  <2>5. Parcel(next) = <<Change(Len(log) + 1)>>
    <3>1. Parcel(next) = Append(<<>>, Change(Len(log) + 1))
      BY <2>1 DEF Parcel
    <3> QED BY <3>1
  <2> QED BY <1>2, <2>1, <2>3, <2>4, <2>5
<1>6. CASE StoreMentions(i, w)
  <2>1. /\ Posted(task) /\ Posted(next) /\ next.change = task.change /\ next.frames = task.frames
        /\ TheRest /\ UNCHANGED <<loop, wire, got, log, dropped>>
    BY <1>6, Storing
  <2>2. Parcel(next) = Parcel(task)
    BY <2>1 DEF Parcel
  <2> QED BY <1>1, <2>1, <2>2
<1>7. CASE Assemble(i, w)
  <2>1. task \in Completions /\ TheRest /\ UNCHANGED <<loop, wire, got, log, dropped>>
    BY <1>7, Assembling
  <2>2. Parcel(task) = <<>>
    BY <2>1 DEF Completions, Parcel, Posted, Cleaning
  <2> QED BY <1>1, <2>1, <2>2
<1>8. CASE DeleteRow(i, w)
  <2>1. /\ task \in Deletions /\ next \in Deletions /\ ~Cleaning(task) /\ Cleaning(next)
        /\ next.change = Len(log) + 1 /\ task.message \in Nat \ {0}
        /\ TheRest /\ UNCHANGED <<loop, wire, got, dropped>>
        /\ Log("deleted", task.message, task.user)
    BY <1>8, Marking
  <2>2. PICK k \in {"new", "edited", "deleted", "reacted", "unreacted", "read"},
             l \in Nat \ {0}, v \in Users :
          k = "deleted" /\ l = task.message /\ v = task.user
    BY <2>1 DEF Deletions
  <2>3. DOMAIN log' = DOMAIN log \cup {Len(log) + 1}
    <3>1. Log(k, l, v)
      BY <2>1, <2>2
    <3> QED BY <3>1, Logging
  <2>4. Parcel(task) = <<>> /\ Parcel(next) = <<Change(Len(log) + 1)>>
    BY <2>1 DEF Parcel, Posted, Cleaning, Deletions
  <2> QED BY <1>2, <2>1, <2>3, <2>4
<1>9. FinishSending(i, w) \/ RemoveBlob(i, w) => Conveys(i, w)
  BY EndingSend, Removing, ConveysOver
<1> QED
  BY <1>3, <1>4, <1>5, <1>6, <1>7, <1>8, <1>9, ConveysTouched, ConveysFile, ConveysNotify
     DEF Works, WorkerWrites

LEMMA ChangesAreFrames ==
  ASSUME TypeOK, Stored, NEW n \in DOMAIN log
  PROVE  Change(n) \in Frames
<1>1. n \in 1 .. MaxChanges
  BY MessagesAssumption DEF TypeOK, Stored
<1> QED BY <1>1 DEF Frames

\* What stays in the loops is spared as before.
LEMMA SparedShorter ==
  ASSUME TypeOK, Once, Spared, UNCHANGED <<rows, log>>, NEW i \in Instances, loop[i] # <<>>,
         loop' = [loop EXCEPT ![i] = Tail(@)]
  PROVE  Spared'
<1>1. \A j \in Instances : \A l \in DOMAIN loop'[j] :
        \E k \in DOMAIN loop[j] : loop'[j][l] = loop[j][k]
  BY OnceSkipped
<1>2. ASSUME NEW j \in Instances, NEW l \in DOMAIN loop'[j], NEW n \in DOMAIN log',
             Change(n) \in ToSet(loop'[j][l].frames)
      PROVE  Spares(loop[j][l], n)'
  <2>1. PICK k \in DOMAIN loop[j] : loop'[j][l] = loop[j][k]
    BY <1>1
  <2>2. PICK closure : closure = loop'[j][l]
    OBVIOUS
  <2>3. Spares(closure, n)
    BY <1>2, <2>1, <2>2 DEF Spared, Deferred
  <2>4. Spares(closure, n)'
    BY <2>3 DEF Spares
  <2> QED BY <2>2, <2>4 DEF Spares
<1> QED BY <1>2 DEF Spared, Deferred

\* What was fanned out, carried, deferred or published still is.
LEMMA ReachesShorter ==
  ASSUME TypeOK, Once, NEW i \in Instances, loop[i] # <<>>,
         loop' = [loop EXCEPT ![i] = Tail(@)], UNCHANGED running,
         NEW f, NEW t \in Tabs, Reaches(f, t), f \notin Deferred(i, 1),
         got[t][f] = 1 => got'[t][f] = 1,
         \A k \in DOMAIN wire[HomeOf[t]] :
           k \in DOMAIN wire'[HomeOf[t]] /\ wire'[HomeOf[t]][k] = wire[HomeOf[t]][k]
  PROVE  Reaches(f, t)'
<1>1. CASE got[t][f] = 1
  BY <1>1 DEF Reaches
<1>2. ASSUME NEW j \in Instances, NEW w \in Workers, f \in Carried(j, w)
      PROVE  Reaches(f, t)'
  BY <1>2 DEF Reaches, UnderWay, Carried
<1>3. ASSUME NEW j \in Instances, NEW k \in DOMAIN loop[j], f \in Deferred(j, k)
      PROVE  Reaches(f, t)'
  <2>1. \E l \in DOMAIN loop'[j] : loop'[j][l] = loop[j][k]
    <3>1. loop \in [Instances -> Seq(Closures)] /\ loop[i] \in Seq(Closures)
      BY DEF TypeOK
    <3>2. loop'[i] = Tail(loop[i]) /\ \A n \in Instances : n # i => loop'[n] = loop[n]
      BY <3>1, Leaves
    <3>3. \A n \in DOMAIN loop[i] :
            n = 1 \/ (n - 1 \in DOMAIN Tail(loop[i]) /\ Tail(loop[i])[n - 1] = loop[i][n])
      BY <3>1, Rest
    <3>4. CASE j = i
      <4>1. k # 1 /\ k \in DOMAIN loop[i]
        BY <1>3, <3>4
      <4>2. k - 1 \in DOMAIN loop'[i] /\ loop'[i][k - 1] = loop[i][k]
        BY <3>2, <3>3, <4>1
      <4> QED BY <3>4, <4>2
    <3>5. CASE j # i
      BY <3>2, <3>5
    <3> QED BY <3>4, <3>5
  <2>2. PICK l \in DOMAIN loop'[j] : loop'[j][l] = loop[j][k]
    BY <2>1
  <2>3. f \in Deferred(j, l)'
    BY <1>3, <2>2 DEF Deferred
  <2> QED BY <2>3 DEF Reaches, UnderWay
<1>4. CASE \E k \in DOMAIN wire[HomeOf[t]] :
             wire[HomeOf[t]][k].frame = f /\ wire[HomeOf[t]][k].from # HomeOf[t]
  BY <1>4 DEF Reaches, UnderWay
<1> QED BY <1>1, <1>2, <1>3, <1>4 DEF Reaches, UnderWay

\* Whoever is owed a frame of the closure is in the fan-out of its instance.
LEMMA DeliveredBroadcast ==
  ASSUME TypeOK, Stored, Once, Spared, Delivered,
         NEW i \in Instances, NEW except, Broadcasts(i, except),
         IF Head(loop[i]).do = "announce" THEN except = Head(loop[i]).except ELSE except = {}
  PROVE  Spared' /\ Delivered'
<1>1. /\ loop[i] # <<>> /\ loop' = [loop EXCEPT ![i] = Tail(@)]
      /\ UNCHANGED <<rows, log, notes, running, dropped>>
  BY DEF Broadcasts, dbVars
<1>2. PICK frames \in Seq(Frames) :
        frames = loop[i][1].frames /\ frames = Head(loop[i]).frames
  BY <1>1, HeadOfLoop
<1>3. /\ 1 \in DOMAIN loop[i] /\ Deferred(i, 1) = ToSet(frames)
      /\ \A f \in ToSet(frames) : Unsent(f)
      /\ IF loop[i][1].do = "announce" THEN except = loop[i][1].except ELSE except = {}
  <2>1. 1 \in DOMAIN loop[i] /\ Deferred(i, 1) = ToSet(frames) /\ Head(loop[i]) = loop[i][1]
    BY <1>1, <1>2, HeadOfLoop DEF Deferred
  <2> QED BY <2>1 DEF Once, OnceDeferred
<1>4. \A j \in Instances :
        /\ \A k \in DOMAIN wire[j] : k \in DOMAIN wire'[j] /\ wire'[j][k] = wire[j][k]
        /\ \A k \in DOMAIN frames : \E l \in DOMAIN wire'[j] :
             wire'[j][l] = [from |-> i, frame |-> frames[k]]
  <2>1. Publish(i, frames)
    BY <1>2 DEF Broadcasts
  <2> QED BY <2>1, Publishing
<1>5. \A t \in Tabs, f \in Frames :
        got'[t][f] = IF HomeOf[t] = i /\ f \in ToSet(frames) /\ IsFor(f, t)
                          /\ UserOf[t] \notin except
                     THEN got[t][f] + 1 ELSE got[t][f]
  <2>1. FanOut(i, frames, except)
    BY <1>2 DEF Broadcasts
  <2> QED BY <2>1, FanningOut
<1>6. Spared'
  BY <1>1, SparedShorter
<1>7. ASSUME NEW n \in DOMAIN log, NEW t \in Tabs, Owed(n, t), ~dropped
      PROVE  Reaches(Change(n), t)'
  <2>1. PICK f \in Frames : f = Change(n)
    BY ChangesAreFrames
  <2>2. Reaches(f, t) /\ HomeOf[t] \in Instances
    BY <1>7, <2>1, MessagesAssumption DEF Delivered
  <2>3. CASE f \notin Deferred(i, 1)
    <3>1. got'[t][f] = got[t][f]
      BY <1>3, <1>5, <2>3
    <3>2. Reaches(f, t)'
      BY <1>1, <1>4, <2>2, <2>3, <3>1, ReachesShorter
    <3> QED BY <2>1, <3>2
  <2>4. CASE f \in Deferred(i, 1) /\ HomeOf[t] = i
    <3>1. IsFor(f, t)
      BY <1>7, <2>1 DEF IsFor, Change, Owed
    <3>2. Spares(loop[i][1], n)
      BY <1>3, <2>1, <2>4 DEF Spared
    <3>3. UserOf[t] \notin except
      BY <1>3, <1>7, <3>2 DEF Spares, Owed
    <3>4. got'[t][f] = 1
      BY <1>3, <1>5, <2>4, <3>1, <3>3 DEF Unsent
    <3> QED BY <2>1, <3>4 DEF Reaches
  <2>5. CASE f \in Deferred(i, 1) /\ HomeOf[t] # i
    <3>1. PICK k \in DOMAIN frames : f = frames[k]
      BY <1>3, <2>5 DEF ToSet
    <3>2. PICK l \in DOMAIN wire'[HomeOf[t]] :
            wire'[HomeOf[t]][l] = [from |-> i, frame |-> f]
      BY <1>4, <2>2, <3>1
    <3>3. wire'[HomeOf[t]][l].frame = f /\ wire'[HomeOf[t]][l].from # HomeOf[t]
      BY <2>5, <3>2
    <3>4. Reaches(f, t)'
      BY <3>3 DEF Reaches, UnderWay
    <3> QED BY <2>1, <3>4
  <2> QED BY <2>3, <2>4, <2>5
<1>8. \A n \in DOMAIN log, t \in Tabs : Owed(n, t)' <=> Owed(n, t)
  BY <1>1 DEF Owed
<1> QED BY <1>1, <1>6, <1>7, <1>8 DEF Delivered

\* An upload that was aborted is announced to nobody.
LEMMA DeliveredSkip ==
  ASSUME TypeOK, Stored, Once, Spared, Delivered, NEW i \in Instances, Skips(i),
         Head(loop[i]).do = "uploaded"
  PROVE  Spared' /\ Delivered'
<1>1. /\ loop[i] # <<>> /\ loop' = [loop EXCEPT ![i] = Tail(@)]
      /\ UNCHANGED <<rows, log, running, wire, got, dropped>>
  BY DEF Skips, dbVars
<1>2. Spared'
  BY <1>1, SparedShorter
<1>3. 1 \in DOMAIN loop[i] /\ loop[i][1].do = "uploaded"
  BY <1>1, HeadOfLoop
<1>4. ASSUME NEW n \in DOMAIN log, NEW t \in Tabs, Owed(n, t), ~dropped
      PROVE  Reaches(Change(n), t)'
  <2>1. PICK f \in Frames : f = Change(n)
    BY ChangesAreFrames
  <2>2. Reaches(f, t)
    BY <1>4, <2>1 DEF Delivered
  <2>3. f \notin Deferred(i, 1)
    BY <1>3, <1>4, <2>1 DEF Spared, Spares, Owed
  <2>4. Reaches(f, t)'
    BY <1>1, <2>2, <2>3, ReachesShorter
  <2> QED BY <2>1, <2>4
<1>5. \A n \in DOMAIN log, t \in Tabs : Owed(n, t)' <=> Owed(n, t)
  BY <1>1 DEF Owed
<1> QED BY <1>1, <1>2, <1>4, <1>5 DEF Delivered

\* The loops and the tasks are left alone.
LEMMA DeliveredAside ==
  ASSUME Told, Spared, Delivered, Grows,
         UNCHANGED <<log, running, loop>>, dropped => dropped',
         ~dropped' => \A n \in DOMAIN log, t \in Tabs :
           Owed(n, t) /\ Reaches(Change(n), t) => Reaches(Change(n), t)'
  PROVE  Spared' /\ Delivered'
<1>1. ASSUME NEW n \in DOMAIN log, NEW t \in Tabs, Owed(n, t)', ~dropped'
      PROVE  Reaches(Change(n), t)'
  BY <1>1, OwedStays DEF Delivered
<1>2. ASSUME NEW j \in Instances, NEW k \in DOMAIN loop[j], NEW n \in DOMAIN log,
             Change(n) \in Deferred(j, k)
      PROVE  Spares(loop[j][k], n)'
  <2>1. PICK closure : closure = loop[j][k]
    OBVIOUS
  <2>2. Spares(closure, n)'
    BY <1>2, <2>1, OwedStays DEF Spared
  <2> QED BY <2>1, <2>2 DEF Spares
<1>3. \A j : \A k : Deferred(j, k)' = Deferred(j, k)
  BY DEF Deferred
<1>4. Spared'
  BY <1>2, <1>3 DEF Spared, Spares
<1> QED BY <1>1, <1>4 DEF Delivered

\* What an instance receives, it fans out to whom it is owed.
LEMMA DeliveredReceived ==
  ASSUME TypeOK, Stored, Told, Once, Spared, Delivered, Grows, NEW i \in Instances, Receive(i)
  PROVE  Spared' /\ Delivered'
<1>1. UNCHANGED <<log, running, loop, dropped>>
  BY DEF Receive, dbVars, threadVars
<1>2. PICK head \in [from : Instances, frame : Frames] : head = wire[i][1]
  BY Receiving
<1>3. /\ 1 \in DOMAIN wire[i]
      /\ \A k \in DOMAIN wire[i] :
           k = 1 \/ (k - 1 \in DOMAIN wire'[i] /\ wire'[i][k - 1] = wire[i][k])
      /\ \A j \in Instances : j # i => wire'[j] = wire[j]
      /\ IF head.from = i THEN got' = got
         ELSE \A t \in Tabs, f \in Frames :
                got'[t][f] = IF HomeOf[t] = i /\ f = head.frame /\ IsFor(f, t)
                             THEN got[t][f] + 1 ELSE got[t][f]
  BY <1>2, Receiving
<1>4. head.from # i => \A t \in Tabs : HomeOf[t] = i => got[t][head.frame] = 0
  BY <1>2, <1>3 DEF Once, OnceWired
<1>5. ASSUME NEW n \in DOMAIN log, NEW t \in Tabs, Owed(n, t), Reaches(Change(n), t)
      PROVE  Reaches(Change(n), t)'
  <2>1. PICK f \in Frames : f = Change(n)
    BY ChangesAreFrames
  <2>2. HomeOf[t] \in Instances /\ IsFor(f, t)
    BY <1>5, <2>1, MessagesAssumption DEF IsFor, Owed, Change
  <2>3. CASE got[t][f] = 1
    <3>1. got'[t][f] = 1
      BY <1>3, <1>4, <2>3
    <3> QED BY <2>1, <3>1 DEF Reaches
  <2>4. CASE \E j \in Instances, w \in Workers : f \in Carried(j, w)
    <3>1. UnderWay(f, t)'
      BY <1>1, <2>4 DEF UnderWay, Carried
    <3> QED BY <2>1, <3>1 DEF Reaches
  <2>5. CASE \E j \in Instances : \E k \in DOMAIN loop[j] : f \in Deferred(j, k)
    <3>1. UnderWay(f, t)'
      BY <1>1, <2>5 DEF UnderWay, Deferred
    <3> QED BY <2>1, <3>1 DEF Reaches
  <2>6. CASE \E k \in DOMAIN wire[HomeOf[t]] :
               wire[HomeOf[t]][k].frame = f /\ wire[HomeOf[t]][k].from # HomeOf[t]
    <3>1. PICK k \in DOMAIN wire[HomeOf[t]] :
            wire[HomeOf[t]][k].frame = f /\ wire[HomeOf[t]][k].from # HomeOf[t]
      BY <2>6
    <3>2. CASE HomeOf[t] = i /\ k = 1
      <4>1. head.frame = f /\ head.from # i
        BY <1>2, <3>1, <3>2
      <4>2. got'[t][f] = 1
        BY <1>3, <1>4, <2>2, <3>2, <4>1
      <4> QED BY <2>1, <4>2 DEF Reaches
    <3>3. CASE ~(HomeOf[t] = i /\ k = 1)
      <4>1. \E l \in DOMAIN wire'[HomeOf[t]] : wire'[HomeOf[t]][l] = wire[HomeOf[t]][k]
        <5>1. CASE HomeOf[t] = i
          <6>1. k \in DOMAIN wire[i] /\ k # 1
            BY <3>3, <5>1
          <6>2. k - 1 \in DOMAIN wire'[i] /\ wire'[i][k - 1] = wire[i][k]
            BY <1>3, <6>1
          <6> QED BY <5>1, <6>2
        <5>2. CASE HomeOf[t] # i
          BY <1>3, <2>2, <5>2
        <5> QED BY <5>1, <5>2
      <4>2. UnderWay(f, t)'
        BY <3>1, <4>1 DEF UnderWay
      <4> QED BY <2>1, <4>2 DEF Reaches
    <3> QED BY <3>2, <3>3
  <2>7. Reaches(f, t)
    BY <1>5, <2>1
  <2> QED BY <2>3, <2>4, <2>5, <2>6, <2>7 DEF Reaches, UnderWay
<1> QED BY <1>1, <1>5, DeliveredAside

LEMMA DeliveredStep ==
  ASSUME TypeOK, Stored, Told, Once, Spared, Delivered, KnownStep
  PROVE  Spared' /\ Delivered'
<1>1. Grows
  BY Growing
<1>2. ASSUME NEW i \in Instances, NEW w \in Workers, Works(i, w)
      PROVE  Spared' /\ Delivered'
  BY <1>1, <1>2, ConveysWorks, DeliveredConveying
<1>3. ASSUME NEW i \in Instances, LoopStep(i)
      PROVE  Spared' /\ Delivered'
  <2>1. CASE Head(loop[i]).do = "announce" /\ Broadcasts(i, Head(loop[i]).except)
    <3>1. PICK except : except = Head(loop[i]).except
      OBVIOUS
    <3>2. Broadcasts(i, except)
      BY <2>1, <3>1
    <3> QED BY <2>1, <3>1, <3>2, DeliveredBroadcast
  <2>2. CASE Head(loop[i]).do = "uploaded" /\ Broadcasts(i, {})
    <3>1. PICK except : except = {}
      OBVIOUS
    <3>2. Broadcasts(i, except)
      BY <2>2, <3>1
    <3> QED BY <2>2, <3>1, <3>2, DeliveredBroadcast
  <2>3. CASE Head(loop[i]).do = "uploaded" /\ Skips(i)
    BY <2>3, DeliveredSkip
  <2> QED BY <1>3, <2>1, <2>2, <2>3, RunningLoop
<1>4. ASSUME NEW i \in Instances, Receive(i)
      PROVE  Spared' /\ Delivered'
  BY <1>1, <1>4, DeliveredReceived
<1>5. ASSUME NEW i \in Instances, Lose(i)
      PROVE  Spared' /\ Delivered'
  <2>1. dropped' /\ UNCHANGED <<log, running, loop>>
    BY <1>5, Losing DEF dbVars, threadVars
  <2> QED BY <1>1, <2>1, DeliveredAside
<1>6. CASE Requested \/ Elsewhere \/ UNCHANGED vars
  <2>1. UNCHANGED <<running, loop, wire, got, log, dropped>>
    BY <1>6 DEF Requested, Elsewhere, vars, threadVars
  <2>2. \A n \in DOMAIN log, t \in Tabs : Reaches(Change(n), t)' <=> Reaches(Change(n), t)
    BY <2>1 DEF Reaches, UnderWay, Carried, Deferred
  <2> QED BY <1>1, <2>1, <2>2, DeliveredAside
<1> QED BY <1>2, <1>3, <1>4, <1>5, <1>6 DEF KnownStep

LEMMA DeliveredStarts == Init => Spared /\ Delivered
<1> SUFFICES ASSUME Init PROVE Spared /\ Delivered
  OBVIOUS
<1>1. log = <<>>
  BY DEF Init
<1>2. DOMAIN log = {}
  BY <1>1
<1> QED BY <1>2 DEF Spared, Delivered

\* When nothing is in flight, what reaches a tab has reached it.
LEMMA DeliveredQuiet ==
  ASSUME TypeOK, Delivered
  PROVE  SentIsDelivered
<1> SUFFICES ASSUME Quiet, ~dropped, NEW n \in DOMAIN log, NEW t \in Tabs, Owed(n, t)
             PROVE  got[t][Change(n)] = 1
  BY DEF SentIsDelivered, Owed
<1>1. Reaches(Change(n), t)
  BY DEF Delivered
<1>2. \A i \in Instances, w \in Workers : Carried(i, w) = {}
  <2>1. Parcel(Idle) = <<>> /\ ToSet(<<>>) = {}
    BY DEF Parcel, Idle, Posted, Cleaning, ToSet
  <2> QED BY <2>1 DEF Carried, Quiet
<1>3. \A i \in Instances : DOMAIN loop[i] = {} /\ DOMAIN wire[i] = {}
  BY DEF Quiet
<1>4. HomeOf[t] \in Instances
  BY MessagesAssumption
<1> QED BY <1>1, <1>2, <1>3, <1>4 DEF Reaches, UnderWay

(* Once nothing is in flight, and unless Redis has lost something, every   *)
(* change has reached the tabs that are subscribed, on every instance: no  *)
(* task ends without deferring what it committed, and what is deferred is  *)
(* fanned out here and published to the others (ws_handler.cpp and         *)
(* local_fan_out and publish in ws_handler.h).  Left out are the messages  *)
(* of files, whose announcement an aborted request drops, and a receipt on *)
(* the tabs of its author.                                                 *)
THEOREM DeliveriesHold == Spec => []SentIsDelivered
<1>1. Init => Spared /\ Delivered
  BY DeliveredStarts
<1>2. FeedInv /\ Spared /\ Delivered /\ [Next]_vars => Spared' /\ Delivered'
  <2> SUFFICES ASSUME FeedInv, Spared, Delivered, [Next]_vars PROVE Spared' /\ Delivered'
    OBVIOUS
  <2>1. KnownStep
    BY FeedStep
  <2> QED BY <2>1, DeliveredStep DEF FeedInv
<1>3. FeedInv /\ Delivered => SentIsDelivered
  BY DeliveredQuiet DEF FeedInv
<1> QED BY <1>1, <1>2, <1>3, FeedAlways, PTL DEF Spec

-----------------------------------------------------------------------------
(* The notifications *)

\* Whom a message concerns never changes.
LEMMA ConcernedStays ==
  ASSUME TypeOK, Told, Grows, channel'.direct = channel.direct, NEW m \in DOMAIN rows
  PROVE  /\ m \in DOMAIN rows' /\ rows'[m].file = rows[m].file
         /\ Mentions(m)' = Mentions(m) /\ Concerned(m)' = Concerned(m)
<1>1. /\ m \in DOMAIN rows'
      /\ rows'[m].author = rows[m].author /\ rows'[m].tokens = rows[m].tokens
      /\ rows'[m].reply = rows[m].reply /\ rows'[m].file = rows[m].file
  BY DEF Grows
<1>2. PICK reply : reply = rows[m].reply
  OBVIOUS
<1>3. reply = 0 \/ rows'[reply].author = rows[reply].author
  <2>1. reply \in Nat /\ reply < m /\ m \in 1 .. Len(rows) /\ DOMAIN rows = 1 .. Len(rows)
        /\ Len(rows) \in Nat
    <3>1. rows \in Seq(Rows)
      BY DEF TypeOK
    <3>2. rows[m] \in Rows /\ DOMAIN rows = 1 .. Len(rows) /\ Len(rows) \in Nat
      BY <3>1, Elements
    <3> QED BY <1>2, <3>2 DEF Rows, Told
  <2>2. reply = 0 \/ reply \in DOMAIN rows
    BY <2>1
  <2> QED BY <2>2 DEF Grows
<1>4. Mentions(m)' = Mentions(m) /\ Others(m)' = Others(m)
  BY <1>1 DEF Mentions, Others
<1>5. Replied(m)' = Replied(m)
  BY <1>1, <1>2, <1>3, <1>4 DEF Replied
<1> QED BY <1>1, <1>4, <1>5 DEF Concerned

\* A message that is not the business of the step is noticed as before.
LEMMA NoticedKept ==
  ASSUME TypeOK, Told, Grows, channel'.direct = channel.direct, Reads,
         NEW m \in DOMAIN rows, NoticedAt(m), Notified(m)' = Notified(m),
         \A i \in Instances, w \in Workers :
           Writes(i, w, m) \/ Writes(i, w, m)' => running'[i][w] = running[i][w]
  PROVE  NoticedAt(m)'
<1>1. /\ rows'[m].file = rows[m].file
      /\ Mentions(m)' = Mentions(m) /\ Concerned(m)' = Concerned(m)
  BY ConcernedStays
<1>2. \A i \in Instances, w \in Workers :
        /\ Writes(i, w, m)' <=> Writes(i, w, m)
        /\ Writes(i, w, m) => running'[i][w] = running[i][w]
  BY DEF Writes
<1>3. Apart(m)'
  BY <1>2 DEF NoticedAt, Apart
<1>4. Pends(m)'
  BY <1>1, <1>2 DEF NoticedAt, Pends
<1>5. Settled(m) => Settled(m)'
  <2> SUFFICES ASSUME Settled(m) PROVE Settled(m)'
    OBVIOUS
  <2>1. Notified(m)' = Concerned(m)' \/ \E i \in Instances, w \in Workers : Writes(i, w, m)'
    BY <1>1, <1>2 DEF Settled
  <2>2. ASSUME NEW u \in Mentions(m)
        PROVE  \/ <<m, u>> \in mentions'
               \/ m <= readState'[u].at
               \/ \E i \in Instances, w \in Workers :
                    Writes(i, w, m)' /\ running'[i][w].at = "mentions"
    <3>1. u \in Users /\ m \in Nat
      BY Elements DEF Mentions, Others, TypeOK
    <3>2. CASE <<m, u>> \in mentions
      BY <3>2 DEF Reads
    <3>3. CASE m <= readState[u].at
      <4>1. readState[u].at \in Nat /\ readState'[u].at \in Nat
        BY <3>1 DEF TypeOK, Reads
      <4> QED BY <3>1, <3>3, <4>1 DEF Reads
    <3>4. CASE \E i \in Instances, w \in Workers :
                 Writes(i, w, m) /\ running[i][w].at = "mentions"
      BY <1>2, <3>4
    <3> QED BY <3>2, <3>3, <3>4 DEF Settled
  <2> QED BY <1>1, <2>1, <2>2 DEF Settled
<1> QED BY <1>1, <1>3, <1>4, <1>5 DEF NoticedAt

\* A step that notifies nobody and leaves the sending of messages alone.
LEMMA NoticedAside ==
  ASSUME TypeOK, Stored, Told, Grows, Noticed, UNCHANGED notes, channel'.direct = channel.direct, Reads,
         \A i \in Instances, w \in Workers :
           Posted(running[i][w]) \/ Posted(running'[i][w]) => running'[i][w] = running[i][w],
         \A m \in DOMAIN rows' \ DOMAIN rows : rows'[m].file # NoFile
  PROVE  Noticed'
<1>1. ASSUME NEW m \in DOMAIN rows PROVE NoticedAt(m)'
  <2>1. Notified(m)' = Notified(m)
    BY DEF Notified
  <2>2. \A i \in Instances, w \in Workers :
          Writes(i, w, m) \/ Writes(i, w, m)' => running'[i][w] = running[i][w]
    BY DEF Writes
  <2> QED BY <2>1, <2>2, NoticedKept DEF Noticed
<1>2. ASSUME NEW m \in DOMAIN rows' \ DOMAIN rows PROVE NoticedAt(m)'
  <2>1. \A i \in Instances, w \in Workers : ~Writes(i, w, m)'
    BY DEF Writes, Stored, Refers
  <2> QED BY <2>1 DEF NoticedAt, Apart, Pends
<1> QED BY <1>1, <1>2 DEF Noticed

LEMMA Unread ==
  ASSUME TypeOK, UNCHANGED <<mentions, readState>>
  PROVE  Reads
  BY DEF TypeOK, Reads

\* A message is inserted, and nobody has been notified of it.
LEMMA NoticedCreate ==
  ASSUME TypeOK, Stored, Told, Grows, Noticed, NEW i \in Instances, NEW w \in Workers,
         CreateMessage(i, w)
  PROVE  Noticed'
<1> DEFINE task == running[i][w]  next == running'[i][w]
<1>1. /\ task \in Sends /\ ~Posted(task) /\ next.at = "mentions" /\ Posted(next)
      /\ next.message = Len(rows) + 1
      /\ \A j \in Instances, v \in Workers :
           ~(j = i /\ v = w) => running'[j][v] = running[j][v]
      /\ Insert(task.user, task.tokens, task.reply, NoFile)
      /\ UNCHANGED <<mentions, notes, readState, channel>>
  BY Creating
<1>2. PICK u \in Users, tokens \in Contents, reply \in Nat, file \in Uploads \cup {NoFile} :
        u = task.user /\ tokens = task.tokens /\ reply = task.reply /\ file = NoFile
  BY <1>1 DEF Sends
<1>3. PICK new : new = Len(rows) + 1
  OBVIOUS
<1>4. DOMAIN rows' = DOMAIN rows \cup {new} /\ new \notin DOMAIN rows
  <2>1. Insert(u, tokens, reply, file)
    BY <1>1, <1>2
  <2> QED BY <1>3, <2>1, Inserting
<1>5. ASSUME NEW m \in DOMAIN rows PROVE NoticedAt(m)'
  <2>1. Notified(m)' = Notified(m) /\ Reads /\ channel'.direct = channel.direct
    BY <1>1, Unread DEF Notified
  <2>2. \A j \in Instances, v \in Workers :
          Writes(j, v, m) \/ Writes(j, v, m)' => running'[j][v] = running[j][v]
    BY <1>1, <1>3, <1>4 DEF Writes
  <2> QED BY <2>1, <2>2, NoticedKept DEF Noticed
<1>6. \A j \in Instances, v \in Workers : Writes(j, v, new)' <=> j = i /\ v = w
  <2>1. Writes(i, w, new)'
    BY <1>1, <1>3 DEF Writes
  <2>2. ASSUME NEW j \in Instances, NEW v \in Workers, ~(j = i /\ v = w)
        PROVE  ~Writes(j, v, new)'
    <3>1. running'[j][v] = running[j][v]
      BY <1>1, <2>2
    <3>2. Posted(running[j][v]) => running[j][v].message \in DOMAIN rows
      BY DEF Stored, Refers
    <3>3. ~Writes(j, v, new)
      BY <1>4, <3>2 DEF Writes
    <3> QED BY <3>1, <3>3 DEF Writes, Posted
  <2> QED BY <2>1, <2>2
<1>7. Notified(new)' = {}
  BY <1>1, <1>4 DEF Notified, Told
<1>8. NoticedAt(new)'
  <2>1. Apart(new)' /\ Pends(new)'
    BY <1>1, <1>6, <1>7 DEF Apart, Pends
  <2>2. Settled(new)'
    BY <1>1, <1>6 DEF Settled
  <2> QED BY <2>1, <2>2 DEF NoticedAt
<1> QED BY <1>4, <1>5, <1>8 DEF Noticed

\* The notifications of a message reach everyone it concerns, whichever of
\* the three loops leaves a user to another.
LEMMA Reached ==
  ASSUME TypeOK, Stored, NEW i \in Instances, NEW w \in Workers, NEW m,
         Writes(i, w, m), running[i][w].at = "mentions"
  PROVE  LET task == running[i][w] IN
         /\ {p.to : p \in Notifications(task)} = Concerned(m)
         /\ Mentioned(task.tokens) \ {task.user} = Mentions(m)
<1>1. PICK task \in Sends : task = running[i][w]
  BY TaskForms DEF TypeOK, Writes, Posted
<1>2. /\ m = task.message /\ m \in DOMAIN rows /\ rows[m].author = task.user
      /\ rows[m].tokens = task.tokens /\ rows[m].reply = task.reply
      /\ task.reply \in 0 .. Len(rows)
  BY <1>1 DEF Writes, Stored, Refers, Posted
<1>3. PICK u \in Users, tokens \in Contents, reply \in Nat :
        u = task.user /\ tokens = task.tokens /\ reply = task.reply
  BY <1>1 DEF Sends
<1>4. Mentioned(tokens) \subseteq Members /\ Members \subseteq Users
  BY DEF Mentioned, Named, Members
<1>5. Mentions(m) = Mentioned(tokens) \ {u}
  BY <1>2, <1>3, <1>4 DEF Mentions, Others
<1>6. PICK owner : owner = IF reply = 0 THEN {} ELSE {rows[reply].author} \ {u}
  OBVIOUS
<1>7. Replied(m) = owner
  <2>1. reply = 0 \/ rows[reply].author \in Users
    <3>1. rows \in Seq(Rows) /\ (reply = 0 \/ reply \in 1 .. Len(rows))
      BY <1>2, <1>3 DEF TypeOK
    <3>2. reply = 0 \/ rows[reply] \in Rows
      BY <3>1, Elements
    <3> QED BY <3>2 DEF Rows
  <2> QED BY <1>2, <1>3, <1>6, <2>1 DEF Replied, Others
<1> DEFINE mention == {p \in [nth : DOMAIN tokens, to : Members \ {u}, type : {"mention"}] :
                         tokens[p.nth] \in {Everyone, p.to}}
           answer == [nth : {0}, to : owner \ Named(tokens), type : {"reply"}]
           unreached == IF channel.direct THEN Members \ (Mentioned(tokens) \cup owner \cup {u})
                        ELSE {}
           direct == [nth : {0}, type : {"direct_message"}, to : unreached]
<1>8. Notifications(task) = mention \cup answer \cup direct
  BY <1>3, <1>6 DEF Notifications
<1>9. {p.to : p \in mention} = Mentioned(tokens) \ {u}
  <2>1. ASSUME NEW p \in mention PROVE p.to \in Mentioned(tokens) \ {u}
    BY DEF Mentioned, Named, ToSet
  <2>2. ASSUME NEW v \in Mentioned(tokens) \ {u} PROVE \E p \in mention : p.to = v
    <3>1. v \in Members /\ \E k \in DOMAIN tokens : tokens[k] \in {Everyone, v}
      BY <1>4 DEF Mentioned, Named, ToSet
    <3>2. PICK k \in DOMAIN tokens : tokens[k] \in {Everyone, v}
      BY <3>1
    <3>3. [nth |-> k, to |-> v, type |-> "mention"] \in mention
      BY <3>1, <3>2
    <3> QED BY <3>3
  <2> QED BY <2>1, <2>2
<1>10. {p.to : p \in answer} = owner \ Named(tokens)
  <2>1. ASSUME NEW v \in owner \ Named(tokens) PROVE \E p \in answer : p.to = v
    <3>1. [nth |-> 0, to |-> v, type |-> "reply"] \in answer
      OBVIOUS
    <3> QED BY <3>1
  <2> QED BY <2>1
<1>11. {p.to : p \in direct} = unreached
  <2>1. ASSUME NEW v \in unreached PROVE \E p \in direct : p.to = v
    <3>1. [nth |-> 0, type |-> "direct_message", to |-> v] \in direct
      OBVIOUS
    <3> QED BY <3>1
  <2> QED BY <2>1
<1>12. {p.to : p \in Notifications(task)}
         = (Mentioned(tokens) \ {u}) \cup (owner \ Named(tokens)) \cup unreached
  <2> HIDE DEF mention, answer, direct, unreached
  <2> QED BY <1>8, <1>9, <1>10, <1>11
<1>13. Concerned(m) = (Mentioned(tokens) \ {u}) \cup owner
                        \cup (IF channel.direct THEN Members \ {u} ELSE {})
  BY <1>2, <1>3, <1>4, <1>5, <1>7 DEF Concerned, Others
<1>14. owner \cap Named(tokens) \subseteq Mentioned(tokens) /\ u \notin owner
  BY <1>6 DEF Mentioned, Named
<1> QED BY <1>1, <1>3, <1>5, <1>12, <1>13, <1>14

\* A step on one message: the others are noticed as before.
LEMMA NoticedWriting ==
  ASSUME TypeOK, Stored, Told, Grows, Noticed, NEW i \in Instances, NEW w \in Workers,
         UNCHANGED <<rows, readState, channel>>, mentions \subseteq mentions',
         \A j \in Instances, v \in Workers :
           ~(j = i /\ v = w) => running'[j][v] = running[j][v],
         NEW m \in DOMAIN rows, Writes(i, w, m),
         Writes(i, w, m)' \/ running'[i][w] = Idle,
         \A l \in DOMAIN rows : l # m => Notified(l)' = Notified(l),
         NoticedAt(m)'
  PROVE  Noticed'
<1>1. ASSUME NEW l \in DOMAIN rows, l # m PROVE NoticedAt(l)'
  <2>1. Reads
    BY DEF TypeOK, Reads
  <2>2. \A j \in Instances, v \in Workers :
          Writes(j, v, l) \/ Writes(j, v, l)' => running'[j][v] = running[j][v]
    BY <1>1 DEF Writes, Idle, Posted
  <2> QED BY <1>1, <2>1, <2>2, NoticedKept DEF Noticed
<1> QED BY <1>1 DEF Noticed

LEMMA NoticedStore ==
  ASSUME TypeOK, Stored, Told, Grows, Noticed, NEW i \in Instances, NEW w \in Workers,
         StoreMentions(i, w)
  PROVE  Noticed'
<1> DEFINE task == running[i][w]  next == running'[i][w]
<1>1. /\ task.at = "mentions" /\ next.at = "notify"
      /\ Posted(task) /\ Posted(next) /\ next.message = task.message
      /\ next.pending = Notifications(task)
      /\ \A j \in Instances, v \in Workers :
           ~(j = i /\ v = w) => running'[j][v] = running[j][v]
      /\ mentions' = mentions \cup
           ({task.message} \X (Mentioned(task.tokens) \ {task.user}))
      /\ UNCHANGED <<rows, notes, readState, channel>>
  BY Storing
<1>2. PICK m \in DOMAIN rows : m = task.message
  BY <1>1 DEF Stored, Refers
<1>3. Writes(i, w, m) /\ Writes(i, w, m)'
  BY <1>1, <1>2 DEF Writes
<1>4. /\ {p.to : p \in next.pending} = Concerned(m)
      /\ Mentioned(task.tokens) \ {task.user} = Mentions(m)
  BY <1>1, <1>3, Reached
<1>5. /\ \A l : Notified(l)' = Notified(l)
      /\ Mentions(m)' = Mentions(m) /\ Concerned(m)' = Concerned(m)
  <2>1. \A l : Notified(l)' = Notified(l)
    BY <1>1 DEF Notified
  <2> QED BY <1>1, <2>1, ConcernedStays
<1>6. NoticedAt(m) /\ Notified(m) = {}
  BY <1>1, <1>3 DEF Noticed, NoticedAt, Pends
<1>7. \A j \in Instances, v \in Workers : Writes(j, v, m) <=> j = i /\ v = w
  BY <1>3, <1>6 DEF NoticedAt, Apart
<1>8. \A j \in Instances, v \in Workers : Writes(j, v, m)' <=> j = i /\ v = w
  BY <1>1, <1>3, <1>7 DEF Writes
<1>9. NoticedAt(m)'
  <2>1. Apart(m)'
    BY <1>8 DEF Apart
  <2>2. Pends(m)'
    BY <1>1, <1>4, <1>5, <1>6, <1>8 DEF Pends
  <2>3. Settled(m)'
    <3>1. \A u \in Mentions(m) : <<m, u>> \in mentions'
      BY <1>1, <1>2, <1>4
    <3> QED BY <1>3, <1>5, <3>1 DEF Settled
  <2> QED BY <2>1, <2>2, <2>3 DEF NoticedAt
<1> QED BY <1>1, <1>3, <1>5, <1>9, NoticedWriting

LEMMA NoticedNotify ==
  ASSUME TypeOK, Stored, Told, Grows, Noticed, NEW i \in Instances, NEW w \in Workers,
         Notify(i, w)
  PROVE  Noticed'
<1> DEFINE task == running[i][w]  next == running'[i][w]
<1>1. /\ task.at = "notify" /\ next.at = "notify"
      /\ Posted(task) /\ Posted(next) /\ next.message = task.message
      /\ \A j \in Instances, v \in Workers :
           ~(j = i /\ v = w) => running'[j][v] = running[j][v]
      /\ UNCHANGED <<rows, mentions, readState, channel>>
  BY Notifying
<1>2. PICK p \in task.pending :
        /\ next.pending = task.pending \ {p}
        /\ DOMAIN notes' = DOMAIN notes \cup {Len(notes) + 1}
        /\ Len(notes) + 1 \notin DOMAIN notes
        /\ \A k \in DOMAIN notes : notes'[k] = notes[k]
        /\ notes'[Len(notes) + 1] = [to |-> p.to, type |-> p.type, message |-> task.message]
  <2> HIDE DEF task
  <2>1. \E p \in task.pending :
          /\ p \in Pending /\ running'[i][w].pending = task.pending \ {p}
          /\ DOMAIN notes' = DOMAIN notes \cup {Len(notes) + 1}
          /\ Len(notes) + 1 \notin DOMAIN notes
          /\ \A k \in DOMAIN notes : notes'[k] = notes[k]
          /\ notes'[Len(notes) + 1] = [to |-> p.to, type |-> p.type, message |-> task.message]
          /\ notes' = Append(notes, [to |-> p.to, type |-> p.type, message |-> task.message])
    BY Notifying, Zenon DEF task
  <2> QED BY <2>1
<1>3. PICK m \in DOMAIN rows : m = task.message
  BY <1>1 DEF Stored, Refers
<1>4. Writes(i, w, m) /\ Writes(i, w, m)'
  BY <1>1, <1>3 DEF Writes
<1>5. PICK last : last = Len(notes) + 1
  OBVIOUS
<1>6. /\ DOMAIN notes' = DOMAIN notes \cup {last} /\ last \notin DOMAIN notes
      /\ \A k \in DOMAIN notes : notes'[k] = notes[k]
      /\ notes'[last].to = p.to /\ notes'[last].message = m
  BY <1>2, <1>3, <1>5
<1>7. /\ \A l \in DOMAIN rows : l # m => Notified(l)' = Notified(l)
      /\ Notified(m)' = Notified(m) \cup {p.to}
  <2>1. \A l : Notified(l)' = {notes'[k].to : k \in {k \in DOMAIN notes' : notes'[k].message = l}}
    BY DEF Notified
  <2>2. ASSUME NEW l, l # m PROVE Notified(l)' = Notified(l)
    BY <1>6, <2>1, <2>2 DEF Notified
  <2>3. Notified(m)' = Notified(m) \cup {p.to}
    BY <1>6, <2>1 DEF Notified
  <2> QED BY <2>2, <2>3
<1>8. Mentions(m)' = Mentions(m) /\ Concerned(m)' = Concerned(m)
  BY <1>1, ConcernedStays
<1>9. NoticedAt(m) /\ Notified(m) \cup {q.to : q \in task.pending} = Concerned(m)
  BY <1>1, <1>4 DEF Noticed, NoticedAt, Pends
<1>10. \A j \in Instances, v \in Workers : Writes(j, v, m) <=> j = i /\ v = w
  BY <1>4, <1>9 DEF NoticedAt, Apart
<1>11. \A j \in Instances, v \in Workers : Writes(j, v, m)' <=> j = i /\ v = w
  BY <1>1, <1>4, <1>10 DEF Writes
<1>12. NoticedAt(m)'
  <2>1. Apart(m)'
    BY <1>11 DEF Apart
  <2>2. Pends(m)'
    <3>1. Notified(m)' \cup {q.to : q \in next.pending} = Concerned(m)'
      BY <1>2, <1>7, <1>8, <1>9
    <3> QED BY <1>1, <1>11, <3>1 DEF Pends
  <2>3. Settled(m) => Settled(m)'
    BY <1>1, <1>4, <1>8, <1>10 DEF Settled
  <2> QED BY <1>1, <1>9, <2>1, <2>2, <2>3 DEF NoticedAt
<1> QED BY <1>1, <1>4, <1>7, <1>12, NoticedWriting

LEMMA NoticedEnd ==
  ASSUME TypeOK, Stored, Told, Grows, Noticed, NEW i \in Instances, NEW w \in Workers,
         FinishSending(i, w)
  PROVE  Noticed'
<1> DEFINE task == running[i][w]  next == running'[i][w]
<1>1. /\ Posted(task) /\ task.at = "notify" /\ task.pending = {} /\ next = Idle
      /\ \A j \in Instances, v \in Workers :
           ~(j = i /\ v = w) => running'[j][v] = running[j][v]
      /\ UNCHANGED <<rows, mentions, notes, readState, channel>>
  BY EndingSend DEF HandsOver
<1>2. PICK m \in DOMAIN rows : m = task.message
  BY <1>1 DEF Stored, Refers
<1>3. Writes(i, w, m)
  BY <1>1, <1>2 DEF Writes
<1>4. \A l : Notified(l)' = Notified(l)
  BY <1>1 DEF Notified
<1>5. Mentions(m)' = Mentions(m) /\ Concerned(m)' = Concerned(m)
  BY <1>1, ConcernedStays
<1>6. NoticedAt(m) /\ Notified(m) = Concerned(m)
  <2>1. NoticedAt(m) /\ Notified(m) \cup {p.to : p \in task.pending} = Concerned(m)
    BY <1>1, <1>3 DEF Noticed, NoticedAt, Pends
  <2>2. {p.to : p \in task.pending} = {}
    BY <1>1
  <2> QED BY <2>1, <2>2
<1>7. \A j \in Instances, v \in Workers : Writes(j, v, m) <=> j = i /\ v = w
  BY <1>3, <1>6 DEF NoticedAt, Apart
<1>8. \A j \in Instances, v \in Workers : ~Writes(j, v, m)'
  BY <1>1, <1>7 DEF Writes, Posted, Idle
<1>9. Settled(m) => Settled(m)'
  BY <1>1, <1>4, <1>5, <1>6, <1>7 DEF Settled
<1>10. NoticedAt(m)'
  BY <1>1, <1>6, <1>8, <1>9 DEF NoticedAt, Apart, Pends
<1> QED BY <1>1, <1>3, <1>4, <1>10, NoticedWriting

LEMMA NoticedWorks ==
  ASSUME TypeOK, Stored, Told, Grows, Noticed, NEW i \in Instances, NEW w \in Workers,
         Works(i, w)
  PROVE  Noticed'
<1> DEFINE task == running[i][w]  next == running'[i][w]
           TheRest == \A j \in Instances, v \in Workers :
                        ~(j = i /\ v = w) => running'[j][v] = running[j][v]
<1>1. ASSUME TheRest, ~Posted(task), ~Posted(next), Reads, UNCHANGED <<notes, channel>>,
             \A m \in DOMAIN rows' \ DOMAIN rows : rows'[m].file # NoFile
      PROVE  Noticed'
  <2>1. \A j \in Instances, v \in Workers :
          Posted(running[j][v]) \/ Posted(running'[j][v]) => running'[j][v] = running[j][v]
    BY <1>1
  <2> QED BY <1>1, <2>1, NoticedAside
<1>2. ASSUME TheRest, ~Posted(task), ~Posted(next),
             UNCHANGED <<mentions, notes, readState, channel>>, DOMAIN rows' = DOMAIN rows
      PROVE  Noticed'
  BY <1>1, <1>2, Unread
<1>3. ~Posted(Idle)
  BY DEF Posted, Idle
<1>4. CASE Dequeue(i, w)
  <2>1. /\ task = Idle /\ 1 \in DOMAIN tasks[i] /\ next = tasks[i][1] /\ TheRest
        /\ UNCHANGED <<rows, mentions, notes, readState, channel>>
    BY <1>4, Dequeuing DEF dbVars
  <2>2. Begins(next)
    BY <2>1 DEF Stored
  <2>3. ~Posted(next)
    BY <2>2 DEF Begins, Posting, Posted
  <2> QED BY <1>2, <1>3, <2>1, <2>3
<1>5. CASE Checked(i, w)
  <2>1. PICK other \in Tasks \cup {Idle} :
          /\ running' = [running EXCEPT ![i][w] = other]
          /\ other # Idle => ~Posted(other)
    BY <1>5 DEF Checked
  <2>2. next = other /\ TheRest
    BY ZenonT(60), <2>1, Worked
  <2>3. ~Posted(task) /\ UNCHANGED <<rows, mentions, notes, readState, channel>>
    BY <1>5 DEF Checked, dbVars
  <2> QED BY <1>2, <1>3, <2>1, <2>2, <2>3
<1>6. CASE Touched(i, w)
  <2>1. ~Posted(task)
    BY <1>6 DEF Touched, Posted
  <2>2. /\ running' = [running EXCEPT ![i][w] = Idle]
        /\ DOMAIN rows' = DOMAIN rows /\ UNCHANGED <<notes, channel>>
        /\ Reads
    BY <1>6 DEF Touched, FinishWith
  <2>3. Idle \in Tasks \cup {Idle}
    OBVIOUS
  <2>4. next = Idle /\ TheRest
    BY ZenonT(60), <2>2, <2>3, Worked
  <2> QED BY <1>1, <1>3, <2>1, <2>2, <2>4
<1>7. CASE Assemble(i, w)
  <2>1. /\ task \in Completions /\ next \in Completions /\ TheRest
        /\ UNCHANGED <<rows, mentions, notes, readState, channel>>
    BY <1>7, Assembling
  <2> QED BY <1>2, <2>1 DEF Completions, Posted
<1>8. CASE CreateFileMessage(i, w)
  <2>1. /\ task \in Completions /\ next = Idle /\ TheRest
        /\ Insert(task.user, <<>>, 0, task.file)
        /\ UNCHANGED <<mentions, notes, readState, channel>>
    BY <1>8, CreatingFile
  <2>2. <<>> \in Contents /\ 0 \in Nat
    BY DEF Contents
  <2>3. PICK u \in Users, tokens \in Contents, reply \in Nat, file \in Uploads \cup {NoFile} :
          u = task.user /\ tokens = <<>> /\ reply = 0 /\ file = task.file
    BY <2>1, <2>2 DEF Completions
  <2>4. DOMAIN rows' = DOMAIN rows \cup {Len(rows) + 1} /\ rows'[Len(rows) + 1].file = file
    <3>1. Insert(u, tokens, reply, file)
      BY <2>1, <2>3
    <3> QED BY <3>1, Inserting
  <2>5. file # NoFile /\ ~Posted(task)
    BY <2>1, <2>3, MessagesAssumption DEF Completions, Posted
  <2>6. \A m \in DOMAIN rows' \ DOMAIN rows : rows'[m].file # NoFile
    BY <2>4, <2>5
  <2>7. Reads
    BY <2>1, Unread
  <2> QED BY <1>1, <1>3, <2>1, <2>5, <2>6, <2>7
<1>9. CASE DeleteRow(i, w)
  <2>1. /\ task \in Deletions /\ next \in Deletions /\ TheRest
        /\ DOMAIN rows' = DOMAIN rows /\ UNCHANGED <<mentions, notes, readState, channel>>
    BY <1>9, Marking
  <2> QED BY <1>2, <2>1 DEF Deletions, Posted
<1>10. CASE RemoveBlob(i, w)
  <2>1. /\ task \in Deletions /\ next = Idle /\ TheRest
        /\ UNCHANGED <<rows, mentions, notes, readState, channel>>
    BY <1>10, Removing DEF HandsOver
  <2> QED BY <1>2, <1>3, <2>1 DEF Deletions, Posted
<1> QED
  BY <1>4, <1>5, <1>6, <1>7, <1>8, <1>9, <1>10,
     NoticedCreate, NoticedStore, NoticedNotify, NoticedEnd DEF Works, WorkerWrites

LEMMA NoticedStep ==
  ASSUME TypeOK, Stored, Told, Noticed, KnownStep
  PROVE  Noticed'
<1>1. Grows
  BY Growing
<1>2. ASSUME UNCHANGED <<rows, mentions, notes, readState, running>>,
             channel'.direct = channel.direct
      PROVE  Noticed'
  <2>1. Reads
    BY <1>2, Unread
  <2> QED BY <1>1, <1>2, <2>1, NoticedAside
<1>3. CASE Requested \/ Elsewhere \/ UNCHANGED vars
  BY <1>2, <1>3 DEF Requested, Elsewhere, vars, dbVars, threadVars
<1>4. ASSUME NEW i \in Instances, NEW w \in Workers, Works(i, w)
      PROVE  Noticed'
  BY <1>1, <1>4, NoticedWorks
<1>5. ASSUME NEW i \in Instances, LoopStep(i) \/ Receive(i) \/ Lose(i)
      PROVE  Noticed'
  <2>1. UNCHANGED <<dbVars, running>>
    BY <1>5 DEF LoopStep, RunAnnounce, RunUploaded, Receive, Lose, threadVars
  <2> QED BY <1>2, <2>1 DEF dbVars
<1> QED BY <1>3, <1>4, <1>5 DEF KnownStep

LEMMA NoticedQuiet ==
  ASSUME TypeOK, Noticed
  PROVE  ConcernedAreNotified
<1> SUFFICES ASSUME Quiet, NEW m \in DOMAIN rows, rows[m].file = NoFile
             PROVE  /\ Notified(m) = Concerned(m)
                    /\ \A u \in Mentions(m) : <<m, u>> \in mentions \/ m <= readState[u].at
  BY DEF ConcernedAreNotified, Notified, Concerned, Mentions, Replied, Others
<1>1. \A i \in Instances, w \in Workers : ~Writes(i, w, m)
  BY DEF Quiet, Writes, Posted, Idle
<1> QED BY <1>1 DEF Noticed, NoticedAt, Settled

(* Whoever a message concerns is notified of it by the time nothing is in  *)
(* flight, and nobody else is: handle_send_message (ws_handler.cpp) leaves *)
(* a user to the loop over the mentions, to the reply or to the direct     *)
(* channel, and no user falls between them; and a mention counts as unread *)
(* until the read point of its user has passed the message.                *)
THEOREM NotificationsHold == Spec => []ConcernedAreNotified
<1>1. Init => Noticed
  <2> SUFFICES ASSUME Init PROVE Noticed
    OBVIOUS
  <2>1. DOMAIN rows = {}
    BY DEF Init
  <2> QED BY <2>1 DEF Noticed
<1>2. FeedInv /\ Noticed /\ [Next]_vars => Noticed'
  <2> SUFFICES ASSUME FeedInv, Noticed, [Next]_vars PROVE Noticed'
    OBVIOUS
  <2>1. KnownStep
    BY FeedStep
  <2> QED BY <2>1, NoticedStep DEF FeedInv
<1>3. FeedInv /\ Noticed => ConcernedAreNotified
  BY NoticedQuiet DEF FeedInv
<1> QED BY <1>1, <1>2, <1>3, FeedAlways, PTL DEF Spec

(* The read point of a user never goes back, names the message it stands   *)
(* at, and is past every mention that disappears (update_read_state in     *)
(* db/database.cpp), whichever of two requests a worker takes first.       *)
THEOREM ReadPointsAdvance == Spec => ReadPointAdvances
<1>1. ASSUME TypeOK, Stored, KnownStep
      PROVE  Reads \/ UNCHANGED vars
  <2>1. ASSUME UNCHANGED readState, mentions \subseteq mentions'
        PROVE  Reads
    BY <1>1, <2>1 DEF Reads, TypeOK
  <2>2. ASSUME UNCHANGED <<readState, mentions>>
        PROVE  Reads
    BY <2>1, <2>2
  <2>3. ASSUME NEW i \in Instances, NEW w \in Workers, Works(i, w)
        PROVE  Reads
    <3>1. CASE Touched(i, w)
      BY <3>1 DEF Touched
    <3>2. CASE StoreMentions(i, w)
      BY <2>1, <3>2 DEF StoreMentions
    <3>3. CASE HandsOver(i, w)
      BY <2>2, <3>3 DEF HandsOver
    <3>4. CASE Dequeue(i, w) \/ Checked(i, w)
      BY <2>2, <3>4 DEF Dequeue, Checked, dbVars
    <3>5. CASE \/ CreateMessage(i, w) \/ Notify(i, w) \/ Assemble(i, w)
               \/ CreateFileMessage(i, w) \/ DeleteRow(i, w)
      BY <2>2, <3>5 DEF CreateMessage, Notify, Assemble, CreateFileMessage, DeleteRow
    <3> QED BY <1>1, <2>3, <3>1, <3>2, <3>3, <3>4, <3>5, EndingSend, Removing
            DEF Works, WorkerWrites
  <2>4. ASSUME NEW i \in Instances, LoopStep(i) \/ Receive(i) \/ Lose(i)
        PROVE  Reads
    BY <2>2, <2>4 DEF LoopStep, RunAnnounce, RunUploaded, Receive, Lose, dbVars
  <2>5. CASE Requested \/ Elsewhere
    BY <2>2, <2>5 DEF Requested, Elsewhere, dbVars
  <2> QED BY <1>1, <2>3, <2>4, <2>5 DEF KnownStep
<1>2. FeedInv /\ [Next]_vars =>
        [/\ \A u \in Users :
              readState'[u] # readState[u] =>
                readState'[u].at > readState[u].at /\ readState'[u].message = readState'[u].at
         /\ \A p \in mentions \ mentions' : p[1] <= readState'[p[2]].at]_vars
  <2> SUFFICES ASSUME FeedInv, [Next]_vars PROVE Reads \/ UNCHANGED vars
    BY DEF Reads
  <2>1. KnownStep
    BY FeedStep
  <2> QED BY <1>1, <2>1 DEF FeedInv
<1> QED BY <1>2, FeedAlways, PTL DEF Spec, ReadPointAdvances
=============================================================================
