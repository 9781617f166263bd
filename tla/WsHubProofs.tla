----------------------------- MODULE WsHubProofs -----------------------------
(* Theorems about WsHub, for every set of instances, workers, users,       *)
(* sockets and rooms and every budget.                                     *)
EXTENDS WsHub, TLAPS, FiniteSetTheorems, SequenceTheorems

(***************************************************************************)
(* What a closure, a task and a command carry.                             *)
(***************************************************************************)
LEMMA CommandFields ==
  ASSUME NEW cmd \in Commands
  PROVE  /\ cmd.action \in {"subscribe", "unsubscribe", "subscribe_admins"} =>
              cmd.topic \in RoomTopics
         /\ cmd.action \in {"subscribe", "unsubscribe", "disconnect_user"} =>
              cmd.user \in Users
BY DEF Commands

LEMMA ClosureFields ==
  ASSUME NEW c \in Closures
  PROVE  /\ c.do \in {"upgrade", "reject"} => c.socket \in Sockets
         /\ c.do = "upgrade" => c.admin \in BOOLEAN
         /\ c.do = "opened" => c.user \in Users /\ c.rooms \subseteq Rooms
         /\ c.do \in {"apply", "control"} => c.cmd \in Commands
         /\ c.do = "created" => c.user \in Users /\ c.room \in Rooms
         /\ c.do = "joined" => c.user \in Users /\ c.room \in WikiRooms
BY DEF Closures

LEMMA TaskFields ==
  ASSUME NEW task \in Tasks \cup {Nobody}
  PROVE  /\ task.op = "upgrade" =>
              /\ task.socket \in Sockets /\ task.admin \in BOOLEAN
              /\ task \in [op : {"upgrade"}, at : {"session", "user", "lockdown"},
                           socket : Sockets, admin : BOOLEAN]
         /\ task.op = "open" =>
              /\ task.user \in Users /\ task.rooms \subseteq Rooms
              /\ task \in [op : {"open"}, at : {"online", "rooms", "role"},
                           user : Users, rooms : SUBSET Rooms]
         /\ task.op \in {"offline", "ban", "unban", "role"} => task.user \in Users
         /\ task.op \in {"add", "remove", "create"} =>
              task.user \in Users /\ task.room \in Rooms
         /\ task.op = "wiki_join" => task.user \in Users /\ task.room \in WikiRooms
         /\ task.op = "defer" => task.closure \in Closures
BY DEF Tasks, Nobody

-----------------------------------------------------------------------------
(* The primitives keep the types of what they change.                      *)

LEMMA SubscribeTypes ==
  ASSUME HubTypes, NEW i \in Instances, NEW S \in SUBSET Sockets,
         NEW T \in SUBSET Topics, Subscribe(i, S, T)
  PROVE  /\ subscribers' \in [Instances -> [Topics -> SUBSET Sockets]]
         /\ topics' \in [Sockets -> SUBSET Topics]
BY DEF HubTypes, Subscribe

LEMMA UnsubscribeTypes ==
  ASSUME HubTypes, NEW i \in Instances, NEW S \in SUBSET Sockets,
         NEW topic \in Topics, Unsubscribe(i, S, topic)
  PROVE  /\ subscribers' \in [Instances -> [Topics -> SUBSET Sockets]]
         /\ topics' \in [Sockets -> SUBSET Topics]
BY DEF HubTypes, Unsubscribe

LEMMA SocketFields ==
  ASSUME NEW x \in SocketStates
  PROVE  /\ x.phase = "open" => x.home \in Instances
         /\ x.admin \in BOOLEAN
         /\ x.phase = "upgrading" => [x EXCEPT !.phase = "aborted"] \in SocketStates
<1> DEFINE Live == [phase : {"upgrading", "aborted", "open"}, home : Instances,
                    admin : BOOLEAN]
<1>1. CASE x = Closed
  BY <1>1 DEF Closed
<1>2. CASE x \in Live
  <2>1. [x EXCEPT !.phase = "aborted"] \in Live
    BY <1>2
  <2> QED  BY <1>2, <2>1 DEF SocketStates
<1> QED  BY <1>1, <1>2 DEF SocketStates

LEMMA OpenedState ==
  ASSUME NEW i \in Instances, NEW a \in BOOLEAN, NEW p \in {"upgrading", "aborted", "open"}
  PROVE  [phase |-> p, home |-> i, admin |-> a] \in SocketStates
BY DEF SocketStates

LEMMA ClosedType == Closed \in SocketStates
BY DEF SocketStates

LEMMA CloseTypes ==
  ASSUME HubTypes, NEW i \in Instances, NEW S \in SUBSET Sockets, Close(i, S)
  PROVE  HubTypes'
BY ClosedType DEF HubTypes, Close, Scrub

\* A sequence of offline tasks follows what was queued.
LEMMA CloseTasks ==
  ASSUME ThreadTypes, HubAssumption, NEW i \in Instances, NEW S \in SUBSET Sockets,
         Close(i, S)
  PROVE  tasks' \in [Instances -> Seq(Tasks)]
<1> DEFINE U == LastSockets(i, S)
<1>1. IsFiniteSet(U)
  BY FS_Subset DEF LastSockets, HubAssumption
<1>2. Cardinality(U) \in Nat
  BY <1>1, FS_CardinalityType
<1>3. PICK q \in Orderings(U) :
        tasks' = [tasks EXCEPT
          ![i] = @ \o [k \in DOMAIN q |-> [op |-> "offline", user |-> q[k]]]]
  BY DEF Close, SubmitOffline
<1>4. q \in [1..Cardinality(U) -> Users]
  BY DEF Orderings, LastSockets
<1> DEFINE new == [k \in DOMAIN q |-> [op |-> "offline", user |-> q[k]]]
<1>5. new \in [1..Cardinality(U) -> Tasks]
  BY <1>4 DEF Tasks
<1>6. new \in Seq(Tasks)
  BY <1>2, <1>5
<1> HIDE DEF new
<1>7. tasks[i] \o new \in Seq(Tasks)
  BY <1>6 DEF ThreadTypes
<1>8. tasks' = [tasks EXCEPT ![i] = tasks[i] \o new]
  BY <1>3 DEF new
<1> QED  BY <1>7, <1>8 DEF ThreadTypes

LEMMA PublishTypes ==
  ASSUME RedisTypes, NEW i \in Instances, NEW lead \in Nat, NEW q \in Seq(Commands),
         lead = 0 => q # <<>>, Publish(i, lead, q)
  PROVE  RedisTypes'
<1> DEFINE sent == IF ~redisUp THEN <<>>
                   ELSE IF link[i] = "stale" /\ lead = 0 THEN Tail(q) ELSE q
           pushed == [k \in DOMAIN sent |-> [from |-> i, cmd |-> sent[k]]]
<1>1. sent \in Seq(Commands)
  OBVIOUS
<1> HIDE DEF sent
<1>2. pushed \in [1..Len(sent) -> Messages]
  <2>1. /\ DOMAIN sent = 1..Len(sent)
        /\ \A k \in 1..Len(sent) : sent[k] \in Commands
    BY <1>1
  <2> QED  BY <2>1 DEF Messages
<1>3. pushed \in Seq(Messages)
  BY <1>1, <1>2
<1>4. wire' = [j \in Instances |-> IF listening[j] THEN wire[j] \o pushed ELSE wire[j]]
  BY DEF Publish, sent
<1> HIDE DEF pushed
<1>5. wire' \in [Instances -> Seq(Messages)]
  <2>1. ASSUME NEW j \in Instances
        PROVE  wire[j] \o pushed \in Seq(Messages)
    <3>1. wire[j] \in Seq(Messages)
      BY DEF RedisTypes
    <3> QED  BY <1>3, <3>1, ConcatProperties, Zenon
  <2> QED  BY <1>4, <2>1 DEF RedisTypes
<1> QED  BY <1>5 DEF RedisTypes, Publish

LEMMA RegisteredSockets ==
  ASSUME HubTypes, NEW i \in Instances
  PROVE  Registered(i) \subseteq Sockets /\ AdminsAt(i) \subseteq Sockets
BY DEF HubTypes, Registered, AdminsAt

LEMMA ApplyTypes ==
  ASSUME HubTypes, NEW i \in Instances, NEW cmd \in Commands, Apply(i, cmd)
  PROVE  HubTypes'
<1> USE CommandFields
<1>1. CASE /\ cmd.action = "subscribe"
           /\ Subscribe(i, userSockets[i][cmd.user], {cmd.topic})
           /\ UNCHANGED <<userSockets, sock, tasks>>
  <2>1. userSockets[i][cmd.user] \in SUBSET Sockets /\ {cmd.topic} \in SUBSET Topics
    BY <1>1 DEF HubTypes, Topics
  <2> QED  BY <1>1, <2>1, SubscribeTypes DEF HubTypes
<1>2. CASE /\ cmd.action = "unsubscribe"
           /\ Unsubscribe(i, userSockets[i][cmd.user], cmd.topic)
           /\ UNCHANGED <<userSockets, sock, tasks>>
  <2>1. userSockets[i][cmd.user] \in SUBSET Sockets /\ cmd.topic \in Topics
    BY <1>2 DEF HubTypes, Topics
  <2> QED  BY <1>2, <2>1, UnsubscribeTypes DEF HubTypes
<1>3. CASE /\ cmd.action = "subscribe_admins"
           /\ Subscribe(i, AdminsAt(i), {cmd.topic})
           /\ UNCHANGED <<userSockets, sock, tasks>>
  <2>1. AdminsAt(i) \in SUBSET Sockets /\ {cmd.topic} \in SUBSET Topics
    BY <1>3, RegisteredSockets DEF Topics
  <2> QED  BY <1>3, <2>1, SubscribeTypes DEF HubTypes
<1>4. CASE cmd.action = "disconnect_user" /\ Close(i, userSockets[i][cmd.user])
  <2>1. userSockets[i][cmd.user] \in SUBSET Sockets
    BY <1>4 DEF HubTypes
  <2> QED  BY <1>4, <2>1, CloseTypes
<1>5. CASE cmd.action = "disconnect_non_admins" /\ Close(i, Registered(i) \ AdminsAt(i))
  BY <1>5, RegisteredSockets, CloseTypes
<1> QED  BY <1>1, <1>2, <1>3, <1>4, <1>5 DEF Apply

LEMMA ApplyTasks ==
  ASSUME HubTypes, ThreadTypes, HubAssumption, NEW i \in Instances,
         NEW cmd \in Commands, Apply(i, cmd)
  PROVE  tasks' \in [Instances -> Seq(Tasks)]
<1>1. CASE tasks' = tasks
  BY <1>1 DEF ThreadTypes
<1>2. CASE cmd.action = "disconnect_user" /\ Close(i, userSockets[i][cmd.user])
  <2>1. userSockets[i][cmd.user] \in SUBSET Sockets
    BY <1>2, CommandFields DEF HubTypes
  <2> QED  BY <1>2, <2>1, CloseTasks
<1>3. CASE cmd.action = "disconnect_non_admins" /\ Close(i, Registered(i) \ AdminsAt(i))
  BY <1>3, RegisteredSockets, CloseTasks
<1> QED  BY <1>1, <1>2, <1>3 DEF Apply

-----------------------------------------------------------------------------
(* Every step keeps the types, one kind of variable at a time.             *)

LEMMA DbTypesKept ==
  ASSUME TypeOK, [Next]_vars
  PROVE  DbTypes'
<1> USE DEF TypeOK, DbTypes, ThreadTypes
<1>0. ASSUME NEW i \in Instances, NEW w \in Workers
      PROVE  running[i][w] \in Tasks \cup {Nobody}
  OBVIOUS
<1>1. ASSUME NEW i \in Instances, NEW w \in Workers, WorkerStep(i, w)
      PROVE  DbTypes'
  <2>1. CASE UNCHANGED dbVars
    BY <2>1 DEF dbVars
  <2>2. CASE SetOnline(i, w)
    BY <1>0, <2>2, TaskFields DEF SetOnline, Executes
  <2>3. CASE SetOffline(i, w)
    BY <2>3 DEF SetOffline
  <2>4. CASE AddMember(i, w)
    <3> DEFINE u == running[i][w].user
               r == running[i][w].room
    <3>1. u \in Users /\ r \in Rooms
      BY <1>0, <2>4, TaskFields DEF AddMember, Executes
    <3>2. /\ UNCHANGED <<rooms, admins, banned, lockedDown, online>>
          /\ members' = [members EXCEPT ![r] = @ \cup {u}] /\ Record(i, u, r)
      BY <2>4 DEF AddMember
    <3> HIDE DEF u, r
    <3> QED  BY <3>1, <3>2 DEF Record
  <2>5. CASE RemoveMember(i, w)
    BY <2>5 DEF RemoveMember
  <2>6. CASE CreateRoom(i, w)
    <3> DEFINE u == running[i][w].user
               r == running[i][w].room
    <3>1. u \in Users /\ r \in Rooms
      BY <1>0, <2>6, TaskFields DEF CreateRoom, Executes
    <3>2. /\ UNCHANGED <<admins, banned, lockedDown, online>>
          /\ \/ UNCHANGED <<rooms, members, missed>>
             \/ /\ rooms' = rooms \cup {r}
                /\ members' = [members EXCEPT ![r] = {u}]
                /\ Record(i, u, r)
      BY <2>6 DEF CreateRoom
    <3> HIDE DEF u, r
    <3>3. missed' \subseteq Users \X Rooms
      BY <3>1, <3>2 DEF Record
    <3> QED  BY <3>1, <3>2, <3>3
  <2>7. CASE BanUser(i, w)
    BY <1>0, <2>7, TaskFields DEF BanUser, Executes
  <2>8. CASE UnbanUser(i, w)
    BY <2>8 DEF UnbanUser
  <2>9. CASE LockServer(i, w) \/ UnlockServer(i, w)
    BY <2>9 DEF LockServer, UnlockServer
  <2>10. CASE ChangeRole(i, w)
    BY <1>0, <2>10, TaskFields DEF ChangeRole, Executes
  <2> QED
    BY <1>1, <2>1, <2>2, <2>3, <2>4, <2>5, <2>6, <2>7, <2>8, <2>9, <2>10
    DEF WorkerStep, Dequeue, ValidateSession, FindUser, CheckLockdown, ListRooms,
        ListAllRooms, CheckPageAccess, DeferClosure
<1>2. ASSUME NEW i \in Instances, LoopStep(i)
      PROVE  DbTypes'
  BY <1>2 DEF LoopStep, RunReject, RunUpgrade, RunOpened, RunApply, RunCreated,
              RunJoined, RunControl, RunAnnounce, dbVars
<1>3. CASE ClientStep
  BY <1>3 DEF ClientStep, Connect, Abort, Disconnect, RequestJoin, LeavePage, dbVars
<1>4. CASE RedisFails \/ RedisRecovers
  BY <1>4 DEF RedisFails, RedisRecovers, dbVars
<1>5. ASSUME NEW i \in Instances,
             RequestAny(i) \/ Receive(i) \/ SubscriberReconnects(i) \/ Crash(i)
      PROVE  DbTypes'
  BY <1>5 DEF RequestAny, Request, Receive, SubscriberReconnects, Crash, dbVars
<1>6. ASSUME NEW i \in Instances, Boot(i)
      PROVE  DbTypes'
  BY <1>6 DEF Boot
<1>7. CASE UNCHANGED vars
  BY <1>7 DEF vars, dbVars
<1> QED  BY <1>1, <1>2, <1>3, <1>4, <1>5, <1>6, <1>7 DEF Next

\* The closure at the head of a loop that is not empty.
LEMMA HeadClosure ==
  ASSUME ThreadTypes, NEW i \in Instances, NEW kind, Runs(i, kind)
  PROVE  /\ Head(loop[i]) \in Closures
         /\ Head(loop[i]).do = kind
         /\ loop' \in [Instances -> Seq(Closures)]
BY DEF ThreadTypes, Runs

LEMMA HubTypesKept ==
  ASSUME TypeOK, HubAssumption, [Next]_vars
  PROVE  HubTypes'
<1> USE DEF TypeOK
<1>1. ASSUME NEW i \in Instances, NEW w \in Workers, WorkerStep(i, w)
      PROVE  HubTypes'
  BY <1>1
  DEF WorkerStep, Dequeue, ValidateSession, FindUser, CheckLockdown, SetOnline, ListRooms,
      ListAllRooms, SetOffline, AddMember, RemoveMember, CreateRoom, BanUser, UnbanUser,
      LockServer, UnlockServer, ChangeRole, CheckPageAccess, DeferClosure, hubVars, HubTypes
<1>2. ASSUME NEW i \in Instances, LoopStep(i)
      PROVE  HubTypes'
  <2> DEFINE c == Head(loop[i])
  <2>1. CASE RunReject(i)
    <3>1. c.socket \in Sockets
      BY <2>1, HeadClosure, ClosureFields DEF RunReject
    <3> QED  BY <2>1, <3>1, ClosedType DEF RunReject, HubTypes
  <2>2. CASE RunUpgrade(i)
    <3>1. c.socket \in Sockets /\ c.admin \in BOOLEAN /\ UserOf[c.socket] \in Users
      BY <2>2, HeadClosure, ClosureFields DEF RunUpgrade, HubAssumption
    <3>2. CASE sock' = [sock EXCEPT ![c.socket] = Closed]
               /\ UNCHANGED <<userSockets, subscribers, topics>>
      BY <3>1, <3>2, ClosedType DEF HubTypes
    <3>3. CASE /\ sock' = [sock EXCEPT
                    ![c.socket] = [phase |-> "open", home |-> i, admin |-> c.admin]]
               /\ userSockets' = [userSockets EXCEPT
                    ![i][UserOf[c.socket]] = @ \cup {c.socket}]
               /\ Subscribe(i, {c.socket}, {Presence, Personal(UserOf[c.socket])})
      <4>1. {Presence, Personal(UserOf[c.socket])} \in SUBSET Topics
        BY <3>1 DEF Topics
      <4> HIDE DEF c
      <4>2. /\ subscribers' \in [Instances -> [Topics -> SUBSET Sockets]]
            /\ topics' \in [Sockets -> SUBSET Topics]
        BY <3>1, <3>3, <4>1, SubscribeTypes
      <4>3. [phase |-> "open", home |-> i, admin |-> c.admin] \in SocketStates
        BY <3>1, OpenedState
      <4> QED  BY ZenonT(60), <3>1, <3>3, <4>2, <4>3 DEF HubTypes
    <3> QED  BY <2>2, <3>2, <3>3 DEF RunUpgrade
  <2>3. CASE RunOpened(i)
    <3>1. c.user \in Users /\ c.rooms \subseteq Rooms
      BY <2>3, HeadClosure, ClosureFields DEF RunOpened
    <3>2. userSockets[i][c.user] \in SUBSET Sockets
      BY <3>1 DEF HubTypes
    <3>3. {RoomTopic(r) : r \in c.rooms} \in SUBSET Topics
      BY <3>1 DEF Topics, RoomTopics
    <3> QED  BY <2>3, <3>2, <3>3, SubscribeTypes DEF RunOpened, HubTypes
  <2>4. CASE RunApply(i)
    BY <2>4, HeadClosure, ClosureFields, ApplyTypes DEF RunApply
  <2>5. CASE RunCreated(i)
    <3>1. c.user \in Users /\ RoomTopic(c.room) \in Topics
      BY <2>5, HeadClosure, ClosureFields DEF RunCreated, Topics, RoomTopics
    <3>2. userSockets[i][c.user] \cup AdminsAt(i) \in SUBSET Sockets
      BY <3>1, RegisteredSockets DEF HubTypes
    <3>3. /\ Subscribe(i, userSockets[i][c.user] \cup AdminsAt(i), {RoomTopic(c.room)})
          /\ UNCHANGED <<userSockets, sock>>
      BY <2>5 DEF RunCreated
    <3>4. {RoomTopic(c.room)} \in SUBSET Topics
      BY <3>1
    <3> HIDE DEF c
    <3> QED  BY <3>2, <3>3, <3>4, SubscribeTypes DEF HubTypes
  <2>6. CASE RunJoined(i)
    <3>1. c.user \in Users /\ WikiTopic(c.room) \in Topics
      BY <2>6, HeadClosure, ClosureFields DEF RunJoined, Topics
    <3>2. userSockets[i][c.user] \in SUBSET Sockets
      BY <3>1 DEF HubTypes
    <3>3. {WikiTopic(c.room)} \in SUBSET Topics
      BY <3>1
    <3>4. /\ UNCHANGED <<userSockets, sock>>
          /\ \/ Subscribe(i, userSockets[i][c.user], {WikiTopic(c.room)})
             \/ UNCHANGED <<subscribers, topics>>
      BY <2>6 DEF RunJoined
    <3> HIDE DEF c
    <3> QED  BY <3>2, <3>3, <3>4, SubscribeTypes DEF HubTypes
  <2>7. CASE RunControl(i)
    BY <2>7, HeadClosure, ClosureFields, ApplyTypes DEF RunControl
  <2>8. CASE RunAnnounce(i)
    BY <2>8 DEF RunAnnounce, hubVars, HubTypes
  <2> QED  BY <1>2, <2>1, <2>2, <2>3, <2>4, <2>5, <2>6, <2>7, <2>8 DEF LoopStep
<1>3. CASE ClientStep
  <2>1. ASSUME NEW s \in Sockets, NEW i \in Instances, Connect(i, s)
        PROVE  HubTypes'
    BY <2>1, OpenedState DEF Connect, HubTypes
  <2>2. ASSUME NEW s \in Sockets, Abort(s)
        PROVE  HubTypes'
    BY <2>2, SocketFields DEF Abort, HubTypes
  <2>3. ASSUME NEW s \in Sockets, Disconnect(s)
        PROVE  HubTypes'
    <3>1. sock[s].home \in Instances
      BY <2>3, SocketFields DEF Disconnect, HubTypes
    <3> QED  BY <2>3, <3>1, CloseTypes DEF Disconnect
  <2>4. ASSUME NEW s \in Sockets, NEW r \in WikiRooms, RequestJoin(s, r)
        PROVE  HubTypes'
    BY <2>4 DEF RequestJoin, hubVars, HubTypes
  <2>5. ASSUME NEW s \in Sockets, NEW r \in WikiRooms, LeavePage(s, r)
        PROVE  HubTypes'
    <3>1. sock[s].home \in Instances /\ WikiTopic(r) \in Topics
      BY <2>5, SocketFields DEF LeavePage, HubTypes, Topics
    <3> QED  BY <2>5, <3>1, UnsubscribeTypes DEF LeavePage, HubTypes
  <2> QED  BY <1>3, <2>1, <2>2, <2>3, <2>4, <2>5 DEF ClientStep
<1>4. ASSUME NEW i \in Instances, Crash(i)
      PROVE  HubTypes'
  BY <1>4, ClosedType DEF Crash, HubTypes
<1>5. CASE RedisFails \/ RedisRecovers
  BY <1>5 DEF RedisFails, RedisRecovers, hubVars, HubTypes
<1>6. ASSUME NEW i \in Instances,
             RequestAny(i) \/ Receive(i) \/ SubscriberReconnects(i) \/ Boot(i)
      PROVE  HubTypes'
  BY <1>6 DEF RequestAny, Request, Receive, SubscriberReconnects, Boot, hubVars, HubTypes
<1>7. CASE UNCHANGED vars
  BY <1>7 DEF vars, hubVars, HubTypes
<1> QED  BY <1>1, <1>2, <1>3, <1>4, <1>5, <1>6, <1>7 DEF Next

LEMMA WorkerThreadTypes ==
  ASSUME TypeOK, NEW i \in Instances, NEW w \in Workers, WorkerStep(i, w)
  PROVE  ThreadTypes'
<1> DEFINE task == running[i][w]
<1>1. task \in Tasks \cup {Nobody}
  BY DEF TypeOK, ThreadTypes
<1>2. ASSUME NEW t \in Tasks, Continue(i, w, t)
      PROVE  ThreadTypes'
  BY <1>2 DEF Continue, TypeOK, ThreadTypes
<1>3. ASSUME NEW c \in Closures, FinishWith(i, w, c)
      PROVE  ThreadTypes'
  <2>1. [op |-> "defer", closure |-> c] \in Tasks
    BY DEF Tasks
  <2> QED  BY <1>3, <2>1 DEF FinishWith, TypeOK, ThreadTypes
<1>4. ASSUME Finish(i, w)
      PROVE  ThreadTypes'
  BY <1>4 DEF Finish, TypeOK, ThreadTypes
<1>5. CASE Dequeue(i, w)
  BY <1>5 DEF Dequeue, TypeOK, ThreadTypes
<1>6. CASE DeferClosure(i, w)
  BY <1>1, <1>6, TaskFields DEF DeferClosure, Executes, Defer, TypeOK, ThreadTypes
<1>7. CASE ValidateSession(i, w)
  <2>1. [task EXCEPT !.at = "user"] \in Tasks
    BY <1>1, <1>7, TaskFields DEF ValidateSession, Executes, Tasks
  <2>2. [do |-> "reject", socket |-> task.socket] \in Closures
    BY <1>1, <1>7, TaskFields DEF ValidateSession, Executes, Closures
  <2> QED  BY <1>2, <1>3, <1>7, <2>1, <2>2 DEF ValidateSession
<1>8. CASE FindUser(i, w)
  <2> DEFINE a == UserOf[task.socket] \in admins
  <2>1. [task EXCEPT !.at = "lockdown", !.admin = a] \in Tasks
    <3>1. a \in BOOLEAN
      OBVIOUS
    <3> HIDE DEF a
    <3> QED  BY <1>1, <1>8, <3>1, TaskFields DEF FindUser, Executes, Tasks
  <2> QED  BY <1>2, <1>8, <2>1 DEF FindUser
<1>9. CASE CheckLockdown(i, w)
  <2>1. /\ [do |-> "reject", socket |-> task.socket] \in Closures
        /\ [do |-> "upgrade", socket |-> task.socket, admin |-> task.admin] \in Closures
    BY <1>1, <1>9, TaskFields DEF CheckLockdown, Executes, Closures
  <2> QED  BY <1>3, <1>9, <2>1 DEF CheckLockdown
<1>10. CASE SetOnline(i, w)
  <2>1. [task EXCEPT !.at = "rooms"] \in Tasks
    BY <1>1, <1>10, TaskFields DEF SetOnline, Executes, Tasks
  <2> QED  BY <1>2, <1>10, <2>1 DEF SetOnline
<1>11. CASE ListRooms(i, w)
  <2> DEFINE R == {r \in rooms : task.user \in members[r]}
  <2>1. R \subseteq Rooms
    BY DEF TypeOK, DbTypes
  <2>2. [task EXCEPT !.at = "role", !.rooms = R] \in Tasks
    <3> HIDE DEF R
    <3> QED  BY <1>1, <1>11, <2>1, TaskFields DEF ListRooms, Executes, Tasks
  <2> QED  BY <1>2, <1>11, <2>2 DEF ListRooms
<1>12. CASE ListAllRooms(i, w)
  <2> DEFINE R == IF task.user \in admins THEN rooms ELSE task.rooms
  <2>1. task.user \in Users /\ R \subseteq Rooms
    BY <1>1, <1>12, TaskFields DEF ListAllRooms, Executes, TypeOK, DbTypes
  <2>2. [do |-> "opened", user |-> task.user, rooms |-> R] \in Closures
    BY <2>1 DEF Closures
  <2> QED  BY <1>3, <1>12, <2>2 DEF ListAllRooms
<1> DEFINE Announce == [do |-> "announce"]
<1>13. Announce \in Closures
  BY DEF Closures
<1>14. CASE SetOffline(i, w) \/ UnbanUser(i, w) \/ UnlockServer(i, w) \/ ChangeRole(i, w)
  BY <1>3, <1>13, <1>14 DEF SetOffline, UnbanUser, UnlockServer, ChangeRole
<1>15. ASSUME NEW cmd \in Commands
       PROVE  [do |-> "apply", cmd |-> cmd] \in Closures
  BY DEF Closures
<1>16. CASE AddMember(i, w) \/ RemoveMember(i, w)
  <2>1. task.user \in Users /\ RoomTopic(task.room) \in RoomTopics
    BY <1>1, <1>16, TaskFields DEF AddMember, RemoveMember, Executes, RoomTopics
  <2>2. \A a \in {"subscribe", "unsubscribe"} :
          [action |-> a, user |-> task.user, topic |-> RoomTopic(task.room)] \in Commands
    BY <2>1 DEF Commands
  <2> QED  BY <1>3, <1>15, <1>16, <2>2 DEF AddMember, RemoveMember, Subscription, Withdrawal
<1>17. CASE CreateRoom(i, w)
  <2>1. [do |-> "created", user |-> task.user, room |-> task.room] \in Closures
    BY <1>1, <1>17, TaskFields DEF CreateRoom, Executes, Closures
  <2> QED  BY <1>3, <1>4, <1>17, <2>1 DEF CreateRoom
<1>18. CASE BanUser(i, w)
  <2>1. [action |-> "disconnect_user", user |-> task.user] \in Commands
    BY <1>1, <1>18, TaskFields DEF BanUser, Executes, Commands
  <2> QED  BY <1>3, <1>4, <1>15, <1>18, <2>1 DEF BanUser
<1>19. CASE LockServer(i, w)
  <2>1. [action |-> "disconnect_non_admins"] \in Commands
    BY DEF Commands
  <2> QED  BY <1>3, <1>15, <1>19, <2>1 DEF LockServer
<1>20. CASE CheckPageAccess(i, w)
  <2> DEFINE a == task.user \in members[task.room] \cup admins
             c == [do |-> "joined", user |-> task.user, room |-> task.room, allowed |-> a]
  <2>1. a \in BOOLEAN
    OBVIOUS
  <2>2. task.user \in Users /\ task.room \in WikiRooms
    BY <1>1, <1>20, TaskFields DEF CheckPageAccess, Executes
  <2>3. c \in Closures
    <3> HIDE DEF a
    <3> QED  BY <2>1, <2>2 DEF Closures
  <2>4. FinishWith(i, w, c)
    BY <1>20 DEF CheckPageAccess
  <2> HIDE DEF c
  <2> QED  BY <1>3, <2>3, <2>4
<1> QED
  BY <1>5, <1>6, <1>7, <1>8, <1>9, <1>10, <1>11, <1>12, <1>14, <1>16, <1>17, <1>18,
     <1>19, <1>20 DEF WorkerStep

LEMMA SubmitTypes ==
  ASSUME ThreadTypes, NEW i \in Instances, NEW task \in Tasks, Submit(i, task)
  PROVE  tasks' \in [Instances -> Seq(Tasks)]
BY DEF ThreadTypes, Submit

LEMMA DeferTypes ==
  ASSUME ThreadTypes, NEW i \in Instances, NEW c \in Closures, Defer(i, c)
  PROVE  loop' \in [Instances -> Seq(Closures)]
BY DEF ThreadTypes, Defer

LEMMA ThreadTypesKept ==
  ASSUME TypeOK, HubAssumption, [Next]_vars
  PROVE  ThreadTypes'
<1>1. ASSUME NEW i \in Instances, NEW w \in Workers, WorkerStep(i, w)
      PROVE  ThreadTypes'
  BY <1>1, WorkerThreadTypes
<1>2. ASSUME NEW i \in Instances, LoopStep(i)
      PROVE  ThreadTypes'
  <2> DEFINE c == Head(loop[i])
  <2>1. PICK kind : Runs(i, kind)
    BY <1>2 DEF LoopStep, RunReject, RunUpgrade, RunOpened, RunApply, RunCreated,
                RunJoined, RunControl, RunAnnounce
  <2>2. loop' \in [Instances -> Seq(Closures)] /\ c \in Closures
    BY <2>1, HeadClosure DEF TypeOK
  <2>3. running' = running
    BY <1>2 DEF LoopStep, RunReject, RunUpgrade, RunOpened, RunApply, RunCreated,
                RunJoined, RunControl, RunAnnounce
  <2>4. CASE tasks' = tasks
    BY <2>2, <2>3, <2>4 DEF TypeOK, ThreadTypes
  <2>5. CASE RunUpgrade(i)
    <3>1. UserOf[c.socket] \in Users
      BY <2>2, <2>5, ClosureFields DEF RunUpgrade, Runs, HubAssumption
    <3>2. [op |-> "open", at |-> "online", user |-> UserOf[c.socket], rooms |-> {}] \in Tasks
      BY <3>1 DEF Tasks
    <3> DEFINE task == [op |-> "open", at |-> "online", user |-> UserOf[c.socket],
                        rooms |-> {}]
    <3>3. UNCHANGED tasks \/ Submit(i, task)
      BY <2>5 DEF RunUpgrade
    <3> HIDE DEF task
    <3>4. task \in Tasks
      BY <3>2 DEF task
    <3>5. tasks' \in [Instances -> Seq(Tasks)]
      BY <3>3, <3>4, SubmitTypes DEF TypeOK, ThreadTypes
    <3> QED  BY <2>2, <2>3, <3>5 DEF TypeOK, ThreadTypes
  <2>6. CASE RunApply(i) \/ RunControl(i)
    <3>1. c.cmd \in Commands /\ Apply(i, c.cmd)
      BY <2>2, <2>6, ClosureFields DEF RunApply, RunControl, Runs
    <3>2. tasks' \in [Instances -> Seq(Tasks)]
      BY <3>1, ApplyTasks DEF TypeOK
    <3> QED  BY <2>2, <2>3, <3>2 DEF TypeOK, ThreadTypes
  <2> QED
    BY <1>2, <2>4, <2>5, <2>6 DEF LoopStep, RunReject, RunOpened, RunCreated, RunJoined,
                                  RunAnnounce
<1>3. ASSUME NEW i \in Instances, NEW task \in Tasks, Submit(i, task),
             UNCHANGED <<running, loop>>
      PROVE  ThreadTypes'
  BY <1>3 DEF Submit, TypeOK, ThreadTypes
<1>4. CASE ClientStep
  <2>1. ASSUME NEW s \in Sockets, NEW i \in Instances, Connect(i, s)
        PROVE  ThreadTypes'
    <3>1. [op |-> "upgrade", at |-> "session", socket |-> s, admin |-> FALSE] \in Tasks
      BY DEF Tasks
    <3> QED  BY <1>3, <2>1, <3>1 DEF Connect
  <2>2. ASSUME NEW s \in Sockets, Abort(s)
        PROVE  ThreadTypes'
    BY <2>2 DEF Abort, threadVars, TypeOK, ThreadTypes
  <2>3. ASSUME NEW s \in Sockets, Disconnect(s)
        PROVE  ThreadTypes'
    <3>1. sock[s].home \in Instances
      BY <2>3, SocketFields DEF Disconnect, TypeOK, HubTypes
    <3>2. tasks' \in [Instances -> Seq(Tasks)]
      BY <2>3, <3>1, CloseTasks DEF Disconnect, TypeOK
    <3> QED  BY <2>3, <3>2 DEF Disconnect, TypeOK, ThreadTypes
  <2>4. ASSUME NEW s \in Sockets, NEW r \in WikiRooms, RequestJoin(s, r)
        PROVE  ThreadTypes'
    <3>1. sock[s].home \in Instances /\ UserOf[s] \in Users
      BY <2>4, SocketFields DEF RequestJoin, TypeOK, HubTypes, HubAssumption
    <3>2. [op |-> "wiki_join", user |-> UserOf[s], room |-> r] \in Tasks
      BY <3>1 DEF Tasks
    <3> QED  BY <1>3, <2>4, <3>1, <3>2 DEF RequestJoin
  <2>5. ASSUME NEW s \in Sockets, NEW r \in WikiRooms, LeavePage(s, r)
        PROVE  ThreadTypes'
    BY <2>5 DEF LeavePage, threadVars, TypeOK, ThreadTypes
  <2> QED  BY <1>4, <2>1, <2>2, <2>3, <2>4, <2>5 DEF ClientStep
<1>5. ASSUME NEW i \in Instances, RequestAny(i)
      PROVE  ThreadTypes'
  <2>1. PICK kind, task : task \in Tasks /\ Request(i, kind, task)
    BY <1>5 DEF RequestAny, Tasks
  <2> QED  BY <1>3, <2>1 DEF Request
<1>6. ASSUME NEW i \in Instances, Receive(i)
      PROVE  ThreadTypes'
  <2>0. wire[i] \in Seq(Messages) /\ wire[i] # <<>>
    BY <1>6 DEF Receive, TypeOK, RedisTypes
  <2>1. Head(wire[i]) \in Messages
    BY <2>0
  <2>2. [do |-> "control", cmd |-> Head(wire[i]).cmd] \in Closures
    BY <2>1 DEF Closures, Messages
  <2>3. /\ UNCHANGED <<tasks, running>>
        /\ UNCHANGED loop \/ Defer(i, [do |-> "control", cmd |-> Head(wire[i]).cmd])
    BY <1>6 DEF Receive
  <2>4. loop' \in [Instances -> Seq(Closures)]
    <3> DEFINE c == [do |-> "control", cmd |-> Head(wire[i]).cmd]
    <3> HIDE DEF c
    <3>1. c \in Closures /\ (UNCHANGED loop \/ Defer(i, c))
      BY <2>2, <2>3 DEF c
    <3> QED  BY <3>1, DeferTypes DEF TypeOK, ThreadTypes
  <2> QED  BY <2>3, <2>4 DEF TypeOK, ThreadTypes
<1>7. ASSUME NEW i \in Instances, Crash(i)
      PROVE  ThreadTypes'
  BY <1>7 DEF Crash, TypeOK, ThreadTypes
<1>8. CASE RedisFails \/ RedisRecovers
  BY <1>8 DEF RedisFails, RedisRecovers, threadVars, TypeOK, ThreadTypes
<1>9. ASSUME NEW i \in Instances, SubscriberReconnects(i) \/ Boot(i)
      PROVE  ThreadTypes'
  BY <1>9 DEF SubscriberReconnects, Boot, threadVars, TypeOK, ThreadTypes
<1>10. CASE UNCHANGED vars
  BY <1>10 DEF vars, threadVars, TypeOK, ThreadTypes
<1> QED
  BY <1>1, <1>2, <1>4, <1>5, <1>6, <1>7, <1>8, <1>9, <1>10 DEF Next

LEMMA RedisTypesKept ==
  ASSUME TypeOK, [Next]_vars
  PROVE  RedisTypes'
<1>1. ASSUME NEW i \in Instances, NEW w \in Workers, WorkerStep(i, w)
      PROVE  RedisTypes'
  BY <1>1
  DEF WorkerStep, Dequeue, ValidateSession, FindUser, CheckLockdown, SetOnline, ListRooms,
      ListAllRooms, SetOffline, AddMember, RemoveMember, CreateRoom, BanUser, UnbanUser,
      LockServer, UnlockServer, ChangeRole, CheckPageAccess, DeferClosure, redisVars,
      TypeOK, RedisTypes
<1>2. ASSUME NEW i \in Instances, LoopStep(i)
      PROVE  RedisTypes'
  <2> DEFINE c == Head(loop[i])
  <2>1. CASE UNCHANGED redisVars
    BY <2>1 DEF redisVars, TypeOK, RedisTypes
  <2>2. ASSUME Publish(i, 1, <<>>)
        PROVE  RedisTypes'
    <3>1. <<>> \in Seq(Commands) /\ 1 \in Nat /\ 1 # 0
      OBVIOUS
    <3> DEFINE q == <<>>
    <3>2. Publish(i, 1, q)
      BY <2>2
    <3> HIDE DEF q
    <3> QED  BY <3>1, <3>2, PublishTypes DEF TypeOK, q
  <2>3. CASE RunApply(i)
    <3>1. c.cmd \in Commands
      BY <2>3, HeadClosure, ClosureFields DEF RunApply, TypeOK
    <3>2. PICK lead \in {0, 1} : Publish(i, lead, <<c.cmd>>)
      BY <2>3 DEF RunApply
    <3>3. <<c.cmd>> \in Seq(Commands) /\ <<c.cmd>> # <<>>
      BY <3>1
    <3> HIDE DEF c
    <3> QED  BY <3>2, <3>3, PublishTypes DEF TypeOK
  <2>4. CASE RunCreated(i)
    <3> DEFINE topic == RoomTopic(c.room)
               one == [action |-> "subscribe", user |-> c.user, topic |-> topic]
               two == [action |-> "subscribe_admins", topic |-> topic]
    <3>1. c.user \in Users /\ topic \in RoomTopics
      BY <2>4, HeadClosure, ClosureFields DEF RunCreated, RoomTopics, TypeOK
    <3>2. one \in Commands /\ two \in Commands
      <4> HIDE DEF topic, c
      <4> QED  BY <3>1 DEF Commands
    <3>3. Publish(i, 0, <<one, two>>)
      BY <2>4 DEF RunCreated
    <3> HIDE DEF one, two
    <3>4. <<one, two>> \in Seq(Commands) /\ <<one, two>> # <<>>
      BY <3>2
    <3> QED  BY <3>3, <3>4, PublishTypes DEF TypeOK
  <2>5. CASE RunOpened(i) \/ RunJoined(i) \/ RunAnnounce(i)
    <3>1. UNCHANGED redisVars \/ Publish(i, 1, <<>>)
      BY <2>5 DEF RunOpened, RunJoined, RunAnnounce
    <3> QED  BY <2>1, <2>2, <3>1
  <2> QED
    BY <1>2, <2>1, <2>3, <2>4, <2>5 DEF LoopStep, RunReject, RunUpgrade, RunControl
<1>3. CASE ClientStep
  BY <1>3 DEF ClientStep, Connect, Abort, Disconnect, RequestJoin, LeavePage, redisVars,
              TypeOK, RedisTypes
<1>4. CASE RedisFails
  <2>1. PICK lost \in SUBSET Instances :
          wire' = [i \in Instances |-> IF i \in lost THEN <<>> ELSE wire[i]]
    BY <1>4 DEF RedisFails
  <2>2. wire' \in [Instances -> Seq(Messages)]
    BY <2>1 DEF TypeOK, RedisTypes
  <2> QED  BY <1>4, <2>2 DEF RedisFails, TypeOK, RedisTypes
<1>5. CASE RedisRecovers
  BY <1>5 DEF RedisRecovers, TypeOK, RedisTypes
<1>6. ASSUME NEW i \in Instances, RequestAny(i) \/ Boot(i)
      PROVE  RedisTypes'
  BY <1>6 DEF RequestAny, Request, Boot, redisVars, TypeOK, RedisTypes
<1>7. ASSUME NEW i \in Instances, Receive(i)
      PROVE  RedisTypes'
  <2>1. wire[i] \in Seq(Messages) /\ wire[i] # <<>>
    BY <1>7 DEF Receive, TypeOK, RedisTypes
  <2>2. Tail(wire[i]) \in Seq(Messages)
    BY <2>1
  <2> QED  BY <1>7, <2>2 DEF Receive, TypeOK, RedisTypes
<1>8. ASSUME NEW i \in Instances, SubscriberReconnects(i) \/ Crash(i)
      PROVE  RedisTypes'
  <2>1. CASE SubscriberReconnects(i)
    BY <2>1 DEF SubscriberReconnects, TypeOK, RedisTypes
  <2>2. CASE Crash(i)
    <3>1. <<>> \in Seq(Messages)
      OBVIOUS
    <3>2. wire' \in [Instances -> Seq(Messages)]
      BY <2>2, <3>1 DEF Crash, TypeOK, RedisTypes
    <3> QED  BY <2>2, <3>2 DEF Crash, TypeOK, RedisTypes
  <2> QED  BY <1>8, <2>1, <2>2
<1>9. CASE UNCHANGED vars
  BY <1>9 DEF vars, redisVars, TypeOK, RedisTypes
<1> QED
  BY <1>1, <1>2, <1>3, <1>4, <1>5, <1>6, <1>7, <1>8, <1>9 DEF Next

LEMMA InitTypes == ASSUME HubAssumption, Init PROVE TypeOK
<1> USE DEF Init
<1>1. DbTypes
  BY DEF DbTypes, HubAssumption
<1>2. HubTypes
  BY ClosedType DEF HubTypes
<1>3. ThreadTypes
  <2>1. <<>> \in Seq(Tasks) /\ <<>> \in Seq(Closures)
    OBVIOUS
  <2> QED  BY <2>1 DEF ThreadTypes
<1>4. RedisTypes
  <2>1. <<>> \in Seq(Messages)
    OBVIOUS
  <2> QED  BY <2>1 DEF RedisTypes
<1>5. up \in [Instances -> BOOLEAN] /\ budget \in [Kinds -> Nat]
  BY DEF HubAssumption
<1> QED  BY <1>1, <1>2, <1>3, <1>4, <1>5 DEF TypeOK

LEMMA BudgetTypesKept ==
  ASSUME TypeOK, [Next]_vars
  PROVE  up' \in [Instances -> BOOLEAN] /\ budget' \in [Kinds -> Nat]
<1> USE DEF TypeOK
<1>1. ASSUME NEW kind, Spend(kind)
      PROVE  budget' \in [Kinds -> Nat]
  <2>1. CASE kind \in Kinds
    <3>1. budget[kind] \in Nat /\ budget[kind] - 1 \in Nat
      BY <1>1, <2>1 DEF Spend
    <3> QED  BY <1>1, <2>1, <3>1 DEF Spend
  <2>2. CASE kind \notin Kinds
    BY <1>1, <2>2 DEF Spend
  <2> QED  BY <2>1, <2>2
<1>2. CASE UNCHANGED <<up, budget>>
  BY <1>2
<1>3. ASSUME NEW i \in Instances, NEW w \in Workers, WorkerStep(i, w)
      PROVE  UNCHANGED <<up, budget>>
  BY <1>3
  DEF WorkerStep, Dequeue, ValidateSession, FindUser, CheckLockdown, SetOnline, ListRooms,
      ListAllRooms, SetOffline, AddMember, RemoveMember, CreateRoom, BanUser, UnbanUser,
      LockServer, UnlockServer, ChangeRole, CheckPageAccess, DeferClosure
<1>4. ASSUME NEW i \in Instances, LoopStep(i)
      PROVE  UNCHANGED <<up, budget>>
  BY <1>4
  DEF LoopStep, RunReject, RunUpgrade, RunOpened, RunApply, RunCreated, RunJoined,
      RunControl, RunAnnounce
<1>5. CASE ClientStep
  BY <1>1, <1>2, <1>5 DEF ClientStep, Connect, Abort, Disconnect, RequestJoin, LeavePage
<1>6. CASE RedisFails \/ RedisRecovers
  BY <1>1, <1>2, <1>6 DEF RedisFails, RedisRecovers
<1>7. ASSUME NEW i \in Instances,
             RequestAny(i) \/ Receive(i) \/ SubscriberReconnects(i)
      PROVE  up' = up /\ budget' \in [Kinds -> Nat]
  BY <1>1, <1>7 DEF RequestAny, Request, Receive, SubscriberReconnects
<1>8. ASSUME NEW i \in Instances, Crash(i) \/ Boot(i)
      PROVE  up' \in [Instances -> BOOLEAN] /\ budget' \in [Kinds -> Nat]
  BY <1>1, <1>8 DEF Crash, Boot
<1>9. CASE UNCHANGED vars
  BY <1>2, <1>9 DEF vars
<1> QED
  BY <1>2, <1>3, <1>4, <1>5, <1>6, <1>7, <1>8, <1>9 DEF Next

(***************************************************************************)
(* Every variable keeps its type, whatever the instances, the workers, the *)
(* users, the rooms and the budgets.                                       *)
(***************************************************************************)
THEOREM HubTypesCorrect == Spec => []TypeOK
<1>1. Init => TypeOK
  BY HubAssumption, InitTypes
<1>2. TypeOK /\ [Next]_vars => TypeOK'
  <2> SUFFICES ASSUME TypeOK, [Next]_vars
               PROVE  TypeOK'
    OBVIOUS
  <2>1. DbTypes' /\ HubTypes' /\ ThreadTypes' /\ RedisTypes'
    BY HubAssumption, DbTypesKept, HubTypesKept, ThreadTypesKept, RedisTypesKept
  <2> QED  BY <2>1, BudgetTypesKept DEF TypeOK
<1> QED  BY <1>1, <1>2, PTL DEF Spec

-----------------------------------------------------------------------------
(* The bookkeeping of the hub is inductive beside the types.               *)

\* A socket that is not open remembers nothing, so that one slot's next
\* connection starts afresh.
OnlyOpenRemember == \A s \in Sockets : sock[s].phase # "open" => topics[s] = {}
Agreement == IndexAgrees /\ RegistryAgrees /\ PersonallyReachable /\ OnlyOpenRemember

LEMMA SubscribeAgrees ==
  ASSUME HubTypes, Agreement, NEW i \in Instances, NEW S \in SUBSET OpenAt(i),
         NEW T \in SUBSET Topics, Subscribe(i, S, T), UNCHANGED <<userSockets, sock>>
  PROVE  Agreement'
BY DEF HubTypes, Agreement, IndexAgrees, RegistryAgrees, PersonallyReachable, OnlyOpenRemember, OpenAt,
       Subscribe

LEMMA UnsubscribeAgrees ==
  ASSUME HubTypes, Agreement, NEW i \in Instances, NEW S \in SUBSET OpenAt(i),
         NEW topic \in Topics, topic # Presence, \A u \in Users : topic # Personal(u),
         UserOf \in [Sockets -> Users],
         Unsubscribe(i, S, topic), UNCHANGED <<userSockets, sock>>
  PROVE  Agreement'
BY DEF HubTypes, Agreement, IndexAgrees, RegistryAgrees, PersonallyReachable, OnlyOpenRemember, OpenAt,
       Unsubscribe

LEMMA CloseAgrees ==
  ASSUME HubTypes, Agreement, NEW i \in Instances, NEW S \in SUBSET OpenAt(i), Close(i, S)
  PROVE  Agreement'
BY DEF HubTypes, Agreement, IndexAgrees, RegistryAgrees, PersonallyReachable, OnlyOpenRemember, OpenAt,
       Close, Scrub, Closed

\* A step that opens and closes no socket and touches no subscription.
LEMMA OpenSocketsAgree ==
  ASSUME Agreement, UNCHANGED <<userSockets, subscribers, topics>>,
         \A s \in Sockets :
           /\ sock'[s].phase = "open" <=> sock[s].phase = "open"
           /\ sock[s].phase = "open" => sock'[s] = sock[s]
  PROVE  Agreement'
BY DEF Agreement, IndexAgrees, RegistryAgrees, PersonallyReachable, OnlyOpenRemember, OpenAt

LEMMA UsersSockets ==
  ASSUME HubTypes, RegistryAgrees, NEW i \in Instances
  PROVE  /\ \A u \in Users : userSockets[i][u] \in SUBSET OpenAt(i)
         /\ Registered(i) \in SUBSET OpenAt(i)
         /\ AdminsAt(i) \in SUBSET OpenAt(i)
BY DEF RegistryAgrees, Registered, AdminsAt

LEMMA TopicKinds ==
  ASSUME NEW topic, topic \in RoomTopics \/ \E r \in WikiRooms : topic = WikiTopic(r)
  PROVE  topic \in Topics /\ topic # Presence /\ \A u : topic # Personal(u)
BY DEF RoomTopics, RoomTopic, WikiTopic, Presence, Personal, Topics

LEMMA ApplyAgrees ==
  ASSUME HubTypes, HubAssumption, Agreement, NEW i \in Instances, NEW cmd \in Commands,
         Apply(i, cmd)
  PROVE  Agreement'
<1> USE CommandFields, UsersSockets DEF Agreement
<1>1. CASE /\ cmd.action = "subscribe"
           /\ Subscribe(i, userSockets[i][cmd.user], {cmd.topic})
           /\ UNCHANGED <<userSockets, sock, tasks>>
  <2>1. userSockets[i][cmd.user] \in SUBSET OpenAt(i) /\ {cmd.topic} \in SUBSET Topics
    BY <1>1, TopicKinds
  <2> QED  BY <1>1, <2>1, SubscribeAgrees
<1>2. CASE /\ cmd.action = "unsubscribe"
           /\ Unsubscribe(i, userSockets[i][cmd.user], cmd.topic)
           /\ UNCHANGED <<userSockets, sock, tasks>>
  <2>1. userSockets[i][cmd.user] \in SUBSET OpenAt(i)
    BY <1>2
  <2>2. /\ cmd.topic \in Topics /\ cmd.topic # Presence
        /\ \A u \in Users : cmd.topic # Personal(u)
    BY <1>2, TopicKinds
  <2> QED  BY <1>2, <2>1, <2>2, UnsubscribeAgrees DEF HubAssumption
<1>3. CASE /\ cmd.action = "subscribe_admins"
           /\ Subscribe(i, AdminsAt(i), {cmd.topic})
           /\ UNCHANGED <<userSockets, sock, tasks>>
  <2>1. {cmd.topic} \in SUBSET Topics
    BY <1>3, TopicKinds
  <2> QED  BY <1>3, <2>1, SubscribeAgrees
<1>4. CASE cmd.action = "disconnect_user" /\ Close(i, userSockets[i][cmd.user])
  <2>1. userSockets[i][cmd.user] \in SUBSET OpenAt(i)
    BY <1>4
  <2> QED  BY <1>4, <2>1, CloseAgrees
<1>5. CASE cmd.action = "disconnect_non_admins" /\ Close(i, Registered(i) \ AdminsAt(i))
  <2>1. Registered(i) \ AdminsAt(i) \in SUBSET OpenAt(i)
    OBVIOUS
  <2> QED  BY <1>5, <2>1, CloseAgrees
<1> QED  BY <1>1, <1>2, <1>3, <1>4, <1>5 DEF Apply

LEMMA UnchangedHubAgrees ==
  ASSUME Agreement, UNCHANGED hubVars
  PROVE  Agreement'
BY DEF hubVars, Agreement, IndexAgrees, RegistryAgrees, PersonallyReachable, OnlyOpenRemember, OpenAt

\* The open handler enters a socket that was in no set before.
LEMMA UpgradeAgrees ==
  ASSUME HubTypes, Agreement, NEW i \in Instances, NEW s \in Sockets, NEW a \in BOOLEAN,
         UserOf \in [Sockets -> Users], sock[s].phase = "upgrading",
         sock' = [sock EXCEPT ![s] = [phase |-> "open", home |-> i, admin |-> a]],
         userSockets' = [userSockets EXCEPT ![i][UserOf[s]] = @ \cup {s}],
         Subscribe(i, {s}, {Presence, Personal(UserOf[s])})
  PROVE  Agreement'
<1> DEFINE T == {Presence, Personal(UserOf[s])}
<1>1. T \subseteq Topics
  BY DEF Topics
<1>2. \A j \in Instances : OpenAt(j)' = IF j = i THEN OpenAt(j) \cup {s} ELSE OpenAt(j)
  BY DEF OpenAt, HubTypes
<1>3. s \notin UNION {OpenAt(j) : j \in Instances}
  BY DEF OpenAt
<1>4. IndexAgrees'
  <2>1. topics[s] = {}
    BY DEF Agreement, OnlyOpenRemember
  <2>2. /\ topics'[s] = T
        /\ \A x \in Sockets \ {s} : topics'[x] = topics[x]
    BY <2>1 DEF Subscribe
  <2>3. ASSUME NEW j \in Instances, NEW t \in Topics
        PROVE  subscribers'[j][t] = {x \in OpenAt(j)' : t \in topics'[x]}
    <3>1. CASE j = i
      <4>1. subscribers'[i][t] =
              IF t \in T THEN subscribers[i][t] \cup {s} ELSE subscribers[i][t]
        BY DEF Subscribe, HubTypes
      <4>2. subscribers[i][t] = {x \in OpenAt(i) : t \in topics[x]}
        BY DEF Agreement, IndexAgrees
      <4> HIDE DEF T
      <4>3. OpenAt(i) \subseteq Sockets \ {s}
        BY <1>3 DEF OpenAt
      <4> QED  BY <1>2, <2>2, <3>1, <4>1, <4>2, <4>3
    <3>2. CASE j # i
      <4>1. subscribers'[j][t] = subscribers[j][t]
        BY <3>2 DEF Subscribe, HubTypes
      <4>2. OpenAt(j) \subseteq Sockets \ {s}
        BY <1>3 DEF OpenAt
      <4> QED  BY <1>2, <2>2, <3>2, <4>1, <4>2 DEF Agreement, IndexAgrees
    <3> QED  BY <3>1, <3>2
  <2> QED  BY <2>3 DEF IndexAgrees
<1>5. RegistryAgrees'
  BY <1>2, <1>3 DEF Agreement, RegistryAgrees, HubTypes
<1>6. PersonallyReachable'
  BY DEF Agreement, PersonallyReachable, Subscribe, HubTypes
<1>7. OnlyOpenRemember'
  BY DEF Agreement, OnlyOpenRemember, Subscribe, HubTypes
<1> QED  BY <1>4, <1>5, <1>6, <1>7 DEF Agreement

LEMMA AgreementKept ==
  ASSUME TypeOK, HubAssumption, Agreement, [Next]_vars
  PROVE  Agreement'
<1> USE DEF TypeOK
<1>1. ASSUME NEW i \in Instances, NEW w \in Workers, WorkerStep(i, w)
      PROVE  Agreement'
  <2>1. UNCHANGED hubVars
    BY <1>1
    DEF WorkerStep, Dequeue, ValidateSession, FindUser, CheckLockdown, SetOnline, ListRooms,
        ListAllRooms, SetOffline, AddMember, RemoveMember, CreateRoom, BanUser, UnbanUser,
        LockServer, UnlockServer, ChangeRole, CheckPageAccess, DeferClosure
  <2> QED  BY <2>1, UnchangedHubAgrees
<1>2. ASSUME NEW i \in Instances, LoopStep(i)
      PROVE  Agreement'
  <2> DEFINE c == Head(loop[i])
  <2>1. CASE RunReject(i)
    <3>1. c.socket \in Sockets
      BY <2>1, HeadClosure, ClosureFields DEF RunReject
    <3>2. /\ sock[c.socket].phase # "open"
          /\ sock' = [sock EXCEPT ![c.socket] = Closed]
          /\ UNCHANGED <<userSockets, subscribers, topics>>
      BY <2>1 DEF RunReject
    <3> HIDE DEF c
    <3>3. \A s \in Sockets :
            /\ sock'[s].phase = "open" <=> sock[s].phase = "open"
            /\ sock[s].phase = "open" => sock'[s] = sock[s]
      BY <3>1, <3>2 DEF Closed, HubTypes
    <3> QED  BY <3>2, <3>3, OpenSocketsAgree
  <2>2. CASE RunUpgrade(i)
    <3>1. c.socket \in Sockets /\ c.admin \in BOOLEAN
      BY <2>2, HeadClosure, ClosureFields DEF RunUpgrade
    <3>2. CASE /\ sock[c.socket].phase = "aborted"
               /\ sock' = [sock EXCEPT ![c.socket] = Closed]
               /\ UNCHANGED <<userSockets, subscribers, topics>>
      <4> HIDE DEF c
      <4>1. \A s \in Sockets :
              /\ sock'[s].phase = "open" <=> sock[s].phase = "open"
              /\ sock[s].phase = "open" => sock'[s] = sock[s]
        BY <3>1, <3>2 DEF Closed, HubTypes
      <4> QED  BY <3>2, <4>1, OpenSocketsAgree
    <3>3. CASE /\ sock[c.socket].phase = "upgrading"
               /\ sock' = [sock EXCEPT
                    ![c.socket] = [phase |-> "open", home |-> i, admin |-> c.admin]]
               /\ userSockets' = [userSockets EXCEPT
                    ![i][UserOf[c.socket]] = @ \cup {c.socket}]
               /\ Subscribe(i, {c.socket}, {Presence, Personal(UserOf[c.socket])})
      <4> HIDE DEF c
      <4> QED  BY <3>1, <3>3, UpgradeAgrees DEF HubAssumption
    <3> QED  BY <2>2, <3>2, <3>3 DEF RunUpgrade
  <2>3. CASE RunOpened(i)
    <3>1. c.user \in Users /\ c.rooms \subseteq Rooms
      BY <2>3, HeadClosure, ClosureFields DEF RunOpened
    <3>2. userSockets[i][c.user] \in SUBSET OpenAt(i)
      BY <3>1, UsersSockets DEF Agreement
    <3>3. {RoomTopic(r) : r \in c.rooms} \in SUBSET Topics
      BY <3>1 DEF Topics, RoomTopics
    <3> QED  BY <2>3, <3>2, <3>3, SubscribeAgrees DEF RunOpened
  <2>4. CASE RunApply(i)
    BY <2>4, HeadClosure, ClosureFields, ApplyAgrees DEF RunApply
  <2>5. CASE RunCreated(i)
    <3>1. c.user \in Users /\ {RoomTopic(c.room)} \in SUBSET Topics
      BY <2>5, HeadClosure, ClosureFields DEF RunCreated, Topics, RoomTopics
    <3>2. userSockets[i][c.user] \cup AdminsAt(i) \in SUBSET OpenAt(i)
      BY <3>1, UsersSockets DEF Agreement
    <3>3. /\ Subscribe(i, userSockets[i][c.user] \cup AdminsAt(i), {RoomTopic(c.room)})
          /\ UNCHANGED <<userSockets, sock>>
      BY <2>5 DEF RunCreated
    <3> HIDE DEF c
    <3> QED  BY <3>1, <3>2, <3>3, SubscribeAgrees
  <2>6. CASE RunJoined(i)
    <3>1. c.user \in Users /\ {WikiTopic(c.room)} \in SUBSET Topics
      BY <2>6, HeadClosure, ClosureFields DEF RunJoined, Topics
    <3>2. userSockets[i][c.user] \in SUBSET OpenAt(i)
      BY <3>1, UsersSockets DEF Agreement
    <3>3. /\ UNCHANGED <<userSockets, sock>>
          /\ \/ Subscribe(i, userSockets[i][c.user], {WikiTopic(c.room)})
             \/ UNCHANGED <<subscribers, topics>>
      BY <2>6 DEF RunJoined
    <3> HIDE DEF c
    <3> QED  BY <3>1, <3>2, <3>3, SubscribeAgrees, UnchangedHubAgrees DEF hubVars
  <2>7. CASE RunControl(i)
    BY <2>7, HeadClosure, ClosureFields, ApplyAgrees DEF RunControl
  <2>8. CASE RunAnnounce(i)
    BY <2>8, UnchangedHubAgrees DEF RunAnnounce
  <2> QED  BY <1>2, <2>1, <2>2, <2>3, <2>4, <2>5, <2>6, <2>7, <2>8 DEF LoopStep
<1>3. CASE ClientStep
  <2>1. ASSUME NEW s \in Sockets, NEW i \in Instances, Connect(i, s)
        PROVE  Agreement'
    <3>1. /\ sock[s].phase # "open"
          /\ sock' = [sock EXCEPT ![s] = [phase |-> "upgrading", home |-> i, admin |-> FALSE]]
          /\ UNCHANGED <<userSockets, subscribers, topics>>
      BY <2>1 DEF Connect
    <3> QED  BY <3>1, OpenSocketsAgree DEF HubTypes
  <2>2. ASSUME NEW s \in Sockets, Abort(s)
        PROVE  Agreement'
    <3>1. /\ sock[s].phase = "upgrading"
          /\ sock' = [sock EXCEPT ![s] = [sock[s] EXCEPT !.phase = "aborted"]]
          /\ UNCHANGED <<userSockets, subscribers, topics>>
      BY <2>2 DEF Abort
    <3>2. [sock[s] EXCEPT !.phase = "aborted"].phase = "aborted"
      BY <3>1 DEF HubTypes, SocketStates, Closed
    <3> QED  BY <3>1, <3>2, OpenSocketsAgree DEF HubTypes
  <2>3. ASSUME NEW s \in Sockets, Disconnect(s)
        PROVE  Agreement'
    <3>1. sock[s].home \in Instances /\ {s} \in SUBSET OpenAt(sock[s].home)
      BY <2>3, SocketFields DEF Disconnect, HubTypes, OpenAt
    <3> QED  BY <2>3, <3>1, CloseAgrees DEF Disconnect
  <2>4. ASSUME NEW s \in Sockets, NEW r \in WikiRooms, RequestJoin(s, r)
        PROVE  Agreement'
    BY <2>4, UnchangedHubAgrees DEF RequestJoin
  <2>5. ASSUME NEW s \in Sockets, NEW r \in WikiRooms, LeavePage(s, r)
        PROVE  Agreement'
    <3>1. sock[s].home \in Instances /\ {s} \in SUBSET OpenAt(sock[s].home)
      BY <2>5, SocketFields DEF LeavePage, HubTypes, OpenAt
    <3>2. /\ WikiTopic(r) \in Topics /\ WikiTopic(r) # Presence
          /\ \A u \in Users : WikiTopic(r) # Personal(u)
      BY TopicKinds
    <3> QED  BY <2>5, <3>1, <3>2, UnsubscribeAgrees DEF LeavePage, HubAssumption
  <2> QED  BY <1>3, <2>1, <2>2, <2>3, <2>4, <2>5 DEF ClientStep
<1>4. ASSUME NEW i \in Instances, Crash(i)
      PROVE  Agreement'
  BY <1>4 DEF Crash, Closed, HubTypes, Agreement, IndexAgrees, RegistryAgrees,
              PersonallyReachable, OnlyOpenRemember, OpenAt
<1>5. CASE RedisFails \/ RedisRecovers
  BY <1>5, UnchangedHubAgrees DEF RedisFails, RedisRecovers
<1>6. ASSUME NEW i \in Instances,
             RequestAny(i) \/ Receive(i) \/ SubscriberReconnects(i) \/ Boot(i)
      PROVE  Agreement'
  BY <1>6, UnchangedHubAgrees DEF RequestAny, Request, Receive, SubscriberReconnects, Boot
<1>7. CASE UNCHANGED vars
  BY <1>7, UnchangedHubAgrees DEF vars
<1> QED  BY <1>1, <1>2, <1>3, <1>4, <1>5, <1>6, <1>7 DEF Next

(***************************************************************************)
(* No dangling pointer in topic_subscribers_ or user_sockets_, and none    *)
(* missing: the index, the registry and what each socket remembers agree   *)
(* in every reachable state.                                               *)
(***************************************************************************)
THEOREM HubAgreement == Spec => []Agreement
<1>1. Init => Agreement
  BY DEF Init, Agreement, IndexAgrees, RegistryAgrees, PersonallyReachable, OnlyOpenRemember, OpenAt, Closed
<1>2. TypeOK /\ Agreement /\ [Next]_vars => Agreement'
  BY HubAssumption, AgreementKept
<1> QED  BY <1>1, <1>2, HubTypesCorrect, PTL DEF Spec

\* The subscribers of a topic (topic_subscribers_) are exactly the open sockets
\* that remember it.
THEOREM HubIndex == Spec => []IndexAgrees
<1>1. Agreement => IndexAgrees
  BY DEF Agreement
<1> QED  BY <1>1, HubAgreement, PTL

\* user_sockets_ holds exactly the open sockets, each under its own user.
THEOREM HubRegistry == Spec => []RegistryAgrees
<1>1. Agreement => RegistryAgrees
  BY DEF Agreement
<1> QED  BY <1>1, HubAgreement, PTL

\* No open socket ever loses the presence topic or its user's own topic, so that
\* send_to_user and broadcast_to_presence reach it.
THEOREM HubReachable == Spec => []PersonallyReachable
<1>1. Agreement => PersonallyReachable
  BY DEF Agreement
<1> QED  BY <1>1, HubAgreement, PTL

-----------------------------------------------------------------------------
(* What is queued *)

LEMMA AppendRange ==
  ASSUME NEW S, NEW q \in Seq(S), NEW e \in S
  PROVE  Range(Append(q, e)) = Range(q) \cup {e}
<1> DEFINE p == Append(q, e)
<1>1. /\ p \in Seq(S) /\ Len(p) = Len(q) + 1 /\ Len(q) \in Nat
      /\ \A k \in 1 .. Len(q) : p[k] = q[k]
      /\ p[Len(q) + 1] = e
  OBVIOUS
<1>2. DOMAIN p = 1 .. Len(q) + 1 /\ DOMAIN q = 1 .. Len(q)
  BY <1>1
<1> HIDE DEF p
<1>3. Range(p) = Range(q) \cup {e}
  BY <1>1, <1>2 DEF Range
<1> QED  BY <1>3 DEF p

LEMMA TailRange ==
  ASSUME NEW S, NEW q \in Seq(S), q # <<>>
  PROVE  /\ Head(q) \in Range(q) /\ Range(Tail(q)) \subseteq Range(q)
         /\ Range(q) \subseteq Range(Tail(q)) \cup {Head(q)}
<1> DEFINE p == Tail(q)
<1>1. /\ p \in Seq(S) /\ Len(p) = Len(q) - 1 /\ Len(q) \in Nat \ {0} /\ Head(q) = q[1]
      /\ \A k \in 1 .. Len(p) : p[k] = q[k + 1]
  OBVIOUS
<1>2. DOMAIN p = 1 .. Len(q) - 1 /\ DOMAIN q = 1 .. Len(q)
  BY <1>1
<1> HIDE DEF p
<1>3. Range(p) \subseteq Range(q) /\ Head(q) \in Range(q)
  BY <1>1, <1>2 DEF Range
<1>4. ASSUME NEW k \in 1 .. Len(q), k # 1
      PROVE  k - 1 \in 1 .. Len(p) /\ p[k - 1] = q[k]
  <2>1. k - 1 \in 1 .. Len(p) /\ (k - 1) + 1 = k
    BY <1>1, <1>4
  <2> QED  BY <1>1, <2>1
<1>5. Range(q) \subseteq Range(p) \cup {Head(q)}
  BY <1>1, <1>2, <1>4 DEF Range
<1> QED  BY <1>3, <1>5 DEF p

LEMMA ConcatRange ==
  ASSUME NEW S, NEW q \in Seq(S), NEW p \in Seq(S)
  PROVE  Range(q \o p) = Range(q) \cup Range(p)
<1> DEFINE r == q \o p
<1>1. /\ Len(q) \in Nat /\ Len(p) \in Nat /\ Len(r) = Len(q) + Len(p)
      /\ \A k \in 1 .. Len(r) : r[k] = IF k <= Len(q) THEN q[k] ELSE p[k - Len(q)]
  OBVIOUS
<1>2. DOMAIN q = 1 .. Len(q) /\ DOMAIN p = 1 .. Len(p) /\ DOMAIN r = 1 .. Len(r)
  OBVIOUS
<1> HIDE DEF r
<1>3. Range(r) \subseteq Range(q) \cup Range(p)
  <2>1. ASSUME NEW k \in 1 .. Len(r), ~(k <= Len(q)) PROVE k - Len(q) \in 1 .. Len(p)
    BY <1>1, <2>1
  <2> QED  BY <1>1, <1>2, <2>1 DEF Range
<1>4. Range(q) \subseteq Range(r)
  <2>1. \A k \in 1 .. Len(q) : k \in 1 .. Len(r) /\ r[k] = q[k]
    BY <1>1
  <2> QED  BY <1>2, <2>1 DEF Range
<1>5. Range(p) \subseteq Range(r)
  <2>1. ASSUME NEW k \in 1 .. Len(p) PROVE k + Len(q) \in 1 .. Len(r) /\ r[k + Len(q)] = p[k]
    BY <1>1
  <2> QED  BY <1>2, <2>1 DEF Range
<1> QED  BY <1>3, <1>4, <1>5 DEF r

\* The tasks that instance i has, the closures and the commands on their way.
AtWork(i) == Range(tasks[i]) \cup {running[i][w] : w \in Workers}
Carried(i) == Deferred(i) \cup Range(loop[i])
CommandsAt(i) == {c.cmd : c \in {d \in Carried(i) : d.do \in {"apply", "control"}}}
                  \cup {m.cmd : m \in Range(wire[i])}
Underway == UNION {CommandsAt(i) : i \in Instances}

\* No task is queued that holds a closure.
Undeferred == \A i \in Instances : \A task \in Range(tasks[i]) : task.op # "defer"

LEMMA WithdrawingIsUnderway ==
  ASSUME NEW u, NEW r
  PROVE  Withdrawing(u, r) <=> Withdrawal(u, r) \in Underway
BY DEF Withdrawing, Underway, CommandsAt, Carried

\* A worker goes on with a task, which may hold a closure.
LEMMA WorkerGoesOn ==
  ASSUME ThreadTypes, NEW i \in Instances, NEW w \in Workers, NEW task,
         running' = [running EXCEPT ![i][w] = task], UNCHANGED <<tasks, loop>>,
         running[i][w].op # "defer"
  PROVE  /\ \A j \in Instances : \A t \in AtWork(j) :
              t \in AtWork(j)' \/ (j = i /\ t = running[i][w])
         /\ task \in AtWork(i)'
         /\ \A j \in Instances : Carried(j) \subseteq Carried(j)'
         /\ task.op = "defer" => task.closure \in Carried(i)'
         /\ \A j \in Instances : \A c \in Carried(j)' :
              c \in Carried(j) \/ (task.op = "defer" /\ c = task.closure)
<1>1. /\ running'[i][w] = task
      /\ \A v \in Workers \ {w} : running'[i][v] = running[i][v]
      /\ \A j \in Instances \ {i} : running'[j] = running[j]
  BY DEF ThreadTypes
<1>2. \A j \in Instances : \A t \in AtWork(j) :
        t \in AtWork(j)' \/ (j = i /\ t = running[i][w])
  BY <1>1 DEF AtWork
<1>3. task \in AtWork(i)'
  BY <1>1 DEF AtWork
<1>4. \A j \in Instances : Deferred(j) \subseteq Deferred(j)'
  BY <1>1 DEF Deferred
<1>5. task.op = "defer" => task.closure \in Deferred(i)'
  BY <1>1 DEF Deferred
<1>6. \A j \in Instances : \A c \in Deferred(j)' :
        c \in Deferred(j) \/ (task.op = "defer" /\ c = task.closure)
  BY <1>1 DEF Deferred
<1> QED  BY <1>2, <1>3, <1>4, <1>5, <1>6 DEF Carried

\* The next task of the queue.
LEMMA DequeueQueues ==
  ASSUME ThreadTypes, Undeferred, NEW i \in Instances, NEW w \in Workers, Dequeue(i, w)
  PROVE  /\ \A j \in Instances : \A t \in AtWork(j) : t \in AtWork(j)' \/ t = Nobody
         /\ \A j \in Instances : Carried(j)' = Carried(j)
         /\ Undeferred'
<1>1. /\ running[i][w] = Nobody /\ tasks[i] # <<>> /\ tasks[i] \in Seq(Tasks)
      /\ running' = [running EXCEPT ![i][w] = Head(tasks[i])]
      /\ tasks' = [tasks EXCEPT ![i] = Tail(@)] /\ loop' = loop
  BY DEF Dequeue, ThreadTypes
<1>2. /\ Head(tasks[i]) \in Range(tasks[i])
      /\ Range(Tail(tasks[i])) \subseteq Range(tasks[i])
      /\ Range(tasks[i]) \subseteq Range(Tail(tasks[i])) \cup {Head(tasks[i])}
  BY <1>1, TailRange
<1>3. /\ tasks'[i] = Tail(tasks[i]) /\ \A j \in Instances \ {i} : tasks'[j] = tasks[j]
      /\ running'[i][w] = Head(tasks[i])
      /\ \A v \in Workers \ {w} : running'[i][v] = running[i][v]
      /\ \A j \in Instances \ {i} : running'[j] = running[j]
  BY <1>1 DEF ThreadTypes
<1>4. running[i][w].op # "defer" /\ running'[i][w].op # "defer"
  BY <1>1, <1>2, <1>3 DEF Nobody, Undeferred
<1>5. \A j \in Instances : \A t \in AtWork(j) : t \in AtWork(j)' \/ t = Nobody
  BY <1>1, <1>2, <1>3 DEF AtWork
<1>6. \A j \in Instances : Deferred(j)' = Deferred(j)
  BY <1>3, <1>4 DEF Deferred
<1>7. Undeferred'
  BY <1>2, <1>3 DEF Undeferred
<1> QED  BY <1>1, <1>5, <1>6, <1>7 DEF Carried

LEMMA DeferQueues ==
  ASSUME ThreadTypes, NEW i \in Instances, NEW w \in Workers, DeferClosure(i, w)
  PROVE  /\ \A j \in Instances : \A t \in AtWork(j) : t \in AtWork(j)' \/ t.op = "defer"
         /\ \A j \in Instances : Carried(j)' = Carried(j)
<1>1. /\ running[i][w].op = "defer" /\ running[i][w] \in Tasks \cup {Nobody}
      /\ running' = [running EXCEPT ![i][w] = Nobody] /\ tasks' = tasks
      /\ loop' = [loop EXCEPT ![i] = Append(@, running[i][w].closure)]
  BY DEF DeferClosure, Executes, Defer, ThreadTypes
<1> DEFINE c == running[i][w].closure
<1>2. loop[i] \in Seq(Closures) /\ c \in Closures
  BY <1>1, TaskFields DEF ThreadTypes
<1>3. Range(Append(loop[i], c)) = Range(loop[i]) \cup {c}
  BY <1>2, AppendRange
<1>4. /\ loop'[i] = Append(loop[i], c) /\ \A j \in Instances \ {i} : loop'[j] = loop[j]
      /\ running'[i][w] = Nobody
      /\ \A v \in Workers \ {w} : running'[i][v] = running[i][v]
      /\ \A j \in Instances \ {i} : running'[j] = running[j]
  BY <1>1 DEF ThreadTypes
<1>5. Nobody.op # "defer"
  BY DEF Nobody
<1> HIDE DEF c
<1>6. Deferred(i) = Deferred(i)' \cup {c}
  BY <1>1, <1>4, <1>5 DEF Deferred, c
<1>7. \A j \in Instances \ {i} : Deferred(j)' = Deferred(j)
  BY <1>4 DEF Deferred
<1>8. \A j \in Instances : Carried(j)' = Carried(j)
  BY <1>3, <1>4, <1>6, <1>7 DEF Carried
<1>9. \A j \in Instances : \A t \in AtWork(j) : t \in AtWork(j)' \/ t.op = "defer"
  BY <1>1, <1>4 DEF AtWork
<1> QED  BY <1>8, <1>9

\* The closure at the head of the queue is taken from it.
LEMMA LoopQueues ==
  ASSUME ThreadTypes, NEW i \in Instances, NEW kind, Runs(i, kind), UNCHANGED running
  PROVE  /\ Head(loop[i]) \in Carried(i)
         /\ \A j \in Instances : Carried(j)' \subseteq Carried(j)
         /\ \A j \in Instances : \A c \in Carried(j) :
              c \in Carried(j)' \/ (j = i /\ c = Head(loop[i]))
<1>1. /\ loop[i] # <<>> /\ loop[i] \in Seq(Closures)
      /\ loop' = [loop EXCEPT ![i] = Tail(@)]
  BY DEF Runs, ThreadTypes
<1>2. /\ Head(loop[i]) \in Range(loop[i])
      /\ Range(Tail(loop[i])) \subseteq Range(loop[i])
      /\ Range(loop[i]) \subseteq Range(Tail(loop[i])) \cup {Head(loop[i])}
  BY <1>1, TailRange
<1>3. loop'[i] = Tail(loop[i]) /\ \A j \in Instances \ {i} : loop'[j] = loop[j]
  BY <1>1 DEF ThreadTypes
<1>4. \A j \in Instances : Deferred(j)' = Deferred(j)
  BY DEF Deferred
<1> QED  BY <1>2, <1>3, <1>4 DEF Carried

LEMMA SubmitQueues ==
  ASSUME ThreadTypes, NEW i \in Instances, NEW task \in Tasks, Submit(i, task),
         UNCHANGED running
  PROVE  /\ \A j \in Instances : AtWork(j) \subseteq AtWork(j)'
         /\ task \in AtWork(i)'
         /\ Undeferred /\ task.op # "defer" => Undeferred'
<1>1. tasks[i] \in Seq(Tasks) /\ tasks' = [tasks EXCEPT ![i] = Append(@, task)]
  BY DEF Submit, ThreadTypes
<1>2. Range(Append(tasks[i], task)) = Range(tasks[i]) \cup {task}
  BY <1>1, AppendRange
<1>3. tasks'[i] = Append(tasks[i], task) /\ \A j \in Instances \ {i} : tasks'[j] = tasks[j]
  BY <1>1 DEF ThreadTypes
<1> QED  BY <1>2, <1>3 DEF AtWork, Undeferred

LEMMA CloseQueues ==
  ASSUME ThreadTypes, HubAssumption, NEW i \in Instances, NEW S \in SUBSET Sockets,
         Close(i, S), UNCHANGED running
  PROVE  /\ \A j \in Instances : AtWork(j) \subseteq AtWork(j)'
         /\ Undeferred => Undeferred'
<1> DEFINE U == LastSockets(i, S)
<1>1. IsFiniteSet(U)
  BY FS_Subset DEF LastSockets, HubAssumption
<1>2. Cardinality(U) \in Nat
  BY <1>1, FS_CardinalityType
<1>3. PICK q \in Orderings(U) :
        tasks' = [tasks EXCEPT
          ![i] = @ \o [k \in DOMAIN q |-> [op |-> "offline", user |-> q[k]]]]
  BY DEF Close, SubmitOffline
<1>4. q \in [1..Cardinality(U) -> Users]
  BY DEF Orderings, LastSockets
<1> DEFINE new == [k \in DOMAIN q |-> [op |-> "offline", user |-> q[k]]]
<1>5. new \in [1..Cardinality(U) -> Tasks]
  BY <1>4 DEF Tasks
<1>6. new \in Seq(Tasks)
  BY <1>2, <1>5
<1>7. \A task \in Range(new) : task.op = "offline"
  BY DEF Range
<1> HIDE DEF new
<1>8. tasks[i] \in Seq(Tasks) /\ tasks' = [tasks EXCEPT ![i] = tasks[i] \o new]
  BY <1>3 DEF new, ThreadTypes
<1>9. Range(tasks[i] \o new) = Range(tasks[i]) \cup Range(new)
  BY <1>6, <1>8, ConcatRange
<1>10. tasks'[i] = tasks[i] \o new /\ \A j \in Instances \ {i} : tasks'[j] = tasks[j]
  BY <1>8 DEF ThreadTypes
<1>11. \A j \in Instances : AtWork(j) \subseteq AtWork(j)'
  BY <1>9, <1>10 DEF AtWork
<1>12. Undeferred => Undeferred'
  BY <1>7, <1>9, <1>10 DEF Undeferred
<1> QED  BY <1>11, <1>12

\* What is published reaches every subscriber that listens, unless Redis is gone
\* or the connection stale.
LEMMA PublishReaches ==
  ASSUME RedisTypes, NEW i \in Instances, NEW lead \in Nat, NEW q \in Seq(Commands),
         lead = 0 => q # <<>>, Publish(i, lead, q)
  PROVE  /\ redisUp' = redisUp /\ listening' = listening
         /\ \A j \in Instances : link[j] # "stale" => link'[j] # "stale"
         /\ \A j \in Instances : Range(wire[j]) \subseteq Range(wire'[j])
         /\ \A j \in Instances : \A m \in Range(wire'[j]) :
              m \in Range(wire[j]) \/ m.cmd \in Range(q)
         /\ redisUp /\ link[i] # "stale" =>
              \A j \in Instances : listening[j] =>
                \A cmd \in Range(q) : [from |-> i, cmd |-> cmd] \in Range(wire'[j])
<1> DEFINE sent == IF ~redisUp THEN <<>>
                   ELSE IF link[i] = "stale" /\ lead = 0 THEN Tail(q) ELSE q
           pushed == [k \in DOMAIN sent |-> [from |-> i, cmd |-> sent[k]]]
<1>1. sent \in Seq(Commands) /\ Range(sent) \subseteq Range(q)
  <2>1. Range(<<>>) = {}
    BY DEF Range
  <2>2. lead = 0 => Range(Tail(q)) \subseteq Range(q)
    BY TailRange
  <2> QED  BY <2>1, <2>2
<1>2. redisUp /\ link[i] # "stale" => sent = q
  OBVIOUS
<1> HIDE DEF sent
<1>3. pushed \in [1..Len(sent) -> Messages]
  <2>1. /\ DOMAIN sent = 1..Len(sent)
        /\ \A k \in 1..Len(sent) : sent[k] \in Commands
    BY <1>1
  <2> QED  BY <2>1 DEF Messages
<1>4. pushed \in Seq(Messages)
  BY <1>1, <1>3
<1>5. Range(pushed) = {[from |-> i, cmd |-> cmd] : cmd \in Range(sent)}
  BY DEF Range
<1>6. wire' = [j \in Instances |-> IF listening[j] THEN wire[j] \o pushed ELSE wire[j]]
  BY DEF Publish, sent
<1> HIDE DEF pushed
<1>7. ASSUME NEW j \in Instances
      PROVE  Range(wire'[j]) = IF listening[j] THEN Range(wire[j]) \cup Range(pushed)
                               ELSE Range(wire[j])
  <2>1. wire[j] \in Seq(Messages)
    BY DEF RedisTypes
  <2>2. Range(wire[j] \o pushed) = Range(wire[j]) \cup Range(pushed)
    BY <1>4, <2>1, ConcatRange
  <2> QED  BY <1>6, <2>2
<1>8. \A m \in Range(pushed) : m.cmd \in Range(q)
  BY <1>1, <1>5
<1>9. redisUp' = redisUp /\ listening' = listening
  BY DEF Publish
<1>10. \A j \in Instances : link[j] # "stale" => link'[j] # "stale"
  BY DEF Publish, RedisTypes
<1>11. redisUp /\ link[i] # "stale" =>
         \A cmd \in Range(q) : [from |-> i, cmd |-> cmd] \in Range(pushed)
  BY <1>2, <1>5
<1> QED  BY <1>7, <1>8, <1>9, <1>10, <1>11

-----------------------------------------------------------------------------
(***************************************************************************)
(* NoMissedSubscription: an open socket that is not subscribed to a room   *)
(* of its user will be.  Either its own open handler has yet to read the   *)
(* rooms, or has read this one; or the command of the membership has yet   *)
(* to reach the instance, through nothing that loses it.  And nothing that *)
(* would take the subscription away is under way.                          *)
(***************************************************************************)
Rereads(task, u, r) ==
  task.op = "open" /\ task.user = u /\ (task.at \in {"online", "rooms"} \/ r \in task.rooms)
Opens(c, u, r) == c.do = "opened" /\ c.user = u /\ r \in c.rooms
Reading(j, u, r) ==
  \/ \E task \in AtWork(j) : Rereads(task, u, r)
  \/ \E c \in Carried(j) : Opens(c, u, r)

Reaches(i, j) == i = j \/ (redisUp /\ link[i] # "stale" /\ listening[j])
Received(c, u, r) == c.do = "control" /\ c.cmd = Subscription(u, r)
Told(j, u, r) ==
  \/ \E i \in Instances : Reaches(i, j) /\ \E c \in Carried(i) : Offers(c, u, r)
  \/ \E m \in Range(wire[j]) : m.from # j /\ m.cmd = Subscription(u, r)
  \/ \E c \in Carried(j) : Received(c, u, r)

Belongs(u, r) == r \in rooms /\ u \in members[r] /\ <<u, r>> \notin missed
HearsOf(s, r) ==
  \/ RoomTopic(r) \in topics[s]
  \/ Reading(sock[s].home, UserOf[s], r)
  \/ Told(sock[s].home, UserOf[s], r)
AllHear ==
  \A s \in Sockets, r \in Rooms :
    sock[s].phase = "open" /\ Belongs(UserOf[s], r) => HearsOf(s, r)
Firm == \A u \in Users, r \in Rooms : Belongs(u, r) => Withdrawal(u, r) \notin Underway
Hearing == AllHear /\ Firm /\ Undeferred

LEMMA UnpublishedIsCarried ==
  ASSUME NEW i, NEW u, NEW r
  PROVE  Unpublished(i, u, r) <=> \E c \in Carried(i) : Offers(c, u, r)
BY DEF Unpublished, Carried

LEMMA CommandsDiffer ==
  ASSUME NEW u, NEW r
  PROVE  /\ Withdrawal(u, r).action = "unsubscribe" /\ Subscription(u, r).action = "subscribe"
         /\ \A v, x : Withdrawal(u, r) = Withdrawal(v, x) => u = v /\ r = x
         /\ \A v, x : Subscription(u, r) = Subscription(v, x) => u = v /\ r = x
<1>1. \A x : RoomTopic(r) = RoomTopic(x) => r = x
  BY DEF RoomTopic
<1>2. /\ Withdrawal(u, r).action = "unsubscribe" /\ Subscription(u, r).action = "subscribe"
      /\ Withdrawal(u, r).user = u /\ Withdrawal(u, r).topic = RoomTopic(r)
      /\ Subscription(u, r).user = u /\ Subscription(u, r).topic = RoomTopic(r)
  BY DEF Withdrawal, Subscription
<1>3. ASSUME NEW v, NEW x, Withdrawal(u, r) = Withdrawal(v, x) PROVE u = v /\ r = x
  <2>1. Withdrawal(v, x).user = v /\ Withdrawal(v, x).topic = RoomTopic(x)
    BY DEF Withdrawal
  <2> QED  BY <1>1, <1>2, <1>3, <2>1
<1>4. ASSUME NEW v, NEW x, Subscription(u, r) = Subscription(v, x) PROVE u = v /\ r = x
  <2>1. Subscription(v, x).user = v /\ Subscription(v, x).topic = RoomTopic(x)
    BY DEF Subscription
  <2> QED  BY <1>1, <1>2, <1>4, <2>1
<1> QED  BY <1>2, <1>3, <1>4

LEMMA FirmKept ==
  ASSUME Firm,
         \A u \in Users, r \in Rooms :
           Belongs(u, r)' => Belongs(u, r) \/ Withdrawal(u, r) \notin Underway,
         \A u \in Users, r \in Rooms :
           Belongs(u, r)' /\ Withdrawal(u, r) \in Underway' => Withdrawal(u, r) \in Underway
  PROVE  Firm'
<1> SUFFICES ASSUME NEW u \in Users, NEW r \in Rooms, Belongs(u, r)',
                    Withdrawal(u, r)' \in Underway'
             PROVE  FALSE
  BY DEF Firm
<1>1. Withdrawal(u, r)' = Withdrawal(u, r)
  BY DEF Withdrawal
<1> QED  BY <1>1 DEF Firm

\* A worker's step neither opens nor closes a socket, nor does it lose a command.
LEMMA WorkerHears ==
  ASSUME AllHear, HubAssumption, UNCHANGED <<hubVars, redisVars>>,
         \A j \in Instances : Carried(j) \subseteq Carried(j)',
         \A j \in Instances, u \in Users, r \in Rooms :
           Belongs(u, r)' /\ (\E task \in AtWork(j) : Rereads(task, u, r))
             => Reading(j, u, r)',
         \A u \in Users, r \in Rooms :
           Belongs(u, r)' =>
             \/ Belongs(u, r)
             \/ \E i \in Instances : /\ \E c \in Carried(i)' : Offers(c, u, r)
                                     /\ \A j \in Instances : Reaches(i, j),
         HubTypes
  PROVE  AllHear'
<1> SUFFICES ASSUME NEW s \in Sockets, NEW r \in Rooms, sock'[s].phase = "open",
                    Belongs(UserOf[s], r)'
             PROVE  HearsOf(s, r)'
  BY DEF AllHear
<1>0. sock[s].home \in Instances /\ UserOf[s] \in Users
  BY SocketFields DEF hubVars, HubAssumption, HubTypes
<1>a. PICK j \in Instances : j = sock[s].home
  BY <1>0
<1>b. PICK u \in Users : u = UserOf[s]
  BY <1>0
<1>1. sock' = sock /\ topics' = topics /\ wire' = wire
  BY DEF hubVars, redisVars
<1>2. \A i \in Instances : Reaches(i, j)' <=> Reaches(i, j)
  BY DEF Reaches, redisVars
<1>3. \A c : Offers(c, u, r)' <=> Offers(c, u, r)
  BY DEF Offers, Subscription
<1>4. Reading(j, u, r)' \/ Told(j, u, r)' => HearsOf(s, r)'
  BY <1>1, <1>a, <1>b DEF HearsOf
<1>5. CASE Belongs(u, r)
  <2>1. HearsOf(s, r)
    BY <1>1, <1>5, <1>b DEF AllHear
  <2>2. Reading(j, u, r) => Reading(j, u, r)'
    BY <1>b DEF Reading, Opens
  <2>3. Told(j, u, r) => Told(j, u, r)'
    BY <1>1, <1>2, <1>3 DEF Told, Received, Subscription
  <2> QED  BY <1>1, <1>4, <1>a, <1>b, <2>1, <2>2, <2>3 DEF HearsOf, RoomTopic
<1>6. CASE ~Belongs(u, r)
  <2>1. PICK i \in Instances : /\ \E c \in Carried(i)' : Offers(c, u, r)
                               /\ Reaches(i, j)
    BY <1>6, <1>b
  <2>2. Told(j, u, r)'
    BY <1>2, <1>3, <2>1 DEF Told
  <2> QED  BY <1>4, <2>2
<1> QED  BY <1>5, <1>6

\* The closure c of the loop of i subscribes the sockets it is for, takes away no
\* subscription that belongs, and publishes the one it offers; a socket that
\* opens is going to hear.
Executed(i, c) ==
  \A s \in Sockets, r \in Rooms :
    /\ sock[s].phase = "open" /\ sock'[s].phase = "open" /\ Belongs(UserOf[s], r)
    /\ \/ RoomTopic(r) \in topics[s]
       \/ /\ sock[s].home = i
          /\ Opens(c, UserOf[s], r) \/ Offers(c, UserOf[s], r) \/ Received(c, UserOf[s], r)
    => RoomTopic(r) \in topics'[s]
Published(i, c) ==
  \A j \in Instances, u \in Users, r \in Rooms :
    j # i /\ Offers(c, u, r) /\ redisUp /\ link[i] # "stale" /\ listening[j]
      => \E m \in Range(wire'[j]) : m.from # j /\ m.cmd = Subscription(u, r)
OpenOrHears ==
  \A s \in Sockets : sock'[s].phase = "open" =>
    \/ sock[s].phase = "open" /\ sock'[s].home = sock[s].home
    \/ \A r \in Rooms : HearsOf(s, r)'

\* The closure c at the head of a loop's queue is executed.
LEMMA LoopHears ==
  ASSUME AllHear, HubAssumption, HubTypes, NEW i \in Instances, NEW c,
         UNCHANGED <<members, rooms, missed, redisUp, listening>>,
         \A j \in Instances : AtWork(j) \subseteq AtWork(j)',
         \A j \in Instances : \A x \in Carried(j) : x \in Carried(j)' \/ (j = i /\ x = c),
         \A j \in Instances : link[j] # "stale" => link'[j] # "stale",
         \A j \in Instances : Range(wire[j]) \subseteq Range(wire'[j]),
         OpenOrHears,
         Executed(i, c), Published(i, c)
  PROVE  AllHear'
<1> SUFFICES ASSUME NEW s \in Sockets, NEW r \in Rooms, sock'[s].phase = "open",
                    Belongs(UserOf[s], r)', ~HearsOf(s, r)'
             PROVE  FALSE
  BY DEF AllHear
<1>0. sock[s].phase = "open" /\ sock'[s].home = sock[s].home
  BY DEF OpenOrHears
<1>a. PICK j \in Instances : j = sock[s].home
  BY <1>0, SocketFields DEF HubTypes
<1>b. PICK u \in Users : u = UserOf[s]
  BY DEF HubAssumption
<1>1. Belongs(u, r)
  BY <1>b DEF Belongs
<1>2. \A k \in Instances : Reaches(k, j) => Reaches(k, j)'
  BY DEF Reaches
<1>3. \A x : /\ Offers(x, u, r)' <=> Offers(x, u, r)
             /\ Received(x, u, r)' <=> Received(x, u, r)
             /\ Opens(x, u, r)' <=> Opens(x, u, r)
             /\ Rereads(x, u, r)' <=> Rereads(x, u, r)
  BY DEF Offers, Received, Opens, Rereads, Subscription
<1>4. RoomTopic(r) \notin topics'[s] /\ ~Reading(j, u, r)' /\ ~Told(j, u, r)'
  BY <1>0, <1>a, <1>b DEF HearsOf, RoomTopic
<1>5. /\ RoomTopic(r) \notin topics[s]
      /\ j = i => ~Opens(c, u, r) /\ ~Offers(c, u, r) /\ ~Received(c, u, r)
  BY <1>0, <1>1, <1>4, <1>a, <1>b DEF Executed
<1>6. HearsOf(s, r)
  BY <1>0, <1>1, <1>b DEF AllHear
<1>7. ~Reading(j, u, r)
  BY <1>3, <1>4, <1>5 DEF Reading
<1>8. ~Told(j, u, r)
  <2>1. \A m \in Range(wire'[j]) : ~(m.from # j /\ m.cmd = Subscription(u, r))
    BY <1>4 DEF Told, Subscription
  <2>2. ASSUME NEW k \in Instances, Reaches(k, j), NEW x \in Carried(k), Offers(x, u, r)
        PROVE  FALSE
    <3>1. x \notin Carried(k)'
      BY <1>2, <1>3, <1>4, <2>2 DEF Told
    <3>2. k = i /\ x = c
      BY <3>1
    <3>3. j # i
      BY <1>5, <2>2, <3>2
    <3>4. \E m \in Range(wire'[j]) : m.from # j /\ m.cmd = Subscription(u, r)
      BY <2>2, <3>2, <3>3 DEF Reaches, Published
    <3> QED  BY <2>1, <3>4
  <2>3. \A m \in Range(wire[j]) : ~(m.from # j /\ m.cmd = Subscription(u, r))
    BY <2>1
  <2>4. \A x \in Carried(j) : ~Received(x, u, r)
    BY <1>3, <1>4, <1>5 DEF Told
  <2> QED  BY <2>2, <2>3, <2>4 DEF Told
<1> QED  BY <1>5, <1>6, <1>7, <1>8, <1>a, <1>b DEF HearsOf

\* A step that opens no socket, adds no membership and loses nothing.
LEMMA StillHears ==
  ASSUME AllHear, HubAssumption, HubTypes,
         \A u \in Users, r \in Rooms : Belongs(u, r)' => Belongs(u, r),
         \A s \in Sockets : sock'[s].phase = "open" =>
           /\ sock[s].phase = "open" /\ sock'[s].home = sock[s].home
           /\ \A r \in Rooms : RoomTopic(r) \in topics[s] => RoomTopic(r) \in topics'[s]
           /\ AtWork(sock[s].home) \subseteq AtWork(sock[s].home)'
           /\ Carried(sock[s].home) \subseteq Carried(sock[s].home)'
           /\ \A r \in Rooms : Belongs(UserOf[s], r)' /\ Told(sock[s].home, UserOf[s], r)
                => Told(sock[s].home, UserOf[s], r)'
  PROVE  AllHear'
<1> SUFFICES ASSUME NEW s \in Sockets, NEW r \in Rooms, sock'[s].phase = "open",
                    Belongs(UserOf[s], r)'
             PROVE  HearsOf(s, r)'
  BY DEF AllHear
<1>a. PICK j \in Instances : j = sock[s].home
  BY SocketFields DEF HubTypes
<1>b. PICK u \in Users : u = UserOf[s]
  BY DEF HubAssumption
<1>1. Belongs(u, r)
  BY <1>b
<1>2. HearsOf(s, r)
  BY <1>1, <1>b DEF AllHear
<1>3. Reading(j, u, r) => Reading(j, u, r)'
  BY <1>a DEF Reading, Rereads, Opens
<1>4. Told(j, u, r) => Told(j, u, r)'
  BY <1>a, <1>b
<1> QED  BY <1>2, <1>3, <1>4, <1>a, <1>b DEF HearsOf, RoomTopic

\* What keeps a subscription on its way.
LEMMA StillTold ==
  ASSUME NEW j, NEW u, NEW r, Told(j, u, r), Range(wire[j]) \subseteq Range(wire'[j]),
         Carried(j) \subseteq Carried(j)',
         \A i \in Instances : \A c \in Carried(i) :
           Reaches(i, j) /\ Offers(c, u, r) => Reaches(i, j)' /\ c \in Carried(i)'
  PROVE  Told(j, u, r)'
BY DEF Told, Received, Offers, Subscription

-----------------------------------------------------------------------------
(* What workers do: a room that is read, a membership made or ended.       *)

LEMMA UnderwayFrom ==
  ASSUME NEW X,
         \A j \in Instances : \A c \in Carried(j)' :
           c.do \in {"apply", "control"} => c \in Carried(j) \/ c.cmd \in Underway \cup X,
         \A j \in Instances : \A m \in Range(wire'[j]) : m.cmd \in Underway \cup X
  PROVE  Underway' \subseteq Underway \cup X
BY DEF Underway, CommandsAt

LEMMA WireIsUnderway ==
  ASSUME NEW j \in Instances, NEW m \in Range(wire[j])
  PROVE  m.cmd \in Underway
BY DEF Underway, CommandsAt

LEMMA TaskHears ==
  ASSUME TypeOK, HubAssumption, Hearing, NEW i \in Instances, NEW w \in Workers, NEW task,
         running' = [running EXCEPT ![i][w] = task],
         UNCHANGED <<tasks, loop, hubVars, redisVars>>,
         running[i][w].op # "defer",
         \A u \in Users, r \in Rooms :
           Belongs(u, r)' /\ Rereads(running[i][w], u, r)
             => Rereads(task, u, r) \/ (task.op = "defer" /\ Opens(task.closure, u, r)),
         \A u \in Users, r \in Rooms : Belongs(u, r)' =>
           \/ Belongs(u, r)
           \/ /\ task.op = "defer" /\ Offers(task.closure, u, r)
              /\ \A j \in Instances : Reaches(i, j)
              /\ Withdrawal(u, r) \notin Underway,
         task.op = "defer" /\ task.closure.do \in {"apply", "control"} =>
           \A u \in Users, r \in Rooms :
             Belongs(u, r)' => task.closure.cmd # Withdrawal(u, r)
  PROVE  Hearing'
<1> USE DEF TypeOK, Hearing
<1>1. /\ \A j \in Instances : \A t \in AtWork(j) :
           t \in AtWork(j)' \/ (j = i /\ t = running[i][w])
      /\ task \in AtWork(i)'
      /\ \A j \in Instances : Carried(j) \subseteq Carried(j)'
      /\ task.op = "defer" => task.closure \in Carried(i)'
      /\ \A j \in Instances : \A c \in Carried(j)' :
           c \in Carried(j) \/ (task.op = "defer" /\ c = task.closure)
  BY WorkerGoesOn
<1>2. ASSUME NEW j \in Instances, NEW u \in Users, NEW r \in Rooms, Belongs(u, r)',
             \E t \in AtWork(j) : Rereads(t, u, r)
      PROVE  Reading(j, u, r)'
  <2>1. PICK t \in AtWork(j) : Rereads(t, u, r)
    BY <1>2
  <2>2. CASE t \in AtWork(j)'
    BY <2>1, <2>2 DEF Reading, Rereads
  <2>3. CASE j = i /\ t = running[i][w]
    <3>1. Rereads(task, u, r) \/ (task.op = "defer" /\ Opens(task.closure, u, r))
      BY <1>2, <2>1, <2>3
    <3> QED  BY <1>1, <2>3, <3>1 DEF Reading, Rereads, Opens
  <2> QED  BY <1>1, <2>2, <2>3
<1>3. AllHear'
  <2>1. ASSUME NEW u \in Users, NEW r \in Rooms, Belongs(u, r)'
        PROVE  \/ Belongs(u, r)
               \/ \E k \in Instances : /\ \E c \in Carried(k)' : Offers(c, u, r)
                                       /\ \A j \in Instances : Reaches(k, j)
    BY <1>1, <2>1
  <2> QED  BY <1>1, <1>2, <2>1, WorkerHears
<1>4. Firm'
  <2> DEFINE X == IF task.op = "defer" /\ task.closure.do \in {"apply", "control"}
                  THEN {task.closure.cmd} ELSE {}
  <2>1. \A j \in Instances : \A m \in Range(wire'[j]) : m.cmd \in Underway \cup X
    BY WireIsUnderway DEF redisVars
  <2>2. \A j \in Instances : \A c \in Carried(j)' :
          c.do \in {"apply", "control"} => c \in Carried(j) \/ c.cmd \in Underway \cup X
    BY <1>1
  <2>3. \A u \in Users, r \in Rooms : Belongs(u, r)' => Withdrawal(u, r) \notin X
    OBVIOUS
  <2> HIDE DEF X
  <2>4. Underway' \subseteq Underway \cup X
    BY <2>1, <2>2, UnderwayFrom
  <2> QED  BY <2>3, <2>4, FirmKept
<1>5. Undeferred'
  BY DEF Undeferred
<1> QED  BY <1>3, <1>4, <1>5

\* A task that neither reads the rooms nor changes a membership.
LEMMA UnaffectedHears ==
  ASSUME TypeOK, HubAssumption, Hearing, NEW i \in Instances, NEW w \in Workers, NEW task,
         running' = [running EXCEPT ![i][w] = task],
         UNCHANGED <<members, rooms, missed, tasks, loop, hubVars, redisVars>>,
         running[i][w].op \notin {"open", "defer"},
         task.op = "defer" /\ task.closure.do \in {"apply", "control"} =>
           task.closure.cmd.action # "unsubscribe"
  PROVE  Hearing'
<1>1. \A u, r : Belongs(u, r)' <=> Belongs(u, r)
  BY DEF Belongs
<1>2. \A u, r : ~Rereads(running[i][w], u, r)
  BY DEF Rereads
<1>3. \A u, r : Withdrawal(u, r).action = "unsubscribe"
  BY DEF Withdrawal
<1> QED  BY <1>1, <1>2, <1>3, TaskHears

\* Who is made a member is told everywhere, or missed.
LEMMA RecordHears ==
  ASSUME NEW i \in Instances, NEW v \in Users, NEW x \in Rooms, Record(i, v, x),
         NEW u \in Users, NEW r \in Rooms, Belongs(u, r)',
         u \in members'[r] /\ r \in rooms' =>
           (u = v /\ r = x) \/ (u \in members[r] /\ r \in rooms)
  PROVE  \/ Belongs(u, r)
         \/ /\ u = v /\ r = x
            /\ \A j \in Instances : Reaches(i, j)
            /\ Withdrawal(u, r) \notin Underway
<1>1. CASE u = v /\ r = x
  BY <1>1, WithdrawingIsUnderway DEF Record, Belongs, Reaches
<1>2. CASE ~(u = v /\ r = x)
  <2>1. <<u, r>> # <<v, x>>
    BY <1>2
  <2> QED  BY <1>2, <2>1 DEF Record, Belongs
<1> QED  BY <1>1, <1>2

LEMMA WorkerStepHears ==
  ASSUME TypeOK, HubAssumption, Hearing, NEW i \in Instances, NEW w \in Workers,
         WorkerStep(i, w)
  PROVE  Hearing'
<1> DEFINE task == running[i][w]
<1>1. task \in Tasks \cup {Nobody}
  BY DEF TypeOK, ThreadTypes
<1>2. CASE Dequeue(i, w)
  <2>1. /\ \A j \in Instances : \A t \in AtWork(j) : t \in AtWork(j)' \/ t = Nobody
        /\ \A j \in Instances : Carried(j)' = Carried(j)
        /\ Undeferred'
    BY <1>2, DequeueQueues DEF TypeOK, Hearing
  <2>2. UNCHANGED <<members, rooms, missed, hubVars, redisVars>>
    BY <1>2 DEF Dequeue, dbVars
  <2>3. \A u, r : ~Rereads(Nobody, u, r)
    BY DEF Rereads, Nobody
  <2>4. \A u, r : Belongs(u, r)' <=> Belongs(u, r)
    BY <2>2 DEF Belongs
  <2>5. \A j \in Instances, u \in Users, r \in Rooms :
          (\E t \in AtWork(j) : Rereads(t, u, r)) => Reading(j, u, r)'
    BY <2>1, <2>3 DEF Reading, Rereads
  <2>6. AllHear'
    BY <2>1, <2>2, <2>4, <2>5, WorkerHears DEF TypeOK, Hearing
  <2>7. Underway' = Underway
    BY <2>1, <2>2 DEF Underway, CommandsAt, redisVars
  <2> QED  BY <2>1, <2>4, <2>6, <2>7, FirmKept DEF Hearing
<1>3. CASE DeferClosure(i, w)
  <2>1. /\ \A j \in Instances : \A t \in AtWork(j) : t \in AtWork(j)' \/ t.op = "defer"
        /\ \A j \in Instances : Carried(j)' = Carried(j)
    BY <1>3, DeferQueues DEF TypeOK
  <2>2. UNCHANGED <<members, rooms, missed, tasks, hubVars, redisVars>>
    BY <1>3 DEF DeferClosure, dbVars
  <2>3. \A u, r : Belongs(u, r)' <=> Belongs(u, r)
    BY <2>2 DEF Belongs
  <2>4. \A j \in Instances, u \in Users, r \in Rooms :
          (\E t \in AtWork(j) : Rereads(t, u, r)) => Reading(j, u, r)'
    BY <2>1 DEF Reading, Rereads
  <2>5. AllHear'
    BY <2>1, <2>2, <2>3, <2>4, WorkerHears DEF TypeOK, Hearing
  <2>6. Underway' = Underway
    BY <2>1, <2>2 DEF Underway, CommandsAt, redisVars
  <2>7. Undeferred'
    BY <2>2 DEF Hearing, Undeferred
  <2> QED  BY <2>3, <2>5, <2>6, <2>7, FirmKept DEF Hearing
<1>4. CASE SetOnline(i, w)
  <2> DEFINE next == [task EXCEPT !.at = "rooms"]
  <2>1. /\ task.op = "open" /\ task.at = "online"
        /\ running' = [running EXCEPT ![i][w] = next]
        /\ UNCHANGED <<members, rooms, missed, tasks, loop, hubVars, redisVars>>
    BY <1>4 DEF SetOnline, Executes, Continue
  <2>2. next.op = "open" /\ next.user = task.user /\ next.at = "rooms"
    BY <1>1, <2>1, TaskFields
  <2>3. \A u, r : Rereads(task, u, r) => Rereads(next, u, r)
    BY <2>2 DEF Rereads
  <2>4. \A u, r : Belongs(u, r)' <=> Belongs(u, r)
    BY <2>1 DEF Belongs
  <2> HIDE DEF next
  <2> QED  BY <2>1, <2>2, <2>3, <2>4, TaskHears
<1>5. CASE ListRooms(i, w)
  <2> DEFINE listed == {r \in rooms : task.user \in members[r]}
             next == [task EXCEPT !.at = "role", !.rooms = listed]
  <2>1. /\ task.op = "open" /\ task.at = "rooms"
        /\ running' = [running EXCEPT ![i][w] = next]
        /\ UNCHANGED <<members, rooms, missed, tasks, loop, hubVars, redisVars>>
    BY <1>5 DEF ListRooms, Executes, Continue, dbVars
  <2>2. next.op = "open" /\ next.user = task.user /\ next.rooms = listed
    BY <1>1, <2>1, TaskFields
  <2>3. \A u, r : Belongs(u, r)' <=> Belongs(u, r)
    BY <2>1 DEF Belongs
  <2>4. \A u, r : Belongs(u, r) /\ Rereads(task, u, r) => Rereads(next, u, r)
    BY <2>2 DEF Rereads, Belongs
  <2> HIDE DEF next
  <2> QED  BY <2>1, <2>2, <2>3, <2>4, TaskHears
<1>6. CASE ListAllRooms(i, w)
  <2> DEFINE read == IF task.user \in admins THEN rooms ELSE task.rooms
             c == [do |-> "opened", user |-> task.user, rooms |-> read]
             next == [op |-> "defer", closure |-> c]
  <2>1. /\ task.op = "open" /\ task.at = "role"
        /\ running' = [running EXCEPT ![i][w] = next]
        /\ UNCHANGED <<members, rooms, missed, tasks, loop, hubVars, redisVars>>
    BY <1>6 DEF ListAllRooms, Executes, FinishWith, dbVars
  <2>2. next.op = "defer" /\ next.closure = c
    OBVIOUS
  <2>3. \A u, r : Belongs(u, r)' <=> Belongs(u, r)
    BY <2>1 DEF Belongs
  <2>4. \A u, r : Belongs(u, r) /\ Rereads(task, u, r) => Opens(c, u, r)
    BY <2>1 DEF Rereads, Belongs, Opens
  <2>5. c.do = "opened"
    OBVIOUS
  <2> HIDE DEF next, c
  <2> QED  BY <2>1, <2>2, <2>3, <2>4, <2>5, TaskHears
<1>7. CASE AddMember(i, w)
  <2> DEFINE v == task.user  x == task.room
             c == [do |-> "apply", cmd |-> Subscription(v, x)]
             next == [op |-> "defer", closure |-> c]
  <2>1. /\ task.op = "add" /\ running' = [running EXCEPT ![i][w] = next]
        /\ members' = [members EXCEPT ![x] = @ \cup {v}] /\ Record(i, v, x)
        /\ UNCHANGED <<rooms, tasks, loop, hubVars, redisVars>>
    BY <1>7 DEF AddMember, Executes, FinishWith
  <2>2. v \in Users /\ x \in Rooms
    BY <1>1, <2>1, TaskFields
  <2>3. next.op = "defer" /\ next.closure = c /\ c.do = "apply" /\ c.cmd = Subscription(v, x)
    OBVIOUS
  <2> HIDE DEF next, c
  <2>4. \A u \in Users, r \in Rooms : u \in members'[r] /\ r \in rooms' =>
          (u = v /\ r = x) \/ (u \in members[r] /\ r \in rooms)
    BY <2>1, <2>2 DEF TypeOK, DbTypes
  <2>5. \A u \in Users, r \in Rooms : Belongs(u, r)' =>
          \/ Belongs(u, r)
          \/ /\ u = v /\ r = x
             /\ \A j \in Instances : Reaches(i, j)
             /\ Withdrawal(u, r) \notin Underway
    BY <2>1, <2>2, <2>4, RecordHears
  <2>6. Offers(c, v, x)
    BY <2>3 DEF Offers
  <2>7. \A u, r : c.cmd # Withdrawal(u, r)
    BY <2>3 DEF Subscription, Withdrawal
  <2>8. \A u, r : ~Rereads(task, u, r)
    BY <2>1 DEF Rereads
  <2> HIDE DEF v, x
  <2>9. \A u \in Users, r \in Rooms : next.closure.cmd # Withdrawal(u, r)
    BY <2>3, <2>7
  <2>10. \A u \in Users, r \in Rooms : Belongs(u, r)' =>
           \/ Belongs(u, r)
           \/ /\ next.op = "defer" /\ Offers(next.closure, u, r)
              /\ \A j \in Instances : Reaches(i, j)
              /\ Withdrawal(u, r) \notin Underway
    BY <2>3, <2>5, <2>6
  <2>11. task.op # "defer"
    BY <2>1
  <2> QED  BY <2>1, <2>8, <2>9, <2>10, <2>11, TaskHears
<1>8. CASE RemoveMember(i, w)
  <2> DEFINE v == task.user  x == task.room
             c == [do |-> "apply", cmd |-> Withdrawal(v, x)]
             next == [op |-> "defer", closure |-> c]
  <2>1. /\ task.op = "remove" /\ running' = [running EXCEPT ![i][w] = next]
        /\ members' = [members EXCEPT ![x] = @ \ {v}]
        /\ UNCHANGED <<rooms, missed, tasks, loop, hubVars, redisVars>>
    BY <1>8 DEF RemoveMember, Executes, FinishWith
  <2>2. v \in Users /\ x \in Rooms
    BY <1>1, <2>1, TaskFields
  <2>3. next.op = "defer" /\ next.closure = c /\ c.do = "apply" /\ c.cmd = Withdrawal(v, x)
    OBVIOUS
  <2> HIDE DEF next, c
  <2>4. \A u \in Users, r \in Rooms : Belongs(u, r)' => Belongs(u, r) /\ ~(u = v /\ r = x)
    BY <2>1, <2>2 DEF TypeOK, DbTypes, Belongs
  <2>5. \A u, r : Withdrawal(v, x) = Withdrawal(u, r) => u = v /\ r = x
    BY CommandsDiffer
  <2>6. \A u, r : ~Rereads(task, u, r)
    BY <2>1 DEF Rereads
  <2> HIDE DEF v, x
  <2>7. \A u \in Users, r \in Rooms : Belongs(u, r)' => next.closure.cmd # Withdrawal(u, r)
    BY <2>3, <2>4, <2>5
  <2>8. task.op # "defer"
    BY <2>1
  <2> QED  BY <2>1, <2>4, <2>6, <2>7, <2>8, TaskHears
<1>9. CASE CreateRoom(i, w)
  <2> DEFINE v == task.user  x == task.room
             c == [do |-> "created", user |-> v, room |-> x]
             next == [op |-> "defer", closure |-> c]
  <2>1. task.op = "create" /\ UNCHANGED <<hubVars, redisVars>>
    BY <1>9 DEF CreateRoom, Executes
  <2>2. v \in Users /\ x \in Rooms
    BY <1>1, <2>1, TaskFields
  <2>3. CASE x \in rooms
    <3>1. /\ running' = [running EXCEPT ![i][w] = Nobody]
          /\ UNCHANGED <<members, rooms, missed, tasks, loop>>
      BY <1>9, <2>3 DEF CreateRoom, Finish
    <3>2. Nobody.op # "defer"
      BY DEF Nobody
    <3> QED  BY <2>1, <3>1, <3>2, UnaffectedHears
  <2>4. CASE x \notin rooms
    <3>1. /\ running' = [running EXCEPT ![i][w] = next]
          /\ members' = [members EXCEPT ![x] = {v}] /\ Record(i, v, x)
          /\ rooms' = rooms \cup {x}
          /\ UNCHANGED <<tasks, loop>>
      BY <1>9, <2>4 DEF CreateRoom, FinishWith
    <3>2. next.op = "defer" /\ next.closure = c /\ c.do = "created" /\ c.user = v /\ c.room = x
      OBVIOUS
    <3> HIDE DEF next, c
    <3>3. \A u \in Users, r \in Rooms : u \in members'[r] /\ r \in rooms' =>
            (u = v /\ r = x) \/ (u \in members[r] /\ r \in rooms)
      BY <2>2, <3>1 DEF TypeOK, DbTypes
    <3>4. \A u \in Users, r \in Rooms : Belongs(u, r)' =>
            \/ Belongs(u, r)
            \/ /\ u = v /\ r = x
               /\ \A j \in Instances : Reaches(i, j)
               /\ Withdrawal(u, r) \notin Underway
      BY <2>2, <3>1, <3>3, RecordHears
    <3>5. Offers(c, v, x)
      BY <3>2 DEF Offers
    <3>6. \A u, r : ~Rereads(task, u, r)
      BY <2>1 DEF Rereads
    <3> HIDE DEF v, x
    <3> QED  BY <2>1, <3>1, <3>2, <3>4, <3>5, <3>6, TaskHears
  <2> QED  BY <2>3, <2>4
<1>10. ASSUME UNCHANGED <<members, rooms, missed, hubVars, redisVars>>,
              task.op \notin {"open", "defer"},
              NEW c, FinishWith(i, w, c), c.do \in {"apply", "control"} =>
                c.cmd.action # "unsubscribe"
       PROVE  Hearing'
  <2> DEFINE next == [op |-> "defer", closure |-> c]
  <2>1. next.op = "defer" /\ next.closure = c
    OBVIOUS
  <2>2. /\ running' = [running EXCEPT ![i][w] = next]
        /\ UNCHANGED <<tasks, loop>>
    BY <1>10 DEF FinishWith
  <2> HIDE DEF next
  <2> QED  BY <1>10, <2>1, <2>2, UnaffectedHears
<1>11. ASSUME UNCHANGED <<members, rooms, missed, hubVars, redisVars>>,
              task.op \notin {"open", "defer"},
              NEW next, Continue(i, w, next), next.op # "defer"
       PROVE  Hearing'
  BY <1>11, UnaffectedHears DEF Continue
<1>12. CASE ValidateSession(i, w)
  <2>1. /\ task.op = "upgrade" /\ UNCHANGED <<members, rooms, missed, hubVars, redisVars>>
        /\ \/ FinishWith(i, w, [do |-> "reject", socket |-> task.socket])
           \/ Continue(i, w, [task EXCEPT !.at = "user"])
    BY <1>12 DEF ValidateSession, Executes, dbVars
  <2>2. [task EXCEPT !.at = "user"].op # "defer"
    BY <1>1, <2>1, TaskFields
  <2> QED  BY <1>10, <1>11, <2>1, <2>2
<1>13. CASE FindUser(i, w)
  <2> DEFINE a == UserOf[task.socket] \in admins
  <2>1. /\ task.op = "upgrade" /\ UNCHANGED <<members, rooms, missed, hubVars, redisVars>>
        /\ Continue(i, w, [task EXCEPT !.at = "lockdown", !.admin = a])
    BY <1>13 DEF FindUser, Executes, dbVars
  <2>2. [task EXCEPT !.at = "lockdown", !.admin = a].op # "defer"
    BY <1>1, <2>1, TaskFields
  <2> QED  BY <1>11, <2>1, <2>2
<1>14. CASE CheckLockdown(i, w)
  <2>1. /\ task.op = "upgrade" /\ UNCHANGED <<members, rooms, missed, hubVars, redisVars>>
        /\ \/ FinishWith(i, w, [do |-> "reject", socket |-> task.socket])
           \/ FinishWith(i, w, [do |-> "upgrade", socket |-> task.socket, admin |-> task.admin])
    BY <1>14 DEF CheckLockdown, Executes, dbVars
  <2> QED  BY <1>10, <2>1
<1>15. CASE SetOffline(i, w) \/ UnbanUser(i, w) \/ UnlockServer(i, w) \/ ChangeRole(i, w)
  <2>1. /\ task.op \in {"offline", "unban", "unlock", "role"}
        /\ UNCHANGED <<members, rooms, missed, hubVars, redisVars>>
        /\ FinishWith(i, w, [do |-> "announce"])
    BY <1>15 DEF SetOffline, UnbanUser, UnlockServer, ChangeRole, Executes
  <2> QED  BY <1>10, <2>1
<1>16. CASE BanUser(i, w)
  <2>1. /\ task.op = "ban" /\ UNCHANGED <<members, rooms, missed, hubVars, redisVars>>
        /\ \/ Finish(i, w)
           \/ FinishWith(i, w, [do |-> "apply", cmd |->
                [action |-> "disconnect_user", user |-> task.user]])
    BY <1>16 DEF BanUser, Executes
  <2>2. CASE Finish(i, w)
    <3>1. Continue(i, w, Nobody) /\ Nobody.op # "defer"
      BY <2>2 DEF Finish, Continue, Nobody
    <3> QED  BY <1>11, <2>1, <3>1
  <2> QED  BY <1>10, <2>1, <2>2
<1>17. CASE LockServer(i, w)
  <2>1. /\ task.op = "lock" /\ UNCHANGED <<members, rooms, missed, hubVars, redisVars>>
        /\ FinishWith(i, w, [do |-> "apply", cmd |-> [action |-> "disconnect_non_admins"]])
    BY <1>17 DEF LockServer, Executes
  <2> QED  BY <1>10, <2>1
<1>18. CASE CheckPageAccess(i, w)
  <2> DEFINE a == task.user \in members[task.room] \cup admins
  <2>1. /\ task.op = "wiki_join" /\ UNCHANGED <<members, rooms, missed, hubVars, redisVars>>
        /\ FinishWith(i, w, [do |-> "joined", user |-> task.user, room |-> task.room,
                             allowed |-> a])
    BY <1>18 DEF CheckPageAccess, Executes, dbVars
  <2> HIDE DEF a
  <2> QED  BY <1>10, <2>1
<1> QED
  BY <1>2, <1>3, <1>4, <1>5, <1>6, <1>7, <1>8, <1>9, <1>12, <1>13, <1>14, <1>15, <1>16,
     <1>17, <1>18, Zenon DEF WorkerStep

-----------------------------------------------------------------------------
(* What the loop does: a command is applied, and published.                *)

LEMMA SubscribeTopics ==
  ASSUME NEW i, NEW S, NEW T, Subscribe(i, S, T), NEW s \in Sockets
  PROVE  topics[s] \subseteq topics'[s] /\ (s \in S => T \subseteq topics'[s])
BY DEF Subscribe

LEMMA CloseKeeps ==
  ASSUME NEW i, NEW S, Close(i, S), NEW s \in Sockets, sock'[s].phase = "open"
  PROVE  sock'[s] = sock[s] /\ topics'[s] = topics[s]
<1>1. sock' = [x \in Sockets |-> IF x \in S THEN Closed ELSE sock[x]]
  BY DEF Close
<1>2. s \notin S /\ sock'[s] = sock[s]
  BY <1>1 DEF Closed
<1> QED  BY <1>2 DEF Close, Scrub

LEMMA CommandForms ==
  ASSUME NEW cmd \in Commands, NEW u, NEW r
  PROVE  /\ cmd.action = "unsubscribe" /\ cmd.user = u /\ cmd.topic = RoomTopic(r)
              => cmd = Withdrawal(u, r)
         /\ cmd = Subscription(u, r)
              => cmd.action = "subscribe" /\ cmd.user = u /\ cmd.topic = RoomTopic(r)
<1>1. ASSUME cmd.action = "unsubscribe" /\ cmd.user = u /\ cmd.topic = RoomTopic(r)
      PROVE  cmd = Withdrawal(u, r)
  <2>1. cmd \in [action : {"subscribe", "unsubscribe"}, user : Users, topic : RoomTopics]
    BY <1>1 DEF Commands
  <2> QED  BY <1>1, <2>1 DEF Withdrawal
<1>2. ASSUME cmd = Subscription(u, r)
      PROVE  cmd.action = "subscribe" /\ cmd.user = u /\ cmd.topic = RoomTopic(r)
  BY <1>2 DEF Subscription
<1> QED  BY <1>1, <1>2

LEMMA ApplyKeeps ==
  ASSUME TypeOK, HubAssumption, Agreement, NEW i \in Instances, NEW cmd \in Commands,
         Apply(i, cmd)
  PROVE  /\ \A s \in Sockets : sock'[s].phase = "open" =>
              sock[s].phase = "open" /\ sock'[s].home = sock[s].home
         /\ \A s \in Sockets, r \in Rooms :
              /\ sock[s].phase = "open" /\ sock'[s].phase = "open"
              /\ cmd # Withdrawal(UserOf[s], r)
              /\ RoomTopic(r) \in topics[s] \/ (sock[s].home = i /\ cmd = Subscription(UserOf[s], r))
              => RoomTopic(r) \in topics'[s]
<1> DEFINE Keeps(s, r) == cmd # Withdrawal(UserOf[s], r) /\ RoomTopic(r) \in topics[s]
                            => RoomTopic(r) \in topics'[s]
           Adds(s, r) == sock[s].home = i /\ cmd = Subscription(UserOf[s], r)
                            => RoomTopic(r) \in topics'[s]
<1>a. \A s \in Sockets : UserOf[s] \in Users
  BY DEF HubAssumption
<1>b. \A u \in Users : userSockets[i][u] = {s \in OpenAt(i) : UserOf[s] = u}
  BY DEF Agreement, RegistryAgrees
<1>c. \A s \in Sockets, r \in Rooms : cmd = Subscription(UserOf[s], r) =>
        cmd.action = "subscribe" /\ cmd.user = UserOf[s] /\ cmd.topic = RoomTopic(r)
  BY CommandForms
<1>1. CASE /\ cmd.action = "subscribe"
           /\ Subscribe(i, userSockets[i][cmd.user], {cmd.topic})
           /\ UNCHANGED <<userSockets, sock, tasks>>
  <2>1. \A s \in Sockets : topics[s] \subseteq topics'[s]
    BY <1>1, SubscribeTopics
  <2>2. \A s \in Sockets : s \in userSockets[i][cmd.user] => cmd.topic \in topics'[s]
    BY <1>1, SubscribeTopics
  <2>3. ASSUME NEW s \in Sockets, NEW r \in Rooms, sock[s].phase = "open"
        PROVE  Keeps(s, r) /\ Adds(s, r)
    BY <1>a, <1>b, <1>c, <2>1, <2>2, <2>3 DEF OpenAt
  <2> QED  BY <1>1, <2>3
<1>2. CASE /\ cmd.action = "unsubscribe"
           /\ Unsubscribe(i, userSockets[i][cmd.user], cmd.topic)
           /\ UNCHANGED <<userSockets, sock, tasks>>
  <2>1. cmd.user \in Users
    BY <1>2, CommandFields
  <2>2. \A s \in userSockets[i][cmd.user] : UserOf[s] = cmd.user
    BY <1>b, <2>1
  <2>3. \A s \in Sockets, r \in Rooms : Keeps(s, r)
    BY <1>2, <2>2, CommandForms DEF Unsubscribe
  <2>4. \A s \in Sockets, r \in Rooms : Adds(s, r)
    BY <1>2, <1>c
  <2> QED  BY <1>2, <2>3, <2>4
<1>3. CASE /\ cmd.action = "subscribe_admins"
           /\ Subscribe(i, AdminsAt(i), {cmd.topic})
           /\ UNCHANGED <<userSockets, sock, tasks>>
  <2>1. \A s \in Sockets : topics[s] \subseteq topics'[s]
    BY <1>3, SubscribeTopics
  <2>2. \A s \in Sockets, r \in Rooms : Keeps(s, r) /\ Adds(s, r)
    BY <1>3, <1>c, <2>1
  <2> QED  BY <1>3, <2>2
<1>4. CASE /\ cmd.action \in {"disconnect_user", "disconnect_non_admins"}
           /\ \E S : Close(i, S)
  <2>1. PICK S : Close(i, S)
    BY <1>4
  <2>2. \A s \in Sockets : sock'[s].phase = "open" =>
          sock'[s] = sock[s] /\ topics'[s] = topics[s]
    BY <2>1, CloseKeeps
  <2>3. \A s \in Sockets, r \in Rooms : Adds(s, r)
    BY <1>4, <1>c
  <2> QED  BY <2>2, <2>3
<1> QED  BY <1>1, <1>2, <1>3, <1>4 DEF Apply

LEMMA ApplyQueues ==
  ASSUME TypeOK, HubAssumption, Hearing, NEW i \in Instances, NEW cmd \in Commands,
         Apply(i, cmd), UNCHANGED running
  PROVE  (\A j \in Instances : AtWork(j) \subseteq AtWork(j)') /\ Undeferred'
<1>1. CASE tasks' = tasks
  BY <1>1 DEF AtWork, Undeferred, Hearing
<1>2. ASSUME NEW S \in SUBSET Sockets, Close(i, S)
      PROVE  (\A j \in Instances : AtWork(j) \subseteq AtWork(j)') /\ Undeferred'
  BY <1>2, CloseQueues DEF TypeOK, Hearing
<1>3. CASE cmd.action = "disconnect_user" /\ Close(i, userSockets[i][cmd.user])
  <2>1. userSockets[i][cmd.user] \in SUBSET Sockets
    BY <1>3, CommandFields DEF TypeOK, HubTypes
  <2> QED  BY <1>2, <1>3, <2>1
<1>4. CASE cmd.action = "disconnect_non_admins" /\ Close(i, Registered(i) \ AdminsAt(i))
  <2>1. Registered(i) \ AdminsAt(i) \in SUBSET Sockets
    BY RegisteredSockets DEF TypeOK
  <2> QED  BY <1>2, <1>4, <2>1
<1> QED  BY <1>1, <1>3, <1>4 DEF Apply

\* What is on its way through Redis stays, and no withdrawal is added to it.
LosesNothing ==
  /\ redisUp' = redisUp /\ listening' = listening
  /\ \A j \in Instances : link[j] # "stale" => link'[j] # "stale"
  /\ \A j \in Instances : Range(wire[j]) \subseteq Range(wire'[j])
  /\ \A j \in Instances : \A m \in Range(wire'[j]) :
       m.cmd \in Underway \/ m.cmd.action # "unsubscribe"

LEMMA PublishKeeps ==
  ASSUME TypeOK, NEW i \in Instances, NEW lead \in Nat, NEW q \in Seq(Commands),
         lead = 0 => q # <<>>, Publish(i, lead, q),
         \A cmd \in Range(q) : cmd \in Underway \/ cmd.action # "unsubscribe"
  PROVE  /\ LosesNothing
         /\ redisUp /\ link[i] # "stale" =>
              \A j \in Instances : listening[j] =>
                \A cmd \in Range(q) : [from |-> i, cmd |-> cmd] \in Range(wire'[j])
<1>1. /\ redisUp' = redisUp /\ listening' = listening
      /\ \A j \in Instances : link[j] # "stale" => link'[j] # "stale"
      /\ \A j \in Instances : Range(wire[j]) \subseteq Range(wire'[j])
      /\ \A j \in Instances : \A m \in Range(wire'[j]) :
           m \in Range(wire[j]) \/ m.cmd \in Range(q)
      /\ redisUp /\ link[i] # "stale" =>
           \A j \in Instances : listening[j] =>
             \A cmd \in Range(q) : [from |-> i, cmd |-> cmd] \in Range(wire'[j])
  BY PublishReaches DEF TypeOK
<1>2. \A j \in Instances : \A m \in Range(wire'[j]) :
        m.cmd \in Underway \/ m.cmd.action # "unsubscribe"
  BY <1>1, WireIsUnderway
<1> QED  BY <1>1, <1>2 DEF LosesNothing

LEMMA AnnounceKeeps ==
  ASSUME TypeOK, NEW i \in Instances, Publish(i, 1, <<>>)
  PROVE  LosesNothing
<1> DEFINE q == <<>>
<1>1. q \in Seq(Commands) /\ 1 \in Nat /\ 1 # 0
  OBVIOUS
<1>2. \A cmd \in Range(q) : FALSE
  BY DEF Range
<1>3. Publish(i, 1, q)
  OBVIOUS
<1> HIDE DEF q
<1> QED  BY <1>1, <1>2, <1>3, PublishKeeps

LEMMA SilenceKeeps ==
  ASSUME UNCHANGED redisVars
  PROVE  LosesNothing
BY WireIsUnderway DEF redisVars, LosesNothing

\* The closure c of the loop of i has run.
LEMMA LoopKeeps ==
  ASSUME TypeOK, HubAssumption, Hearing, NEW i \in Instances, NEW kind, Runs(i, kind),
         NEW c, c = Head(loop[i]), UNCHANGED <<dbVars, running>>,
         \A j \in Instances : AtWork(j) \subseteq AtWork(j)', Undeferred',
         LosesNothing, OpenOrHears,
         Executed(i, c), Published(i, c)
  PROVE  Hearing'
<1>1. /\ \A j \in Instances : Carried(j)' \subseteq Carried(j)
      /\ \A j \in Instances : \A x \in Carried(j) : x \in Carried(j)' \/ (j = i /\ x = c)
  BY LoopQueues DEF TypeOK
<1>2. AllHear'
  <2>1. AllHear /\ HubTypes /\ UNCHANGED <<members, rooms, missed, redisUp, listening>>
    BY DEF TypeOK, Hearing, dbVars, LosesNothing
  <2>2. /\ \A j \in Instances : link[j] # "stale" => link'[j] # "stale"
        /\ \A j \in Instances : Range(wire[j]) \subseteq Range(wire'[j])
    BY DEF LosesNothing
  <2> QED  BY <1>1, <2>1, <2>2, LoopHears
<1>3. Firm'
  <2> DEFINE X == {m.cmd : m \in UNION {Range(wire'[j]) : j \in Instances}} \ Underway
  <2>1. \A j \in Instances : \A m \in Range(wire'[j]) : m.cmd \in Underway \cup X
    OBVIOUS
  <2>2. \A x \in X : x.action # "unsubscribe"
    BY DEF LosesNothing
  <2> HIDE DEF X
  <2>3. Underway' \subseteq Underway \cup X
    BY <1>1, <2>1, UnderwayFrom
  <2>4. \A u, r : Withdrawal(u, r) \notin X
    BY <2>2 DEF Withdrawal
  <2>5. \A u, r : Belongs(u, r)' <=> Belongs(u, r)
    BY DEF Belongs, dbVars
  <2> QED  BY <2>3, <2>4, <2>5, FirmKept DEF Hearing
<1> QED  BY <1>2, <1>3 DEF Hearing

LEMMA LoopStepHears ==
  ASSUME TypeOK, HubAssumption, Agreement, Hearing, NEW i \in Instances, LoopStep(i)
  PROVE  Hearing'
<1>c. PICK c : c = Head(loop[i])
  OBVIOUS
<1>1. ASSUME NEW kind, Runs(i, kind)
      PROVE  c \in Closures /\ c.do = kind /\ c \in Carried(i)
  BY <1>1, <1>c, HeadClosure, TailRange DEF TypeOK, ThreadTypes, Runs, Carried
\* A closure that is for no subscription to a room.
<1>2. ASSUME c.do \in {"reject", "upgrade", "joined", "announce"}
      PROVE  /\ \A u, r : ~Opens(c, u, r) /\ ~Offers(c, u, r) /\ ~Received(c, u, r)
             /\ Published(i, c)
             /\ (\A s \in Sockets : sock'[s].phase = "open" /\ sock[s].phase = "open" =>
                   topics[s] \subseteq topics'[s]) => Executed(i, c)
  BY <1>2 DEF Opens, Offers, Received, Published, Executed
<1>3. ASSUME UNCHANGED <<tasks, running>>
      PROVE  (\A j \in Instances : AtWork(j) \subseteq AtWork(j)') /\ Undeferred'
  BY <1>3 DEF AtWork, Undeferred, Hearing
<1>4. ASSUME UNCHANGED sock
      PROVE  OpenOrHears
  BY <1>4 DEF OpenOrHears
<1>5. \A u \in Users : \A s \in Sockets :
        sock[s].phase = "open" /\ sock[s].home = i /\ UserOf[s] = u => s \in userSockets[i][u]
  BY DEF Agreement, RegistryAgrees, OpenAt
<1>6. CASE RunReject(i)
  <2>1. /\ Runs(i, "reject") /\ UNCHANGED <<dbVars, running, tasks, redisVars, topics>>
        /\ sock' = [sock EXCEPT ![c.socket] = Closed] /\ c.socket \in Sockets
    BY <1>1, <1>6, <1>c, ClosureFields DEF RunReject
  <2>2. OpenOrHears
    BY <2>1 DEF OpenOrHears, TypeOK, HubTypes, Closed
  <2>3. c.do = "reject"
    BY <1>1, <2>1
  <2> QED  BY <1>2, <1>3, <1>c, <2>1, <2>2, <2>3, SilenceKeeps, LoopKeeps
<1>7. CASE RunUpgrade(i)
  <2>1. /\ Runs(i, "upgrade") /\ UNCHANGED <<dbVars, running, redisVars>>
        /\ c.do = "upgrade" /\ c.socket \in Sockets
    BY <1>1, <1>7, <1>c, ClosureFields DEF RunUpgrade
  <2>2. CASE sock' = [sock EXCEPT ![c.socket] = Closed] /\ UNCHANGED <<topics, tasks>>
    <3>1. OpenOrHears
      BY <2>1, <2>2 DEF OpenOrHears, TypeOK, HubTypes, Closed
    <3> QED  BY <1>2, <1>3, <1>c, <2>1, <2>2, <3>1, SilenceKeeps, LoopKeeps
  <2>3. CASE /\ sock' = [sock EXCEPT ![c.socket] = [phase |-> "open", home |-> i, admin |-> c.admin]]
             /\ Subscribe(i, {c.socket}, {Presence, Personal(UserOf[c.socket])})
             /\ Submit(i, [op |-> "open", at |-> "online", user |-> UserOf[c.socket], rooms |-> {}])
    <3> DEFINE task == [op |-> "open", at |-> "online", user |-> UserOf[c.socket], rooms |-> {}]
    <3>1. task \in Tasks
      BY <2>1 DEF Tasks, HubAssumption
    <3>2. task.op = "open" /\ task.user = UserOf[c.socket] /\ task.at = "online"
      OBVIOUS
    <3>3. Submit(i, task)
      BY <2>3
    <3> HIDE DEF task
    <3>4. /\ \A j \in Instances : AtWork(j) \subseteq AtWork(j)'
          /\ task \in AtWork(i)' /\ Undeferred'
      BY <2>1, <3>1, <3>2, <3>3, SubmitQueues DEF TypeOK, Hearing
    <3>5. \A r : Reading(i, UserOf[c.socket], r)'
      BY <3>2, <3>4 DEF Reading, Rereads
    <3>6. /\ sock'[c.socket].home = i
          /\ \A s \in Sockets \ {c.socket} : sock'[s] = sock[s]
      BY <2>1, <2>3 DEF TypeOK, HubTypes
    <3>7. OpenOrHears
      <4> SUFFICES ASSUME NEW s \in Sockets, sock'[s].phase = "open", s = c.socket,
                          NEW r \in Rooms
                   PROVE  HearsOf(s, r)'
        BY <3>6 DEF OpenOrHears
      <4> QED  BY <3>5, <3>6 DEF HearsOf
    <3>8. \A s \in Sockets : topics[s] \subseteq topics'[s]
      BY <2>3, SubscribeTopics
    <3> QED  BY <1>2, <1>c, <2>1, <3>4, <3>7, <3>8, SilenceKeeps, LoopKeeps
  <2> QED  BY <1>7, <1>c, <2>2, <2>3 DEF RunUpgrade
<1>8. CASE RunOpened(i)
  <2> DEFINE T == {RoomTopic(r) : r \in c.rooms}
  <2>1. /\ Runs(i, "opened") /\ UNCHANGED <<dbVars, running, tasks, sock>>
        /\ c.do = "opened" /\ c.user \in Users
        /\ Subscribe(i, userSockets[i][c.user], T)
        /\ UNCHANGED redisVars \/ Publish(i, 1, <<>>)
    BY <1>1, <1>8, <1>c, ClosureFields DEF RunOpened
  <2>2. LosesNothing
    BY <2>1, SilenceKeeps, AnnounceKeeps
  <2>3. \A s \in Sockets : topics[s] \subseteq topics'[s]
    BY <2>1, SubscribeTopics
  <2>4. \A s \in Sockets : s \in userSockets[i][c.user] => T \subseteq topics'[s]
    BY <2>1, SubscribeTopics
  <2>5. \A u, r : ~Offers(c, u, r) /\ ~Received(c, u, r)
    BY <2>1 DEF Offers, Received
  <2>6. \A u, r : Opens(c, u, r) => c.user = u /\ RoomTopic(r) \in T
    BY DEF Opens
  <2> HIDE DEF T
  <2>7. Executed(i, c)
    BY <1>5, <2>1, <2>3, <2>4, <2>5, <2>6 DEF Executed
  <2>8. Published(i, c)
    BY <2>5 DEF Published
  <2> QED  BY <1>3, <1>4, <1>c, <2>1, <2>2, <2>7, <2>8, LoopKeeps
<1>9. ASSUME c.do \in {"apply", "control"}, c \in Closures, c \in Carried(i), Apply(i, c.cmd)
      PROVE  Executed(i, c) /\ OpenOrHears
  <2>1. c.cmd \in Commands /\ c.cmd \in Underway
    BY <1>9, ClosureFields DEF Underway, CommandsAt
  <2>2. PICK cmd \in Commands : cmd = c.cmd
    BY <2>1
  <2>3. /\ \A s \in Sockets : sock'[s].phase = "open" =>
              sock[s].phase = "open" /\ sock'[s].home = sock[s].home
        /\ \A s \in Sockets, r \in Rooms :
              /\ sock[s].phase = "open" /\ sock'[s].phase = "open"
              /\ cmd # Withdrawal(UserOf[s], r)
              /\ RoomTopic(r) \in topics[s] \/ (sock[s].home = i /\ cmd = Subscription(UserOf[s], r))
              => RoomTopic(r) \in topics'[s]
    BY <1>9, <2>2, ApplyKeeps
  <2>4. OpenOrHears
    BY <2>3 DEF OpenOrHears
  <2>5. \A s \in Sockets, r \in Rooms : Belongs(UserOf[s], r) => cmd # Withdrawal(UserOf[s], r)
    BY <2>1, <2>2 DEF Hearing, Firm, HubAssumption
  <2>6. \A u, r : Opens(c, u, r) \/ Offers(c, u, r) \/ Received(c, u, r) => cmd = Subscription(u, r)
    BY <1>9, <2>2 DEF Opens, Offers, Received
  <2>7. Executed(i, c)
    BY <2>3, <2>5, <2>6 DEF Executed
  <2> QED  BY <2>4, <2>7
<1>10. CASE RunApply(i)
  <2> DEFINE lead == IF c.cmd.action \in {"disconnect_user", "disconnect_non_admins"} THEN 1 ELSE 0
             q == <<c.cmd>>
  <2>1. /\ Runs(i, "apply") /\ UNCHANGED <<dbVars, running>>
        /\ Apply(i, c.cmd) /\ Publish(i, lead, q)
        /\ c.do = "apply" /\ c \in Closures /\ c \in Carried(i)
    BY <1>1, <1>10, <1>c DEF RunApply
  <2>2. c.cmd \in Commands /\ c.cmd \in Underway
    BY <2>1, ClosureFields DEF Underway, CommandsAt
  <2>3. lead \in Nat /\ q \in Seq(Commands) /\ q # <<>>
    BY <2>2
  <2>4. Range(q) = {c.cmd}
    BY DEF Range
  <2> HIDE DEF lead, q
  <2>5. /\ LosesNothing
        /\ redisUp /\ link[i] # "stale" =>
             \A j \in Instances : listening[j] =>
               \A cmd \in Range(q) : [from |-> i, cmd |-> cmd] \in Range(wire'[j])
    BY <2>1, <2>2, <2>3, <2>4, PublishKeeps
  <2>6. Published(i, c)
    <3>1. \A u, r : Offers(c, u, r) => c.cmd = Subscription(u, r)
      BY <2>1 DEF Offers
    <3> QED  BY <2>4, <2>5, <3>1 DEF Published
  <2>7. (\A j \in Instances : AtWork(j) \subseteq AtWork(j)') /\ Undeferred'
    BY <2>1, <2>2, ApplyQueues
  <2>8. Executed(i, c) /\ OpenOrHears
    BY <1>9, <2>1
  <2> QED  BY <1>c, <2>1, <2>5, <2>6, <2>7, <2>8, LoopKeeps
<1>11. CASE RunCreated(i)
  <2> DEFINE topic == RoomTopic(c.room)
             q == <<[action |-> "subscribe", user |-> c.user, topic |-> topic],
                    [action |-> "subscribe_admins", topic |-> topic]>>
  <2>1. /\ Runs(i, "created") /\ UNCHANGED <<dbVars, running, tasks, sock>>
        /\ Subscribe(i, userSockets[i][c.user] \cup AdminsAt(i), {topic})
        /\ Publish(i, 0, q)
        /\ c.do = "created" /\ c.user \in Users /\ c.room \in Rooms
    BY <1>1, <1>11, <1>c, ClosureFields DEF RunCreated
  <2>2. q \in Seq(Commands) /\ q # <<>>
    <3>1. /\ [action |-> "subscribe", user |-> c.user, topic |-> topic] \in Commands
          /\ [action |-> "subscribe_admins", topic |-> topic] \in Commands
      BY <2>1 DEF Commands, RoomTopics
    <3> QED  BY <3>1
  <2>3. /\ \A cmd \in Range(q) : cmd.action # "unsubscribe"
        /\ Subscription(c.user, c.room) \in Range(q)
    BY DEF Range, Subscription
  <2> HIDE DEF q
  <2>4. /\ LosesNothing
        /\ redisUp /\ link[i] # "stale" =>
             \A j \in Instances : listening[j] =>
               \A cmd \in Range(q) : [from |-> i, cmd |-> cmd] \in Range(wire'[j])
    BY <2>1, <2>2, <2>3, PublishKeeps
  <2>5. \A u, r : ~Opens(c, u, r) /\ ~Received(c, u, r) /\ (Offers(c, u, r) => c.user = u /\ c.room = r)
    BY <2>1 DEF Opens, Received, Offers
  <2>6. \A s \in Sockets : topics[s] \subseteq topics'[s]
    BY <2>1, SubscribeTopics
  <2>7. \A s \in Sockets : s \in userSockets[i][c.user] => topic \in topics'[s]
    BY <2>1, SubscribeTopics
  <2>8. Executed(i, c)
    BY <1>5, <2>1, <2>5, <2>6, <2>7 DEF Executed
  <2>9. Published(i, c)
    BY <2>3, <2>4, <2>5 DEF Published
  <2> QED  BY <1>3, <1>4, <1>c, <2>1, <2>4, <2>8, <2>9, LoopKeeps
<1>12. CASE RunJoined(i)
  <2>1. /\ Runs(i, "joined") /\ UNCHANGED <<dbVars, running, tasks, sock>>
        /\ \/ Subscribe(i, userSockets[i][c.user], {WikiTopic(c.room)})
           \/ UNCHANGED topics
        /\ UNCHANGED redisVars \/ Publish(i, 1, <<>>)
        /\ c.do = "joined"
    BY <1>1, <1>12, <1>c DEF RunJoined
  <2>2. \A s \in Sockets : topics[s] \subseteq topics'[s]
    BY <2>1, SubscribeTopics
  <2>3. LosesNothing
    BY <2>1, SilenceKeeps, AnnounceKeeps
  <2> QED  BY <1>2, <1>3, <1>4, <1>c, <2>1, <2>2, <2>3, LoopKeeps
<1>13. CASE RunControl(i)
  <2>1. /\ Runs(i, "control") /\ UNCHANGED <<dbVars, running, redisVars>>
        /\ Apply(i, c.cmd)
        /\ c.do = "control" /\ c \in Closures /\ c \in Carried(i)
    BY <1>1, <1>13, <1>c DEF RunControl
  <2>2. Published(i, c)
    BY <2>1 DEF Published, Offers
  <2>3. (\A j \in Instances : AtWork(j) \subseteq AtWork(j)') /\ Undeferred'
    BY <2>1, ClosureFields, ApplyQueues
  <2>4. Executed(i, c) /\ OpenOrHears
    BY <1>9, <2>1
  <2> QED  BY <1>c, <2>1, <2>2, <2>3, <2>4, SilenceKeeps, LoopKeeps
<1>14. CASE RunAnnounce(i)
  <2>1. /\ Runs(i, "announce") /\ UNCHANGED <<dbVars, running, tasks, sock, topics>>
        /\ Publish(i, 1, <<>>) /\ c.do = "announce"
    BY <1>1, <1>14, <1>c DEF RunAnnounce, hubVars
  <2> QED  BY <1>2, <1>3, <1>4, <1>c, <2>1, AnnounceKeeps, LoopKeeps
<1> QED
  BY <1>6, <1>7, <1>8, <1>10, <1>11, <1>12, <1>13, <1>14, Zenon DEF LoopStep

-----------------------------------------------------------------------------
(* What clients, administrators and Redis do, and crashes.                 *)

\* A step that leaves the closures and the commands alone.
LEMMA AsideHears ==
  ASSUME TypeOK, HubAssumption, Hearing,
         UNCHANGED <<members, rooms, missed, running, loop, wire>>,
         \A j \in Instances : AtWork(j) \subseteq AtWork(j)', Undeferred',
         \A i, j \in Instances : Reaches(i, j) => Reaches(i, j)',
         \A s \in Sockets : sock'[s].phase = "open" =>
           /\ sock[s].phase = "open" /\ sock'[s].home = sock[s].home
           /\ \A r \in Rooms : RoomTopic(r) \in topics[s] => RoomTopic(r) \in topics'[s]
  PROVE  Hearing'
<1>1. \A u, r : Belongs(u, r)' <=> Belongs(u, r)
  BY DEF Belongs
<1>2. \A j \in Instances : Carried(j)' = Carried(j)
  BY DEF Carried, Deferred
<1>3. ASSUME NEW j \in Instances, NEW u \in Users, NEW r \in Rooms, Told(j, u, r)
      PROVE  Told(j, u, r)'
  BY <1>2, <1>3, StillTold
<1>4. AllHear'
  <2>1. ASSUME NEW s \in Sockets, sock'[s].phase = "open"
        PROVE  /\ AtWork(sock[s].home) \subseteq AtWork(sock[s].home)'
               /\ Carried(sock[s].home) \subseteq Carried(sock[s].home)'
               /\ \A r \in Rooms : Told(sock[s].home, UserOf[s], r)
                    => Told(sock[s].home, UserOf[s], r)'
    <3>1. PICK j \in Instances : j = sock[s].home
      BY <2>1, SocketFields DEF TypeOK, HubTypes
    <3>2. PICK u \in Users : u = UserOf[s]
      BY DEF HubAssumption
    <3>3. sock'[s].home = j
      BY <2>1, <3>1
    <3>4. /\ AtWork(j) \subseteq AtWork(j)' /\ Carried(j) \subseteq Carried(j)'
          /\ \A r \in Rooms : Told(j, u, r) => Told(j, u, r)'
      BY <1>2, <1>3
    <3> QED  BY <3>1, <3>2, <3>3, <3>4
  <2> QED  BY <1>1, <2>1, StillHears DEF TypeOK, Hearing
<1>5. Underway' = Underway
  BY <1>2 DEF Underway, CommandsAt
<1> QED  BY <1>1, <1>4, <1>5, FirmKept DEF Hearing

LEMMA ClientHears ==
  ASSUME TypeOK, HubAssumption, Hearing, ClientStep
  PROVE  Hearing'
<1>1. ASSUME UNCHANGED redisVars
      PROVE  \A i, j \in Instances : Reaches(i, j) => Reaches(i, j)'
  BY <1>1 DEF Reaches, redisVars
<1>2. ASSUME UNCHANGED <<tasks, running>>
      PROVE  (\A j \in Instances : AtWork(j) \subseteq AtWork(j)') /\ Undeferred'
  BY <1>2 DEF AtWork, Undeferred, Hearing
<1>3. ASSUME NEW s \in Sockets, NEW i \in Instances, Connect(i, s)
      PROVE  Hearing'
  <2> DEFINE task == [op |-> "upgrade", at |-> "session", socket |-> s, admin |-> FALSE]
  <2>1. /\ UNCHANGED <<members, rooms, missed, running, loop, wire, topics, redisVars>>
        /\ sock[s].phase = "closed" /\ Submit(i, task)
        /\ sock' = [sock EXCEPT ![s] = [phase |-> "upgrading", home |-> i, admin |-> FALSE]]
    BY <1>3 DEF Connect, dbVars, redisVars
  <2>2. task \in Tasks /\ task.op # "defer"
    BY DEF Tasks
  <2> HIDE DEF task
  <2>3. (\A j \in Instances : AtWork(j) \subseteq AtWork(j)') /\ Undeferred'
    BY <2>1, <2>2, SubmitQueues DEF TypeOK, Hearing
  <2>4. \A x \in Sockets : sock'[x].phase = "open" => sock[x].phase = "open" /\ sock'[x] = sock[x]
    BY <2>1 DEF TypeOK, HubTypes
  <2> QED  BY <1>1, <2>1, <2>3, <2>4, AsideHears
<1>4. ASSUME NEW s \in Sockets, Abort(s)
      PROVE  Hearing'
  <2>1. /\ UNCHANGED <<members, rooms, missed, running, tasks, loop, wire, topics, redisVars>>
        /\ sock[s].phase = "upgrading"
        /\ sock' = [sock EXCEPT ![s] = [sock[s] EXCEPT !.phase = "aborted"]]
    BY <1>4 DEF Abort, dbVars, threadVars, redisVars
  <2>2. [sock[s] EXCEPT !.phase = "aborted"].phase = "aborted"
    BY <2>1 DEF TypeOK, HubTypes, SocketStates, Closed
  <2>3. \A x \in Sockets : sock'[x].phase = "open" => sock[x].phase = "open" /\ sock'[x] = sock[x]
    BY <2>1, <2>2 DEF TypeOK, HubTypes
  <2> QED  BY <1>1, <1>2, <2>1, <2>3, AsideHears
<1>5. ASSUME NEW s \in Sockets, Disconnect(s)
      PROVE  Hearing'
  <2>1. PICK i \in Instances : i = sock[s].home
    BY <1>5, SocketFields DEF Disconnect, TypeOK, HubTypes
  <2>2. /\ UNCHANGED <<members, rooms, missed, running, loop, wire, redisVars>>
        /\ Close(i, {s})
    BY <1>5, <2>1 DEF Disconnect, dbVars, redisVars
  <2>3. (\A j \in Instances : AtWork(j) \subseteq AtWork(j)') /\ Undeferred'
    BY <2>2, CloseQueues DEF TypeOK, Hearing
  <2>4. \A x \in Sockets : sock'[x].phase = "open" =>
          sock'[x] = sock[x] /\ topics'[x] = topics[x]
    BY <2>2, CloseKeeps
  <2> QED  BY <1>1, <2>2, <2>3, <2>4, AsideHears
<1>6. ASSUME NEW s \in Sockets, NEW r \in WikiRooms, RequestJoin(s, r)
      PROVE  Hearing'
  <2> DEFINE task == [op |-> "wiki_join", user |-> UserOf[s], room |-> r]
  <2>1. PICK i \in Instances : i = sock[s].home
    BY <1>6, SocketFields DEF RequestJoin, TypeOK, HubTypes
  <2>2. /\ UNCHANGED <<members, rooms, missed, running, loop, wire, topics, sock, redisVars>>
        /\ Submit(i, task)
    BY <1>6, <2>1 DEF RequestJoin, dbVars, hubVars, redisVars
  <2>3. task \in Tasks /\ task.op # "defer"
    BY DEF Tasks, HubAssumption
  <2> HIDE DEF task
  <2>4. (\A j \in Instances : AtWork(j) \subseteq AtWork(j)') /\ Undeferred'
    BY <2>2, <2>3, SubmitQueues DEF TypeOK, Hearing
  <2> QED  BY <1>1, <2>2, <2>4, AsideHears
<1>7. ASSUME NEW s \in Sockets, NEW r \in WikiRooms, LeavePage(s, r)
      PROVE  Hearing'
  <2>1. /\ UNCHANGED <<members, rooms, missed, running, tasks, loop, wire, sock, redisVars>>
        /\ Unsubscribe(sock[s].home, {s}, WikiTopic(r))
    BY <1>7 DEF LeavePage, dbVars, threadVars, redisVars
  <2>2. \A x : RoomTopic(x) # WikiTopic(r)
    BY DEF RoomTopic, WikiTopic
  <2>3. \A y \in Sockets, x \in Rooms : RoomTopic(x) \in topics[y] => RoomTopic(x) \in topics'[y]
    BY <2>1, <2>2 DEF Unsubscribe
  <2> QED  BY <1>1, <1>2, <2>1, <2>3, AsideHears
<1> QED  BY <1>3, <1>4, <1>5, <1>6, <1>7 DEF ClientStep

LEMMA RequestHears ==
  ASSUME TypeOK, HubAssumption, Hearing, NEW i \in Instances, RequestAny(i)
  PROVE  Hearing'
<1>1. ASSUME NEW kind, NEW task \in Tasks, task.op # "defer", Request(i, kind, task)
      PROVE  Hearing'
  <2>1. /\ UNCHANGED <<members, rooms, missed, running, loop, wire, topics, sock, redisVars>>
        /\ Submit(i, task)
    BY <1>1 DEF Request, dbVars, hubVars, redisVars
  <2>2. (\A j \in Instances : AtWork(j) \subseteq AtWork(j)') /\ Undeferred'
    BY <1>1, <2>1, SubmitQueues DEF TypeOK, Hearing
  <2>3. \A k, j \in Instances : Reaches(k, j) => Reaches(k, j)'
    BY <2>1 DEF Reaches, redisVars
  <2> QED  BY <2>1, <2>2, <2>3, AsideHears
<1>2. /\ \A u \in Users, r \in Rooms, op \in {"add", "remove", "create"} :
           [op |-> op, user |-> u, room |-> r] \in Tasks
      /\ \A u \in Users, op \in {"ban", "unban"} : [op |-> op, user |-> u] \in Tasks
      /\ \A op \in {"lock", "unlock"} : [op |-> op] \in Tasks
      /\ \A u \in Users, a \in BOOLEAN : [op |-> "role", user |-> u, admin |-> a] \in Tasks
  BY DEF Tasks
<1>3. CASE \E u \in Users, r \in Rooms, op \in {"add", "remove", "create"}, kind \in Kinds :
             Request(i, kind, [op |-> op, user |-> u, room |-> r])
  BY <1>1, <1>2, <1>3
<1>4. CASE \E u \in Users, op \in {"ban", "unban"} : Request(i, "ban", [op |-> op, user |-> u])
  BY <1>1, <1>2, <1>4
<1>5. CASE \E op \in {"lock", "unlock"} : Request(i, "lockdown", [op |-> op])
  BY <1>1, <1>2, <1>5
<1>6. CASE \E u \in Users, a \in BOOLEAN :
             Request(i, "role", [op |-> "role", user |-> u, admin |-> a])
  BY <1>1, <1>2, <1>6
<1> QED  BY <1>3, <1>4, <1>5, <1>6 DEF RequestAny, Kinds

LEMMA ReceiveHears ==
  ASSUME TypeOK, HubAssumption, Hearing, NEW i \in Instances, Receive(i)
  PROVE  Hearing'
<1> PICK m : m = Head(wire[i])
  OBVIOUS
<1> DEFINE c == [do |-> "control", cmd |-> m.cmd]
<1>1. /\ wire[i] # <<>> /\ wire[i] \in Seq(Messages) /\ loop[i] \in Seq(Closures)
      /\ wire' = [wire EXCEPT ![i] = Tail(@)]
      /\ IF m.from = i THEN loop' = loop ELSE loop' = [loop EXCEPT ![i] = Append(@, c)]
      /\ UNCHANGED <<members, rooms, missed, sock, topics, tasks, running, redisUp, link, listening>>
  BY DEF Receive, Defer, dbVars, hubVars, TypeOK, ThreadTypes, RedisTypes
<1>2. /\ m \in Range(wire[i]) /\ Range(Tail(wire[i])) \subseteq Range(wire[i])
      /\ Range(wire[i]) \subseteq Range(Tail(wire[i])) \cup {m}
  BY <1>1, TailRange
<1>3. m \in Messages /\ m.cmd \in Commands
  <2>1. Head(wire[i]) \in Messages
    BY <1>1
  <2> QED  BY <2>1 DEF Messages
<1>4. c \in Closures /\ c.do = "control" /\ c.cmd = m.cmd
  BY <1>3 DEF Closures
<1> HIDE DEF c
<1>5. Range(Append(loop[i], c)) = Range(loop[i]) \cup {c}
  BY <1>1, <1>4, AppendRange
<1>6. /\ \A j \in Instances : Carried(j) \subseteq Carried(j)'
      /\ \A j \in Instances : \A x \in Carried(j)' : x \in Carried(j) \/ x = c
      /\ m.from # i => c \in Carried(i)'
  <2>1. \A j \in Instances : Deferred(j)' = Deferred(j)
    BY <1>1 DEF Deferred
  <2>2. /\ \A j \in Instances \ {i} : loop'[j] = loop[j]
        /\ loop'[i] = IF m.from = i THEN loop[i] ELSE Append(loop[i], c)
    BY <1>1 DEF TypeOK, ThreadTypes
  <2> QED  BY <1>5, <2>1, <2>2 DEF Carried
<1>7. /\ \A j \in Instances \ {i} : wire'[j] = wire[j]
      /\ wire'[i] = Tail(wire[i])
  BY <1>1 DEF TypeOK, RedisTypes
<1>8. \A u, r : Belongs(u, r)' <=> Belongs(u, r)
  BY <1>1 DEF Belongs
<1>9. \A j \in Instances : AtWork(j)' = AtWork(j)
  BY <1>1 DEF AtWork
<1>10. ASSUME NEW j \in Instances, NEW u \in Users, NEW r \in Rooms, Told(j, u, r)
       PROVE  Told(j, u, r)'
  <2>1. \A k \in Instances : Reaches(k, j)' <=> Reaches(k, j)
    BY <1>1 DEF Reaches
  <2>2. \A x : /\ Offers(x, u, r)' <=> Offers(x, u, r)
               /\ Received(x, u, r)' <=> Received(x, u, r)
    BY DEF Offers, Received, Subscription
  <2>3. CASE \E k \in Instances : Reaches(k, j) /\ \E x \in Carried(k) : Offers(x, u, r)
    BY <1>6, <2>1, <2>2, <2>3 DEF Told
  <2>4. CASE \E x \in Carried(j) : Received(x, u, r)
    BY <1>6, <2>2, <2>4 DEF Told
  <2>5. ASSUME NEW n \in Range(wire[j]), n.from # j, n.cmd = Subscription(u, r)
        PROVE  Told(j, u, r)'
    <3>1. CASE n \in Range(wire'[j])
      BY <2>5, <3>1 DEF Told, Subscription
    <3>2. CASE j = i /\ n = m
      <4>1. Received(c, u, r)
        BY <1>4, <2>5, <3>2 DEF Received
      <4> QED  BY <1>6, <2>2, <2>5, <3>2, <4>1 DEF Told
    <3> QED  BY <1>2, <1>7, <3>1, <3>2
  <2> QED  BY <1>10, <2>3, <2>4, <2>5 DEF Told
<1>11. AllHear'
  <2>1. ASSUME NEW s \in Sockets, sock'[s].phase = "open"
        PROVE  /\ AtWork(sock[s].home) \subseteq AtWork(sock[s].home)'
               /\ Carried(sock[s].home) \subseteq Carried(sock[s].home)'
               /\ \A r \in Rooms : Told(sock[s].home, UserOf[s], r)
                    => Told(sock[s].home, UserOf[s], r)'
    <3>1. PICK j \in Instances : j = sock[s].home
      BY <1>1, <2>1, SocketFields DEF TypeOK, HubTypes
    <3>2. PICK u \in Users : u = UserOf[s]
      BY DEF HubAssumption
    <3>3. sock'[s].home = j
      BY <1>1, <3>1
    <3>4. /\ AtWork(j) \subseteq AtWork(j)' /\ Carried(j) \subseteq Carried(j)'
          /\ \A r \in Rooms : Told(j, u, r) => Told(j, u, r)'
      BY <1>6, <1>9, <1>10
    <3> QED  BY <3>1, <3>2, <3>3, <3>4
  <2>2. \A s \in Sockets : sock'[s] = sock[s] /\ topics'[s] = topics[s]
    BY <1>1
  <2> QED  BY <1>8, <2>1, <2>2, StillHears DEF TypeOK, Hearing
<1>12. Firm'
  <2>1. m.cmd \in Underway
    BY <1>2, WireIsUnderway
  <2>2. \A j \in Instances : \A x \in Carried(j)' :
          x.do \in {"apply", "control"} => x \in Carried(j) \/ x.cmd \in Underway \cup {}
    BY <1>4, <1>6, <2>1
  <2>3. \A j \in Instances : \A n \in Range(wire'[j]) : n.cmd \in Underway \cup {}
    BY <1>2, <1>7, WireIsUnderway
  <2>4. Underway' \subseteq Underway \cup {}
    BY <2>2, <2>3, UnderwayFrom
  <2> QED  BY <1>8, <2>4, FirmKept DEF Hearing
<1>13. Undeferred'
  BY <1>1 DEF Undeferred, Hearing
<1> QED  BY <1>11, <1>12, <1>13 DEF Hearing

\* What was still unpublished, or pushed and lost, is missed.
LEMMA RedisFailsHears ==
  ASSUME TypeOK, HubAssumption, Hearing, RedisFails
  PROVE  Hearing'
<1>1. PICK lost \in SUBSET Instances :
        /\ wire' = [i \in Instances |-> IF i \in lost THEN <<>> ELSE wire[i]]
        /\ missed' = missed \cup {p \in Users \X Rooms :
             \/ \E i \in Instances : Unpublished(i, p[1], p[2])
             \/ \E i \in lost : Pushed(i, p[1], p[2])}
  BY DEF RedisFails
<1>2. UNCHANGED <<members, rooms, sock, topics, tasks, running, loop>>
  BY DEF RedisFails, hubVars, threadVars
<1>3. \A j \in Instances : Carried(j)' = Carried(j) /\ AtWork(j)' = AtWork(j)
  BY <1>2 DEF Carried, Deferred, AtWork
<1>4. ASSUME NEW u \in Users, NEW r \in Rooms, Belongs(u, r)'
      PROVE  /\ Belongs(u, r)
             /\ \A i \in Instances : ~Unpublished(i, u, r)
             /\ \A i \in lost : ~Pushed(i, u, r)
  BY <1>1, <1>2, <1>4 DEF Belongs
<1>5. ASSUME NEW j \in Instances, NEW u \in Users, NEW r \in Rooms, Belongs(u, r)',
             Told(j, u, r)
      PROVE  Told(j, u, r)'
  <2>1. \A i \in Instances : \A c \in Carried(i) : ~Offers(c, u, r)
    BY <1>4, <1>5, UnpublishedIsCarried
  <2>2. ASSUME NEW m \in Range(wire[j]), m.cmd = Subscription(u, r)
        PROVE  m \in Range(wire'[j])
    <3>1. j \notin lost
      BY <1>4, <1>5, <2>2 DEF Pushed
    <3> QED  BY <1>1, <3>1
  <2> QED  BY <1>3, <1>5, <2>1, <2>2 DEF Told, Received, Subscription
<1>6. AllHear'
  <2>1. ASSUME NEW s \in Sockets, sock'[s].phase = "open"
        PROVE  /\ AtWork(sock[s].home) \subseteq AtWork(sock[s].home)'
               /\ Carried(sock[s].home) \subseteq Carried(sock[s].home)'
               /\ \A r \in Rooms : Belongs(UserOf[s], r)' /\ Told(sock[s].home, UserOf[s], r)
                    => Told(sock[s].home, UserOf[s], r)'
    <3>1. PICK j \in Instances : j = sock[s].home
      BY <1>2, <2>1, SocketFields DEF TypeOK, HubTypes
    <3>2. PICK u \in Users : u = UserOf[s]
      BY DEF HubAssumption
    <3>3. sock'[s].home = j
      BY <1>2, <3>1
    <3>4. /\ AtWork(j) \subseteq AtWork(j)' /\ Carried(j) \subseteq Carried(j)'
          /\ \A r \in Rooms : Belongs(u, r)' /\ Told(j, u, r) => Told(j, u, r)'
      BY <1>3, <1>5
    <3> QED  BY <3>1, <3>2, <3>3, <3>4
  <2>2. \A s \in Sockets : sock'[s] = sock[s] /\ topics'[s] = topics[s]
    BY <1>2
  <2>3. \A u \in Users, r \in Rooms : Belongs(u, r)' => Belongs(u, r)
    BY <1>4
  <2> QED  BY <2>1, <2>2, <2>3, StillHears DEF TypeOK, Hearing
<1>7. Firm'
  <2>1. Range(<<>>) = {}
    BY DEF Range
  <2>2. \A j \in Instances : \A m \in Range(wire'[j]) : m.cmd \in Underway \cup {}
    BY <1>1, <2>1, WireIsUnderway
  <2>3. Underway' \subseteq Underway \cup {}
    BY <1>3, <2>2, UnderwayFrom
  <2> QED  BY <1>4, <2>3, FirmKept DEF Hearing
<1>8. Undeferred'
  BY <1>2 DEF Undeferred, Hearing
<1> QED  BY <1>6, <1>7, <1>8 DEF Hearing

\* What an instance had yet to publish when it crashed is missed.
LEMMA CrashHears ==
  ASSUME TypeOK, HubAssumption, Hearing, NEW i \in Instances, Crash(i)
  PROVE  Hearing'
<1>1. /\ missed' = missed \cup {p \in Users \X Rooms : Unpublished(i, p[1], p[2])}
      /\ UNCHANGED <<members, rooms, redisUp>>
      /\ topics' = [s \in Sockets |-> IF sock[s].home = i THEN {} ELSE topics[s]]
      /\ sock' = [s \in Sockets |-> IF sock[s].home = i THEN Closed ELSE sock[s]]
      /\ running' = [running EXCEPT ![i] = [w \in Workers |-> Nobody]]
      /\ tasks'[i] = <<>> /\ loop'[i] = <<>> /\ wire'[i] = <<>>
      /\ \A j \in Instances \ {i} :
           /\ tasks'[j] = tasks[j] /\ running'[j] = running[j] /\ loop'[j] = loop[j]
           /\ link'[j] = link[j] /\ listening'[j] = listening[j] /\ wire'[j] = wire[j]
  BY DEF Crash, TypeOK, ThreadTypes, RedisTypes
<1>2. Range(<<>>) = {}
  BY DEF Range
<1>3. \A j \in Instances \ {i} : Carried(j)' = Carried(j) /\ AtWork(j)' = AtWork(j)
  BY <1>1 DEF Carried, Deferred, AtWork
<1>4. Carried(i)' = {}
  <2>1. \A w \in Workers : running'[i][w].op # "defer"
    BY <1>1 DEF TypeOK, ThreadTypes, Nobody
  <2> QED  BY <1>1, <1>2, <2>1 DEF Carried, Deferred
<1>5. ASSUME NEW u \in Users, NEW r \in Rooms, Belongs(u, r)'
      PROVE  Belongs(u, r) /\ ~Unpublished(i, u, r)
  BY <1>1, <1>5 DEF Belongs
<1>6. ASSUME NEW j \in Instances \ {i}, NEW u \in Users, NEW r \in Rooms, Belongs(u, r)',
             Told(j, u, r)
      PROVE  Told(j, u, r)'
  <2>1. \A c \in Carried(i) : ~Offers(c, u, r)
    BY <1>5, <1>6, UnpublishedIsCarried
  <2>2. \A k \in Instances \ {i} : Reaches(k, j) => Reaches(k, j)'
    BY <1>1 DEF Reaches
  <2> QED  BY <1>1, <1>3, <1>6, <2>1, <2>2, StillTold
<1>7. AllHear'
  <2>1. ASSUME NEW s \in Sockets, sock'[s].phase = "open"
        PROVE  /\ sock'[s] = sock[s] /\ topics'[s] = topics[s]
               /\ AtWork(sock[s].home) \subseteq AtWork(sock[s].home)'
               /\ Carried(sock[s].home) \subseteq Carried(sock[s].home)'
               /\ \A r \in Rooms : Belongs(UserOf[s], r)' /\ Told(sock[s].home, UserOf[s], r)
                    => Told(sock[s].home, UserOf[s], r)'
    <3>1. sock'[s] = sock[s] /\ topics'[s] = topics[s] /\ sock[s].home # i
      BY <1>1, <2>1 DEF Closed
    <3>2. PICK j \in Instances \ {i} : j = sock[s].home
      BY <2>1, <3>1, SocketFields DEF TypeOK, HubTypes
    <3>3. PICK u \in Users : u = UserOf[s]
      BY DEF HubAssumption
    <3>4. sock'[s].home = j
      BY <3>1, <3>2
    <3>5. /\ AtWork(j) \subseteq AtWork(j)' /\ Carried(j) \subseteq Carried(j)'
          /\ \A r \in Rooms : Belongs(u, r)' /\ Told(j, u, r) => Told(j, u, r)'
      BY <1>3, <1>6
    <3> QED  BY <3>1, <3>2, <3>3, <3>4, <3>5
  <2>2. \A u \in Users, r \in Rooms : Belongs(u, r)' => Belongs(u, r)
    BY <1>5
  <2> QED  BY <2>1, <2>2, StillHears DEF TypeOK, Hearing
<1>8. Firm'
  <2>1. \A j \in Instances : \A m \in Range(wire'[j]) : m.cmd \in Underway \cup {}
    BY <1>1, <1>2, WireIsUnderway
  <2>2. \A j \in Instances : Carried(j)' \subseteq Carried(j)
    BY <1>3, <1>4
  <2>3. Underway' \subseteq Underway \cup {}
    BY <2>1, <2>2, UnderwayFrom
  <2> QED  BY <1>5, <2>3, FirmKept DEF Hearing
<1>9. Undeferred'
  BY <1>1, <1>2 DEF Undeferred, Hearing
<1> QED  BY <1>7, <1>8, <1>9 DEF Hearing

LEMMA HearingKept ==
  ASSUME TypeOK, HubAssumption, Agreement, Hearing, [Next]_vars
  PROVE  Hearing'
<1>1. ASSUME UNCHANGED <<members, rooms, missed, tasks, running, loop, wire, sock, topics>>,
             \A i, j \in Instances : Reaches(i, j) => Reaches(i, j)'
      PROVE  Hearing'
  <2>1. (\A j \in Instances : AtWork(j) \subseteq AtWork(j)') /\ Undeferred'
    BY <1>1 DEF AtWork, Undeferred, Hearing
  <2>2. \A s \in Sockets : sock'[s] = sock[s] /\ topics'[s] = topics[s]
    BY <1>1
  <2>3. \A s \in Sockets : sock'[s].phase = "open" =>
          /\ sock[s].phase = "open" /\ sock'[s].home = sock[s].home
          /\ \A r \in Rooms : RoomTopic(r) \in topics[s] => RoomTopic(r) \in topics'[s]
    BY <2>2
  <2> QED  BY <1>1, <2>1, <2>3, AsideHears
<1>2. CASE RedisRecovers
  <2>1. \A i, j \in Instances : Reaches(i, j) => Reaches(i, j)'
    BY <1>2 DEF RedisRecovers, Reaches
  <2> QED  BY <1>1, <1>2, <2>1 DEF RedisRecovers, dbVars, hubVars, threadVars
<1>3. ASSUME NEW i \in Instances, SubscriberReconnects(i)
      PROVE  Hearing'
  <2>1. \A k, j \in Instances : Reaches(k, j) => Reaches(k, j)'
    BY <1>3 DEF SubscriberReconnects, Reaches, TypeOK, RedisTypes
  <2> QED  BY <1>1, <1>3, <2>1 DEF SubscriberReconnects, dbVars, hubVars, threadVars
<1>4. ASSUME NEW i \in Instances, Boot(i)
      PROVE  Hearing'
  <2>1. \A k, j \in Instances : Reaches(k, j) => Reaches(k, j)'
    BY <1>4 DEF Boot, Reaches, redisVars
  <2> QED  BY <1>1, <1>4, <2>1 DEF Boot, hubVars, threadVars, redisVars
<1>5. CASE UNCHANGED vars
  <2>1. \A k, j \in Instances : Reaches(k, j) => Reaches(k, j)'
    BY <1>5 DEF vars, Reaches, redisVars
  <2> QED  BY <1>1, <1>5, <2>1 DEF vars, dbVars, hubVars, threadVars, redisVars
<1>6. CASE ClientStep
  BY <1>6, ClientHears
<1>7. CASE RedisFails
  BY <1>7, RedisFailsHears
<1>8. ASSUME NEW i \in Instances,
             \/ \E w \in Workers : WorkerStep(i, w)
             \/ LoopStep(i) \/ RequestAny(i) \/ Receive(i) \/ Crash(i)
      PROVE  Hearing'
  BY <1>8, WorkerStepHears, LoopStepHears, RequestHears, ReceiveHears, CrashHears
<1> QED  BY <1>2, <1>3, <1>4, <1>5, <1>6, <1>7, <1>8 DEF Next

LEMMA InitHears ==
  ASSUME HubAssumption, Init
  PROVE  Hearing
<1>1. Range(<<>>) = {}
  BY DEF Range
<1>2. \A s \in Sockets : sock[s].phase # "open"
  BY DEF Init, Closed
<1>3. Undeferred
  BY <1>1 DEF Init, Undeferred
<1>4. \A i \in Instances : Carried(i) = {}
  BY <1>1 DEF Init, Carried, Deferred, Nobody
<1>5. \A i \in Instances : Range(wire[i]) = {}
  BY <1>1 DEF Init
<1>6. Underway = {}
  BY <1>4, <1>5 DEF Underway, CommandsAt
<1> QED  BY <1>2, <1>3, <1>6 DEF Hearing, AllHear, Firm

\* When nothing is in flight, nothing is still to come.
LEMMA QuietHears ==
  ASSUME TypeOK, HubAssumption, Hearing
  PROVE  NoMissedSubscription
<1> SUFFICES ASSUME Quiet, NEW s \in Sockets, sock[s].phase = "open", NEW r \in rooms,
                    UserOf[s] \in members[r], <<UserOf[s], r>> \notin missed
             PROVE  RoomTopic(r) \in topics[s]
  BY DEF NoMissedSubscription, Open
<1>1. r \in Rooms /\ UserOf[s] \in Users /\ sock[s].home \in Instances
  BY SocketFields DEF TypeOK, DbTypes, HubTypes, HubAssumption
<1>2. HearsOf(s, r)
  BY <1>1 DEF Hearing, AllHear, Belongs
<1>3. Range(<<>>) = {}
  BY DEF Range
<1>4. ASSUME NEW i \in Instances
      PROVE  /\ \A t \in AtWork(i) : t = Nobody
             /\ Carried(i) = {} /\ Range(wire[i]) = {}
  BY <1>3 DEF Quiet, AtWork, Carried, Deferred, Nobody
<1>5. \A u, x : ~Rereads(Nobody, u, x)
  BY DEF Rereads, Nobody
<1>6. ~Reading(sock[s].home, UserOf[s], r)
  BY <1>1, <1>4, <1>5 DEF Reading
<1>7. ~Told(sock[s].home, UserOf[s], r)
  BY <1>1, <1>4 DEF Told
<1> QED  BY <1>2, <1>6, <1>7 DEF HearsOf

(***************************************************************************)
(* A member hears its rooms: when nothing is in flight, every open socket  *)
(* is subscribed to each room its user belongs to, however the open        *)
(* handlers, the commands and the closures of the instances interleaved,   *)
(* whatever crashed and whenever Redis failed, save the memberships that   *)
(* the history names as missed.                                            *)
(***************************************************************************)
THEOREM HubSubscriptions == Spec => []NoMissedSubscription
<1>1. Init => Hearing
  BY HubAssumption, InitHears
<1>2. TypeOK /\ Agreement /\ Hearing /\ [Next]_vars => Hearing'
  BY HubAssumption, HearingKept
<1>3. TypeOK /\ Hearing => NoMissedSubscription
  BY HubAssumption, QuietHears
<1> QED  BY <1>1, <1>2, <1>3, HubTypesCorrect, HubAgreement, PTL DEF Spec

=============================================================================
