-------------------------------- MODULE WsHub --------------------------------
(***************************************************************************)
(* The WebSocket hub of every backend instance (backend/src/ws/            *)
(* ws_handler.cpp) and the control plane that ties the instances together  *)
(* through Redis: which sockets are open, which topics they are subscribed *)
(* to, what PostgreSQL says of their users, and the handlers that move one *)
(* towards the other.                                                      *)
(*                                                                         *)
(* An instance runs one event loop, whose deferred closures are first-in   *)
(* first-out and atomic; a pool of workers, each of whose database calls   *)
(* is one step; and a Redis subscriber thread, which hands what it         *)
(* receives to the loop.  A room stands for a channel or a space; a space  *)
(* has a wiki page that members may join.  The fan-out of messages is the  *)
(* subject of module Messages: here a broadcast does no more than use the    *)
(* connection to Redis.                                                    *)
(***************************************************************************)
EXTENDS Integers, Sequences, FiniteSets, Functions

CONSTANTS
  Instances,       \* the backend instances
  Workers,         \* the workers of each DbThreadPool
  Users,
  Sockets,         \* connection slots: browser tabs, reused when closed
  UserOf,          \* the user whose session cookie a tab carries
  Rooms,           \* channels and spaces
  WikiRooms,       \* the spaces among them whose wiki page is opened
  InitialMembers,  \* the members of the rooms that exist at first
  InitialAdmins,   \* users whose role is admin or owner
  Budgets          \* how often each kind of event may happen, in each scenario

Kinds == {"connect", "member", "room", "wiki", "ban", "lockdown", "role",
          "redis", "crash"}

ASSUME HubAssumption ==
  /\ IsFiniteSet(Users)
  /\ UserOf \in [Sockets -> Users]
  /\ WikiRooms \subseteq Rooms
  /\ DOMAIN InitialMembers \subseteq Rooms
  /\ \A r \in DOMAIN InitialMembers : InitialMembers[r] \subseteq Users
  /\ InitialAdmins \subseteq Users
  /\ Budgets \subseteq [Kinds -> Nat]

-----------------------------------------------------------------------------
(* Topics, commands, closures and tasks *)

Presence == <<"presence">>
Personal(u) == <<"user", u>>
RoomTopic(r) == <<"room", r>>
WikiTopic(r) == <<"wiki", r>>

RoomTopics == {RoomTopic(r) : r \in Rooms}
Topics == {Presence} \cup {Personal(u) : u \in Users}
            \cup RoomTopics \cup {WikiTopic(r) : r \in WikiRooms}

(* What the reserved "ctrl" topic carries: publish_control's JSON.         *)
Commands ==
  [action : {"subscribe", "unsubscribe"}, user : Users, topic : RoomTopics]
    \cup [action : {"subscribe_admins"}, topic : RoomTopics]
    \cup [action : {"disconnect_user"}, user : Users]
    \cup [action : {"disconnect_non_admins"}]

\* A command on its way through Redis.
Messages == [from : Instances, cmd : Commands]

(* What is deferred to an event loop: the completion or the refusal of an  *)
(* upgrade, the end of the open handler, a command applied here and        *)
(* published, the end of a room's creation, the end of a wiki_join, a      *)
(* broadcast, a command received from another instance.                    *)
Closures ==
  [do : {"upgrade"}, socket : Sockets, admin : BOOLEAN]
    \cup [do : {"reject"}, socket : Sockets]
    \cup [do : {"opened"}, user : Users, rooms : SUBSET Rooms]
    \cup [do : {"apply", "control"}, cmd : Commands]
    \cup [do : {"created"}, user : Users, room : Rooms]
    \cup [do : {"joined"}, user : Users, room : WikiRooms, allowed : BOOLEAN]
    \cup [do : {"announce"}]

Tasks ==
  [op : {"upgrade"}, at : {"session", "user", "lockdown"},
   socket : Sockets, admin : BOOLEAN]
    \cup [op : {"open"}, at : {"online", "rooms", "role"},
          user : Users, rooms : SUBSET Rooms]
    \cup [op : {"offline", "ban", "unban"}, user : Users]
    \cup [op : {"lock", "unlock"}]
    \cup [op : {"add", "remove", "create"}, user : Users, room : Rooms]
    \cup [op : {"wiki_join"}, user : Users, room : WikiRooms]
    \cup [op : {"role"}, user : Users, admin : BOOLEAN]
    \cup [op : {"defer"}, closure : Closures]

Nobody == [op |-> "none"]      \* the task of an idle worker
Nowhere == "nowhere"
Closed == [phase |-> "closed", home |-> Nowhere, admin |-> FALSE]
SocketStates ==
  {Closed} \cup [phase : {"upgrading", "aborted", "open"}, home : Instances,
                 admin : BOOLEAN]

VARIABLES
  \* PostgreSQL
  members,      \* channel_members and space_members
  rooms,        \* the rooms that exist
  admins,       \* users.role is admin or owner
  banned,       \* users.is_banned
  lockedDown,   \* the server_locked_down setting
  online,       \* users.is_online
  missed,       \* history: the memberships that some instance may not hear of
  \* the hub of each instance
  userSockets,  \* user_sockets_
  subscribers,  \* topic_subscribers_
  sock,         \* a socket: its phase, its instance, the role it carries
  topics,       \* WsUserData::subscribed_topics
  \* the threads of each instance
  tasks,        \* the queue of the DbThreadPool
  running,      \* what each worker executes
  loop,         \* the closures deferred to the event loop
  \* Redis
  redisUp,
  link,         \* the publisher's connection: none, live, or stale and unnoticed
  listening,    \* whether the subscriber's connection is established
  wire,         \* what Redis has pushed to the subscriber
  \* the processes
  up,
  budget

dbVars == <<members, rooms, admins, banned, lockedDown, online, missed>>
hubVars == <<userSockets, subscribers, sock, topics>>
threadVars == <<tasks, running, loop>>
redisVars == <<redisUp, link, listening, wire>>
vars == <<dbVars, hubVars, threadVars, redisVars, up, budget>>

Init ==
  /\ rooms = DOMAIN InitialMembers
  /\ members = [r \in Rooms |-> IF r \in rooms THEN InitialMembers[r] ELSE {}]
  /\ admins = InitialAdmins
  /\ banned = {}
  /\ lockedDown = FALSE
  /\ online = {}
  /\ missed = {}
  /\ userSockets = [i \in Instances |-> [u \in Users |-> {}]]
  /\ subscribers = [i \in Instances |-> [t \in Topics |-> {}]]
  /\ sock = [s \in Sockets |-> Closed]
  /\ topics = [s \in Sockets |-> {}]
  /\ tasks = [i \in Instances |-> <<>>]
  /\ running = [i \in Instances |-> [w \in Workers |-> Nobody]]
  /\ loop = [i \in Instances |-> <<>>]
  /\ redisUp = TRUE
  /\ link = [i \in Instances |-> "none"]
  /\ listening = [i \in Instances |-> TRUE]
  /\ wire = [i \in Instances |-> <<>>]
  /\ up = [i \in Instances |-> TRUE]
  /\ budget \in Budgets

Spend(kind) ==
  /\ budget[kind] > 0
  /\ budget' = [budget EXCEPT ![kind] = @ - 1]

Submit(i, task) == tasks' = [tasks EXCEPT ![i] = Append(@, task)]
Defer(i, closure) == loop' = [loop EXCEPT ![i] = Append(@, closure)]

Registered(i) == UNION {userSockets[i][u] : u \in Users}
AdminsAt(i) == {s \in Registered(i) : sock[s].admin}

-----------------------------------------------------------------------------
(* The primitives of the hub *)

\* local_subscribe of the sockets S to the topics T.
Subscribe(i, S, T) ==
  /\ subscribers' = [subscribers EXCEPT
       ![i] = [t \in Topics |-> IF t \in T THEN @[t] \cup S ELSE @[t]]]
  /\ topics' = [s \in Sockets |-> IF s \in S THEN topics[s] \cup T ELSE topics[s]]

\* Mutant: local_unsubscribe_all in its place.
UnsubscribeEverything(i, S, topic) ==
  /\ subscribers' = [subscribers EXCEPT ![i] = [t \in Topics |-> @[t] \ S]]
  /\ topics' = [s \in Sockets |-> IF s \in S THEN {} ELSE topics[s]]

\* local_unsubscribe of the sockets S from a topic.
Unsubscribe(i, S, topic) ==
  /\ subscribers' = [subscribers EXCEPT ![i][topic] = @ \ S]
  /\ topics' = [s \in Sockets |-> IF s \in S THEN topics[s] \ {topic} ELSE topics[s]]

\* The orders in which the users of a set may be visited.
Orderings(U) ==
  {q \in [1..Cardinality(U) -> U] : \A a, b \in DOMAIN q : q[a] = q[b] => a = b}

LastSockets(i, S) ==
  {u \in Users : userSockets[i][u] # {} /\ userSockets[i][u] \subseteq S}
SubmitOffline(i, U) ==
  \E q \in Orderings(U) :
    tasks' = [tasks EXCEPT
      ![i] = @ \o [k \in DOMAIN q |-> [op |-> "offline", user |-> q[k]]]]
Scrub(i, S) ==
  /\ subscribers' = [subscribers EXCEPT
       ![i] = [t \in Topics |-> @[t] \ {s \in S : t \in topics[s]}]]
  /\ topics' = [s \in Sockets |-> IF s \in S THEN {} ELSE topics[s]]

\* Mutants: the topic index is not scrubbed; the user's entry goes with its
\* first closed socket.
CloseUnscrubbed(i, S) ==
  /\ topics' = [s \in Sockets |-> IF s \in S THEN {} ELSE topics[s]]
  /\ userSockets' = [userSockets EXCEPT ![i] = [u \in Users |-> @[u] \ S]]
  /\ sock' = [s \in Sockets |-> IF s \in S THEN Closed ELSE sock[s]]
  /\ SubmitOffline(i, LastSockets(i, S))
  /\ UNCHANGED subscribers
CloseEntry(i, S) ==
  /\ Scrub(i, S)
  /\ userSockets' = [userSockets EXCEPT
       ![i] = [u \in Users |-> IF @[u] \cap S = {} THEN @[u] ELSE {}]]
  /\ sock' = [s \in Sockets |-> IF s \in S THEN Closed ELSE sock[s]]
  /\ SubmitOffline(i, LastSockets(i, S))
\* The close handler of each of the sockets S: the socket is scrubbed from
\* the topics it remembers and from the registry, and the user of a last
\* socket is marked offline by a worker.
Close(i, S) ==
  /\ Scrub(i, S)
  /\ userSockets' = [userSockets EXCEPT ![i] = [u \in Users |-> @[u] \ S]]
  /\ sock' = [s \in Sockets |-> IF s \in S THEN Closed ELSE sock[s]]
  /\ SubmitOffline(i, LastSockets(i, S))

\* Mutant: a subscribe command finds one of the user's sockets.
ApplyToOne(i, cmd) ==
  /\ cmd.action = "subscribe"
  /\ \/ /\ userSockets[i][cmd.user] = {}
        /\ UNCHANGED <<subscribers, topics>>
     \/ \E s \in userSockets[i][cmd.user] : Subscribe(i, {s}, {cmd.topic})
  /\ UNCHANGED <<userSockets, sock, tasks>>

\* A command takes effect on the sockets of one instance.
Apply(i, cmd) ==
  \/ /\ cmd.action = "subscribe"
     /\ Subscribe(i, userSockets[i][cmd.user], {cmd.topic})
     /\ UNCHANGED <<userSockets, sock, tasks>>
  \/ /\ cmd.action = "unsubscribe"
     /\ Unsubscribe(i, userSockets[i][cmd.user], cmd.topic)
     /\ UNCHANGED <<userSockets, sock, tasks>>
  \/ /\ cmd.action = "subscribe_admins"
     /\ Subscribe(i, AdminsAt(i), {cmd.topic})
     /\ UNCHANGED <<userSockets, sock, tasks>>
  \/ /\ cmd.action = "disconnect_user"
     /\ Close(i, userSockets[i][cmd.user])
  \/ /\ cmd.action = "disconnect_non_admins"
     /\ Close(i, Registered(i) \ AdminsAt(i))

\* RedisPublisher::publish, one message after the other: as many broadcasts as
\* lead, whose content is not followed here, then the commands q.  Each goes to
\* every established subscriber; a stale connection costs the first message,
\* and the next one reconnects.
Publish(i, lead, q) ==
  /\ LET sent == IF ~redisUp THEN <<>>
                 ELSE IF link[i] = "stale" /\ lead = 0 THEN Tail(q) ELSE q
     IN  wire' = [j \in Instances |->
           IF listening[j]
           THEN wire[j] \o [k \in DOMAIN sent |-> [from |-> i, cmd |-> sent[k]]]
           ELSE wire[j]]
  /\ link' = [link EXCEPT
       ![i] = IF ~redisUp \/ (@ = "stale" /\ lead + Len(q) = 1) THEN "none" ELSE "live"]
  /\ UNCHANGED <<redisUp, listening>>

-----------------------------------------------------------------------------
(* Commands on their way *)

Subscription(u, r) == [action |-> "subscribe", user |-> u, topic |-> RoomTopic(r)]
Withdrawal(u, r) == [action |-> "unsubscribe", user |-> u, topic |-> RoomTopic(r)]

Deferred(i) == {running[i][w].closure : w \in {v \in Workers : running[i][v].op = "defer"}}
\* The closure publishes the subscription; an instance has yet to do so, ...
Offers(c, u, r) ==
  \/ c.do = "apply" /\ c.cmd = Subscription(u, r)
  \/ c.do = "created" /\ c.user = u /\ c.room = r
Unpublished(i, u, r) == \E c \in Deferred(i) \cup Range(loop[i]) : Offers(c, u, r)
\* ... or has been pushed it.
Pushed(i, u, r) == \E m \in Range(wire[i]) : m.cmd = Subscription(u, r)
\* Some instance has yet to apply the withdrawal.
Withdrawing(u, r) ==
  \E i \in Instances :
    \/ \E c \in Deferred(i) \cup Range(loop[i]) :
         c.do \in {"apply", "control"} /\ c.cmd = Withdrawal(u, r)
    \/ \E m \in Range(wire[i]) : m.cmd = Withdrawal(u, r)

\* A membership is made: will every instance hear of it, and of nothing older
\* after it?
Record(i, u, r) ==
  missed' =
    IF redisUp /\ link[i] # "stale" /\ (\A j \in Instances : listening[j]) /\ ~Withdrawing(u, r)
    THEN missed \ {<<u, r>>} ELSE missed \cup {<<u, r>>}

-----------------------------------------------------------------------------
(* Connecting: upgrade on the loop, on a worker, on the loop again *)

Connect(i, s) ==
  /\ up[i]
  /\ sock[s].phase = "closed"
  /\ Spend("connect")
  /\ sock' = [sock EXCEPT ![s] = [phase |-> "upgrading", home |-> i, admin |-> FALSE]]
  /\ Submit(i, [op |-> "upgrade", at |-> "session", socket |-> s, admin |-> FALSE])
  /\ UNCHANGED <<dbVars, userSockets, subscribers, topics, running, loop, redisVars, up>>

\* onAborted: the client gives up before the upgrade is complete.
Abort(s) ==
  /\ sock[s].phase = "upgrading"
  /\ sock' = [sock EXCEPT ![s].phase = "aborted"]
  /\ UNCHANGED <<dbVars, userSockets, subscribers, topics, threadVars, redisVars, up, budget>>

Dequeue(i, w) ==
  /\ running[i][w] = Nobody
  /\ tasks[i] # <<>>
  /\ running' = [running EXCEPT ![i][w] = Head(tasks[i])]
  /\ tasks' = [tasks EXCEPT ![i] = Tail(@)]
  /\ UNCHANGED <<dbVars, hubVars, loop, redisVars, up, budget>>

\* Worker w of i executes a task of this kind.
Executes(i, w, op) == running[i][w].op = op

\* The task goes on to its next database call, has made its last one and
\* holds the closure it defers next, or ends.
Continue(i, w, task) ==
  /\ running' = [running EXCEPT ![i][w] = task]
  /\ UNCHANGED <<tasks, loop>>
FinishWith(i, w, closure) ==
  /\ running' = [running EXCEPT ![i][w] = [op |-> "defer", closure |-> closure]]
  /\ UNCHANGED <<tasks, loop>>
Finish(i, w) ==
  /\ running' = [running EXCEPT ![i][w] = Nobody]
  /\ UNCHANGED <<tasks, loop>>

\* loop_->defer, the last thing a task does.
DeferClosure(i, w) ==
  /\ Executes(i, w, "defer")
  /\ Defer(i, running[i][w].closure)
  /\ running' = [running EXCEPT ![i][w] = Nobody]
  /\ UNCHANGED <<dbVars, hubVars, tasks, redisVars, up, budget>>

ValidateSession(i, w) ==
  /\ Executes(i, w, "upgrade")
  /\ LET task == running[i][w] IN
       /\ task.at = "session"
       /\ IF UserOf[task.socket] \in banned
          THEN FinishWith(i, w, [do |-> "reject", socket |-> task.socket])
          ELSE Continue(i, w, [task EXCEPT !.at = "user"])
  /\ UNCHANGED <<dbVars, hubVars, redisVars, up, budget>>

FindUser(i, w) ==
  /\ Executes(i, w, "upgrade")
  /\ LET task == running[i][w] IN
       /\ task.at = "user"
       /\ Continue(i, w, [task EXCEPT !.at = "lockdown",
                                      !.admin = UserOf[task.socket] \in admins])
  /\ UNCHANGED <<dbVars, hubVars, redisVars, up, budget>>

CheckLockdown(i, w) ==
  /\ Executes(i, w, "upgrade")
  /\ LET task == running[i][w] IN
       /\ task.at = "lockdown"
       /\ FinishWith(i, w,
            IF lockedDown /\ ~task.admin
            THEN [do |-> "reject", socket |-> task.socket]
            ELSE [do |-> "upgrade", socket |-> task.socket, admin |-> task.admin])
  /\ UNCHANGED <<dbVars, hubVars, redisVars, up, budget>>

\* The head of the loop's queue, executed and removed.
Runs(i, kind) ==
  /\ loop[i] # <<>>
  /\ Head(loop[i]).do = kind
  /\ loop' = [loop EXCEPT ![i] = Tail(@)]

RunReject(i) ==
  /\ Runs(i, "reject")
  /\ sock[Head(loop[i]).socket].phase # "open"
  /\ sock' = [sock EXCEPT ![Head(loop[i]).socket] = Closed]
  /\ UNCHANGED <<dbVars, userSockets, subscribers, topics, tasks, running,
                 redisVars, up, budget>>

\* res->upgrade, which runs the open handler at once.
RunUpgrade(i) ==
  /\ Runs(i, "upgrade")
  /\ LET c == Head(loop[i])  s == c.socket  u == UserOf[s] IN
       \/ /\ sock[s].phase = "aborted"
          /\ sock' = [sock EXCEPT ![s] = Closed]
          /\ UNCHANGED <<userSockets, subscribers, topics, tasks>>
       \/ /\ sock[s].phase = "upgrading"
          /\ sock' = [sock EXCEPT ![s] = [phase |-> "open", home |-> i, admin |-> c.admin]]
          /\ userSockets' = [userSockets EXCEPT ![i][u] = @ \cup {s}]
          /\ Subscribe(i, {s}, {Presence, Personal(u)})
          /\ Submit(i, [op |-> "open", at |-> "online", user |-> u, rooms |-> {}])
  /\ UNCHANGED <<dbVars, running, redisVars, up, budget>>

-----------------------------------------------------------------------------
(* The rest of the open handler, and the close handler *)

SetOnline(i, w) ==
  /\ Executes(i, w, "open")
  /\ running[i][w].at = "online"
  /\ online' = online \cup {running[i][w].user}
  /\ Continue(i, w, [running[i][w] EXCEPT !.at = "rooms"])
  /\ UNCHANGED <<members, rooms, admins, banned, lockedDown, missed, hubVars, redisVars, up, budget>>

\* list_user_channels and list_user_spaces.
ListRooms(i, w) ==
  /\ Executes(i, w, "open")
  /\ LET task == running[i][w] IN
       /\ task.at = "rooms"
       /\ Continue(i, w, [task EXCEPT !.at = "role",
                            !.rooms = {r \in rooms : task.user \in members[r]}])
  /\ UNCHANGED <<dbVars, hubVars, redisVars, up, budget>>

\* An admin is subscribed to every room there is.
ListAllRooms(i, w) ==
  /\ Executes(i, w, "open")
  /\ LET task == running[i][w] IN
       /\ task.at = "role"
       /\ FinishWith(i, w,
            [do |-> "opened", user |-> task.user,
             rooms |-> IF task.user \in admins THEN rooms ELSE task.rooms])
  /\ UNCHANGED <<dbVars, hubVars, redisVars, up, budget>>

\* Mutant: the bare id of the room is taken for its topic.
RunOpenedBareIds(i) ==
  /\ Runs(i, "opened")
  /\ LET c == Head(loop[i]) IN
       /\ Subscribe(i, userSockets[i][c.user], c.rooms)
       /\ Publish(i, 1, <<>>)
  /\ UNCHANGED <<dbVars, userSockets, sock, tasks, running, up, budget>>

\* Every socket the user has on this instance by now is subscribed.
RunOpened(i) ==
  /\ Runs(i, "opened")
  /\ LET c == Head(loop[i]) IN
       /\ Subscribe(i, userSockets[i][c.user], {RoomTopic(r) : r \in c.rooms})
       /\ IF userSockets[i][c.user] = {}
          THEN UNCHANGED redisVars
          ELSE Publish(i, 1, <<>>)
  /\ UNCHANGED <<dbVars, userSockets, sock, tasks, running, up, budget>>

Disconnect(s) ==
  /\ sock[s].phase = "open"
  /\ Close(sock[s].home, {s})
  /\ UNCHANGED <<dbVars, running, loop, redisVars, up, budget>>

SetOffline(i, w) ==
  /\ Executes(i, w, "offline")
  /\ online' = online \ {running[i][w].user}
  /\ FinishWith(i, w, [do |-> "announce"])
  /\ UNCHANGED <<members, rooms, admins, banned, lockedDown, missed, hubVars, redisVars, up, budget>>

-----------------------------------------------------------------------------
(* The REST handlers that reach the hub *)

Request(i, kind, task) ==
  /\ up[i]
  /\ Spend(kind)
  /\ Submit(i, task)
  /\ UNCHANGED <<dbVars, hubVars, running, loop, redisVars, up>>

RequestAny(i) ==
  \/ \E u \in Users, r \in Rooms :
       \/ r \in rooms /\ \E op \in {"add", "remove"} :
            Request(i, "member", [op |-> op, user |-> u, room |-> r])
       \/ r \notin rooms /\ Request(i, "room", [op |-> "create", user |-> u, room |-> r])
  \/ \E u \in Users, op \in {"ban", "unban"} : Request(i, "ban", [op |-> op, user |-> u])
  \/ \E op \in {"lock", "unlock"} : Request(i, "lockdown", [op |-> op])
  \/ \E u \in Users, a \in BOOLEAN :
       Request(i, "role", [op |-> "role", user |-> u, admin |-> a])

AddMember(i, w) ==
  /\ Executes(i, w, "add")
  /\ LET u == running[i][w].user  r == running[i][w].room IN
       /\ members' = [members EXCEPT ![r] = @ \cup {u}]
       /\ FinishWith(i, w, [do |-> "apply", cmd |->
            Subscription(u, r)])
       /\ Record(i, u, r)
  /\ UNCHANGED <<rooms, admins, banned, lockedDown, online, hubVars, redisVars, up, budget>>

RemoveMember(i, w) ==
  /\ Executes(i, w, "remove")
  /\ LET u == running[i][w].user  r == running[i][w].room IN
       /\ members' = [members EXCEPT ![r] = @ \ {u}]
       /\ FinishWith(i, w, [do |-> "apply", cmd |->
            Withdrawal(u, r)])
  /\ UNCHANGED <<rooms, admins, banned, lockedDown, online, missed, hubVars, redisVars, up, budget>>

CreateRoom(i, w) ==
  /\ Executes(i, w, "create")
  /\ LET u == running[i][w].user  r == running[i][w].room IN
       IF r \in rooms
       THEN Finish(i, w) /\ UNCHANGED <<rooms, members, missed>>
       ELSE /\ rooms' = rooms \cup {r}
            /\ members' = [members EXCEPT ![r] = {u}]
            /\ FinishWith(i, w, [do |-> "created", user |-> u, room |-> r])
            /\ Record(i, u, r)
  /\ UNCHANGED <<admins, banned, lockedDown, online, hubVars, redisVars, up, budget>>

BanUser(i, w) ==
  /\ Executes(i, w, "ban")
  /\ LET u == running[i][w].user IN
       IF u \in banned
       THEN Finish(i, w) /\ UNCHANGED banned
       ELSE /\ banned' = banned \cup {u}
            /\ FinishWith(i, w, [do |-> "apply", cmd |->
                 [action |-> "disconnect_user", user |-> u]])
  /\ UNCHANGED <<members, rooms, admins, lockedDown, online, missed, hubVars, redisVars, up, budget>>

UnbanUser(i, w) ==
  /\ Executes(i, w, "unban")
  /\ banned' = banned \ {running[i][w].user}
  /\ FinishWith(i, w, [do |-> "announce"])
  /\ UNCHANGED <<members, rooms, admins, lockedDown, online, missed, hubVars, redisVars, up, budget>>

LockServer(i, w) ==
  /\ Executes(i, w, "lock")
  /\ lockedDown' = TRUE
  /\ FinishWith(i, w, [do |-> "apply", cmd |-> [action |-> "disconnect_non_admins"]])
  /\ UNCHANGED <<members, rooms, admins, banned, online, missed, hubVars, redisVars, up, budget>>

UnlockServer(i, w) ==
  /\ Executes(i, w, "unlock")
  /\ lockedDown' = FALSE
  /\ FinishWith(i, w, [do |-> "announce"])
  /\ UNCHANGED <<members, rooms, admins, banned, online, missed, hubVars, redisVars, up, budget>>

\* The sockets of the user keep the role they were opened with.
ChangeRole(i, w) ==
  /\ Executes(i, w, "role")
  /\ LET task == running[i][w] IN
       admins' = IF task.admin THEN admins \cup {task.user} ELSE admins \ {task.user}
  /\ FinishWith(i, w, [do |-> "announce"])
  /\ UNCHANGED <<members, rooms, banned, lockedDown, online, missed, hubVars, redisVars, up, budget>>

\* Mutant: only a ban is published.
RunApplyUnpublished(i) ==
  /\ Runs(i, "apply")
  /\ LET cmd == Head(loop[i]).cmd IN
       /\ Apply(i, cmd)
       /\ Publish(i, 1, IF cmd.action = "disconnect_user" THEN <<cmd>> ELSE <<>>)
  /\ UNCHANGED <<dbVars, running, up, budget>>

\* A command of this instance: applied here, then published.  A ban and a
\* lockdown are announced before they are enforced.
RunApply(i) ==
  /\ Runs(i, "apply")
  /\ LET cmd == Head(loop[i]).cmd IN
       /\ Apply(i, cmd)
       /\ Publish(i, IF cmd.action \in {"disconnect_user", "disconnect_non_admins"}
                     THEN 1 ELSE 0, <<cmd>>)
  /\ UNCHANGED <<dbVars, running, up, budget>>

RunAnnounce(i) ==
  /\ Runs(i, "announce")
  /\ Publish(i, 1, <<>>)
  /\ UNCHANGED <<dbVars, hubVars, tasks, running, up, budget>>

\* The creator is subscribed, then the admins.
RunCreated(i) ==
  /\ Runs(i, "created")
  /\ LET u == Head(loop[i]).user  topic == RoomTopic(Head(loop[i]).room) IN
       /\ Subscribe(i, userSockets[i][u] \cup AdminsAt(i), {topic})
       /\ Publish(i, 0, <<[action |-> "subscribe", user |-> u, topic |-> topic],
                          [action |-> "subscribe_admins", topic |-> topic]>>)
  /\ UNCHANGED <<dbVars, userSockets, sock, tasks, running, up, budget>>

-----------------------------------------------------------------------------
(* wiki_join and wiki_leave *)

RequestJoin(s, r) ==
  /\ sock[s].phase = "open"
  /\ Spend("wiki")
  /\ Submit(sock[s].home, [op |-> "wiki_join", user |-> UserOf[s], room |-> r])
  /\ UNCHANGED <<dbVars, hubVars, running, loop, redisVars, up>>

\* can_access_wiki_page.
CheckPageAccess(i, w) ==
  /\ Executes(i, w, "wiki_join")
  /\ LET task == running[i][w] IN
       FinishWith(i, w, [do |-> "joined", user |-> task.user, room |-> task.room,
                         allowed |-> task.user \in members[task.room] \cup admins])
  /\ UNCHANGED <<dbVars, hubVars, redisVars, up, budget>>

RunJoined(i) ==
  /\ Runs(i, "joined")
  /\ LET c == Head(loop[i]) IN
       \/ /\ c.allowed
          /\ Subscribe(i, userSockets[i][c.user], {WikiTopic(c.room)})
          /\ UNCHANGED redisVars
       \/ /\ ~c.allowed
          /\ Publish(i, 1, <<>>)
          /\ UNCHANGED <<subscribers, topics>>
  /\ UNCHANGED <<dbVars, userSockets, sock, tasks, running, up, budget>>

LeavePage(s, r) ==
  /\ sock[s].phase = "open"
  /\ WikiTopic(r) \in topics[s]
  /\ Unsubscribe(sock[s].home, {s}, WikiTopic(r))
  /\ UNCHANGED <<dbVars, userSockets, sock, threadVars, redisVars, up, budget>>

-----------------------------------------------------------------------------
(* Redis *)

\* Mutant: only its own instance's echoes are handled.
ReceiveEchoes(i) ==
  /\ wire[i] # <<>>
  /\ wire' = [wire EXCEPT ![i] = Tail(@)]
  /\ IF Head(wire[i]).from = i
     THEN Defer(i, [do |-> "control", cmd |-> Head(wire[i]).cmd])
     ELSE UNCHANGED loop
  /\ UNCHANGED <<dbVars, hubVars, tasks, running, redisUp, link, listening, up, budget>>

\* The subscriber thread: its own instance's echoes are dropped.
Receive(i) ==
  /\ wire[i] # <<>>
  /\ wire' = [wire EXCEPT ![i] = Tail(@)]
  /\ IF Head(wire[i]).from = i
     THEN UNCHANGED loop
     ELSE Defer(i, [do |-> "control", cmd |-> Head(wire[i]).cmd])
  /\ UNCHANGED <<dbVars, hubVars, tasks, running, redisUp, link, listening, up, budget>>

RunControl(i) ==
  /\ Runs(i, "control")
  /\ Apply(i, Head(loop[i]).cmd)
  /\ UNCHANGED <<dbVars, running, redisVars, up, budget>>

\* Redis goes away: what a subscriber has not read yet may be lost.
RedisFails ==
  /\ redisUp
  /\ Spend("redis")
  /\ redisUp' = FALSE
  /\ listening' = [i \in Instances |-> FALSE]
  /\ \E lost \in SUBSET Instances :
       /\ wire' = [i \in Instances |-> IF i \in lost THEN <<>> ELSE wire[i]]
       /\ missed' = missed \cup {p \in Users \X Rooms :
            \/ \E i \in Instances : Unpublished(i, p[1], p[2])
            \/ \E i \in lost : Pushed(i, p[1], p[2])}
  /\ link' = [i \in Instances |-> IF link[i] = "live" THEN "stale" ELSE link[i]]
  /\ UNCHANGED <<members, rooms, admins, banned, lockedDown, online, hubVars, threadVars, up>>

RedisRecovers ==
  /\ ~redisUp
  /\ redisUp' = TRUE
  /\ UNCHANGED <<dbVars, hubVars, threadVars, link, listening, wire, up, budget>>

SubscriberReconnects(i) ==
  /\ redisUp /\ up[i] /\ ~listening[i] /\ wire[i] = <<>>
  /\ listening' = [listening EXCEPT ![i] = TRUE]
  /\ UNCHANGED <<dbVars, hubVars, threadVars, redisUp, link, wire, up, budget>>

-----------------------------------------------------------------------------
(* Crash and restart of an instance *)

Crash(i) ==
  /\ up[i]
  /\ Spend("crash")
  /\ up' = [up EXCEPT ![i] = FALSE]
  /\ userSockets' = [userSockets EXCEPT ![i] = [u \in Users |-> {}]]
  /\ subscribers' = [subscribers EXCEPT ![i] = [t \in Topics |-> {}]]
  /\ topics' = [s \in Sockets |-> IF sock[s].home = i THEN {} ELSE topics[s]]
  /\ sock' = [s \in Sockets |-> IF sock[s].home = i THEN Closed ELSE sock[s]]
  /\ tasks' = [tasks EXCEPT ![i] = <<>>]
  /\ running' = [running EXCEPT ![i] = [w \in Workers |-> Nobody]]
  /\ loop' = [loop EXCEPT ![i] = <<>>]
  /\ link' = [link EXCEPT ![i] = "none"]
  /\ listening' = [listening EXCEPT ![i] = FALSE]
  /\ wire' = [wire EXCEPT ![i] = <<>>]
  /\ missed' = missed \cup {p \in Users \X Rooms : Unpublished(i, p[1], p[2])}
  /\ UNCHANGED <<members, rooms, admins, banned, lockedDown, online, redisUp>>

\* main(): set_all_users_offline before anything is served.
Boot(i) ==
  /\ ~up[i]
  /\ up' = [up EXCEPT ![i] = TRUE]
  /\ online' = {}
  /\ UNCHANGED <<members, rooms, admins, banned, lockedDown, missed, hubVars, threadVars,
                 redisVars, budget>>

-----------------------------------------------------------------------------
WorkerStep(i, w) ==
  \/ Dequeue(i, w) \/ ValidateSession(i, w) \/ FindUser(i, w) \/ CheckLockdown(i, w)
  \/ SetOnline(i, w) \/ ListRooms(i, w) \/ ListAllRooms(i, w) \/ SetOffline(i, w)
  \/ AddMember(i, w) \/ RemoveMember(i, w) \/ CreateRoom(i, w)
  \/ BanUser(i, w) \/ UnbanUser(i, w) \/ LockServer(i, w) \/ UnlockServer(i, w)
  \/ ChangeRole(i, w) \/ CheckPageAccess(i, w) \/ DeferClosure(i, w)

LoopStep(i) ==
  \/ RunReject(i) \/ RunUpgrade(i) \/ RunOpened(i) \/ RunApply(i) \/ RunCreated(i)
  \/ RunJoined(i) \/ RunControl(i) \/ RunAnnounce(i)

ClientStep ==
  \E s \in Sockets :
    \/ \E i \in Instances : Connect(i, s)
    \/ Abort(s) \/ Disconnect(s)
    \/ \E r \in WikiRooms : RequestJoin(s, r) \/ LeavePage(s, r)

Next ==
  \/ ClientStep
  \/ RedisFails \/ RedisRecovers
  \/ \E i \in Instances :
       \/ \E w \in Workers : WorkerStep(i, w)
       \/ LoopStep(i)
       \/ RequestAny(i)
       \/ Receive(i) \/ SubscriberReconnects(i)
       \/ Crash(i) \/ Boot(i)

Spec == Init /\ [][Next]_vars

(***************************************************************************)
(* The threads of an instance run: each worker, the loop, the subscriber.  *)
(* Clients, administrators, Redis and crashes are free.                    *)
(***************************************************************************)
FairSpec ==
  /\ Spec
  /\ \A i \in Instances :
       /\ WF_vars(LoopStep(i))
       /\ WF_vars(Receive(i))
       /\ WF_vars(SubscriberReconnects(i))
       /\ \A w \in Workers : WF_vars(WorkerStep(i, w))

-----------------------------------------------------------------------------
(* What must hold *)

DbTypes ==
  /\ members \in [Rooms -> SUBSET Users]
  /\ rooms \subseteq Rooms
  /\ admins \subseteq Users /\ banned \subseteq Users /\ online \subseteq Users
  /\ lockedDown \in BOOLEAN
  /\ missed \subseteq Users \X Rooms
HubTypes ==
  /\ userSockets \in [Instances -> [Users -> SUBSET Sockets]]
  /\ subscribers \in [Instances -> [Topics -> SUBSET Sockets]]
  /\ sock \in [Sockets -> SocketStates]
  /\ topics \in [Sockets -> SUBSET Topics]
ThreadTypes ==
  /\ tasks \in [Instances -> Seq(Tasks)]
  /\ running \in [Instances -> [Workers -> Tasks \cup {Nobody}]]
  /\ loop \in [Instances -> Seq(Closures)]
RedisTypes ==
  /\ redisUp \in BOOLEAN
  /\ link \in [Instances -> {"none", "live", "stale"}]
  /\ listening \in [Instances -> BOOLEAN]
  /\ wire \in [Instances -> Seq(Messages)]
TypeOK ==
  /\ DbTypes /\ HubTypes /\ ThreadTypes /\ RedisTypes
  /\ up \in [Instances -> BOOLEAN]
  /\ budget \in [Kinds -> Nat]

OpenAt(i) == {s \in Sockets : sock[s].phase = "open" /\ sock[s].home = i}

(***************************************************************************)
(* "Otherwise topic_subscribers_ holds dangling pointers and the next      *)
(* broadcast UAFs": the subscribers of a topic are exactly the open        *)
(* sockets of the instance that remember the topic, so that the close      *)
(* handler, which goes by what a socket remembers, leaves nothing behind.  *)
(***************************************************************************)
IndexAgrees ==
  \A i \in Instances, t \in Topics :
    subscribers[i][t] = {s \in OpenAt(i) : t \in topics[s]}

(***************************************************************************)
(* user_sockets_ holds exactly the open sockets of the instance, each      *)
(* under its own user, so that disconnect and subscribe miss none and      *)
(* touch no closed one.                                                    *)
(***************************************************************************)
RegistryAgrees ==
  \A i \in Instances, u \in Users :
    userSockets[i][u] = {s \in OpenAt(i) : UserOf[s] = u}

(***************************************************************************)
(* send_to_user and broadcast_to_presence reach every open socket: nothing *)
(* ever takes the presence topic or its user's own topic away from it.     *)
(***************************************************************************)
PersonallyReachable ==
  \A s \in Sockets :
    sock[s].phase = "open" => {Presence, Personal(UserOf[s])} \subseteq topics[s]

(* Nothing is in flight: the instances are up and all their queues empty.  *)
Quiet ==
  \A i \in Instances :
    /\ up[i] /\ listening[i]
    /\ tasks[i] = <<>> /\ loop[i] = <<>> /\ wire[i] = <<>>
    /\ \A w \in Workers : running[i][w] = Nobody

Open == {s \in Sockets : sock[s].phase = "open"}

(***************************************************************************)
(* A member hears its rooms: once nothing is in flight, every open socket  *)
(* is subscribed to each room of its user, whether the membership or the   *)
(* connection came first and whichever instances they came through.        *)
(* Excepted are the memberships made while the withdrawal of an earlier    *)
(* one was still in flight, which may overtake them, and those whose       *)
(* command met an outage of Redis, a subscriber that was not listening or  *)
(* a crash, since nothing is sent twice.                                   *)
(***************************************************************************)
NoMissedSubscription ==
  Quiet => \A s \in Open, r \in rooms :
             UserOf[s] \in members[r] /\ <<UserOf[s], r>> \notin missed
               => RoomTopic(r) \in topics[s]

(***************************************************************************)
(* Goal A of tests/api/test_ws_membership.py: who was removed from a room  *)
(* is unsubscribed from it.                                                *)
(***************************************************************************)
RemovedMemberUnsubscribed ==
  Quiet => \A s \in Open, r \in rooms :
             RoomTopic(r) \in topics[s] => UserOf[s] \in members[r] \cup admins

(***************************************************************************)
(* "Disconnect the user wherever their socket lives (e.g. on ban)": once   *)
(* nothing is in flight, a banned user has no open socket.                 *)
(***************************************************************************)
BannedUserDisconnected == Quiet => \A s \in Open : UserOf[s] \notin banned

(***************************************************************************)
(* A ban reaches every instance: once the closure that disconnects a user  *)
(* is deferred somewhere, each instance is at some point rid of the user's *)
(* sockets, whatever else is in the queues.                                *)
(***************************************************************************)
BanReachesEveryInstance ==
  \A u \in Users :
    LET cmd == [action |-> "disconnect_user", user |-> u] IN
    \A i, j \in Instances :
      (\E k \in DOMAIN loop[i] : loop[i][k] = [do |-> "apply", cmd |-> cmd])
        ~> userSockets[j][u] = {}

(***************************************************************************)
(* A lockdown reaches every instance: once the closure that disconnects    *)
(* the non-admins is deferred somewhere, each instance is at some point    *)
(* left with sockets that carry an admin's role only.                      *)
(***************************************************************************)
LockdownReachesEveryInstance ==
  \A i, j \in Instances :
    (\E k \in DOMAIN loop[i] :
       loop[i][k] = [do |-> "apply", cmd |-> [action |-> "disconnect_non_admins"]])
      ~> Registered(j) = AdminsAt(j)
=============================================================================
