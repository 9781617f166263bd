# EnclaveStation verification project

EnclaveStation is a self-hosted chat and collaboration server: a C++ backend (`backend/src`, uWebSockets and
libpqxx), PostgreSQL, optionally Redis to join several backend instances, and a React client. This directory holds
TLA+ modules translated from the backend's source, the TLC instances that check them, and the TLAPS proofs about
them. Source paths below are relative to `backend/src` unless they start with a top-level directory.

Contents: [system](#the-system) · [inventory](#inventory) · [modules](#modules) · [runs](#runs-and-bounds) ·
[fairness](#fairness) · [proofs](#proofs) · [findings](#findings) · [not modelled](#not-modelled) · [plan](#plan)

## The system

**Threads.** An instance has one *event loop* thread (also the main thread), `DB_THREAD_POOL_SIZE` *workers*
(`db/db_thread_pool.cpp`), `DB_POOL_SIZE` connections that the workers share (`db/connection_pool.cpp`) and, when
`REDIS_URL` is set, one *subscriber* thread (`redis/redis_subscriber.cpp`). The loop owns every socket, topic and
subscription, which are never touched by another thread.

**A request.** Nearly every REST and WebSocket handler has the same three parts:

1. on the loop, the request is parsed and a task is submitted to the workers;
2. on a worker, `validate_session`, the checks and the writes are executed one after the other. *Each `Database`
   method is a transaction of its own*, so between two calls of one task anything may happen;
3. the effects on sockets (fan-out, subscriptions, the response) are handed back with `loop->defer`, a first-in
   first-out queue.

Two tasks of one user, or of one socket, are not ordered: whichever worker is free takes the next one. Nearly all
the difficulty of this program comes from there, and from what one instance knows of the others.

**Instances.** Broadcasts and control commands (subscribe a user, disconnect a user, ...) are applied locally and
published on one Redis channel; the other instances apply what they receive, on their loop. There is no
acknowledgement, no replay and no backfill (`docs/ops/redis-pubsub.md`): what is published while Redis is down, or
while a subscriber reconnects, is lost.

## Inventory

| component | state it keeps | operations | hard behaviour | what makes it correct |
|---|---|---|---|---|
| Connection pool (`db/connection_pool.cpp`) | queue of idle connections, mutex, condition variable | acquire with deadline, release, health check, reconnection | lost wake-ups, deadlines that race notifications, a database that fails between two steps, slots lost on failed repair | never more than `pool_size_` connections; no caller sleeps beside an idle one; acquire returns |
| Worker pool (`db/db_thread_pool.cpp`) and shutdown (`main.cpp`) | task queue, `stopped_`, threads | submit, worker loop, destructor; signal, `close_all` | `stopped_` stored outside the mutex, exceptions of tasks, tasks that outlive what they captured | each task runs exactly once, the destructor drains, every request is answered |
| WebSocket hub (`ws/ws_handler.cpp`) | `user_sockets_`, `topic_subscribers_`, the topics each socket remembers | upgrade, open, close, subscribe, unsubscribe, disconnect, join and leave a wiki page, control commands of other instances | a membership read by a task and applied after a later change; closes between the steps of a connection; Redis outages; crashes | index and sockets agree; a member is subscribed; a ban reaches every instance |
| Messages (`ws/ws_handler.cpp`, `handlers/file_handler.cpp`) | messages, reactions, mentions, notifications, read points, blobs | send, edit, delete, react, mark read, complete an upload | edits beside deletions, receipts out of order, clients that disconnect, the Redis echo | exactly-once delivery, no change to a deleted message, read points that only advance, blobs and rows that match |
| Channels, conversations, spaces, invites (`handlers/channel_handler.cpp`, `handlers/space_handler.cpp`) | members and roles at three levels, settings, archival, invites | join, add, kick, leave, roles, archive, invite, accept, default channels | check-then-act on counts, creation beside entry, accept beside decline | a last admin remains; nobody misses a default channel; conversations archive themselves |
| Redis bus (`redis/`) | connection, envelope with the id of the sender | publish, receive, reconnect with back-off | loss, self-echo | nothing is handled twice; what is not lost arrives |
| Authentication and sessions (`handlers/auth_handler.cpp`, `auth/`) | challenges, sessions, devices, MFA tokens, invites, join requests, recovery tokens | register, log in, second factor, pair a device, recover | one-time tokens redeemed twice, expiry, steps of a login out of order | a token is used once; no session without every factor |
| Administration (`handlers/admin_handler.cpp`) | settings, ranks, bans | change rank, ban, lock down, archive, approve requests | the last-owner count, effects on open sockets | an owner remains; a decision takes effect everywhere |
| Uploads and storage (`upload_manager.cpp`, `handlers/file_handler.cpp`, `storage/`) | upload sessions, chunk files, multi-part uploads of S3 | init, chunk, complete, abort, expiry | retries, duplicate completion, crash between blob and row | an assembled file holds every chunk once; blobs and rows match |
| Space files (`handlers/space_file_handler.cpp`) | folder tree, versions, permissions, quota | upload, move, restore, delete, share | moves that make cycles, names that collide, the quota under concurrency | a tree; current version is the last; inherited permission |
| Task boards, wiki, calendar (`handlers/task_board_handler.cpp`, `wiki_handler.cpp`, `calendar_handler.cpp`, `recurrence.cpp`) | columns and tasks with positions, page tree with versions, events with exceptions | move, reorder, depend, restore, expand | columns deleted and tasks edited at once, saves over unread texts, recurrence at month ends | a task is where its activity says; no page or text is lost; the expansion equals its definition |
| Users (`handlers/user_handler.cpp`) | profile, avatar, keys, settings | update, delete | deletion of a last owner | an owner remains |
| Notifications, search, AI assistant, metrics, configuration | rows, nothing, a conversation, counters | single statements, queries, calls of the other operations | — | — |
| Rate limiter (`rate_limit.h`) | token buckets, a window in Redis | allow | eviction at the limit, clock steps | never more than the burst |
| Browser client (`frontend/src`) | store of channels and messages, a socket with heartbeat | connect, reconnect, reduce frames | a fetch that overwrites frames received meanwhile | the store converges |

`PROJECT.json` lists the hazards of the modelled parts one by one, each at its line, with the properties that
would catch it or the reason why none does.

## Modules

```
ConnectionPool <- ConnectionPoolProofs     ThreadPool <- ThreadPoolProofs     WsHub <- WsHubProofs
       ^                                        ^                               ^
MCConnectionPool                          MCThreadPool                       MCWsHub

MessageFeed <- (refines) - Messages <- MCMessages
                               ^
                         MessagesProofs

MembershipProofs -> Membership <- MCMembership <-----------+
                       MCActors <- MCMembership            |
                       MCActors <- MCCalendar              |
                       Calendar <- MCCalendar <------------+
                                                           |
Requests <- Registration, Credentials <- AccountsProofs    |
         <- SpaceFiles, WikiTree, Boards,                  |
            Calendar -> Recurrence <------ SpacesProofs    |
         <-------- Registration, ..., Boards <------------ MCHandlers

Requests <- RequestsProofs <- AccountsProofs, SpacesProofs

<-  is extended by
```

**ConnectionPool.** `connections` is `connections_`; `pc` says in which critical section or unlocked stretch of
`acquire` and `release` a thread is; `held` is the connection a guard owns. The mutex is held for the whole of
each critical section, so a section is one action; the health check, the reconnection and the replacement, which
run outside, are others. Notifications and deadlines wake a thread without giving it the mutex (`Wake`,
`Deadline`), and it evaluates the predicate again when it runs. The database breaks idle connections at any moment.

**ThreadPool.** The queue, `stopped_` and the condition variable of `DbThreadPool`, with the submitters that
matter: a request, the offline task of a socket that closes, and the shutdown. `submit` is two actions (push under
the lock, notify after it), the wait is two (`Decide` evaluates the predicate, `Block` sleeps) so that a
notification can fall between them, wake-ups may be spurious. `StoreStopped` and `NotifyAll` run without the mutex,
as in the code. `main.cpp` is followed from the signal through `close_all` to the destruction of the handlers and
of the pool, in reverse order of declaration.

**WsHub.** Per instance: sockets by phase, the two indexes and what each socket remembers, the task queue with its
workers, the loop's queue, the link to Redis and what it has pushed. A task proceeds by one database call per step.
Each of `subscribe_user_to_channel`, `unsubscribe...`, `disconnect_user`, `disconnect_non_admins` and
`subscribe_admins_to_channel` is a command that is applied here and, through Redis, elsewhere. The upgrade is split
where the code is: session check and ban check on the worker, the upgrade itself on the loop, `open` with its task
that reads memberships, and its closure that subscribes. A page that a user may not see is answered by a frame to that
user, which is published like any other. Requests of other handlers that end in such a command (adding a member,
banning, changing a rank, creating a room, locking down) are their writes and the closure. The history variable
`missed` names the memberships some instance may not hear of: made while Redis, a connection to it or a subscriber was
down, met by a crash or an outage before they were received, or made while the withdrawal of an earlier membership of
the same user was still on its way.

**Messages** follows each WebSocket operation on the messages of a channel, and the completion of an upload,
through its database calls in order: the server's and the channel's archival, the role, the insertion, the three
notification loops of `handle_send_message`, the ownership and rank checks of a deletion, the blob. A session may be
completed by several requests (`SessionOf`): each draws a file of its own, one of them finds the chunks (`Assemble`), and
the others are refused (`MissUpload`). A message is
its author, the tokens after its `@` signs, what it replies to and its file; text is reduced to sent, edited or
cleared. **MessageFeed** is its abstract specification: PostgreSQL orders the changes, each of which is legal when
it commits, and a tab is sent each change at most once and never early. `Messages!ImplementsFeed` is the refinement.
`MaxChanges` and `MaxNotes`, guards of `Log` and `Notify`, bound the two histories; no scenario of `messages` reaches
either where it would stop a request.

**Membership** holds the rows (space, members, channels, members of channels, invites) and, per worker, the request
it serves and what it does next. Every write is a step, and every read that decides a later one by counting or
listing (`count_*`, `get_default_join_channels`, `get_space_members_with_roles`, `list_user_channels`); the reads a
handler begins with are one step, the *check*, because every property here is about what happens after it. The
sockets, which WsHub has, are left out. Default roles are checked where the code does (`DefaultRole`: a new standalone
channel's is corrected, a changed one's or a space channel's is stored as it comes).

**Requests** is what the modules of the other REST handlers share: a worker takes a request, remembers where it is
in the handler and what it has read, and answers. Each module has an action per transaction that writes, per read
that follows a write and per read whose result a later write trusts; the reads a handler begins with are one step,
the *check*. A handler's check is an action named after it (`CheckRegisterVerify`, `CheckMove`, `CheckUploadInit`,
...), and its writes are actions named after what the database layer calls them (`CreateFolder`, `DeleteLabel`). As in
the code, the same write is shared by the handlers that call it (`CreateUser`, `CreateSession`, `InsertVersion`).
Rows are numbered and keep their number when they are deleted (`here`, `live`). `job[w]` is the request a worker
serves with its place in the handler (`at`) and what it has read (`saw`); `calls` is what may still be asked.

- **Registration**: challenges, accounts with role and credentials, invites, join requests, the registration mode.
  All three kinds of registration, the two steps of a request to join, approval with its four writes, denial, server
  roles, deletion of the own account. A name that is free again may be taken again, so an account has an id of its own
  (`UserId`, `Is`), as rows of `users` do. `made`, `departed` and `opened` are history.
- **Credentials**: what logs a user in (keys, password with its history, second factor), everything that is used once
  (`tokens`, named after what they are for), sessions, bans and the lockdown with its end. Each login, with a passkey
  or with the key of a browser, is followed from its challenge to its session, past the second factor or the demand to
  set one up. Counting keys and removing one are two steps even where they are one transaction, since PostgreSQL's
  default isolation lets another request in between. A TOTP code is the step of a clock; `clock`, `bans`, `served` and
  `code` are there for the properties.
- **SpaceFiles**: the rows of files and folders, their versions, grants, upload sessions with their parts, and the
  blobs of the storage, which nothing ties to the rows. `Ends` and `OnCycle` say where the recursive queries of
  `database.cpp` would not end. Names are looked up in one step and written in another, which the unique index on the
  names of a folder may refuse. A chunked upload makes a file or a new version of one, and the next `init` removes the
  sessions that have expired, which may be any. `spilled` are the blobs of refused rows, `again` counts reverts.
- **Boards**: boards, columns, tasks with everything that hangs on them, the activity log. Deleting cascades, as the
  schema has it. An edit exchanges assignees and then labels, if it names any: those it does not name go first, the
  new ones come one by one. A label of another board is not refused, so no property says that it is. `halted` are the
  tasks of a request that stopped at an assignee or label that is not there.
- **WikiTree**: pages, slugs, versions and grants; `replaced` is what saves and reverts have overwritten, `astray`
  the pages put under a page that had been deleted.
- **Calendar** with **Recurrence**: events, exceptions, answers, grants, and what a range of days shows of an event.
  `Expand` is `expand_rrule` with its order of tests and of the days of a week; `Occurrences`, its reference, says of
  each day on its own whether the rule means it, from the period the day lies in (`PeriodCounts`) and from what the
  rule names of it (`DayCounts`), and shares no filter with `Expand`. `TimesOf` is where an occurrence is shown: on its
  day, or, as soon as it has an exception, at the times of the exception and, where that has none, of the event itself.
  Dates are days since 1 January 2028, with the lengths of months and leap years.
  `AgendaShowsOccurrences` compares days and times. For the rules that one day of a period can satisfy
  (`OneDayAPeriod`) exactly the days that are meant are listed, or, where the days of a week are named out of its
  order, all but days of the last week; for other rules, none that is not meant. Its comment lists what it excepts.

**MCHandlers** extends MCMembership, MCCalendar and the modules of the other components. MCActors has the people and
workers they share. `active` chooses one of them in the initial
state and the variables of the others do not change, so the state space is the sum of theirs and one run asks for all.

## Runs and bounds

| run | question | bounds | distinct states |
|---|---|---|---|
| `pool` | Is a connection ever duplicated, a wake-up lost, a caller left waiting? | 3 threads, 2 connections, PostgreSQL up and down at will | 4.8 k |
| `pool_repair` (violation) | Does a later release repair a pool that is one short? | 2 threads, 2 connections | |
| `workers` | Does every task run once, through exceptions, spurious wake-ups and shutdown? | 2 workers, 1 request, 2 sockets | 168 k |
| `workers_hang` (violation) | Is every request answered? | 2 workers, 2 requests, 1 socket | |
| `workers_shutdown` (violation) | Do handlers outlive the tasks that captured them? | 2 workers, 1 request, 2 sockets | |
| `hub` | Do the indexes agree with the sockets, and does every member hear its rooms? | 2 instances of 2 workers, 2 tabs of a user, 2 rooms (one a wiki page), eight scenarios | 1.67 M |
| `hub_reach` | Does a ban, or a lockdown, reach every instance? | 2 instances of a worker, a tab, no outage | 62 k |
| `hub_remove`, `hub_ban` (violation) | Can a connecting tab miss a removal, or a ban? | 1 instance of 2 workers, a tab | |
| `messages` | Is each change delivered once, is what is derived from messages right? | 2 instances of 2 workers, 3 users with a tab each, ten scenarios, `MaxChanges` 4, `MaxNotes` 8 | 670 k |
| `messages_upload` (violation) | Is the message of an upload shown? | as `messages` | |
| `handlers` | Membership, registration, credentials, files, boards, wiki and calendar: is what each promises kept by its requests, in turn and two at once? | 2 workers; per component three or so people, two or three rows of each kind, and two to eight scenarios of 1 to 6 requests (listed in MCHandlers, MCMembership and MCCalendar) | 1.03 M |

Every run bounds *how much is asked*, by a budget of events that its actions spend (`budget`, `asked.budget`,
`calls.budget`), and a behaviour ends when the budget is spent and the queues are empty: that is why these runs do not
check for deadlock; `pool` and the three runs of `ThreadPool` do. The scenarios exist because the product of all
budgets is out of reach while the hazards are about two or three events at a time: each scenario brings together the
events that can disturb one another.

- *Hub*: a hazard needs one event that reads (a connection) and one that writes (a membership, a rank, a ban), on
  one instance or on two. Two tabs show what happens to the other tab of a user; a third instance would behave like
  the second. `Join` has two tabs beside one change, `Create` a room, `Outage` a ban beside a Redis failure and a
  crash, `Rules` lockdowns and ranks, `Page` a wiki page, `Remade` two creations at once, `Rejoin` a membership that
  ends and is made again, `Lapse` one that meets an outage and a crash.
- *Messages*: the author, an admin and an owner who is no member are the three ranks the checks tell apart. Bob is
  on the other instance. Each scenario has at most three events of each kind, enough for an edit between the two
  halves of a deletion, a second deletion, or two receipts that cross. One session has two requests that complete it.
- *Membership*: three users are the smallest number in which somebody is left with somebody else, or alone; two
  requests at once suffice for each race the code has, which is between two requests. `Alone` serves one request at
  a time for `AdminRemains`, in sequences of six.
- *Handlers*: a race is between two requests, so a scenario either serves two at once, or one after the other with a
  larger budget for the sequences. `Founding`, `Invited` and `Joining` overlap registrations and decisions,
  `Departing` orders roles and departures, `Overspent` has a challenge redeemed again and again beside other users of
  an invite, `Returning` a name that is given up and taken again; `LoggingIn` sets a second factor beside a ban,
  `Enrolling`, `Recovering`, `Linking` each a kind of token, `Keeping` removes keys and passwords; `Storing`,
  `InChunks`, `Versioned` and `Moving` are the four hazards of files; `Arranging` moves tasks, `Furnishing` and
  `Fitting` cover the rest of a board; `Drafting` is about texts, `Growing` about the tree of pages; `Recurring` has
  every frequency with interval, COUNT, UNTIL, months, days of the week in and out of order and of the month, from a
  Saturday, a Wednesday and the 31st, each with an exception that takes away, moves or does neither, shown in ranges
  before, around and after the start (up to 70 days, 400 for yearly rules). `SpaceLimit` and `MaxOccurrences` (the
  code's 1000, here 9 so that it is reached) are small.
- *Pools*: two workers and three threads, since a lost wake-up needs a sleeper, a notifier and somebody who takes
  what the notification was about. The proofs lift the bound.

Workers, instances and tabs that are interchangeable are declared symmetric in the safety runs, never in a run
with a temporal property.

What the properties say is written above each definition. The invariants on types aside, they are: `NoExtraConnection`,
`NoLostWakeup`, `AcquireReturns` (ConnectionPool); `RunsOnce`, `SleepersNotNeeded`, `Drained`, `EveryTaskRuns`
(ThreadPool); `IndexAgrees`, `RegistryAgrees`, `PersonallyReachable`, `NoMissedSubscription`,
`BanReachesEveryInstance`, `LockdownReachesEveryInstance` (WsHub); `SentIsDelivered`, `ConcernedAreNotified`,
`BlobsMatchMessages`, `ImplementsFeed`, `ReadPointAdvances` (Messages); `LeftAloneArchived`,
`NoMissedDefaultChannel`, `AdminRemains`, `DirectMembersWrite` (Membership); `InvitesHold`, `OwnerRemains`,
`AccountsComplete` (Registration); `ServedOnce`, `KeepsALogin`, `BanEndsSessions` (Credentials); `BlobsMatchFiles`,
`FoldersAreATree`, `LimitHolds` (SpaceFiles); `TasksWhereLogged` (Boards); `PagesAndTextsKept` (WikiTree);
`AgendaShowsOccurrences` (Calendar). MCHandlers joins the type invariants of the six components beside Membership in
`Types`.

Several of these say in their comment what they allow. Where the code looks in one transaction and writes in another
without looking again, the strong statement holds of requests served in turn (`OneAtATime`), and what is left of it
when requests overlap is stated of all: an invite is overrun by no more than the registrations that overlap, and those
more that a passkey challenge, once redeemed, lets in at a time; a token serves no more than overlap, a row never lies
under one that has gone, version numbers have no gap. Since nothing is sent twice, `NoMissedSubscription` excepts the
memberships in `missed`. The model reaches the states these exceptions are about. For each, a mutant of the module, a
plausible bug defined next to the operator it replaces, makes TLC find it violated.

## Fairness

Fairness is asked of what the operating system or the event loop schedules, and of nothing else: never of clients,
administrators, PostgreSQL, Redis or spurious wake-ups.

- `ConnectionPool!FairSpec`: weak fairness of each thread's steps and of its deadline (time passes).
  `BusySpec` adds that threads keep calling, the hypothesis of the comment that `FutureReleaseRepairs` states.
- `ThreadPool!FairSpec`: weak fairness of each worker, and of the loop thread between the push and the notification
  of a submit and in the destructor. A worker blocked on the condition variable is not enabled until it is woken.
- `WsHub!FairSpec`: weak fairness of each worker, each loop, each subscriber's reception and reconnection. The loop
  is fair because a deferred closure is never removed except by running it.

## Proofs

The proof modules prove, for every value of the constants that the named assumptions allow:

| module | theorems |
|---|---|
| `ConnectionPoolProofs` | `PoolTypes`, `PoolNoLostWakeup`, `PoolNoExtra` |
| `ThreadPoolProofs` | `WorkersTypes`, `WorkersRunOnce`, `WorkersDrain`, `WorkersNoLostWakeup` |
| `WsHubProofs` | `HubTypesCorrect`, `HubAgreement`, `HubIndex`, `HubRegistry`, `HubReachable`, `HubSubscriptions` |
| `MessagesProofs` | `TypesHold`, `FeedImplemented`, `DeliveriesHold`, `NotificationsHold`, `AttachmentsHold`, `ReadPointsAdvance` |
| `MembershipProofs` | `MembershipTypes`, `ConversationsStayEqual`, `LeavingArchives`, `DefaultChannelsReach`, `AdminsRemain` |
| `RequestsProofs` | lemmas about the pool of Requests, for the two that follow |
| `AccountsProofs` | of Registration: `RegistrationTyped`, `InvitesAlwaysHold`, `OwnerAlwaysRemains`, `AccountsAlwaysComplete`; of Credentials: `CredentialsTyped`, `EachServesOnce`, `LoginsKept`, `BansEndSessions` |
| `SpacesProofs` | of SpaceFiles: `FilesTyped`, `BlobsAlwaysMatchFiles`, `LimitAlwaysHolds`, `FoldersAlwaysATree`; of WikiTree: `PagesTyped`, `PagesAndTextsAlwaysKept`; of Boards: `BoardRowsTyped`, `TasksAlwaysWhereLogged`; of Calendar: `CalendarTyped` |

**Assumptions.** Besides that sets of people, workers and keys are finite, where something is counted, and that limits
are natural numbers, they say what tables a scenario starts from: rows refer to rows that exist, numbers of versions
and tokens start where the code starts them (`CredentialAssumption`, `FileAssumption`, `RegistrationAssumption`,
`MembershipAssumption`, `WikiAssumption`, `BoardAssumption`: a task starts in a column of its board;
`CalendarAssumption`). `MessagesAssumption` is about types only: its channel starts empty. Four clauses of the others
are not about types, and each is what the handlers have seen to before: everybody has a way to log in, because an
account is only made with one; if there are accounts, one is an owner's, because the first one is, and there are no
invites before there are accounts; a standalone channel in use has an admin where requests come in turn, because its
creator is one; the members of a space are in its default-join channels, because who enters and who creates sees to it
(`StartAssumption`). Which requests are made, by whom, in which order and how many at once is left open everywhere.

**What an invariant needs.** The handlers decide in one transaction and write in a later one, so hardly any property
is inductive: it must be joined with *what every worker in progress will still do*. This is the common form of the
invariants below: for a place in a handler, what its earlier reads still guarantee there (`Steady`, `Fits`, `Trusts`,
`Follows`, `SuitsOwners`, `Stays`). Where the guarantee survives the writes of others, it is proved of all behaviours;
where it does not, it holds of requests in turn, and the theorem is about `OneAtATime`, as the property is.

- *ConnectionPool.* `PoolNoLostWakeup`: `NoLostWakeup` is inductive relative to `TypeOK`. It is stated
  with the threads that are notified *and have not run yet*, since the notified thread and the connection it was
  notified for separate in between. The argument is one of cardinalities: each push wakes one sleeper if there is
  one, each pop by a woken thread takes both a connection and a woken thread, and a pop by a newcomer only lowers
  the left-hand side. `PoolNoExtra` needs `Engaged`: a thread that checks, uses or returns a connection holds one,
  so that what a repair or a return puts back was taken out.
- *ThreadPool.* The inductive invariant `Inv` joins `TypeOK` with which workers have a task in hand (`Holding`),
  which have left and why (`Leaving`), what can have been submitted for a socket (`Connections`, without which a
  second offline task of one socket would be a task run twice) and `RunsOnce`. From it follow
  `WorkersTypes`, `WorkersRunOnce` and `WorkersDrain`: a worker leaves only with `stopped` set and an empty queue
  under the mutex, and nothing is submitted once the destructor runs, so an empty queue stays empty.
  `WorkersNoLostWakeup` needs the further invariant `Balance`: besides `SleepersNotNeeded`, the queue is empty while
  a worker is between predicate and wait, because it holds the mutex and nothing can be pushed in that window.
- *WsHub.* `HubAgreement`: the conjunction of `IndexAgrees`, `RegistryAgrees`,
  `PersonallyReachable` and of `OnlyOpenRemember` (a socket that is not open remembers no topic) is inductive
  relative to `TypeOK`. None of the four is inductive alone: the close handler cleans the index by what the socket
  remembers, so it is complete only because the two agree; a socket that opens must remember nothing from before.
  `HubIndex`, `HubRegistry` and `HubReachable` are its corollaries.

  `HubSubscriptions` proves `NoMissedSubscription` from `Hearing`, which says what everything queued will still do.
  `AllHear`: an open socket that is not subscribed to a room of its user is `Reading`, its instance having a task of
  `open` that has not read the rooms or has read this one, or the closure of such a task; or it is `Told`, the
  subscription being in a closure of an instance that will publish it to the socket's (`Reaches`), on the wire, or
  received. `Firm`: no withdrawal is under way of a membership that counts, so that nothing takes the subscription
  away again. `Undeferred`: a closure is held by a worker, never by a queued task. The argument rests on the orders
  the code has: a write commits before its closure is deferred, `open` registers the socket before its task reads
  the memberships, and its closure subscribes every socket the user has by then.
- *Messages.* The refinement needs `FeedInv`. `Stored`: the message a task is about exists, a send that has inserted
  its row still describes that row, and a deletion past its update works on a row marked as deleted, whatever others
  have done since. `Told`: the log says who sent and who deleted what, which is what makes a change legal for
  MessageFeed. `Once` follows each frame: it is with one task (`OnceCarried`), then in one closure (`OnceDeferred`), and
  only when that closure has run on a wire, once per instance (`OnceWired`), and at a tab, once (`OnceGot`); while it is
  in an earlier place it is in no later one, which is why no tab is sent it twice although it is both fanned out here
  and published. Each step then maps to one step of the feed: a commit appends a change, a closure or a reception sends.

  `DeliveriesHold` is the other half, that a frame is in *at least* one place. `Delivered`: unless Redis has lost
  something (`dropped`), every change owed to a tab is there, carried by a task, deferred, or on the wire of the tab's
  instance; `Spared` says that a closure that holds a change passes over no tab that is owed it. `NotificationsHold`
  needs `Noticed`: one worker writes the notifications of a message (`Apart`), what it has written and what is pending
  are together those concerned (`Pends`), and when it ends nobody is left (`Settled`). `AttachmentsHold` rests on
  `Attached`: a file that no request is to make yet belongs to no message and to no task, one that a request is
  making to that task only, and every blob to a live message, to the task that will insert one, or to the deletion that
  is to remove it. `ReadPointsAdvance` is an action property and needs only that the update compares with what is
  stored.
- *Membership.* A first invariant, `Inv`, gives the types and `ConversationsStayEqual`: `Steady` says that the rows a
  step is about exist and that its request has the
  fields the step reads, `Equals` that a pending insertion into a conversation has the role "write" and that no
  role change, no fill and no default channel is pending for one; `Empty` and `Apart` that an unused row has no
  members and that a conversation is never a channel of the space. `OthersFit` carries both over the steps of other
  workers, because no row disappears and none changes its kind. `ConversationsStayEqual` supposes, like the
  property, that nobody has a server rank: ranks are constants of this module, and a server admin is an admin of
  every conversation (`get_effective_role`).

  The second, `Kept`, has a part for each of the others. `Attended`: for every conversation that was left and may need
  archiving, a worker is still to count its members or to archive it (`Archiving`). `Admitted`: whoever is due in a
  default-join channel and not in it is still to be taken in by somebody (`Admitting`), either the one
  who entered and has not listed the channels, or the creator who has not listed the members; this is where the
  order "insert, then list" of both handlers is used. `Governed`, of requests in turn: a removal or a demotion that is
  pending leaves another admin (`Secure`), because nothing has come between the count and the write.
- *Registration.* `InvitesCounted`: what has been used of an invite and who is past the check and still to use it
  (`Spenders`) are together at most its limit, the registrations that overlap, and a worker's worth for each
  passkey challenge of it that has been redeemed (`Redeemed`), which is not removed before the account is made.
  `OwnerKept`, in turn: somebody is an owner, the worker that is to demote or delete one has seen another
  (`SuitsOwners`), and only the first account was made an owner's. `Complete`: an account without a key is one that a
  worker is still making, or whose key was refused as somebody else's (`Made`).
- *Credentials.* `Fits` says, per place, which rows a request in progress names, and `SpentAt` that what it has
  presented is spent from a certain place on. `Counted` adds up, for each token, the requests it has served and those
  that have found it live and are still to be served (`Using`): at most as many as overlap, so one in turn. A code of
  an authenticator serves once in turn because whoever opens a session by it has noted it before (`CodesNoted`,
  `CodesDiffer`), which relates sessions to secrets that have been replaced since. `BansEndSessions` is inductive given
  the types, since a ban deletes the sessions in its own transaction. `LoginsKept`, in turn: who removes a key or a
  password has seen something else to log in with (`Trusts`), and nothing has come between.
- *SpaceFiles.* `StoreMatches` follows every blob: it belongs to a version, or to a worker that has stored it and not
  yet written its row (`Fresh`) or deleted the row and not yet the blob (`Doomed`), or is spilled by one of the two
  places of the code that do; a revert names a blob that its file has (`Reverted`). Version numbers have no gap because
  those below a number that was drawn stay (`Follows`, `Numbered`). `WithinLimit` counts who was let in (`LetIn`) and
  the uploads that may still bring a version (`Coming`). `FoldersAlwaysATree` is about a recursive function over a tree
  of any depth. Induction being out of reach, `Ascends` characterises what is above a row as the least set that holds
  the parents of its own, by a least element of the natural numbers, and the rest argues with such sets;
  `MovesApart` says that a move in turn does not put a folder under itself.
- *WikiTree.* `VersionsCounted`: the numbers of a page's versions are 1 to their count, which survives any overlap
  because a number is only used if it is free, and one that was drawn follows 0 or a number that is there.
  `UnderLive` survives a deletion because what is deleted is closed: `DescendantsClosed` shows that the search from a
  page, which goes one level deeper at a time, has found everything after as many levels as there are pages, by the
  pigeonhole principle. In turn, `ReadStands` says what a save or a revert has read is still what the page says, and
  when it is about to write over it, that a version says the same (`Written`).
- *Boards.* `BoardRowsTyped` says that every row names rows that there are or were. That the column of a task is of
  its own board, a part of `TasksAlwaysWhereLogged`, holds of all requests, because each `check` compares the two
  and no row ever changes its board; `BoardFits` carries what it has seen to the write. The rest is of requests in
  turn. `Housed`: the column that a deletion has counted empty is empty still (`Stays`). `Chained` and `ToldSoFar`
  are only inductive together: the last move in a task's activity leads to where the task is, except while a worker
  has moved the task and not yet written so (`Telltale`), and that worker knows where the activity ended before
  (`ToldUpTo`). A move that is told becomes the new last one and begins where the former ended, so the chain grows by
  a link; that every other pair of neighbours stays one is a lemma about logs (`NewMove`, `TellsOn`). A request that
  stops half way puts its task among `halted`, which no later step leaves.
- *Calendar.* The types join the keys of the tables that hang on an event: each of its days has one exception, each
  person one answer. A write replaces what has its key only if the event is still there, and a deletion takes along
  what names the event, so no order of the two leaves either behind (`ExceptionsTyped`, `AnswersTyped`); `Rewrites`
  says that what an update has read and what it names make an event again.

**What proving showed.** Earlier bounds of `InvitesHold` and `AccountsComplete` held on the small instances and were
not inductive for a reason: a redeemed challenge lets in more than overlap, and a name given up and taken again made
two accounts one. `NoMissedSubscription` used to except nothing, and held only because no scenario of `hub` combined
the events that break it: a user who is removed and added again through two instances can be unsubscribed by the
removal's command after the addition's, and a command that meets an outage of Redis is not repeated. The definitions
and the model now say what the code does, and the scenarios `Overspent`, `Returning`, `Rejoin` and `Lapse` reach the
states where the earlier ones fail.

Model-checked only: everything temporal (liveness under fairness and `ENABLED` are out of the prover's reach);
`AgendaShowsOccurrences`, since what `Recurrence` computes is an induction over data. `Types` is checked as one, and
proved as `RegistrationTyped`, `CredentialsTyped`, `FilesTyped`, `PagesTyped`, `BoardRowsTyped` and `CalendarTyped`.

## Findings

Each is a run whose property TLC violates; `PROJECT.json` quotes the line that promises it.

- `pool_repair`: a slot lost while PostgreSQL is down is never replaced, although `connection_pool.cpp` says that a
  future release repairs it.
- `workers_hang`: no handler maps `ConnectionPoolTimeout` to a response; an exception before the handler's `try`
  block is logged by the worker and the request is never answered.
- `workers_shutdown`: `run_server` returns and destroys handlers while tasks that captured them are queued.
- `hub_remove`: the task of `open` reads the memberships, a removal commits and its closure runs, and then the
  closure of `open` subscribes the removed member.
- `hub_ban`: a ban between the check of the upgrade and its closure leaves the banned user connected.
- `messages_upload`: the closure of a completed upload returns on `aborted` before it broadcasts.

What `AgendaShowsOccurrences` excepts are divergences too, of the calendar from its editor:

- An occurrence starts as a copy of the event (`calendar_handler.cpp:125`) and is given its own start and end only if
  it has no exception (`:153`). One that is given another title without times, as in `test_modify_single_occurrence` of
  `tests/api/test_calendar.py`, which looks at the title only, is listed at the times of the first occurrence.
- The weekly loop returns at the first day past the range in the order BYDAY has them (`recurrence.cpp:319`), which is
  the order of the clicks (`frontend/src/components/calendar/RecurrenceEditor.tsx:166`). With FR,MO a range that ends
  before the Friday lacks the Monday of its week, although `recurrence.h:28` promises the occurrences "within
  [range_start, range_end)".
- A monthly event is looked for on the day of its start only (`recurrence.cpp:351`), so the BYMONTHDAY of the editor,
  "-1 for last day" included (`RecurrenceEditor.tsx:199`), lists nothing unless it names that day, or that day is in
  some month the last.

## Not modelled

The component list of `PROJECT.json` has a note for each part. In short: cryptography, password hashing, WebAuthn and
TLS are taken as given: a signature, an attestation or a password is right or wrong. Search, metrics, logging,
configuration and listing have no state a property could be about; the AI assistant is a dialogue with an external
service whose tools call the other operations; names, avatars, colours and texts are left out everywhere, but for the
few a property compares. In the modelled parts: typing indicators and the wiki relay (fan-outs without state), the
token buckets, and how many rows of history a client fetches.

Of the handlers of MCHandlers: expiry by the clock (of sessions, challenges, tokens and password age; what is live has
not expired, and the clock of the authenticators is the only one), the limit on attempts to log in, the table of
devices behind `user_keys`, uploads of wiki images, the request that aborts an upload session, the multi-part protocol
of S3, the sizes of files (each counts one), the positions, names and colours of boards, and the times of day of
events. The parts of a channel's upload session are not modelled, those of a space's are.

Not modelled as components: the HTTP rate limiter, the browser client, search, the AI assistant, metrics and
configuration. The map leaves out the listings, which read and change nothing, of every handler.

Abstractions that matter: a database call is atomic and, unless a component is about it, succeeds; commits are in
the order of the steps (a transaction's `created_at` is its start, which the model does not tell apart); Redis
delivers what it does not lose in order; each tab stays on one instance.

## Plan

1. *Done*: ConnectionPool, ThreadPool, WsHub, Messages with the refinement of MessageFeed, Membership, and proofs
   about all of them.
2. *Done*: Registration and Credentials; SpaceFiles; Boards, WikiTree, Calendar and Recurrence, composed with
   Membership in MCHandlers.
3. Theorems. *Done*: types of every component and every invariant of all but Calendar, with the refinement of
   MessageFeed. *Left to TLC*: what `Recurrence` computes, an induction over data.
4. **RateLimit** (token buckets with eviction, the Redis window) and **Client** (reconnection with heartbeat, the
   store's reduction of frames composed with MessageFeed instead of Messages).
5. Compositions: workers of ThreadPool that acquire from ConnectionPool; the removal of a member in Membership with
   the subscriptions of WsHub; a ban in Credentials with the disconnection of WsHub.
6. Uploads of S3 and of wiki images, the abort of sessions, crashes between blob and row.
