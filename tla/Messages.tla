------------------------------- MODULE Messages -------------------------------
(***************************************************************************)
(* The messages of one channel: how they are sent, attached to files,      *)
(* edited, deleted, reacted to and read (backend/src/ws/ws_handler.cpp,    *)
(* the completion of an upload in handlers/file_handler.cpp and the calls  *)
(* of db/database.cpp they make), whom they notify, and how each change is *)
(* fanned out to the browser tabs of every instance.                       *)
(*                                                                         *)
(* Each database call of a task is one step of its worker, the last one    *)
(* with the hand-over of a closure to the event loop; what Redis pushes is *)
(* fanned out when it is received (no property here sees the order of      *)
(* frames).  The tabs stay connected and the members of the channel stay   *)
(* members: connections and subscriptions are the subject of module WsHub. *)
(* A message's id and its created_at are both its place in the order of    *)
(* insertion.                                                              *)
(***************************************************************************)
EXTENDS Naturals, Sequences, FiniteSets, SequencesExt

CONSTANTS
  Instances, Workers, Users,
  Tabs,          \* open sockets
  UserOf,        \* the user of a tab
  HomeOf,        \* the instance a tab is connected to
  Uploads,       \* requests to complete an upload whose last chunk has arrived
  SessionOf,     \* the upload session such a request names
  InitialRoles,  \* the role of each user in the channel
  Ranks,         \* users.role when the tabs connected
  Scenarios,     \* a kind of channel, the tabs in use, what they send in it
                 \* (the tokens after the '@' signs) and a budget of events
  MaxChanges, MaxNotes    \* bounds on the frames

Everyone == "@channel"
NoFile == "no file"
Kinds == {"send", "edit", "delete", "react", "read", "upload", "abort",
          "archive", "role", "loss"}
Roles == {"", "read", "write", "admin"}
Contents == Seq(Users \cup {Everyone})

ASSUME MessagesAssumption ==
  /\ UserOf \in [Tabs -> Users] /\ HomeOf \in [Tabs -> Instances]
  /\ SessionOf \in [Uploads -> [nth : Nat, user : Users]]
  /\ InitialRoles \in [Users -> Roles]
  /\ Ranks \in [Users -> {"user", "admin", "owner"}]
  /\ \A s \in Scenarios :
       /\ s.direct \in BOOLEAN
       /\ s.tabs \subseteq Tabs /\ s.contents \subseteq Contents
       /\ s.budget \in [Kinds -> Nat]
  /\ NoFile \notin Uploads
  /\ MaxChanges \in Nat /\ MaxNotes \in Nat

\* get_channel_member_usernames.
Members == {u \in Users : InitialRoles[u] # ""}
\* Whose tabs were subscribed to the channel when they connected.
Subscribed == Members \cup {u \in Users : Ranks[u] \in {"admin", "owner"}}

Rows == [author : Users, tokens : Contents, reply : Nat, file : Uploads \cup {NoFile},
         text : {"sent", "edited", ""}, deleted : BOOLEAN]

Changes == [kind : {"new", "edited", "deleted", "reacted", "unreacted", "read"},
            message : Nat \ {0}, by : Users]
Notes == [to : Users, type : {"mention", "reply", "direct_message"},
          message : Nat \ {0}]

(* What a tab is sent: the n-th change or the n-th notification.           *)
Change(n) == <<"change", n>>
Note(n) == <<"note", n>>
Frames == {Change(n) : n \in 1..MaxChanges} \cup {Note(n) : n \in 1..MaxNotes}

(* What is deferred to an event loop: frames to fan out here and through   *)
(* Redis (but not here to the sockets of `except'), and those of an upload *)
(* whose request may be aborted by then.                                   *)
Closures ==
  [do : {"announce"}, frames : Seq(Frames), except : SUBSET Users]
    \cup [do : {"uploaded"}, frames : Seq(Frames), file : Uploads]

Pending == [nth : Nat, to : Users, type : {"mention", "reply", "direct_message"}]
Sends ==
  [op : {"send"}, user : Users, tokens : Contents, reply : Nat, message : Nat,
   at : {"server", "channel", "role", "insert", "mentions", "notify"},
   change : Nat, pending : SUBSET Pending, frames : Seq(Frames)]
Completions ==
  [op : {"upload"}, at : {"server", "channel", "role", "assemble", "insert"},
   user : Users, file : Uploads]
Deletions ==
  [op : {"delete"}, at : {"owner", "own", "role", "author", "admin", "blob"},
   user : Users, message : Nat, change : Nat]
Tasks ==
  Sends \cup Completions \cup Deletions
    \cup [op : {"edit", "react", "unreact", "read"}, user : Users, message : Nat]
Idle == [op |-> "none"]

VARIABLES
  \* PostgreSQL and the blob storage
  rows,           \* messages
  reactions, mentions,
  notes,          \* notifications
  readState,      \* channel_read_state
  channel,        \* is_direct, is_archived (and who sends what in it)
  serverArchived,
  roles,          \* the effective role in the channel of those without a rank
  ranks,          \* users.role
  blobs,
  \* the threads and sockets of each instance
  tasks, running, loop,
  got,            \* how often a tab was sent each frame
  uploads,        \* how far each request to complete an upload is
  wire,           \* what Redis has pushed to each subscriber
  \* history and bounds
  log,            \* the changes committed that are announced
  dropped,        \* whether Redis has lost anything
  budget

dbVars == <<rows, reactions, mentions, notes, readState, channel, serverArchived,
            roles, ranks, blobs>>
threadVars == <<tasks, running, loop>>
vars == <<dbVars, threadVars, got, uploads, wire, log, dropped, budget>>

Init ==
  /\ rows = <<>> /\ reactions = {} /\ mentions = {} /\ notes = <<>>
  /\ readState = [u \in Users |-> [at |-> 0, message |-> 0]]
  /\ \E s \in Scenarios :
       /\ channel = [direct |-> s.direct, archived |-> FALSE,
                     tabs |-> s.tabs, contents |-> s.contents]
       /\ budget = s.budget
  /\ serverArchived = FALSE
  /\ roles = InitialRoles
  /\ ranks = Ranks
  /\ blobs = {}
  /\ tasks = [i \in Instances |-> <<>>]
  /\ running = [i \in Instances |-> [w \in Workers |-> Idle]]
  /\ loop = [i \in Instances |-> <<>>]
  /\ got = [t \in Tabs |-> [f \in Frames |-> 0]]
  /\ uploads = [f \in Uploads |-> "ready"]
  /\ wire = [i \in Instances |-> <<>>]
  /\ log = <<>>
  /\ dropped = FALSE

Spend(kind) ==
  /\ budget[kind] > 0
  /\ budget' = [budget EXCEPT ![kind] = @ - 1]

-----------------------------------------------------------------------------
(* The threads *)

Submit(i, task) == tasks' = [tasks EXCEPT ![i] = Append(@, task)]

Dequeue(i, w) ==
  /\ running[i][w] = Idle /\ tasks[i] # <<>>
  /\ running' = [running EXCEPT ![i][w] = Head(tasks[i])]
  /\ tasks' = [tasks EXCEPT ![i] = Tail(@)]
  /\ UNCHANGED <<dbVars, loop, got, uploads, wire, log, dropped, budget>>

Goto(i, w, task) ==
  /\ running' = [running EXCEPT ![i][w] = task]
  /\ UNCHANGED <<tasks, loop>>
Advance(i, w, stage) == Goto(i, w, [running[i][w] EXCEPT !.at = stage])
Refuse(i, w) == Goto(i, w, Idle)

\* The task ends with loop_->defer.
FinishWith(i, w, closure) ==
  /\ running' = [running EXCEPT ![i][w] = Idle]
  /\ loop' = [loop EXCEPT ![i] = Append(@, closure)]
  /\ UNCHANGED tasks
Announcing(frames, except) ==
  [do |-> "announce", frames |-> frames, except |-> except]

Executes(i, w, op) == running[i][w].op = op
ExecutesAt(i, w, ops, stage) ==
  running[i][w].op \in ops /\ running[i][w].at = stage

\* A change that will be announced is committed.
Log(kind, m, u) ==
  /\ Len(log) < MaxChanges
  /\ log' = Append(log, [kind |-> kind, message |-> m, by |-> u])
Next1(seq) == Len(seq) + 1

\* get_effective_role: a server admin is an admin of every channel.
EffectiveRole(u) == IF ranks[u] \in {"admin", "owner"} THEN "admin" ELSE roles[u]

-----------------------------------------------------------------------------
(* What the clients ask for.  A client knows any message that is stored,   *)
(* by an announcement or from GET /api/channels/:id/messages.              *)

Ask(t, kind, task) ==
  /\ Spend(kind)
  /\ Submit(HomeOf[t], task)
  /\ UNCHANGED <<dbVars, running, loop, got, wire, log, dropped>>

Send(t) ==
  \E tokens \in channel.contents, reply \in {0} \cup DOMAIN rows :
    Ask(t, "send", [op |-> "send", at |-> "server", user |-> UserOf[t],
                    tokens |-> tokens, reply |-> reply, message |-> 0,
                    change |-> 0, pending |-> {}, frames |-> <<>>])

Edit(t, m) == Ask(t, "edit", [op |-> "edit", user |-> UserOf[t], message |-> m])

Delete(t, m) ==
  Ask(t, "delete", [op |-> "delete", at |-> "owner", user |-> UserOf[t],
                    message |-> m, change |-> 0])

React(t, m) ==
  \E op \in {"react", "unreact"} :
    Ask(t, "react", [op |-> op, user |-> UserOf[t], message |-> m])

MarkRead(t, m) == Ask(t, "read", [op |-> "read", user |-> UserOf[t], message |-> m])

WriteSocket(t) ==
  /\ \/ Send(t)
     \/ \E m \in DOMAIN rows : Edit(t, m) \/ Delete(t, m) \/ React(t, m) \/ MarkRead(t, m)
  /\ UNCHANGED uploads

\* POST /api/channels/:id/upload/:uploadId/complete, which a client may repeat,
\* and its onAborted.
CompleteUpload(t, f) ==
  /\ uploads[f] = "ready"
  /\ uploads' = [uploads EXCEPT ![f] = "asked"]
  /\ Ask(t, "upload", [op |-> "upload", at |-> "server", user |-> UserOf[t], file |-> f])

AbortUpload(f) ==
  /\ uploads[f] = "asked"
  /\ Spend("abort")
  /\ uploads' = [uploads EXCEPT ![f] = "aborted"]
  /\ UNCHANGED <<dbVars, threadVars, got, wire, log, dropped>>

-----------------------------------------------------------------------------
(* Sending: the checks, which the completion of an upload repeats *)

Posting == {"send", "upload"}
\* The worker looks at `aborted' before anything else.
GivenUp(i, w) == Executes(i, w, "upload") /\ uploads[running[i][w].file] = "aborted"
\* get_session finds a session, and another user's.
Foreign(i, w) ==
  Executes(i, w, "upload") /\ SessionOf[running[i][w].file].user # running[i][w].user

CheckServer(i, w) ==
  /\ ExecutesAt(i, w, Posting, "server")
  /\ IF serverArchived \/ GivenUp(i, w) \/ Foreign(i, w)
     THEN Refuse(i, w) ELSE Advance(i, w, "channel")
  /\ UNCHANGED <<dbVars, got, uploads, wire, log, dropped, budget>>

CheckChannel(i, w) ==
  /\ ExecutesAt(i, w, Posting, "channel")
  /\ IF channel.archived THEN Refuse(i, w) ELSE Advance(i, w, "role")
  /\ UNCHANGED <<dbVars, got, uploads, wire, log, dropped, budget>>

CheckRole(i, w) ==
  /\ ExecutesAt(i, w, Posting, "role")
  /\ IF EffectiveRole(running[i][w].user) \in {"", "read"}
     THEN Refuse(i, w)
     ELSE Advance(i, w, IF Executes(i, w, "send") THEN "insert" ELSE "assemble")
  /\ UNCHANGED <<dbVars, got, uploads, wire, log, dropped, budget>>

\* create_message and create_file_message.
Insert(u, tokens, reply, file) ==
  /\ rows' = Append(rows, [author |-> u, tokens |-> tokens, reply |-> reply,
                           file |-> file, text |-> "sent", deleted |-> FALSE])
  /\ Log("new", Next1(rows), u)

CreateMessage(i, w) ==
  /\ ExecutesAt(i, w, {"send"}, "insert")
  /\ LET task == running[i][w] IN
       /\ Insert(task.user, task.tokens, task.reply, NoFile)
       /\ Goto(i, w, [task EXCEPT !.at = "mentions", !.message = Next1(rows),
                                  !.change = Next1(log)])
  /\ UNCHANGED <<reactions, mentions, notes, readState, channel, serverArchived,
                 roles, ranks, blobs, got, uploads, wire, dropped, budget>>

-----------------------------------------------------------------------------
(* Sending: mentions and notifications *)

Named(tokens) == ToSet(tokens) \cap Members
Mentioned(tokens) == IF Everyone \in ToSet(tokens) THEN Members ELSE Named(tokens)

\* Mutant: a message that mentions anyone notifies nobody of the reply.
NotificationsOfMentions(task) ==
  LET u == task.user
      mentioned == [nth : DOMAIN task.tokens, to : Members \ {u}, type : {"mention"}]
      owner == IF task.reply = 0 \/ task.tokens # <<>> THEN {}
               ELSE {rows[task.reply].author} \ {u}
  IN {p \in mentioned : task.tokens[p.nth] \in {Everyone, p.to}}
       \cup [nth : {0}, to : owner, type : {"reply"}]
       \cup [nth : {0}, type : {"direct_message"},
             to : IF channel.direct THEN Members \ (Mentioned(task.tokens) \cup owner \cup {u})
                  ELSE {}]

\* The notifications of a message: one for each token and member it means;
\* one for the author of the message replied to, unless a token names them; in
\* a direct channel one for each member not reached so far.
Notifications(task) ==
  LET u == task.user
      owner == IF task.reply = 0 THEN {} ELSE {rows[task.reply].author} \ {u}
      mentioned == [nth : DOMAIN task.tokens, to : Members \ {u}, type : {"mention"}]
  IN {p \in mentioned : task.tokens[p.nth] \in {Everyone, p.to}}
       \cup [nth : {0}, to : owner \ Named(task.tokens), type : {"reply"}]
       \cup [nth : {0}, type : {"direct_message"},
             to : IF channel.direct THEN Members \ (Mentioned(task.tokens) \cup owner \cup {u})
                  ELSE {}]

\* store_mentions.
StoreMentions(i, w) ==
  /\ ExecutesAt(i, w, {"send"}, "mentions")
  /\ LET task == running[i][w] IN
       /\ mentions' = mentions \cup
            ({task.message} \X (Mentioned(task.tokens) \ {task.user}))
       /\ Goto(i, w, [task EXCEPT !.at = "notify", !.pending = Notifications(task)])
  /\ UNCHANGED <<rows, reactions, notes, readState, channel, serverArchived, roles,
                 ranks, blobs, got, uploads, wire, log, dropped, budget>>

\* create_notification, once for each.
Notify(i, w) ==
  /\ ExecutesAt(i, w, {"send"}, "notify")
  /\ \E p \in running[i][w].pending :
       LET task == running[i][w] IN
       /\ Len(notes) < MaxNotes
       /\ notes' = Append(notes, [to |-> p.to, type |-> p.type, message |-> task.message])
       /\ Goto(i, w, [task EXCEPT !.pending = @ \ {p},
                                  !.frames = Append(@, Note(Next1(notes)))])
  /\ UNCHANGED <<rows, reactions, mentions, readState, channel, serverArchived, roles,
                 ranks, blobs, got, uploads, wire, log, dropped, budget>>

FinishSending(i, w) ==
  /\ ExecutesAt(i, w, {"send"}, "notify")
  /\ running[i][w].pending = {}
  /\ FinishWith(i, w, Announcing(Append(running[i][w].frames, Change(running[i][w].change)), {}))
  /\ UNCHANGED <<dbVars, got, uploads, wire, log, dropped, budget>>

-----------------------------------------------------------------------------
(* The completion of an upload.  The file gets an id of its own from every  *)
(* request, so that a request stands for the file it makes.                *)

\* complete_multipart has moved the bytes of the session to a file.
Taken(session) ==
  \E f \in Uploads :
    /\ SessionOf[f] = session
    /\ f \in blobs \/ \E m \in DOMAIN rows : rows[m].file = f

Assemble(i, w) ==
  /\ ExecutesAt(i, w, {"upload"}, "assemble")
  /\ ~Taken(SessionOf[running[i][w].file])
  /\ blobs' = blobs \cup {running[i][w].file}
  /\ Advance(i, w, "insert")
  /\ UNCHANGED <<rows, reactions, mentions, notes, readState, channel, serverArchived,
                 roles, ranks, got, uploads, wire, log, dropped, budget>>

\* Another request has assembled the file: assemble fails at once; get_session
\* and is_complete find nothing as soon as either has removed the session.
MissUpload(i, w) ==
  /\ ExecutesAt(i, w, {"upload"}, "server") \/ ExecutesAt(i, w, {"upload"}, "assemble")
  /\ Taken(SessionOf[running[i][w].file])
  /\ Refuse(i, w)
  /\ UNCHANGED <<dbVars, got, uploads, wire, log, dropped, budget>>

CreateFileMessage(i, w) ==
  /\ ExecutesAt(i, w, {"upload"}, "insert")
  /\ LET task == running[i][w] IN
       /\ Insert(task.user, <<>>, 0, task.file)
       /\ FinishWith(i, w, [do |-> "uploaded", frames |-> <<Change(Next1(log))>>,
                            file |-> task.file])
  /\ UNCHANGED <<reactions, mentions, notes, readState, channel, serverArchived,
                 roles, ranks, blobs, got, uploads, wire, dropped, budget>>

-----------------------------------------------------------------------------
(* Editing and deleting *)

\* Mutant: without "AND is_deleted = false".
EditMessageAnyway(i, w) ==
  /\ Executes(i, w, "edit")
  /\ LET u == running[i][w].user  m == running[i][w].message IN
       IF rows[m].author = u
       THEN /\ rows' = [rows EXCEPT ![m].text = "edited"]
            /\ Log("edited", m, u)
            /\ FinishWith(i, w, Announcing(<<Change(Next1(log))>>, {}))
       ELSE Refuse(i, w) /\ UNCHANGED <<rows, log>>
  /\ UNCHANGED <<reactions, mentions, notes, readState, channel, serverArchived,
                 roles, ranks, blobs, got, uploads, wire, dropped, budget>>

\* The UPDATE finds the author's own undeleted message, or the task throws.
EditMessage(i, w) ==
  /\ Executes(i, w, "edit")
  /\ LET u == running[i][w].user  m == running[i][w].message IN
       IF rows[m].author = u /\ ~rows[m].deleted
       THEN /\ rows' = [rows EXCEPT ![m].text = "edited"]
            /\ Log("edited", m, u)
            /\ FinishWith(i, w, Announcing(<<Change(Next1(log))>>, {}))
       ELSE Refuse(i, w) /\ UNCHANGED <<rows, log>>
  /\ UNCHANGED <<reactions, mentions, notes, readState, channel, serverArchived,
                 roles, ranks, blobs, got, uploads, wire, dropped, budget>>

FindOwner(i, w) ==
  /\ ExecutesAt(i, w, {"delete"}, "owner")
  /\ LET task == running[i][w] IN
       Advance(i, w, IF rows[task.message].author = task.user THEN "own" ELSE "role")
  /\ UNCHANGED <<dbVars, got, uploads, wire, log, dropped, budget>>

CheckDeleteRole(i, w) ==
  /\ ExecutesAt(i, w, {"delete"}, "role")
  /\ IF EffectiveRole(running[i][w].user) = "admin"
     THEN Advance(i, w, "author") ELSE Refuse(i, w)
  /\ UNCHANGED <<dbVars, got, uploads, wire, log, dropped, budget>>

\* The rank of the deleter is the one its socket was opened with.
CheckAuthorRank(i, w) ==
  /\ ExecutesAt(i, w, {"delete"}, "author")
  /\ LET task == running[i][w]
         rank == ranks[rows[task.message].author]
     IN IF rank = "owner" \/ (rank = "admin" /\ Ranks[task.user] # "owner")
        THEN Refuse(i, w) ELSE Advance(i, w, "admin")
  /\ UNCHANGED <<dbVars, got, uploads, wire, log, dropped, budget>>

\* Mutant: only an admin's deletion removes the attachment.
DeleteRowKeepingBlob(i, w) ==
  /\ ExecutesAt(i, w, {"delete"}, "own") \/ ExecutesAt(i, w, {"delete"}, "admin")
  /\ LET task == running[i][w] IN
       /\ rows' = [rows EXCEPT ![task.message] = [@ EXCEPT !.text = "", !.deleted = TRUE]]
       /\ Log("deleted", task.message, task.user)
       /\ IF task.at = "own"
          THEN FinishWith(i, w, Announcing(<<Change(Next1(log))>>, {}))
          ELSE Goto(i, w, [task EXCEPT !.at = "blob", !.change = Next1(log)])
  /\ UNCHANGED <<reactions, mentions, notes, readState, channel, serverArchived,
                 roles, ranks, blobs, got, uploads, wire, dropped, budget>>

\* delete_message and admin_delete_message.
DeleteRow(i, w) ==
  /\ ExecutesAt(i, w, {"delete"}, "own") \/ ExecutesAt(i, w, {"delete"}, "admin")
  /\ LET task == running[i][w] IN
       /\ rows' = [rows EXCEPT ![task.message] = [@ EXCEPT !.text = "", !.deleted = TRUE]]
       /\ Log("deleted", task.message, task.user)
       /\ Goto(i, w, [task EXCEPT !.at = "blob", !.change = Next1(log)])
  /\ UNCHANGED <<reactions, mentions, notes, readState, channel, serverArchived,
                 roles, ranks, blobs, got, uploads, wire, dropped, budget>>

RemoveBlob(i, w) ==
  /\ ExecutesAt(i, w, {"delete"}, "blob")
  /\ LET task == running[i][w] IN
       /\ blobs' = blobs \ {rows[task.message].file}
       /\ FinishWith(i, w, Announcing(<<Change(task.change)>>, {}))
  /\ UNCHANGED <<rows, reactions, mentions, notes, readState, channel, serverArchived,
                 roles, ranks, got, uploads, wire, log, dropped, budget>>

-----------------------------------------------------------------------------
(* Reactions and read state *)

\* Mutant: the parameters of the INSERT are swapped.
AddReactionSwapped(i, w) ==
  /\ Executes(i, w, "react")
  /\ LET u == running[i][w].user  m == running[i][w].message IN
       /\ reactions' = reactions \cup {<<u, m>>}
       /\ Log("reacted", m, u)
  /\ FinishWith(i, w, Announcing(<<Change(Next1(log))>>, {}))
  /\ UNCHANGED <<rows, mentions, notes, readState, channel, serverArchived,
                 roles, ranks, blobs, got, uploads, wire, dropped, budget>>

AddReaction(i, w) ==
  /\ Executes(i, w, "react")
  /\ LET u == running[i][w].user  m == running[i][w].message IN
       /\ reactions' = reactions \cup {<<m, u>>}
       /\ Log("reacted", m, u)
  /\ FinishWith(i, w, Announcing(<<Change(Next1(log))>>, {}))
  /\ UNCHANGED <<rows, mentions, notes, readState, channel, serverArchived,
                 roles, ranks, blobs, got, uploads, wire, dropped, budget>>

RemoveReaction(i, w) ==
  /\ Executes(i, w, "unreact")
  /\ LET u == running[i][w].user  m == running[i][w].message IN
       /\ reactions' = reactions \ {<<m, u>>}
       /\ Log("unreacted", m, u)
  /\ FinishWith(i, w, Announcing(<<Change(Next1(log))>>, {}))
  /\ UNCHANGED <<rows, mentions, notes, readState, channel, serverArchived,
                 roles, ranks, blobs, got, uploads, wire, dropped, budget>>

\* Mutant: the last request wins.
UpdateReadStateBlindly(i, w) ==
  /\ Executes(i, w, "read")
  /\ LET u == running[i][w].user  m == running[i][w].message IN
       /\ readState' = [readState EXCEPT ![u] = [at |-> m, message |-> m]]
       /\ mentions' = {p \in mentions : p[2] # u \/ p[1] > m}
       /\ Log("read", m, u)
       /\ FinishWith(i, w, Announcing(<<Change(Next1(log))>>, {u}))
  /\ UNCHANGED <<rows, reactions, notes, channel, serverArchived, roles, ranks,
                 blobs, got, uploads, wire, dropped, budget>>

\* update_read_state: the later point wins, and the mentions up to the point
\* of this request go in the same transaction.
UpdateReadState(i, w) ==
  /\ Executes(i, w, "read")
  /\ LET u == running[i][w].user  m == running[i][w].message IN
       /\ readState' = [readState EXCEPT ![u] =
            IF m > @.at THEN [at |-> m, message |-> m] ELSE @]
       /\ mentions' = {p \in mentions : p[2] # u \/ p[1] > m}
       /\ Log("read", m, u)
       /\ FinishWith(i, w, Announcing(<<Change(Next1(log))>>, {u}))
  /\ UNCHANGED <<rows, reactions, notes, channel, serverArchived, roles, ranks,
                 blobs, got, uploads, wire, dropped, budget>>

-----------------------------------------------------------------------------
(* The fan-out *)

\* Who is subscribed to the topic of a frame: channel:<id> or user:<id>.
IsFor(f, t) == IF f[1] = "note" THEN UserOf[t] = notes[f[2]].to ELSE UserOf[t] \in Subscribed

\* local_fan_out of frames on an instance.
FanOut(i, frames, except) ==
  got' = [t \in Tabs |-> [f \in Frames |->
    IF HomeOf[t] = i /\ f \in ToSet(frames) /\ IsFor(f, t) /\ UserOf[t] \notin except
    THEN got[t][f] + 1 ELSE got[t][f]]]

\* Mutant: only the first of the frames is published.
PublishFirst(i, frames) ==
  wire' = [j \in Instances |-> Append(wire[j], [from |-> i, frame |-> frames[1]])]

Publish(i, frames) ==
  wire' = [j \in Instances |->
    wire[j] \o [k \in DOMAIN frames |-> [from |-> i, frame |-> frames[k]]]]

Runs(i, do) == loop[i] # <<>> /\ Head(loop[i]).do = do
RunsHead(i) == loop' = [loop EXCEPT ![i] = Tail(@)]

RunAnnounce(i) ==
  /\ Runs(i, "announce")
  /\ RunsHead(i)
  /\ FanOut(i, Head(loop[i]).frames, Head(loop[i]).except)
  /\ Publish(i, Head(loop[i]).frames)
  /\ UNCHANGED <<dbVars, tasks, running, uploads, log, dropped, budget>>

\* "if (*aborted) return;" comes before the broadcast.
RunUploaded(i) ==
  /\ Runs(i, "uploaded")
  /\ RunsHead(i)
  /\ IF uploads[Head(loop[i]).file] = "aborted"
     THEN UNCHANGED <<got, wire>>
     ELSE /\ FanOut(i, Head(loop[i]).frames, {})
          /\ Publish(i, Head(loop[i]).frames)
  /\ UNCHANGED <<dbVars, tasks, running, uploads, log, dropped, budget>>

\* The subscriber thread drops its own instance's echoes and has the loop fan
\* out the rest.
Receive(i) ==
  /\ wire[i] # <<>>
  /\ wire' = [wire EXCEPT ![i] = Tail(@)]
  /\ IF Head(wire[i]).from = i THEN UNCHANGED got
     ELSE FanOut(i, <<Head(wire[i]).frame>>, {})
  /\ UNCHANGED <<dbVars, threadVars, uploads, log, dropped, budget>>

\* Redis loses what it has not pushed to an instance yet.
Lose(i) ==
  /\ wire[i] # <<>>
  /\ Spend("loss")
  /\ wire' = [wire EXCEPT ![i] = <<>>]
  /\ dropped' = TRUE
  /\ UNCHANGED <<dbVars, threadVars, got, uploads, log>>

-----------------------------------------------------------------------------
(* What other requests change under the tasks that are running *)

ArchiveServer ==
  /\ Spend("archive")
  /\ serverArchived' = ~serverArchived
  /\ UNCHANGED <<rows, reactions, mentions, notes, readState, channel, roles, ranks,
                 blobs, threadVars, got, uploads, wire, log, dropped>>

ArchiveChannel ==
  /\ Spend("archive")
  /\ channel' = [channel EXCEPT !.archived = ~@]
  /\ UNCHANGED <<rows, reactions, mentions, notes, readState, serverArchived, roles,
                 ranks, blobs, threadVars, got, uploads, wire, log, dropped>>

ChangeRole(u) ==
  /\ u \in Members
  /\ Spend("role")
  /\ \E r \in Roles \ {"", roles[u]} : roles' = [roles EXCEPT ![u] = r]
  /\ UNCHANGED <<rows, reactions, mentions, notes, readState, channel, serverArchived,
                 ranks, blobs, threadVars, got, uploads, wire, log, dropped>>

ChangeRank(u) ==
  /\ Spend("role")
  /\ \E r \in {"user", "admin"} \ {ranks[u]} : ranks' = [ranks EXCEPT ![u] = r]
  /\ UNCHANGED <<rows, reactions, mentions, notes, readState, channel, serverArchived,
                 roles, blobs, threadVars, got, uploads, wire, log, dropped>>

-----------------------------------------------------------------------------
WorkerStep(i, w) ==
  \/ Dequeue(i, w)
  \/ CheckServer(i, w) \/ CheckChannel(i, w) \/ CheckRole(i, w)
  \/ CreateMessage(i, w) \/ StoreMentions(i, w) \/ Notify(i, w) \/ FinishSending(i, w)
  \/ Assemble(i, w) \/ MissUpload(i, w) \/ CreateFileMessage(i, w)
  \/ EditMessage(i, w)
  \/ FindOwner(i, w) \/ CheckDeleteRole(i, w) \/ CheckAuthorRank(i, w)
  \/ DeleteRow(i, w) \/ RemoveBlob(i, w)
  \/ AddReaction(i, w) \/ RemoveReaction(i, w) \/ UpdateReadState(i, w)

LoopStep(i) == RunAnnounce(i) \/ RunUploaded(i)

ClientStep ==
  \/ \E t \in channel.tabs : WriteSocket(t) \/ \E f \in Uploads : CompleteUpload(t, f)
  \/ \E f \in Uploads : AbortUpload(f)

OtherRequest ==
  \/ ArchiveServer \/ ArchiveChannel
  \/ \E u \in Users : ChangeRole(u) \/ ChangeRank(u)

Next ==
  \/ ClientStep \/ OtherRequest
  \/ \E i \in Instances :
       \/ \E w \in Workers : WorkerStep(i, w)
       \/ LoopStep(i) \/ Receive(i) \/ Lose(i)

Spec == Init /\ [][Next]_vars

-----------------------------------------------------------------------------
(* What must hold *)

TypeOK ==
  /\ rows \in Seq(Rows)
  /\ reactions \subseteq (DOMAIN rows) \X Users
  /\ mentions \subseteq (DOMAIN rows) \X Users
  /\ notes \in Seq(Notes)
  /\ readState \in [Users -> [at : Nat, message : Nat]]
  /\ channel \in [direct : BOOLEAN, archived : BOOLEAN, tabs : SUBSET Tabs,
                 contents : SUBSET Contents]
  /\ serverArchived \in BOOLEAN
  /\ roles \in [Users -> Roles]
  /\ ranks \in [Users -> {"user", "admin", "owner"}]
  /\ blobs \subseteq Uploads
  /\ tasks \in [Instances -> Seq(Tasks)]
  /\ running \in [Instances -> [Workers -> Tasks \cup {Idle}]]
  /\ loop \in [Instances -> Seq(Closures)]
  /\ got \in [Tabs -> [Frames -> Nat]]
  /\ uploads \in [Uploads -> {"ready", "asked", "aborted"}]
  /\ wire \in [Instances -> Seq([from : Instances, frame : Frames])]
  /\ log \in Seq(Changes)
  /\ dropped \in BOOLEAN
  /\ budget \in [Kinds -> Nat]

Quiet ==
  \A i \in Instances :
    /\ tasks[i] = <<>> /\ loop[i] = <<>> /\ wire[i] = <<>>
    /\ \A w \in Workers : running[i][w] = Idle

(***************************************************************************)
(* The tasks, closures and Redis messages together implement the feed:     *)
(* scenario C of tests/integration/multi_instance, "exactly once (no       *)
(* duplicate from the Redis round-trip)", with the legality of each change *)
(* under every interleaving of edits and deletions.                        *)
(***************************************************************************)
Feed == INSTANCE MessageFeed
  WITH Users <- Users, Tabs <- Tabs, UserOf <- UserOf, Frames <- Frames,
       log <- log, notes <- notes, got <- got
ImplementsFeed == Feed!Spec

(***************************************************************************)
(* Scenario A of tests/integration/multi_instance, for what is sent over a *)
(* WebSocket: once nothing is in flight and unless Redis has lost          *)
(* something, every change that was committed has reached every tab that   *)
(* is subscribed, on every instance.  A read receipt need not reach its    *)
(* author.                                                                 *)
(***************************************************************************)
SentIsDelivered ==
  Quiet /\ ~dropped =>
    \A n \in DOMAIN log, t \in Tabs :
      \/ UserOf[t] \notin Subscribed
      \/ log[n].kind = "new" /\ rows[log[n].message].file # NoFile
      \/ log[n].kind = "read" /\ log[n].by = UserOf[t]
      \/ got[t][Change(n)] = 1

(***************************************************************************)
(* The same for every message, those that carry a file included.           *)
(***************************************************************************)
PostedIsDelivered ==
  Quiet /\ ~dropped =>
    \A n \in DOMAIN log, t \in Tabs :
      log[n].kind = "new" /\ UserOf[t] \in Subscribed => got[t][Change(n)] = 1

(***************************************************************************)
(* Nobody a message concerns is passed over, whichever of the three loops  *)
(* of handle_send_message leaves them to another: who is mentioned,        *)
(* replied to, or the other member of a direct channel has a notification, *)
(* nobody else has one, and a mention counts as unread until the message   *)
(* is read.                                                                *)
(***************************************************************************)
ConcernedAreNotified ==
  Quiet => \A m \in DOMAIN rows : rows[m].file = NoFile =>
    LET others == Users \ {rows[m].author}
        mentioned == Mentioned(rows[m].tokens) \cap others
        replied == IF rows[m].reply = 0 THEN {} ELSE {rows[rows[m].reply].author} \cap others
        direct == IF channel.direct THEN Members \cap others ELSE {}
    IN /\ {notes[k].to : k \in {k \in DOMAIN notes : notes[k].message = m}}
            = mentioned \cup replied \cup direct
       /\ \A u \in mentioned : <<m, u>> \in mentions \/ m <= readState[u].at

(***************************************************************************)
(* A user's read point never goes back, however the requests of two tabs   *)
(* are ordered by the workers, it names the message it stands at, and a    *)
(* mention disappears only when the read point has passed it.              *)
(***************************************************************************)
ReadPointAdvances ==
  [][ /\ \A u \in Users :
           readState'[u] # readState[u] =>
             readState'[u].at > readState[u].at /\ readState'[u].message = readState'[u].at
      /\ \A p \in mentions \ mentions' : p[1] <= readState'[p[2]].at ]_vars

(***************************************************************************)
(* Every live message finds its attachment, and nothing is left in the     *)
(* storage when its message is deleted, whoever deleted it.                *)
(***************************************************************************)
BlobsMatchMessages ==
  /\ \A m \in DOMAIN rows :
       rows[m].file # NoFile /\ ~rows[m].deleted => rows[m].file \in blobs
  /\ Quiet => \A f \in blobs : \E m \in DOMAIN rows : rows[m].file = f /\ ~rows[m].deleted
=============================================================================
