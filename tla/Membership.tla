------------------------------ MODULE Membership ------------------------------
(***************************************************************************)
(* Who belongs to what: the members, roles, settings and archival of a     *)
(* space, of its channels, of standalone channels and of conversations     *)
(* (backend/src/handlers/channel_handler.cpp and space_handler.cpp, with   *)
(* the statements of db/database.cpp they execute).                        *)
(*                                                                         *)
(* A request is served by one worker.  Every write of a handler is a step, *)
(* since each is a transaction of its own, and so is every read that comes *)
(* after a write or that decides a later one by counting or listing rows;  *)
(* the reads that a handler begins with (role, channel, space, user) are   *)
(* one step, the check.  What a handler tells the sockets afterwards is    *)
(* the subject of WsHub.                                                   *)
(***************************************************************************)
EXTENDS Naturals, Sequences, FiniteSets

CONSTANTS
  Users, Workers,
  Channels,       \* the rows of the channels table, used or not yet
  Scenarios       \* initial contents of the tables and what is asked of them

\* A default role may be any string, and so the role of whoever is given it.
OtherRole == "other"
NamedChannelRoles == {"read", "write", "admin"}
ChannelRoles == NamedChannelRoles \cup {OtherRole}
NamedSpaceRoles == {"user", "admin", "owner"}
SpaceRoles == NamedSpaceRoles \cup {OtherRole}
Out == ""         \* the role of somebody who is no member

\* What PUT /api/channels/:id may change, and the rest of a row.
ChannelSettings == [public : BOOLEAN, defaultRole : ChannelRoles, defaultJoin : BOOLEAN]
SettingNames == {"public", "defaultRole", "defaultJoin"}
ChannelRows == [direct : BOOLEAN, inSpace : BOOLEAN, archived : BOOLEAN,
                public : BOOLEAN, defaultRole : ChannelRoles, defaultJoin : BOOLEAN]
Unused == [direct |-> "unused"]
SpaceRows == [public : BOOLEAN, personal : BOOLEAN, archived : BOOLEAN,
              defaultRole : SpaceRoles]
Invites == [to : Users, role : SpaceRoles, status : {"pending", "accepted", "declined"}]

\* The values that a request gives for some of the settings.
SomeOf(values) == {[f \in F |-> v[f]] : v \in values, F \in SUBSET SettingNames}

Requests ==
  [op : {"join", "leave", "archive", "unarchive"}, by : Users, on : Channels]
    \cup [op : {"add"}, by : Users, on : Channels, of : Users, role : ChannelRoles \cup {Out}]
    \cup [op : {"role"}, by : Users, on : Channels, of : Users, role : ChannelRoles]
    \cup [op : {"kick", "converse_add"}, by : Users, on : Channels, of : Users]
    \cup [op : {"update"}, by : Users, on : Channels, set : SomeOf(ChannelSettings)]
    \cup [op : {"create", "create_in_space"}, by : Users, with : SUBSET Users,
          set : ChannelSettings]
    \cup [op : {"dm"}, by : Users, of : Users]
    \cup [op : {"converse"}, by : Users, with : SUBSET Users, named : BOOLEAN]
    \cup [op : {"join_space", "leave_space", "archive_space", "unarchive_space"}, by : Users]
    \cup [op : {"update_space"}, by : Users, public : BOOLEAN, defaultRole : SpaceRoles]
    \cup [op : {"invite", "space_role"}, by : Users, of : Users, role : SpaceRoles]
    \cup [op : {"space_kick"}, by : Users, of : Users]
    \cup [op : {"accept", "decline"}, by : Users, invite : Nat \ {0}]
None == [op |-> "none"]

ASSUME MembershipAssumption ==
  /\ IsFiniteSet(Users)
  /\ Unused \notin ChannelRows
  /\ \A s \in Scenarios :
       /\ s.ranks \in [Users -> {"user", "admin", "owner"}]
       /\ s.serverArchived \in BOOLEAN
       /\ s.space \in SpaceRows
       /\ s.standing \in [Users -> SpaceRoles \cup {Out}]
       /\ s.channels \in [Channels -> ChannelRows \cup {Unused}]
       /\ s.roles \in [Channels -> [Users -> ChannelRoles \cup {Out}]]
       /\ s.invites \in Seq(Invites)
       /\ \A c \in Channels :
            IF s.channels[c] = Unused THEN \A u \in Users : s.roles[c][u] = Out
            ELSE s.channels[c].direct =>
                   /\ ~s.channels[c].inSpace
                   /\ \A u \in Users : s.roles[c][u] \in {"write", Out}
       /\ s.atOnce \in Nat
       /\ s.requests \subseteq Requests
       /\ s.budget \in Nat

\* The rows that a scenario starts from are as the handlers write them: whoever
\* creates a channel is its admin, and a public default-join channel of the space
\* that nobody has been removed from, updated or archived has the space's members.
ASSUME StartAssumption ==
  \A s \in Scenarios, c \in Channels :
    LET row == s.channels[c] IN
      row # Unused =>
        /\ s.atOnce = 1 /\ ~row.direct /\ ~row.inSpace /\ ~row.archived
             => \E u \in Users : s.roles[c][u] = "admin"
        /\ row.inSpace /\ row.defaultJoin /\ row.public
             => ~row.archived /\ \A u \in Users : s.standing[u] # Out => s.roles[c][u] # Out

(* What a worker does next for its request.                                *)
Steps ==
  [do : {"idle", "check", "create", "converse", "archive_space", "unarchive_space",
         "list_own_channels", "expel"}]
    \cup [do : {"add"}, on : Channels, who : Users, role : ChannelRoles]
    \cup [do : {"remove", "depart"}, on : Channels, who : Users]
    \cup [do : {"count_admins"}, on : Channels, who : Users, role : ChannelRoles \cup {Out}]
    \cup [do : {"set_role"}, on : Channels, who : Users, role : ChannelRoles]
    \cup [do : {"update"}, on : Channels, row : ChannelSettings]
    \cup [do : {"count_members", "archive", "unarchive", "list_space_members"}, on : Channels]
    \cup [do : {"fill"}, on : Channels, todo : SUBSET Users]
    \cup [do : {"answer"}, invite : Nat \ {0}, status : {"accepted", "declined"}]
    \cup [do : {"create_invite"}, who : Users, role : SpaceRoles]
    \cup [do : {"enter", "set_standing"}, who : Users, role : SpaceRoles]
    \cup [do : {"count_owners"}, who : Users, role : SpaceRoles \cup {Out}]
    \cup [do : {"update_space"}, public : BOOLEAN, defaultRole : SpaceRoles]
    \cup [do : {"list_defaults"}, who : Users]
    \cup [do : {"join_defaults"}, who : Users, todo : SUBSET (Channels \X ChannelRoles)]
    \cup [do : {"leave_channels"}, todo : SUBSET Channels]
Idle == [do |-> "idle"]
Check == [do |-> "check"]

VARIABLES
  \* PostgreSQL
  ranks,           \* users.role
  serverArchived,
  space,           \* the space's row
  standing,        \* space_members
  channels,        \* the rows of channels
  roles,           \* channel_members
  invites,         \* space_invites
  \* the workers
  request,         \* what a worker serves
  step,            \* what it does next
  asked,           \* how many requests at once, of which kinds, and how many to come
  \* history
  left,            \* conversations somebody left, unless kicked from or unarchived since
  removed,         \* who was kicked from or has left which channel
  altered          \* channels archived, unarchived or updated

tables == <<ranks, serverArchived, space, standing, channels, roles, invites>>
history == <<left, removed, altered>>
vars == <<tables, request, step, asked, history>>

Init ==
  /\ \E s \in Scenarios :
       /\ ranks = s.ranks
       /\ serverArchived = s.serverArchived
       /\ space = s.space
       /\ standing = s.standing
       /\ channels = s.channels
       /\ roles = s.roles
       /\ invites = s.invites
       /\ asked = [atOnce |-> s.atOnce, requests |-> s.requests, budget |-> s.budget]
  /\ request = [w \in Workers |-> None]
  /\ step = [w \in Workers |-> Idle]
  /\ left = {} /\ removed = {} /\ altered = {}

-----------------------------------------------------------------------------
(* The workers *)

Goto(w, next) ==
  /\ step' = [step EXCEPT ![w] = next]
  /\ request' = IF next = Idle THEN [request EXCEPT ![w] = None] ELSE request
  /\ UNCHANGED asked
Finish(w) == Goto(w, Idle)

Busy == {w \in Workers : step[w] # Idle}
Does(w, do) == step[w].do = do
Checks(w, op) == Does(w, "check") /\ request[w].op = op

\* The check of a handler: refuse, or go on to the next step.
Decide(w, allowed, next) ==
  /\ Goto(w, IF allowed THEN next ELSE Idle)
  /\ UNCHANGED <<tables, history>>

Exists(c) == channels[c] # Unused
\* The bound Channels: an INSERT finds a row that is not in use.
RowLeft == \E c \in Channels : ~Exists(c)
NewChannel == CHOOSE c \in Channels : ~Exists(c)

\* A request about a channel, or an invite, that exists.
Start(w) ==
  /\ step[w] = Idle
  /\ Cardinality(Busy) < asked.atOnce
  /\ asked.budget > 0
  /\ \E r \in asked.requests :
       /\ "on" \in DOMAIN r => Exists(r.on)
       /\ "invite" \in DOMAIN r => r.invite \in DOMAIN invites
       /\ request' = [request EXCEPT ![w] = r]
       /\ step' = [step EXCEPT ![w] =
            CASE r.op = "create" -> [do |-> "create"]
              [] r.op = "converse" /\ (r.named \/ Cardinality(r.with \ {r.by}) # 1)
                   -> [do |-> "converse"]
              [] OTHER -> Check]
  /\ asked' = [asked EXCEPT !.budget = @ - 1]
  /\ UNCHANGED <<tables, history>>

-----------------------------------------------------------------------------
(* Roles *)

ServerAdmin(u) == ranks[u] \in {"admin", "owner"}
SpaceAdmin(u) == standing[u] \in {"admin", "owner"}

\* get_effective_role.
EffectiveRole(c, u) ==
  IF ServerAdmin(u) \/ (channels[c].inSpace /\ SpaceAdmin(u)) THEN "admin" ELSE roles[c][u]

\* space_role_rank, and that of an actor, who may be a server admin.
SpaceRank(role) == CASE role = "owner" -> 2 [] role = "admin" -> 1 [] OTHER -> 0
ActorRank(u) ==
  IF ranks[u] = "owner" THEN 2
  ELSE IF ranks[u] = "admin" /\ SpaceRank(standing[u]) < 1 THEN 1
  ELSE SpaceRank(standing[u])

MembersOf(c) == {u \in Users : roles[c][u] # Out}
AdminsOf(c) == {u \in Users : roles[c][u] = "admin"}
Owners == {u \in Users : standing[u] = "owner"}

-----------------------------------------------------------------------------
(* Channels: the checks of the handlers *)

CheckJoin(w) ==
  /\ Checks(w, "join")
  /\ LET c == request[w].on  u == request[w].by
         admin == ServerAdmin(u) \/ (channels[c].inSpace /\ SpaceAdmin(u))
     IN Decide(w, ~channels[c].direct /\ (channels[c].public \/ admin),
               [do |-> "add", on |-> c, who |-> u,
                role |-> IF admin THEN "admin" ELSE channels[c].defaultRole])

\* Mutant: only a role that is asked for is looked at, and no default is given.
CheckAddWithoutRole(w) ==
  /\ Checks(w, "add")
  /\ LET r == request[w] IN
     Decide(w, EffectiveRole(r.on, r.by) = "admin" /\ r.role \in NamedChannelRoles \cup {Out},
            [do |-> "add", on |-> r.on, who |-> r.of, role |-> r.role])

\* Nobody's rank in a channel is above the admin's that is required here.  A
\* default role that has no name is refused like one that is asked for.
CheckAdd(w) ==
  /\ Checks(w, "add")
  /\ LET r == request[w]
         role == IF r.role = Out THEN channels[r.on].defaultRole ELSE r.role
     IN Decide(w, EffectiveRole(r.on, r.by) = "admin" /\ role \in NamedChannelRoles,
               [do |-> "add", on |-> r.on, who |-> r.of, role |-> role])

CheckConverseAdd(w) ==
  /\ Checks(w, "converse_add")
  /\ LET r == request[w] IN
     Decide(w, r.by \in MembersOf(r.on),
            [do |-> "add", on |-> r.on, who |-> r.of, role |-> "write"])

CheckKick(w) ==
  /\ Checks(w, "kick")
  /\ LET r == request[w] IN
     Decide(w, EffectiveRole(r.on, r.by) = "admin" /\ r.of # r.by,
            [do |-> "remove", on |-> r.on, who |-> r.of])

\* An admin is demoted by nobody else, and not as the last one.
CheckRole(w) ==
  /\ Checks(w, "role")
  /\ LET r == request[w]
         demoted == roles[r.on][r.of] = "admin" /\ r.role # "admin"
     IN Decide(w, /\ EffectiveRole(r.on, r.by) = "admin" /\ r.role \in NamedChannelRoles
                  /\ demoted => r.of = r.by,
               [do |-> IF demoted THEN "count_admins" ELSE "set_role",
                on |-> r.on, who |-> r.of, role |-> r.role])

\* The settings that the request leaves out are those read now; the default role
\* is taken as it comes.
CheckUpdate(w) ==
  /\ Checks(w, "update")
  /\ LET r == request[w] IN
     Decide(w, EffectiveRole(r.on, r.by) = "admin",
            [do |-> "update", on |-> r.on,
             row |-> [f \in SettingNames |->
                       IF f \in DOMAIN r.set THEN r.set[f] ELSE channels[r.on][f]]])

CheckLeave(w) ==
  /\ Checks(w, "leave")
  /\ LET c == request[w].on  u == request[w].by IN
     Decide(w, u \in MembersOf(c),
            IF channels[c].direct
            THEN [do |-> "depart", on |-> c, who |-> u]
            ELSE IF u \in AdminsOf(c) /\ ~channels[c].archived
            THEN [do |-> "count_admins", on |-> c, who |-> u, role |-> Out]
            ELSE [do |-> "remove", on |-> c, who |-> u])

CheckArchive(w) ==
  /\ Checks(w, "archive")
  /\ LET c == request[w].on IN
     Decide(w, EffectiveRole(c, request[w].by) = "admin", [do |-> "archive", on |-> c])

CheckUnarchive(w) ==
  /\ Checks(w, "unarchive")
  /\ LET c == request[w].on IN
     Decide(w, /\ EffectiveRole(c, request[w].by) = "admin"
               /\ ~(channels[c].inSpace /\ space.archived),
            [do |-> "unarchive", on |-> c])

CheckCreateInSpace(w) ==
  /\ Checks(w, "create_in_space")
  /\ Decide(w, ~space.personal /\ (ServerAdmin(request[w].by) \/ SpaceAdmin(request[w].by)),
            [do |-> "create"])

\* find_dm_channel, for a DM and for a nameless conversation of two.
FindDirect(w) ==
  /\ step[w] = Check
  /\ request[w].op \in {"dm", "converse"}
  /\ LET u == request[w].by
         pair == {u} \cup IF request[w].op = "dm" THEN {request[w].of} ELSE request[w].with
     IN Decide(w, ~\E c \in Channels :
                     Exists(c) /\ channels[c].direct /\ MembersOf(c) = pair,
               [do |-> "converse"])

-----------------------------------------------------------------------------
(* Channels: what the handlers write *)

SetRoles(c, f) == roles' = [roles EXCEPT ![c] = f]

\* add_channel_member: ON CONFLICT DO NOTHING.
Adding(c, U, role) ==
  [u \in Users |-> IF u \in U /\ roles[c][u] = Out THEN role ELSE roles[c][u]]

AddMember(w) ==
  /\ Does(w, "add")
  /\ LET s == step[w] IN SetRoles(s.on, Adding(s.on, {s.who}, s.role))
  /\ Finish(w)
  /\ UNCHANGED <<ranks, serverArchived, space, standing, channels, invites, history>>

\* remove_channel_member, for a kick and for leaving a regular channel.
RemoveMember(w) ==
  /\ Does(w, "remove")
  /\ LET c == step[w].on  u == step[w].who IN
       /\ SetRoles(c, [roles[c] EXCEPT ![u] = Out])
       /\ left' = left \ {c}
       /\ removed' = removed \cup {<<c, u>>}
  /\ Finish(w)
  /\ UNCHANGED <<ranks, serverArchived, space, standing, channels, invites, altered>>

\* Mutant: the last admin is let go.
CountAdminsOffByOne(w) ==
  /\ Does(w, "count_admins")
  /\ LET s == step[w] IN
     Decide(w, Cardinality(AdminsOf(s.on)) >= 1,
            IF s.role = Out THEN [do |-> "remove", on |-> s.on, who |-> s.who]
            ELSE [do |-> "set_role", on |-> s.on, who |-> s.who, role |-> s.role])

\* count_channel_members_with_role, before an admin leaves or steps down.
CountAdmins(w) ==
  /\ Does(w, "count_admins")
  /\ LET s == step[w] IN
     Decide(w, Cardinality(AdminsOf(s.on)) > 1,
            IF s.role = Out THEN [do |-> "remove", on |-> s.on, who |-> s.who]
            ELSE [do |-> "set_role", on |-> s.on, who |-> s.who, role |-> s.role])

\* update_member_role: an UPDATE, which finds a member or nothing.
SetRole(w) ==
  /\ Does(w, "set_role")
  /\ LET s == step[w] IN
     SetRoles(s.on, [roles[s.on] EXCEPT ![s.who] = IF @ = Out THEN Out ELSE s.role])
  /\ Finish(w)
  /\ UNCHANGED <<ranks, serverArchived, space, standing, channels, invites, history>>

Alter(c, row) ==
  /\ channels' = [channels EXCEPT ![c] = row]
  /\ altered' = altered \cup {c}

UpdateChannel(w) ==
  /\ Does(w, "update")
  /\ LET c == step[w].on IN
     Alter(c, [f \in DOMAIN channels[c] |->
                IF f \in SettingNames THEN step[w].row[f] ELSE channels[c][f]])
  /\ Finish(w)
  /\ UNCHANGED <<ranks, serverArchived, space, standing, roles, invites, left, removed>>

ArchiveChannel(w) ==
  /\ Does(w, "archive")
  /\ Alter(step[w].on, [channels[step[w].on] EXCEPT !.archived = TRUE])
  /\ Finish(w)
  /\ UNCHANGED <<ranks, serverArchived, space, standing, roles, invites, left, removed>>

UnarchiveChannel(w) ==
  /\ Does(w, "unarchive")
  /\ Alter(step[w].on, [channels[step[w].on] EXCEPT !.archived = FALSE])
  /\ left' = left \ {step[w].on}
  /\ Finish(w)
  /\ UNCHANGED <<ranks, serverArchived, space, standing, roles, invites, removed>>

\* Mutant: the members that remain are counted before the member is removed.
DepartCountingFirst(w) ==
  /\ Does(w, "depart")
  /\ LET c == step[w].on  u == step[w].who IN
       /\ SetRoles(c, [roles[c] EXCEPT ![u] = Out])
       /\ left' = left \cup {c}
       /\ Goto(w, IF Cardinality(MembersOf(c)) <= 1 THEN [do |-> "archive", on |-> c] ELSE Idle)
  /\ UNCHANGED <<ranks, serverArchived, space, standing, channels, invites,
                 removed, altered>>

\* Leaving a conversation: remove, count, archive if one member or none is left.
Depart(w) ==
  /\ Does(w, "depart")
  /\ LET c == step[w].on  u == step[w].who IN
       /\ SetRoles(c, [roles[c] EXCEPT ![u] = Out])
       /\ left' = left \cup {c}
       /\ Goto(w, [do |-> "count_members", on |-> c])
  /\ UNCHANGED <<ranks, serverArchived, space, standing, channels, invites,
                 removed, altered>>

CountMembers(w) ==
  /\ Does(w, "count_members")
  /\ Decide(w, Cardinality(MembersOf(step[w].on)) <= 1,
            [do |-> "archive", on |-> step[w].on])

\* POST /api/channels makes "write" of a default role that has no name; a channel
\* of a space takes it as it comes.
DefaultRole(r) ==
  IF r.op = "create" /\ r.set.defaultRole \notin NamedChannelRoles THEN "write" ELSE r.set.defaultRole

\* Mutant: who is in the space already is not taken into a default-join channel.
CreateChannelUnfilled(w) ==
  /\ Does(w, "create")
  /\ RowLeft
  /\ LET r == request[w]  c == NewChannel  inSpace == r.op = "create_in_space" IN
       /\ channels' = [channels EXCEPT ![c] =
            [direct |-> FALSE, inSpace |-> inSpace, archived |-> FALSE,
             public |-> r.set.public, defaultRole |-> DefaultRole(r),
             defaultJoin |-> inSpace /\ r.set.defaultJoin]]
       /\ SetRoles(c, [u \in Users |->
            IF u = r.by THEN "admin" ELSE IF u \in r.with THEN DefaultRole(r) ELSE Out])
       /\ Goto(w, IF inSpace /\ r.set.public /\ ~r.set.defaultJoin
                  THEN [do |-> "list_space_members", on |-> c] ELSE Idle)
  /\ UNCHANGED <<ranks, serverArchived, space, standing, invites, history>>

\* create_channel, and whom a public channel of the space takes in afterwards.
CreateChannel(w) ==
  /\ Does(w, "create")
  /\ RowLeft
  /\ LET r == request[w]  c == NewChannel  inSpace == r.op = "create_in_space" IN
       /\ channels' = [channels EXCEPT ![c] =
            [direct |-> FALSE, inSpace |-> inSpace, archived |-> FALSE,
             public |-> r.set.public, defaultRole |-> DefaultRole(r),
             defaultJoin |-> inSpace /\ r.set.defaultJoin]]
       /\ SetRoles(c, [u \in Users |->
            IF u = r.by THEN "admin" ELSE IF u \in r.with THEN DefaultRole(r) ELSE Out])
       /\ Goto(w, IF inSpace /\ r.set.public THEN [do |-> "list_space_members", on |-> c] ELSE Idle)
  /\ UNCHANGED <<ranks, serverArchived, space, standing, invites, history>>

ListSpaceMembers(w) ==
  /\ Does(w, "list_space_members")
  /\ Goto(w, [do |-> "fill", on |-> step[w].on,
              todo |-> {u \in Users : standing[u] # Out}])
  /\ UNCHANGED <<tables, history>>

Fill(w) ==
  /\ Does(w, "fill")
  /\ LET s == step[w]  c == s.on IN
       \/ /\ s.todo = {}
          /\ Finish(w)
          /\ UNCHANGED roles
       \/ \E u \in s.todo :
            /\ SetRoles(c, Adding(c, {u}, DefaultRole(request[w])))
            /\ Goto(w, [s EXCEPT !.todo = @ \ {u}])
  /\ UNCHANGED <<ranks, serverArchived, space, standing, channels, invites, history>>

\* Mutant: create_channel makes the creator of a DM its admin.
CreateDirectWithAdmin(w) ==
  /\ Does(w, "converse")
  /\ RowLeft
  /\ LET r == request[w]  c == NewChannel
         members == {r.by} \cup IF r.op = "dm" THEN {r.of} ELSE r.with
     IN /\ channels' = [channels EXCEPT ![c] =
             [direct |-> TRUE, inSpace |-> FALSE, archived |-> FALSE,
              public |-> r.op = "dm", defaultRole |-> "write", defaultJoin |-> FALSE]]
        /\ SetRoles(c, [u \in Users |->
             IF u = r.by THEN "admin" ELSE IF u \in members THEN "write" ELSE Out])
  /\ Finish(w)
  /\ UNCHANGED <<ranks, serverArchived, space, standing, invites, history>>

\* create_channel for a DM, create_conversation otherwise.
CreateDirect(w) ==
  /\ Does(w, "converse")
  /\ RowLeft
  /\ LET r == request[w]  c == NewChannel
         members == {r.by} \cup IF r.op = "dm" THEN {r.of} ELSE r.with
     IN /\ channels' = [channels EXCEPT ![c] =
             [direct |-> TRUE, inSpace |-> FALSE, archived |-> FALSE,
              public |-> r.op = "dm", defaultRole |-> "write", defaultJoin |-> FALSE]]
        /\ SetRoles(c, [u \in Users |-> IF u \in members THEN "write" ELSE Out])
  /\ Finish(w)
  /\ UNCHANGED <<ranks, serverArchived, space, standing, invites, history>>

-----------------------------------------------------------------------------
(* The space: the checks of the handlers *)

CheckUpdateSpace(w) ==
  /\ Checks(w, "update_space")
  /\ LET r == request[w] IN
     Decide(w, SpaceAdmin(r.by) \/ ServerAdmin(r.by),
            [do |-> "update_space", public |-> r.public, defaultRole |-> r.defaultRole])

CheckJoinSpace(w) ==
  /\ Checks(w, "join_space")
  /\ Decide(w, space.public,
            [do |-> "enter", who |-> request[w].by, role |-> space.defaultRole])

CheckInvite(w) ==
  /\ Checks(w, "invite")
  /\ LET r == request[w] IN
     Decide(w, /\ ~space.personal
               /\ SpaceAdmin(r.by) \/ ServerAdmin(r.by)
               /\ r.role \in NamedSpaceRoles /\ SpaceRank(r.role) <= ActorRank(r.by)
               /\ standing[r.of] = Out
               /\ \A i \in DOMAIN invites : invites[i].to = r.of => invites[i].status # "pending",
            [do |-> "create_invite", who |-> r.of, role |-> r.role])

CheckAnswer(w) ==
  /\ step[w] = Check
  /\ request[w].op \in {"accept", "decline"}
  /\ LET r == request[w] IN
     Decide(w, invites[r.invite].to = r.by /\ invites[r.invite].status = "pending",
            [do |-> "answer", invite |-> r.invite,
             status |-> IF r.op = "accept" THEN "accepted" ELSE "declined"])

CheckSpaceKick(w) ==
  /\ Checks(w, "space_kick")
  /\ Decide(w, SpaceAdmin(request[w].by) \/ ServerAdmin(request[w].by), [do |-> "expel"])

CheckSpaceRole(w) ==
  /\ Checks(w, "space_role")
  /\ LET r == request[w]
         new == SpaceRank(r.role)  old == SpaceRank(standing[r.of])  own == ActorRank(r.by)
         steppingDown == standing[r.of] = "owner" /\ r.role # "owner"
     IN Decide(w, /\ SpaceAdmin(r.by) \/ ServerAdmin(r.by)
                  /\ r.role \in NamedSpaceRoles /\ new <= own
                  /\ new < old /\ old >= own => r.of = r.by,
               [do |-> IF steppingDown THEN "count_owners" ELSE "set_standing",
                who |-> r.of, role |-> r.role])

CheckLeaveSpace(w) ==
  /\ Checks(w, "leave_space")
  /\ LET u == request[w].by IN
     Decide(w, ~space.personal /\ standing[u] # Out,
            IF standing[u] = "owner" /\ ~space.archived
            THEN [do |-> "count_owners", who |-> u, role |-> Out]
            ELSE [do |-> "list_own_channels"])

CheckArchiveSpace(w) ==
  /\ Checks(w, "archive_space")
  /\ LET u == request[w].by IN
     Decide(w, ~space.personal /\ (standing[u] = "owner" \/ ServerAdmin(u)),
            [do |-> "archive_space"])

CheckUnarchiveSpace(w) ==
  /\ Checks(w, "unarchive_space")
  /\ LET u == request[w].by IN
     Decide(w, (standing[u] = "owner" \/ ServerAdmin(u)) /\ ~serverArchived,
            [do |-> "unarchive_space"])

-----------------------------------------------------------------------------
(* The space: what the handlers write *)

OfSpace == {c \in Channels : Exists(c) /\ channels[c].inSpace}

UpdateSpace(w) ==
  /\ Does(w, "update_space")
  /\ space' = [space EXCEPT !.public = step[w].public, !.defaultRole = step[w].defaultRole]
  /\ Finish(w)
  /\ UNCHANGED <<ranks, serverArchived, standing, channels, roles, invites, history>>

CreateInvite(w) ==
  /\ Does(w, "create_invite")
  /\ invites' = Append(invites, [to |-> step[w].who, role |-> step[w].role,
                                 status |-> "pending"])
  /\ Finish(w)
  /\ UNCHANGED <<ranks, serverArchived, space, standing, channels, roles, history>>

\* update_space_invite_status, whatever the status has become since the check.
Answer(w) ==
  /\ Does(w, "answer")
  /\ LET i == step[w].invite IN
       /\ invites' = [invites EXCEPT ![i].status = step[w].status]
       /\ Goto(w, IF step[w].status = "declined" THEN Idle
                  ELSE [do |-> "enter", who |-> invites[i].to, role |-> invites[i].role])
  /\ UNCHANGED <<ranks, serverArchived, space, standing, channels, roles, history>>

\* add_space_member: ON CONFLICT DO NOTHING.
Enter(w) ==
  /\ Does(w, "enter")
  /\ LET u == step[w].who IN
       /\ standing' = [standing EXCEPT ![u] = IF @ = Out THEN step[w].role ELSE @]
       /\ Goto(w, [do |-> "list_defaults", who |-> u])
  /\ UNCHANGED <<ranks, serverArchived, space, channels, roles, invites, history>>

\* get_default_join_channels
ListDefaults(w) ==
  /\ Does(w, "list_defaults")
  /\ Goto(w, [do |-> "join_defaults", who |-> step[w].who,
              todo |-> {<<c, channels[c].defaultRole>> :
                         c \in {d \in OfSpace : channels[d].defaultJoin /\ ~channels[d].archived}}])
  /\ UNCHANGED <<tables, history>>

JoinDefault(w) ==
  /\ Does(w, "join_defaults")
  /\ LET s == step[w] IN
       \/ /\ s.todo = {}
          /\ Finish(w)
          /\ UNCHANGED roles
       \/ \E d \in s.todo :
            /\ SetRoles(d[1], Adding(d[1], {s.who}, d[2]))
            /\ Goto(w, [s EXCEPT !.todo = @ \ {d}])
  /\ UNCHANGED <<ranks, serverArchived, space, standing, channels, invites, history>>

\* count_space_members_with_role, before an owner leaves or steps down.
CountOwners(w) ==
  /\ Does(w, "count_owners")
  /\ Decide(w, Cardinality(Owners) > 1,
            IF step[w].role = Out THEN [do |-> "list_own_channels"]
            ELSE [do |-> "set_standing", who |-> step[w].who, role |-> step[w].role])

\* update_space_member_role: an UPDATE, which finds a member or nothing.
SetStanding(w) ==
  /\ Does(w, "set_standing")
  /\ standing' = [standing EXCEPT ![step[w].who] = IF @ = Out THEN Out ELSE step[w].role]
  /\ Finish(w)
  /\ UNCHANGED <<ranks, serverArchived, space, channels, roles, invites, history>>

\* Leaving the space: list_user_channels, leave each, leave the space.
ListOwnChannels(w) ==
  /\ Does(w, "list_own_channels")
  /\ Goto(w, [do |-> "leave_channels",
              todo |-> {c \in OfSpace : request[w].by \in MembersOf(c)}])
  /\ UNCHANGED <<tables, history>>

LeaveChannels(w) ==
  /\ Does(w, "leave_channels")
  /\ LET s == step[w]  u == request[w].by IN
       \/ /\ s.todo = {}
          /\ Goto(w, [do |-> "expel"])
          /\ UNCHANGED <<roles, removed>>
       \/ \E c \in s.todo :
            /\ SetRoles(c, [roles[c] EXCEPT ![u] = Out])
            /\ removed' = removed \cup {<<c, u>>}
            /\ Goto(w, [s EXCEPT !.todo = @ \ {c}])
  /\ UNCHANGED <<ranks, serverArchived, space, standing, channels, invites, left, altered>>

\* remove_space_member: out of the space and of its channels at once.
Expel(w) ==
  /\ Does(w, "expel")
  /\ LET u == IF request[w].op = "space_kick" THEN request[w].of ELSE request[w].by IN
       /\ standing' = [standing EXCEPT ![u] = Out]
       /\ roles' = [c \in Channels |->
            IF c \in OfSpace THEN [roles[c] EXCEPT ![u] = Out] ELSE roles[c]]
  /\ Finish(w)
  /\ UNCHANGED <<ranks, serverArchived, space, channels, invites, history>>

\* archive_space and unarchive_space: the space and its channels at once.
SetArchived(archived) ==
  /\ space' = [space EXCEPT !.archived = archived]
  /\ channels' = [c \in Channels |->
       IF c \in OfSpace THEN [channels[c] EXCEPT !.archived = archived] ELSE channels[c]]
  /\ altered' = altered \cup OfSpace

ArchiveSpace(w) ==
  /\ Does(w, "archive_space")
  /\ SetArchived(TRUE)
  /\ Finish(w)
  /\ UNCHANGED <<ranks, serverArchived, standing, roles, invites, left, removed>>

UnarchiveSpace(w) ==
  /\ Does(w, "unarchive_space")
  /\ SetArchived(FALSE)
  /\ Finish(w)
  /\ UNCHANGED <<ranks, serverArchived, standing, roles, invites, left, removed>>

-----------------------------------------------------------------------------
Checking(w) ==
  \/ CheckJoin(w) \/ CheckAdd(w) \/ CheckConverseAdd(w) \/ CheckKick(w) \/ CheckRole(w)
  \/ CheckUpdate(w) \/ CheckLeave(w) \/ CheckArchive(w) \/ CheckUnarchive(w)
  \/ CheckCreateInSpace(w) \/ FindDirect(w)
  \/ CheckUpdateSpace(w) \/ CheckJoinSpace(w) \/ CheckInvite(w) \/ CheckAnswer(w)
  \/ CheckSpaceKick(w) \/ CheckSpaceRole(w) \/ CheckLeaveSpace(w)
  \/ CheckArchiveSpace(w) \/ CheckUnarchiveSpace(w)

Reading(w) ==
  \/ CountAdmins(w) \/ CountMembers(w) \/ ListSpaceMembers(w)
  \/ CountOwners(w) \/ ListDefaults(w) \/ ListOwnChannels(w)

Writing(w) ==
  \/ AddMember(w) \/ RemoveMember(w) \/ SetRole(w) \/ UpdateChannel(w)
  \/ ArchiveChannel(w) \/ UnarchiveChannel(w) \/ Depart(w)
  \/ CreateChannel(w) \/ Fill(w) \/ CreateDirect(w)
  \/ UpdateSpace(w) \/ CreateInvite(w) \/ Answer(w) \/ Enter(w) \/ JoinDefault(w)
  \/ SetStanding(w) \/ LeaveChannels(w) \/ Expel(w)
  \/ ArchiveSpace(w) \/ UnarchiveSpace(w)

Next == \E w \in Workers : Start(w) \/ Checking(w) \/ Reading(w) \/ Writing(w)

Spec == Init /\ [][Next]_vars

-----------------------------------------------------------------------------
(* Properties *)

\* The tables hold rows of their columns, and a worker a request and a step of
\* it: a row that some handler writes is one that every other handler can read.
TableTypes ==
  /\ ranks \in [Users -> {"user", "admin", "owner"}]
  /\ serverArchived \in BOOLEAN
  /\ space \in SpaceRows
  /\ standing \in [Users -> SpaceRoles \cup {Out}]
  /\ channels \in [Channels -> ChannelRows \cup {Unused}]
  /\ roles \in [Channels -> [Users -> ChannelRoles \cup {Out}]]
  /\ invites \in Seq(Invites)
WorkerTypes ==
  /\ request \in [Workers -> Requests \cup {None}]
  /\ step \in [Workers -> Steps]
  /\ \A w \in Workers : request[w] = None <=> step[w] = Idle
  /\ asked \in [atOnce : Nat, requests : SUBSET Requests, budget : Nat]
TypeOK == TableTypes /\ WorkerTypes

Serves(w, op) == request[w].op = op
Quiet == Busy = {}

\* "auto-archive if <=1 remains" (channel_handler.cpp:977): whoever leaves last
\* but one, and however the requests of several members interleave, nobody is
\* left alone in a conversation that is not archived.
LeftAloneArchived ==
  (\A w \in Workers : ~Serves(w, "leave")) =>
    \A c \in left : Cardinality(MembersOf(c)) <= 1 => channels[c].archived

\* A public default-join channel that is created while somebody enters the space
\* takes them in: the creator lists the members after it has inserted the
\* channel, who enters lists the channels after they have become a member.
NoMissedDefaultChannel ==
  Quiet =>
    \A c \in OfSpace \ altered, u \in Users :
      /\ channels[c].defaultJoin /\ channels[c].public
      /\ standing[u] # Out
      /\ <<c, u>> \notin removed
      => u \in MembersOf(c)

\* "You are the last admin. Assign a new admin or archive the channel."
\* (channel_handler.cpp:1035): as long as requests are served one at a time no
\* sequence of them leaves a standalone channel in use without an admin, though
\* an admin may be kicked, demote themselves, leave and unarchive.
AdminRemains ==
  asked.atOnce = 1 /\ (\A u \in Users : ~ServerAdmin(u)) =>
    \A c \in Channels :
      Exists(c) /\ ~channels[c].direct /\ ~channels[c].inSpace /\ ~channels[c].archived
        => AdminsOf(c) # {}

\* The members of a conversation are equals: everybody's role is the "write"
\* that the handlers tell them (channel_handler.cpp:1357), whoever created the
\* conversation, was added to it or left it.
DirectMembersWrite ==
  (\A u \in Users : ~ServerAdmin(u)) =>
    \A c \in Channels : Exists(c) /\ channels[c].direct =>
      \A u \in MembersOf(c) : roles[c][u] = "write"
=============================================================================
