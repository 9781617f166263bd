--------------------------- MODULE MembershipProofs ---------------------------
(***************************************************************************)
(* Proofs about Membership for every set of users, workers and channels:   *)
(* its types, that the members of a conversation stay equals, that a       *)
(* conversation archives itself when its last member leaves, that a member *)
(* of the space is in its default-join channels, and that a standalone     *)
(* channel keeps an admin.                                                 *)
(***************************************************************************)
EXTENDS Membership, FiniteSetTheorems, TLAPS

(* What the step s of a request r relies on: the rows it is about exist,   *)
(* and the request has the fields that the step reads.                     *)
OfChannel == {"add", "remove", "depart", "count_admins", "set_role", "update",
              "count_members", "archive", "unarchive", "list_space_members", "fill"}
AboutChannel == {"join", "leave", "archive", "unarchive", "add", "role", "kick",
                 "converse_add", "update"}
Fits(s, r) ==
  /\ s.do \in OfChannel => Exists(s.on)
  /\ s.do = "join_defaults" => \A d \in s.todo : Exists(d[1])
  /\ s.do = "answer" => s.invite \in DOMAIN invites
  /\ s.do = "check" /\ r.op \in AboutChannel => Exists(r.on)
  /\ s.do = "check" /\ r.op \in {"accept", "decline"} => r.invite \in DOMAIN invites
  /\ s.do \in {"create", "list_space_members", "fill"} => r.op \in {"create", "create_in_space"}
  /\ s.do = "converse" => r.op \in {"dm", "converse"}
  /\ s.do \in {"list_own_channels", "leave_channels"} => r.op = "leave_space"
  /\ s.do = "count_owners" /\ s.role = Out => r.op = "leave_space"
  /\ s.do = "expel" => r.op \in {"space_kick", "leave_space"}
  /\ s.do \in {"depart", "count_members"} => r.op = "leave" /\ channels[s.on].direct
  /\ s.do = "leave_channels" => \A c \in s.todo : Exists(c) /\ channels[c].inSpace

(* What a step may do to a conversation when nobody has a rank.            *)
NoRank == \A u \in Users : ~ServerAdmin(u)
Equal(s) ==
  /\ s.do = "add" /\ channels[s.on].direct => s.role = "write"
  /\ s.do \in {"count_admins", "set_role", "list_space_members", "fill"} => ~channels[s.on].direct
  /\ s.do = "join_defaults" => \A d \in s.todo : ~channels[d[1]].direct

Empty == \A c \in Channels, u \in Users : ~Exists(c) => roles[c][u] = Out
Apart == \A c \in Channels : Exists(c) /\ channels[c].direct => ~channels[c].inSpace
Steady == \A w \in Workers : Fits(step[w], request[w])
Equals == NoRank => \A w \in Workers : Equal(step[w])

Inv == TypeOK /\ Empty /\ Apart /\ Steady /\ Equals /\ DirectMembersWrite

-----------------------------------------------------------------------------
(* The fields of requests and steps *)

LEMMA RequestFields ==
  ASSUME NEW r \in Requests
  PROVE  /\ r.by \in Users
         /\ r.op \in AboutChannel => r.on \in Channels
         /\ r.op \in {"add", "role", "kick", "converse_add", "dm", "invite", "space_role",
                      "space_kick"} => r.of \in Users
         /\ r.op = "add" => r.role \in ChannelRoles \cup {Out}
         /\ r.op = "role" => r.role \in ChannelRoles
         /\ r.op \in {"invite", "space_role"} => r.role \in SpaceRoles
         /\ r.op \in {"create", "create_in_space"} =>
              r.with \in SUBSET Users /\ r.set \in ChannelSettings
         /\ r.op = "converse" => r.with \in SUBSET Users
         /\ r.op = "update_space" => r.public \in BOOLEAN /\ r.defaultRole \in SpaceRoles
         /\ r.op \in {"accept", "decline"} => r.invite \in Nat \ {0}
         /\ r.op = "update" => r.set \in SomeOf(ChannelSettings)
  BY DEF Requests, AboutChannel

\* The roles: a name or whatever string a default role was given.
LEMMA RoleNames ==
  /\ {"read", "write", "admin"} \subseteq NamedChannelRoles
  /\ NamedChannelRoles \subseteq ChannelRoles
  /\ Out \notin ChannelRoles /\ Out # "admin" /\ Out \notin SpaceRoles
BY DEF NamedChannelRoles, ChannelRoles, NamedSpaceRoles, SpaceRoles, OtherRole, Out

LEMMA DefaultRoleKnown ==
  ASSUME NEW r \in Requests, r.op \in {"create", "create_in_space"}
  PROVE  DefaultRole(r) \in ChannelRoles
<1>1. r.set.defaultRole \in ChannelRoles
  BY RequestFields DEF ChannelSettings
<1> QED BY <1>1, RoleNames DEF DefaultRole

LEMMA SomeSettings ==
  ASSUME NEW values, NEW s \in SomeOf(values)
  PROVE  \E v \in values, F \in SUBSET SettingNames : s = [f \in F |-> v[f]]
  BY SMT DEF SomeOf

LEMMA StepFields ==
  ASSUME NEW s \in Steps
  PROVE  /\ s.do \in OfChannel => s.on \in Channels
         /\ s.do \in {"add", "remove", "depart", "count_admins", "set_role", "create_invite",
                      "enter", "set_standing", "count_owners", "list_defaults",
                      "join_defaults"} => s.who \in Users
         /\ s.do \in {"add", "set_role"} => s.role \in ChannelRoles
         /\ s.do = "count_admins" => s.role \in ChannelRoles \cup {Out}
         /\ s.do = "update" => s.row \in ChannelSettings
         /\ s.do = "fill" => s.todo \in SUBSET Users
         /\ s.do = "answer" => s.invite \in Nat \ {0} /\ s.status \in {"accepted", "declined"}
         /\ s.do \in {"create_invite", "enter", "set_standing"} => s.role \in SpaceRoles
         /\ s.do = "count_owners" => s.role \in SpaceRoles \cup {Out}
         /\ s.do = "update_space" => s.public \in BOOLEAN /\ s.defaultRole \in SpaceRoles
         /\ s.do = "join_defaults" => s.todo \in SUBSET (Channels \X ChannelRoles)
         /\ s.do = "leave_channels" => s.todo \in SUBSET Channels
  BY DEF Steps, OfChannel

-----------------------------------------------------------------------------
(* A step of one worker *)

\* Worker w goes on to step'[w], or is done with its request.
Moves(w) ==
  /\ step[w] # Idle
  /\ step' = [step EXCEPT ![w] = step'[w]]
  /\ request' = IF step'[w] = Idle THEN [request EXCEPT ![w] = None] ELSE request
  /\ UNCHANGED asked

\* No row disappears, and what kind of channel it is never changes.
Keeps ==
  /\ ranks' = ranks
  /\ \A c \in Channels : Exists(c) =>
       /\ Exists(c)'
       /\ channels'[c].direct = channels[c].direct
       /\ channels'[c].inSpace = channels[c].inSpace
  /\ DOMAIN invites \subseteq DOMAIN invites'

LEMMA MovesTypes ==
  ASSUME WorkerTypes, NEW w \in Workers, Moves(w), step'[w] \in Steps
  PROVE  /\ WorkerTypes'
         /\ \A v \in Workers \ {w} : step'[v] = step[v] /\ request'[v] = request[v]
  BY DEF WorkerTypes, Moves, Idle, None, Requests

\* The step that another worker has before it stays possible.
LEMMA OthersFit ==
  ASSUME TypeOK, Keeps, NEW v \in Workers, Fits(step[v], request[v]),
         NoRank => Equal(step[v]),
         step'[v] = step[v], request'[v] = request[v]
  PROVE  Fits(step[v], request[v])' /\ (NoRank' => Equal(step[v])')
<1>1. step[v] \in Steps /\ request[v] \in Requests \cup {None}
  BY DEF TypeOK, WorkerTypes
<1>2. NoRank' <=> NoRank
  BY DEF Keeps, NoRank, ServerAdmin
<1>3. request[v].op \in AboutChannel => request[v].on \in Channels
  BY <1>1, RequestFields DEF None, AboutChannel
<1>4. Fits(step[v], request[v])'
  <2>1. step[v].do \in OfChannel =>
          Exists(step[v].on)' /\ channels'[step[v].on].direct = channels[step[v].on].direct
    BY <1>1, StepFields DEF Keeps, Fits
  <2>2. step[v].do = "join_defaults" => \A d \in step[v].todo : Exists(d[1])'
    BY <1>1, StepFields DEF Keeps, Fits
  <2>3. step[v].do = "leave_channels" =>
          \A c \in step[v].todo : Exists(c)' /\ channels'[c].inSpace
    BY <1>1, StepFields DEF Keeps, Fits
  <2>4. /\ request[v].op \in AboutChannel /\ step[v].do = "check" => Exists(request[v].on)'
        /\ step[v].do = "answer" => step[v].invite \in DOMAIN invites'
        /\ step[v].do = "check" /\ request[v].op \in {"accept", "decline"}
             => request[v].invite \in DOMAIN invites'
    BY <1>3 DEF Keeps, Fits
  <2>5. step[v].do \in {"depart", "count_members"} => step[v].do \in OfChannel
    BY DEF OfChannel
  <2> QED BY <2>1, <2>2, <2>3, <2>4, <2>5 DEF Fits
<1>5. ASSUME NoRank' PROVE Equal(step[v])'
  <2>1. Equal(step[v])
    BY <1>2, <1>5
  <2>2. step[v].do \in OfChannel => channels'[step[v].on].direct = channels[step[v].on].direct
    BY <1>1, StepFields DEF Keeps, Fits
  <2>3. step[v].do = "join_defaults" =>
          \A d \in step[v].todo : channels'[d[1]].direct = channels[d[1]].direct
    BY <1>1, StepFields DEF Keeps, Fits
  <2> QED BY <2>1, <2>2, <2>3 DEF Equal, OfChannel
<1> QED BY <1>4, <1>5

\* The invariant after a step of w, from what the step does to w and the tables.
LEMMA Preserved ==
  ASSUME Inv, NEW w \in Workers, Moves(w), step'[w] \in Steps, TableTypes', Keeps,
         Fits(step[w], request[w])', NoRank' => Equal(step[w])',
         Empty', Apart', DirectMembersWrite'
  PROVE  Inv'
<1>1. WorkerTypes' /\ \A v \in Workers \ {w} : step'[v] = step[v] /\ request'[v] = request[v]
  BY MovesTypes DEF Inv, TypeOK
<1>2. \A v \in Workers \ {w} : Fits(step[v], request[v])' /\ (NoRank' => Equal(step[v])')
  BY <1>1, OthersFit DEF Inv, Steady, Equals
<1> QED BY <1>1, <1>2 DEF Inv, TypeOK, Steady, Equals

\* The same for a step that writes nothing.
LEMMA Unwritten ==
  ASSUME Inv, NEW w \in Workers, Moves(w), UNCHANGED tables, step'[w] \in Steps,
         Fits(step[w], request[w])', NoRank' => Equal(step[w])'
  PROVE  Inv'
<1>1. TableTypes' /\ Keeps /\ Empty' /\ Apart' /\ DirectMembersWrite'
  BY DEF Inv, TypeOK, TableTypes, Keeps, Empty, Apart, DirectMembersWrite, tables, Exists,
         MembersOf, ServerAdmin
<1> QED BY <1>1, Preserved

LEMMA Deciding ==
  ASSUME WorkerTypes, NEW w \in Workers, NEW allowed, NEW next, Decide(w, allowed, next),
         step[w] # Idle
  PROVE  Moves(w) /\ UNCHANGED tables /\ step'[w] = IF allowed THEN next ELSE Idle
  BY DEF WorkerTypes, Decide, Goto, Moves

-----------------------------------------------------------------------------
(* The checks *)

\* What a check may read: a request and the channel or invite it is about.
LEMMA AtCheck ==
  ASSUME Inv, NEW w \in Workers, step[w].do = "check"
  PROVE  /\ step[w] # Idle /\ request[w] \in Requests
         /\ request[w].op \in AboutChannel => request[w].on \in Channels /\ Exists(request[w].on)
         /\ request[w].op \in {"accept", "decline"} => request[w].invite \in DOMAIN invites
<1>1. step[w] # Idle
  BY DEF Idle
<1>2. request[w] \in Requests
  BY <1>1 DEF Inv, TypeOK, WorkerTypes
<1>3. Fits(step[w], request[w])
  BY DEF Inv, Steady
<1> QED BY <1>1, <1>2, <1>3, RequestFields DEF Fits

\* Nobody is an admin of a conversation when nobody has a rank.
LEMMA NoAdminOfConversation ==
  ASSUME Inv, NoRank, NEW c \in Channels, Exists(c), NEW u \in Users,
         EffectiveRole(c, u) = "admin"
  PROVE  ~channels[c].direct
<1>1. SUFFICES ASSUME channels[c].direct PROVE FALSE
  OBVIOUS
<1>2. ~channels[c].inSpace /\ ~ServerAdmin(u)
  BY <1>1 DEF Inv, Apart, NoRank
<1>3. roles[c][u] = "admin"
  BY <1>2 DEF EffectiveRole
<1> QED BY <1>1, <1>3 DEF Inv, DirectMembersWrite, NoRank, MembersOf, Out

\* A row of a channel that exists.
LEMMA RowOf ==
  ASSUME TypeOK, NEW c \in Channels, Exists(c)
  PROVE  channels[c] \in ChannelRows
  BY DEF TypeOK, TableTypes, Exists

\* A check that refuses, or goes on to a step that the tables as they are allow.
LEMMA Decided ==
  ASSUME Inv, NEW w \in Workers, step[w] # Idle, NEW allowed, NEW next,
         Decide(w, allowed, next),
         allowed => next \in Steps /\ Fits(next, request[w]) /\ (NoRank => Equal(next))
  PROVE  Inv'
<1>1. /\ Moves(w) /\ UNCHANGED tables
      /\ step'[w] = IF allowed THEN next ELSE Idle
  BY Deciding DEF Inv, TypeOK
<1>2. step'[w] \in Steps
  <2>1. Idle \in Steps
    BY DEF Steps, Idle
  <2> QED BY <1>1, <2>1
<1>3. NoRank' <=> NoRank
  BY <1>1 DEF NoRank, ServerAdmin, tables
<1>4. CASE allowed /\ next # Idle
  <2>1. step'[w] = next /\ request'[w] = request[w]
    BY <1>1, <1>4 DEF Moves
  <2>2. Fits(step[w], request[w])' /\ (NoRank' => Equal(step[w])')
    BY <2>1, <1>1, <1>3, <1>4 DEF Fits, Equal, tables, Exists
  <2> QED BY <1>1, <1>2, <2>2, Unwritten
<1>5. CASE ~(allowed /\ next # Idle)
  <2>1. step'[w].do = "idle"
    BY <1>1, <1>5 DEF Idle
  <2>2. Fits(step[w], request[w])' /\ Equal(step[w])'
    BY <2>1 DEF Fits, Equal, OfChannel
  <2> QED BY <1>1, <1>2, <2>2, Unwritten
<1> QED BY <1>4, <1>5

LEMMA ChannelChecksKept ==
  ASSUME Inv, NEW w \in Workers, step[w].do = "check"
  PROVE  CheckJoin(w) \/ CheckAdd(w) \/ CheckConverseAdd(w) \/ CheckKick(w) \/ CheckRole(w)
         \/ CheckUpdate(w) \/ CheckLeave(w) \/ CheckArchive(w) \/ CheckUnarchive(w)
         => Inv'
<1> DEFINE r == request[w]
<1>1. /\ step[w] # Idle /\ r \in Requests /\ r.by \in Users
      /\ r.op \in AboutChannel => r.on \in Channels /\ Exists(r.on)
  BY AtCheck, RequestFields
<1>2. r.op \in AboutChannel => channels[r.on] \in ChannelRows
  BY <1>1, RowOf DEF Inv
<1>3. r.op \in AboutChannel /\ NoRank /\ EffectiveRole(r.on, r.by) = "admin"
        => ~channels[r.on].direct
  BY <1>1, NoAdminOfConversation
<1>4. CASE CheckJoin(w)
  <2> DEFINE admin == ServerAdmin(r.by) \/ (channels[r.on].inSpace /\ SpaceAdmin(r.by))
             next == [do |-> "add", on |-> r.on, who |-> r.by,
                      role |-> IF admin THEN "admin" ELSE channels[r.on].defaultRole]
             allowed == ~channels[r.on].direct /\ (channels[r.on].public \/ admin)
  <2>1. Decide(w, allowed, next) /\ r.op \in AboutChannel
    BY <1>4 DEF CheckJoin, Checks, AboutChannel
  <2>2. next \in Steps
    <3>1. next.role \in ChannelRoles
      BY <1>2, <2>1, RoleNames DEF ChannelRows
    <3> QED BY <1>1, <2>1, <3>1 DEF Steps
  <2>3. allowed => Fits(next, r) /\ Equal(next)
    BY <1>1, <2>1 DEF Fits, Equal, OfChannel
  <2> QED BY <1>1, <2>1, <2>2, <2>3, Decided
<1>5. CASE CheckAdd(w)
  <2> DEFINE role == IF r.role = Out THEN channels[r.on].defaultRole ELSE r.role
             next == [do |-> "add", on |-> r.on, who |-> r.of, role |-> role]
             allowed == EffectiveRole(r.on, r.by) = "admin" /\ role \in NamedChannelRoles
  <2>1. Decide(w, allowed, next) /\ r.op = "add" /\ r.op \in AboutChannel
    BY <1>5 DEF CheckAdd, Checks, AboutChannel
  <2>2. next \in Steps
    BY <1>1, <1>2, <2>1, RequestFields DEF Steps, ChannelRows
  <2>3. Fits(next, r) /\ (allowed /\ NoRank => Equal(next))
    BY <1>1, <1>3, <2>1 DEF Fits, Equal
  <2> QED BY <1>1, <2>1, <2>2, <2>3, Decided
<1>6. CASE CheckConverseAdd(w)
  <2> DEFINE next == [do |-> "add", on |-> r.on, who |-> r.of, role |-> "write"]
             allowed == r.by \in MembersOf(r.on)
  <2>1. Decide(w, allowed, next) /\ r.op = "converse_add" /\ r.op \in AboutChannel
    BY <1>6 DEF CheckConverseAdd, Checks, AboutChannel
  <2>2. next \in Steps
    BY <1>1, <2>1, RequestFields, RoleNames DEF Steps
  <2>3. Fits(next, r) /\ Equal(next)
    BY <1>1, <2>1 DEF Fits, Equal
  <2> QED BY <1>1, <2>1, <2>2, <2>3, Decided
<1>7. CASE CheckKick(w)
  <2> DEFINE next == [do |-> "remove", on |-> r.on, who |-> r.of]
             allowed == EffectiveRole(r.on, r.by) = "admin" /\ r.of # r.by
  <2>1. Decide(w, allowed, next) /\ r.op = "kick" /\ r.op \in AboutChannel
    BY <1>7 DEF CheckKick, Checks, AboutChannel
  <2>2. next \in Steps
    BY <1>1, <2>1, RequestFields DEF Steps
  <2>3. Fits(next, r) /\ Equal(next)
    BY <1>1, <2>1 DEF Fits, Equal
  <2> QED BY <1>1, <2>1, <2>2, <2>3, Decided
<1>8. CASE CheckRole(w)
  <2> DEFINE demoted == roles[r.on][r.of] = "admin" /\ r.role # "admin"
             next == [do |-> IF demoted THEN "count_admins" ELSE "set_role",
                      on |-> r.on, who |-> r.of, role |-> r.role]
             allowed == /\ EffectiveRole(r.on, r.by) = "admin" /\ r.role \in NamedChannelRoles
                        /\ demoted => r.of = r.by
  <2>1. Decide(w, allowed, next) /\ r.op = "role" /\ r.op \in AboutChannel
    BY <1>8 DEF CheckRole, Checks, AboutChannel
  <2>2. next \in Steps
    BY <1>1, <2>1, RequestFields DEF Steps
  <2>3. Fits(next, r) /\ (allowed /\ NoRank => Equal(next))
    BY <1>1, <1>3, <2>1 DEF Fits, Equal
  <2> QED BY <1>1, <2>1, <2>2, <2>3, Decided
<1>9. CASE CheckUpdate(w)
  <2> DEFINE row == [f \in SettingNames |->
                      IF f \in DOMAIN r.set THEN r.set[f] ELSE channels[r.on][f]]
             next == [do |-> "update", on |-> r.on, row |-> row]
             allowed == EffectiveRole(r.on, r.by) = "admin"
  <2>1. Decide(w, allowed, next) /\ r.op = "update" /\ r.op \in AboutChannel
    BY <1>9 DEF CheckUpdate, Checks, AboutChannel
  <2>2. row \in ChannelSettings
    <3>1. r.set \in SomeOf(ChannelSettings)
      BY <1>1, <2>1, RequestFields
    <3>2. PICK v \in ChannelSettings, F \in SUBSET SettingNames : r.set = [f \in F |-> v[f]]
      BY <3>1, SomeSettings, Zenon
    <3> QED BY <1>2, <2>1, <3>2 DEF ChannelSettings, ChannelRows, SettingNames
  <2>3. next \in Steps
    BY <1>1, <2>1, <2>2 DEF Steps
  <2>4. Fits(next, r) /\ Equal(next)
    BY <1>1, <2>1 DEF Fits, Equal
  <2> QED BY <1>1, <2>1, <2>3, <2>4, Decided
<1>10. CASE CheckLeave(w)
  <2> DEFINE c == r.on
             u == r.by
             next == IF channels[c].direct
                     THEN [do |-> "depart", on |-> c, who |-> u]
                     ELSE IF u \in AdminsOf(c) /\ ~channels[c].archived
                     THEN [do |-> "count_admins", on |-> c, who |-> u, role |-> Out]
                     ELSE [do |-> "remove", on |-> c, who |-> u]
             allowed == u \in MembersOf(c)
  <2>1. Decide(w, allowed, next) /\ r.op = "leave" /\ r.op \in AboutChannel
    BY <1>10 DEF CheckLeave, Checks, AboutChannel
  <2>2. next \in Steps
    BY <1>1, <2>1 DEF Steps
  <2>3. /\ next.do \in {"depart", "count_admins", "remove"} /\ next.on = c
        /\ next.do = "depart" => channels[c].direct
        /\ next.do = "count_admins" => ~channels[c].direct
    OBVIOUS
  <2>4. Fits(next, r) /\ Equal(next)
    <3> HIDE DEF next
    <3> QED BY <1>1, <2>1, <2>3 DEF Fits, Equal
  <2> QED BY <1>1, <2>1, <2>2, <2>4, Decided
<1>11. CASE CheckArchive(w)
  <2> DEFINE next == [do |-> "archive", on |-> r.on]
  <2>1. /\ Decide(w, EffectiveRole(r.on, r.by) = "admin", next)
        /\ r.op \in AboutChannel
    BY <1>11 DEF CheckArchive, Checks, AboutChannel
  <2>2. next \in Steps
    BY <1>1, <2>1 DEF Steps
  <2>3. Fits(next, r) /\ Equal(next)
    BY <1>1, <2>1 DEF Fits, Equal
  <2> QED BY <1>1, <2>1, <2>2, <2>3, Decided
<1>12. CASE CheckUnarchive(w)
  <2> DEFINE next == [do |-> "unarchive", on |-> r.on]
             allowed == /\ EffectiveRole(r.on, r.by) = "admin"
                        /\ ~(channels[r.on].inSpace /\ space.archived)
  <2>1. Decide(w, allowed, next) /\ r.op \in AboutChannel
    BY <1>12 DEF CheckUnarchive, Checks, AboutChannel
  <2>2. next \in Steps
    BY <1>1, <2>1 DEF Steps
  <2>3. Fits(next, r) /\ Equal(next)
    BY <1>1, <2>1 DEF Fits, Equal
  <2> QED BY <1>1, <2>1, <2>2, <2>3, Decided
<1> QED BY <1>4, <1>5, <1>6, <1>7, <1>8, <1>9, <1>10, <1>11, <1>12

LEMMA SpaceChecksKept ==
  ASSUME Inv, NEW w \in Workers, step[w].do = "check"
  PROVE  CheckCreateInSpace(w) \/ FindDirect(w) \/ CheckUpdateSpace(w) \/ CheckJoinSpace(w)
         \/ CheckInvite(w) \/ CheckAnswer(w) \/ CheckSpaceKick(w) \/ CheckSpaceRole(w)
         \/ CheckLeaveSpace(w) \/ CheckArchiveSpace(w) \/ CheckUnarchiveSpace(w)
         => Inv'
<1> DEFINE r == request[w]
<1>1. /\ step[w] # Idle /\ r \in Requests /\ r.by \in Users
      /\ r.op \in {"accept", "decline"} => r.invite \in DOMAIN invites
  BY AtCheck, RequestFields
<1>2. space \in SpaceRows
  BY DEF Inv, TypeOK, TableTypes
<1>3. CASE CheckCreateInSpace(w)
  <2> DEFINE next == [do |-> "create"]
             allowed == ~space.personal /\ (ServerAdmin(r.by) \/ SpaceAdmin(r.by))
  <2>1. Decide(w, allowed, next) /\ r.op = "create_in_space"
    BY <1>3 DEF CheckCreateInSpace, Checks
  <2>2. next \in Steps
    BY DEF Steps
  <2>3. Fits(next, r) /\ Equal(next)
    BY <2>1 DEF Fits, Equal, OfChannel
  <2> QED BY <1>1, <2>1, <2>2, <2>3, Decided
<1>4. CASE FindDirect(w)
  <2> DEFINE next == [do |-> "converse"]
             pair == {r.by} \cup IF r.op = "dm" THEN {r.of} ELSE r.with
             allowed == ~\E c \in Channels :
                            Exists(c) /\ channels[c].direct /\ MembersOf(c) = pair
  <2>1. Decide(w, allowed, next) /\ r.op \in {"dm", "converse"}
    BY <1>4 DEF FindDirect
  <2>2. next \in Steps
    BY DEF Steps
  <2>3. Fits(next, r) /\ Equal(next)
    BY <2>1 DEF Fits, Equal, OfChannel
  <2> QED BY <1>1, <2>1, <2>2, <2>3, Decided
<1>5. CASE CheckUpdateSpace(w)
  <2> DEFINE next == [do |-> "update_space", public |-> r.public,
                      defaultRole |-> r.defaultRole]
             allowed == SpaceAdmin(r.by) \/ ServerAdmin(r.by)
  <2>1. Decide(w, allowed, next) /\ r.op = "update_space"
    BY <1>5 DEF CheckUpdateSpace, Checks
  <2>2. next \in Steps
    BY <1>1, <2>1, RequestFields DEF Steps
  <2>3. Fits(next, r) /\ Equal(next)
    BY DEF Fits, Equal, OfChannel
  <2> QED BY <1>1, <2>1, <2>2, <2>3, Decided
<1>6. CASE CheckJoinSpace(w)
  <2> DEFINE next == [do |-> "enter", who |-> r.by, role |-> space.defaultRole]
  <2>1. Decide(w, space.public, next)
    BY <1>6 DEF CheckJoinSpace
  <2>2. next \in Steps
    BY <1>1, <1>2 DEF Steps, SpaceRows
  <2>3. Fits(next, r) /\ Equal(next)
    BY DEF Fits, Equal, OfChannel
  <2> QED BY <1>1, <2>1, <2>2, <2>3, Decided
<1>7. CASE CheckInvite(w)
  <2> DEFINE next == [do |-> "create_invite", who |-> r.of, role |-> r.role]
             allowed ==
               /\ ~space.personal
               /\ SpaceAdmin(r.by) \/ ServerAdmin(r.by)
               /\ r.role \in NamedSpaceRoles /\ SpaceRank(r.role) <= ActorRank(r.by)
               /\ standing[r.of] = Out
               /\ \A i \in DOMAIN invites : invites[i].to = r.of => invites[i].status # "pending"
  <2>1. Decide(w, allowed, next) /\ r.op = "invite"
    BY <1>7 DEF CheckInvite, Checks
  <2>2. next \in Steps
    BY <1>1, <2>1, RequestFields DEF Steps
  <2>3. Fits(next, r) /\ Equal(next)
    BY DEF Fits, Equal, OfChannel
  <2> QED BY <1>1, <2>1, <2>2, <2>3, Decided
<1>8. CASE CheckAnswer(w)
  <2> DEFINE next == [do |-> "answer", invite |-> r.invite,
                      status |-> IF r.op = "accept" THEN "accepted" ELSE "declined"]
             allowed == invites[r.invite].to = r.by /\ invites[r.invite].status = "pending"
  <2>1. Decide(w, allowed, next) /\ r.op \in {"accept", "decline"}
    BY <1>8 DEF CheckAnswer
  <2>2. next \in Steps
    BY <1>1, <2>1, RequestFields DEF Steps
  <2>3. Fits(next, r) /\ Equal(next)
    BY <1>1, <2>1 DEF Fits, Equal, OfChannel
  <2> QED BY <1>1, <2>1, <2>2, <2>3, Decided
<1>9. CASE CheckSpaceKick(w)
  <2> DEFINE next == [do |-> "expel"]
             allowed == SpaceAdmin(r.by) \/ ServerAdmin(r.by)
  <2>1. Decide(w, allowed, next) /\ r.op = "space_kick"
    BY <1>9 DEF CheckSpaceKick, Checks
  <2>2. next \in Steps
    BY DEF Steps
  <2>3. Fits(next, r) /\ Equal(next)
    BY <2>1 DEF Fits, Equal, OfChannel
  <2> QED BY <1>1, <2>1, <2>2, <2>3, Decided
<1>10. CASE CheckSpaceRole(w)
  <2> DEFINE new == SpaceRank(r.role)
             old == SpaceRank(standing[r.of])
             own == ActorRank(r.by)
             steppingDown == standing[r.of] = "owner" /\ r.role # "owner"
             next == [do |-> IF steppingDown THEN "count_owners" ELSE "set_standing",
                      who |-> r.of, role |-> r.role]
             allowed == /\ SpaceAdmin(r.by) \/ ServerAdmin(r.by)
                        /\ r.role \in NamedSpaceRoles /\ new <= own
                        /\ new < old /\ old >= own => r.of = r.by
  <2>1. Decide(w, allowed, next) /\ r.op = "space_role"
    BY <1>10 DEF CheckSpaceRole, Checks
  <2>2. next \in Steps
    BY <1>1, <2>1, RequestFields DEF Steps
  <2>3. r.role # Out
    BY <1>1, <2>1, RequestFields, RoleNames
  <2>4. Fits(next, r) /\ Equal(next)
    BY <2>3 DEF Fits, Equal, OfChannel
  <2> QED BY <1>1, <2>1, <2>2, <2>4, Decided
<1>11. CASE CheckLeaveSpace(w)
  <2> DEFINE next == IF standing[r.by] = "owner" /\ ~space.archived
                     THEN [do |-> "count_owners", who |-> r.by, role |-> Out]
                     ELSE [do |-> "list_own_channels"]
             allowed == ~space.personal /\ standing[r.by] # Out
  <2>1. Decide(w, allowed, next) /\ r.op = "leave_space"
    BY <1>11 DEF CheckLeaveSpace, Checks
  <2>2. next \in Steps
    BY <1>1 DEF Steps
  <2>3. Fits(next, r) /\ Equal(next)
    BY <2>1 DEF Fits, Equal, OfChannel
  <2> QED BY <1>1, <2>1, <2>2, <2>3, Decided
<1>12. CASE CheckArchiveSpace(w)
  <2> DEFINE next == [do |-> "archive_space"]
             allowed == ~space.personal /\ (standing[r.by] = "owner" \/ ServerAdmin(r.by))
  <2>1. Decide(w, allowed, next)
    BY <1>12 DEF CheckArchiveSpace
  <2>2. next \in Steps
    BY DEF Steps
  <2>3. Fits(next, r) /\ Equal(next)
    BY DEF Fits, Equal, OfChannel
  <2> QED BY <1>1, <2>1, <2>2, <2>3, Decided
<1>13. CASE CheckUnarchiveSpace(w)
  <2> DEFINE next == [do |-> "unarchive_space"]
             allowed == (standing[r.by] = "owner" \/ ServerAdmin(r.by)) /\ ~serverArchived
  <2>1. Decide(w, allowed, next)
    BY <1>13 DEF CheckUnarchiveSpace
  <2>2. next \in Steps
    BY DEF Steps
  <2>3. Fits(next, r) /\ Equal(next)
    BY DEF Fits, Equal, OfChannel
  <2> QED BY <1>1, <2>1, <2>2, <2>3, Decided
<1> QED BY <1>3, <1>4, <1>5, <1>6, <1>7, <1>8, <1>9, <1>10, <1>11, <1>12, <1>13

\* Every check tells that its worker is at the check.
LEMMA ChecksAtCheck ==
  ASSUME NEW w \in Workers, Checking(w)
  PROVE  step[w].do = "check"
<1>1. \A op : Checks(w, op) => step[w].do = "check"
  BY DEF Checks, Does
<1>2. CASE CheckJoin(w) \/ CheckAdd(w) \/ CheckConverseAdd(w) \/ CheckKick(w) \/ CheckRole(w)
           \/ CheckUpdate(w) \/ CheckLeave(w) \/ CheckArchive(w) \/ CheckUnarchive(w)
  BY <1>1, <1>2, Zenon DEF CheckJoin, CheckAdd, CheckConverseAdd, CheckKick, CheckRole,
     CheckUpdate, CheckLeave, CheckArchive, CheckUnarchive
<1>3. CASE CheckCreateInSpace(w) \/ FindDirect(w) \/ CheckUpdateSpace(w) \/ CheckJoinSpace(w)
           \/ CheckInvite(w) \/ CheckAnswer(w) \/ CheckSpaceKick(w) \/ CheckSpaceRole(w)
           \/ CheckLeaveSpace(w) \/ CheckArchiveSpace(w) \/ CheckUnarchiveSpace(w)
  <2>1. Check.do = "check"
    BY DEF Check
  <2> QED
    BY <1>1, <1>3, <2>1, Zenon DEF CheckCreateInSpace, FindDirect, CheckUpdateSpace,
       CheckJoinSpace, CheckInvite, CheckAnswer, CheckSpaceKick, CheckSpaceRole,
       CheckLeaveSpace, CheckArchiveSpace, CheckUnarchiveSpace
<1> QED BY <1>2, <1>3 DEF Checking

LEMMA ChecksKept ==
  ASSUME Inv, NEW w \in Workers, Checking(w)
  PROVE  Inv'
  BY ChecksAtCheck, ChannelChecksKept, SpaceChecksKept DEF Checking

-----------------------------------------------------------------------------
(* The reads *)

\* Worker w has a step to take, and goes on to the step next.
LEMMA Going ==
  ASSUME WorkerTypes, NEW w \in Workers, NEW next, Goto(w, next), step[w] # Idle
  PROVE  /\ Moves(w) /\ step'[w] = next
         /\ request'[w] = IF next = Idle THEN None ELSE request[w]
  BY DEF WorkerTypes, Goto, Moves

\* What a step may read besides: what Inv says of the step of a worker.
LEMMA AtStep ==
  ASSUME Inv, NEW w \in Workers
  PROVE  /\ step[w] \in Steps /\ Fits(step[w], request[w]) /\ (NoRank => Equal(step[w]))
         /\ step[w].do # "idle" => step[w] # Idle
         /\ step[w] # Idle => request[w] \in Requests
         /\ WorkerTypes /\ TableTypes
  BY DEF Inv, TypeOK, WorkerTypes, Steady, Equals, Idle

\* A step that goes on to next, which the tables as they are allow.
LEMMA GoneOn ==
  ASSUME Inv, NEW w \in Workers, step[w] # Idle, NEW next, Goto(w, next),
         UNCHANGED <<tables, history>>,
         next \in Steps, Fits(next, request[w]), NoRank => Equal(next)
  PROVE  Inv'
<1>1. Decide(w, TRUE, next)
  BY DEF Decide
<1> QED BY <1>1, Decided

LEMMA ReadsKept ==
  ASSUME Inv, NEW w \in Workers, Reading(w)
  PROVE  Inv'
<1> DEFINE s == step[w]
           r == request[w]
<1>1. CASE CountAdmins(w)
  <2> DEFINE next == IF s.role = Out THEN [do |-> "remove", on |-> s.on, who |-> s.who]
                     ELSE [do |-> "set_role", on |-> s.on, who |-> s.who, role |-> s.role]
             allowed == Cardinality(AdminsOf(s.on)) > 1
  <2>1. Decide(w, allowed, next) /\ s.do = "count_admins"
    BY <1>1 DEF CountAdmins, Does
  <2>2. s \in Steps /\ s # Idle /\ Fits(s, r) /\ (NoRank => Equal(s))
    BY <2>1, AtStep
  <2>3. next \in Steps
    <3>1. s.on \in Channels /\ s.who \in Users /\ s.role \in ChannelRoles \cup {Out}
      BY <2>1, <2>2, StepFields DEF OfChannel
    <3> QED BY <3>1 DEF Steps
  <2>4. Fits(next, r) /\ (NoRank => Equal(next))
    BY <2>1, <2>2 DEF Fits, Equal, OfChannel
  <2> QED BY <2>1, <2>2, <2>3, <2>4, Decided
<1>2. CASE CountMembers(w)
  <2> DEFINE next == [do |-> "archive", on |-> s.on]
             allowed == Cardinality(MembersOf(s.on)) <= 1
  <2>1. Decide(w, allowed, next) /\ s.do = "count_members"
    BY <1>2 DEF CountMembers, Does
  <2>2. s \in Steps /\ s # Idle /\ Fits(s, r)
    BY <2>1, AtStep
  <2>3. next \in Steps
    BY <2>1, <2>2, StepFields DEF Steps, OfChannel
  <2>4. Fits(next, r) /\ Equal(next)
    BY <2>1, <2>2 DEF Fits, Equal, OfChannel
  <2> QED BY <2>1, <2>2, <2>3, <2>4, Decided
<1>3. CASE ListSpaceMembers(w)
  <2> DEFINE next == [do |-> "fill", on |-> s.on, todo |-> {u \in Users : standing[u] # Out}]
  <2>1. Goto(w, next) /\ UNCHANGED <<tables, history>> /\ s.do = "list_space_members"
    BY <1>3 DEF ListSpaceMembers, Does
  <2>2. s \in Steps /\ s # Idle /\ Fits(s, r) /\ (NoRank => Equal(s))
    BY <2>1, AtStep
  <2>3. next \in Steps
    BY <2>1, <2>2, StepFields DEF Steps, OfChannel
  <2>4. Fits(next, r) /\ (NoRank => Equal(next))
    BY <2>1, <2>2 DEF Fits, Equal, OfChannel
  <2> QED BY <2>1, <2>2, <2>3, <2>4, GoneOn
<1>4. CASE CountOwners(w)
  <2> DEFINE next == IF s.role = Out THEN [do |-> "list_own_channels"]
                     ELSE [do |-> "set_standing", who |-> s.who, role |-> s.role]
             allowed == Cardinality(Owners) > 1
  <2>1. Decide(w, allowed, next) /\ s.do = "count_owners"
    BY <1>4 DEF CountOwners, Does
  <2>2. s \in Steps /\ s # Idle /\ Fits(s, r)
    BY <2>1, AtStep
  <2>3. next \in Steps
    <3>1. s.who \in Users /\ s.role \in SpaceRoles \cup {Out}
      BY <2>1, <2>2, StepFields
    <3> QED BY <3>1 DEF Steps
  <2>4. Fits(next, r) /\ Equal(next)
    BY <2>1, <2>2 DEF Fits, Equal, OfChannel
  <2> QED BY <2>1, <2>2, <2>3, <2>4, Decided
<1>5. CASE ListDefaults(w)
  <2> DEFINE defaults == {c \in OfSpace : channels[c].defaultJoin /\ ~channels[c].archived}
             todo == {<<c, channels[c].defaultRole>> : c \in defaults}
             next == [do |-> "join_defaults", who |-> s.who, todo |-> todo]
  <2>1. Goto(w, next) /\ UNCHANGED <<tables, history>> /\ s.do = "list_defaults"
    BY <1>5 DEF ListDefaults, Does
  <2>2. s \in Steps /\ s # Idle /\ TypeOK
    BY <2>1, AtStep DEF Inv
  <2>3. \A c \in defaults :
          c \in Channels /\ Exists(c) /\ channels[c] \in ChannelRows /\ ~channels[c].direct
    BY <2>2, RowOf DEF OfSpace, Inv, Apart
  <2>4. todo \in SUBSET (Channels \X ChannelRoles)
    BY <2>3 DEF ChannelRows
  <2>5. next \in Steps
    BY <2>1, <2>2, <2>4, StepFields DEF Steps
  <2>6. \A d \in todo : Exists(d[1]) /\ ~channels[d[1]].direct
    BY <2>3
  <2>7. Fits(next, r) /\ Equal(next)
    BY <2>6 DEF Fits, Equal, OfChannel
  <2> QED BY <2>1, <2>2, <2>5, <2>7, GoneOn
<1>6. CASE ListOwnChannels(w)
  <2> DEFINE next == [do |-> "leave_channels", todo |-> {c \in OfSpace : r.by \in MembersOf(c)}]
  <2>1. Goto(w, next) /\ UNCHANGED <<tables, history>> /\ s.do = "list_own_channels"
    BY <1>6 DEF ListOwnChannels, Does
  <2>2. s # Idle /\ Fits(s, r)
    BY <2>1, AtStep
  <2>3. next \in Steps
    BY DEF Steps, OfSpace
  <2>4. Fits(next, r) /\ Equal(next)
    BY <2>1, <2>2 DEF Fits, Equal, OfChannel, OfSpace
  <2> QED BY <2>1, <2>2, <2>3, <2>4, GoneOn
<1> QED BY <1>1, <1>2, <1>3, <1>4, <1>5, <1>6 DEF Reading

-----------------------------------------------------------------------------
(* The writes *)

\* A step that writes, and goes on to a step that was possible before it.
LEMMA Written ==
  ASSUME Inv, NEW w \in Workers, step[w] # Idle, NEW next \in Steps, Goto(w, next),
         Fits(next, request[w]), NoRank => Equal(next),
         TableTypes', Keeps, Empty', Apart', DirectMembersWrite'
  PROVE  Inv'
<1>1. /\ Moves(w) /\ step'[w] = next
      /\ request'[w] = IF next = Idle THEN None ELSE request[w]
  BY Going DEF Inv, TypeOK
<1>2. request[w] \in Requests
  BY AtStep
<1>3. NoRank' <=> NoRank
  BY DEF Keeps, NoRank, ServerAdmin
<1>4. next.do \in OfChannel => next.on \in Channels
  BY StepFields
<1>5. next.do = "join_defaults" => \A d \in next.todo : d[1] \in Channels
  BY StepFields
<1>6. Fits(step[w], request[w])'
  <2>1. CASE next = Idle
    BY <1>1, <2>1 DEF Fits, Idle, OfChannel
  <2>2. CASE next # Idle
    <3>1. request'[w] = request[w] /\ step'[w] = next
      BY <1>1, <2>2
    <3>2. request[w].op \in AboutChannel => request[w].on \in Channels
      BY <1>2, RequestFields
    <3>3. next.do \in OfChannel =>
            Exists(next.on)' /\ channels'[next.on].direct = channels[next.on].direct
      BY <1>4 DEF Keeps, Fits
    <3>4. next.do = "join_defaults" => \A d \in next.todo : Exists(d[1])'
      BY <1>5 DEF Keeps, Fits
    <3>5. next.do = "leave_channels" =>
            \A c \in next.todo : Exists(c)' /\ channels'[c].inSpace
      BY StepFields DEF Keeps, Fits
    <3>6. request[w].op \in AboutChannel /\ next.do = "check" => Exists(request[w].on)'
      BY <3>1, <3>2 DEF Keeps, Fits, Exists
    <3>8. /\ next.do = "answer" => next.invite \in DOMAIN invites'
          /\ next.do = "check" /\ request[w].op \in {"accept", "decline"}
               => request[w].invite \in DOMAIN invites'
      BY DEF Keeps, Fits
    <3>7. next.do \in {"depart", "count_members"} => next.do \in OfChannel
      BY DEF OfChannel
    <3> QED BY <3>1, <3>3, <3>4, <3>5, <3>6, <3>7, <3>8 DEF Fits
  <2> QED BY <2>1, <2>2
<1>7. NoRank' => Equal(step[w])'
  <2>1. next.do \in OfChannel => channels'[next.on].direct = channels[next.on].direct
    BY <1>4 DEF Keeps, Fits
  <2>2. next.do = "join_defaults" =>
          \A d \in next.todo : channels'[d[1]].direct = channels[d[1]].direct
    BY <1>5 DEF Keeps, Fits
  <2> QED BY <1>1, <1>3, <2>1, <2>2 DEF Equal, OfChannel
<1> QED BY <1>1, <1>6, <1>7, Preserved

\* The members of one channel are written.
LEMMA MembersWritten ==
  ASSUME Inv, NEW w \in Workers, step[w] # Idle, NEW next \in Steps, Goto(w, next),
         Fits(next, request[w]), NoRank => Equal(next),
         UNCHANGED <<ranks, serverArchived, space, standing, channels, invites>>,
         NEW c \in Channels, NEW f \in [Users -> ChannelRoles \cup {Out}], SetRoles(c, f),
         ~Exists(c) => \A u \in Users : f[u] = Out,
         NoRank /\ Exists(c) /\ channels[c].direct => \A u \in Users : f[u] \in {"write", Out}
  PROVE  Inv'
<1>1. TableTypes'
  BY DEF Inv, TypeOK, TableTypes, SetRoles
<1>2. \A d \in Channels : roles'[d] = IF d = c THEN f ELSE roles[d]
  BY DEF Inv, TypeOK, TableTypes, SetRoles
<1>3. Keeps /\ Apart'
  BY DEF Inv, Apart, Keeps, Exists
<1>4. Empty'
  BY <1>2 DEF Inv, Empty, Exists
<1>5. DirectMembersWrite'
  BY <1>2 DEF Inv, DirectMembersWrite, Exists, MembersOf, ServerAdmin, NoRank
<1> QED BY <1>1, <1>3, <1>4, <1>5, Written

\* The space, its members or the invites are written.
LEMMA SpaceWritten ==
  ASSUME Inv, NEW w \in Workers, step[w] # Idle, NEW next \in Steps, Goto(w, next),
         Fits(next, request[w]), NoRank => Equal(next),
         UNCHANGED <<ranks, serverArchived, channels, roles>>,
         space' \in SpaceRows, standing' \in [Users -> SpaceRoles \cup {Out}],
         invites' \in Seq(Invites), DOMAIN invites \subseteq DOMAIN invites'
  PROVE  Inv'
<1>1. TableTypes'
  BY DEF Inv, TypeOK, TableTypes
<1>2. Keeps /\ Apart' /\ Empty' /\ DirectMembersWrite'
  BY DEF Inv, Apart, Keeps, Empty, Exists, DirectMembersWrite, MembersOf, ServerAdmin
<1> QED BY <1>1, <1>2, Written

\* The rows of channels are written, and perhaps the space's with them.
LEMMA RowsWritten ==
  ASSUME Inv, NEW w \in Workers, step[w] # Idle, Goto(w, Idle),
         UNCHANGED <<ranks, serverArchived, standing, roles, invites>>,
         space' \in SpaceRows, channels' \in [Channels -> ChannelRows \cup {Unused}],
         \A c \in Channels :
           IF Exists(c)
           THEN /\ channels'[c] \in ChannelRows
                /\ channels'[c].direct = channels[c].direct
                /\ channels'[c].inSpace = channels[c].inSpace
           ELSE ~Exists(c)'
  PROVE  Inv'
<1>1. TableTypes'
  BY DEF Inv, TypeOK, TableTypes
<1>2. \A c \in Channels : Exists(c)' <=> Exists(c)
  BY MembershipAssumption DEF Exists
<1>3. Keeps /\ Apart' /\ Empty'
  BY <1>2 DEF Inv, Apart, Keeps, Empty
<1>4. DirectMembersWrite'
  BY <1>2 DEF Inv, DirectMembersWrite, MembersOf, ServerAdmin
<1>5. Idle \in Steps /\ Fits(Idle, request[w]) /\ Equal(Idle)
  BY DEF Steps, Idle, Fits, Equal, OfChannel
<1> QED BY <1>1, <1>3, <1>4, <1>5, Written

\* A new row, and its first members.
LEMMA RowCreated ==
  ASSUME Inv, NEW w \in Workers, step[w] # Idle, RowLeft, NEW next \in Steps, Goto(w, next),
         NEW row \in ChannelRows, NEW f \in [Users -> ChannelRoles \cup {Out}],
         channels' = [channels EXCEPT ![NewChannel] = row], SetRoles(NewChannel, f),
         UNCHANGED <<ranks, serverArchived, space, standing, invites>>,
         row.direct => ~row.inSpace /\ \A u \in Users : f[u] \in {"write", Out},
         next # Idle => /\ next.do = "list_space_members" /\ next.on = NewChannel
                        /\ request[w].op = "create_in_space" /\ ~row.direct
  PROVE  Inv'
<1>1. PICK c \in Channels : c = NewChannel /\ ~Exists(c)
  BY DEF RowLeft, NewChannel
<1>2. /\ Moves(w) /\ step'[w] = next
      /\ request'[w] = IF next = Idle THEN None ELSE request[w]
  BY Going DEF Inv, TypeOK
<1>3. TableTypes'
  BY <1>1 DEF Inv, TypeOK, TableTypes, SetRoles
<1>4. /\ \A d \in Channels : channels'[d] = IF d = c THEN row ELSE channels[d]
      /\ \A d \in Channels : roles'[d] = IF d = c THEN f ELSE roles[d]
  BY <1>1 DEF Inv, TypeOK, TableTypes, SetRoles
<1>5. \A d \in Channels : Exists(d)' <=> d = c \/ Exists(d)
  BY <1>4, MembershipAssumption DEF Exists
<1>6. Keeps
  BY <1>1, <1>4, <1>5 DEF Keeps
<1>7. Empty'
  <2>1. SUFFICES ASSUME NEW d \in Channels, NEW u \in Users, ~Exists(d)' PROVE roles'[d][u] = Out
    BY DEF Empty
  <2>2. d # c /\ ~Exists(d)
    BY <2>1, <1>5
  <2> QED BY <2>2, <1>4 DEF Inv, Empty
<1>8. Apart'
  BY <1>4, <1>5 DEF Inv, Apart
<1>9. DirectMembersWrite'
  <2>1. SUFFICES ASSUME \A u \in Users : ~ServerAdmin(u)',
                        NEW d \in Channels, Exists(d)', channels'[d].direct,
                        NEW u \in Users, roles'[d][u] # Out
                 PROVE  roles'[d][u] = "write"
    BY DEF DirectMembersWrite, MembersOf
  <2>2. CASE d = c
    BY <2>1, <2>2, <1>4
  <2>3. CASE d # c
    <3>1. NoRank
      BY <2>1 DEF NoRank, ServerAdmin
    <3>2. Exists(d) /\ channels[d].direct /\ roles'[d][u] = roles[d][u]
      BY <2>1, <2>3, <1>4, <1>5
    <3> QED BY <2>1, <3>1, <3>2 DEF Inv, DirectMembersWrite, NoRank, MembersOf
  <2> QED BY <2>2, <2>3
<1>10. step'[w] \in Steps
  BY <1>2
<1>11. Fits(step[w], request[w])' /\ Equal(step[w])'
  <2>1. CASE next = Idle
    BY <1>2, <2>1 DEF Fits, Equal, Idle, OfChannel
  <2>2. CASE next # Idle
    <3>1. /\ next.do = "list_space_members" /\ next.on = c
          /\ request[w].op = "create_in_space" /\ ~row.direct
      BY <1>1, <2>2
    <3>2. step'[w] = next /\ request'[w] = request[w]
      BY <1>2, <2>2
    <3>3. Exists(c)' /\ ~channels'[c].direct
      BY <1>1, <1>4, <1>5, <3>1
    <3>4. step'[w].do = "list_space_members" /\ step'[w].on = c
      BY <3>1, <3>2, Zenon
    <3> QED BY <3>1, <3>2, <3>3, <3>4 DEF Fits, Equal, OfChannel
  <2> QED BY <2>1, <2>2
<1> QED BY <1>2, <1>3, <1>6, <1>7, <1>8, <1>9, <1>10, <1>11, Preserved

\* The members of a channel when one of them is gone,
LEMMA Without ==
  ASSUME Inv, NEW c \in Channels, NEW u, NEW f, f = [roles[c] EXCEPT ![u] = Out]
  PROVE  /\ f \in [Users -> ChannelRoles \cup {Out}]
         /\ ~Exists(c) => \A v \in Users : f[v] = Out
         /\ NoRank /\ Exists(c) /\ channels[c].direct => \A v \in Users : f[v] \in {"write", Out}
<1>1. roles[c] \in [Users -> ChannelRoles \cup {Out}]
  BY DEF Inv, TypeOK, TableTypes
<1>2. ~Exists(c) => \A v \in Users : roles[c][v] = Out
  BY DEF Inv, Empty
<1>3. NoRank /\ Exists(c) /\ channels[c].direct
        => \A v \in Users : roles[c][v] \in {"write", Out}
  BY DEF Inv, DirectMembersWrite, MembersOf, NoRank
<1> QED BY <1>1, <1>2, <1>3

\* and when others are added to it.
LEMMA With ==
  ASSUME Inv, NEW c \in Channels, Exists(c), NEW U, NEW role \in ChannelRoles,
         NoRank /\ channels[c].direct => role = "write", NEW f, f = Adding(c, U, role)
  PROVE  /\ f \in [Users -> ChannelRoles \cup {Out}]
         /\ NoRank /\ channels[c].direct => \A v \in Users : f[v] \in {"write", Out}
<1>1. roles[c] \in [Users -> ChannelRoles \cup {Out}]
  BY DEF Inv, TypeOK, TableTypes
<1>2. NoRank /\ channels[c].direct => \A v \in Users : roles[c][v] \in {"write", Out}
  BY DEF Inv, DirectMembersWrite, MembersOf, NoRank
<1> QED BY <1>1, <1>2 DEF Adding

\* Idle is a step that any tables allow.
LEMMA Resting ==
  ASSUME NEW r
  PROVE  Idle \in Steps /\ Fits(Idle, r) /\ Equal(Idle)
  BY DEF Steps, Idle, Fits, Equal, OfChannel

\* The steps that have something left to do are records of this shape.
LEMMA StepsToDo ==
  ASSUME NEW s \in Steps
  PROVE  /\ s.do = "fill" => s \in [do : {"fill"}, on : Channels, todo : SUBSET Users]
         /\ s.do = "join_defaults" =>
              s \in [do : {"join_defaults"}, who : Users, todo : SUBSET (Channels \X ChannelRoles)]
         /\ s.do = "leave_channels" => s \in [do : {"leave_channels"}, todo : SUBSET Channels]
  BY DEF Steps

\* What the step of a worker that writes tells of its fields.
LEMMA AtWrite ==
  ASSUME Inv, NEW w \in Workers, step[w].do # "idle"
  PROVE  /\ step[w] # Idle /\ request[w] \in Requests
         /\ step[w].do \in OfChannel => step[w].on \in Channels /\ Exists(step[w].on)
         /\ step[w].do \in {"add", "remove", "depart", "set_role", "enter", "set_standing",
                            "create_invite", "join_defaults"} => step[w].who \in Users
  BY AtStep, StepFields DEF Fits

LEMMA MemberWritesKept ==
  ASSUME Inv, NEW w \in Workers
  PROVE  AddMember(w) \/ RemoveMember(w) \/ SetRole(w) \/ Depart(w) \/ Fill(w) \/ JoinDefault(w)
         \/ LeaveChannels(w) => Inv'
<1> DEFINE s == step[w]
           r == request[w]
           others == UNCHANGED <<ranks, serverArchived, space, standing, channels, invites>>
<1>1. CASE AddMember(w)
  <2>1. /\ s.do = "add" /\ Goto(w, Idle) /\ others
        /\ SetRoles(s.on, Adding(s.on, {s.who}, s.role))
    BY <1>1 DEF AddMember, Does, Finish
  <2>2. s # Idle /\ s.on \in Channels /\ Exists(s.on) /\ s.role \in ChannelRoles
    BY <2>1, AtWrite, AtStep, StepFields DEF OfChannel
  <2>3. NoRank /\ channels[s.on].direct => s.role = "write"
    BY <2>1, AtStep DEF Equal
  <2> DEFINE f == Adding(s.on, {s.who}, s.role)
  <2>4. /\ f \in [Users -> ChannelRoles \cup {Out}]
        /\ NoRank /\ channels[s.on].direct => \A v \in Users : f[v] \in {"write", Out}
    BY <2>2, <2>3, With
  <2> HIDE DEF f
  <2>5. SetRoles(s.on, f)
    BY <2>1 DEF f
  <2> QED BY <2>1, <2>2, <2>4, <2>5, Resting, MembersWritten
<1>2. CASE RemoveMember(w)
  <2>1. /\ s.do = "remove" /\ Goto(w, Idle) /\ others
        /\ SetRoles(s.on, [roles[s.on] EXCEPT ![s.who] = Out])
    BY <1>2 DEF RemoveMember, Does, Finish
  <2>2. s # Idle /\ s.on \in Channels /\ Exists(s.on)
    BY <2>1, AtWrite DEF OfChannel
  <2>3. Idle \in Steps /\ Fits(Idle, r) /\ Equal(Idle)
    BY Resting
  <2> QED BY <2>1, <2>2, <2>3, Without, MembersWritten
<1>3. CASE SetRole(w)
  <2> DEFINE f == [roles[s.on] EXCEPT ![s.who] = IF @ = Out THEN Out ELSE s.role]
  <2>1. s.do = "set_role" /\ Goto(w, Idle) /\ others /\ SetRoles(s.on, f)
    BY <1>3 DEF SetRole, Does, Finish
  <2>2. s # Idle /\ s.on \in Channels /\ Exists(s.on) /\ s.role \in ChannelRoles
    BY <2>1, AtWrite, AtStep, StepFields DEF OfChannel
  <2>3. NoRank => ~channels[s.on].direct
    BY <2>1, AtStep DEF Equal
  <2>4. f \in [Users -> ChannelRoles \cup {Out}]
    BY <2>2 DEF Inv, TypeOK, TableTypes
  <2> HIDE DEF f
  <2> QED BY <2>1, <2>2, <2>3, <2>4, Resting, MembersWritten
<1>4. CASE Depart(w)
  <2> DEFINE next == [do |-> "count_members", on |-> s.on]
  <2>1. /\ s.do = "depart" /\ Goto(w, next) /\ others
        /\ SetRoles(s.on, [roles[s.on] EXCEPT ![s.who] = Out])
    BY <1>4 DEF Depart, Does
  <2>2. s # Idle /\ s.on \in Channels /\ Exists(s.on)
    BY <2>1, AtWrite DEF OfChannel
  <2>3. next \in Steps
    BY <2>2 DEF Steps
  <2>4. Fits(next, r) /\ Equal(next)
    <3>1. r.op = "leave" /\ channels[s.on].direct
      BY <2>1, AtStep DEF Fits
    <3> QED BY <2>2, <3>1 DEF Fits, Equal
  <2> HIDE DEF next
  <2> QED BY <2>1, <2>2, <2>3, <2>4, Without, MembersWritten
<1>5. CASE Fill(w)
  <2>1. s.do = "fill" /\ others
    BY <1>5 DEF Fill, Does
  <2>2. /\ s # Idle /\ s.on \in Channels /\ Exists(s.on) /\ s \in Steps /\ Fits(s, r)
        /\ NoRank => ~channels[s.on].direct
    BY <2>1, AtWrite, AtStep DEF Equal, OfChannel
  <2>3. CASE Finish(w) /\ UNCHANGED roles
    BY <2>1, <2>2, <2>3, Resting, SpaceWritten, AtStep DEF Finish, TableTypes
  <2>4. ASSUME NEW u \in s.todo,
               SetRoles(s.on, Adding(s.on, {u}, DefaultRole(r))),
               Goto(w, [s EXCEPT !.todo = @ \ {u}])
        PROVE  Inv'
    <3> DEFINE next == [s EXCEPT !.todo = @ \ {u}]
    <3>1. s \in [do : {"fill"}, on : Channels, todo : SUBSET Users]
      BY <2>1, <2>2, StepsToDo
    <3>2. next \in [do : {"fill"}, on : Channels, todo : SUBSET Users] /\ next.on = s.on
      BY <3>1
    <3>3. next \in Steps
      BY <3>2 DEF Steps
    <3>4. Fits(next, r) /\ (NoRank => Equal(next))
      BY <3>2, <2>1, <2>2 DEF Fits, Equal, OfChannel
    <3>5. DefaultRole(r) \in ChannelRoles
      <4>1. r \in Requests /\ r.op \in {"create", "create_in_space"}
        BY <2>1, <2>2, AtStep DEF Fits
      <4> QED BY <4>1, DefaultRoleKnown
    <3> HIDE DEF next
    <3>6. Goto(w, next)
      BY <2>4 DEF next
    <3> QED BY <2>1, <2>2, <2>4, <3>3, <3>4, <3>5, <3>6, With, MembersWritten
  <2> QED BY <1>5, <2>3, <2>4 DEF Fill
<1>6. CASE JoinDefault(w)
  <2>1. s.do = "join_defaults" /\ others
    BY <1>6 DEF JoinDefault, Does
  <2>2. /\ s # Idle /\ s \in Steps /\ Fits(s, r) /\ (NoRank => Equal(s))
        /\ s.todo \in SUBSET (Channels \X ChannelRoles)
    BY <2>1, AtStep, StepFields
  <2>3. CASE Finish(w) /\ UNCHANGED roles
    BY <2>1, <2>2, <2>3, Resting, SpaceWritten, AtStep DEF Finish, TableTypes
  <2>4. ASSUME NEW d \in s.todo,
               SetRoles(d[1], Adding(d[1], {s.who}, d[2])),
               Goto(w, [s EXCEPT !.todo = @ \ {d}])
        PROVE  Inv'
    <3> DEFINE next == [s EXCEPT !.todo = @ \ {d}]
    <3>1. s \in [do : {"join_defaults"}, who : Users, todo : SUBSET (Channels \X ChannelRoles)]
      BY <2>1, <2>2, StepsToDo
    <3>2. /\ next \in [do : {"join_defaults"}, who : Users,
                       todo : SUBSET (Channels \X ChannelRoles)]
          /\ next.todo \subseteq s.todo
      BY <3>1
    <3>3. next \in Steps
      BY <3>2 DEF Steps
    <3>4. Fits(next, r) /\ (NoRank => Equal(next))
      BY <3>2, <2>1, <2>2 DEF Fits, Equal, OfChannel
    <3>5. d[1] \in Channels /\ d[2] \in ChannelRoles
      BY <2>2
    <3>6. Exists(d[1]) /\ (NoRank => ~channels[d[1]].direct)
      BY <2>1, <2>2 DEF Fits, Equal
    <3> HIDE DEF next
    <3>7. Goto(w, next)
      BY <2>4 DEF next
    <3> QED BY <2>1, <2>2, <2>4, <3>3, <3>4, <3>5, <3>6, <3>7, With, MembersWritten
  <2> QED BY <1>6, <2>3, <2>4 DEF JoinDefault
<1>7. CASE LeaveChannels(w)
  <2>1. s.do = "leave_channels" /\ others
    BY <1>7 DEF LeaveChannels, Does
  <2>2. /\ s # Idle /\ s \in Steps /\ Fits(s, r) /\ s.todo \in SUBSET Channels
        /\ r.op = "leave_space"
    BY <2>1, AtStep, StepFields DEF Fits
  <2>3. CASE Goto(w, [do |-> "expel"]) /\ UNCHANGED roles
    <3>1. [do |-> "expel"] \in Steps
      BY DEF Steps
    <3>2. Fits([do |-> "expel"], r) /\ Equal([do |-> "expel"])
      BY <2>2 DEF Fits, Equal, OfChannel
    <3> QED BY <2>1, <2>2, <2>3, <3>1, <3>2, SpaceWritten, AtStep DEF TableTypes
  <2>4. ASSUME NEW c \in s.todo,
               SetRoles(c, [roles[c] EXCEPT ![r.by] = Out]),
               Goto(w, [s EXCEPT !.todo = @ \ {c}])
        PROVE  Inv'
    <3> DEFINE next == [s EXCEPT !.todo = @ \ {c}]
    <3>1. s \in [do : {"leave_channels"}, todo : SUBSET Channels]
      BY <2>1, <2>2, StepsToDo
    <3>2. next \in [do : {"leave_channels"}, todo : SUBSET Channels]
      BY <3>1
    <3>3. next \in Steps
      BY <3>2 DEF Steps
    <3>4. Fits(next, r) /\ Equal(next)
      BY <3>2, <2>2 DEF Fits, Equal, OfChannel
    <3> HIDE DEF next
    <3>5. Goto(w, next)
      BY <2>4 DEF next
    <3> DEFINE f == [roles[c] EXCEPT ![r.by] = Out]
    <3> HIDE DEF f
    <3>6. c \in Channels /\ f = [roles[c] EXCEPT ![r.by] = Out] /\ SetRoles(c, f)
      BY <2>2, <2>4 DEF f
    <3>7. /\ f \in [Users -> ChannelRoles \cup {Out}]
          /\ ~Exists(c) => \A v \in Users : f[v] = Out
          /\ NoRank /\ Exists(c) /\ channels[c].direct
               => \A v \in Users : f[v] \in {"write", Out}
      BY <3>6, Without
    <3> QED BY <2>1, <2>2, <3>3, <3>4, <3>5, <3>6, <3>7, MembersWritten
  <2> QED BY <1>7, <2>3, <2>4 DEF LeaveChannels
<1> QED BY <1>1, <1>2, <1>3, <1>4, <1>5, <1>6, <1>7

\* A sequence that grows by one element.
LEMMA Appended ==
  ASSUME NEW S, NEW q \in Seq(S), NEW e \in S
  PROVE  Append(q, e) \in Seq(S) /\ DOMAIN q \subseteq DOMAIN Append(q, e)
  OBVIOUS

LEMMA SpaceWritesKept ==
  ASSUME Inv, NEW w \in Workers
  PROVE  UpdateSpace(w) \/ CreateInvite(w) \/ Answer(w) \/ Enter(w) \/ SetStanding(w) => Inv'
<1> DEFINE s == step[w]
           r == request[w]
<1>1. /\ s \in Steps /\ TableTypes /\ space \in SpaceRows
      /\ standing \in [Users -> SpaceRoles \cup {Out}] /\ invites \in Seq(Invites)
  BY AtStep DEF TableTypes
<1>2. Idle \in Steps /\ Fits(Idle, r) /\ Equal(Idle)
  BY Resting
<1>3. CASE UpdateSpace(w)
  <2>1. /\ s.do = "update_space" /\ Goto(w, Idle)
        /\ space' = [space EXCEPT !.public = s.public, !.defaultRole = s.defaultRole]
        /\ UNCHANGED <<ranks, serverArchived, standing, channels, roles, invites>>
    BY <1>3 DEF UpdateSpace, Does, Finish
  <2>2. s # Idle /\ s.public \in BOOLEAN /\ s.defaultRole \in SpaceRoles
    BY <1>1, <2>1, StepFields, AtStep
  <2>3. space' \in SpaceRows
    BY <1>1, <2>1, <2>2 DEF SpaceRows
  <2> QED BY <1>1, <1>2, <2>1, <2>2, <2>3, SpaceWritten
<1>4. CASE CreateInvite(w)
  <2> DEFINE invite == [to |-> s.who, role |-> s.role, status |-> "pending"]
  <2>1. /\ s.do = "create_invite" /\ Goto(w, Idle) /\ invites' = Append(invites, invite)
        /\ UNCHANGED <<ranks, serverArchived, space, standing, channels, roles>>
    BY <1>4 DEF CreateInvite, Does, Finish
  <2>2. s # Idle /\ s.who \in Users /\ s.role \in SpaceRoles
    BY <1>1, <2>1, StepFields, AtStep
  <2>3. invite \in Invites
    BY <2>2 DEF Invites
  <2>4. invites' \in Seq(Invites) /\ DOMAIN invites \subseteq DOMAIN invites'
    <3> HIDE DEF invite
    <3> QED BY <1>1, <2>1, <2>3, Appended
  <2> QED BY <1>1, <1>2, <2>1, <2>2, <2>4, SpaceWritten
<1>5. CASE Answer(w)
  <2> DEFINE i == s.invite
             next == IF s.status = "declined" THEN Idle
                     ELSE [do |-> "enter", who |-> invites[i].to, role |-> invites[i].role]
  <2>1. /\ s.do = "answer" /\ Goto(w, next)
        /\ invites' = [invites EXCEPT ![i].status = s.status]
        /\ UNCHANGED <<ranks, serverArchived, space, standing, channels, roles>>
    BY <1>5 DEF Answer, Does
  <2>2. s # Idle /\ s.status \in {"accepted", "declined"} /\ i \in DOMAIN invites
    BY <1>1, <2>1, StepFields, AtStep DEF Fits
  <2>3. invites[i] \in Invites
    BY <1>1, <2>2
  <2>4. invites' \in Seq(Invites) /\ DOMAIN invites' = DOMAIN invites
    <3>1. [invites[i] EXCEPT !.status = s.status] \in Invites
      BY <2>2, <2>3 DEF Invites
    <3>2. invites' = [invites EXCEPT ![i] = [invites[i] EXCEPT !.status = s.status]]
      BY <2>1, <2>2
    <3> QED BY <1>1, <2>2, <3>1, <3>2
  <2>5. next \in Steps
    <3>1. [do |-> "enter", who |-> invites[i].to, role |-> invites[i].role] \in Steps
      BY <2>3 DEF Steps, Invites
    <3> QED BY <1>2, <3>1
  <2>6. Fits(next, r) /\ Equal(next)
    <3>1. next.do \in {"idle", "enter"}
      BY DEF Idle
    <3> QED BY <3>1 DEF Fits, Equal, OfChannel
  <2> HIDE DEF next
  <2> QED BY <1>1, <2>1, <2>2, <2>4, <2>5, <2>6, SpaceWritten
<1>6. CASE Enter(w)
  <2> DEFINE next == [do |-> "list_defaults", who |-> s.who]
  <2>1. /\ s.do = "enter" /\ Goto(w, next)
        /\ standing' = [standing EXCEPT ![s.who] = IF @ = Out THEN s.role ELSE @]
        /\ UNCHANGED <<ranks, serverArchived, space, channels, roles, invites>>
    BY <1>6 DEF Enter, Does
  <2>2. s # Idle /\ s.who \in Users /\ s.role \in SpaceRoles
    BY <1>1, <2>1, StepFields, AtStep
  <2>3. standing' \in [Users -> SpaceRoles \cup {Out}]
    BY <1>1, <2>1, <2>2
  <2>4. next \in Steps
    BY <2>2 DEF Steps
  <2>5. Fits(next, r) /\ Equal(next)
    BY DEF Fits, Equal, OfChannel
  <2> HIDE DEF next
  <2> QED BY <1>1, <2>1, <2>2, <2>3, <2>4, <2>5, SpaceWritten
<1>7. CASE SetStanding(w)
  <2>1. /\ s.do = "set_standing" /\ Goto(w, Idle)
        /\ standing' = [standing EXCEPT ![s.who] = IF @ = Out THEN Out ELSE s.role]
        /\ UNCHANGED <<ranks, serverArchived, space, channels, roles, invites>>
    BY <1>7 DEF SetStanding, Does, Finish
  <2>2. s # Idle /\ s.who \in Users /\ s.role \in SpaceRoles
    BY <1>1, <2>1, StepFields, AtStep
  <2>3. standing' \in [Users -> SpaceRoles \cup {Out}]
    BY <1>1, <2>1, <2>2
  <2> QED BY <1>1, <1>2, <2>1, <2>2, <2>3, SpaceWritten
<1> QED BY <1>3, <1>4, <1>5, <1>6, <1>7

\* remove_space_member writes the space's members and those of its channels.
LEMMA ExpelKept ==
  ASSUME Inv, NEW w \in Workers, Expel(w)
  PROVE  Inv'
<1> DEFINE s == step[w]
           r == request[w]
<1>1. PICK u :
        /\ s.do = "expel" /\ Goto(w, Idle) /\ standing' = [standing EXCEPT ![u] = Out]
        /\ roles' = [c \in Channels |->
                      IF c \in OfSpace THEN [roles[c] EXCEPT ![u] = Out] ELSE roles[c]]
        /\ UNCHANGED <<ranks, serverArchived, space, channels, invites>>
  BY DEF Expel, Does, Finish
<1>2. s # Idle /\ TableTypes
  BY <1>1, AtStep
<1>3. Idle \in Steps /\ Fits(Idle, r) /\ Equal(Idle)
  BY Resting
<1>4. TableTypes'
  BY <1>1, <1>2 DEF TableTypes
<1>5. \A c \in Channels, v \in Users : roles'[c][v] \in {roles[c][v], Out}
  BY <1>1, <1>2 DEF TableTypes
<1>6. Keeps /\ Apart'
  BY <1>1 DEF Inv, Keeps, Apart, Exists
<1>7. Empty'
  BY <1>1, <1>5 DEF Inv, Empty, Exists
<1>8. DirectMembersWrite'
  BY <1>1, <1>5 DEF Inv, DirectMembersWrite, MembersOf, Exists, ServerAdmin
<1> QED BY <1>1, <1>2, <1>3, <1>4, <1>6, <1>7, <1>8, Written

LEMMA RowWritesKept ==
  ASSUME Inv, NEW w \in Workers
  PROVE  UpdateChannel(w) \/ ArchiveChannel(w) \/ UnarchiveChannel(w)
         \/ ArchiveSpace(w) \/ UnarchiveSpace(w) => Inv'
<1> DEFINE s == step[w]
<1>1. /\ channels \in [Channels -> ChannelRows \cup {Unused}] /\ space \in SpaceRows
      /\ \A c \in Channels : Exists(c) => channels[c] \in ChannelRows
      /\ \A c \in Channels : ~Exists(c) => channels[c] = Unused
  BY DEF Inv, TypeOK, TableTypes, Exists
<1>2. ASSUME NEW c \in Channels, Exists(c), NEW row \in ChannelRows,
             row.direct = channels[c].direct, row.inSpace = channels[c].inSpace,
             Alter(c, row), s # Idle, Goto(w, Idle),
             UNCHANGED <<ranks, serverArchived, space, standing, roles, invites>>
      PROVE  Inv'
  <2>1. \A d \in Channels : channels'[d] = IF d = c THEN row ELSE channels[d]
    BY <1>1, <1>2 DEF Alter
  <2>2. channels' \in [Channels -> ChannelRows \cup {Unused}]
    BY <1>1, <1>2 DEF Alter
  <2>3. \A d \in Channels :
           IF Exists(d)
           THEN /\ channels'[d] \in ChannelRows
                /\ channels'[d].direct = channels[d].direct
                /\ channels'[d].inSpace = channels[d].inSpace
           ELSE ~Exists(d)'
    BY <1>1, <1>2, <2>1 DEF Exists
  <2> QED BY <1>1, <1>2, <2>2, <2>3, RowsWritten
<1>3. CASE UpdateChannel(w)
  <2> DEFINE c == s.on
             row == [f \in DOMAIN channels[c] |->
                      IF f \in SettingNames THEN s.row[f] ELSE channels[c][f]]
  <2>1. /\ s.do = "update" /\ Goto(w, Idle) /\ Alter(c, row)
        /\ UNCHANGED <<ranks, serverArchived, space, standing, roles, invites>>
    BY <1>3 DEF UpdateChannel, Does, Finish
  <2>2. s # Idle /\ c \in Channels /\ Exists(c) /\ s.row \in ChannelSettings
    BY <2>1, AtWrite, AtStep, StepFields DEF OfChannel
  <2>3. row \in ChannelRows /\ row.direct = channels[c].direct /\ row.inSpace = channels[c].inSpace
    BY <1>1, <2>2 DEF ChannelRows, ChannelSettings, SettingNames
  <2> HIDE DEF row
  <2> QED BY <1>2, <2>1, <2>2, <2>3
<1>4. CASE ArchiveChannel(w)
  <2> DEFINE row == [channels[s.on] EXCEPT !.archived = TRUE]
  <2>1. /\ s.do = "archive" /\ Goto(w, Idle) /\ Alter(s.on, row)
        /\ UNCHANGED <<ranks, serverArchived, space, standing, roles, invites>>
    BY <1>4 DEF ArchiveChannel, Does, Finish
  <2>2. s # Idle /\ s.on \in Channels /\ Exists(s.on)
    BY <2>1, AtWrite DEF OfChannel
  <2>3. /\ row \in ChannelRows /\ row.direct = channels[s.on].direct
        /\ row.inSpace = channels[s.on].inSpace
    BY <1>1, <2>2 DEF ChannelRows
  <2> HIDE DEF row
  <2> QED BY <1>2, <2>1, <2>2, <2>3
<1>5. CASE UnarchiveChannel(w)
  <2> DEFINE row == [channels[s.on] EXCEPT !.archived = FALSE]
  <2>1. /\ s.do = "unarchive" /\ Goto(w, Idle) /\ Alter(s.on, row)
        /\ UNCHANGED <<ranks, serverArchived, space, standing, roles, invites>>
    BY <1>5 DEF UnarchiveChannel, Does, Finish
  <2>2. s # Idle /\ s.on \in Channels /\ Exists(s.on)
    BY <2>1, AtWrite DEF OfChannel
  <2>3. /\ row \in ChannelRows /\ row.direct = channels[s.on].direct
        /\ row.inSpace = channels[s.on].inSpace
    BY <1>1, <2>2 DEF ChannelRows
  <2> HIDE DEF row
  <2> QED BY <1>2, <2>1, <2>2, <2>3
<1>6. ASSUME NEW archived \in BOOLEAN, SetArchived(archived), s # Idle, Goto(w, Idle),
             UNCHANGED <<ranks, serverArchived, standing, roles, invites>>
      PROVE  Inv'
  <2>1. space' \in SpaceRows
    BY <1>1, <1>6 DEF SetArchived, SpaceRows
  <2>2. \A d \in Channels : channels'[d] = IF d \in OfSpace
                                            THEN [channels[d] EXCEPT !.archived = archived]
                                            ELSE channels[d]
    BY <1>6 DEF SetArchived
  <2>3. \A d \in Channels : Exists(d) =>
          /\ channels'[d] \in ChannelRows
          /\ channels'[d].direct = channels[d].direct
          /\ channels'[d].inSpace = channels[d].inSpace
    BY <1>1, <1>6, <2>2 DEF ChannelRows
  <2>4. \A d \in Channels : ~Exists(d) => channels'[d] = Unused /\ ~Exists(d)'
    BY <1>1, <2>2 DEF OfSpace, Exists
  <2>5. channels' \in [Channels -> ChannelRows \cup {Unused}]
    <3>1. channels' = [d \in Channels |-> channels'[d]]
      BY <1>6 DEF SetArchived
    <3> QED BY <2>3, <2>4, <3>1
  <2> QED BY <1>6, <2>1, <2>3, <2>4, <2>5, RowsWritten
<1>7. CASE ArchiveSpace(w)
  BY <1>6, <1>7, AtStep DEF ArchiveSpace, Does, Finish
<1>8. CASE UnarchiveSpace(w)
  BY <1>6, <1>8, AtStep DEF UnarchiveSpace, Does, Finish
<1> QED BY <1>3, <1>4, <1>5, <1>7, <1>8

LEMMA CreateChannelKept ==
  ASSUME Inv, NEW w \in Workers, CreateChannel(w)
  PROVE  Inv'
<1> DEFINE r == request[w]
           inSpace == r.op = "create_in_space"
           row == [direct |-> FALSE, inSpace |-> inSpace, archived |-> FALSE,
                   public |-> r.set.public, defaultRole |-> DefaultRole(r),
                   defaultJoin |-> inSpace /\ r.set.defaultJoin]
           f == [u \in Users |->
                  IF u = r.by THEN "admin" ELSE IF u \in r.with THEN DefaultRole(r) ELSE Out]
           next == IF inSpace /\ r.set.public
                   THEN [do |-> "list_space_members", on |-> NewChannel] ELSE Idle
<1>1. /\ step[w].do = "create" /\ RowLeft /\ Goto(w, next)
      /\ channels' = [channels EXCEPT ![NewChannel] = row] /\ SetRoles(NewChannel, f)
      /\ UNCHANGED <<ranks, serverArchived, space, standing, invites>>
  BY DEF CreateChannel, Does
<1>2. /\ step[w] # Idle /\ r \in Requests /\ r.op \in {"create", "create_in_space"}
  BY <1>1, AtStep DEF Fits
<1>3. r.set \in ChannelSettings
  BY <1>2, RequestFields
<1>4. row \in ChannelRows /\ ~row.direct
  BY <1>2, <1>3, DefaultRoleKnown DEF ChannelRows, ChannelSettings
<1>5. f \in [Users -> ChannelRoles \cup {Out}]
  BY <1>2, DefaultRoleKnown, RoleNames
<1>6. next \in Steps
  <2>1. NewChannel \in Channels
    BY <1>1 DEF RowLeft, NewChannel
  <2>2. [do |-> "list_space_members", on |-> NewChannel] \in Steps
    BY <2>1 DEF Steps
  <2> QED BY <2>2, Resting
<1>7. next # Idle => /\ next.do = "list_space_members" /\ next.on = NewChannel
                     /\ r.op = "create_in_space" /\ ~row.direct
  BY <1>4
<1> HIDE DEF row, f, next
<1> QED BY <1>1, <1>2, <1>4, <1>5, <1>6, <1>7, RowCreated

LEMMA CreateDirectKept ==
  ASSUME Inv, NEW w \in Workers, CreateDirect(w)
  PROVE  Inv'
<1> DEFINE r == request[w]
           members == {r.by} \cup IF r.op = "dm" THEN {r.of} ELSE r.with
           row == [direct |-> TRUE, inSpace |-> FALSE, archived |-> FALSE,
                   public |-> r.op = "dm", defaultRole |-> "write", defaultJoin |-> FALSE]
           f == [u \in Users |-> IF u \in members THEN "write" ELSE Out]
<1>1. /\ step[w].do = "converse" /\ RowLeft /\ Goto(w, Idle)
      /\ channels' = [channels EXCEPT ![NewChannel] = row] /\ SetRoles(NewChannel, f)
      /\ UNCHANGED <<ranks, serverArchived, space, standing, invites>>
  BY DEF CreateDirect, Does, Finish
<1>2. step[w] # Idle /\ Idle \in Steps
  BY <1>1, AtStep, Resting
<1>3. row \in ChannelRows /\ ~row.inSpace
  BY RoleNames DEF ChannelRows
<1>4. f \in [Users -> ChannelRoles \cup {Out}] /\ \A u \in Users : f[u] \in {"write", Out}
  BY RoleNames
<1> HIDE DEF row, f
<1> QED BY <1>1, <1>2, <1>3, <1>4, RowCreated

LEMMA WritesKept ==
  ASSUME Inv, NEW w \in Workers, Writing(w)
  PROVE  Inv'
  BY MemberWritesKept, SpaceWritesKept, ExpelKept, RowWritesKept, CreateChannelKept,
     CreateDirectKept DEF Writing

-----------------------------------------------------------------------------
(* The invariant *)

LEMMA RequestDomains ==
  ASSUME NEW r \in Requests
  PROVE  /\ r.op \in AboutChannel => "on" \in DOMAIN r
         /\ r.op \in {"accept", "decline"} => "invite" \in DOMAIN r
         /\ r # None
  BY DEF Requests, AboutChannel, None

LEMMA StartKept ==
  ASSUME Inv, NEW w \in Workers, Start(w)
  PROVE  Inv'
<1>1. PICK r \in asked.requests :
        /\ "on" \in DOMAIN r => Exists(r.on)
        /\ "invite" \in DOMAIN r => r.invite \in DOMAIN invites
        /\ request' = [request EXCEPT ![w] = r]
        /\ step' = [step EXCEPT ![w] =
             CASE r.op = "create" -> [do |-> "create"]
               [] r.op = "converse" /\ (r.named \/ Cardinality(r.with \ {r.by}) # 1)
                    -> [do |-> "converse"]
               [] OTHER -> Check]
  BY DEF Start
<1>2. /\ step[w] = Idle /\ asked.budget > 0 /\ asked' = [asked EXCEPT !.budget = @ - 1]
      /\ UNCHANGED tables
  BY DEF Start
<1>3. WorkerTypes /\ r \in Requests
  BY <1>1 DEF Inv, TypeOK, WorkerTypes
<1>4. /\ request'[w] = r /\ step'[w].do \in {"create", "converse", "check"}
      /\ step'[w] \in {[do |-> "create"], [do |-> "converse"], Check}
      /\ step'[w].do = "create" => r.op = "create"
      /\ step'[w].do = "converse" => r.op = "converse"
      /\ \A v \in Workers \ {w} : step'[v] = step[v] /\ request'[v] = request[v]
  BY <1>1, <1>3 DEF WorkerTypes, Check
<1>5. WorkerTypes'
  <2>1. step'[w] \in Steps /\ step'[w] # Idle
    <3>1. {[do |-> "create"], [do |-> "converse"], Check} \subseteq Steps
      BY DEF Steps, Check
    <3> QED BY <1>4, <3>1 DEF Idle
  <2>2. request' \in [Workers -> Requests \cup {None}] /\ step' \in [Workers -> Steps]
    BY <1>1, <1>3, <2>1 DEF WorkerTypes
  <2>3. \A v \in Workers : request'[v] = None <=> step'[v] = Idle
    BY <1>3, <1>4, <2>1, RequestDomains DEF WorkerTypes
  <2>4. asked' \in [atOnce : Nat, requests : SUBSET Requests, budget : Nat]
    BY <1>2, <1>3 DEF WorkerTypes
  <2> QED BY <2>2, <2>3, <2>4 DEF WorkerTypes
<1>6. TableTypes' /\ Keeps /\ Empty' /\ Apart' /\ DirectMembersWrite'
  BY <1>2 DEF Inv, TypeOK, TableTypes, Keeps, Empty, Apart, DirectMembersWrite, tables, Exists,
         MembersOf, ServerAdmin
<1>7. Fits(step[w], request[w])' /\ Equal(step[w])'
  <2>1. /\ r.op \in AboutChannel => Exists(r.on)'
        /\ r.op \in {"accept", "decline"} => r.invite \in DOMAIN invites'
    BY <1>1, <1>2, <1>3, RequestDomains DEF tables, Exists
  <2> QED BY <1>4, <2>1 DEF Fits, Equal, OfChannel
<1>8. \A v \in Workers \ {w} : Fits(step[v], request[v])' /\ (NoRank' => Equal(step[v])')
  BY <1>4, <1>6, OthersFit DEF Inv, Steady, Equals
<1> QED BY <1>5, <1>6, <1>7, <1>8 DEF Inv, TypeOK, Steady, Equals

LEMMA InitInv == Init => Inv
<1> SUFFICES ASSUME Init PROVE Inv
  OBVIOUS
<1>1. PICK s \in Scenarios :
        /\ ranks = s.ranks /\ serverArchived = s.serverArchived /\ space = s.space
        /\ standing = s.standing /\ channels = s.channels /\ roles = s.roles
        /\ invites = s.invites
        /\ asked = [atOnce |-> s.atOnce, requests |-> s.requests, budget |-> s.budget]
  BY DEF Init
<1>2. request = [w \in Workers |-> None] /\ step = [w \in Workers |-> Idle]
  BY DEF Init
<1>3. TableTypes
  BY <1>1, MembershipAssumption DEF TableTypes
<1>4. WorkerTypes
  <2>1. asked \in [atOnce : Nat, requests : SUBSET Requests, budget : Nat]
    BY <1>1, MembershipAssumption
  <2> QED BY <1>2, <2>1, Resting DEF WorkerTypes
<1>5. \A c \in Channels :
        IF ~Exists(c) THEN \A u \in Users : roles[c][u] = Out
        ELSE channels[c].direct =>
               ~channels[c].inSpace /\ \A u \in Users : roles[c][u] \in {"write", Out}
  BY <1>1, MembershipAssumption DEF Exists
<1>6. Empty /\ Apart /\ DirectMembersWrite
  BY <1>5 DEF Empty, Apart, DirectMembersWrite, MembersOf
<1>7. Steady /\ Equals
  BY <1>2, Resting DEF Steady, Equals
<1> QED BY <1>3, <1>4, <1>6, <1>7 DEF Inv, TypeOK

LEMMA NextInv == Inv /\ [Next]_vars => Inv'
<1> SUFFICES ASSUME Inv, [Next]_vars PROVE Inv'
  OBVIOUS
<1>1. CASE Next
  BY <1>1, StartKept, ChecksKept, ReadsKept, WritesKept DEF Next
<1>2. CASE UNCHANGED vars
  <2>1. UNCHANGED tables /\ UNCHANGED <<request, step, asked>>
    BY <1>2 DEF vars
  <2>2. TypeOK' /\ Empty' /\ Apart' /\ DirectMembersWrite'
    BY <2>1 DEF Inv, TypeOK, TableTypes, WorkerTypes, Empty, Apart, DirectMembersWrite, Exists,
       MembersOf, ServerAdmin, tables
  <2>3. Steady' /\ Equals'
    BY <2>1 DEF Inv, Steady, Equals, NoRank, Fits, Equal, Exists, ServerAdmin, tables
  <2> QED BY <2>2, <2>3 DEF Inv
<1> QED BY <1>1, <1>2

LEMMA Invariance == Spec => []Inv
  BY InitInv, NextInv, PTL DEF Spec

\* The tables hold rows of their columns and the workers steps of their requests,
\* whatever requests the handlers serve at once: no handler writes a role, a row
\* or an invite that another one cannot read.
THEOREM MembershipTypes == Spec => []TypeOK
<1>1. Inv => TypeOK
  BY DEF Inv
<1> QED BY <1>1, Invariance, PTL

\* Where no user has a server rank, every member of a conversation keeps the role
\* "write", for every interleaving of the requests that create a conversation, add
\* to it, leave it, or change a role.
THEOREM ConversationsStayEqual == Spec => []DirectMembersWrite
<1>1. Inv => DirectMembersWrite
  BY DEF Inv
<1> QED BY <1>1, Invariance, PTL


-----------------------------------------------------------------------------
(* Conversations that members leave, default-join channels, and admins *)

(***************************************************************************)
(* LeftAloneArchived: whoever leaves a conversation archives it, or is     *)
(* about to count its members or to archive it, unless somebody remains    *)
(* beside the last member.  A worker between the two writes is what the    *)
(* property does not speak of and a proof has to.                          *)
(***************************************************************************)
Conversed == \A c \in left : c \in Channels /\ Exists(c) /\ channels[c].direct
Archiving(w, c) ==
  Serves(w, "leave") /\ step[w].do \in {"count_members", "archive"} /\ step[w].on = c
Attended ==
  \A c \in left : Cardinality(MembersOf(c)) <= 1 =>
    channels[c].archived \/ \E w \in Workers : Archiving(w, c)

(***************************************************************************)
(* NoMissedDefaultChannel: a member of the space that a channel is due to  *)
(* have is in it, or some worker will still take them in: the one that     *)
(* created the channel, or the one that let them into the space.           *)
(***************************************************************************)
DefaultChannel(c) ==
  c \in OfSpace /\ c \notin altered /\ channels[c].defaultJoin /\ channels[c].public
Due(c, u) == DefaultChannel(c) /\ standing[u] # Out /\ <<c, u>> \notin removed
Admitting(w, c, u) ==
  \/ step[w].do = "list_space_members" /\ step[w].on = c
  \/ step[w].do = "fill" /\ step[w].on = c /\ u \in step[w].todo
  \/ step[w].do = "list_defaults" /\ step[w].who = u
  \/ step[w].do = "join_defaults" /\ step[w].who = u /\ \E d \in step[w].todo : d[1] = c
Open == \A c \in Channels : DefaultChannel(c) => ~channels[c].archived
Admitted ==
  \A c \in Channels, u \in Users : Due(c, u) =>
    u \in MembersOf(c) \/ \E w \in Workers : Admitting(w, c, u)

(***************************************************************************)
(* AdminRemains: where requests are served one at a time, what the check   *)
(* or the count of a request has found still holds when its write comes.   *)
(***************************************************************************)
Standalone(c) == Exists(c) /\ ~channels[c].direct /\ ~channels[c].inSpace
InUse(c) == Standalone(c) /\ ~channels[c].archived
Others(c, u) == AdminsOf(c) \ {u}
Secure(s) ==
  /\ s.do = "remove" /\ InUse(s.on) => Others(s.on, s.who) # {}
  /\ s.do = "set_role" /\ s.role # "admin" /\ InUse(s.on) => Others(s.on, s.who) # {}
  /\ s.do = "unarchive" /\ Standalone(s.on) => AdminsOf(s.on) # {}
OneByOne == \A v, w \in Workers : step[v] # Idle /\ step[w] # Idle => v = w
Administered == \A c \in Channels : InUse(c) => AdminsOf(c) # {}
Governed ==
  asked.atOnce = 1 /\ NoRank => OneByOne /\ Administered /\ \A w \in Workers : Secure(step[w])

Kept == Conversed /\ Attended /\ Open /\ Admitted /\ Governed


-----------------------------------------------------------------------------
(* What one step of a worker leaves alone *)

OthersWait(w) ==
  \A v \in Workers \ {w} : step'[v] = step[v] /\ request'[v] = request[v]

LEMMA WorkerGoes ==
  ASSUME Inv, NEW w \in Workers, NEW next, Goto(w, next), step[w] # Idle
  PROVE  /\ OthersWait(w) /\ step'[w] = next /\ asked' = asked
         /\ next # Idle => request'[w] = request[w]
  BY DEF Inv, TypeOK, WorkerTypes, Goto, OthersWait

LEMMA CountOfMembers ==
  ASSUME NEW c
  PROVE  IsFiniteSet(MembersOf(c)) /\ Cardinality(MembersOf(c)) \in Nat
  BY MembershipAssumption, FS_Subset, FS_CardinalityType, MembersOf(c) \subseteq Users
  DEF MembersOf

(* Conversations: nobody is taken out of one that was left but by leaving, *)
(* and who counts its members archives it or has found somebody.           *)
LEMMA AttendedKept ==
  ASSUME Inv, Conversed, Attended, NEW w \in Workers, OthersWait(w),
         \A c \in left' :
           \/ /\ c \in left /\ Exists(c)' /\ channels'[c].direct
              /\ MembersOf(c) \subseteq MembersOf(c)'
              /\ channels[c].archived => channels'[c].archived
              /\ Archiving(w, c) =>
                   Archiving(w, c)' \/ channels'[c].archived \/ Cardinality(MembersOf(c)) > 1
           \/ c \in Channels /\ Exists(c)' /\ channels'[c].direct /\ Archiving(w, c)'
  PROVE  Conversed' /\ Attended'
<1>1. Conversed'
  BY DEF Conversed
<1>2. ASSUME NEW c \in left', (Cardinality(MembersOf(c)) <= 1)', ~channels'[c].archived
      PROVE  \E v \in Workers : Archiving(v, c)'
  <2>1. CASE Archiving(w, c)'
    BY <2>1
  <2>2. CASE ~Archiving(w, c)'
    <3>1. /\ c \in left /\ MembersOf(c) \subseteq MembersOf(c)' /\ ~channels[c].archived
          /\ Archiving(w, c) => Cardinality(MembersOf(c)) > 1
      BY <1>2, <2>2
    <3>2. IsFiniteSet(MembersOf(c)')
      BY MembershipAssumption, FS_Subset DEF MembersOf
    <3>3. Cardinality(MembersOf(c)) <= Cardinality(MembersOf(c)')
      BY <3>1, <3>2, FS_Subset
    <3>4. Cardinality(MembersOf(c)') \in Nat /\ Cardinality(MembersOf(c)) \in Nat
      BY <3>2, FS_CardinalityType, CountOfMembers
    <3>5. Cardinality(MembersOf(c)) <= 1
      BY <1>2, <3>3, <3>4
    <3>6. PICK v \in Workers : Archiving(v, c)
      BY <3>1, <3>5 DEF Attended
    <3>7. v # w
      BY <3>1, <3>4, <3>5, <3>6
    <3>8. Archiving(v, c)'
      BY <3>6, <3>7 DEF OthersWait, Archiving, Serves
    <3> QED BY <3>8
  <2> QED BY <2>1, <2>2
<1> QED BY <1>1, <1>2 DEF Attended

(* A step that neither writes to channels nor counts members.              *)
LEMMA AttendedElsewhere ==
  ASSUME Inv, Conversed, Attended, NEW w \in Workers, OthersWait(w),
         UNCHANGED <<channels, roles, left>>,
         step[w].do \notin {"count_members", "archive"}
  PROVE  Conversed' /\ Attended'
<1>1. \A c \in left : MembersOf(c)' = MembersOf(c) /\ Exists(c)' /\ ~Archiving(w, c)
  BY DEF Conversed, MembersOf, Exists, Archiving
<1> QED BY <1>1, AttendedKept DEF Conversed

(* Default-join channels: whoever is due stays in, or stays to be taken in *)
(* by somebody else, unless the worker takes them in or will.              *)
LEMMA AdmittedKept ==
  ASSUME Admitted, NEW w \in Workers, OthersWait(w),
         \A c \in Channels, u \in Users : Due(c, u)' =>
           \/ (u \in MembersOf(c))' \/ Admitting(w, c, u)'
           \/ /\ Due(c, u) /\ ~Admitting(w, c, u)
              /\ u \in MembersOf(c) => (u \in MembersOf(c))'
  PROVE  Admitted'
<1> SUFFICES ASSUME NEW c \in Channels, NEW u \in Users, Due(c, u)', ~(u \in MembersOf(c))'
             PROVE  \E v \in Workers : Admitting(v, c, u)'
  BY DEF Admitted
<1>1. CASE Admitting(w, c, u)'
  BY <1>1
<1>2. CASE ~Admitting(w, c, u)'
  <2>1. Due(c, u) /\ ~Admitting(w, c, u) /\ u \notin MembersOf(c)
    BY <1>2
  <2>2. PICK v \in Workers : Admitting(v, c, u)
    BY <2>1 DEF Admitted
  <2>3. v # w
    BY <2>1, <2>2
  <2>4. Admitting(v, c, u)'
    BY <2>2, <2>3 DEF OthersWait, Admitting
  <2> QED BY <2>4
<1> QED BY <1>1, <1>2

Admitters == {"list_space_members", "fill", "list_defaults", "join_defaults"}

(* A step outside of the default-join channels.                            *)
LEMMA AdmittedElsewhere ==
  ASSUME Admitted, Open, NEW w \in Workers, OthersWait(w), step[w].do \notin Admitters,
         \A c \in Channels, u \in Users : Due(c, u)' =>
           Due(c, u) /\ (u \in MembersOf(c) => (u \in MembersOf(c))'),
         \A c \in Channels : DefaultChannel(c)' => DefaultChannel(c) /\ ~channels'[c].archived
  PROVE  Admitted' /\ Open'
<1>1. \A c \in Channels, u \in Users : ~Admitting(w, c, u)
  BY DEF Admitting, Admitters
<1>2. Admitted'
  BY <1>1, AdmittedKept
<1> QED BY <1>2 DEF Open

(* Admins: the worker is the only one at work, so what it knew still holds.*)
LEMMA GovernedKept ==
  ASSUME Inv, Governed, NEW w \in Workers, step[w] # Idle, OthersWait(w), asked' = asked,
         ranks' = ranks,
         NoRank /\ Administered /\ Secure(step[w]) => Administered' /\ Secure(step[w])'
  PROVE  Governed'
<1> SUFFICES ASSUME asked.atOnce = 1, NoRank
             PROVE  OneByOne' /\ Administered' /\ \A v \in Workers : Secure(step[v])'
  BY DEF Governed, NoRank, ServerAdmin
<1>1. OneByOne /\ Administered /\ \A v \in Workers : Secure(step[v])
  BY DEF Governed
<1>2. \A v \in Workers \ {w} : step'[v] = Idle
  BY <1>1 DEF OneByOne, OthersWait
<1>3. Administered' /\ Secure(step[w])'
  BY <1>1
<1>4. \A v \in Workers \ {w} : Secure(step[v])'
  <2>1. \A v \in Workers \ {w} : step'[v].do = "idle"
    BY <1>2 DEF Idle
  <2> QED BY <2>1 DEF Secure
<1>5. OneByOne'
  BY <1>2 DEF OneByOne
<1> QED BY <1>3, <1>4, <1>5

(* A step that lets no admin go and opens no channel that has none.        *)
LEMMA GovernedElsewhere ==
  ASSUME Inv, Governed, NEW w \in Workers, step[w] # Idle, OthersWait(w), asked' = asked,
         ranks' = ranks,
         \A c \in Channels : InUse(c)' =>
           \/ InUse(c) /\ AdminsOf(c) \subseteq AdminsOf(c)'
           \/ AdminsOf(c)' # {},
         step'[w].do \notin {"remove", "set_role", "unarchive"}
  PROVE  Governed'
<1>1. Administered => Administered'
  BY DEF Administered
<1>2. Secure(step[w])'
  BY DEF Secure
<1> QED BY <1>1, <1>2, GovernedKept


-----------------------------------------------------------------------------
(* Steps that write nothing *)

(* The step that a worker is at tells which handler it runs.               *)
LEMMA DecideGoes ==
  ASSUME Inv, NEW w \in Workers, NEW allowed, NEW next, Decide(w, allowed, next),
         step[w] # Idle
  PROVE  /\ OthersWait(w) /\ asked' = asked /\ UNCHANGED <<tables, history>>
         /\ step'[w] = IF allowed THEN next ELSE Idle
  BY WorkerGoes DEF Decide

(* Nothing that these properties speak of is written.                      *)
LEMMA UnwrittenElsewhere ==
  ASSUME Inv, Kept, NEW w \in Workers, OthersWait(w), UNCHANGED <<tables, history>>
  PROVE  /\ step[w].do \notin {"count_members", "archive"} => Conversed' /\ Attended'
         /\ step[w].do \notin Admitters => Admitted' /\ Open'
         /\ asked' = asked /\ step[w] # Idle
              /\ step'[w].do \notin {"remove", "set_role", "unarchive"} => Governed'
<1>1. UNCHANGED <<channels, roles, standing, ranks, left, removed, altered>>
  BY DEF tables, history
<1>2. step[w].do \notin {"count_members", "archive"} => Conversed' /\ Attended'
  BY <1>1, AttendedElsewhere DEF Kept
<1>3. /\ \A c \in Channels, u \in Users : Due(c, u)' => Due(c, u)
      /\ \A c \in Channels, u \in Users : (u \in MembersOf(c))' <=> u \in MembersOf(c)
      /\ \A c \in Channels : DefaultChannel(c)' => DefaultChannel(c) /\ ~channels'[c].archived
  BY <1>1 DEF Due, DefaultChannel, OfSpace, Exists, MembersOf, Open, Kept
<1>4. step[w].do \notin Admitters => Admitted' /\ Open'
  BY <1>3, AdmittedElsewhere DEF Kept
<1>5. \A c \in Channels : InUse(c)' => InUse(c) /\ AdminsOf(c) \subseteq AdminsOf(c)'
  BY <1>1 DEF InUse, Standalone, Exists, AdminsOf
<1>6. asked' = asked /\ step[w] # Idle
        /\ step'[w].do \notin {"remove", "set_role", "unarchive"} => Governed'
  BY <1>1, <1>5, GovernedElsewhere DEF Kept
<1> QED BY <1>2, <1>4, <1>6

(* The worker goes on to a write that it has made sure of.                 *)
LEMMA MadeSure ==
  ASSUME Inv, Governed, NEW w \in Workers, NEW next, step'[w] = next, step[w] # Idle,
         OthersWait(w), asked' = asked, UNCHANGED tables,
         NoRank /\ Administered => Secure(next)
  PROVE  Governed'
<1>1. UNCHANGED <<channels, roles, ranks>>
  BY DEF tables
<1>2. Administered => Administered'
  BY <1>1 DEF Administered, InUse, Standalone, Exists, AdminsOf
<1>3. NoRank /\ Administered => Secure(step[w])'
  BY <1>1 DEF Secure, Others, InUse, Standalone, Exists, AdminsOf
<1> QED BY <1>1, <1>2, <1>3, GovernedKept

LEMMA SecureIdle == Secure(Idle)
  BY DEF Secure, Idle

(* The checks that go on to a write that takes an admin away or unarchives. *)
LEMMA AdminChecksKept ==
  ASSUME Inv, Kept, NEW w \in Workers, step[w].do = "check"
  PROVE  CheckKick(w) \/ CheckRole(w) \/ CheckLeave(w) \/ CheckUnarchive(w) => Governed'
<1> DEFINE r == request[w]
           c == r.on
<1>1. step[w] # Idle /\ r \in Requests /\ r.by \in Users /\ Governed
      /\ (r.op \in AboutChannel => c \in Channels)
  BY AtCheck, RequestFields DEF Kept
<1>2. NoRank /\ Standalone(c) /\ EffectiveRole(c, r.by) = "admin" => r.by \in AdminsOf(c)
  BY <1>1 DEF NoRank, Standalone, EffectiveRole, AdminsOf
<1>3. CASE CheckKick(w)
  <2> DEFINE next == [do |-> "remove", on |-> c, who |-> r.of]
             allowed == EffectiveRole(c, r.by) = "admin" /\ r.of # r.by
  <2>1. Decide(w, allowed, next)
    BY <1>3 DEF CheckKick
  <2>2. allowed /\ NoRank => Secure(next)
    BY <1>2 DEF Secure, Others, InUse
  <2> QED BY <1>1, <2>1, <2>2, DecideGoes, MadeSure, SecureIdle
<1>4. CASE CheckRole(w)
  <2> DEFINE demoted == roles[c][r.of] = "admin" /\ r.role # "admin"
             next == [do |-> IF demoted THEN "count_admins" ELSE "set_role",
                      on |-> c, who |-> r.of, role |-> r.role]
             allowed == /\ EffectiveRole(c, r.by) = "admin" /\ r.role \in NamedChannelRoles
                        /\ demoted => r.of = r.by
  <2>1. Decide(w, allowed, next) /\ r.op \in AboutChannel
    BY <1>4 DEF CheckRole, Checks, AboutChannel
  <2>2. Administered => Secure(next)
    <3>1. /\ next.do \in {"count_admins", "set_role"} /\ next.on = c /\ next.who = r.of
          /\ next.role = r.role
          /\ next.do = "set_role" /\ r.role # "admin" => roles[c][r.of] # "admin"
      OBVIOUS
    <3>2. roles[c][r.of] # "admin" => Others(c, r.of) = AdminsOf(c)
      BY DEF Others, AdminsOf
    <3> HIDE DEF next
    <3> QED BY <1>1, <2>1, <3>1, <3>2 DEF Secure, Administered
  <2> HIDE DEF next, allowed
  <2> QED BY <1>1, <2>1, <2>2, DecideGoes, MadeSure, SecureIdle
<1>5. CASE CheckLeave(w)
  <2> DEFINE u == r.by
             next == IF channels[c].direct
                     THEN [do |-> "depart", on |-> c, who |-> u]
                     ELSE IF u \in AdminsOf(c) /\ ~channels[c].archived
                     THEN [do |-> "count_admins", on |-> c, who |-> u, role |-> Out]
                     ELSE [do |-> "remove", on |-> c, who |-> u]
             allowed == u \in MembersOf(c)
  <2>1. Decide(w, allowed, next) /\ r.op \in AboutChannel
    BY <1>5 DEF CheckLeave, Checks, AboutChannel
  <2>2. Administered => Secure(next)
    BY <1>1, <2>1 DEF Secure, Others, Administered, InUse
  <2> QED BY <1>1, <2>1, <2>2, DecideGoes, MadeSure, SecureIdle
<1>6. CASE CheckUnarchive(w)
  <2> DEFINE next == [do |-> "unarchive", on |-> c]
             allowed == EffectiveRole(c, r.by) = "admin" /\ ~(channels[c].inSpace /\ space.archived)
  <2>1. Decide(w, allowed, next)
    BY <1>6 DEF CheckUnarchive
  <2>2. allowed /\ NoRank => Secure(next)
    BY <1>2 DEF Secure
  <2> QED BY <1>1, <2>1, <2>2, DecideGoes, MadeSure, SecureIdle
<1> QED BY <1>3, <1>4, <1>5, <1>6


(* A refusal, and a check that goes on to anything else, secure nothing.   *)
LEMMA OtherChecks ==
  ASSUME Inv, NEW w \in Workers, step[w].do = "check", NEW next, NEW allowed,
         Decide(w, allowed, next), next.do \notin {"remove", "set_role", "unarchive"}
  PROVE  step'[w].do \notin {"remove", "set_role", "unarchive"}
<1>1. step[w] # Idle
  BY DEF Idle
<1>2. step'[w] = next \/ step'[w] = Idle
  BY <1>1, DecideGoes
<1> QED BY <1>2 DEF Idle

LEMMA ChecksShape ==
  ASSUME Inv, NEW w \in Workers, Checking(w)
  PROVE  /\ step[w].do = "check" /\ step[w] # Idle /\ OthersWait(w) /\ asked' = asked
         /\ UNCHANGED <<tables, history>>
         /\ \/ CheckKick(w) \/ CheckRole(w) \/ CheckLeave(w) \/ CheckUnarchive(w)
            \/ step'[w].do \notin {"remove", "set_role", "unarchive"}
<1> DEFINE Shape == \E allowed, next :
             /\ Decide(w, allowed, next)
             /\ \/ CheckKick(w) \/ CheckRole(w) \/ CheckLeave(w) \/ CheckUnarchive(w)
                \/ next.do \notin {"remove", "set_role", "unarchive"}
<1>1. step[w].do = "check"
  BY ChecksAtCheck
<1>2. CheckJoin(w) \/ CheckAdd(w) \/ CheckConverseAdd(w) => Shape
  BY DEF CheckJoin, CheckAdd, CheckConverseAdd
<1>3. CheckKick(w) => Shape
  BY DEF CheckKick
<1>4. CheckRole(w) => Shape
  BY DEF CheckRole
<1>5. CheckLeave(w) => Shape
  BY DEF CheckLeave
<1>6. CheckUnarchive(w) => Shape
  BY DEF CheckUnarchive
<1>7. CheckUpdate(w) \/ CheckArchive(w) \/ CheckCreateInSpace(w) \/ FindDirect(w) => Shape
  BY DEF CheckUpdate, CheckArchive, CheckCreateInSpace, FindDirect
<1>8. CheckUpdateSpace(w) => Shape
  BY DEF CheckUpdateSpace
<1>9. CheckJoinSpace(w) \/ CheckAnswer(w) \/ CheckSpaceKick(w) => Shape
  BY DEF CheckJoinSpace, CheckAnswer, CheckSpaceKick
<1>16. CheckInvite(w) => Shape
  <2> DEFINE next == [do |-> "create_invite", who |-> request[w].of, role |-> request[w].role]
  <2>1. CheckInvite(w) => \E allowed : Decide(w, allowed, next)
    BY DEF CheckInvite
  <2> QED BY <2>1
<1>10. CheckSpaceRole(w) => Shape
  <2> DEFINE r == request[w]
             steppingDown == standing[r.of] = "owner" /\ r.role # "owner"
             next == [do |-> IF steppingDown THEN "count_owners" ELSE "set_standing",
                      who |-> r.of, role |-> r.role]
  <2>1. next.do \in {"count_owners", "set_standing"}
    OBVIOUS
  <2>2. CheckSpaceRole(w) => \E allowed : Decide(w, allowed, next)
    BY DEF CheckSpaceRole
  <2> QED BY <2>1, <2>2
<1>11. CheckLeaveSpace(w) => Shape
  <2> DEFINE u == request[w].by
             next == IF standing[u] = "owner" /\ ~space.archived
                     THEN [do |-> "count_owners", who |-> u, role |-> Out]
                     ELSE [do |-> "list_own_channels"]
  <2>1. next.do \in {"count_owners", "list_own_channels"}
    OBVIOUS
  <2>2. CheckLeaveSpace(w) => \E allowed : Decide(w, allowed, next)
    BY DEF CheckLeaveSpace
  <2> QED BY <2>1, <2>2
<1>12. CheckArchiveSpace(w) \/ CheckUnarchiveSpace(w) => Shape
  BY DEF CheckArchiveSpace, CheckUnarchiveSpace
<1>13. Shape
  BY <1>2, <1>3, <1>4, <1>5, <1>6, <1>7, <1>8, <1>9, <1>10, <1>11, <1>12,
     <1>16, Zenon DEF Checking
<1>14. PICK allowed, next :
         /\ Decide(w, allowed, next)
         /\ \/ CheckKick(w) \/ CheckRole(w) \/ CheckLeave(w) \/ CheckUnarchive(w)
            \/ next.do \notin {"remove", "set_role", "unarchive"}
  BY <1>13
<1>15. step[w] # Idle
  BY <1>1 DEF Idle
<1> QED BY <1>1, <1>14, <1>15, DecideGoes, OtherChecks

LEMMA ChecksKeep ==
  ASSUME Inv, Kept, NEW w \in Workers, Checking(w)
  PROVE  Kept'
<1>1. Conversed' /\ Attended' /\ Admitted' /\ Open'
  BY ChecksShape, UnwrittenElsewhere DEF Admitters
<1>2. Governed'
  BY ChecksShape, UnwrittenElsewhere, AdminChecksKept
<1> QED BY <1>1, <1>2 DEF Kept

(* More than one admin: one remains beside anybody.                        *)
LEMMA Remaining ==
  ASSUME NEW S, IsFiniteSet(S), Cardinality(S) > 1, NEW u
  PROVE  S \ {u} # {}
<1> SUFFICES ASSUME S \subseteq {u} PROVE FALSE
  OBVIOUS
<1>1. IsFiniteSet({u}) /\ Cardinality({u}) = 1
  BY FS_Singleton
<1>2. Cardinality(S) <= 1 /\ Cardinality(S) \in Nat
  BY <1>1, FS_Subset, FS_CardinalityType
<1> QED BY <1>2

LEMMA ReadsKeep ==
  ASSUME Inv, Kept, NEW w \in Workers, Reading(w)
  PROVE  Kept'
<1> DEFINE s == step[w]
<1>1. CASE CountAdmins(w)
  <2> DEFINE next == IF s.role = Out THEN [do |-> "remove", on |-> s.on, who |-> s.who]
                     ELSE [do |-> "set_role", on |-> s.on, who |-> s.who, role |-> s.role]
             allowed == Cardinality(AdminsOf(s.on)) > 1
  <2>1. Decide(w, allowed, next) /\ s.do = "count_admins" /\ s # Idle
    BY <1>1, AtStep DEF CountAdmins, Does
  <2>2. allowed => Others(s.on, s.who) # {}
    <3>1. IsFiniteSet(AdminsOf(s.on))
      BY MembershipAssumption, FS_Subset, AdminsOf(s.on) \subseteq Users DEF AdminsOf
    <3> QED BY <3>1, Remaining DEF Others
  <2>3. allowed => Secure(next)
    BY <2>2 DEF Secure
  <2>4. OthersWait(w) /\ asked' = asked /\ UNCHANGED <<tables, history>>
        /\ step'[w] = IF allowed THEN next ELSE Idle
    BY <2>1, DecideGoes
  <2>5. Governed'
    <3> HIDE DEF next, allowed
    <3> QED BY <2>1, <2>3, <2>4, MadeSure, SecureIdle DEF Kept
  <2>6. Conversed' /\ Attended' /\ Admitted' /\ Open'
    BY <2>1, <2>4, UnwrittenElsewhere DEF Admitters
  <2> QED BY <2>5, <2>6 DEF Kept
<1>2. CASE CountMembers(w)
  <2> DEFINE next == [do |-> "archive", on |-> s.on]
             allowed == Cardinality(MembersOf(s.on)) <= 1
  <2>1. Decide(w, allowed, next) /\ s.do = "count_members" /\ s # Idle
    BY <1>2, AtStep DEF CountMembers, Does
  <2>2. /\ OthersWait(w) /\ asked' = asked /\ UNCHANGED <<tables, history>>
        /\ step'[w] = IF allowed THEN next ELSE Idle
    BY <2>1, DecideGoes
  <2>3. step'[w].do \in {"archive", "idle"}
    BY <2>2 DEF Idle
  <2>4. Governed' /\ Admitted' /\ Open'
    BY <2>1, <2>2, <2>3, UnwrittenElsewhere DEF Admitters
  <2>5. allowed => request'[w] = request[w] /\ step'[w] = next
    <3>1. Goto(w, IF allowed THEN next ELSE Idle) /\ next # Idle
      BY <2>1 DEF Decide, Idle
    <3> HIDE DEF next, allowed
    <3> QED BY <2>1, <2>2, <3>1, WorkerGoes
  <2>6. \A c \in left : Archiving(w, c) => Archiving(w, c)' \/ Cardinality(MembersOf(c)) > 1
    <3> SUFFICES ASSUME NEW c \in left, Archiving(w, c), ~(Cardinality(MembersOf(c)) > 1)
                 PROVE  Archiving(w, c)'
      OBVIOUS
    <3>1. c = s.on /\ allowed
      BY CountOfMembers DEF Archiving
    <3> QED BY <2>5, <3>1 DEF Archiving, Serves
  <2>7. Conversed' /\ Attended'
    <3>1. UNCHANGED <<channels, roles, left>>
      BY <2>2 DEF tables, history
    <3>2. \A c \in left : /\ Exists(c)' /\ channels'[c].direct
                          /\ MembersOf(c) \subseteq MembersOf(c)'
      BY <3>1 DEF Kept, Conversed, Exists, MembersOf
    <3> QED BY <2>2, <2>6, <3>1, <3>2, AttendedKept DEF Kept
  <2> QED BY <2>4, <2>7 DEF Kept
<1>3. CASE ListSpaceMembers(w)
  <2> DEFINE next == [do |-> "fill", on |-> s.on, todo |-> {u \in Users : standing[u] # Out}]
  <2>1. Goto(w, next) /\ UNCHANGED <<tables, history>> /\ s.do = "list_space_members" /\ s # Idle
    BY <1>3, AtStep DEF ListSpaceMembers, Does
  <2>2. OthersWait(w) /\ step'[w] = next /\ asked' = asked
    BY <2>1, WorkerGoes
  <2>3. Governed' /\ Conversed' /\ Attended'
    BY <2>1, <2>2, UnwrittenElsewhere
  <2>4. UNCHANGED <<channels, standing, altered, removed>>
    BY <2>1 DEF tables, history
  <2>5. \A c \in Channels, u \in Users : Due(c, u)' =>
          Due(c, u) /\ (Admitting(w, c, u) => Admitting(w, c, u)')
    BY <2>1, <2>2, <2>4 DEF Due, DefaultChannel, OfSpace, Exists, Admitting
  <2>6. \A c \in Channels, u \in Users : u \in MembersOf(c) => (u \in MembersOf(c))'
    BY <2>1 DEF tables, MembersOf
  <2>7. Admitted'
    BY <2>2, <2>5, <2>6, AdmittedKept DEF Kept
  <2>8. Open'
    BY <2>4 DEF Kept, Open, DefaultChannel, OfSpace, Exists
  <2> QED BY <2>3, <2>7, <2>8 DEF Kept
<1>4. CASE CountOwners(w)
  <2> DEFINE next == IF s.role = Out THEN [do |-> "list_own_channels"]
                     ELSE [do |-> "set_standing", who |-> s.who, role |-> s.role]
             allowed == Cardinality(Owners) > 1
  <2>1. Decide(w, allowed, next) /\ s.do = "count_owners" /\ s # Idle
    BY <1>4, AtStep DEF CountOwners, Does
  <2>2. /\ OthersWait(w) /\ asked' = asked /\ UNCHANGED <<tables, history>>
        /\ step'[w] = IF allowed THEN next ELSE Idle
    <3> HIDE DEF next, allowed
    <3> QED BY <2>1, DecideGoes
  <2>3. step'[w].do \in {"list_own_channels", "set_standing", "idle"}
    <3>1. next.do \in {"list_own_channels", "set_standing"} /\ Idle.do = "idle"
      BY DEF Idle
    <3> QED BY <2>2, <3>1
  <2> QED BY <2>1, <2>2, <2>3, UnwrittenElsewhere DEF Kept, Admitters
<1>5. CASE ListDefaults(w)
  <2> DEFINE defaults == {c \in OfSpace : channels[c].defaultJoin /\ ~channels[c].archived}
             todo == {<<c, channels[c].defaultRole>> : c \in defaults}
             next == [do |-> "join_defaults", who |-> s.who, todo |-> todo]
  <2>1. Goto(w, next) /\ UNCHANGED <<tables, history>> /\ s.do = "list_defaults" /\ s # Idle
    BY <1>5, AtStep DEF ListDefaults, Does
  <2>2. OthersWait(w) /\ step'[w] = next /\ asked' = asked
    BY <2>1, WorkerGoes
  <2>3. Governed' /\ Conversed' /\ Attended'
    <3>1. step'[w].do = "join_defaults"
      BY <2>2
    <3> QED BY <2>1, <2>2, <3>1, UnwrittenElsewhere
  <2>4. UNCHANGED <<channels, standing, altered, removed>>
    BY <2>1 DEF tables, history
  <2>5. \A c \in Channels, u \in Users : Due(c, u)' => Due(c, u) /\ c \in defaults
    BY <2>4 DEF Due, DefaultChannel, OfSpace, Exists, Kept, Open
  <2>6. \A c \in defaults : \E d \in todo : d[1] = c
    <3>1. \A c \in defaults : <<c, channels[c].defaultRole>> \in todo
      OBVIOUS
    <3> HIDE DEF todo, defaults
    <3> QED BY <3>1
  <2>7. step'[w].do = "join_defaults" /\ step'[w].who = s.who /\ step'[w].todo = todo
    BY <2>2
  <2>8. \A c \in Channels, u \in Users : Due(c, u)' =>
          Due(c, u) /\ (Admitting(w, c, u) => Admitting(w, c, u)')
    <3> HIDE DEF todo, defaults
    <3> QED BY <2>1, <2>5, <2>6, <2>7 DEF Admitting
  <2>9. \A c \in Channels, u \in Users : u \in MembersOf(c) => (u \in MembersOf(c))'
    BY <2>1 DEF tables, MembersOf
  <2>10. Admitted'
    BY <2>2, <2>8, <2>9, AdmittedKept DEF Kept
  <2>11. Open'
    BY <2>4 DEF Kept, Open, DefaultChannel, OfSpace, Exists
  <2> QED BY <2>3, <2>10, <2>11 DEF Kept
<1>6. CASE ListOwnChannels(w)
  <2> DEFINE next == [do |-> "leave_channels",
                      todo |-> {c \in OfSpace : request[w].by \in MembersOf(c)}]
  <2>1. Goto(w, next) /\ UNCHANGED <<tables, history>> /\ s.do = "list_own_channels" /\ s # Idle
    BY <1>6, AtStep DEF ListOwnChannels, Does
  <2>2. OthersWait(w) /\ step'[w] = next /\ asked' = asked
    BY <2>1, WorkerGoes
  <2>3. step'[w].do = "leave_channels"
    BY <2>2
  <2> QED BY <2>1, <2>2, <2>3, UnwrittenElsewhere DEF Kept, Admitters
<1> QED BY <1>1, <1>2, <1>3, <1>4, <1>5, <1>6 DEF Reading


-----------------------------------------------------------------------------
(* Steps that write *)

AdminWrites == {"remove", "set_role", "unarchive"}
Archivers == {"count_members", "archive"}

(* What a write has to show of the three.                                  *)
LEMMA KeptBy ==
  ASSUME Inv, Kept, NEW w \in Workers, step[w] # Idle, NEW next, Goto(w, next), ranks' = ranks,
         \A c \in left' :
           \/ /\ c \in left /\ Exists(c)' /\ channels'[c].direct
              /\ MembersOf(c) \subseteq MembersOf(c)'
              /\ channels[c].archived => channels'[c].archived
              /\ Archiving(w, c) => channels'[c].archived
           \/ c \in Channels /\ Exists(c)' /\ channels'[c].direct /\ Archiving(w, c)',
         \A c \in Channels, u \in Users : Due(c, u)' =>
           \/ (u \in MembersOf(c))' \/ Admitting(w, c, u)'
           \/ /\ Due(c, u) /\ ~Admitting(w, c, u)
              /\ u \in MembersOf(c) => (u \in MembersOf(c))',
         \A c \in Channels : DefaultChannel(c)' => ~channels'[c].archived,
         NoRank /\ Administered /\ Secure(step[w]) => Administered',
         next.do \notin AdminWrites
  PROVE  Kept'
<1>1. OthersWait(w) /\ step'[w] = next /\ asked' = asked
  BY WorkerGoes
<1>2. Conversed' /\ Attended'
  BY <1>1, AttendedKept DEF Kept
<1>3. Admitted' /\ Open'
  BY <1>1, AdmittedKept DEF Kept, Open
<1>4. Secure(step[w])'
  BY <1>1 DEF Secure, AdminWrites
<1>5. Governed'
  BY <1>1, <1>4, GovernedKept DEF Kept
<1> QED BY <1>2, <1>3, <1>5 DEF Kept

(* Somebody is added to a channel or to the space, and nobody is removed.  *)
LEMMA Grown ==
  ASSUME Inv, Kept, NEW w \in Workers, step[w] # Idle, NEW next, Goto(w, next),
         UNCHANGED <<ranks, channels, history>>,
         \A c \in Channels : /\ MembersOf(c) \subseteq MembersOf(c)'
                             /\ AdminsOf(c) \subseteq AdminsOf(c)',
         step[w].do \notin Archivers, next.do \notin AdminWrites,
         \A c \in Channels, u \in Users :
           Admitting(w, c, u) => Admitting(w, c, u)' \/ (u \in MembersOf(c))',
         \A u \in Users : standing'[u] # Out =>
           standing[u] # Out \/ \A c \in Channels : Admitting(w, c, u)'
  PROVE  Kept'
<1>1. UNCHANGED <<ranks, channels, left, removed, altered>>
  BY DEF history
<1>2. \A c \in left' : /\ c \in left /\ Exists(c)' /\ channels'[c].direct
                       /\ MembersOf(c) \subseteq MembersOf(c)'
                       /\ channels[c].archived => channels'[c].archived
                       /\ ~Archiving(w, c)
  BY <1>1 DEF Kept, Conversed, Exists, Archiving, Archivers
<1>3. \A c \in Channels : DefaultChannel(c)' <=> DefaultChannel(c)
  BY <1>1 DEF DefaultChannel, OfSpace, Exists
<1>4. \A c \in Channels, u \in Users : Due(c, u)' => Due(c, u) \/ Admitting(w, c, u)'
  BY <1>1, <1>3 DEF Due
<1>5. \A c \in Channels : DefaultChannel(c)' => ~channels'[c].archived
  BY <1>1, <1>3 DEF Kept, Open
<1>6. Administered => Administered'
  BY <1>1 DEF Administered, InUse, Standalone, Exists
<1> QED BY <1>1, <1>2, <1>4, <1>5, <1>6, KeptBy

(* Somebody is taken out of a channel or the space, or has another role.   *)
LEMMA TakenOut ==
  ASSUME Inv, Kept, NEW w \in Workers, step[w] # Idle, NEW next, Goto(w, next),
         UNCHANGED <<ranks, channels, altered>>,
         step[w].do \notin Archivers \cup Admitters, next.do \notin AdminWrites,
         removed \subseteq removed',
         \A u \in Users : standing'[u] # Out => standing[u] # Out,
         \A c \in OfSpace, u \in Users : u \in MembersOf(c) =>
           (u \in MembersOf(c))' \/ <<c, u>> \in removed' \/ standing'[u] = Out,
         \A c \in left' :
           \/ c \in left /\ MembersOf(c) \subseteq MembersOf(c)'
           \/ c \in Channels /\ Exists(c) /\ channels[c].direct /\ Archiving(w, c)',
         NoRank /\ Administered /\ Secure(step[w]) =>
           \A c \in Channels : InUse(c) => AdminsOf(c)' # {}
  PROVE  Kept'
<1>1. \A c \in Channels : /\ Exists(c)' <=> Exists(c)
                          /\ DefaultChannel(c)' <=> DefaultChannel(c)
                          /\ InUse(c)' <=> InUse(c)
  BY DEF DefaultChannel, OfSpace, Exists, InUse, Standalone
<1>2. \A c \in left' :
        \/ /\ c \in left /\ Exists(c)' /\ channels'[c].direct
           /\ MembersOf(c) \subseteq MembersOf(c)'
           /\ channels[c].archived => channels'[c].archived
           /\ ~Archiving(w, c)
        \/ c \in Channels /\ Exists(c)' /\ channels'[c].direct /\ Archiving(w, c)'
  BY <1>1 DEF Kept, Conversed, Archiving, Archivers
<1>3. \A c \in Channels, u \in Users : Due(c, u)' =>
        Due(c, u) /\ ~Admitting(w, c, u) /\ (u \in MembersOf(c) => (u \in MembersOf(c))')
  BY <1>1 DEF Due, DefaultChannel, Admitting, Admitters
<1>4. \A c \in Channels : DefaultChannel(c)' => ~channels'[c].archived
  BY <1>1 DEF Kept, Open
<1>5. NoRank /\ Administered /\ Secure(step[w]) => Administered'
  BY <1>1 DEF Administered
<1> QED BY <1>2, <1>3, <1>4, <1>5, KeptBy

(* Rows of channels that exist are written.                                *)
LEMMA RowsAltered ==
  ASSUME Inv, Kept, NEW w \in Workers, step[w] # Idle, Goto(w, Idle),
         UNCHANGED <<ranks, standing, roles, removed>>,
         NEW S \in SUBSET Channels, altered' = altered \cup S,
         \A c \in S : /\ Exists(c) /\ Exists(c)'
                      /\ channels'[c].direct = channels[c].direct
                      /\ channels'[c].inSpace = channels[c].inSpace,
         \A c \in Channels \ S : channels'[c] = channels[c],
         step[w].do \notin Admitters,
         left' \subseteq left,
         \A c \in left' : /\ channels[c].archived => channels'[c].archived
                          /\ Archiving(w, c) => channels'[c].archived,
         NoRank /\ Administered /\ Secure(step[w]) =>
           \A c \in S : InUse(c)' => AdminsOf(c) # {}
  PROVE  Kept'
<1>1. \A c \in Channels : /\ MembersOf(c)' = MembersOf(c) /\ AdminsOf(c)' = AdminsOf(c)
                          /\ c \notin S => (Exists(c)' <=> Exists(c)) /\ (InUse(c)' <=> InUse(c))
  BY DEF MembersOf, AdminsOf, Exists, InUse, Standalone
<1>2. \A c \in left' : /\ c \in left /\ Exists(c)' /\ channels'[c].direct
                       /\ MembersOf(c) \subseteq MembersOf(c)'
                       /\ channels[c].archived => channels'[c].archived
                       /\ Archiving(w, c) => channels'[c].archived
  BY <1>1 DEF Kept, Conversed
<1>3. \A c \in Channels : DefaultChannel(c)' => DefaultChannel(c) /\ channels'[c] = channels[c]
  BY <1>1 DEF DefaultChannel, OfSpace
<1>4. \A c \in Channels, u \in Users : Due(c, u)' =>
        Due(c, u) /\ ~Admitting(w, c, u) /\ (u \in MembersOf(c) => (u \in MembersOf(c))')
  BY <1>1, <1>3 DEF Due, Admitting, Admitters
<1>5. \A c \in Channels : DefaultChannel(c)' => ~channels'[c].archived
  BY <1>3 DEF Kept, Open
<1>6. NoRank /\ Administered /\ Secure(step[w]) => Administered'
  BY <1>1 DEF Administered
<1>7. Idle.do \notin AdminWrites
  BY DEF Idle, AdminWrites
<1> QED BY <1>2, <1>4, <1>5, <1>6, <1>7, KeptBy

(* A row is created, and its first members with it.                        *)
LEMMA Created ==
  ASSUME Inv, Kept, NEW w \in Workers, step[w] # Idle, RowLeft, NEW next, Goto(w, next),
         NEW row, row # Unused, NEW f, ~row.archived,
         channels' = [channels EXCEPT ![NewChannel] = row], SetRoles(NewChannel, f),
         UNCHANGED <<ranks, standing, history>>,
         step[w].do \notin Archivers \cup Admitters, next.do \notin AdminWrites,
         row.inSpace /\ row.public => next.do = "list_space_members" /\ next.on = NewChannel,
         ~row.direct /\ ~row.inSpace => \E u \in Users : f[u] = "admin"
  PROVE  Kept'
<1>1. PICK new \in Channels : new = NewChannel /\ ~Exists(new)
  BY DEF RowLeft, NewChannel
<1>2. /\ channels'[new] = row /\ roles'[new] = f
      /\ \A c \in Channels \ {new} : channels'[c] = channels[c] /\ roles'[c] = roles[c]
  BY <1>1 DEF Inv, TypeOK, TableTypes, SetRoles
<1>3. UNCHANGED <<left, removed, altered>>
  BY DEF history
<1>4. step'[w] = next
  BY WorkerGoes
<1>5. \A c \in Channels \ {new} : /\ MembersOf(c)' = MembersOf(c) /\ AdminsOf(c)' = AdminsOf(c)
                                  /\ Exists(c)' <=> Exists(c)
                                  /\ InUse(c)' <=> InUse(c)
  BY <1>2 DEF MembersOf, AdminsOf, Exists, InUse, Standalone
<1>6. \A c \in left' : /\ c \in left /\ Exists(c)' /\ channels'[c].direct
                       /\ MembersOf(c) \subseteq MembersOf(c)'
                       /\ channels[c].archived => channels'[c].archived
                       /\ ~Archiving(w, c)
  BY <1>1, <1>2, <1>3, <1>5 DEF Kept, Conversed, Archiving, Archivers
<1>7. \A c \in Channels \ {new} : DefaultChannel(c)' => DefaultChannel(c) /\ channels'[c] = channels[c]
  BY <1>2, <1>3, <1>5 DEF DefaultChannel, OfSpace
<1>8. DefaultChannel(new)' => next.do = "list_space_members" /\ next.on = new
  BY <1>1, <1>2 DEF DefaultChannel, OfSpace
<1>9. \A u \in Users : Due(new, u)' => Admitting(w, new, u)'
  BY <1>4, <1>8 DEF Due, Admitting
<1>10. \A c \in Channels \ {new}, u \in Users : Due(c, u)' =>
         Due(c, u) /\ ~Admitting(w, c, u) /\ (u \in MembersOf(c) => (u \in MembersOf(c))')
  BY <1>3, <1>5, <1>7 DEF Due, Admitting, Admitters
<1>11. \A c \in Channels : DefaultChannel(c)' => ~channels'[c].archived
  BY <1>2, <1>7 DEF Kept, Open
<1>12. Administered => Administered'
  <2>1. InUse(new)' => AdminsOf(new)' # {}
    BY <1>2 DEF InUse, Standalone, AdminsOf
  <2> QED BY <1>5, <2>1 DEF Administered
<1> QED BY <1>6, <1>9, <1>10, <1>11, <1>12, KeptBy


(* Roles after a write to one channel.                                     *)
LEMMA RolesAfter ==
  ASSUME Inv, NEW c \in Channels, NEW f, SetRoles(c, f)
  PROVE  roles'[c] = f /\ \A d \in Channels \ {c} : roles'[d] = roles[d]
  BY DEF Inv, TypeOK, TableTypes, SetRoles

(* add_channel_member takes nobody out.                                    *)
LEMMA AddingGrows ==
  ASSUME Inv, NEW c \in Channels, NEW U, NEW role \in ChannelRoles,
         SetRoles(c, Adding(c, U, role))
  PROVE  /\ \A d \in Channels : /\ MembersOf(d) \subseteq MembersOf(d)'
                                /\ AdminsOf(d) \subseteq AdminsOf(d)'
         /\ \A u \in Users : u \in U => roles'[c][u] # Out
<1>1. /\ roles'[c] = Adding(c, U, role)
      /\ \A d \in Channels \ {c} : roles'[d] = roles[d]
  BY RolesAfter
<1>2. \A u \in Users : roles'[c][u] = IF u \in U /\ roles[c][u] = Out THEN role ELSE roles[c][u]
  BY <1>1 DEF Adding
<1>3. role # Out /\ Out # "admin"
  BY RoleNames
<1>4. \A d \in Channels : /\ MembersOf(d) \subseteq MembersOf(d)'
                          /\ AdminsOf(d) \subseteq AdminsOf(d)'
  BY <1>1, <1>2, <1>3 DEF MembersOf, AdminsOf
<1>5. \A u \in Users : u \in U => roles'[c][u] # Out
  BY <1>2, <1>3
<1> QED BY <1>4, <1>5

LEMMA SameRoles ==
  ASSUME UNCHANGED roles
  PROVE  \A d \in Channels : MembersOf(d)' = MembersOf(d) /\ AdminsOf(d)' = AdminsOf(d)
  BY DEF MembersOf, AdminsOf

LEMMA GrowthKeeps ==
  ASSUME Inv, Kept, NEW w \in Workers
  PROVE  AddMember(w) \/ Fill(w) \/ JoinDefault(w) \/ UpdateSpace(w) \/ CreateInvite(w)
         \/ Answer(w) \/ Enter(w) => Kept'
<1> DEFINE s == step[w]
           r == request[w]
           others == UNCHANGED <<ranks, channels, history>>
<1>1. CASE AddMember(w)
  <2>1. /\ s.do = "add" /\ Goto(w, Idle) /\ others /\ UNCHANGED standing
        /\ SetRoles(s.on, Adding(s.on, {s.who}, s.role))
    BY <1>1 DEF AddMember, Does, Finish
  <2>2. s # Idle /\ s.on \in Channels /\ s.role \in ChannelRoles
    BY <2>1, AtWrite, AtStep, StepFields DEF OfChannel
  <2>3. s.do \notin Archivers /\ Idle.do \notin AdminWrites
    BY <2>1 DEF Archivers, AdminWrites, Idle
  <2>4. \A c, u : ~Admitting(w, c, u)
    BY <2>1 DEF Admitting
  <2> QED BY <2>1, <2>2, <2>3, <2>4, AddingGrows, Grown
<1>2. CASE Fill(w)
  <2>1. s.do = "fill" /\ others /\ UNCHANGED standing
    BY <1>2 DEF Fill, Does
  <2>2. s # Idle /\ s.on \in Channels /\ s \in Steps /\ s.do \notin Archivers
    BY <2>1, AtWrite, AtStep DEF OfChannel, Archivers
  <2>3. CASE s.todo = {} /\ Finish(w) /\ UNCHANGED roles
    <3>1. Idle.do \notin AdminWrites
      BY DEF AdminWrites, Idle
    <3>2. \A c, u : ~Admitting(w, c, u)
      BY <2>1, <2>3 DEF Admitting
    <3> QED BY <2>1, <2>2, <2>3, <3>1, <3>2, SameRoles, Grown DEF Finish
  <2>4. ASSUME NEW u \in s.todo,
               SetRoles(s.on, Adding(s.on, {u}, DefaultRole(r))),
               Goto(w, [s EXCEPT !.todo = @ \ {u}])
        PROVE  Kept'
    <3> DEFINE next == [s EXCEPT !.todo = @ \ {u}]
    <3>1. s \in [do : {"fill"}, on : Channels, todo : SUBSET Users]
      BY <2>1, <2>2, StepsToDo
    <3>2. next.do = "fill" /\ next.on = s.on /\ next.todo = s.todo \ {u}
      BY <3>1
    <3>3. DefaultRole(r) \in ChannelRoles
      <4>1. r \in Requests /\ r.op \in {"create", "create_in_space"}
        BY <2>1, <2>2, AtStep DEF Fits
      <4> QED BY <4>1, DefaultRoleKnown
    <3> HIDE DEF next
    <3>4. Goto(w, next)
      BY <2>4 DEF next
    <3>5. step'[w] = next
      BY <2>2, <3>4, WorkerGoes
    <3>6. /\ \A d \in Channels : /\ MembersOf(d) \subseteq MembersOf(d)'
                                 /\ AdminsOf(d) \subseteq AdminsOf(d)'
          /\ u \in Users => roles'[s.on][u] # Out
      BY <2>2, <2>4, <3>3, AddingGrows
    <3>7. \A c \in Channels, v \in Users :
            Admitting(w, c, v) => Admitting(w, c, v)' \/ (v \in MembersOf(c))'
      BY <2>1, <3>2, <3>5, <3>6 DEF Admitting, MembersOf
    <3>8. next.do \notin AdminWrites
      BY <3>2 DEF AdminWrites
    <3> QED BY <2>1, <2>2, <3>4, <3>6, <3>7, <3>8, Grown
  <2> QED BY <1>2, <2>3, <2>4 DEF Fill
<1>3. CASE JoinDefault(w)
  <2>1. s.do = "join_defaults" /\ others /\ UNCHANGED standing
    BY <1>3 DEF JoinDefault, Does
  <2>2. /\ s # Idle /\ s \in Steps /\ s.do \notin Archivers /\ s.who \in Users
        /\ s.todo \in SUBSET (Channels \X ChannelRoles)
    BY <2>1, AtStep, StepFields DEF Archivers
  <2>3. CASE s.todo = {} /\ Finish(w) /\ UNCHANGED roles
    <3>1. Idle.do \notin AdminWrites
      BY DEF AdminWrites, Idle
    <3>2. \A c, u : ~Admitting(w, c, u)
      BY <2>1, <2>3 DEF Admitting
    <3> QED BY <2>1, <2>2, <2>3, <3>1, <3>2, SameRoles, Grown DEF Finish
  <2>4. ASSUME NEW d \in s.todo,
               SetRoles(d[1], Adding(d[1], {s.who}, d[2])),
               Goto(w, [s EXCEPT !.todo = @ \ {d}])
        PROVE  Kept'
    <3> DEFINE next == [s EXCEPT !.todo = @ \ {d}]
    <3>1. s \in [do : {"join_defaults"}, who : Users, todo : SUBSET (Channels \X ChannelRoles)]
      BY <2>1, <2>2, StepsToDo
    <3>2. next.do = "join_defaults" /\ next.who = s.who /\ next.todo = s.todo \ {d}
      BY <3>1
    <3>3. d[1] \in Channels /\ d[2] \in ChannelRoles
      BY <2>2
    <3> HIDE DEF next
    <3>4. Goto(w, next)
      BY <2>4 DEF next
    <3>5. step'[w] = next
      BY <2>2, <3>4, WorkerGoes
    <3>6. /\ \A c \in Channels : /\ MembersOf(c) \subseteq MembersOf(c)'
                                 /\ AdminsOf(c) \subseteq AdminsOf(c)'
          /\ roles'[d[1]][s.who] # Out
      <4>1. PICK u \in Users, c \in Channels : u = s.who /\ c = d[1]
        BY <2>2, <3>3
      <4>2. SetRoles(c, Adding(c, {u}, d[2]))
        BY <2>4, <4>1
      <4>3. /\ \A e \in Channels : /\ MembersOf(e) \subseteq MembersOf(e)'
                                   /\ AdminsOf(e) \subseteq AdminsOf(e)'
            /\ roles'[c][u] # Out
        BY <3>3, <4>2, AddingGrows
      <4> QED BY <4>1, <4>3
    <3>7. \A c \in Channels, v \in Users :
            Admitting(w, c, v) => Admitting(w, c, v)' \/ (v \in MembersOf(c))'
      BY <2>1, <3>2, <3>5, <3>6 DEF Admitting, MembersOf
    <3>8. next.do \notin AdminWrites
      BY <3>2 DEF AdminWrites
    <3> QED BY <2>1, <2>2, <3>4, <3>6, <3>7, <3>8, Grown
  <2> QED BY <1>3, <2>3, <2>4 DEF JoinDefault
<1>4. CASE UpdateSpace(w) \/ CreateInvite(w)
  <2>1. /\ s.do \in {"update_space", "create_invite"} /\ Goto(w, Idle) /\ others
        /\ UNCHANGED <<roles, standing>>
    BY <1>4 DEF UpdateSpace, CreateInvite, Does, Finish
  <2>2. s # Idle /\ s.do \notin Archivers /\ Idle.do \notin AdminWrites
    BY <2>1, AtStep DEF Archivers, AdminWrites, Idle
  <2>3. \A c, u : ~Admitting(w, c, u)
    BY <2>1 DEF Admitting
  <2> QED BY <2>1, <2>2, <2>3, SameRoles, Grown
<1>5. CASE Answer(w)
  <2> DEFINE next == IF s.status = "declined" THEN Idle
                     ELSE [do |-> "enter", who |-> invites[s.invite].to,
                           role |-> invites[s.invite].role]
  <2>1. /\ s.do = "answer" /\ Goto(w, next) /\ others /\ UNCHANGED <<roles, standing>>
    BY <1>5 DEF Answer, Does
  <2>2. s # Idle /\ s.do \notin Archivers
    BY <2>1, AtStep DEF Archivers
  <2>3. next.do \notin AdminWrites
    <3>1. next.do \in {"idle", "enter"}
      BY DEF Idle
    <3> QED BY <3>1 DEF AdminWrites
  <2>4. \A c, u : ~Admitting(w, c, u)
    BY <2>1 DEF Admitting
  <2> HIDE DEF next
  <2> QED BY <2>1, <2>2, <2>3, <2>4, SameRoles, Grown
<1>6. CASE Enter(w)
  <2> DEFINE next == [do |-> "list_defaults", who |-> s.who]
  <2>1. /\ s.do = "enter" /\ Goto(w, next) /\ others /\ UNCHANGED roles
        /\ standing' = [standing EXCEPT ![s.who] = IF @ = Out THEN s.role ELSE @]
    BY <1>6 DEF Enter, Does
  <2>2. s # Idle /\ s.do \notin Archivers /\ next.do \notin AdminWrites
    BY <2>1, AtStep DEF Archivers, AdminWrites
  <2>3. \A c, u : ~Admitting(w, c, u)
    BY <2>1 DEF Admitting
  <2>4. step'[w] = next
    BY <2>1, <2>2, WorkerGoes
  <2>6. \A u \in Users : standing'[u] # Out =>
          standing[u] # Out \/ \A c \in Channels : Admitting(w, c, u)'
    BY <2>1, <2>4 DEF Inv, TypeOK, TableTypes, Admitting
  <2> HIDE DEF next
  <2> QED BY <2>1, <2>2, <2>3, <2>6, SameRoles, Grown
<1> QED BY <1>1, <1>2, <1>3, <1>4, <1>5, <1>6


(* Setting the role of one member of one channel, to Out when they leave.  *)
LEMMA OneRole ==
  ASSUME Inv, NEW c \in Channels, NEW u \in Users, NEW role,
         SetRoles(c, [roles[c] EXCEPT ![u] = role])
  PROVE  /\ \A d \in Channels \ {c} : roles'[d] = roles[d]
         /\ \A v \in Users \ {u} : roles'[c][v] = roles[c][v]
         /\ roles'[c][u] = role
         /\ Others(c, u) \subseteq AdminsOf(c)'
<1>1. /\ roles'[c] = [roles[c] EXCEPT ![u] = role]
      /\ \A d \in Channels \ {c} : roles'[d] = roles[d]
  BY RolesAfter
<1>2. roles[c] \in [Users -> ChannelRoles \cup {Out}]
  BY DEF Inv, TypeOK, TableTypes
<1>3. /\ \A v \in Users \ {u} : roles'[c][v] = roles[c][v]
      /\ roles'[c][u] = role
  BY <1>1, <1>2
<1> QED BY <1>1, <1>3 DEF Others, AdminsOf

LEMMA RemovalKeeps ==
  ASSUME Inv, Kept, NEW w \in Workers
  PROVE  RemoveMember(w) \/ SetRole(w) \/ Depart(w) => Kept'
<1> DEFINE s == step[w]
           r == request[w]
           others == UNCHANGED <<ranks, standing, channels, altered>>
<1>1. Idle.do \notin AdminWrites
  BY DEF AdminWrites, Idle
<1>2. CASE RemoveMember(w)
  <2>1. /\ s.do = "remove" /\ Goto(w, Idle) /\ others
        /\ SetRoles(s.on, [roles[s.on] EXCEPT ![s.who] = Out])
        /\ left' = left \ {s.on} /\ removed' = removed \cup {<<s.on, s.who>>}
    BY <1>2 DEF RemoveMember, Does, Finish
  <2>2. PICK c \in Channels, u \in Users : c = s.on /\ u = s.who
    BY <2>1, AtWrite DEF OfChannel
  <2>3. s # Idle /\ s.do \notin Archivers \cup Admitters
    BY <2>1, AtStep DEF Archivers, Admitters
  <2>4. /\ \A d \in Channels \ {c} : roles'[d] = roles[d]
        /\ \A v \in Users \ {u} : roles'[c][v] = roles[c][v]
        /\ Others(c, u) \subseteq AdminsOf(c)'
    BY <2>1, <2>2, OneRole
  <2>5. \A d \in OfSpace, v \in Users : v \in MembersOf(d) =>
          (v \in MembersOf(d))' \/ <<d, v>> \in removed'
    BY <2>1, <2>2, <2>4 DEF MembersOf, OfSpace
  <2>6. \A d \in left' : d \in left /\ MembersOf(d) \subseteq MembersOf(d)'
    BY <2>1, <2>2, <2>4 DEF MembersOf, Kept, Conversed
  <2>7. Administered /\ Secure(step[w]) => \A d \in Channels : InUse(d) => AdminsOf(d)' # {}
    <3> SUFFICES ASSUME Administered, Secure(step[w]), NEW d \in Channels, InUse(d)
                 PROVE  AdminsOf(d)' # {}
      OBVIOUS
    <3>1. CASE d = c
      <4>1. Others(c, u) # {}
        BY <2>1, <2>2, <3>1 DEF Secure
      <4> QED BY <2>4, <3>1, <4>1
    <3>2. CASE d # c
      BY <2>4, <3>2 DEF AdminsOf, Administered
    <3> QED BY <3>1, <3>2
  <2> QED BY <1>1, <2>1, <2>3, <2>5, <2>6, <2>7, TakenOut
<1>3. CASE SetRole(w)
  <2> DEFINE role == IF roles[s.on][s.who] = Out THEN Out ELSE s.role
  <2>1. /\ s.do = "set_role" /\ Goto(w, Idle) /\ others
        /\ SetRoles(s.on, [roles[s.on] EXCEPT ![s.who] = IF @ = Out THEN Out ELSE s.role])
        /\ UNCHANGED <<left, removed>>
    BY <1>3 DEF SetRole, Does, Finish, history
  <2>2. PICK c \in Channels, u \in Users : c = s.on /\ u = s.who
    BY <2>1, AtWrite DEF OfChannel
  <2>3. s # Idle /\ s.do \notin Archivers \cup Admitters /\ s.role \in ChannelRoles
    BY <2>1, AtStep, StepFields DEF Archivers, Admitters
  <2>4. SetRoles(c, [roles[c] EXCEPT ![u] = role])
    <3>1. roles[c] \in [Users -> ChannelRoles \cup {Out}]
      BY DEF Inv, TypeOK, TableTypes
    <3>2. [roles[c] EXCEPT ![u] = IF @ = Out THEN Out ELSE s.role] = [roles[c] EXCEPT ![u] = role]
      BY <2>2, <3>1
    <3> QED BY <2>1, <2>2, <3>2
  <2> HIDE DEF role
  <2>5. /\ \A d \in Channels \ {c} : roles'[d] = roles[d]
        /\ \A v \in Users \ {u} : roles'[c][v] = roles[c][v]
        /\ roles'[c][u] = role
        /\ Others(c, u) \subseteq AdminsOf(c)'
    BY <2>4, OneRole
  <2>6. \A d \in Channels, v \in Users : v \in MembersOf(d) => (v \in MembersOf(d))'
    <3>1. roles[c][u] # Out => role # Out
      BY <2>2, <2>3, RoleNames DEF role
    <3> QED BY <2>5, <3>1 DEF MembersOf
  <2>7. /\ \A d \in OfSpace, v \in Users : v \in MembersOf(d) => (v \in MembersOf(d))'
        /\ \A d \in left' : d \in left /\ MembersOf(d) \subseteq MembersOf(d)'
    BY <2>1, <2>6 DEF OfSpace, Kept, Conversed, MembersOf
  <2>8. Administered /\ Secure(step[w]) => \A d \in Channels : InUse(d) => AdminsOf(d)' # {}
    <3> SUFFICES ASSUME Administered, Secure(step[w]), NEW d \in Channels, InUse(d)
                 PROVE  AdminsOf(d)' # {}
      OBVIOUS
    <3>1. CASE d = c /\ s.role # "admin"
      <4>1. Others(c, u) # {}
        BY <2>1, <2>2, <3>1 DEF Secure
      <4> QED BY <2>5, <3>1, <4>1
    <3>2. CASE d = c /\ s.role = "admin"
      <4>1. roles[c][u] # Out => role = "admin"
        BY <2>2, <3>2 DEF role
      <4>2. \A v \in AdminsOf(c) : v \in Users /\ roles[c][v] = "admin" /\ roles[c][v] # Out
        BY DEF AdminsOf, Out
      <4>3. AdminsOf(c) \subseteq AdminsOf(c)'
        BY <2>5, <4>1, <4>2 DEF AdminsOf
      <4> QED BY <3>2, <4>3 DEF Administered
    <3>3. CASE d # c
      BY <2>5, <3>3 DEF AdminsOf, Administered
    <3> QED BY <3>1, <3>2, <3>3
  <2> QED BY <1>1, <2>1, <2>3, <2>7, <2>8, TakenOut
<1>4. CASE Depart(w)
  <2> DEFINE next == [do |-> "count_members", on |-> s.on]
  <2>1. /\ s.do = "depart" /\ Goto(w, next) /\ others
        /\ SetRoles(s.on, [roles[s.on] EXCEPT ![s.who] = Out])
        /\ left' = left \cup {s.on} /\ removed' = removed
    BY <1>4 DEF Depart, Does
  <2>2. PICK c \in Channels, u \in Users : c = s.on /\ u = s.who
    BY <2>1, AtWrite DEF OfChannel
  <2>3. /\ s # Idle /\ s.do \notin Archivers \cup Admitters
        /\ r.op = "leave" /\ Exists(c) /\ channels[c].direct
    BY <2>1, <2>2, AtStep DEF Archivers, Admitters, Fits, OfChannel
  <2>4. \A d \in Channels \ {c} : roles'[d] = roles[d]
    BY <2>1, <2>2, OneRole
  <2>5. /\ next.do = "count_members" /\ next.on = c /\ next # Idle /\ next.do \notin AdminWrites
    BY <2>2 DEF Idle, AdminWrites
  <2> HIDE DEF next
  <2>6. step'[w] = next /\ request'[w] = r
    BY <2>1, <2>3, <2>5, WorkerGoes
  <2>7. Archiving(w, c)'
    BY <2>3, <2>5, <2>6 DEF Archiving, Serves
  <2>8. c \notin OfSpace /\ ~InUse(c)
    BY <2>3 DEF OfSpace, Inv, Apart, InUse, Standalone
  <2>9. \A d \in OfSpace, v \in Users : v \in MembersOf(d) => (v \in MembersOf(d))'
    BY <2>4, <2>8 DEF MembersOf, OfSpace
  <2>10. \A d \in left' :
           \/ d \in left /\ MembersOf(d) \subseteq MembersOf(d)'
           \/ d \in Channels /\ Exists(d) /\ channels[d].direct /\ Archiving(w, d)'
    <3>1. \A d \in left \ {c} : MembersOf(d) \subseteq MembersOf(d)'
      BY <2>4 DEF MembersOf, Kept, Conversed
    <3> QED BY <2>1, <2>2, <2>3, <2>7, <3>1
  <2>11. Administered => \A d \in Channels : InUse(d) => AdminsOf(d)' # {}
    BY <2>4, <2>8 DEF AdminsOf, Administered
  <2> QED BY <2>1, <2>3, <2>5, <2>9, <2>10, <2>11, TakenOut
<1> QED BY <1>2, <1>3, <1>4


(* Only channels of the space lose members when somebody leaves the space. *)
LEMMA SpaceRemoval ==
  ASSUME Inv, Kept, \A d \in Channels : d \notin OfSpace => roles'[d] = roles[d],
         UNCHANGED left
  PROVE  /\ \A d \in left' : d \in left /\ MembersOf(d) \subseteq MembersOf(d)'
         /\ Administered => \A d \in Channels : InUse(d) => AdminsOf(d)' # {}
<1>1. \A d \in left : d \in Channels /\ d \notin OfSpace
  BY DEF Kept, Conversed, OfSpace, Inv, Apart
<1>2. \A d \in Channels : InUse(d) => d \notin OfSpace
  BY DEF InUse, Standalone, OfSpace
<1> QED BY <1>1, <1>2 DEF MembersOf, AdminsOf, Administered

LEMMA LeavingKeeps ==
  ASSUME Inv, Kept, NEW w \in Workers
  PROVE  LeaveChannels(w) \/ Expel(w) \/ SetStanding(w) => Kept'
<1> DEFINE s == step[w]
           r == request[w]
<1>1. CASE LeaveChannels(w)
  <2>1. s.do = "leave_channels" /\ UNCHANGED <<ranks, standing, channels, altered, left>>
    BY <1>1 DEF LeaveChannels, Does
  <2>2. /\ s # Idle /\ s \in Steps /\ s.do \notin Archivers \cup Admitters
        /\ \A c \in s.todo : c \in Channels /\ Exists(c) /\ channels[c].inSpace
    BY <2>1, AtStep, StepFields DEF Fits, Archivers, Admitters
  <2>3. CASE Goto(w, [do |-> "expel"]) /\ UNCHANGED <<roles, removed>>
    <3> DEFINE next == [do |-> "expel"]
    <3>1. next.do \notin AdminWrites
      BY DEF AdminWrites
    <3>2. \A d \in OfSpace, v \in Users : v \in MembersOf(d) => (v \in MembersOf(d))'
      BY <2>3 DEF MembersOf
    <3>3. /\ \A d \in left' : d \in left /\ MembersOf(d) \subseteq MembersOf(d)'
          /\ Administered => \A d \in Channels : InUse(d) => AdminsOf(d)' # {}
      BY <2>1, <2>3, SpaceRemoval
    <3> HIDE DEF next
    <3>4. Goto(w, next)
      BY <2>3 DEF next
    <3> QED BY <2>1, <2>2, <2>3, <3>1, <3>2, <3>3, <3>4, TakenOut
  <2>4. ASSUME NEW c \in s.todo,
               SetRoles(c, [roles[c] EXCEPT ![r.by] = Out]),
               removed' = removed \cup {<<c, r.by>>},
               Goto(w, [s EXCEPT !.todo = @ \ {c}])
        PROVE  Kept'
    <3> DEFINE next == [s EXCEPT !.todo = @ \ {c}]
    <3>1. s \in [do : {"leave_channels"}, todo : SUBSET Channels]
      BY <2>1, <2>2, StepsToDo
    <3>2. next.do = "leave_channels"
      BY <3>1
    <3>3. next.do \notin AdminWrites
      BY <3>2 DEF AdminWrites
    <3> HIDE DEF next
    <3>4. Goto(w, next)
      BY <2>4 DEF next
    <3>5. r.by \in Users
      BY <2>2, AtStep, RequestFields
    <3>6. PICK u \in Users : u = r.by
      BY <3>5
    <3>7. c \in Channels /\ c \in OfSpace
      BY <2>2 DEF OfSpace
    <3>8. /\ \A d \in Channels \ {c} : roles'[d] = roles[d]
          /\ \A v \in Users \ {u} : roles'[c][v] = roles[c][v]
      BY <2>4, <3>6, <3>7, OneRole
    <3>9. \A d \in OfSpace, v \in Users : v \in MembersOf(d) =>
            (v \in MembersOf(d))' \/ <<d, v>> \in removed'
      BY <2>4, <3>6, <3>8 DEF MembersOf, OfSpace
    <3>10. /\ \A d \in left' : d \in left /\ MembersOf(d) \subseteq MembersOf(d)'
           /\ Administered => \A d \in Channels : InUse(d) => AdminsOf(d)' # {}
      BY <2>1, <3>7, <3>8, SpaceRemoval
    <3>11. removed \subseteq removed' /\ \A v \in Users : standing'[v] # Out => standing[v] # Out
      BY <2>1, <2>4
    <3> QED BY <2>1, <2>2, <3>3, <3>4, <3>9, <3>10, <3>11, TakenOut
  <2> QED BY <1>1, <2>3, <2>4 DEF LeaveChannels
<1>2. CASE Expel(w)
  <2>1. PICK u :
          /\ s.do = "expel" /\ Goto(w, Idle) /\ standing' = [standing EXCEPT ![u] = Out]
          /\ roles' = [c \in Channels |->
                        IF c \in OfSpace THEN [roles[c] EXCEPT ![u] = Out] ELSE roles[c]]
          /\ UNCHANGED <<ranks, channels, left, removed, altered>>
    BY <1>2 DEF Expel, Does, Finish, history
  <2>2. s # Idle /\ s.do \notin Archivers \cup Admitters /\ Idle.do \notin AdminWrites
    BY <2>1, AtStep DEF Archivers, Admitters, AdminWrites, Idle
  <2>3. \A v \in Users : v # u => standing'[v] = standing[v]
    BY <2>1 DEF Inv, TypeOK, TableTypes
  <2>4. \A v \in Users : v = u => standing'[v] = Out
    BY <2>1 DEF Inv, TypeOK, TableTypes
  <2>5. \A c \in Channels, v \in Users : v # u => roles'[c][v] = roles[c][v]
    BY <2>1 DEF Inv, TypeOK, TableTypes
  <2>6. \A c \in OfSpace, v \in Users : v \in MembersOf(c) =>
          (v \in MembersOf(c))' \/ standing'[v] = Out
    BY <2>4, <2>5 DEF MembersOf, OfSpace
  <2>7. \A d \in Channels : d \notin OfSpace => roles'[d] = roles[d]
    BY <2>1
  <2>8. \A v \in Users : standing'[v] # Out => standing[v] # Out
    BY <2>3, <2>4
  <2> QED BY <2>1, <2>2, <2>6, <2>7, <2>8, SpaceRemoval, TakenOut
<1>3. CASE SetStanding(w)
  <2>1. PICK u, role :
          /\ s.do = "set_standing" /\ Goto(w, Idle)
          /\ standing' = [standing EXCEPT ![u] = IF @ = Out THEN Out ELSE role]
          /\ UNCHANGED <<ranks, channels, roles, left, removed, altered>>
    BY <1>3 DEF SetStanding, Does, Finish, history
  <2>2. s # Idle /\ s.do \notin Archivers \cup Admitters /\ Idle.do \notin AdminWrites
    BY <2>1, AtStep DEF Archivers, Admitters, AdminWrites, Idle
  <2>3. \A v \in Users : standing'[v] # Out => standing[v] # Out
    BY <2>1 DEF Inv, TypeOK, TableTypes
  <2>4. \A c \in OfSpace, v \in Users : v \in MembersOf(c) => (v \in MembersOf(c))'
    BY <2>1 DEF MembersOf
  <2> QED BY <2>1, <2>2, <2>3, <2>4, SpaceRemoval, TakenOut
<1> QED BY <1>1, <1>2, <1>3

LEMMA RowsKeep ==
  ASSUME Inv, Kept, NEW w \in Workers
  PROVE  UpdateChannel(w) \/ ArchiveChannel(w) \/ UnarchiveChannel(w)
         \/ ArchiveSpace(w) \/ UnarchiveSpace(w) => Kept'
<1> DEFINE s == step[w]
<1>1. /\ channels \in [Channels -> ChannelRows \cup {Unused}]
      /\ \A c \in Channels : Exists(c) => channels[c] \in ChannelRows
      /\ Unused \notin ChannelRows
  BY MembershipAssumption DEF Inv, TypeOK, TableTypes, Exists
<1>2. ASSUME NEW c \in Channels, Exists(c), c = s.on, NEW row \in ChannelRows,
             row.direct = channels[c].direct, row.inSpace = channels[c].inSpace,
             Alter(c, row), s # Idle, Goto(w, Idle),
             UNCHANGED <<ranks, standing, roles, removed>>,
             s.do \notin Admitters, left' \subseteq left,
             c \in left' => /\ channels[c].archived => row.archived
                            /\ Archiving(w, c) => row.archived,
             Administered /\ Secure(s) /\ Standalone(c) /\ ~row.archived => AdminsOf(c) # {}
      PROVE  Kept'
  <2>1. \A d \in Channels : channels'[d] = IF d = c THEN row ELSE channels[d]
    BY <1>1, <1>2 DEF Alter
  <2>2. altered' = altered \cup {c} /\ {c} \in SUBSET Channels
    BY <1>2 DEF Alter
  <2>3. Exists(c)'
    BY <1>1, <1>2, <2>1 DEF Exists
  <2>4. \A d \in left' : /\ channels[d].archived => channels'[d].archived
                         /\ Archiving(w, d) => channels'[d].archived
    BY <1>2, <2>1 DEF Kept, Conversed, Archiving
  <2>5. InUse(c)' => Standalone(c) /\ ~row.archived
    BY <1>2, <2>1 DEF InUse, Standalone
  <2> QED BY ZenonT(60), <1>2, <2>1, <2>2, <2>3, <2>4, <2>5, RowsAltered
<1>3. CASE UpdateChannel(w)
  <2> DEFINE c == s.on
             row == [f \in DOMAIN channels[c] |->
                      IF f \in SettingNames THEN s.row[f] ELSE channels[c][f]]
  <2>1. /\ s.do = "update" /\ Goto(w, Idle) /\ Alter(c, row)
        /\ UNCHANGED <<ranks, standing, roles, removed, left>>
    BY <1>3 DEF UpdateChannel, Does, Finish
  <2>2. s # Idle /\ c \in Channels /\ Exists(c) /\ s.row \in ChannelSettings
    BY <2>1, AtWrite, AtStep, StepFields DEF OfChannel
  <2>3. /\ row \in ChannelRows /\ row.direct = channels[c].direct
        /\ row.inSpace = channels[c].inSpace /\ row.archived = channels[c].archived
    BY <1>1, <2>2 DEF ChannelRows, ChannelSettings, SettingNames
  <2>4. s.do \notin Admitters /\ ~Archiving(w, c)
    BY <2>1 DEF Admitters, Archiving
  <2> HIDE DEF row
  <2>5. Administered /\ Standalone(c) /\ ~row.archived => AdminsOf(c) # {}
    BY <2>2, <2>3 DEF Administered, InUse
  <2> QED BY <1>2, <2>1, <2>2, <2>3, <2>4, <2>5
<1>4. CASE ArchiveChannel(w)
  <2> DEFINE row == [channels[s.on] EXCEPT !.archived = TRUE]
  <2>1. /\ s.do = "archive" /\ Goto(w, Idle) /\ Alter(s.on, row)
        /\ UNCHANGED <<ranks, standing, roles, removed, left>>
    BY <1>4 DEF ArchiveChannel, Does, Finish
  <2>2. s # Idle /\ s.on \in Channels /\ Exists(s.on) /\ s.do \notin Admitters
    BY <2>1, AtWrite DEF OfChannel, Admitters
  <2>3. /\ row \in ChannelRows /\ row.direct = channels[s.on].direct
        /\ row.inSpace = channels[s.on].inSpace /\ row.archived
    BY <1>1, <2>2 DEF ChannelRows
  <2> HIDE DEF row
  <2> QED BY <1>2, <2>1, <2>2, <2>3
<1>5. CASE UnarchiveChannel(w)
  <2> DEFINE row == [channels[s.on] EXCEPT !.archived = FALSE]
  <2>1. /\ s.do = "unarchive" /\ Goto(w, Idle) /\ Alter(s.on, row)
        /\ UNCHANGED <<ranks, standing, roles, removed>> /\ left' = left \ {s.on}
    BY <1>5 DEF UnarchiveChannel, Does, Finish
  <2>2. s # Idle /\ s.on \in Channels /\ Exists(s.on) /\ s.do \notin Admitters
    BY <2>1, AtWrite DEF OfChannel, Admitters
  <2>3. /\ row \in ChannelRows /\ row.direct = channels[s.on].direct
        /\ row.inSpace = channels[s.on].inSpace
    BY <1>1, <2>2 DEF ChannelRows
  <2>4. Secure(s) /\ Standalone(s.on) => AdminsOf(s.on) # {}
    BY <2>1 DEF Secure
  <2> HIDE DEF row
  <2> QED BY <1>2, <2>1, <2>2, <2>3, <2>4
<1>6. ASSUME NEW archived \in BOOLEAN, SetArchived(archived), s # Idle, Goto(w, Idle),
             s.do \notin Admitters \cup Archivers,
             UNCHANGED <<ranks, standing, roles, left, removed>>
      PROVE  Kept'
  <2>1. /\ \A d \in OfSpace : channels'[d] = [channels[d] EXCEPT !.archived = archived]
        /\ \A d \in Channels \ OfSpace : channels'[d] = channels[d]
        /\ altered' = altered \cup OfSpace /\ OfSpace \in SUBSET Channels
    BY <1>6 DEF SetArchived, OfSpace
  <2>2. \A d \in OfSpace : /\ Exists(d) /\ channels[d] \in ChannelRows /\ channels[d].inSpace
                           /\ channels'[d] \in ChannelRows
                           /\ channels'[d].direct = channels[d].direct
                           /\ channels'[d].inSpace = channels[d].inSpace
    <3> SUFFICES ASSUME NEW d \in OfSpace
                 PROVE  /\ Exists(d) /\ channels[d] \in ChannelRows /\ channels[d].inSpace
                        /\ channels'[d] \in ChannelRows
                        /\ channels'[d].direct = channels[d].direct
                        /\ channels'[d].inSpace = channels[d].inSpace
      OBVIOUS
    <3>1. d \in Channels /\ Exists(d) /\ channels[d].inSpace /\ channels[d] \in ChannelRows
      BY <1>1 DEF OfSpace
    <3>2. channels'[d] = [channels[d] EXCEPT !.archived = archived]
      BY <2>1
    <3> QED BY <1>6, <3>1, <3>2 DEF ChannelRows
  <2>3. \A d \in OfSpace : Exists(d)' /\ ~InUse(d)'
    BY <1>1, <2>2 DEF Exists, InUse, Standalone
  <2>4. \A d \in left' : d \in Channels /\ d \notin OfSpace
    BY <1>6 DEF Kept, Conversed, OfSpace, Inv, Apart
  <2>5. \A d \in left' : /\ channels[d].archived => channels'[d].archived
                         /\ ~Archiving(w, d)
    BY <1>6, <2>1, <2>4 DEF Archiving, Archivers
  <2> QED BY <1>6, <2>1, <2>2, <2>3, <2>5, RowsAltered
<1>7. CASE ArchiveSpace(w)
  BY <1>6, <1>7, AtStep DEF ArchiveSpace, Does, Finish, Admitters, Archivers
<1>8. CASE UnarchiveSpace(w)
  BY <1>6, <1>8, AtStep DEF UnarchiveSpace, Does, Finish, Admitters, Archivers
<1> QED BY <1>3, <1>4, <1>5, <1>7, <1>8


LEMMA CreationKeeps ==
  ASSUME Inv, Kept, NEW w \in Workers
  PROVE  CreateChannel(w) \/ CreateDirect(w) => Kept'
<1> DEFINE r == request[w]
<1>1. Unused \notin ChannelRows
  BY MembershipAssumption
<1>2. CASE CreateChannel(w)
  <2> DEFINE inSpace == r.op = "create_in_space"
             row == [direct |-> FALSE, inSpace |-> inSpace, archived |-> FALSE,
                     public |-> r.set.public, defaultRole |-> DefaultRole(r),
                     defaultJoin |-> inSpace /\ r.set.defaultJoin]
             f == [u \in Users |->
                    IF u = r.by THEN "admin" ELSE IF u \in r.with THEN DefaultRole(r) ELSE Out]
             next == IF inSpace /\ r.set.public
                     THEN [do |-> "list_space_members", on |-> NewChannel] ELSE Idle
  <2>1. /\ step[w].do = "create" /\ RowLeft /\ Goto(w, next)
        /\ channels' = [channels EXCEPT ![NewChannel] = row] /\ SetRoles(NewChannel, f)
        /\ UNCHANGED <<ranks, standing, history>>
    BY <1>2 DEF CreateChannel, Does
  <2>2. /\ step[w] # Idle /\ r \in Requests /\ r.op \in {"create", "create_in_space"}
        /\ step[w].do \notin Archivers \cup Admitters
    BY <2>1, AtStep DEF Fits, Archivers, Admitters
  <2>3. r.set \in ChannelSettings /\ r.by \in Users
    BY <2>2, RequestFields
  <2>4. row \in ChannelRows /\ ~row.archived /\ row.inSpace = inSpace /\ row.public = r.set.public
    BY <2>2, <2>3, DefaultRoleKnown DEF ChannelRows, ChannelSettings
  <2>5. f[r.by] = "admin"
    BY <2>3
  <2>6. /\ next.do \in {"list_space_members", "idle"}
        /\ inSpace /\ r.set.public => next.do = "list_space_members" /\ next.on = NewChannel
    BY DEF Idle
  <2> HIDE DEF row, f, next
  <2>7. next.do \notin AdminWrites /\ row # Unused
    BY <1>1, <2>4, <2>6 DEF AdminWrites
  <2> QED BY <2>1, <2>2, <2>3, <2>4, <2>5, <2>6, <2>7, Created
<1>3. CASE CreateDirect(w)
  <2> DEFINE members == {r.by} \cup IF r.op = "dm" THEN {r.of} ELSE r.with
             row == [direct |-> TRUE, inSpace |-> FALSE, archived |-> FALSE,
                     public |-> r.op = "dm", defaultRole |-> "write", defaultJoin |-> FALSE]
             f == [u \in Users |-> IF u \in members THEN "write" ELSE Out]
  <2>1. /\ step[w].do = "converse" /\ RowLeft /\ Goto(w, Idle)
        /\ channels' = [channels EXCEPT ![NewChannel] = row] /\ SetRoles(NewChannel, f)
        /\ UNCHANGED <<ranks, standing, history>>
    BY <1>3 DEF CreateDirect, Does, Finish
  <2>2. step[w] # Idle /\ step[w].do \notin Archivers \cup Admitters
    BY <2>1, AtStep DEF Archivers, Admitters
  <2>3. row \in ChannelRows /\ ~row.archived /\ ~row.inSpace /\ row.direct
    BY RoleNames DEF ChannelRows
  <2>4. Idle.do \notin AdminWrites
    BY DEF Idle, AdminWrites
  <2> HIDE DEF row, f
  <2>5. row # Unused
    BY <1>1, <2>3
  <2> QED BY <2>1, <2>2, <2>3, <2>4, <2>5, Created
<1> QED BY <1>2, <1>3

LEMMA WritesKeep ==
  ASSUME Inv, Kept, NEW w \in Workers, Writing(w)
  PROVE  Kept'
<1>1. \/ AddMember(w) \/ Fill(w) \/ JoinDefault(w) \/ UpdateSpace(w) \/ CreateInvite(w)
      \/ Answer(w) \/ Enter(w)
      => Kept'
  BY GrowthKeeps
<1>2. RemoveMember(w) \/ SetRole(w) \/ Depart(w) => Kept'
  BY RemovalKeeps
<1>3. LeaveChannels(w) \/ Expel(w) \/ SetStanding(w) => Kept'
  BY LeavingKeeps
<1>4. \/ UpdateChannel(w) \/ ArchiveChannel(w) \/ UnarchiveChannel(w)
      \/ ArchiveSpace(w) \/ UnarchiveSpace(w)
      => Kept'
  BY RowsKeep
<1>5. CreateChannel(w) \/ CreateDirect(w) => Kept'
  BY CreationKeeps
<1> QED BY <1>1, <1>2, <1>3, <1>4, <1>5, Zenon DEF Writing

-----------------------------------------------------------------------------
(* The second invariant *)

(* One request at a time: nobody else is at work when a worker starts.     *)
LEMMA NobodyBusy ==
  ASSUME OneByOne, Cardinality(Busy) < 1
  PROVE  \A v \in Workers : step[v] = Idle
<1> SUFFICES ASSUME NEW v \in Workers, step[v] # Idle PROVE FALSE
  OBVIOUS
<1>1. Busy = {v}
  BY DEF Busy, OneByOne
<1>2. Cardinality(Busy) = 1
  BY <1>1, FS_Singleton
<1> QED BY <1>2

LEMMA StartKeeps ==
  ASSUME Inv, Kept, NEW w \in Workers, Start(w)
  PROVE  Kept'
<1>1. /\ step[w] = Idle /\ Cardinality(Busy) < asked.atOnce
      /\ asked' = [asked EXCEPT !.budget = @ - 1] /\ UNCHANGED <<tables, history>>
  BY DEF Start
<1>2. OthersWait(w) /\ step'[w].do \in {"create", "converse", "check"}
  <2>1. PICK r \in asked.requests :
          /\ request' = [request EXCEPT ![w] = r]
          /\ step' = [step EXCEPT ![w] =
               CASE r.op = "create" -> [do |-> "create"]
                 [] r.op = "converse" /\ (r.named \/ Cardinality(r.with \ {r.by}) # 1)
                      -> [do |-> "converse"]
                 [] OTHER -> Check]
    BY DEF Start
  <2>2. OthersWait(w)
    BY <2>1 DEF OthersWait, Inv, TypeOK, WorkerTypes
  <2>3. step'[w] \in {[do |-> "create"], [do |-> "converse"], Check}
    BY <2>1 DEF Inv, TypeOK, WorkerTypes
  <2> QED BY <2>2, <2>3 DEF Check
<1>3. step[w].do \notin Archivers \cup Admitters
  BY <1>1 DEF Idle, Archivers, Admitters
<1>4. Conversed' /\ Attended' /\ Admitted' /\ Open'
  BY <1>1, <1>2, <1>3, UnwrittenElsewhere DEF Archivers
<1>5. Governed'
  <2> SUFFICES ASSUME asked'.atOnce = 1, NoRank'
               PROVE  OneByOne' /\ Administered' /\ \A v \in Workers : Secure(step[v])'
    BY DEF Governed
  <2>1. asked.atOnce = 1 /\ NoRank
    <3>1. asked'.atOnce = asked.atOnce
      BY <1>1 DEF Inv, TypeOK, WorkerTypes
    <3> QED BY <1>1, <3>1 DEF tables, NoRank, ServerAdmin
  <2>2. OneByOne /\ Administered
    BY <2>1 DEF Kept, Governed
  <2>3. \A v \in Workers : step[v] = Idle
    BY <1>1, <2>1, <2>2, NobodyBusy
  <2>4. \A v \in Workers \ {w} : step'[v] = Idle /\ step'[v].do = "idle"
    BY <1>2, <2>3 DEF OthersWait, Idle
  <2>5. OneByOne'
    BY <2>4 DEF OneByOne
  <2>6. \A v \in Workers : Secure(step[v])'
    <3>1. \A v \in Workers : step'[v].do \in {"idle", "create", "converse", "check"}
      BY <1>2, <2>4
    <3> QED BY <3>1 DEF Secure
  <2>7. Administered'
    BY <1>1, <2>2 DEF tables, Administered, InUse, Standalone, Exists, AdminsOf
  <2> QED BY <2>5, <2>6, <2>7
<1> QED BY <1>4, <1>5 DEF Kept

LEMMA InitKept == Init => Kept
<1> SUFFICES ASSUME Init PROVE Kept
  OBVIOUS
<1>1. PICK s \in Scenarios :
        /\ standing = s.standing /\ channels = s.channels /\ roles = s.roles
        /\ asked = [atOnce |-> s.atOnce, requests |-> s.requests, budget |-> s.budget]
  BY DEF Init
<1>2. /\ step = [w \in Workers |-> Idle] /\ left = {} /\ removed = {} /\ altered = {}
  BY DEF Init
<1>3. Conversed /\ Attended
  BY <1>2 DEF Conversed, Attended
<1>4. \A c \in Channels : DefaultChannel(c) =>
        /\ ~channels[c].archived
        /\ \A u \in Users : standing[u] # Out => roles[c][u] # Out
  BY <1>1, StartAssumption DEF DefaultChannel, OfSpace, Exists
<1>5. Open /\ Admitted
  BY <1>4 DEF Open, Admitted, Due, MembersOf
<1>6. OneByOne /\ \A w \in Workers : Secure(step[w])
  BY <1>2, SecureIdle DEF OneByOne
<1>7. asked.atOnce = 1 => Administered
  <2> SUFFICES ASSUME s.atOnce = 1, NEW c \in Channels, InUse(c) PROVE AdminsOf(c) # {}
    BY <1>1 DEF Administered
  <2>1. PICK u \in Users : s.roles[c][u] = "admin"
    BY <1>1, StartAssumption DEF InUse, Standalone, Exists
  <2> QED BY <1>1, <2>1 DEF AdminsOf
<1> QED BY <1>3, <1>5, <1>6, <1>7 DEF Kept, Governed

LEMMA NextKept == Inv /\ Kept /\ [Next]_vars => Kept'
<1> SUFFICES ASSUME Inv, Kept, [Next]_vars PROVE Kept'
  OBVIOUS
<1>1. CASE Next
  BY <1>1, StartKeeps, ChecksKeep, ReadsKeep, WritesKeep DEF Next
<1>2. CASE UNCHANGED vars
  <2>1. UNCHANGED <<ranks, standing, channels, roles, request, step, asked, left, removed, altered>>
    BY <1>2 DEF vars, tables, history
  <2>2. Conversed' /\ Attended'
    BY <2>1 DEF Kept, Conversed, Attended, Exists, MembersOf, Archiving, Serves
  <2>3. Open' /\ Admitted'
    BY <2>1 DEF Kept, Open, Admitted, Due, DefaultChannel, OfSpace, Exists, MembersOf, Admitting
  <2>4. Governed'
    BY <2>1 DEF Kept, Governed, NoRank, ServerAdmin, OneByOne, Administered, InUse, Standalone,
       Exists, AdminsOf, Secure, Others
  <2> QED BY <2>2, <2>3, <2>4 DEF Kept
<1> QED BY <1>1, <1>2

LEMMA Keeping == Spec => [](Inv /\ Kept)
  BY InitInv, NextInv, InitKept, NextKept, PTL DEF Spec

\* Whoever leaves a conversation last but one archives it, for every interleaving of
\* the members' requests with those that add to it, archive it or remove from it:
\* once nobody is leaving, nobody is left alone in one that is not archived.
THEOREM LeavingArchives == Spec => []LeftAloneArchived
<1>1. Inv /\ Kept => LeftAloneArchived
  BY DEF Kept, Attended, LeftAloneArchived, Archiving
<1> QED BY <1>1, Keeping, PTL

\* Who enters a space while a default-join channel is created in it is in the channel
\* when both requests are served, whichever of them lists first, and so is everybody
\* else who is in the space: the creator lists after its insert, who enters likewise.
THEOREM DefaultChannelsReach == Spec => []NoMissedDefaultChannel
<1>1. Inv /\ Kept => NoMissedDefaultChannel
  <2> SUFFICES ASSUME Kept, Quiet, NEW c \in OfSpace \ altered, NEW u \in Users,
                      channels[c].defaultJoin, channels[c].public, standing[u] # Out,
                      <<c, u>> \notin removed
               PROVE  u \in MembersOf(c)
    BY DEF NoMissedDefaultChannel
  <2>1. c \in Channels /\ Due(c, u)
    BY DEF Due, DefaultChannel, OfSpace
  <2>2. \A w \in Workers : step[w].do = "idle"
    BY DEF Quiet, Busy, Idle
  <2>3. \A w \in Workers : ~Admitting(w, c, u)
    BY <2>2 DEF Admitting
  <2> QED BY <2>1, <2>3 DEF Kept, Admitted
<1> QED BY <1>1, Keeping, PTL

\* Served one at a time, no sequence of requests leaves a standalone channel in use
\* without an admin where no user has a server rank: the check of each request that
\* removes or demotes an admin, or unarchives, has found one who remains.
THEOREM AdminsRemain == Spec => []AdminRemains
<1>1. Inv /\ Kept => AdminRemains
  BY DEF Kept, Governed, AdminRemains, NoRank, Administered, InUse, Standalone
<1> QED BY <1>1, Keeping, PTL
=============================================================================
