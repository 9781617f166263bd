----------------------------- MODULE MCMembership -----------------------------
(* Three users, three channels and two workers in seven scenarios.           *)
EXTENDS Membership, MCActors

CONSTANTS c1, c2, c3

MCUsers == {alice, bob, carol}
MCChannels == {c1, c2, c3}

Rows(a, b, c) == c1 :> a @@ c2 :> b @@ c3 :> c
NoMembers == Three(Out, Out, Out)
Peers == Three("user", "user", "user")

Set(public, role, join) == [public |-> public, defaultRole |-> role, defaultJoin |-> join]
Channel(direct, inSpace) ==
  [direct |-> direct, inSpace |-> inSpace, archived |-> FALSE, public |-> ~direct,
   defaultRole |-> "write", defaultJoin |-> inSpace]
Space(personal) ==
  [public |-> ~personal, personal |-> personal, archived |-> FALSE, defaultRole |-> "user"]

OnChannel(op, U, c) == [op : {op}, by : U, on : {c}]
Leaving(U, c) == OnChannel("leave", U, c)
Kicking(u, v, c) == {[op |-> "kick", by |-> u, of |-> v, on |-> c]}
Ranking(u, v, role, c) == {[op |-> "role", by |-> u, of |-> v, on |-> c, role |-> role]}
AddingTo(u, v, role, c) == {[op |-> "add", by |-> u, of |-> v, on |-> c, role |-> role]}
OnSpace(op, U) == [op : {op}, by : U]
Standing(op, u, v, role) == {[op |-> op, by |-> u, of |-> v, role |-> role]}
Creating(op, u, U, set) == {[op |-> op, by |-> u, with |-> U, set |-> set]}
Conversing(u, U, named) == {[op |-> "converse", by |-> u, with |-> U, named |-> named]}

\* Members of a conversation leave it and add each other.
Conversation ==
  [ranks |-> Peers, serverArchived |-> FALSE, space |-> Space(FALSE), standing |-> NoMembers,
   channels |-> Rows(Channel(TRUE, FALSE), Unused, Unused),
   roles |-> Rows(Three("write", "write", "write"), NoMembers, NoMembers),
   invites |-> <<>>, atOnce |-> 2, budget |-> 5,
   requests |-> Leaving(MCUsers, c1) \cup
     {[op |-> "converse_add", by |-> alice, of |-> bob, on |-> c1]}]

\* The same beside a server admin.
Supervised ==
  [Conversation EXCEPT !.ranks = Three("user", "user", "admin"),
     !.roles = Rows(Three("write", "write", Out), NoMembers, NoMembers),
     !.requests = Leaving({alice, bob}, c1) \cup Kicking(carol, alice, c1)
       \cup Ranking(carol, bob, "admin", c1)
       \cup OnChannel("archive", {carol}, c1) \cup OnChannel("unarchive", {bob, carol}, c1)]

\* Two members start a conversation with each other, and three one.
Meeting ==
  [Conversation EXCEPT !.channels = Rows(Unused, Unused, Unused),
     !.roles = Rows(NoMembers, NoMembers, NoMembers), !.budget = 3,
     !.requests = {[op |-> "dm", by |-> alice, of |-> bob], [op |-> "dm", by |-> bob, of |-> alice]}
       \cup Conversing(alice, {bob}, FALSE) \cup Conversing(alice, {bob}, TRUE)
       \cup Conversing(carol, {alice, bob}, FALSE)]

\* A channel on its own, one request after the other.
Alone ==
  [Conversation EXCEPT !.atOnce = 1, !.budget = 6,
     !.channels = Rows(Channel(FALSE, FALSE), Unused, Unused),
     !.roles = Rows(Three("admin", "write", Out), NoMembers, NoMembers),
     !.requests = Leaving({alice, bob}, c1) \cup OnChannel("join", {carol}, c1)
       \cup AddingTo(alice, carol, Out, c1) \cup Kicking(alice, bob, c1) \cup Kicking(bob, alice, c1)
       \cup Ranking(alice, bob, "admin", c1) \cup Ranking(alice, alice, "read", c1)
       \cup Ranking(bob, bob, "write", c1) \cup Ranking(bob, alice, "write", c1)
       \cup OnChannel("archive", {alice}, c1) \cup OnChannel("unarchive", {alice, bob}, c1)
       \cup {[op |-> "update", by |-> alice, on |-> c1, set |-> [public |-> FALSE]]}
       \cup Creating("create", bob, {carol}, Set(TRUE, OtherRole, TRUE))]

\* A space that is entered and left while a channel is created in it.
Entering ==
  [Conversation EXCEPT !.standing = Three("owner", Out, "user"), !.budget = 5,
     !.space.defaultRole = OtherRole,
     !.channels = Rows(Channel(FALSE, TRUE), Unused, Unused),
     !.roles = Rows(Three("admin", Out, "write"), NoMembers, NoMembers),
     !.requests = OnSpace("join_space", {bob}) \cup OnSpace("leave_space", {carol})
       \cup Creating("create_in_space", alice, {}, Set(TRUE, OtherRole, TRUE))
       \cup Standing("invite", alice, bob, "admin")
       \cup [op : {"accept", "decline"}, by : {bob}, invite : {1}]
       \cup {[op |-> "space_kick", by |-> alice, of |-> bob]}]

\* What owners and admins do with a space and its channel.
Ruling ==
  [Conversation EXCEPT !.standing = Three("owner", "admin", "user"), !.budget = 4,
     !.channels = Rows(Channel(FALSE, TRUE), Unused, Unused),
     !.roles = Rows(Three("admin", "write", "write"), NoMembers, NoMembers),
     !.requests = OnSpace("archive_space", {alice}) \cup OnSpace("unarchive_space", {alice})
       \cup OnSpace("leave_space", {alice, bob}) \cup OnChannel("unarchive", {bob}, c1)
       \cup OnChannel("join", {bob}, c1)
       \cup Standing("space_role", alice, bob, "owner") \cup Standing("space_role", alice, alice, "user")
       \cup {[op |-> "update_space", by |-> bob, public |-> FALSE, defaultRole |-> OtherRole]}
       \cup {[op |-> "space_kick", by |-> bob, of |-> carol]}
       \cup {[op |-> "update", by |-> bob, on |-> c1, set |-> [defaultRole |-> OtherRole]]}]

\* A personal space refuses what a server owner may ask of any other, and an
\* archived server what its spaces allow.
Personal ==
  [Conversation EXCEPT !.standing = Three("owner", Out, Out), !.space = Space(TRUE), !.budget = 2,
     !.serverArchived = TRUE,
     !.ranks = Three("user", "user", "owner"),
     !.channels = Rows(Unused, Unused, Unused), !.roles = Rows(NoMembers, NoMembers, NoMembers),
     !.requests = OnSpace("leave_space", {alice}) \cup OnSpace("archive_space", {carol})
       \cup OnSpace("unarchive_space", {carol})
       \cup Standing("invite", carol, bob, "user") \cup OnSpace("join_space", {bob})
       \cup Creating("create_in_space", alice, {}, Set(TRUE, "write", TRUE))]

MCScenarios == {Conversation, Supervised, Meeting, Alone, Entering, Ruling, Personal}
=============================================================================
