------------------------------ MODULE MCHandlers ------------------------------
(* The request handlers, one component of them in each behaviour.  The      *)
(* scenarios of each are the tables it starts from, the requests that may  *)
(* be made, how many of them, and how many at once.  Those of Membership   *)
(* and of Calendar are in MCMembership and MCCalendar.                     *)
EXTENDS MCMembership, MCCalendar, Registration, Credentials, SpaceFiles, WikiTree, Boards
CONSTANTS nobody, passkey1, passkey2, key1

VARIABLES active

MCNames == {alice, bob, carol}
MCPasskeys == {passkey1, passkey2}
MCBrowserKeys == {key1}
MCAdmins == {bob}
MCFileNames == {"a", "b"}

Invite(max) == [max |-> max, uses |-> 0, live |-> TRUE]

\* The first people on a server, two of them at once.
Founding ==
  [mode |-> "invite_only", rank |-> Three("", "", ""), credentials |-> {}, invites |-> <<>>,
   budget |-> 4, atOnce |-> 2,
   requests |->
     [op : {"options"}, name : {alice}, invite : {0}]
       \cup [op : {"verify"}, challenge : {1}, key : {passkey1}]
       \cup [op : {"pki challenge"}]
       \cup [op : {"pki register"}, name : {bob}, invite : {0}, key : {key1}, challenge : {1, 2}]
       \cup [op : {"password register"}, name : {alice, carol}, invite : {0}]]

\* An invite for one, and several who have it.
Invited ==
  [Founding EXCEPT !.rank = Three("owner", "", ""), !.credentials = {<<alice, passkey1>>},
     !.invites = <<Invite(1)>>, !.budget = 4,
     !.requests = [op : {"options"}, name : {bob}, invite : {1}]
       \cup [op : {"verify"}, challenge : {1}, key : {passkey2, passkey1}]
       \cup [op : {"password register"}, name : {bob, carol}, invite : {0, 1}]
       \cup [op : {"access options"}] \cup [op : {"revoke"}, by : {alice}, invite : {1}]
       \cup [op : {"mode"}, by : {alice}, mode : {"open", "approval"}]]

InvitedInTurn == [Invited EXCEPT !.atOnce = 1]

\* Requests to join, and two admins who decide on them.
Joining ==
  [Founding EXCEPT !.mode = "approval", !.rank = Three("owner", "admin", ""),
     !.credentials = {<<alice, passkey1>>, <<bob, "password">>}, !.budget = 5,
     !.requests = [op : {"access options"}]
       \cup [op : {"access"}, name : {carol}, key : {key1, passkey2}, challenge : {1}]
       \cup [op : {"approve"}, by : {alice, bob}, join : {1, 2}]
       \cup [op : {"deny"}, by : {bob}, join : {1}]]

\* Roles and departures, one request after the other.
Departing ==
  [Founding EXCEPT !.atOnce = 1, !.budget = 6, !.mode = "open",
     !.requests = [op : {"password register"}, name : {alice, bob}, invite : {0}]
       \cup [op : {"role"}, by : {alice, bob}, of : {alice, bob}, role : {"user", "owner"}]
       \cup [op : {"delete account"}, by : {alice, bob}]
       \cup [op : {"create invite"}, by : {alice}, max : {0}]]

\* One challenge redeemed twice, beside two who have the same invite.
Overspent ==
  [Invited EXCEPT !.budget = 7,
     !.requests = [op : {"options"}, name : {bob}, invite : {1}]
       \cup [op : {"verify"}, challenge : {1}, key : {passkey2}]
       \cup [op : {"password register"}, name : {bob, carol}, invite : {1}]
       \cup [op : {"delete account"}, by : {bob}]]

\* A name given again, with another key that may be taken.
Returning ==
  [Departing EXCEPT !.budget = 6, !.atOnce = 2,
     !.requests = [op : {"password register"}, name : {alice}, invite : {0}]
       \cup [op : {"pki challenge"}]
       \cup [op : {"pki register"}, name : {alice, bob}, invite : {0}, key : {key1}, challenge : {1}]
       \cup [op : {"delete account"}, by : {alice}]]

MCRegistrationScenarios ==
  {Founding, Invited, InvitedInTurn, Joining, Departing, Overspent, Returning}


-----------------------------------------------------------------------------
(* Credentials: Alice, and Bob who is an admin. *)

Token(kind, u) == [kind |-> kind, of |-> u, live |-> TRUE, served |-> 0]
NoTotp == [secret |-> 0, verified |-> FALSE, last |-> 0]
Enrolled == [secret |-> 1, verified |-> TRUE, last |-> 0]

\* A second factor beside a ban.
LoggingIn ==
  [held |-> {<<alice, passkey1>>}, password |-> Two(1, 2), totp |-> Two(Enrolled, NoTotp),
   required |-> {}, tokens |-> <<Token("passkey login", "nobody")>>, sessions |-> <<bob>>,
   budget |-> 4, atOnce |-> 2,
   requests |-> [op : {"login"}, method : {"passkey"}, key : {passkey1}, challenge : {1}]
     \cup [op : {"mfa verify"}, token : {2, 3}, code : {1}]
     \cup [op : {"ban", "unban"}, by : {bob}, of : {alice}]]

\* The same in turn, with logins by password.
LoggingInTwice ==
  [LoggingIn EXCEPT !.atOnce = 1, !.budget = 6, !.tokens = <<>>,
     !.requests = [op : {"login"}, method : {"password"}, user : {alice}, password : {1, 2}]
       \cup [op : {"mfa verify"}, token : {1, 2}, code : {1, 2}]
       \cup [op : {"totp disable"}, by : {alice}, code : {2}]
       \cup [op : {"lock", "unlock"}, by : {bob}]]

\* The factor is demanded before it is set up.
Enrolling ==
  [LoggingIn EXCEPT !.totp = Two(NoTotp, NoTotp), !.required = {"password"}, !.tokens = <<>>,
     !.sessions = <<alice, bob>>, !.budget = 4,
     !.requests = [op : {"login"}, method : {"password"}, user : {alice}, password : {1}]
       \cup [op : {"mfa setup"}, token : {1}] \cup [op : {"mfa setup verify"}, token : {1}, code : {1}]
       \cup [op : {"totp setup"}, by : {alice}]
       \cup [op : {"totp verify", "totp disable"}, by : {alice}, code : {1, 2}]]

\* One token shown by two, a recovery and a linked device.
Recovering ==
  [LoggingIn EXCEPT !.totp = Two(NoTotp, NoTotp), !.sessions = <<alice, bob>>, !.budget = 5,
     !.tokens = <<Token("recovery key", alice)>>,
     !.requests = [op : {"recovery key"}, token : {1}] \cup [op : {"regenerate"}, by : {alice}]
       \cup [op : {"recovery token"}, by : {bob}, of : {alice}]
       \cup [op : {"recovery token login"}, token : {2}]
       \cup [op : {"logout"}, session : {1}] \cup [op : {"ban"}, by : {bob}, of : {alice}]]
Linking ==
  [Recovering EXCEPT !.tokens = <<>>, !.budget = 5,
     !.requests = [op : {"device token"}, by : {alice}]
       \cup [op : {"link passkey options", "link key challenge"}, token : {1}]
       \cup [op : {"link"}, token : {1}, challenge : {2, 3}, key : {passkey2, key1}]
       \cup [op : {"login options", "pki challenge"}]]

\* A browser key logs in while it is removed, and its owner is banned and not.
WithKey ==
  [Linking EXCEPT !.held = {<<alice, passkey1>>, <<alice, key1>>}, !.budget = 4,
     !.tokens = <<Token("pki login", "nobody")>>,
     !.requests = [op : {"login"}, method : {"pki"}, key : {key1}, challenge : {1}]
       \cup [op : {"remove"}, by : {alice}, key : {key1}]
       \cup [op : {"ban", "unban"}, by : {bob}, of : {alice}]]

\* Keys and passwords come and go, in turn.
Keeping ==
  [Recovering EXCEPT !.tokens = <<Token("add passkey", alice)>>, !.atOnce = 1, !.budget = 6,
     !.held = {<<alice, key1>>},
     !.requests = [op : {"add passkey options", "add key challenge"}, by : {alice}]
       \cup [op : {"add"}, by : {alice}, challenge : {1, 2}, key : {passkey2, key1}]
       \cup [op : {"remove"}, by : {alice}, key : {passkey2, key1}]
       \cup [op : {"delete password"}, by : {alice}]
       \cup [op : {"set password"}, by : {alice}, password : {1}]
       \cup [op : {"change password"}, by : {alice}, current : {1, 2}, password : {1, 2}]]
KeepingAtOnce == [Keeping EXCEPT !.atOnce = 2, !.budget = 3]

MCCredentialScenarios ==
  {LoggingIn, LoggingInTwice, Enrolling, Recovering, Linking, WithKey, Keeping, KeepingAtOnce}

-----------------------------------------------------------------------------
(* Space files: Alice administers the space, Bob is a member. *)

Folder(parent, name) ==
  [parent |-> parent, name |-> name, folder |-> TRUE, by |-> bob, blob |-> 0, here |-> TRUE]
Grant(f, level) == [file |-> f, of |-> bob, level |-> level]
ToFolder(op, u, parents, names) == [op : {op}, by : {u}, parent : parents, name : names]
Put(u, F, names, parents) == [op : {"update"}, by : {u}, file : F, name : names, parent : parents]
OnFile(op, u, F) == [op : {op}, by : {u}, file : F]

\* Uploads and folders of one name, into a folder that is being deleted.
Storing ==
  [files |-> <<Folder(0, "a")>>, grants |-> {Grant(1, 2)}, budget |-> 4, atOnce |-> 2,
   requests |-> ToFolder("upload", bob, {1}, {"a", "b"}) \cup ToFolder("folder", alice, {0, 1}, {"b"})
     \cup OnFile("delete", bob, {1, 2}) \cup OnFile("version", bob, {2})]

\* Uploads in chunks, completed once or twice.
InChunks ==
  [Storing EXCEPT !.budget = 5,
     !.requests = [op : {"upload init"}, by : {bob}, parent : {1}, name : {"b"}, chunks : {{1}}]
       \cup [op : {"version init"}, by : {bob}, file : {2}, chunks : {{1}}]
       \cup [op : {"chunk"}, upload : {1, 2}, index : {1}] \cup [op : {"complete"}, upload : {1, 2}]
       \cup ToFolder("folder", alice, {1}, {"b"}) \cup OnFile("delete", alice, {1})]

Versioned ==
  [Storing EXCEPT !.budget = 6,
     !.requests = ToFolder("upload", bob, {1}, {"b"}) \cup OnFile("version", bob, {2})
       \cup [op : {"revert"}, by : {bob}, file : {2}, number : {1}] \cup OnFile("delete", bob, {2})
       \cup [op : {"version init"}, by : {bob}, file : {2}, chunks : {{1, 2}}]
       \cup [op : {"chunk"}, upload : {1}, index : {1, 2}] \cup [op : {"complete"}, upload : {1}]]

\* Folders are renamed and moved into each other, in turn and at once.
Moving ==
  [Storing EXCEPT !.files = <<Folder(0, "a"), Folder(0, "b"), Folder(2, "a")>>, !.grants = {},
     !.atOnce = 1, !.budget = 5,
     !.requests = Put(bob, {1, 2, 3}, {"keep"}, {0, 1, 2, 3}) \cup Put(bob, {1}, {"b"}, {99, 2})
       \cup OnFile("delete", alice, {1}) \cup ToFolder("folder", alice, {0}, {"a"})]
MovingAtOnce ==
  [Moving EXCEPT !.atOnce = 2, !.budget = 4,
     !.requests = Put(alice, {1, 2}, {"keep"}, {1, 2, 3}) \cup OnFile("delete", alice, {1, 3})]

Granting ==
  [Storing EXCEPT !.files = <<Folder(0, "a"), Folder(1, "b")>>, !.grants = {}, !.budget = 4,
     !.requests = [op : {"grant"}, by : {bob}, file : {1, 2}, of : {alice, bob}, level : {0, 2}]
       \cup [op : {"ungrant"}, by : {alice}, file : {1}, of : {bob}]
       \cup OnFile("delete", bob, {2})]

MCFileScenarios == {Storing, InChunks, Versioned, Moving, MovingAtOnce, Granting}

-----------------------------------------------------------------------------
(* Boards: Alice administers the space, Bob may edit its boards. *)

OfBoard(op, u, bs) == [op : {op}, by : {u}, board : bs]
InBoard(op, u, bs, field, values) ==
  {[f \in {"op", "by", "board", field} |->
      CASE f = "op" -> op [] f = "by" -> u [] f = "board" -> b [] OTHER -> v] : b \in bs, v \in values}
OfPart(op, field, values) ==
  {[f \in {"op", "by", field} |-> CASE f = "op" -> op [] f = "by" -> bob [] OTHER -> v] : v \in values}
Unnamed == [names |-> {}, people |-> {}, tags |-> {}]
Naming(field, S) == [Unnamed EXCEPT !.names = {field}, ![field] = S]
Clearing == [Unnamed EXCEPT !.names = {"people", "tags"}]
EditTask(u, ts, cs, titles, rows) ==
  {[op |-> "edit", by |-> u, board |-> 1, task |-> t, column |-> c, title |-> title,
    names |-> r.names, people |-> r.people, tags |-> r.tags] :
     t \in ts, c \in cs, title \in titles, r \in rows}
NewTask(cs, people, tags) ==
  [op : {"task"}, by : {bob}, board : {1}, column : cs, title : {"a"}, people : people, tags : tags]
Item(t, c) == [task |-> t, column |-> c]

\* Two boards, the first with two columns, a task and a label.
Arranging ==
  [boards |-> <<[by |-> alice, here |-> TRUE], [by |-> bob, here |-> TRUE]>>,
   columns |-> <<[board |-> 1, here |-> TRUE], [board |-> 1, here |-> TRUE], [board |-> 2, here |-> TRUE]>>,
   tasks |-> <<[board |-> 1, column |-> 1, title |-> "a", by |-> alice, here |-> TRUE]>>,
   labels |-> <<[board |-> 1, here |-> TRUE]>>, boardGrants |-> Two("view", "edit"),
   budget |-> 4, atOnce |-> 1,
   requests |-> EditTask(bob, {1, 2}, {0, 2, 3}, {"", "b"}, {Unnamed, Naming("people", {alice, nobody})})
     \cup NewTask({2, 3}, {{bob}}, {{1}})
     \cup InBoard("reorder", bob, {1}, "items", {<<Item(1, 2), Item(2, 1)>>, <<Item(1, 1), Item(2, 3)>>})
     \cup InBoard("delete column", bob, {1}, "column", {1, 2})]

\* The same requests, two at once.
ArrangingAtOnce ==
  [Arranging EXCEPT !.atOnce = 2, !.budget = 3,
     !.requests = EditTask(bob, {1}, {0, 2}, {"b"}, {Clearing, Naming("people", {bob}), Naming("tags", {1})})
       \cup NewTask({2}, {{}}, {{}})
       \cup InBoard("reorder", bob, {1}, "items", {<<Item(1, 2), Item(2, 1)>>})
       \cup InBoard("delete column", alice, {1}, "column", {2}) \cup OfPart("delete label", "label", {1})
       \cup InBoard("delete task", alice, {1}, "task", {1})]

\* Boards, columns and what hangs on a task.
Furnishing ==
  [Arranging EXCEPT !.atOnce = 2, !.budget = 3,
     !.tasks = Append(@, [board |-> 1, column |-> 2, title |-> "b", by |-> bob, here |-> TRUE]),
     !.requests = OfPart("board", "title", {"b"}) \cup OfBoard("delete board", bob, {1, 2, 3})
       \cup OfBoard("column", bob, {1, 3}) \cup OfBoard("label", bob, {1})
       \cup InBoard("checklist", bob, {1}, "task", {1, 2}) \cup InBoard("delete task", bob, {1}, "task", {1, 2})
       \cup OfPart("item", "list", {1}) \cup OfPart("delete checklist", "list", {1})]
Fitting ==
  [Furnishing EXCEPT !.atOnce = 1, !.budget = 4,
     !.requests = InBoard("checklist", bob, {1}, "task", {1}) \cup OfPart("item", "list", {1})
       \cup [op : {"update item"}, by : {bob}, item : {1}, checked : {TRUE}]
       \cup OfPart("delete item", "item", {1}) \cup OfPart("delete checklist", "list", {1})
       \cup OfBoard("delete board", alice, {1})
       \cup [op : {"depend"}, by : {bob}, board : {1, 2}, task : {1, 2}, on : {1, 2}]
       \cup [op : {"undepend"}, by : {bob}, task : {1}, on : {2}]
       \cup [op : {"grant"}, by : {alice, bob}, of : {bob}, level : {"owner"}]
       \cup [op : {"ungrant"}, by : {alice, bob}, of : {bob}]]

MCStrangers == {nobody}
MCBoardScenarios == {Arranging, ArrangingAtOnce, Furnishing, Fitting}

-----------------------------------------------------------------------------
(* The wiki: Alice administers the space, Bob may edit its wiki. *)

Page(parent, title, u) ==
  [parent |-> parent, slug |-> <<title, 1>>, title |-> title, text |-> "one", by |-> u, here |-> TRUE]
NewPage(u, parents, titles) ==
  [op : {"page"}, by : {u}, parent : parents, title : titles, text : {"one"}]
Save(u, ps, titles, texts, keep) ==
  [op : {"save"}, by : {u}, page : ps, title : titles, text : texts, keep : keep]
OnPage(op, u, ps) == [op : {op}, by : {u}, page : ps]

\* A page is saved, kept and reverted.
Drafting ==
  [pages |-> <<Page(0, "a", bob)>>, wikiGrants |-> Two("view", "edit"), budget |-> 5, atOnce |-> 1,
   requests |-> Save(bob, {1}, {"same", "b"}, {"same", "two"}, BOOLEAN)
     \cup [op : {"revert"}, by : {bob}, page : {1}, number : {1, 2}]]
DraftingAtOnce == [Drafting EXCEPT !.atOnce = 2, !.budget = 3]

\* Pages are made, moved and deleted, at once and also under each other.
Growing ==
  [Drafting EXCEPT !.pages = <<Page(0, "a", bob), Page(1, "b", bob), Page(2, "a", alice)>>,
     !.atOnce = 2, !.budget = 3,
     !.requests = NewPage(bob, {0, 1}, {"a"}) \cup OnPage("delete", bob, {1, 2, 3})
       \cup [op : {"move"}, by : {bob}, page : {1, 2}, parent : {0, 2, 3}]
       \cup Save(bob, {2}, {"a"}, {"same"}, {TRUE})]
GrowingInTurn == [Growing EXCEPT !.atOnce = 1, !.budget = 4]

Sharing ==
  [Growing EXCEPT !.wikiGrants = Two("view", "view"), !.atOnce = 1, !.budget = 4,
     !.requests = [op : {"page grant"}, by : {alice, bob}, page : {1, 3}, of : {bob}, level : {0, 2}]
       \cup [op : {"page ungrant"}, by : {alice}, page : {1}, of : {bob}]
       \cup [op : {"wiki ungrant"}, by : {alice, bob}, of : {alice, bob}]
       \cup [op : {"wiki grant"}, by : {alice, bob}, of : {bob}, level : {"edit", "owner"}]
       \cup OnPage("delete", bob, {1, 3}) \cup NewPage(bob, {3}, {"b"})]

MCTitles == {"a", "b"}
MCTexts == {"one", "two"}
MCWikiScenarios == {Drafting, DraftingAtOnce, Growing, GrowingInTurn, Sharing}

-----------------------------------------------------------------------------
(* One component at a time: the tables of the others stay as they are in   *)
(* one of their scenarios; there are no events.                            *)

NoBoards == BoardTables(Arranging)
NoWiki == WikiTables(Drafting)
NoAgenda == CalendarTables([Scheduling EXCEPT !.events = <<>>])

NoMembership == Init /\ asked.requests = Meeting.requests
NoRegistration == RegistrationTables(Founding)
NoCredentials == CredentialTables(LoggingIn)
NoFiles == FileTables(Storing)

HandlersInit ==
  \/ /\ active = "membership" /\ Init /\ Listening([requests |-> {}, budget |-> 0, atOnce |-> 1])
     /\ NoRegistration /\ NoCredentials /\ NoFiles /\ NoBoards /\ NoWiki /\ NoAgenda
  \/ /\ NoMembership
     /\ \/ /\ active = "registration" /\ InitRegistration
           /\ NoCredentials /\ NoFiles /\ NoBoards /\ NoWiki /\ NoAgenda
        \/ /\ active = "credentials" /\ InitCredentials
           /\ NoRegistration /\ NoFiles /\ NoBoards /\ NoWiki /\ NoAgenda
        \/ /\ active = "files" /\ InitFiles
           /\ NoRegistration /\ NoCredentials /\ NoBoards /\ NoWiki /\ NoAgenda
        \/ /\ active = "boards" /\ InitBoards
           /\ NoRegistration /\ NoCredentials /\ NoFiles /\ NoWiki /\ NoAgenda
        \/ /\ active = "wiki" /\ InitWiki
           /\ NoRegistration /\ NoCredentials /\ NoFiles /\ NoBoards /\ NoAgenda
        \/ /\ active = "agenda" /\ InitCalendar
           /\ NoRegistration /\ NoCredentials /\ NoFiles /\ NoBoards /\ NoWiki

NextOfActive ==
  \/ /\ active = "registration" /\ NextRegistration
     /\ UNCHANGED <<credentialState, fileTables, boardTables, wikiTables, calendarTables>>
  \/ /\ active = "credentials" /\ NextCredentials
     /\ UNCHANGED <<registration, fileTables, boardTables, wikiTables, calendarTables>>
  \/ /\ active = "files" /\ NextFiles
     /\ UNCHANGED <<registration, credentialState, boardTables, wikiTables, calendarTables>>
  \/ /\ active = "boards" /\ NextBoards
     /\ UNCHANGED <<registration, credentialState, fileTables, wikiTables, calendarTables>>
  \/ /\ active = "wiki" /\ NextWiki
     /\ UNCHANGED <<registration, credentialState, fileTables, boardTables, calendarTables>>
  \/ /\ active = "agenda" /\ NextCalendar
     /\ UNCHANGED <<registration, credentialState, fileTables, boardTables, wikiTables>>

handlersVars == <<vars, active, serving, registration, credentialState, fileTables, boardTables,
                  wikiTables, calendarTables>>
HandlersNext ==
  /\ UNCHANGED active
  /\ \/ NextOfActive /\ UNCHANGED vars
     \/ /\ active = "membership" /\ Next
        /\ UNCHANGED <<serving, registration, credentialState, fileTables, boardTables,
                       wikiTables, calendarTables>>
HandlersSpec == HandlersInit /\ [][HandlersNext]_handlersVars

\* The tables of every component keep the types and the keys of their columns.
Types ==
  /\ RegistrationTypes /\ CredentialTypes /\ FileTypes /\ WikiTypes /\ BoardTypes
  /\ CalendarTypes
=============================================================================
