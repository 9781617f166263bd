----------------------------- MODULE Registration -----------------------------
(***************************************************************************)
(* How accounts come to be and who rules the server: registration with a   *)
(* passkey, a browser key or a password, invites, requests to join and     *)
(* their approval, server roles and the deletion of one's own account      *)
(* (auth_handler.cpp, admin_handler.cpp, user_handler.cpp and the          *)
(* statements of database.cpp they send).  What people do with an account  *)
(* they have is the subject of Credentials.                                *)
(***************************************************************************)
EXTENDS Requests, Sequences

CONSTANTS
  Names,          \* usernames: users.username is unique
  Passkeys, BrowserKeys,
  RegistrationScenarios

Password == "password"
Keys == Passkeys \cup BrowserKeys \cup {Password}
Modes == {"invite", "invite_only", "approval", "open"}
Ranks == {"user", "admin", "owner"}
NoAccount == ""
Anyone == ""     \* the name in a challenge that is for nobody in particular

VARIABLES
  mode,           \* the setting registration_mode
  rank,           \* users.role of the accounts
  credentials,    \* rows of webauthn_, pki_ and password_credentials
  challenges,     \* webauthn_challenges, with what each was stored with
  inviteCodes,        \* invite_tokens
  joins,          \* join_requests
  made,           \* history: every account created, and from what
  departed,       \* history: an owner has deleted the account
  opened          \* history: the server has been open to everybody, or everybody has left

registrationTables == <<mode, rank, credentials, challenges, inviteCodes, joins>>
registration == <<registrationTables, made, departed, opened>>
registrationVars == <<registration, serving>>

Registered == {n \in Names : rank[n] # NoAccount}
ServerOwners == {n \in Names : rank[n] = "owner"}
Rule(n) == rank[n] \in {"admin", "owner"}
RankOf(role) == CASE role = "owner" -> 2 [] role = "admin" -> 1 [] OTHER -> 0

\* What may be asked.
RegistrationRequests ==
  [op : {"options", "password register"}, name : Names, invite : Nat]
  \cup [op : {"pki challenge", "access options"}]
  \cup [op : {"verify"}, challenge : Nat, key : Passkeys]
  \cup [op : {"pki register"}, name : Names, invite : Nat, key : BrowserKeys, challenge : Nat]
  \cup [op : {"access"}, name : Names, key : Keys, challenge : Nat]
  \cup [op : {"approve", "deny"}, by : Names, join : Nat]
  \cup [op : {"create invite"}, by : Names, max : Nat]
  \cup [op : {"revoke"}, by : Names, invite : Nat]
  \cup [op : {"mode"}, by : Names, mode : Modes]
  \cup [op : {"role"}, by : Names, of : Names, role : Ranks]
  \cup [op : {"delete account"}, by : Names]

InviteRows == [max : Nat, uses : Nat, live : BOOLEAN]

\* A scenario starts with invites that have not been used, and with an owner and
\* not without one but where nobody has been there.
ASSUME RegistrationAssumption ==
  \A s \in RegistrationScenarios :
    /\ s.mode \in Modes
    /\ s.rank \in [Names -> Ranks \cup {NoAccount}]
    /\ LET accounts == {n \in Names : s.rank[n] # NoAccount} IN
         /\ IsFiniteSet(accounts)
         /\ IF accounts = {} THEN s.invites = <<>> ELSE \E n \in accounts : s.rank[n] = "owner"
    /\ s.credentials \subseteq Names \X Keys
    /\ s.invites \in Seq(InviteRows)
    /\ \A i \in DOMAIN s.invites : s.invites[i].uses = 0
    /\ s.requests \subseteq RegistrationRequests
    /\ s.atOnce \in Nat \ {0}

RegistrationTables(s) ==
  /\ mode = s.mode
  /\ rank = s.rank
  /\ credentials = s.credentials
  /\ inviteCodes = s.invites
  /\ challenges = <<>> /\ joins = <<>> /\ made = <<>> /\ departed = FALSE
  /\ opened = (s.mode = "open")
InitRegistration == \E s \in RegistrationScenarios : RegistrationTables(s) /\ Listening(s)

\* The account that a request is to make.
OfJob(w) ==
  CASE job[w].op = "verify" ->
         [name |-> challenges[job[w].challenge].name, key |-> job[w].key,
          invite |-> challenges[job[w].challenge].invite, join |-> 0]
    [] job[w].op = "approve" ->
         [name |-> joins[job[w].join].name, key |-> joins[job[w].join].key,
          invite |-> 0, join |-> job[w].join]
    [] job[w].op = "password register" ->
         [name |-> job[w].name, key |-> Password, invite |-> job[w].invite, join |-> 0]
    [] OTHER ->
         [name |-> job[w].name, key |-> job[w].key, invite |-> job[w].invite, join |-> 0]

\* An account is still being made: its session has not been handed out.
Making(n) ==
  \E w \in Engaged : job[w].at \in {"credential", "spend", "session"} /\ OfJob(w).name = n

\* users.id: a name can be given to one account after another.
UserId(n) == Cardinality({k \in DOMAIN made : made[k].account.name = n})
Is(n, id) == n \in Registered /\ UserId(n) = id

\* The challenge, the invite and the join request that a request names exist.
NamesRows(r) ==
  /\ "challenge" \in DOMAIN r => r.challenge \in DOMAIN challenges
  /\ "invite" \in DOMAIN r => r.invite \in 0 .. Len(inviteCodes)
  /\ "join" \in DOMAIN r => r.join \in DOMAIN joins
  /\ "by" \in DOMAIN r => r.by \in Registered /\ ~Making(r.by)

Take(w) == Accept(w, {r \in calls.requests : NamesRows(r)}) /\ UNCHANGED registration

Read(w, refused, place) == Unless(w, refused, place) /\ UNCHANGED registration
\* The handler goes on with the account of n.
Find(w, n, refused, place) ==
  /\ IF n \notin Registered \/ refused THEN Respond(w) ELSE Recall(w, place, UserId(n))
  /\ UNCHANGED registration

-----------------------------------------------------------------------------
(* Who may register *)

\* Mutant: the limit of an invite is not looked at.
InviteValidWhileThere(i) == i # 0 /\ inviteCodes[i].live

\* validate_invite
InviteValid(i) ==
  /\ i # 0
  /\ inviteCodes[i].live
  /\ inviteCodes[i].max = 0 \/ inviteCodes[i].uses < inviteCodes[i].max

\* registration_eligibility_message, with an invite (0 for none).
Eligible(i) ==
  \/ Registered = {}
  \/ mode = "open"
  \/ mode # "approval" /\ InviteValid(i)

StoreChallenge(type, name, invite) ==
  challenges' = Append(challenges,
    [type |-> type, name |-> name, invite |-> invite, live |-> TRUE])

\* handle_register_options: who may register is decided here, once.
RegisterOptions(w) ==
  /\ At(w, "options", "check")
  /\ IF Eligible(job[w].invite)
     THEN StoreChallenge("registration", job[w].name, job[w].invite)
     ELSE UNCHANGED challenges
  /\ Respond(w)
  /\ UNCHANGED <<mode, rank, credentials, inviteCodes, joins, made, departed, opened>>

\* handle_pki_challenge: anybody may have one.
RegistrationChallenge(w) ==
  /\ At(w, "pki challenge", "check")
  /\ StoreChallenge("pki_registration", Anyone, 0)
  /\ Respond(w)
  /\ UNCHANGED <<mode, rank, credentials, inviteCodes, joins, made, departed, opened>>

\* handle_request_access_options
AccessOptions(w) ==
  /\ At(w, "access options", "check")
  /\ IF mode \in {"invite", "approval"}
     THEN StoreChallenge("join_request", Anyone, 0)
     ELSE UNCHANGED challenges
  /\ Respond(w)
  /\ UNCHANGED <<mode, rank, credentials, inviteCodes, joins, made, departed, opened>>

\* get_webauthn_challenge
Stored(w, types) ==
  LET c == challenges[job[w].challenge] IN c.live /\ c.type \in types

CheckRegisterVerify(w) ==
  /\ At(w, "verify", "check")
  /\ Read(w, ~Stored(w, {"registration"}), "discard")

CheckPkiRegister(w) ==
  /\ At(w, "pki register", "check")
  /\ Read(w, ~Stored(w, {"pki_registration"}), "discard")

\* A key's challenge may be of any type, a passkey's is for joining.
CheckAccess(w) ==
  /\ At(w, "access", "check")
  /\ LET types == IF job[w].key \in Passkeys THEN {"join_request"}
                  ELSE {"registration", "pki_registration", "join_request"}
     IN Read(w, \/ mode \in {"open", "invite_only"}
                \/ job[w].key # Password /\ ~Stored(w, types),
             IF job[w].key = Password THEN "ask" ELSE "discard")

\* delete_webauthn_challenge
Discard(w) ==
  /\ job[w].at = "discard"
  /\ challenges' = [challenges EXCEPT ![job[w].challenge].live = FALSE]
  /\ Proceed(w, CASE job[w].op = "verify" -> "count"
               [] job[w].op = "pki register" -> "admit"
               [] OTHER -> "ask")
  /\ UNCHANGED <<mode, rank, credentials, inviteCodes, joins, made, departed, opened>>

\* check_registration_eligibility, where it precedes the creation.
CheckPasswordRegister(w) ==
  /\ At(w, "password register", "check")
  /\ Read(w, ~Eligible(job[w].invite), "count")

Admit(w) ==
  /\ At(w, "pki register", "admit")
  /\ Read(w, ~Eligible(job[w].invite), "count")

-----------------------------------------------------------------------------
(* An account is made *)

\* count_users: the first one is to own the server.
CountUsers(w) ==
  /\ job[w].at = "count"
  /\ Recall(w, "create", IF Registered = {} THEN "owner" ELSE "user")
  /\ UNCHANGED registration

\* create_user: a username that is taken is answered with 409.
CreateUser(w) ==
  /\ job[w].at = "create"
  /\ LET a == OfJob(w)
         role == IF job[w].op = "approve" THEN "user" ELSE job[w].saw
     IN IF rank[a.name] # NoAccount
        THEN Respond(w) /\ UNCHANGED <<rank, made>>
        ELSE /\ rank' = [rank EXCEPT ![a.name] = role]
             /\ made' = Append(made, [account |-> a, role |-> role, conflict |-> FALSE])
             /\ Proceed(w, "credential")
  /\ UNCHANGED <<mode, credentials, challenges, inviteCodes, joins, departed, opened>>

Taken(key) == key # Password /\ \E n \in Names : <<n, key>> \in credentials

\* Mutant: the credential is left for later.
StoreCredentialNot(w) ==
  /\ job[w].at = "credential"
  /\ Proceed(w, IF job[w].op = "approve" THEN "session" ELSE "spend")
  /\ UNCHANGED registration

\* store_webauthn_credential, store_pki_credential or store_password: a key that
\* is taken is answered with 409, and the account made a moment ago remains.
\* store_recovery_keys comes next, a transaction of its own on a table that no
\* request of this module reads (their use is the subject of Credentials).
StoreCredential(w) ==
  /\ job[w].at = "credential"
  /\ LET a == OfJob(w) IN
     IF Taken(a.key)
     THEN /\ made' = [k \in DOMAIN made |->
                        [made[k] EXCEPT !.conflict = @ \/ made[k].account = a]]
          /\ Respond(w)
          /\ UNCHANGED credentials
     ELSE /\ credentials' = credentials \cup {<<a.name, a.key>>}
          /\ Proceed(w, IF job[w].op = "approve" THEN "session" ELSE "spend")
          /\ UNCHANGED made
  /\ UNCHANGED <<mode, rank, challenges, inviteCodes, joins, departed, opened>>

\* use_invite: whatever the limit says by now; one that was revoked is not found.
UseInvite(w) ==
  /\ job[w].at = "spend"
  /\ LET i == OfJob(w).invite IN
     inviteCodes' = IF i = 0 \/ ~inviteCodes[i].live THEN inviteCodes
                ELSE [inviteCodes EXCEPT ![i].uses = @ + 1]
  /\ Respond(w)
  /\ UNCHANGED <<mode, rank, credentials, challenges, joins, made, departed, opened>>

-----------------------------------------------------------------------------
(* Requests to join *)

\* create_join_request
CreateJoinRequest(w) ==
  /\ job[w].at = "ask"
  /\ joins' = Append(joins, [name |-> job[w].name, key |-> job[w].key,
                             status |-> "pending", session |-> FALSE])
  /\ Respond(w)
  /\ UNCHANGED <<mode, rank, credentials, challenges, inviteCodes, made, departed, opened>>

CheckApprove(w) ==
  /\ At(w, "approve", "check")
  /\ Read(w, ~Rule(job[w].by) \/ joins[job[w].join].status # "pending", "create")

\* set_join_request_session, for the one who polls.  create_session comes before,
\* a transaction of its own on a table that no request of this module reads.
StoreJoinSession(w) ==
  /\ At(w, "approve", "session")
  /\ joins' = [joins EXCEPT ![job[w].join].session = TRUE]
  /\ Proceed(w, "close")
  /\ UNCHANGED <<mode, rank, credentials, challenges, inviteCodes, made, departed, opened>>

\* update_join_request
Approve(w) ==
  /\ At(w, "approve", "close")
  /\ joins' = [joins EXCEPT ![job[w].join].status = "approved"]
  /\ Respond(w)
  /\ UNCHANGED <<mode, rank, credentials, challenges, inviteCodes, made, departed, opened>>

\* A denial does not ask what has become of the request.
Deny(w) ==
  /\ At(w, "deny", "check")
  /\ joins' = IF Rule(job[w].by)
              THEN [joins EXCEPT ![job[w].join].status = "denied"] ELSE joins
  /\ Respond(w)
  /\ UNCHANGED <<mode, rank, credentials, challenges, inviteCodes, made, departed, opened>>

-----------------------------------------------------------------------------
(* What admins and owners do, and who leaves *)

\* create_invite
CreateServerInvite(w) ==
  /\ At(w, "create invite", "check")
  /\ inviteCodes' = IF Rule(job[w].by)
                THEN Append(inviteCodes, [max |-> job[w].max, uses |-> 0, live |-> TRUE])
                ELSE inviteCodes
  /\ Respond(w)
  /\ UNCHANGED <<mode, rank, credentials, challenges, joins, made, departed, opened>>

\* revoke_invite: one for a single use cannot be revoked once used.
RevokeInvite(w) ==
  /\ At(w, "revoke", "check")
  /\ LET i == job[w].invite IN
     inviteCodes' = IF i # 0 /\ Rule(job[w].by) /\ (inviteCodes[i].max # 1 \/ inviteCodes[i].uses = 0)
                THEN [inviteCodes EXCEPT ![i].live = FALSE] ELSE inviteCodes
  /\ Respond(w)
  /\ UNCHANGED <<mode, rank, credentials, challenges, joins, made, departed, opened>>

\* save_settings, as far as registration is concerned.
ChangeMode(w) ==
  /\ At(w, "mode", "check")
  /\ mode' = IF rank[job[w].by] = "owner" THEN job[w].mode ELSE mode
  /\ opened' = (opened \/ mode' = "open")
  /\ Respond(w)
  /\ UNCHANGED <<rank, credentials, challenges, inviteCodes, joins, made, departed>>

\* Mutant: the last owner may step down.
CheckServerRoleUncounted(w) ==
  /\ At(w, "role", "check")
  /\ LET mine == RankOf(rank[job[w].by])
         theirs == RankOf(rank[job[w].of])
         new == RankOf(job[w].role)
     IN Find(w, job[w].of,
             \/ mine = 0 \/ new > mine
             \/ new < theirs /\ theirs >= mine /\ job[w].by # job[w].of,
             "set role")

\* Nobody is raised above the one who asks, or lowered by a peer.
CheckServerRole(w) ==
  /\ At(w, "role", "check")
  /\ LET mine == RankOf(rank[job[w].by])
         theirs == RankOf(rank[job[w].of])
         new == RankOf(job[w].role)
     IN Find(w, job[w].of,
             \/ mine = 0 \/ new > mine
             \/ new < theirs /\ theirs >= mine /\ job[w].by # job[w].of,
             IF theirs = 2 /\ new < 2 THEN "count owners" ELSE "set role")

\* count_users_with_role
CountServerOwners(w) ==
  /\ At(w, "role", "count owners")
  /\ Read(w, Cardinality(ServerOwners) <= 1, "set role")

\* update_user_role
SetServerRole(w) ==
  /\ At(w, "role", "set role")
  /\ rank' = IF Is(job[w].of, job[w].saw)
             THEN [rank EXCEPT ![job[w].of] = job[w].role] ELSE rank
  /\ Respond(w)
  /\ UNCHANGED <<mode, credentials, challenges, inviteCodes, joins, made, departed, opened>>

\* DELETE /api/users/me: whose session it is, ...
CheckDeleteAccount(w) ==
  /\ At(w, "delete account", "check")
  /\ Find(w, job[w].by, FALSE, "delete")

\* ... and delete_user: the credentials go with the account, and nobody asks
\* whether the server has another owner.
DeleteAccount(w) ==
  /\ At(w, "delete account", "delete")
  /\ LET n == job[w].by IN
     IF Is(n, job[w].saw)
     THEN /\ rank' = [rank EXCEPT ![n] = NoAccount]
          /\ credentials' = {c \in credentials : c[1] # n}
          /\ departed' = (departed \/ rank[n] = "owner")
          /\ opened' = (opened \/ Registered = {n})
     ELSE UNCHANGED <<rank, credentials, departed, opened>>
  /\ Respond(w)
  /\ UNCHANGED <<mode, challenges, inviteCodes, joins, made>>

-----------------------------------------------------------------------------

NextRegistration ==
  \E w \in Threads :
    \/ Take(w)
    \/ RegisterOptions(w) \/ RegistrationChallenge(w) \/ AccessOptions(w)
    \/ CheckRegisterVerify(w) \/ CheckPkiRegister(w) \/ CheckAccess(w)
    \/ CheckPasswordRegister(w) \/ Discard(w) \/ Admit(w)
    \/ CountUsers(w) \/ CreateUser(w) \/ StoreCredential(w) \/ UseInvite(w)
    \/ CreateJoinRequest(w) \/ CheckApprove(w) \/ StoreJoinSession(w) \/ Approve(w) \/ Deny(w)
    \/ CreateServerInvite(w) \/ RevokeInvite(w) \/ ChangeMode(w)
    \/ CheckServerRole(w) \/ CountServerOwners(w) \/ SetServerRole(w)
    \/ CheckDeleteAccount(w) \/ DeleteAccount(w)

RegistrationSpec == InitRegistration /\ [][NextRegistration]_registrationVars

-----------------------------------------------------------------------------
(* Properties *)

ChallengeRows ==
  [type : {"registration"}, name : Names, invite : 0 .. Len(inviteCodes), live : BOOLEAN]
  \cup [type : {"pki_registration", "join_request"}, name : {Anyone}, invite : {0}, live : BOOLEAN]
JoinRows ==
  [name : Names, key : Keys, session : BOOLEAN, status : {"pending", "approved", "denied"}]
AccountRows ==
  [name : Names, key : Keys, invite : 0 .. Len(inviteCodes), join : 0 .. Len(joins)]

RegistrationTypes ==
  /\ mode \in Modes
  /\ rank \in [Names -> Ranks \cup {NoAccount}] /\ IsFiniteSet(Registered)
  /\ credentials \subseteq Names \X Keys
  /\ inviteCodes \in Seq(InviteRows)
  /\ challenges \in Seq(ChallengeRows)
  /\ joins \in Seq(JoinRows)
  /\ made \in Seq([account : AccountRows, role : Ranks, conflict : BOOLEAN])
  /\ departed \in BOOLEAN /\ opened \in BOOLEAN

\* An invite brings in no more accounts than its limit allows, but for the
\* registrations that overlapped at the last check of the limit
\* (validate_invite and use_invite are separate transactions) and for the
\* passkey registrations begun while it was still valid, which are not checked
\* a second time when they are completed (auth_handler.cpp:690): as many for
\* each as overlapped before its challenge was discarded.  A server that is open,
\* or that everybody has left, counts the uses of an invite and does not look at
\* them.
InvitesHold ==
  \A i \in DOMAIN inviteCodes :
    inviteCodes[i].max # 0 /\ ~opened =>
      inviteCodes[i].uses <= inviteCodes[i].max + calls.atOnce - 1
        + calls.atOnce * Cardinality({c \in DOMAIN challenges :
                                        /\ challenges[c].type = "registration"
                                        /\ challenges[c].invite = i /\ ~challenges[c].live})

\* Of registrations served one after the other only the first makes an owner,
\* and from then on the server has one until an owner deletes the account: no
\* sequence of promotions and demotions leaves it without
\* (admin_handler.cpp:912).
OwnerRemains ==
  OneAtATime /\ ~departed =>
    /\ Registered # {} => ServerOwners # {}
    /\ Cardinality({k \in DOMAIN made : made[k].role = "owner"}) <= 1

\* An account that nobody is still making can be logged into, unless the key it
\* was made for was another's, until its name is given again; and an approved request has the account it asked
\* for, with a session for the one who polls (admin_handler.cpp:1442).
AccountsComplete ==
  /\ \A k \in DOMAIN made :
       LET a == made[k].account IN
         \/ a.name \notin Registered \/ made[k].conflict
         \/ \E l \in DOMAIN made : l > k /\ made[l].account.name = a.name
         \/ \E w \in Engaged : job[w].at = "credential" /\ OfJob(w) = a
         \/ \E key \in Keys : <<a.name, key>> \in credentials
  /\ \A j \in DOMAIN joins :
       joins[j].status = "approved" =>
         /\ joins[j].session
         /\ \E k \in DOMAIN made : made[k].account.join = j
=============================================================================
