------------------------------ MODULE Credentials ------------------------------
(***************************************************************************)
(* What people do with an account: logging in with a passkey, a browser    *)
(* key or a password, the second factor, recovery, linking a device,       *)
(* changing and removing credentials; and the bans and lockdowns that      *)
(* admins decide meanwhile (auth_handler.cpp, user_handler.cpp,            *)
(* admin_handler.cpp, auth/totp.cpp and the statements of database.cpp).   *)
(*                                                                         *)
(* Everything that is to be used once, be it a challenge, a recovery key,  *)
(* a recovery or device token or the token between the two factors, is a   *)
(* row of "tokens" that is live until it is deleted or marked as used.     *)
(***************************************************************************)
EXTENDS Requests, Sequences

CONSTANTS
  People, Admins,
  PersonalPasskeys, PersonalKeys,   \* what the authenticators and browsers hold
  MaxClock,                         \* bound on the 30-second steps of the clock
  HistoryCount,                     \* the setting password_history_count
  CredentialScenarios

AllKeys == PersonalPasskeys \cup PersonalKeys
Methods == {"passkey", "pki", "password"}
NoPassword == 0
NoSecret == [secret |-> 0, verified |-> FALSE, last |-> 0]
NoCode == <<0, 0>>
Nobody == "nobody"

\* What a token is for, and for whom; some challenges are for anybody.
OfNobody == {"passkey login", "pki login", "link key"}
OfSomebody == {"add passkey", "add key", "device token", "link passkey", "recovery key",
               "recovery token", "second factor"}
TokenRows ==
  [kind : OfNobody, of : {Nobody}, live : BOOLEAN, served : Nat]
    \cup [kind : OfSomebody, of : People, live : BOOLEAN, served : Nat]
Factors == [secret : Nat, verified : BOOLEAN, last : Nat]

\* The requests: who asks, about whom, and what they show.
CredentialRequests ==
  [op : {"login options", "pki challenge"}]
    \cup [op : {"login"}, method : {"passkey", "pki"}, key : AllKeys, challenge : Nat]
    \cup [op : {"login"}, method : {"password"}, user : People, password : Nat \ {NoPassword}]
    \cup [op : {"mfa setup", "recovery key", "recovery token login", "link passkey options",
                "link key challenge"}, token : Nat]
    \cup [op : {"mfa verify", "mfa setup verify"}, token : Nat, code : Nat]
    \cup [op : {"logout"}, session : Nat]
    \cup [op : {"add passkey options", "add key challenge", "device token", "totp setup",
                "regenerate", "delete password", "lock", "unlock"}, by : People]
    \cup [op : {"totp verify", "totp disable"}, by : People, code : Nat]
    \cup [op : {"link"}, token : Nat, challenge : Nat, key : AllKeys]
    \cup [op : {"add"}, by : People, challenge : Nat, key : AllKeys]
    \cup [op : {"remove"}, by : People, key : AllKeys]
    \cup [op : {"set password"}, by : People, password : Nat \ {NoPassword}]
    \cup [op : {"change password"}, by : People, current : Nat, password : Nat \ {NoPassword}]
    \cup [op : {"recovery token", "ban", "unban"}, by : People, of : People]

\* A scenario starts with accounts that can be logged in to, and with tokens
\* that have served nobody.
ASSUME CredentialAssumption ==
  /\ IsFiniteSet(AllKeys)
  /\ \A s \in CredentialScenarios :
       /\ s.held \subseteq People \X AllKeys
       /\ s.password \in [People -> Nat]
       /\ \A u \in People : s.password[u] # NoPassword \/ \E k \in AllKeys : <<u, k>> \in s.held
       /\ s.totp \in [People -> Factors]
       /\ \A u \in People : s.totp[u].secret <= 1 /\ (s.totp[u].verified => s.totp[u].secret = 1)
       /\ s.required \subseteq Methods
       /\ s.tokens \in Seq(TokenRows)
       /\ \A t \in DOMAIN s.tokens : s.tokens[t].served = 0
       /\ s.sessions \in Seq(People)
       /\ s.requests \subseteq CredentialRequests
       /\ s.budget \in Nat /\ s.atOnce \in Nat \ {0}

VARIABLES
  banned, locked,   \* users.is_banned, and the setting server_locked_down
  held,             \* the passkeys and browser keys of an account
  password,         \* password_credentials
  former,           \* password_history
  totp,             \* totp_credentials
  required,         \* the methods with the setting mfa_required_*
  tokens,           \* what can be used once
  sessions,
  clock,            \* the current step of every authenticator
  secrets,          \* how many TOTP secrets have been made
  bans              \* history: how often somebody has been banned

authTables == <<banned, locked, held, password, former, totp, required, tokens, sessions>>
credentialState == <<authTables, clock, secrets, bans>>
credentialVars == <<credentialState, serving>>

CredentialTables(s) ==
  /\ held = s.held
  /\ password = s.password
  /\ totp = s.totp
  /\ required = s.required
  /\ tokens = s.tokens
  /\ banned = {} /\ locked = FALSE
  /\ former = [u \in People |-> <<>>]
  /\ sessions = [i \in 1 .. Len(s.sessions) |->
                  [of |-> s.sessions[i], live |-> TRUE, bans |-> 0, code |-> NoCode]]
  /\ clock = 1 /\ secrets = 1
  /\ bans = [u \in People |-> 0]
InitCredentials == \E s \in CredentialScenarios : CredentialTables(s) /\ Listening(s)

\* validate_session: of a ban, too, the session is told by its user's row.
Valid(i) == sessions[i].live /\ sessions[i].of \notin banned
LoggedIn(u) == \E i \in DOMAIN sessions : sessions[i].of = u /\ Valid(i)
KeysOf(u) == {k \in AllKeys : <<u, k>> \in held}
PasskeysOf(u) == KeysOf(u) \cap PersonalPasskeys
Live(t, kinds) == tokens[t].live /\ tokens[t].kind \in kinds
LockedOut(u) == locked /\ u \notin Admins

\* A request names tokens and sessions that exist, and who acts is logged in.
NamesTokens(r) ==
  /\ "token" \in DOMAIN r => r.token \in DOMAIN tokens
  /\ "challenge" \in DOMAIN r => r.challenge \in DOMAIN tokens
  /\ "by" \in DOMAIN r => LoggedIn(r.by)

TakeUp(w) == Accept(w, {r \in calls.requests : NamesTokens(r)}) /\ UNCHANGED credentialState
Look(w, refused, place) == Unless(w, refused, place) /\ UNCHANGED credentialState
Remember(w, refused, place, saw) ==
  /\ IF refused THEN Respond(w) ELSE Recall(w, place, saw)
  /\ UNCHANGED credentialState

\* Half a minute passes; MaxClock bounds it.
Tick ==
  /\ clock < MaxClock
  /\ clock' = clock + 1
  /\ UNCHANGED <<authTables, secrets, bans, serving>>

-----------------------------------------------------------------------------
(* What can be used once *)

NewToken(kind, u) == [kind |-> kind, of |-> u, live |-> TRUE, served |-> 0]

\* A token or a challenge is drawn and stored.
Issue(w, permitted, kind, u) ==
  /\ tokens' = IF permitted THEN Append(tokens, NewToken(kind, u)) ELSE tokens
  /\ Respond(w)
  /\ UNCHANGED <<banned, locked, held, password, former, totp, required, sessions, clock, secrets, bans>>

LoginOptions(w) ==
  At(w, "login options", "check") /\ Issue(w, TRUE, "passkey login", Nobody)

PkiChallenge(w) ==
  At(w, "pki challenge", "check") /\ Issue(w, TRUE, "pki login", Nobody)

AddPasskeyOptions(w) ==
  At(w, "add passkey options", "check") /\ Issue(w, LoggedIn(job[w].by), "add passkey", job[w].by)

AddKeyChallenge(w) ==
  At(w, "add key challenge", "check") /\ Issue(w, LoggedIn(job[w].by), "add key", job[w].by)

DeviceToken(w) ==
  At(w, "device token", "check") /\ Issue(w, LoggedIn(job[w].by), "device token", job[w].by)

\* The challenges for a device that shows a device token.
LinkPasskeyOptions(w) ==
  /\ At(w, "link passkey options", "check")
  /\ Issue(w, Live(job[w].token, {"device token"}), "link passkey", tokens[job[w].token].of)

LinkKeyChallenge(w) ==
  /\ At(w, "link key challenge", "check")
  /\ Issue(w, Live(job[w].token, {"device token"}), "link key", Nobody)

\* POST /api/admin/recovery-tokens
RecoveryToken(w) ==
  /\ At(w, "recovery token", "check")
  /\ Issue(w, job[w].by \in Admins /\ LoggedIn(job[w].by), "recovery token", job[w].of)

\* What is used up is deleted or marked: nobody looks at the row again.
Spend(w, t, place) ==
  /\ tokens' = [tokens EXCEPT ![t].live = FALSE]
  /\ Proceed(w, place)
  /\ UNCHANGED <<banned, locked, held, password, former, totp, required, sessions, clock, secrets, bans>>

\* Mutant: the token between the two factors stays.
KeepPendingToken(w) ==
  /\ job[w].op \in {"mfa verify", "mfa setup verify"} /\ job[w].at = "spend"
  /\ Proceed(w, "admit")
  /\ UNCHANGED credentialState

\* delete_mfa_pending_token
DeletePendingToken(w) ==
  /\ job[w].op \in {"mfa verify", "mfa setup verify"} /\ job[w].at = "spend"
  /\ Spend(w, job[w].token, "admit")

\* The UPDATE of verify_and_consume_recovery_key.
ConsumeRecoveryKey(w) ==
  /\ At(w, "recovery key", "spend")
  /\ Spend(w, job[w].token, "admit")

\* use_recovery_token
UseRecoveryToken(w) ==
  /\ At(w, "recovery token login", "spend")
  /\ Spend(w, job[w].token, "session")

\* mark_device_token_used
MarkDeviceTokenUsed(w) ==
  /\ At(w, "link", "spend")
  /\ Spend(w, job[w].token, "store")

\* delete_webauthn_challenge
SpendChallenge(w) ==
  /\ job[w].at = "discard"
  /\ Spend(w, job[w].challenge,
           CASE job[w].op = "login" -> "admit" [] job[w].op = "link" -> "spend" [] OTHER -> "store")

\* History: the tokens of a request have served it.
Served(w) ==
  [t \in DOMAIN tokens |->
     IF t \in {job[w][f] : f \in {"token", "challenge"} \cap DOMAIN job[w]}
     THEN [tokens[t] EXCEPT !.served = @ + 1] ELSE tokens[t]]

-----------------------------------------------------------------------------
(* Logging in *)

HoldersOf(k) == {u \in People : <<u, k>> \in held}

CheckLoginVerify(w) ==
  /\ At(w, "login", "check") /\ job[w].method = "passkey"
  /\ Look(w, HoldersOf(job[w].key) = {} \/ ~Live(job[w].challenge, {"passkey login"}), "discard")

\* Whose the key is, is not asked before the challenge is spent.
CheckPkiLogin(w) ==
  /\ At(w, "login", "check") /\ job[w].method = "pki"
  /\ Look(w, ~Live(job[w].challenge, {"pki login"}), "discard")

\* handle_password_login: the user's row is read before the password.
CheckPasswordLogin(w) ==
  /\ At(w, "login", "check") /\ job[w].method = "password"
  /\ LET u == job[w].user IN
     Remember(w, password[u] # job[w].password \/ u \in banned, "admit", u)

\* check_and_handle_mfa
AfterFirstFactor(u, method) ==
  IF method \in required \/ totp[u].verified THEN "second factor" ELSE "session"

\* The user is looked for, now that the challenge is spent.
AdmitKeyLogin(w) ==
  /\ At(w, "login", "admit") /\ job[w].method # "password"
  /\ IF HoldersOf(job[w].key) = {} THEN Look(w, TRUE, "session")
     ELSE \E u \in HoldersOf(job[w].key) :
            Remember(w, u \in banned \/ LockedOut(u), AfterFirstFactor(u, job[w].method), u)

AdmitPasswordLogin(w) ==
  /\ At(w, "login", "admit") /\ job[w].method = "password"
  /\ Look(w, LockedOut(job[w].saw), AfterFirstFactor(job[w].saw, "password"))

\* create_mfa_pending_token: the user's earlier ones are deleted.
AwaitSecondFactor(w) ==
  /\ At(w, "login", "second factor")
  /\ LET u == job[w].saw
         earlier == {t \in DOMAIN tokens : tokens[t].kind = "second factor" /\ tokens[t].of = u}
         served == Served(w)
     IN tokens' = Append([t \in DOMAIN tokens |->
                            IF t \in earlier THEN [served[t] EXCEPT !.live = FALSE] ELSE served[t]],
                         NewToken("second factor", u))
  /\ Respond(w)
  /\ UNCHANGED <<banned, locked, held, password, former, totp, required, sessions, clock, secrets, bans>>

\* Whom a session is for.
User(w) == IF job[w].op = "login" THEN job[w].saw ELSE tokens[job[w].token].of
CodeOf(w) == IF job[w].op \in {"mfa verify", "mfa setup verify"}
             THEN <<job[w].saw, job[w].code>> ELSE NoCode

\* create_session: bans and lockdowns were asked about before.
CreateSession(w) ==
  /\ job[w].at = "session"
  /\ LET u == User(w) IN
     sessions' = Append(sessions, [of |-> u, live |-> TRUE, bans |-> bans[u], code |-> CodeOf(w)])
  /\ tokens' = IF job[w].op = "link" THEN tokens ELSE Served(w)
  /\ Respond(w)
  /\ UNCHANGED <<banned, locked, held, password, former, totp, required, clock, secrets, bans>>

\* delete_session
Logout(w) ==
  /\ At(w, "logout", "check")
  /\ LET i == job[w].session IN
     sessions' = IF i \in DOMAIN sessions THEN [sessions EXCEPT ![i].live = FALSE] ELSE sessions
  /\ Respond(w)
  /\ UNCHANGED <<banned, locked, held, password, former, totp, required, tokens, clock, secrets, bans>>

-----------------------------------------------------------------------------
(* The second factor *)

\* verify_code: a step beside the current one, after the last that was used.
Acceptable(u, code) ==
  /\ code \in {clock - 1, clock, clock + 1}
  /\ code > totp[u].last

\* handle_mfa_verify, and the user's own removal of the factor.
CheckMfaVerify(w) ==
  /\ At(w, "mfa verify", "check")
  /\ LET u == tokens[job[w].token].of IN
     Remember(w, ~(/\ Live(job[w].token, {"second factor"})
                   /\ totp[u].verified /\ Acceptable(u, job[w].code)),
              "stamp", totp[u].secret)

CheckMfaSetup(w) ==
  /\ At(w, "mfa setup", "check")
  /\ Look(w, ~Live(job[w].token, {"second factor"}), "new secret")

\* get_unverified_totp_secret returns a verified one as well.
CheckMfaSetupVerify(w) ==
  /\ At(w, "mfa setup verify", "check")
  /\ LET u == tokens[job[w].token].of IN
     Remember(w, ~(/\ Live(job[w].token, {"second factor"})
                   /\ totp[u].secret # 0 /\ Acceptable(u, job[w].code)),
              "prove", totp[u].secret)

CheckTotpSetup(w) == At(w, "totp setup", "check") /\ Look(w, ~LoggedIn(job[w].by), "new secret")

CheckTotpVerify(w) ==
  /\ At(w, "totp verify", "check")
  /\ LET u == job[w].by IN
     Look(w, ~(LoggedIn(u) /\ totp[u].secret # 0 /\ Acceptable(u, job[w].code)), "prove")

CheckTotpDisable(w) ==
  /\ At(w, "totp disable", "check")
  /\ LET u == job[w].by IN
     Look(w, ~(LoggedIn(u) /\ totp[u].verified /\ Acceptable(u, job[w].code)), "stamp")

Factor(w) == IF "by" \in DOMAIN job[w] THEN job[w].by ELSE tokens[job[w].token].of

\* store_totp_secret: the one before is gone, verified or not.
StoreSecret(w) ==
  /\ job[w].at = "new secret"
  /\ secrets' = secrets + 1
  /\ totp' = [totp EXCEPT ![Factor(w)] = [secret |-> secrets', verified |-> FALSE, last |-> 0]]
  /\ Respond(w)
  /\ UNCHANGED <<banned, locked, held, password, former, required, tokens, sessions, clock, bans>>

\* verify_totp: of whichever secret the user has by now.
ProveSecret(w) ==
  /\ job[w].at = "prove"
  /\ totp' = IF totp[Factor(w)].secret = 0 THEN totp
             ELSE [totp EXCEPT ![Factor(w)].verified = TRUE]
  /\ Proceed(w, "stamp")
  /\ UNCHANGED <<banned, locked, held, password, former, required, tokens, sessions, clock, secrets, bans>>

\* set_totp_last_step: an UPDATE to the step that was matched, be it behind.
StampCode(w) ==
  /\ job[w].at = "stamp"
  /\ totp' = IF totp[Factor(w)].secret = 0 THEN totp
             ELSE [totp EXCEPT ![Factor(w)].last = job[w].code]
  /\ CASE job[w].op = "totp verify" -> Respond(w)
       [] job[w].op = "totp disable" -> Proceed(w, "needed")
       [] OTHER -> Proceed(w, "spend")
  /\ UNCHANGED <<banned, locked, held, password, former, required, tokens, sessions, clock, secrets, bans>>

\* A ban and a lockdown are asked about after the token is spent.
AdmitUser(w) ==
  /\ job[w].op # "login" /\ job[w].at = "admit"
  /\ LET u == User(w) IN
     Look(w, u \in banned \/ LockedOut(u),
          IF job[w].op = "recovery token login" THEN "spend" ELSE "session")

\* The factor stays while a method that demands it can be used.
CheckFactorNeeded(w) ==
  /\ At(w, "totp disable", "needed")
  /\ LET u == job[w].by IN
     Look(w, \/ "password" \in required /\ password[u] # NoPassword
             \/ "pki" \in required /\ KeysOf(u) \cap PersonalKeys # {}
             \/ "passkey" \in required /\ PasskeysOf(u) # {}, "drop")

\* delete_totp
DeleteTotp(w) ==
  /\ At(w, "totp disable", "drop")
  /\ totp' = [totp EXCEPT ![job[w].by] = NoSecret]
  /\ Respond(w)
  /\ UNCHANGED <<banned, locked, held, password, former, required, tokens, sessions, clock, secrets, bans>>

-----------------------------------------------------------------------------
(* Recovery, devices and keys *)

\* The SELECT of verify_and_consume_recovery_key.
CheckRecoveryKey(w) ==
  /\ At(w, "recovery key", "check")
  /\ Look(w, ~Live(job[w].token, {"recovery key"}), "spend")

CheckRecoveryToken(w) ==
  /\ At(w, "recovery token login", "check")
  /\ Look(w, ~Live(job[w].token, {"recovery token"}), "admit")

\* Neither way to link asks about bans, lockdowns or a second factor.
CheckLinkPasskey(w) ==
  /\ At(w, "link", "check") /\ job[w].key \in PersonalPasskeys
  /\ Look(w, ~(/\ Live(job[w].challenge, {"link passkey"})
               /\ Live(job[w].token, {"device token"})
               /\ tokens[job[w].challenge].of = tokens[job[w].token].of), "discard")

CheckLinkKey(w) ==
  /\ At(w, "link", "check") /\ job[w].key \in PersonalKeys
  /\ Look(w, ~(Live(job[w].token, {"device token"}) /\ Live(job[w].challenge, {"link key"})), "discard")

OwnChallenge(w, kind) ==
  LoggedIn(job[w].by) /\ Live(job[w].challenge, {kind}) /\ tokens[job[w].challenge].of = job[w].by

CheckAddPasskey(w) ==
  /\ At(w, "add", "check") /\ job[w].key \in PersonalPasskeys
  /\ Look(w, ~OwnChallenge(w, "add passkey"), "discard")

CheckAddKey(w) ==
  /\ At(w, "add", "check") /\ job[w].key \in PersonalKeys
  /\ Look(w, ~OwnChallenge(w, "add key"), "discard")

\* A key has one owner: the row of a key that somebody holds is refused.
StoreKey(w, place) ==
  /\ IF HoldersOf(job[w].key) # {}
     THEN Respond(w) /\ UNCHANGED <<held, tokens>>
     ELSE /\ held' = held \cup {<<Factor(w), job[w].key>>}
          /\ tokens' = Served(w)
          /\ IF place = "answer" THEN Respond(w) ELSE Proceed(w, place)
  /\ UNCHANGED <<banned, locked, password, former, totp, required, sessions, clock, secrets, bans>>

\* store_webauthn_credential
StorePasskey(w) ==
  /\ job[w].at = "store" /\ job[w].key \in PersonalPasskeys
  /\ StoreKey(w, IF job[w].op = "link" THEN "session" ELSE "answer")

\* store_pki_credential
StorePkiKey(w) ==
  /\ job[w].at = "store" /\ job[w].key \in PersonalKeys
  /\ StoreKey(w, IF job[w].op = "link" THEN "session" ELSE "first key")

RecoveryKeysOf(u) == {t \in DOMAIN tokens : Live(t, {"recovery key"}) /\ tokens[t].of = u}

\* The first browser key comes with recovery keys, of which one stands for all.
FirstKey(w) ==
  /\ At(w, "add", "first key")
  /\ LET u == job[w].by IN
     tokens' = IF KeysOf(u) \cap PersonalKeys = {job[w].key} /\ RecoveryKeysOf(u) = {}
               THEN Append(tokens, NewToken("recovery key", u)) ELSE tokens
  /\ Respond(w)
  /\ UNCHANGED <<banned, locked, held, password, former, totp, required, sessions, clock, secrets, bans>>

\* POST /api/users/me/recovery-keys/regenerate: delete_recovery_keys, then
\* store_recovery_keys.
DropRecoveryKeys(w) ==
  /\ At(w, "regenerate", "check")
  /\ LoggedIn(job[w].by)
  /\ tokens' = [t \in DOMAIN tokens |->
                  IF t \in RecoveryKeysOf(job[w].by) THEN [tokens[t] EXCEPT !.live = FALSE]
                  ELSE tokens[t]]
  /\ Proceed(w, "store keys")
  /\ UNCHANGED <<banned, locked, held, password, former, totp, required, sessions, clock, secrets, bans>>

\* Who has been logged out meanwhile is refused.
RefuseRegenerate(w) ==
  /\ At(w, "regenerate", "check")
  /\ Look(w, TRUE, "store keys") /\ ~LoggedIn(job[w].by)

StoreRecoveryKeys(w) ==
  /\ At(w, "regenerate", "store keys")
  /\ tokens' = Append(tokens, NewToken("recovery key", job[w].by))
  /\ Respond(w)
  /\ UNCHANGED <<banned, locked, held, password, former, totp, required, sessions, clock, secrets, bans>>

\* count_user_credentials
CheckRemovePasskey(w) ==
  /\ At(w, "remove", "check") /\ job[w].key \in PersonalPasskeys
  /\ Look(w, ~LoggedIn(job[w].by) \/ Cardinality(KeysOf(job[w].by)) <= 1, "remove")

\* Mutant: a browser key may be removed whatever else there is.
CheckRemoveUncounted(w) ==
  /\ At(w, "remove", "check") /\ job[w].key \in PersonalKeys
  /\ Look(w, ~LoggedIn(job[w].by), "remove")

CheckRemoveKey(w) ==
  /\ At(w, "remove", "check") /\ job[w].key \in PersonalKeys
  /\ Look(w, ~LoggedIn(job[w].by) \/ Cardinality(KeysOf(job[w].by)) <= 1, "remove")

\* remove_webauthn_credential spares the last passkey: it counts them ...
CountPasskeys(w) ==
  /\ At(w, "remove", "remove") /\ job[w].key \in PersonalPasskeys
  /\ Look(w, Cardinality(PasskeysOf(job[w].by)) <= 1, "remove passkey")

\* ... and deletes the one it was told to, in one transaction that two requests
\* may nevertheless be in at once.
RemovePasskey(w) ==
  /\ At(w, "remove", "remove passkey")
  /\ held' = held \ {<<job[w].by, job[w].key>>}
  /\ Respond(w)
  /\ UNCHANGED <<banned, locked, password, former, totp, required, tokens, sessions, clock, secrets, bans>>

\* remove_pki_credential deletes what it is told to.
RemovePkiKey(w) ==
  /\ At(w, "remove", "remove") /\ job[w].key \in PersonalKeys
  /\ held' = held \ {<<job[w].by, job[w].key>>}
  /\ Respond(w)
  /\ UNCHANGED <<banned, locked, password, former, totp, required, tokens, sessions, clock, secrets, bans>>

-----------------------------------------------------------------------------
(* Passwords *)

Newest(s, n) == {s[i] : i \in {j \in DOMAIN s : j > Len(s) - n}}

CheckPasswordChange(w) ==
  /\ At(w, "change password", "check")
  /\ LET u == job[w].by IN
     Remember(w, \/ ~LoggedIn(u)
                 \/ password[u] = NoPassword \/ job[w].current # password[u]
                 \/ job[w].password \in Newest(former[u], HistoryCount) \cup {password[u]},
              "keep former", password[u])

\* add_password_history
KeepFormer(w) ==
  /\ At(w, "change password", "keep former")
  /\ former' = [former EXCEPT ![job[w].by] = Append(@, job[w].saw)]
  /\ Proceed(w, "store password")
  /\ UNCHANGED <<banned, locked, held, password, totp, required, tokens, sessions, clock, secrets, bans>>

CheckPasswordSet(w) ==
  /\ At(w, "set password", "check")
  /\ Look(w, ~LoggedIn(job[w].by) \/ password[job[w].by] # NoPassword, "store password")

\* store_password
StorePassword(w) ==
  /\ job[w].at = "store password"
  /\ password' = [password EXCEPT ![job[w].by] = job[w].password]
  /\ Respond(w)
  /\ UNCHANGED <<banned, locked, held, former, totp, required, tokens, sessions, clock, secrets, bans>>

\* A password is not the last thing to log in with.
CheckPasswordDelete(w) ==
  /\ At(w, "delete password", "check")
  /\ LET u == job[w].by IN
     Look(w, ~LoggedIn(u) \/ password[u] = NoPassword \/ KeysOf(u) = {}, "drop password")

\* delete_password, and its history.
DropPassword(w) ==
  /\ At(w, "delete password", "drop password")
  /\ password' = [password EXCEPT ![job[w].by] = NoPassword]
  /\ former' = [former EXCEPT ![job[w].by] = <<>>]
  /\ Respond(w)
  /\ UNCHANGED <<banned, locked, held, totp, required, tokens, sessions, clock, secrets, bans>>

-----------------------------------------------------------------------------
(* Bans and lockdowns *)

Administers(w) == job[w].by \in Admins /\ LoggedIn(job[w].by)

CheckBan(w) ==
  /\ At(w, "ban", "check")
  /\ Look(w, ~Administers(w) \/ job[w].of \in banned \cup Admins, "ban")

\* Mutant: the sessions are left to validate_session.
BanRowOnly(w) ==
  /\ At(w, "ban", "ban")
  /\ banned' = banned \cup {job[w].of}
  /\ bans' = [bans EXCEPT ![job[w].of] = @ + 1]
  /\ Respond(w)
  /\ UNCHANGED <<locked, held, password, former, totp, required, tokens, sessions, clock, secrets>>

\* ban_user: the row and the sessions in one transaction.
Ban(w) ==
  /\ At(w, "ban", "ban")
  /\ banned' = banned \cup {job[w].of}
  /\ bans' = [bans EXCEPT ![job[w].of] = @ + 1]
  /\ sessions' = [i \in DOMAIN sessions |->
                    IF sessions[i].of = job[w].of THEN [sessions[i] EXCEPT !.live = FALSE]
                    ELSE sessions[i]]
  /\ Respond(w)
  /\ UNCHANGED <<locked, held, password, former, totp, required, tokens, clock, secrets>>

CheckUnban(w) ==
  /\ At(w, "unban", "check")
  /\ Look(w, ~Administers(w) \/ job[w].of \notin banned, "unban")

\* unban_user
Unban(w) ==
  /\ At(w, "unban", "unban")
  /\ banned' = banned \ {job[w].of}
  /\ Respond(w)
  /\ UNCHANGED <<locked, held, password, former, totp, required, tokens, sessions, clock, secrets, bans>>

\* set_server_locked_down; of the admins only an owner may.
Lockdown(w) ==
  /\ At(w, "lock", "check")
  /\ locked' = (locked \/ Administers(w))
  /\ Respond(w)
  /\ UNCHANGED <<banned, held, password, former, totp, required, tokens, sessions, clock, secrets, bans>>

Unlock(w) ==
  /\ At(w, "unlock", "check")
  /\ locked' = (locked /\ ~Administers(w))
  /\ Respond(w)
  /\ UNCHANGED <<banned, held, password, former, totp, required, tokens, sessions, clock, secrets, bans>>

-----------------------------------------------------------------------------

NextCredentials ==
  \/ Tick
  \/ \E w \in Threads :
       \/ TakeUp(w)
       \/ LoginOptions(w) \/ PkiChallenge(w) \/ AddPasskeyOptions(w) \/ AddKeyChallenge(w)
       \/ DeviceToken(w) \/ LinkPasskeyOptions(w) \/ LinkKeyChallenge(w) \/ RecoveryToken(w)
       \/ DeletePendingToken(w) \/ ConsumeRecoveryKey(w) \/ UseRecoveryToken(w)
       \/ MarkDeviceTokenUsed(w) \/ SpendChallenge(w)
       \/ CheckLoginVerify(w) \/ CheckPkiLogin(w) \/ CheckPasswordLogin(w)
       \/ AdmitKeyLogin(w) \/ AdmitPasswordLogin(w) \/ AwaitSecondFactor(w)
       \/ CreateSession(w) \/ Logout(w)
       \/ CheckMfaVerify(w) \/ CheckMfaSetup(w) \/ CheckMfaSetupVerify(w)
       \/ CheckTotpSetup(w) \/ CheckTotpVerify(w) \/ CheckTotpDisable(w)
       \/ StoreSecret(w) \/ ProveSecret(w) \/ StampCode(w) \/ AdmitUser(w)
       \/ CheckFactorNeeded(w) \/ DeleteTotp(w)
       \/ CheckRecoveryKey(w) \/ CheckRecoveryToken(w)
       \/ CheckLinkPasskey(w) \/ CheckLinkKey(w) \/ CheckAddPasskey(w) \/ CheckAddKey(w)
       \/ StorePasskey(w) \/ StorePkiKey(w) \/ FirstKey(w)
       \/ DropRecoveryKeys(w) \/ RefuseRegenerate(w) \/ StoreRecoveryKeys(w)
       \/ CheckRemovePasskey(w) \/ CountPasskeys(w) \/ RemovePasskey(w)
       \/ CheckRemoveKey(w) \/ RemovePkiKey(w)
       \/ CheckPasswordChange(w) \/ KeepFormer(w) \/ CheckPasswordSet(w) \/ StorePassword(w)
       \/ CheckPasswordDelete(w) \/ DropPassword(w)
       \/ CheckBan(w) \/ Ban(w) \/ CheckUnban(w) \/ Unban(w) \/ Lockdown(w) \/ Unlock(w)

CredentialSpec == InitCredentials /\ [][NextCredentials]_credentialVars

-----------------------------------------------------------------------------
(* Properties *)

CredentialTypes ==
  /\ banned \subseteq People /\ locked \in BOOLEAN
  /\ held \subseteq People \X AllKeys
  /\ password \in [People -> Nat]
  /\ former \in [People -> Seq(Nat)]
  /\ totp \in [People -> Factors]
  /\ required \subseteq Methods
  /\ tokens \in Seq(TokenRows)
  /\ sessions \in Seq([of : People, live : BOOLEAN, bans : Nat, code : Nat \X Nat])
  /\ bans \in [People -> Nat] /\ clock \in Nat /\ secrets \in Nat

\* A challenge, a recovery key or token, a device token and the token between
\* the two factors each serve no more requests than overlap, one if they do not:
\* looking at it and spending it are separate transactions, but it is always
\* spent before a session or a credential comes of it.  Of requests that do not
\* overlap, no two are let in with one code of an authenticator (totp.cpp:106,
\* "Replay prevention").
ServedOnce ==
  /\ \A t \in DOMAIN tokens : tokens[t].served <= calls.atOnce
  /\ OneAtATime =>
       \A i, j \in DOMAIN sessions :
         i # j /\ sessions[i].of = sessions[j].of /\ sessions[i].code # NoCode
           => sessions[i].code # sessions[j].code

\* Whoever could log in can still do so: of requests that do not overlap, no
\* sequence removes the last key of somebody without a password, or the password
\* of somebody without a key (user_handler.cpp:720, auth_handler.cpp:2235).
KeepsALogin ==
  OneAtATime => \A u \in People : KeysOf(u) # {} \/ password[u] # NoPassword

\* A ban ends every session the user has, for good: after an unban only a login
\* that the ban overtook, or a later one, has a valid session.
BanEndsSessions ==
  \A i \in DOMAIN sessions : sessions[i].live => sessions[i].bans = bans[sessions[i].of]
=============================================================================
