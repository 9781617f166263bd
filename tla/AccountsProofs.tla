---------------------------- MODULE AccountsProofs ----------------------------
(***************************************************************************)
(* Proofs about accounts, in two parts.  Registration, for every set of    *)
(* names, keys and workers and every scenario: its types, how far the      *)
(* limit of an invite is overrun, that the server keeps an owner, and that *)
(* no account is left half made.  Credentials, for every set of people and *)
(* keys and every scenario: its types, that a ban ends the sessions, that  *)
(* what is used once is used once, and that nobody loses the last way to   *)
(* log in.                                                                 *)
(***************************************************************************)
EXTENDS Registration, Credentials, RequestsProofs

-------------------------------------------------------------------------------
(*****************************************************************************)
(* Registration                                                              *)
(*****************************************************************************)

Makers == {"verify", "pki register", "password register", "approve"}
Rulers == {"approve", "deny", "create invite", "revoke", "mode", "role", "delete account"}
Starters == {"options", "pki challenge", "access options", "access"}

\* The fields of a request, and of the job that serves it.
FieldsMatch(r) ==
  /\ "op" \in DOMAIN r /\ r.op \in Makers \cup Rulers \cup Starters
  /\ "challenge" \in DOMAIN r <=> r.op \in {"verify", "pki register", "access"}
  /\ "challenge" \in DOMAIN r => r.challenge \in Nat
  /\ "invite" \in DOMAIN r <=> r.op \in {"options", "password register", "pki register", "revoke"}
  /\ "invite" \in DOMAIN r => r.invite \in Nat
  /\ "join" \in DOMAIN r <=> r.op \in {"approve", "deny"}
  /\ "join" \in DOMAIN r => r.join \in Nat
  /\ r.op \in {"options", "password register", "pki register", "access"} =>
       "name" \in DOMAIN r /\ r.name \in Names
  /\ r.op \in {"verify", "pki register", "access"} => "key" \in DOMAIN r /\ r.key \in Keys
  /\ r.op \in Rulers => "by" \in DOMAIN r /\ r.by \in Names
  /\ r.op = "create invite" => "max" \in DOMAIN r /\ r.max \in Nat
  /\ r.op = "mode" => "mode" \in DOMAIN r /\ r.mode \in Modes
  /\ r.op = "role" => /\ "of" \in DOMAIN r /\ r.of \in Names
                      /\ "role" \in DOMAIN r /\ r.role \in Ranks

-----------------------------------------------------------------------------
(* The invariant *)

\* The places of each handler after its check.
Places(op) ==
  CASE op = "verify" -> {"discard", "count", "create", "credential", "spend"}
    [] op = "pki register" -> {"discard", "admit", "count", "create", "credential", "spend"}
    [] op = "password register" -> {"count", "create", "credential", "spend"}
    [] op = "access" -> {"discard", "ask"}
    [] op = "approve" -> {"create", "credential", "session", "close"}
    [] op = "role" -> {"count owners", "set role"}
    [] op = "delete account" -> {"delete"}
    [] OTHER -> {}

HasAccount(join) == \E k \in DOMAIN made : made[k].account.join = join

\* What is true of a worker that serves j.
FitsAccount(j) ==
  j # Free =>
    /\ "challenge" \in DOMAIN j => j.challenge \in DOMAIN challenges
    /\ "invite" \in DOMAIN j => j.invite \in 0 .. Len(inviteCodes)
    /\ "join" \in DOMAIN j => j.join \in DOMAIN joins
    /\ j.at # "check" =>
         /\ j.at \in Places(j.op)
         /\ j.op = "verify" => /\ challenges[j.challenge].type = "registration"
                               /\ j.at # "discard" => ~challenges[j.challenge].live
         /\ j.at = "create" /\ j.op # "approve" => j.saw \in {"owner", "user"}
         /\ j.op = "approve" /\ j.at \in {"credential", "session", "close"} => HasAccount(j.join)
         /\ j.op = "approve" /\ j.at = "close" => joins[j.join].session

Typed ==
  /\ Pool /\ calls.requests \subseteq RegistrationRequests
  /\ RegistrationTypes
  /\ \A w \in Threads : FitsAccount(job[w])

\* The challenges for an invite that have been redeemed, and the workers that
\* are going to use it, whatever its limit says by then.
Redeemed(i) ==
  {c \in DOMAIN challenges :
     challenges[c].type = "registration" /\ challenges[c].invite = i /\ ~challenges[c].live}
Spends(w, i) ==
  /\ job[w].op \in Makers \ {"approve"}
  /\ \/ job[w].at \in {"count", "create", "credential", "spend"}
     \/ job[w].op = "verify" /\ job[w].at = "discard" /\ ~challenges[job[w].challenge].live
  /\ OfJob(w).invite = i
Spenders(i) == {w \in Threads : Spends(w, i)}
InvitesCounted ==
  ~opened =>
    /\ mode # "open"
    /\ Registered = {} => inviteCodes = <<>>
    /\ \A i \in DOMAIN inviteCodes :
         inviteCodes[i].max # 0 =>
           inviteCodes[i].uses + Cardinality(Spenders(i))
             <= inviteCodes[i].max + (calls.atOnce - 1) + calls.atOnce * Cardinality(Redeemed(i))

\* Of requests in turn only the first account is made an owner's, and nobody is
\* about to lower the last owner.
OwnersMade == {k \in DOMAIN made : made[k].role = "owner"}
SuitsOwners(j) ==
  /\ j.at = "create" => IF j.op = "approve" THEN Registered # {}
                        ELSE (j.saw = "owner" <=> Registered = {})
  /\ j.at = "set role" /\ j.of \in ServerOwners /\ j.role # "owner" =>
       \E n \in ServerOwners : n # j.of
OwnerKept ==
  OneAtATime /\ ~departed =>
    /\ Registered # {} => ServerOwners # {}
    /\ Registered = {} => OwnersMade = {}
    /\ \A k, l \in OwnersMade : k = l
    /\ \A w \in Threads : SuitsOwners(job[w])

\* The k-th account: gone, or without a key of its own, or given its name to
\* another, or still being made, or complete.
Made(k) ==
  LET a == made[k].account IN
    \/ a.name \notin Registered \/ made[k].conflict
    \/ \E l \in DOMAIN made : l > k /\ made[l].account.name = a.name
    \/ \E w \in Threads : job[w].at = "credential" /\ OfJob(w) = a
    \/ \E key \in Keys : <<a.name, key>> \in credentials
Complete ==
  /\ \A k \in DOMAIN made : Made(k)
  /\ \A j \in DOMAIN joins : joins[j].status = "approved" => joins[j].session /\ HasAccount(j)

RegistrationInv == Typed /\ InvitesCounted /\ OwnerKept /\ Complete

-----------------------------------------------------------------------------
(* A step of one worker *)

LEMMA MakerRequest ==
  ASSUME NEW r \in RegistrationRequests
  PROVE  FieldsMatch(r) /\ r = [f \in DOMAIN r |-> r[f]] /\ {"at", "saw"} \cap DOMAIN r = {}
<1>1. FieldsMatch(r)
  BY DEF RegistrationRequests, FieldsMatch, Makers, Rulers, Starters, Keys
<1>2. r = [f \in DOMAIN r |-> r[f]] /\ {"at", "saw"} \cap DOMAIN r = {}
  BY DEF RegistrationRequests
<1> QED BY <1>1, <1>2

LEMMA MakerFields ==
  ASSUME Typed, NEW w \in Threads, job[w] # Free
  PROVE  FieldsMatch(job[w]) /\ IsJob(job[w])
<1> DEFINE r == Asked(job[w])
<1>1. r \in RegistrationRequests /\ IsJob(job[w])
  BY DEF Typed, Pool, Engaged
<1>2. FieldsMatch(r)
  BY <1>1, MakerRequest
<1>3. /\ \A f \in DOMAIN r : job[w][f] = r[f] /\ f \in DOMAIN job[w]
      /\ \A f \in DOMAIN job[w] \ {"at", "saw"} : f \in DOMAIN r
  BY DEF Asked
<1>4. /\ "challenge" \in DOMAIN r <=> "challenge" \in DOMAIN job[w]
      /\ "invite" \in DOMAIN r <=> "invite" \in DOMAIN job[w]
      /\ "join" \in DOMAIN r <=> "join" \in DOMAIN job[w]
      /\ "op" \in DOMAIN job[w] /\ job[w].op = r.op
  BY <1>2, <1>3 DEF FieldsMatch
<1>5. /\ "challenge" \in DOMAIN r => job[w].challenge = r.challenge
      /\ "invite" \in DOMAIN r => job[w].invite = r.invite
      /\ "join" \in DOMAIN r => job[w].join = r.join
      /\ "name" \in DOMAIN r => job[w].name = r.name /\ "name" \in DOMAIN job[w]
      /\ "key" \in DOMAIN r => job[w].key = r.key /\ "key" \in DOMAIN job[w]
      /\ "by" \in DOMAIN r => job[w].by = r.by /\ "by" \in DOMAIN job[w]
      /\ "max" \in DOMAIN r => job[w].max = r.max /\ "max" \in DOMAIN job[w]
      /\ "mode" \in DOMAIN r => job[w].mode = r.mode /\ "mode" \in DOMAIN job[w]
      /\ "of" \in DOMAIN r => job[w].of = r.of /\ "of" \in DOMAIN job[w]
      /\ "role" \in DOMAIN r => job[w].role = r.role /\ "role" \in DOMAIN job[w]
  BY <1>3
<1> HIDE DEF r
<1> QED BY <1>1, <1>2, <1>4, <1>5 DEF FieldsMatch

\* The tables are sequences that only grow, and what they say of whom stays.
AccountsGrow ==
  /\ Len(inviteCodes) <= Len(inviteCodes')
  /\ \A c \in DOMAIN challenges :
       /\ c \in DOMAIN challenges'
       /\ challenges'[c].type = challenges[c].type
       /\ challenges'[c].name = challenges[c].name
       /\ challenges'[c].invite = challenges[c].invite
       /\ challenges'[c].live => challenges[c].live
  /\ \A j \in DOMAIN joins :
       /\ j \in DOMAIN joins'
       /\ joins'[j].name = joins[j].name /\ joins'[j].key = joins[j].key
       /\ joins[j].session => joins'[j].session
  /\ \A k \in DOMAIN made : k \in DOMAIN made' /\ made'[k].account = made[k].account

LEMMA Lengths ==
  ASSUME RegistrationTypes
  PROVE  /\ DOMAIN inviteCodes = 1 .. Len(inviteCodes) /\ Len(inviteCodes) \in Nat
         /\ DOMAIN challenges = 1 .. Len(challenges) /\ Len(challenges) \in Nat
         /\ DOMAIN joins = 1 .. Len(joins) /\ Len(joins) \in Nat
         /\ DOMAIN made = 1 .. Len(made) /\ Len(made) \in Nat
  BY DEF RegistrationTypes

LEMMA Rows ==
  ASSUME RegistrationTypes
  PROVE  /\ \A i \in DOMAIN inviteCodes : inviteCodes[i] \in InviteRows
         /\ \A c \in DOMAIN challenges : challenges[c] \in ChallengeRows
         /\ \A j \in DOMAIN joins : joins[j] \in JoinRows
         /\ \A k \in DOMAIN made :
              made[k] \in [account : AccountRows, role : Ranks, conflict : BOOLEAN]
<1> DEFINE Accounts == [account : AccountRows, role : Ranks, conflict : BOOLEAN]
<1>1. /\ inviteCodes \in Seq(InviteRows) /\ challenges \in Seq(ChallengeRows)
      /\ joins \in Seq(JoinRows) /\ made \in Seq(Accounts)
  BY DEF RegistrationTypes
<1> HIDE DEF Accounts
<1>2. \A i \in DOMAIN inviteCodes : inviteCodes[i] \in InviteRows
  BY <1>1, Elements
<1>3. \A c \in DOMAIN challenges : challenges[c] \in ChallengeRows
  BY <1>1, Elements
<1>4. \A j \in DOMAIN joins : joins[j] \in JoinRows
  BY <1>1, Elements
<1>5. \A k \in DOMAIN made : made[k] \in Accounts
  BY <1>1, Elements
<1> QED BY <1>2, <1>3, <1>4, <1>5 DEF Accounts

LEMMA ServingMaker ==
  ASSUME Typed, NEW w \in Threads, job[w].at # "none"
  PROVE  /\ job[w] # Free /\ FieldsMatch(job[w]) /\ IsJob(job[w]) /\ FitsAccount(job[w])
<1>1. job[w] # Free
  BY DEF Free
<1> QED BY <1>1, MakerFields DEF Typed

\* How the job of w goes on: it keeps the request.
Same(w) ==
  /\ DOMAIN job'[w] = DOMAIN job[w]
  /\ \A f \in DOMAIN job[w] \ {"at", "saw"} : job'[w][f] = job[w][f]
GoesTo(w, place, saw) == job'[w].at = place /\ job'[w].saw = saw /\ Same(w)

LEMMA GoingOn ==
  ASSUME Typed, NEW w \in Threads, job[w].at # "none", NEW place, place # "none"
  PROVE  /\ Proceed(w, place) => Moves(w) /\ GoesTo(w, place, job[w].saw)
         /\ \A saw : Recall(w, place, saw) => Moves(w) /\ GoesTo(w, place, saw)
         /\ Respond(w) => Moves(w) /\ job'[w] = Free
<1>1. job[w] # Free /\ IsJob(job[w]) /\ Pool
  BY ServingMaker DEF Typed
<1>2. ASSUME Proceed(w, place) PROVE Moves(w) /\ GoesTo(w, place, job[w].saw)
  <2>1. /\ Moves(w) /\ job'[w].at = place /\ DOMAIN job'[w] = DOMAIN job[w]
        /\ \A f \in DOMAIN job[w] \ {"at"} : job'[w][f] = job[w][f]
    BY <1>1, <1>2, Proceeding
  <2> QED BY <1>1, <2>1 DEF GoesTo, Same, IsJob
<1>3. ASSUME NEW saw, Recall(w, place, saw) PROVE Moves(w) /\ GoesTo(w, place, saw)
  BY <1>1, <1>3, Recalling DEF GoesTo, Same
<1>4. ASSUME Respond(w) PROVE Moves(w) /\ job'[w] = Free
  BY <1>1, <1>4, Responding
<1> QED BY <1>2, <1>3, <1>4

\* The fields that a job keeps.
LEMMA SameFields ==
  ASSUME NEW w, FieldsMatch(job[w]), Same(w)
  PROVE  /\ job'[w].op = job[w].op /\ DOMAIN job'[w] = DOMAIN job[w]
         /\ "challenge" \in DOMAIN job[w] => job'[w].challenge = job[w].challenge
         /\ "invite" \in DOMAIN job[w] => job'[w].invite = job[w].invite
         /\ "join" \in DOMAIN job[w] => job'[w].join = job[w].join
         /\ "name" \in DOMAIN job[w] => job'[w].name = job[w].name
         /\ "key" \in DOMAIN job[w] => job'[w].key = job[w].key
         /\ "of" \in DOMAIN job[w] => job'[w].of = job[w].of
         /\ "role" \in DOMAIN job[w] => job'[w].role = job[w].role
<1>1. "op" \in DOMAIN job[w]
  BY DEF FieldsMatch
<1> QED BY <1>1 DEF Same

LEMMA StillThere ==
  ASSUME RegistrationTypes, RegistrationTypes', AccountsGrow
  PROVE  /\ 0 .. Len(inviteCodes) \subseteq 0 .. Len(inviteCodes')
         /\ \A join : HasAccount(join) => HasAccount(join)'
<1>1. Len(inviteCodes) \in Nat /\ Len(inviteCodes') \in Nat
  BY Lengths DEF RegistrationTypes
<1>2. 0 .. Len(inviteCodes) \subseteq 0 .. Len(inviteCodes')
  BY <1>1 DEF AccountsGrow
<1>3. \A join : HasAccount(join) => HasAccount(join)'
  BY DEF HasAccount, AccountsGrow
<1> QED BY <1>2, <1>3

LEMMA StillFitsAccount ==
  ASSUME Typed, RegistrationTypes', AccountsGrow, NEW v \in Threads, job'[v] = job[v]
  PROVE  FitsAccount(job[v])'
<1>1. CASE job[v] = Free
  BY <1>1 DEF FitsAccount
<1>2. CASE job[v] # Free
  <2>1. FieldsMatch(job[v]) /\ FitsAccount(job[v])
    BY <1>2, MakerFields DEF Typed
  <2>2. /\ 0 .. Len(inviteCodes) \subseteq 0 .. Len(inviteCodes')
        /\ \A join : HasAccount(join) => HasAccount(join)'
    BY StillThere DEF Typed
  <2> QED BY <1>2, <2>1, <2>2 DEF FitsAccount, FieldsMatch, AccountsGrow
<1> QED BY <1>1, <1>2

\* A job that goes on fits where it goes.
LEMMA GoneFits ==
  ASSUME Typed, RegistrationTypes', AccountsGrow, NEW w \in Threads, job[w].at # "none",
         NEW place, NEW saw, GoesTo(w, place, saw), place \in Places(job[w].op),
         job[w].op = "verify" =>
           /\ challenges[job[w].challenge].type = "registration"
           /\ place # "discard" => ~challenges'[job[w].challenge].live,
         place = "create" /\ job[w].op # "approve" => saw \in {"owner", "user"},
         job[w].op = "approve" /\ place # "create" => HasAccount(job[w].join)',
         job[w].op = "approve" /\ place = "close" => joins'[job[w].join].session
  PROVE  FitsAccount(job[w])'
<1>1. FieldsMatch(job[w]) /\ FitsAccount(job[w]) /\ job[w] # Free
  BY ServingMaker
<1>2. /\ job'[w].op = job[w].op /\ DOMAIN job'[w] = DOMAIN job[w]
      /\ job'[w].at = place /\ job'[w].saw = saw
      /\ "challenge" \in DOMAIN job[w] => job'[w].challenge = job[w].challenge
      /\ "invite" \in DOMAIN job[w] => job'[w].invite = job[w].invite
      /\ "join" \in DOMAIN job[w] => job'[w].join = job[w].join
  BY <1>1, SameFields DEF GoesTo
<1>3. 0 .. Len(inviteCodes) \subseteq 0 .. Len(inviteCodes')
  BY StillThere DEF Typed
<1>4. HasAccount(job[w].join)' <=> \E k \in DOMAIN made' : made'[k].account.join = job'[w].join
  BY DEF HasAccount
<1> QED BY <1>1, <1>2, <1>3 DEF FitsAccount, FieldsMatch, AccountsGrow, HasAccount

-----------------------------------------------------------------------------
(* Types *)

\* Where the tables stay, or grow, and the job of w fits, everything is typed.
LEMMA TypesKept ==
  ASSUME Typed, NEW w \in Threads, Moves(w), RegistrationTypes', AccountsGrow, FitsAccount(job[w])'
  PROVE  Typed'
<1>1. /\ Pool' /\ \A v \in Threads \ {w} : job'[v] = job[v]
  BY MoveKeepsPool DEF Typed
<1>2. calls'.requests = calls.requests
  BY DEF Moves
<1>3. \A v \in Threads : FitsAccount(job[v])'
  BY <1>1, StillFitsAccount
<1> QED BY <1>1, <1>2, <1>3 DEF Typed

LEMMA TablesStay ==
  ASSUME RegistrationTypes, UNCHANGED registration
  PROVE  RegistrationTypes' /\ AccountsGrow
<1>1. RegistrationTypes'
  BY DEF registration, registrationTables, RegistrationTypes, Registered, InviteRows, ChallengeRows,
         JoinRows, AccountRows
<1>2. AccountsGrow
  BY Lengths DEF registration, registrationTables, AccountsGrow
<1> QED BY <1>1, <1>2

\* The answer is given, or the handler goes on, and the tables are types again.
LEMMA AnswerFits ==
  ASSUME Typed, NEW w \in Threads, job'[w] = Free
  PROVE  FitsAccount(job[w])'
  BY DEF FitsAccount

LEMMA Answered ==
  ASSUME Typed, NEW w \in Threads, job[w].at # "none", Respond(w), RegistrationTypes', AccountsGrow
  PROVE  Typed' /\ Moves(w) /\ job'[w] = Free
<1>1. Moves(w) /\ job'[w] = Free
  BY GoingOn
<1>2. FitsAccount(job[w])'
  BY <1>1 DEF FitsAccount
<1> QED BY <1>1, <1>2, TypesKept

-----------------------------------------------------------------------------
(* The account a worker makes *)

LEMMA OfJobTyped ==
  ASSUME Typed, NEW w \in Threads, job[w].op \in Makers, job[w].at # "none", job[w].at # "check"
  PROVE  OfJob(w) \in AccountRows
<1>1. /\ job[w] # Free /\ FieldsMatch(job[w]) /\ FitsAccount(job[w])
  BY ServingMaker
<1>2. /\ Len(inviteCodes) \in Nat /\ Len(joins) \in Nat
      /\ DOMAIN challenges = 1 .. Len(challenges) /\ Len(challenges) \in Nat
      /\ DOMAIN joins = 1 .. Len(joins)
  BY Lengths DEF Typed
<1>3. CASE job[w].op = "verify"
  <2> DEFINE c == job[w].challenge
  <2>1. c \in DOMAIN challenges /\ challenges[c].type = "registration"
    BY <1>1, <1>3 DEF FitsAccount, FieldsMatch
  <2>2. challenges[c] \in ChallengeRows
    BY <2>1, Rows DEF Typed
  <2>3. challenges[c].name \in Names /\ challenges[c].invite \in 0 .. Len(inviteCodes)
    BY <2>1, <2>2 DEF ChallengeRows
  <2>4. OfJob(w) = [name |-> challenges[c].name, key |-> job[w].key,
                    invite |-> challenges[c].invite, join |-> 0]
    BY <1>3 DEF OfJob
  <2>5. job[w].key \in Keys
    BY <1>1, <1>3 DEF FieldsMatch
  <2> HIDE DEF c
  <2> QED BY <1>2, <2>3, <2>4, <2>5 DEF AccountRows
<1>4. CASE job[w].op = "approve"
  <2> DEFINE j == job[w].join
  <2>1. j \in DOMAIN joins
    BY <1>1, <1>4 DEF FitsAccount, FieldsMatch
  <2>2. joins[j] \in JoinRows
    BY <2>1, Rows DEF Typed
  <2>3. joins[j].name \in Names /\ joins[j].key \in Keys
    BY <2>2 DEF JoinRows
  <2>4. OfJob(w) = [name |-> joins[j].name, key |-> joins[j].key, invite |-> 0, join |-> j]
    BY <1>4 DEF OfJob
  <2> HIDE DEF j
  <2> QED BY <1>2, <2>1, <2>3, <2>4 DEF AccountRows
<1>5. CASE job[w].op = "password register"
  <2>1. OfJob(w) = [name |-> job[w].name, key |-> Password, invite |-> job[w].invite, join |-> 0]
    BY <1>5 DEF OfJob
  <2>2. job[w].name \in Names /\ job[w].invite \in 0 .. Len(inviteCodes) /\ Password \in Keys
    BY <1>1, <1>5 DEF FitsAccount, FieldsMatch, Keys
  <2> QED BY <1>2, <2>1, <2>2 DEF AccountRows
<1>6. CASE job[w].op = "pki register"
  <2>1. OfJob(w) = [name |-> job[w].name, key |-> job[w].key, invite |-> job[w].invite, join |-> 0]
    BY <1>6 DEF OfJob
  <2>2. job[w].name \in Names /\ job[w].invite \in 0 .. Len(inviteCodes) /\ job[w].key \in Keys
    BY <1>1, <1>6 DEF FitsAccount, FieldsMatch
  <2> QED BY <1>2, <2>1, <2>2 DEF AccountRows
<1> QED BY <1>3, <1>4, <1>5, <1>6 DEF Makers

LEMMA OfJobKept ==
  ASSUME Typed, AccountsGrow, NEW v \in Threads, job[v].op \in Makers, job[v].at # "none",
         job'[v] = job[v] \/ Same(v)
  PROVE  OfJob(v)' = OfJob(v)
<1>1. /\ job[v] # Free /\ FieldsMatch(job[v]) /\ FitsAccount(job[v])
  BY ServingMaker
<1>2. /\ job'[v].op = job[v].op
      /\ "challenge" \in DOMAIN job[v] => job'[v].challenge = job[v].challenge
      /\ "invite" \in DOMAIN job[v] => job'[v].invite = job[v].invite
      /\ "join" \in DOMAIN job[v] => job'[v].join = job[v].join
      /\ "name" \in DOMAIN job[v] => job'[v].name = job[v].name
      /\ "key" \in DOMAIN job[v] => job'[v].key = job[v].key
  BY <1>1, SameFields
<1>3. CASE job[v].op = "verify"
  <2>1. job[v].challenge \in DOMAIN challenges /\ "challenge" \in DOMAIN job[v] /\ "key" \in DOMAIN job[v]
    BY <1>1, <1>3 DEF FitsAccount, FieldsMatch
  <2> QED BY <1>2, <1>3, <2>1 DEF OfJob, AccountsGrow
<1>4. CASE job[v].op = "approve"
  <2>1. job[v].join \in DOMAIN joins /\ "join" \in DOMAIN job[v]
    BY <1>1, <1>4 DEF FitsAccount, FieldsMatch
  <2> QED BY <1>2, <1>4, <2>1 DEF OfJob, AccountsGrow
<1>5. CASE job[v].op \in {"password register", "pki register"}
  <2>1. /\ "name" \in DOMAIN job[v] /\ "invite" \in DOMAIN job[v]
        /\ job[v].op = "pki register" => "key" \in DOMAIN job[v]
    BY <1>1, <1>5 DEF FieldsMatch
  <2> QED BY <1>2, <1>5, <2>1 DEF OfJob
<1> QED BY <1>3, <1>4, <1>5 DEF Makers

-----------------------------------------------------------------------------
(* The uses of an invite *)

LEMMA Totals ==
  ASSUME NEW a \in Nat \ {0}, NEW u \in Nat, NEW m \in Nat, NEW s \in Nat, NEW t \in Nat,
         NEW r \in Nat, NEW q \in Nat, u + s <= m + (a - 1) + a * r
  PROVE  /\ t <= s /\ r <= q => u + t <= m + (a - 1) + a * q
         /\ t <= a /\ r + 1 <= q => u + t <= m + (a - 1) + a * q
         /\ t + 1 <= s /\ r <= q => (u + 1) + t <= m + (a - 1) + a * q
<1>1. r <= q => a * r <= a * q
  <2>1. SUFFICES ASSUME r <= q PROVE a * r <= a * q
    OBVIOUS
  <2>2. PICK d \in Nat : q = r + d
    <3>1. q - r \in Nat /\ q = r + (q - r)
      BY <2>1
    <3> QED BY <3>1
  <2>3. a * q = a * r + a * d /\ a * d >= 0 /\ a * r \in Nat /\ a * d \in Nat
    BY <2>2
  <2> QED BY <2>3
<1>2. r + 1 <= q => a * r + a <= a * q
  <2>1. SUFFICES ASSUME r + 1 <= q PROVE a * r + a <= a * q
    OBVIOUS
  <2>2. PICK d \in Nat : q = r + 1 + d
    <3>1. q - (r + 1) \in Nat /\ q = r + 1 + (q - (r + 1))
      BY <2>1
    <3> QED BY <3>1
  <2>3. a * q = a * r + a + a * d /\ a * d >= 0 /\ a * r \in Nat /\ a * d \in Nat
    BY <2>2
  <2> QED BY <2>3
<1>3. a * r \in Nat /\ a * q \in Nat
  OBVIOUS
<1> DEFINE x == a * r
          y == a * q
<1> HIDE DEF x, y
<1>4. x \in Nat /\ y \in Nat /\ u + s <= m + (a - 1) + x
      /\ (r <= q => x <= y) /\ (r + 1 <= q => x + a <= y)
  BY <1>1, <1>2, <1>3 DEF x, y
<1>5. /\ t <= s /\ r <= q => u + t <= m + (a - 1) + y
      /\ t <= a /\ r + 1 <= q => u + t <= m + (a - 1) + y
      /\ t + 1 <= s /\ r <= q => (u + 1) + t <= m + (a - 1) + y
  BY <1>4
<1> QED BY <1>5 DEF y

LEMMA Room ==
  ASSUME NEW a \in Nat \ {0}, NEW u \in Nat, NEW m \in Nat, NEW t \in Nat, NEW q \in Nat,
         u < m, t <= a
  PROVE  u + t <= m + (a - 1) + a * q
<1>1. a * q \in Nat
  OBVIOUS
<1> DEFINE y == a * q
<1> HIDE DEF y
<1>2. y \in Nat
  BY <1>1 DEF y
<1>3. u + t <= m + (a - 1) + y
  BY <1>2
<1> QED BY <1>3 DEF y

\* The sets that the invariant counts are finite.
LEMMA Finite ==
  ASSUME Typed, NEW i
  PROVE  /\ IsFiniteSet(Spenders(i)) /\ Cardinality(Spenders(i)) \in Nat
         /\ Cardinality(Spenders(i)) <= calls.atOnce /\ calls.atOnce \in Nat \ {0}
         /\ IsFiniteSet(Redeemed(i)) /\ Cardinality(Redeemed(i)) \in Nat
<1>1. IsFiniteSet(Engaged) /\ Cardinality(Engaged) <= calls.atOnce /\ calls.atOnce \in Nat \ {0}
  BY DEF Typed, Pool
<1>2. Spenders(i) \subseteq Engaged
  <2>1. ASSUME NEW w \in Threads, Spends(w, i) PROVE job[w] # Free
    <3>1. job[w].op \in Makers
      BY <2>1 DEF Spends
    <3>2. Free.op = "none"
      BY DEF Free
    <3> QED BY <3>1, <3>2 DEF Makers
  <2> QED BY <2>1 DEF Spenders, Engaged
<1>3. IsFiniteSet(Spenders(i)) /\ Cardinality(Spenders(i)) <= Cardinality(Engaged)
  BY <1>1, <1>2, FS_Subset
<1>4. Cardinality(Spenders(i)) \in Nat /\ Cardinality(Engaged) \in Nat
  BY <1>1, <1>3, FS_CardinalityType
<1>5. DOMAIN challenges = 1 .. Len(challenges) /\ Len(challenges) \in Nat
  BY Lengths DEF Typed
<1>6. IsFiniteSet(1 .. Len(challenges))
  BY <1>5, FS_Interval
<1>7. IsFiniteSet(Redeemed(i))
  BY <1>5, <1>6, FS_Subset DEF Redeemed
<1>8. Cardinality(Redeemed(i)) \in Nat
  BY <1>7, FS_CardinalityType
<1> QED BY <1>1, <1>3, <1>4, <1>7, <1>8

\* The same of the state that a step reaches.
CountsAreFinite ==
  /\ \A i : /\ IsFiniteSet(Spenders(i)) /\ Cardinality(Spenders(i)) \in Nat
           /\ Cardinality(Spenders(i)) <= calls.atOnce
           /\ IsFiniteSet(Redeemed(i)) /\ Cardinality(Redeemed(i)) \in Nat
  /\ \A i \in DOMAIN inviteCodes : inviteCodes[i].max \in Nat /\ inviteCodes[i].uses \in Nat

LEMMA AlwaysFinite == Typed => CountsAreFinite
<1> SUFFICES ASSUME Typed PROVE CountsAreFinite
  OBVIOUS
<1>1. \A i \in DOMAIN inviteCodes : inviteCodes[i].max \in Nat /\ inviteCodes[i].uses \in Nat
  BY Rows DEF Typed, InviteRows
<1> QED BY <1>1, Finite DEF CountsAreFinite

\* What the invariant says of one invite.
CountedInvites(i) ==
  inviteCodes[i].max # 0 =>
    inviteCodes[i].uses + Cardinality(Spenders(i))
      <= inviteCodes[i].max + (calls.atOnce - 1) + calls.atOnce * Cardinality(Redeemed(i))

\* The ways in which a step may leave the count of an invite.
Settled(i) ==
  \/ inviteCodes'[i].max = 0 \/ inviteCodes'[i].uses < inviteCodes'[i].max
  \/ /\ i \in DOMAIN inviteCodes
     /\ CountedInvites(i)
     /\ inviteCodes'[i].max = inviteCodes[i].max
     /\ \/ inviteCodes'[i].uses = inviteCodes[i].uses /\ Spenders(i)' \subseteq Spenders(i)
        \/ /\ inviteCodes'[i].uses = inviteCodes[i].uses
           /\ \E c \in Redeemed(i)' : c \notin Redeemed(i)
        \/ /\ inviteCodes'[i].uses = inviteCodes[i].uses + 1
           /\ \E w \in Spenders(i) : Spenders(i)' \subseteq Spenders(i) \ {w}

LEMMA RedeemedStay ==
  ASSUME AccountsGrow, NEW i
  PROVE  Redeemed(i) \subseteq Redeemed(i)'
  BY DEF Redeemed, AccountsGrow

LEMMA CountedStill ==
  ASSUME Typed, Typed', AccountsGrow, calls'.atOnce = calls.atOnce,
         NEW i \in DOMAIN inviteCodes', Settled(i)
  PROVE  CountedInvites(i)'
<1> DEFINE S == Spenders(i)
           T == Spenders(i)'
           R == Redeemed(i)
           Q == Redeemed(i)'
<1>1. /\ IsFiniteSet(S) /\ Cardinality(S) \in Nat
      /\ IsFiniteSet(R) /\ Cardinality(R) \in Nat
      /\ calls.atOnce \in Nat \ {0}
  BY Finite
<1>2. /\ IsFiniteSet(T) /\ Cardinality(T) \in Nat /\ Cardinality(T) <= calls.atOnce
      /\ IsFiniteSet(Q) /\ Cardinality(Q) \in Nat
      /\ inviteCodes'[i].max \in Nat /\ inviteCodes'[i].uses \in Nat
  <2>1. Typed' => CountsAreFinite'
    BY AlwaysFinite, PTL
  <2>2. Cardinality(Spenders(i)') <= calls'.atOnce
    BY <2>1 DEF CountsAreFinite
  <2> QED BY <2>1, <2>2 DEF CountsAreFinite
<1>3. R \subseteq Q
  BY RedeemedStay
<1>4. CountedInvites(i)' <=>
        (inviteCodes'[i].max # 0 =>
           inviteCodes'[i].uses + Cardinality(T)
             <= inviteCodes'[i].max + (calls.atOnce - 1) + calls.atOnce * Cardinality(Q))
  BY DEF CountedInvites
<1>5. inviteCodes'[i].max \in Nat /\ inviteCodes'[i].uses \in Nat
  BY <1>2
<1>6. CASE inviteCodes'[i].uses < inviteCodes'[i].max
  BY <1>1, <1>2, <1>4, <1>5, <1>6, Room
<1>7. CASE ~(inviteCodes'[i].uses < inviteCodes'[i].max) /\ inviteCodes'[i].max # 0
  <2>1. /\ i \in DOMAIN inviteCodes
        /\ inviteCodes'[i].max = inviteCodes[i].max
        /\ inviteCodes[i].uses + Cardinality(S)
             <= inviteCodes[i].max + (calls.atOnce - 1) + calls.atOnce * Cardinality(R)
    BY <1>7 DEF Settled, CountedInvites
  <2>2. inviteCodes[i].uses \in Nat /\ inviteCodes[i].max \in Nat
    <3>1. inviteCodes[i] \in InviteRows
      BY <2>1, Rows DEF Typed
    <3> QED BY <3>1 DEF InviteRows
  <2>3. Cardinality(R) <= Cardinality(Q)
    BY <1>2, <1>3, FS_Subset
  <2>4. CASE inviteCodes'[i].uses = inviteCodes[i].uses /\ T \subseteq S
    <3>1. Cardinality(T) <= Cardinality(S)
      BY <1>1, <2>4, FS_Subset
    <3> HIDE DEF S, T, R, Q
    <3> QED BY <1>1, <1>2, <1>4, <2>1, <2>2, <2>3, <2>4, <3>1, Totals
  <2>5. CASE inviteCodes'[i].uses = inviteCodes[i].uses /\ \E c \in Q : c \notin R
    <3>1. PICK c \in Q : c \notin R
      BY <2>5
    <3>2. IsFiniteSet(R \cup {c}) /\ Cardinality(R \cup {c}) = Cardinality(R) + 1
      BY <1>1, <3>1, FS_AddElement
    <3>3. Cardinality(R \cup {c}) <= Cardinality(Q)
      <4>1. R \cup {c} \subseteq Q
        BY <1>3, <3>1
      <4> QED BY <1>2, <4>1, FS_Subset
    <3>4. Cardinality(R) + 1 <= Cardinality(Q)
      BY <3>2, <3>3
    <3> HIDE DEF S, T, R, Q
    <3> QED BY <1>1, <1>2, <1>4, <2>1, <2>2, <2>5, <3>4, Totals
  <2>6. CASE /\ inviteCodes'[i].uses = inviteCodes[i].uses + 1
             /\ \E w \in S : T \subseteq S \ {w}
    <3>1. PICK w \in S : T \subseteq S \ {w}
      BY <2>6
    <3>2. IsFiniteSet(S \ {w}) /\ Cardinality(S \ {w}) = Cardinality(S) - 1
      BY <1>1, <3>1, FS_RemoveElement
    <3>3. Cardinality(T) <= Cardinality(S \ {w})
      BY <3>1, <3>2, FS_Subset
    <3>4. Cardinality(T) + 1 <= Cardinality(S)
      BY <1>1, <1>2, <3>2, <3>3
    <3> HIDE DEF S, T, R, Q
    <3> QED BY <1>1, <1>2, <1>4, <2>1, <2>2, <2>3, <2>6, <3>4, Totals
  <2> QED BY <1>7, <2>4, <2>5, <2>6 DEF Settled
<1> QED BY <1>4, <1>6, <1>7

LEMMA InvitesStay ==
  ASSUME Typed, Typed', AccountsGrow, InvitesCounted, calls'.atOnce = calls.atOnce,
         ~opened' => ~opened /\ mode' # "open" /\ (Registered' = {} => inviteCodes' = <<>>),
         ~opened' => \A i \in DOMAIN inviteCodes' :
                       i \notin DOMAIN inviteCodes \/ CountedInvites(i) => Settled(i)
  PROVE  InvitesCounted'
<1>1. ~opened => \A i \in DOMAIN inviteCodes : CountedInvites(i)
  BY DEF InvitesCounted, CountedInvites
<1>2. ~opened' => \A i \in DOMAIN inviteCodes' : CountedInvites(i)'
  BY <1>1, CountedStill
<1> QED BY <1>2 DEF InvitesCounted, CountedInvites

\* Where no challenge is discarded the others spend what they have spent before.
LEMMA SpendersStay ==
  ASSUME Typed, AccountsGrow, NEW w \in Threads, \A v \in Threads \ {w} : job'[v] = job[v],
         NEW i, Spends(w, i)' => Spends(w, i),
         \A c \in DOMAIN challenges :
           challenges[c].type = "registration" /\ challenges[c].invite = i
             => challenges'[c].live = challenges[c].live
  PROVE  Spenders(i)' \subseteq Spenders(i)
<1>1. SUFFICES ASSUME NEW v \in Threads, v # w, Spends(v, i)' PROVE Spends(v, i)
  BY DEF Spenders
<1>2. job'[v] = job[v]
  BY <1>1
<1>3. /\ job[v].op \in Makers \ {"approve"}
      /\ \/ job[v].at \in {"count", "create", "credential", "spend"}
         \/ job[v].op = "verify" /\ job[v].at = "discard" /\ ~challenges'[job[v].challenge].live
      /\ OfJob(v)'.invite = i
  BY <1>1, <1>2 DEF Spends
<1>4. OfJob(v)' = OfJob(v)
  BY <1>2, <1>3, OfJobKept
<1>5. CASE job[v].op = "verify" /\ job[v].at = "discard" /\ ~challenges'[job[v].challenge].live
  <2> DEFINE c == job[v].challenge
  <2>1. FieldsMatch(job[v]) /\ FitsAccount(job[v]) /\ job[v] # Free
    BY <1>5, ServingMaker
  <2>2. c \in DOMAIN challenges /\ challenges[c].type = "registration"
    BY <1>5, <2>1 DEF FitsAccount, FieldsMatch
  <2>3. OfJob(v).invite = challenges[c].invite
    BY <1>5 DEF OfJob
  <2>4. challenges'[c].live = challenges[c].live
    BY <1>3, <1>4, <2>2, <2>3
  <2> QED BY <1>3, <1>4, <1>5, <2>4 DEF Spends
<1> QED BY <1>3, <1>4, <1>5 DEF Spends

-----------------------------------------------------------------------------
(* Steps that make no account and end none *)

LEMMA OwnersStay ==
  ASSUME OwnerKept, calls'.atOnce = calls.atOnce, rank' = rank, departed' = departed,
         DOMAIN made' = DOMAIN made, \A k \in DOMAIN made : made'[k].role = made[k].role,
         NEW w \in Threads, \A v \in Threads \ {w} : job'[v] = job[v],
         OneAtATime /\ ~departed => SuitsOwners(job[w])'
  PROVE  OwnerKept'
<1>1. SUFFICES ASSUME OneAtATime', ~departed' PROVE OwnerKept'
  BY DEF OwnerKept
<1>2. OneAtATime /\ ~departed
  BY <1>1 DEF OneAtATime
<1>3. Registered' = Registered /\ ServerOwners' = ServerOwners /\ OwnersMade' = OwnersMade
  BY DEF Registered, ServerOwners, OwnersMade
<1>4. /\ Registered # {} => ServerOwners # {}
      /\ Registered = {} => OwnersMade = {}
      /\ \A k, l \in OwnersMade : k = l
      /\ \A v \in Threads : SuitsOwners(job[v])
  BY <1>2 DEF OwnerKept
<1>5. \A v \in Threads : SuitsOwners(job[v])'
  <2>1. ASSUME NEW v \in Threads, v # w PROVE SuitsOwners(job[v])'
    BY ZenonT(60), <1>3, <1>4, <2>1 DEF SuitsOwners
  <2> QED BY <1>2, <2>1
<1> QED BY <1>3, <1>4, <1>5 DEF OwnerKept

\* Who is still making an account goes on with it.
LEMMA StillMaking ==
  ASSUME Typed, AccountsGrow, NEW v \in Threads, job'[v] = job[v], job[v].at = "credential"
  PROVE  job'[v].at = "credential" /\ OfJob(v)' = OfJob(v)
<1>1. FieldsMatch(job[v]) /\ FitsAccount(job[v]) /\ job[v] # Free
  BY ServingMaker
<1>2. job[v].op \in Makers
  BY <1>1 DEF FitsAccount, Places, Makers
<1> QED BY <1>2, OfJobKept

LEMMA MadeStays ==
  ASSUME Typed, AccountsGrow, NEW k \in DOMAIN made, Made(k),
         NEW w \in Threads, \A v \in Threads \ {w} : job'[v] = job[v],
         job[w].at # "credential" \/ OfJob(w) # made[k].account,
         made'[k].conflict \/ ~made[k].conflict,
         made[k].account.name \in Registered' =>
           /\ made[k].account.name \in Registered
           /\ \A key \in Keys : <<made[k].account.name, key>> \in credentials =>
                                  <<made[k].account.name, key>> \in credentials'
  PROVE  Made(k)'
<1> DEFINE a == made[k].account
<1>1. k \in DOMAIN made' /\ made'[k].account = a
  BY DEF AccountsGrow
<1>2. CASE a.name \notin Registered \/ made[k].conflict
  BY <1>1, <1>2 DEF Made
<1>3. CASE \E l \in DOMAIN made : l > k /\ made[l].account.name = a.name
  <2>1. PICK l \in DOMAIN made : l > k /\ made[l].account.name = a.name
    BY <1>3
  <2>2. l \in DOMAIN made' /\ made'[l].account.name = a.name
    BY <2>1 DEF AccountsGrow
  <2> QED BY <1>1, <2>1, <2>2 DEF Made
<1>4. CASE \E v \in Threads : job[v].at = "credential" /\ OfJob(v) = a
  <2>1. PICK v \in Threads : job[v].at = "credential" /\ OfJob(v) = a
    BY <1>4
  <2>2. v # w /\ job'[v] = job[v]
    BY <2>1
  <2>3. job'[v].at = "credential" /\ OfJob(v)' = a
    BY <2>1, <2>2, StillMaking
  <2> QED BY <1>1, <2>3 DEF Made
<1>5. CASE \E key \in Keys : <<a.name, key>> \in credentials
  BY <1>1, <1>5 DEF Made
<1> QED BY <1>2, <1>3, <1>4, <1>5 DEF Made

LEMMA JoinsStay ==
  ASSUME RegistrationTypes, RegistrationTypes', AccountsGrow, Complete,
         \A j \in DOMAIN joins' : joins'[j].status = "approved" =>
           \/ j \in DOMAIN joins /\ joins[j].status = "approved"
           \/ joins'[j].session /\ HasAccount(j)'
  PROVE  \A j \in DOMAIN joins' : joins'[j].status = "approved" => joins'[j].session /\ HasAccount(j)'
<1>1. \A join : HasAccount(join) => HasAccount(join)'
  BY StillThere
<1> QED BY <1>1 DEF Complete, AccountsGrow

LEMMA CompleteStays ==
  ASSUME Typed, RegistrationTypes', AccountsGrow, Complete, rank' = rank, credentials' = credentials,
         DOMAIN made' = DOMAIN made, \A k \in DOMAIN made : made'[k].conflict \/ ~made[k].conflict,
         NEW w \in Threads, \A v \in Threads \ {w} : job'[v] = job[v], job[w].at # "credential",
         \A j \in DOMAIN joins' : joins'[j].status = "approved" =>
           \/ j \in DOMAIN joins /\ joins[j].status = "approved"
           \/ joins'[j].session /\ HasAccount(j)'
  PROVE  Complete'
<1>1. \A k \in DOMAIN made' : Made(k)'
  <2>1. SUFFICES ASSUME NEW k \in DOMAIN made PROVE Made(k)'
    OBVIOUS
  <2>2. Made(k)
    BY DEF Complete
  <2>3. Registered' = Registered
    BY DEF Registered
  <2> QED BY <2>2, <2>3, MadeStays
<1>2. \A j \in DOMAIN joins' : joins'[j].status = "approved" => joins'[j].session /\ HasAccount(j)'
  BY JoinsStay DEF Typed
<1> QED BY <1>1, <1>2 DEF Complete

\* The steps that only read, or store a challenge or a request to join.
LEMMA Quiet ==
  ASSUME RegistrationInv, NEW w \in Threads, Moves(w), RegistrationTypes', AccountsGrow,
         FitsAccount(job[w])',
         mode' = mode, rank' = rank, credentials' = credentials, inviteCodes' = inviteCodes,
         made' = made, departed' = departed, opened' = opened,
         job[w].at # "credential",
         \A c \in DOMAIN challenges : challenges'[c].live = challenges[c].live,
         ~opened => \A i \in DOMAIN inviteCodes :
                      \/ Spends(w, i)' => Spends(w, i)
                      \/ inviteCodes[i].max = 0 \/ inviteCodes[i].uses < inviteCodes[i].max,
         OneAtATime /\ ~departed => SuitsOwners(job[w])',
         \A j \in DOMAIN joins' : joins'[j].status = "approved" =>
           \/ j \in DOMAIN joins /\ joins[j].status = "approved"
           \/ joins'[j].session /\ HasAccount(j)'
  PROVE  RegistrationInv'
<1>1. Typed /\ InvitesCounted /\ OwnerKept /\ Complete
  BY DEF RegistrationInv
<1>2. Typed'
  BY <1>1, TypesKept
<1>3. calls'.atOnce = calls.atOnce /\ \A v \in Threads \ {w} : job'[v] = job[v]
  BY <1>1, MoveKeepsPool DEF Typed, Moves
<1>4. Registered' = Registered
  BY DEF Registered
<1>5. InvitesCounted'
  <2>1. ASSUME ~opened', NEW i \in DOMAIN inviteCodes', CountedInvites(i) PROVE Settled(i)
    <3>1. CASE Spends(w, i)' => Spends(w, i)
      <4>1. Spenders(i)' \subseteq Spenders(i)
        BY <1>1, <1>3, <3>1, SpendersStay
      <4> QED BY <2>1, <4>1 DEF Settled
    <3>2. CASE inviteCodes[i].max = 0 \/ inviteCodes[i].uses < inviteCodes[i].max
      BY <3>2 DEF Settled
    <3> QED BY <2>1, <3>1, <3>2
  <2>2. ~opened' => ~opened /\ mode' # "open" /\ (Registered' = {} => inviteCodes' = <<>>)
    BY <1>1, <1>4 DEF InvitesCounted
  <2> QED BY <1>1, <1>2, <1>3, <2>1, <2>2, InvitesStay
<1>6. OwnerKept'
  BY <1>1, <1>3, OwnersStay
<1>7. Complete'
  <2>1. \A k \in DOMAIN made : made'[k].conflict \/ ~made[k].conflict
    OBVIOUS
  <2> QED BY <1>1, <1>3, <2>1, CompleteStays
<1> QED BY <1>2, <1>5, <1>6, <1>7 DEF RegistrationInv

LEMMA Idle ==
  ASSUME NEW w, job'[w] = Free
  PROVE  (\A i : ~Spends(w, i)') /\ SuitsOwners(job[w])' /\ FitsAccount(job[w])'
<1>1. job'[w].op = "none" /\ job'[w].at = "none"
  BY DEF Free
<1>2. \A i : ~Spends(w, i)'
  BY <1>1 DEF Spends, Makers
<1>3. SuitsOwners(job[w])'
  BY <1>1 DEF SuitsOwners
<1>4. FitsAccount(job[w])'
  BY DEF FitsAccount
<1> QED BY <1>2, <1>3, <1>4

LEMMA QuietAnswer ==
  ASSUME RegistrationInv, NEW w \in Threads, job[w].at # "none", Respond(w), RegistrationTypes',
         AccountsGrow,
         UNCHANGED <<mode, rank, credentials, inviteCodes, made, departed, opened>>,
         job[w].at # "credential",
         \A c \in DOMAIN challenges : challenges'[c].live = challenges[c].live,
         \A j \in DOMAIN joins' : joins'[j].status = "approved" =>
           \/ j \in DOMAIN joins /\ joins[j].status = "approved"
           \/ joins'[j].session /\ HasAccount(j)'
  PROVE  RegistrationInv'
<1>1. Moves(w) /\ job'[w] = Free
  BY GoingOn DEF RegistrationInv
<1>2. (\A i : ~Spends(w, i)') /\ SuitsOwners(job[w])' /\ FitsAccount(job[w])'
  BY <1>1, Idle
<1> QED BY <1>1, <1>2, Quiet

\* A read of the tables changes none of them.
LEMMA Reads ==
  ASSUME RegistrationInv, NEW w \in Threads, Moves(w), UNCHANGED registration, FitsAccount(job[w])',
         job[w].at # "credential",
         ~opened => \A i \in DOMAIN inviteCodes :
                      \/ Spends(w, i)' => Spends(w, i)
                      \/ inviteCodes[i].max = 0 \/ inviteCodes[i].uses < inviteCodes[i].max,
         OneAtATime /\ ~departed => SuitsOwners(job[w])'
  PROVE  RegistrationInv'
<1>1. /\ mode' = mode /\ rank' = rank /\ credentials' = credentials /\ inviteCodes' = inviteCodes
      /\ made' = made /\ departed' = departed /\ opened' = opened /\ challenges' = challenges
      /\ joins' = joins
  BY DEF registration, registrationTables
<1>2. RegistrationTypes' /\ AccountsGrow
  BY TablesStay DEF RegistrationInv, Typed
<1> QED BY <1>1, <1>2, Quiet

LEMMA Refuses ==
  ASSUME RegistrationInv, NEW w \in Threads, job[w].at # "none", Respond(w), UNCHANGED registration,
         job[w].at # "credential"
  PROVE  RegistrationInv'
<1>1. Moves(w) /\ job'[w] = Free
  BY GoingOn DEF RegistrationInv
<1>2. (\A i : ~Spends(w, i)') /\ SuitsOwners(job[w])' /\ FitsAccount(job[w])'
  BY <1>1, Idle
<1> QED BY <1>1, <1>2, Reads

LEMMA NewChallenge ==
  ASSUME RegistrationTypes, NEW type, NEW name, NEW invite, StoreChallenge(type, name, invite),
         [type |-> type, name |-> name, invite |-> invite, live |-> TRUE] \in ChallengeRows,
         UNCHANGED <<mode, rank, credentials, inviteCodes, joins, made, departed, opened>>
  PROVE  /\ RegistrationTypes' /\ AccountsGrow
         /\ \A c \in DOMAIN challenges : challenges'[c].live = challenges[c].live
<1> DEFINE row == [type |-> type, name |-> name, invite |-> invite, live |-> TRUE]
<1>1. challenges' = Append(challenges, row) /\ row \in ChallengeRows
  BY DEF StoreChallenge
<1> HIDE DEF row
<1>2. challenges \in Seq(ChallengeRows) /\ ChallengeRows' = ChallengeRows
  BY DEF RegistrationTypes, ChallengeRows
<1>3. challenges' \in Seq(ChallengeRows)'
  <2>1. challenges' \in Seq(ChallengeRows)
    BY <1>1, <1>2, Appended, Elements
  <2> QED BY <1>2, <2>1
<1>4. /\ DOMAIN challenges \subseteq DOMAIN challenges'
      /\ \A c \in DOMAIN challenges : challenges'[c] = challenges[c]
  BY <1>1, <1>2, OneMore
<1>5. AccountsGrow
  BY <1>4, Lengths DEF AccountsGrow
<1>6. RegistrationTypes'
  <2>1. JoinRows' = JoinRows /\ AccountRows' = AccountRows /\ Registered' = Registered
    BY DEF JoinRows, AccountRows, Registered
  <2> QED BY <1>3, <2>1 DEF RegistrationTypes
<1> QED BY <1>4, <1>5, <1>6

LEMMA Stores ==
  ASSUME RegistrationInv, NEW w \in Threads, job[w].at # "none", job[w].at # "credential", Respond(w),
         NEW type, NEW name, NEW invite,
         [type |-> type, name |-> name, invite |-> invite, live |-> TRUE] \in ChallengeRows,
         StoreChallenge(type, name, invite) \/ UNCHANGED challenges,
         UNCHANGED <<mode, rank, credentials, inviteCodes, joins, made, departed, opened>>
  PROVE  RegistrationInv'
<1>1. CASE UNCHANGED challenges
  BY <1>1, Refuses DEF registration, registrationTables
<1>2. CASE StoreChallenge(type, name, invite)
  BY <1>2, NewChallenge, QuietAnswer DEF RegistrationInv, Typed
<1> QED BY <1>1, <1>2

LEMMA RegisterOptionsKeeps ==
  ASSUME RegistrationInv, NEW w \in Threads, RegisterOptions(w)
  PROVE  RegistrationInv'
<1>1. job[w].at = "check" /\ job[w].op = "options"
  BY DEF RegisterOptions, At
<1>2. FieldsMatch(job[w]) /\ FitsAccount(job[w]) /\ job[w] # Free
  BY <1>1, ServingMaker DEF RegistrationInv
<1>3. job[w].name \in Names /\ job[w].invite \in 0 .. Len(inviteCodes)
  BY <1>1, <1>2 DEF FieldsMatch, FitsAccount
<1>4. [type |-> "registration", name |-> job[w].name, invite |-> job[w].invite, live |-> TRUE]
        \in ChallengeRows
  BY <1>3 DEF ChallengeRows
<1>5. /\ StoreChallenge("registration", job[w].name, job[w].invite) \/ UNCHANGED challenges
      /\ Respond(w)
      /\ UNCHANGED <<mode, rank, credentials, inviteCodes, joins, made, departed, opened>>
  BY DEF RegisterOptions
<1> QED BY <1>1, <1>4, <1>5, Stores

LEMMA RegistrationChallengeKeeps ==
  ASSUME RegistrationInv, NEW w \in Threads, RegistrationChallenge(w)
  PROVE  RegistrationInv'
<1>1. [type |-> "pki_registration", name |-> Anyone, invite |-> 0, live |-> TRUE] \in ChallengeRows
  BY DEF ChallengeRows
<1>2. /\ job[w].at = "check" /\ StoreChallenge("pki_registration", Anyone, 0) /\ Respond(w)
      /\ UNCHANGED <<mode, rank, credentials, inviteCodes, joins, made, departed, opened>>
  BY DEF RegistrationChallenge, At
<1> QED BY <1>1, <1>2, Stores

LEMMA AccessOptionsKeeps ==
  ASSUME RegistrationInv, NEW w \in Threads, AccessOptions(w)
  PROVE  RegistrationInv'
<1>1. [type |-> "join_request", name |-> Anyone, invite |-> 0, live |-> TRUE] \in ChallengeRows
  BY DEF ChallengeRows
<1>2. /\ job[w].at = "check" /\ Respond(w)
      /\ StoreChallenge("join_request", Anyone, 0) \/ UNCHANGED challenges
      /\ UNCHANGED <<mode, rank, credentials, inviteCodes, joins, made, departed, opened>>
  BY DEF AccessOptions, At
<1> QED BY <1>1, <1>2, Stores

\* A handler goes on from a read.
LEMMA GoesOn ==
  ASSUME RegistrationInv, NEW w \in Threads, job[w].at # "none", job[w].at # "credential",
         NEW place, place # "none", NEW saw, UNCHANGED registration,
         Moves(w), GoesTo(w, place, saw), place \in Places(job[w].op),
         job[w].op = "verify" =>
           /\ challenges[job[w].challenge].type = "registration"
           /\ place # "discard" => ~challenges[job[w].challenge].live,
         place = "create" => IF job[w].op = "approve" THEN Registered # {}
                             ELSE saw = IF Registered = {} THEN "owner" ELSE "user",
         job[w].op = "approve" => place = "create",
         ~opened => \A i \in DOMAIN inviteCodes :
                      \/ Spends(w, i)' => Spends(w, i)
                      \/ inviteCodes[i].max = 0 \/ inviteCodes[i].uses < inviteCodes[i].max,
         OneAtATime /\ place = "set role" /\ job[w].of \in ServerOwners /\ job[w].role # "owner" =>
           \E n \in ServerOwners : n # job[w].of
  PROVE  RegistrationInv'
<1>1. RegistrationTypes' /\ AccountsGrow /\ Typed
  BY TablesStay DEF RegistrationInv, Typed
<1>2. challenges' = challenges /\ joins' = joins /\ rank' = rank
  BY DEF registration, registrationTables
<1>3. FitsAccount(job[w])'
  BY <1>1, <1>2, GoneFits
<1>4. job'[w].at = place /\ job'[w].saw = saw /\ job'[w].op = job[w].op
  BY <1>1, ServingMaker, SameFields DEF GoesTo
<1>5. place = "set role" => job'[w].of = job[w].of /\ job'[w].role = job[w].role
  <2>1. SUFFICES ASSUME place = "set role" PROVE job'[w].of = job[w].of /\ job'[w].role = job[w].role
    OBVIOUS
  <2>2. FieldsMatch(job[w])
    BY <1>1, ServingMaker
  <2>3. job[w].op = "role"
    BY <2>1, <2>2 DEF Places, FieldsMatch, Makers, Rulers, Starters
  <2> QED BY <2>2, <2>3, SameFields DEF GoesTo, FieldsMatch
<1>6. Registered' = Registered /\ ServerOwners' = ServerOwners
  BY <1>2 DEF Registered, ServerOwners
<1>7. OneAtATime => SuitsOwners(job[w])'
  BY <1>4, <1>5, <1>6 DEF SuitsOwners
<1> QED BY <1>3, <1>7, Reads

LEMMA CheckRegisterVerifyKeeps ==
  ASSUME RegistrationInv, NEW w \in Threads, CheckRegisterVerify(w)
  PROVE  RegistrationInv'
<1>1. job[w].at = "check" /\ job[w].op = "verify" /\ UNCHANGED registration
  BY DEF CheckRegisterVerify, At, Read
<1>2. CASE ~Stored(w, {"registration"})
  <2>1. Respond(w)
    BY <1>2 DEF CheckRegisterVerify, Read, Unless
  <2> QED BY <1>1, <2>1, Refuses
<1>3. CASE Stored(w, {"registration"})
  <2>1. Proceed(w, "discard")
    BY <1>3 DEF CheckRegisterVerify, Read, Unless
  <2>2. Moves(w) /\ GoesTo(w, "discard", job[w].saw)
    BY <1>1, <2>1, GoingOn DEF RegistrationInv
  <2>3. /\ challenges[job[w].challenge].type = "registration"
        /\ challenges[job[w].challenge].live
    BY <1>3 DEF Stored
  <2>4. FieldsMatch(job[w])
    BY <1>1, ServingMaker DEF RegistrationInv
  <2>5. job'[w].at = "discard" /\ job'[w].challenge = job[w].challenge
    BY <1>1, <2>2, <2>4, SameFields DEF GoesTo, FieldsMatch
  <2>6. challenges' = challenges
    BY <1>1 DEF registration, registrationTables
  <2>7. \A i : ~Spends(w, i)'
    BY <2>3, <2>5, <2>6 DEF Spends
  <2>8. "discard" \in Places(job[w].op)
    BY <1>1 DEF Places
  <2> QED BY <1>1, <2>2, <2>3, <2>7, <2>8, GoesOn
<1> QED BY <1>2, <1>3

LEMMA CheckPkiRegisterKeeps ==
  ASSUME RegistrationInv, NEW w \in Threads, CheckPkiRegister(w)
  PROVE  RegistrationInv'
<1>1. job[w].at = "check" /\ job[w].op = "pki register" /\ UNCHANGED registration
  BY DEF CheckPkiRegister, At, Read
<1>2. CASE Respond(w)
  BY <1>1, <1>2, Refuses
<1>3. CASE Proceed(w, "discard")
  <2>1. Moves(w) /\ GoesTo(w, "discard", job[w].saw)
    BY <1>1, <1>3, GoingOn DEF RegistrationInv
  <2>2. job'[w].at = "discard" /\ job'[w].op = "pki register"
    BY <1>1, <2>1, ServingMaker, SameFields DEF GoesTo, RegistrationInv
  <2>3. \A i : ~Spends(w, i)'
    BY <2>2 DEF Spends
  <2>4. "discard" \in Places(job[w].op)
    BY <1>1 DEF Places
  <2> QED BY <1>1, <2>1, <2>3, <2>4, GoesOn
<1> QED BY <1>2, <1>3 DEF CheckPkiRegister, Read, Unless

LEMMA CheckAccessKeeps ==
  ASSUME RegistrationInv, NEW w \in Threads, CheckAccess(w)
  PROVE  RegistrationInv'
<1>1. job[w].at = "check" /\ job[w].op = "access" /\ UNCHANGED registration
  BY DEF CheckAccess, At, Read
<1>2. CASE Respond(w)
  BY <1>1, <1>2, Refuses
<1>3. ASSUME NEW place \in {"ask", "discard"}, Proceed(w, place) PROVE RegistrationInv'
  <2>1. Moves(w) /\ GoesTo(w, place, job[w].saw)
    BY <1>1, <1>3, GoingOn DEF RegistrationInv
  <2>2. job'[w].op = "access"
    BY <1>1, <2>1, ServingMaker, SameFields DEF GoesTo, RegistrationInv
  <2>3. \A i : ~Spends(w, i)'
    BY <2>2 DEF Spends, Makers
  <2>4. place \in Places(job[w].op)
    BY <1>1 DEF Places
  <2> QED BY <1>1, <2>1, <2>3, <2>4, GoesOn
<1> QED BY <1>2, <1>3 DEF CheckAccess, Read, Unless

LEMMA CheckApproveKeeps ==
  ASSUME RegistrationInv, NEW w \in Threads, CheckApprove(w)
  PROVE  RegistrationInv'
<1>1. job[w].at = "check" /\ job[w].op = "approve" /\ UNCHANGED registration
  BY DEF CheckApprove, At, Read
<1>2. CASE Respond(w)
  BY <1>1, <1>2, Refuses
<1>3. CASE Rule(job[w].by) /\ Proceed(w, "create")
  <2>1. Moves(w) /\ GoesTo(w, "create", job[w].saw)
    BY <1>1, <1>3, GoingOn DEF RegistrationInv
  <2>2. job'[w].op = "approve" /\ FieldsMatch(job[w])
    BY <1>1, <2>1, ServingMaker, SameFields DEF GoesTo, RegistrationInv
  <2>3. \A i : ~Spends(w, i)'
    BY <2>2 DEF Spends
  <2>4. "create" \in Places(job[w].op)
    BY <1>1 DEF Places
  <2>5. Registered # {}
    BY <1>1, <1>3, <2>2 DEF FieldsMatch, Rulers, Rule, Registered, NoAccount
  <2> QED BY <1>1, <2>1, <2>3, <2>4, <2>5, GoesOn
<1> QED BY <1>2, <1>3 DEF CheckApprove, Read, Unless

LEMMA CountUsersKeeps ==
  ASSUME RegistrationInv, NEW w \in Threads, CountUsers(w)
  PROVE  RegistrationInv'
<1> DEFINE saw == IF Registered = {} THEN "owner" ELSE "user"
<1>1. job[w].at = "count" /\ Recall(w, "create", saw) /\ UNCHANGED registration
  BY DEF CountUsers
<1> HIDE DEF saw
<1>2. Moves(w) /\ GoesTo(w, "create", saw)
  BY <1>1, GoingOn DEF RegistrationInv
<1>3. FieldsMatch(job[w]) /\ FitsAccount(job[w]) /\ job[w] # Free
  BY <1>1, ServingMaker DEF RegistrationInv
<1>4. job[w].op \in Makers \ {"approve"} /\ "create" \in Places(job[w].op)
  BY <1>1, <1>3 DEF FitsAccount, Places, Makers
<1>5. job'[w].op = job[w].op
  BY <1>2, <1>3, SameFields DEF GoesTo
<1>6. AccountsGrow /\ Typed
  BY <1>1, TablesStay DEF RegistrationInv, Typed
<1>7. OfJob(w)' = OfJob(w)
  BY <1>1, <1>2, <1>4, <1>6, OfJobKept DEF GoesTo
<1>8. \A i : Spends(w, i)' => Spends(w, i)
  BY <1>1, <1>4, <1>7 DEF Spends
<1>9. job[w].op = "verify" => /\ challenges[job[w].challenge].type = "registration"
                              /\ ~challenges[job[w].challenge].live
  BY <1>1, <1>3 DEF FitsAccount
<1> QED BY <1>1, <1>2, <1>4, <1>8, <1>9, GoesOn DEF saw

LEMMA LowerRank ==
  ASSUME NEW role, role # "owner"
  PROVE  RankOf(role) < 2
<1>1. CASE role = "admin"
  BY <1>1 DEF RankOf
<1>2. CASE role # "admin"
  BY <1>2 DEF RankOf
<1> QED BY <1>1, <1>2

LEMMA CheckServerRoleKeeps ==
  ASSUME RegistrationInv, NEW w \in Threads, CheckServerRole(w)
  PROVE  RegistrationInv'
<1>1. job[w].at = "check" /\ job[w].op = "role" /\ UNCHANGED registration
  BY DEF CheckServerRole, At, Find
<1>2. CASE Respond(w)
  BY <1>1, <1>2, Refuses
<1>3. ASSUME NEW saw, NEW place, Recall(w, place, saw),
             place = IF RankOf(rank[job[w].of]) = 2 /\ RankOf(job[w].role) < 2
                     THEN "count owners" ELSE "set role"
      PROVE  RegistrationInv'
  <2>1. place \in {"count owners", "set role"}
    BY <1>3
  <2>2. Moves(w) /\ GoesTo(w, place, saw)
    BY <1>1, <1>3, <2>1, GoingOn DEF RegistrationInv
  <2>3. FieldsMatch(job[w]) /\ job'[w].op = "role"
    BY <1>1, <2>2, ServingMaker, SameFields DEF GoesTo, RegistrationInv
  <2>4. \A i : ~Spends(w, i)'
    BY <2>3 DEF Spends, Makers
  <2>5. place \in Places(job[w].op)
    BY <1>1, <2>1 DEF Places
  <2>6. place = "set role" /\ job[w].of \in ServerOwners => job[w].role = "owner"
    <3>1. SUFFICES ASSUME place = "set role", job[w].of \in ServerOwners, job[w].role # "owner"
                   PROVE  FALSE
      OBVIOUS
    <3>2. RankOf(rank[job[w].of]) = 2
      BY <3>1 DEF ServerOwners, RankOf
    <3>3. RankOf(job[w].role) < 2
      BY <3>1, LowerRank
    <3> QED BY <1>3, <3>1, <3>2, <3>3
  <2> QED BY <1>1, <2>1, <2>2, <2>4, <2>5, <2>6, GoesOn
<1>4. \/ Respond(w)
      \/ Recall(w, IF RankOf(rank[job[w].of]) = 2 /\ RankOf(job[w].role) < 2
                   THEN "count owners" ELSE "set role", UserId(job[w].of))
  BY DEF CheckServerRole, Find
<1> QED BY <1>2, <1>3, <1>4

LEMMA Several ==
  ASSUME NEW S, IsFiniteSet(S), ~(Cardinality(S) <= 1), NEW x
  PROVE  \E n \in S : n # x
<1>1. SUFFICES ASSUME S \subseteq {x} PROVE FALSE
  OBVIOUS
<1>2. IsFiniteSet({x}) /\ Cardinality({x}) = 1
  BY FS_Singleton
<1>3. Cardinality(S) <= 1
  BY <1>1, <1>2, FS_Subset
<1> QED BY <1>3

LEMMA AnotherOwner ==
  ASSUME Typed, ~(Cardinality(ServerOwners) <= 1), NEW x
  PROVE  \E n \in ServerOwners : n # x
<1>1. ServerOwners \subseteq Registered
  BY DEF ServerOwners, Registered, NoAccount
<1>2. IsFiniteSet(Registered)
  BY DEF Typed, RegistrationTypes
<1>3. IsFiniteSet(ServerOwners)
  BY <1>1, <1>2, FS_Subset
<1> QED BY <1>3, Several

LEMMA NotEmpty ==
  ASSUME RegistrationTypes, NEW i \in DOMAIN inviteCodes
  PROVE  inviteCodes # <<>>
<1>1. SUFFICES ASSUME inviteCodes = <<>> PROVE FALSE
  OBVIOUS
<1>2. i \in 1 .. Len(inviteCodes)
  BY Lengths
<1>3. Len(inviteCodes) = 0
  BY <1>1
<1> QED BY <1>2, <1>3

LEMMA CountServerOwnersKeeps ==
  ASSUME RegistrationInv, NEW w \in Threads, CountServerOwners(w)
  PROVE  RegistrationInv'
<1>1. job[w].at = "count owners" /\ job[w].op = "role" /\ UNCHANGED registration
  BY DEF CountServerOwners, At, Read
<1>2. CASE Respond(w)
  BY <1>1, <1>2, Refuses
<1>3. CASE ~(Cardinality(ServerOwners) <= 1) /\ Proceed(w, "set role")
  <2>1. Moves(w) /\ GoesTo(w, "set role", job[w].saw)
    BY <1>1, <1>3, GoingOn DEF RegistrationInv
  <2>2. FieldsMatch(job[w]) /\ job'[w].op = "role"
    BY <1>1, <2>1, ServingMaker, SameFields DEF GoesTo, RegistrationInv
  <2>3. \A i : ~Spends(w, i)'
    BY <2>2 DEF Spends, Makers
  <2>4. "set role" \in Places(job[w].op)
    BY <1>1 DEF Places
  <2>5. \E n \in ServerOwners : n # job[w].of
    <3>1. ~(Cardinality(ServerOwners) <= 1)
      BY <1>3
    <3>2. Typed
      BY DEF RegistrationInv
    <3>3. \A x : \E n \in ServerOwners : n # x
      BY <3>1, <3>2, AnotherOwner
    <3> QED BY <3>3
  <2> QED BY <1>1, <2>1, <2>3, <2>4, <2>5, GoesOn
<1> QED BY <1>2, <1>3 DEF CountServerOwners, Read, Unless

LEMMA CheckDeleteAccountKeeps ==
  ASSUME RegistrationInv, NEW w \in Threads, CheckDeleteAccount(w)
  PROVE  RegistrationInv'
<1>1. job[w].at = "check" /\ job[w].op = "delete account" /\ UNCHANGED registration
  BY DEF CheckDeleteAccount, At, Find
<1>2. CASE Respond(w)
  BY <1>1, <1>2, Refuses
<1>3. ASSUME NEW saw, Recall(w, "delete", saw) PROVE RegistrationInv'
  <2>1. Moves(w) /\ GoesTo(w, "delete", saw)
    BY <1>1, <1>3, GoingOn DEF RegistrationInv
  <2>2. job'[w].op = "delete account"
    BY <1>1, <2>1, ServingMaker, SameFields DEF GoesTo, RegistrationInv
  <2>3. \A i : ~Spends(w, i)'
    BY <2>2 DEF Spends, Makers
  <2>4. "delete" \in Places(job[w].op)
    BY <1>1 DEF Places
  <2> QED BY <1>1, <2>1, <2>3, <2>4, GoesOn
<1> QED BY <1>2, <1>3 DEF CheckDeleteAccount, Find

\* Who may register with an invite finds its limit not reached.
LEMMA Admitted ==
  ASSUME RegistrationInv, NEW w \in Threads, job[w].at \in {"check", "admit"},
         job[w].op \in {"password register", "pki register"},
         Read(w, ~Eligible(job[w].invite), "count"),
         "count" \in Places(job[w].op)
  PROVE  RegistrationInv'
<1>1. UNCHANGED registration
  BY DEF Read
<1>2. CASE Respond(w)
  BY <1>1, <1>2, Refuses
<1>3. CASE Eligible(job[w].invite) /\ Proceed(w, "count")
  <2>1. Moves(w) /\ GoesTo(w, "count", job[w].saw)
    BY <1>3, GoingOn DEF RegistrationInv
  <2>2. FieldsMatch(job[w]) /\ FitsAccount(job[w])
    BY ServingMaker DEF RegistrationInv
  <2>3. job'[w].op = job[w].op /\ job'[w].invite = job[w].invite
    BY <2>1, <2>2, SameFields DEF GoesTo, FieldsMatch
  <2>4. ASSUME ~opened, NEW i \in DOMAIN inviteCodes, Spends(w, i)'
        PROVE  inviteCodes[i].max = 0 \/ inviteCodes[i].uses < inviteCodes[i].max
    <3>1. OfJob(w)'.invite = job[w].invite
      BY <2>3 DEF OfJob
    <3>2. i = job[w].invite
      BY <2>4, <3>1 DEF Spends
    <3>3. mode # "open" /\ Registered # {}
      <4>1. inviteCodes # <<>>
        BY <2>4, NotEmpty DEF RegistrationInv, Typed
      <4> QED BY <2>4, <4>1 DEF RegistrationInv, InvitesCounted
    <3> QED BY <1>3, <3>2, <3>3 DEF Eligible, InviteValid
  <2> QED BY <1>1, <1>3, <2>1, <2>4, GoesOn
<1> QED BY <1>2, <1>3 DEF Read, Unless

LEMMA CheckPasswordRegisterKeeps ==
  ASSUME RegistrationInv, NEW w \in Threads, CheckPasswordRegister(w)
  PROVE  RegistrationInv'
<1>1. "count" \in Places("password register")
  BY DEF Places
<1> QED BY <1>1, Admitted DEF CheckPasswordRegister, At

LEMMA AdmitKeeps ==
  ASSUME RegistrationInv, NEW w \in Threads, Admit(w)
  PROVE  RegistrationInv'
<1>1. "count" \in Places("pki register")
  BY DEF Places
<1> QED BY <1>1, Admitted DEF Admit, At

-----------------------------------------------------------------------------
(* Requests to join *)

LEMMA JoinRewritten ==
  ASSUME RegistrationTypes, NEW j \in DOMAIN joins, NEW row \in JoinRows,
         joins' = [joins EXCEPT ![j] = row],
         row.name = joins[j].name, row.key = joins[j].key, joins[j].session => row.session,
         UNCHANGED <<mode, rank, credentials, challenges, inviteCodes, made, departed, opened>>
  PROVE  /\ RegistrationTypes' /\ AccountsGrow
         /\ DOMAIN joins' = DOMAIN joins /\ joins'[j] = row
         /\ \A l \in DOMAIN joins : l # j => joins'[l] = joins[l]
<1>1. joins \in Seq(JoinRows) /\ JoinRows' = JoinRows
  BY DEF RegistrationTypes, JoinRows
<1>2. /\ DOMAIN joins' = DOMAIN joins /\ joins'[j] = row
      /\ \A l \in DOMAIN joins : l # j => joins'[l] = joins[l]
      /\ joins' = [l \in DOMAIN joins |-> joins'[l]]
  OBVIOUS
<1>3. \A l \in DOMAIN joins : joins'[l] \in JoinRows
  BY <1>1, <1>2, Rows
<1>4. joins' \in Seq(JoinRows) /\ Len(joins') = Len(joins)
  BY <1>1, <1>2, <1>3, Rewritten
<1>5. ChallengeRows' = ChallengeRows /\ AccountRows' = AccountRows /\ Registered' = Registered
  BY <1>4 DEF ChallengeRows, AccountRows, Registered
<1>6. RegistrationTypes'
  BY <1>1, <1>4, <1>5 DEF RegistrationTypes
<1>7. AccountsGrow
  BY <1>2, Lengths DEF AccountsGrow
<1> QED BY <1>2, <1>6, <1>7

LEMMA JoinAdded ==
  ASSUME RegistrationTypes, NEW row \in JoinRows, row.status # "approved",
         joins' = Append(joins, row),
         UNCHANGED <<mode, rank, credentials, challenges, inviteCodes, made, departed, opened>>
  PROVE  /\ RegistrationTypes' /\ AccountsGrow
         /\ \A j \in DOMAIN joins' : joins'[j].status = "approved" =>
              j \in DOMAIN joins /\ joins[j].status = "approved"
<1> DEFINE Accounts == [account : AccountRows, role : Ranks, conflict : BOOLEAN]
<1>1. joins \in Seq(JoinRows) /\ JoinRows' = JoinRows /\ Registered' = Registered
  BY DEF RegistrationTypes, JoinRows, Registered
<1>2. /\ DOMAIN joins' = DOMAIN joins \cup {Len(joins) + 1}
      /\ \A j \in DOMAIN joins : joins'[j] = joins[j]
      /\ joins'[Len(joins) + 1] = row
  BY <1>1, OneMore
<1>3. joins' \in Seq(JoinRows) /\ Len(joins') = Len(joins) + 1
  BY <1>1, Appended, Elements
<1>4. made \in Seq(Accounts)'
  <2>1. made \in Seq(Accounts) /\ Len(joins) \in Nat
    BY Lengths DEF RegistrationTypes
  <2>2. 0 .. Len(joins) \subseteq 0 .. Len(joins')
    BY <1>3, <2>1
  <2>3. \A a \in AccountRows : a \in AccountRows'
    BY <2>2 DEF AccountRows
  <2>4. \A r \in Accounts : r \in Accounts'
    BY <2>3
  <2>5. \A k \in DOMAIN made : made[k] \in Accounts
    BY <2>1, Elements
  <2> HIDE DEF Accounts
  <2> QED BY <2>1, <2>4, <2>5, Widened
<1>5. ChallengeRows' = ChallengeRows
  BY DEF ChallengeRows
<1>6. RegistrationTypes'
  BY <1>1, <1>3, <1>4, <1>5 DEF RegistrationTypes
<1>7. AccountsGrow
  BY <1>2, Lengths DEF AccountsGrow
<1> QED BY <1>2, <1>6, <1>7

LEMMA CreateJoinRequestKeeps ==
  ASSUME RegistrationInv, NEW w \in Threads, CreateJoinRequest(w)
  PROVE  RegistrationInv'
<1> DEFINE row == [name |-> job[w].name, key |-> job[w].key, status |-> "pending", session |-> FALSE]
<1>1. /\ job[w].at = "ask" /\ Respond(w) /\ joins' = Append(joins, row)
      /\ UNCHANGED <<mode, rank, credentials, challenges, inviteCodes, made, departed, opened>>
  BY DEF CreateJoinRequest
<1>2. FieldsMatch(job[w]) /\ FitsAccount(job[w]) /\ job[w] # Free
  BY <1>1, ServingMaker DEF RegistrationInv
<1>3. job[w].op = "access"
  BY <1>1, <1>2 DEF FitsAccount, Places
<1>4. row \in JoinRows /\ row.status # "approved"
  BY <1>2, <1>3 DEF FieldsMatch, JoinRows
<1> HIDE DEF row
<1>5. /\ RegistrationTypes' /\ AccountsGrow
      /\ \A j \in DOMAIN joins' : joins'[j].status = "approved" =>
           j \in DOMAIN joins /\ joins[j].status = "approved"
  BY <1>1, <1>4, JoinAdded DEF RegistrationInv, Typed
<1> QED BY <1>1, <1>5, QuietAnswer

LEMMA ApproveKeeps ==
  ASSUME RegistrationInv, NEW w \in Threads, Approve(w)
  PROVE  RegistrationInv'
<1>0. PICK j : j = job[w].join
  OBVIOUS
<1> DEFINE row == [joins[j] EXCEPT !.status = "approved"]
<1>1. /\ job[w].op = "approve" /\ job[w].at = "close" /\ Respond(w)
      /\ joins' = [joins EXCEPT ![j] = row]
      /\ UNCHANGED <<mode, rank, credentials, challenges, inviteCodes, made, departed, opened>>
  BY <1>0 DEF Approve, At
<1>2. j \in DOMAIN joins /\ joins[j].session /\ HasAccount(j)
  BY <1>0, <1>1, ServingMaker DEF RegistrationInv, FieldsMatch, FitsAccount
<1>3. joins[j] \in JoinRows
  BY <1>2, Rows DEF RegistrationInv, Typed
<1>4. /\ row \in JoinRows /\ row.name = joins[j].name /\ row.key = joins[j].key
      /\ row.session = joins[j].session
  BY <1>3 DEF JoinRows
<1> HIDE DEF row
<1>5. /\ RegistrationTypes' /\ AccountsGrow
      /\ DOMAIN joins' = DOMAIN joins /\ joins'[j] = row
      /\ \A l \in DOMAIN joins : l # j => joins'[l] = joins[l]
  BY <1>1, <1>2, <1>4, JoinRewritten DEF RegistrationInv, Typed
<1>6. HasAccount(j)'
  BY <1>2, <1>5, StillThere DEF RegistrationInv, Typed
<1>7. \A l \in DOMAIN joins' : joins'[l].status = "approved" =>
        \/ l \in DOMAIN joins /\ joins[l].status = "approved"
        \/ joins'[l].session /\ HasAccount(l)'
  BY <1>2, <1>4, <1>5, <1>6
<1> QED BY <1>1, <1>5, <1>7, QuietAnswer

LEMMA DenyKeeps ==
  ASSUME RegistrationInv, NEW w \in Threads, Deny(w)
  PROVE  RegistrationInv'
<1> DEFINE j == job[w].join
           row == [joins[j] EXCEPT !.status = "denied"]
<1>1. /\ job[w].op = "deny" /\ job[w].at = "check" /\ Respond(w)
      /\ UNCHANGED <<mode, rank, credentials, challenges, inviteCodes, made, departed, opened>>
      /\ joins' = [joins EXCEPT ![j] = row] \/ joins' = joins
  BY DEF Deny, At
<1>2. CASE joins' = joins
  BY <1>1, <1>2, Refuses DEF registration, registrationTables
<1>3. CASE joins' = [joins EXCEPT ![j] = row]
  <2>1. j \in DOMAIN joins
    BY <1>1, ServingMaker DEF RegistrationInv, FieldsMatch, FitsAccount
  <2>2. joins[j] \in JoinRows
    BY <2>1, Rows DEF RegistrationInv, Typed
  <2>3. /\ row \in JoinRows /\ row.name = joins[j].name /\ row.key = joins[j].key
        /\ row.session = joins[j].session /\ row.status # "approved"
    BY <2>2 DEF JoinRows
  <2> HIDE DEF row, j
  <2>4. /\ RegistrationTypes' /\ AccountsGrow
        /\ DOMAIN joins' = DOMAIN joins /\ joins'[j] = row
        /\ \A l \in DOMAIN joins : l # j => joins'[l] = joins[l]
    BY <1>1, <1>3, <2>1, <2>3, JoinRewritten DEF RegistrationInv, Typed
  <2>5. \A l \in DOMAIN joins' : joins'[l].status = "approved" =>
          l \in DOMAIN joins /\ joins[l].status = "approved"
    BY <2>3, <2>4
  <2> QED BY <1>1, <2>4, <2>5, QuietAnswer
<1> QED BY <1>1, <1>2, <1>3

LEMMA StoreJoinSessionKeeps ==
  ASSUME RegistrationInv, NEW w \in Threads, StoreJoinSession(w)
  PROVE  RegistrationInv'
<1>0. PICK j : j = job[w].join
  OBVIOUS
<1> DEFINE row == [joins[j] EXCEPT !.session = TRUE]
<1>1. /\ job[w].op = "approve" /\ job[w].at = "session" /\ Proceed(w, "close")
      /\ joins' = [joins EXCEPT ![j] = row]
      /\ UNCHANGED <<mode, rank, credentials, challenges, inviteCodes, made, departed, opened>>
  BY <1>0 DEF StoreJoinSession, At
<1>2. FieldsMatch(job[w]) /\ j \in DOMAIN joins /\ HasAccount(j)
  BY <1>0, <1>1, ServingMaker DEF RegistrationInv, FieldsMatch, FitsAccount
<1>3. joins[j] \in JoinRows
  BY <1>2, Rows DEF RegistrationInv, Typed
<1>4. /\ row \in JoinRows /\ row.name = joins[j].name /\ row.key = joins[j].key
      /\ row.session /\ row.status = joins[j].status
  BY <1>3 DEF JoinRows
<1>5. Moves(w) /\ GoesTo(w, "close", job[w].saw)
  BY <1>1, GoingOn DEF RegistrationInv
<1> HIDE DEF row
<1>6. /\ RegistrationTypes' /\ AccountsGrow
      /\ DOMAIN joins' = DOMAIN joins /\ joins'[j] = row
      /\ \A l \in DOMAIN joins : l # j => joins'[l] = joins[l]
  BY <1>1, <1>2, <1>4, JoinRewritten DEF RegistrationInv, Typed
<1>7. HasAccount(j)'
  BY <1>2, <1>6, StillThere DEF RegistrationInv, Typed
<1>8. \A l \in DOMAIN joins' : joins'[l].status = "approved" =>
        l \in DOMAIN joins /\ joins[l].status = "approved"
  BY <1>2, <1>4, <1>6
<1>9. "close" \in Places(job[w].op)
  BY <1>1 DEF Places
<1>10. FitsAccount(job[w])'
  <2>1. job'[w].join = j
    BY <1>0, <1>1, <1>2, <1>5, SameFields DEF GoesTo, FieldsMatch
  <2>2. HasAccount(job[w].join)'
    BY <1>7, <2>1
  <2>3. joins'[job[w].join].session
    BY <1>0, <1>4, <1>6
  <2> QED BY <1>1, <1>5, <1>6, <1>9, <2>2, <2>3, GoneFits DEF RegistrationInv
<1>11. job'[w].op = "approve" /\ job'[w].at = "close"
  BY <1>1, <1>2, <1>5, SameFields DEF GoesTo
<1>12. (\A i : ~Spends(w, i)') /\ SuitsOwners(job[w])'
  BY <1>11 DEF Spends, SuitsOwners
<1>13. job[w].at # "credential" /\ challenges' = challenges
  BY <1>1
<1> QED BY <1>1, <1>5, <1>6, <1>8, <1>10, <1>12, <1>13, Quiet

-----------------------------------------------------------------------------
(* Invites and the mode *)

LEMMA InvitesChanged ==
  ASSUME RegistrationTypes, inviteCodes' \in Seq(InviteRows), Len(inviteCodes) <= Len(inviteCodes'),
         UNCHANGED <<mode, rank, credentials, challenges, joins, made, departed, opened>>
  PROVE  RegistrationTypes' /\ AccountsGrow
<1> DEFINE Accounts == [account : AccountRows, role : Ranks, conflict : BOOLEAN]
<1>1. AccountsGrow
  BY Lengths DEF AccountsGrow
<1>2. 0 .. Len(inviteCodes) \subseteq 0 .. Len(inviteCodes')
  <2>1. Len(inviteCodes) \in Nat /\ Len(inviteCodes') \in Nat
    BY Lengths, Elements
  <2> QED BY <2>1
<1>3. /\ \A c \in ChallengeRows : c \in ChallengeRows'
      /\ \A a \in AccountRows : a \in AccountRows'
  BY <1>2 DEF ChallengeRows, AccountRows
<1>4. challenges' \in Seq(ChallengeRows)'
  <2>1. challenges \in Seq(ChallengeRows) /\ \A c \in DOMAIN challenges : challenges[c] \in ChallengeRows
    BY Rows DEF RegistrationTypes
  <2> QED BY <1>3, <2>1, Widened
<1>5. made' \in Seq(Accounts)'
  <2>1. made \in Seq(Accounts) /\ \A k \in DOMAIN made : made[k] \in Accounts
    BY Rows DEF RegistrationTypes
  <2>2. \A r \in Accounts : r \in Accounts'
    BY <1>3
  <2> HIDE DEF Accounts
  <2> QED BY <2>1, <2>2, Widened
<1>6. JoinRows' = JoinRows /\ Registered' = Registered /\ InviteRows' = InviteRows
  BY DEF JoinRows, Registered, InviteRows
<1>7. RegistrationTypes'
  BY <1>4, <1>5, <1>6 DEF RegistrationTypes
<1> QED BY <1>1, <1>7

\* An answer that changes invites.
LEMMA InvitesAnswer ==
  ASSUME RegistrationInv, NEW w \in Threads, job[w].at # "none", job[w].at # "credential", Respond(w),
         inviteCodes' \in Seq(InviteRows), Len(inviteCodes) <= Len(inviteCodes'),
         UNCHANGED <<mode, rank, credentials, challenges, joins, made, departed, opened>>,
         Registered = {} /\ inviteCodes = <<>> => inviteCodes' = <<>>,
         \A i \in DOMAIN inviteCodes' :
            /\ i \notin DOMAIN inviteCodes \/ CountedInvites(i)
            /\ Spenders(i)' \subseteq Spenders(i) \ {w}
            => Settled(i)
  PROVE  RegistrationInv'
<1>1. Typed /\ InvitesCounted /\ OwnerKept /\ Complete
  BY DEF RegistrationInv
<1>2. Moves(w) /\ job'[w] = Free
  BY <1>1, GoingOn
<1>3. RegistrationTypes' /\ AccountsGrow
  BY <1>1, InvitesChanged DEF Typed
<1>4. (\A i : ~Spends(w, i)') /\ SuitsOwners(job[w])' /\ FitsAccount(job[w])'
  BY <1>2, Idle
<1>5. Typed'
  BY <1>1, <1>2, <1>3, <1>4, TypesKept
<1>6. calls'.atOnce = calls.atOnce /\ \A v \in Threads \ {w} : job'[v] = job[v]
  BY <1>1, <1>2, MoveKeepsPool DEF Typed, Moves
<1>7. InvitesCounted'
  <2>1. ASSUME NEW i \in DOMAIN inviteCodes', i \notin DOMAIN inviteCodes \/ CountedInvites(i)
        PROVE  Settled(i)
    <3>1. Spenders(i)' \subseteq Spenders(i)
      BY <1>1, <1>3, <1>4, <1>6, SpendersStay
    <3>2. w \notin Spenders(i)'
      BY <1>4 DEF Spenders
    <3> QED BY <2>1, <3>1, <3>2
  <2>2. ~opened' => ~opened /\ mode' # "open" /\ (Registered' = {} => inviteCodes' = <<>>)
    BY <1>1 DEF InvitesCounted, Registered
  <2> QED BY <1>1, <1>3, <1>5, <1>6, <2>1, <2>2, InvitesStay
<1>8. OwnerKept'
  BY <1>1, <1>4, <1>6, OwnersStay
<1>9. Complete'
  <2>1. \A k \in DOMAIN made : made'[k].conflict \/ ~made[k].conflict
    OBVIOUS
  <2>2. \A j \in DOMAIN joins' : joins'[j].status = "approved" =>
           j \in DOMAIN joins /\ joins[j].status = "approved"
    OBVIOUS
  <2> QED BY <1>1, <1>3, <1>6, <2>1, <2>2, CompleteStays
<1> QED BY <1>5, <1>7, <1>8, <1>9 DEF RegistrationInv

LEMMA InviteRewritten ==
  ASSUME RegistrationTypes, NEW i \in DOMAIN inviteCodes, NEW row \in InviteRows,
         inviteCodes' = [inviteCodes EXCEPT ![i] = row]
  PROVE  /\ inviteCodes' \in Seq(InviteRows) /\ Len(inviteCodes) <= Len(inviteCodes')
         /\ DOMAIN inviteCodes' = DOMAIN inviteCodes /\ inviteCodes'[i] = row
         /\ \A l \in DOMAIN inviteCodes : l # i => inviteCodes'[l] = inviteCodes[l]
<1>1. inviteCodes \in Seq(InviteRows)
  BY DEF RegistrationTypes
<1>2. /\ DOMAIN inviteCodes' = DOMAIN inviteCodes /\ inviteCodes'[i] = row
      /\ \A l \in DOMAIN inviteCodes : l # i => inviteCodes'[l] = inviteCodes[l]
      /\ inviteCodes' = [l \in DOMAIN inviteCodes |-> inviteCodes'[l]]
  OBVIOUS
<1>3. \A l \in DOMAIN inviteCodes : inviteCodes'[l] \in InviteRows
  BY <1>2, Rows
<1>4. inviteCodes' \in Seq(InviteRows) /\ Len(inviteCodes') = Len(inviteCodes)
  BY <1>1, <1>2, <1>3, Rewritten
<1>5. Len(inviteCodes) \in Nat
  BY Lengths
<1> QED BY <1>2, <1>4, <1>5

LEMMA InviteAdded ==
  ASSUME RegistrationTypes, NEW row \in InviteRows, inviteCodes' = Append(inviteCodes, row)
  PROVE  /\ inviteCodes' \in Seq(InviteRows) /\ Len(inviteCodes) <= Len(inviteCodes')
         /\ DOMAIN inviteCodes' = DOMAIN inviteCodes \cup {Len(inviteCodes) + 1}
         /\ \A l \in DOMAIN inviteCodes : inviteCodes'[l] = inviteCodes[l]
         /\ inviteCodes'[Len(inviteCodes) + 1] = row
<1>1. inviteCodes \in Seq(InviteRows)
  BY DEF RegistrationTypes
<1>2. inviteCodes' \in Seq(InviteRows) /\ Len(inviteCodes') = Len(inviteCodes) + 1
  BY <1>1, Appended, Elements
<1>3. Len(inviteCodes) \in Nat
  BY Lengths
<1> QED BY <1>1, <1>2, <1>3, OneMore

LEMMA NaturalPositive ==
  ASSUME NEW m \in Nat, NEW u, u = 0
  PROVE  m = 0 \/ u < m
  OBVIOUS

LEMMA Index ==
  ASSUME RegistrationTypes, NEW i \in 0 .. Len(inviteCodes), i # 0
  PROVE  i \in DOMAIN inviteCodes
  BY Lengths

\* An invite that is not touched is settled, and so is one that is only revoked.
LEMMA Untouched ==
  ASSUME NEW i \in DOMAIN inviteCodes, CountedInvites(i), NEW w,
         Spenders(i)' \subseteq Spenders(i) \ {w},
         inviteCodes'[i].max = inviteCodes[i].max, inviteCodes'[i].uses = inviteCodes[i].uses
  PROVE  Settled(i)
  BY DEF Settled

LEMMA UseInviteKeeps ==
  ASSUME RegistrationInv, NEW w \in Threads, UseInvite(w)
  PROVE  RegistrationInv'
<1>0. PICK i : i = OfJob(w).invite
  OBVIOUS
<1>1. /\ job[w].at = "spend" /\ Respond(w)
      /\ UNCHANGED <<mode, rank, credentials, challenges, joins, made, departed, opened>>
      /\ inviteCodes' = IF i = 0 \/ ~inviteCodes[i].live THEN inviteCodes
                        ELSE [inviteCodes EXCEPT ![i] = [inviteCodes[i] EXCEPT !.uses = @ + 1]]
  BY <1>0 DEF UseInvite
<1>2. CASE inviteCodes' = inviteCodes
  BY <1>1, <1>2, Refuses DEF registration, registrationTables
<1>3. CASE i # 0 /\ inviteCodes' = [inviteCodes EXCEPT ![i] = [inviteCodes[i] EXCEPT !.uses = @ + 1]]
  <2> DEFINE row == [inviteCodes[i] EXCEPT !.uses = @ + 1]
  <2>1. FieldsMatch(job[w]) /\ FitsAccount(job[w]) /\ job[w] # Free
    BY <1>1, ServingMaker DEF RegistrationInv
  <2>2. job[w].op \in Makers \ {"approve"}
    BY <1>1, <2>1 DEF FitsAccount, FieldsMatch, Places, Makers
  <2>3. OfJob(w).invite \in 0 .. Len(inviteCodes)
    <3>1. OfJob(w) \in AccountRows
      BY <1>1, <2>2, OfJobTyped DEF RegistrationInv
    <3> QED BY <3>1 DEF AccountRows
  <2>4. i \in DOMAIN inviteCodes
    BY <1>0, <1>3, <2>3, Lengths DEF RegistrationInv, Typed
  <2>5. inviteCodes[i] \in InviteRows
    BY <2>4, Rows DEF RegistrationInv, Typed
  <2>6. row \in InviteRows /\ row.max = inviteCodes[i].max /\ row.uses = inviteCodes[i].uses + 1
    BY <2>5 DEF InviteRows
  <2> HIDE DEF row
  <2>7. /\ inviteCodes' \in Seq(InviteRows) /\ Len(inviteCodes) <= Len(inviteCodes')
        /\ DOMAIN inviteCodes' = DOMAIN inviteCodes /\ inviteCodes'[i] = row
        /\ \A l \in DOMAIN inviteCodes : l # i => inviteCodes'[l] = inviteCodes[l]
    <3>1. inviteCodes' = [inviteCodes EXCEPT ![i] = row]
      BY <1>3 DEF row
    <3> QED BY <2>4, <2>6, <3>1, InviteRewritten DEF RegistrationInv, Typed
  <2>8. w \in Spenders(i)
    BY <1>0, <1>1, <2>2 DEF Spenders, Spends
  <2>9. ASSUME NEW l \in DOMAIN inviteCodes', CountedInvites(l), Spenders(l)' \subseteq Spenders(l) \ {w}
        PROVE  Settled(l)
    <3>1. CASE l = i
      BY <2>4, <2>6, <2>7, <2>8, <2>9, <3>1 DEF Settled
    <3>2. CASE l # i
      <4>1. inviteCodes'[l] = inviteCodes[l] /\ l \in DOMAIN inviteCodes
        BY <2>7, <2>9, <3>2
      <4> QED BY <2>9, <4>1, Untouched
    <3> QED BY <3>1, <3>2
  <2>10. inviteCodes # <<>>
    BY <2>4, NotEmpty DEF RegistrationInv, Typed
  <2>11. job[w].at # "none" /\ job[w].at # "credential"
    BY <1>1
  <2> QED BY <1>1, <2>7, <2>9, <2>10, <2>11, InvitesAnswer
<1> QED BY <1>1, <1>2, <1>3

LEMMA CreateServerInviteKeeps ==
  ASSUME RegistrationInv, NEW w \in Threads, CreateServerInvite(w)
  PROVE  RegistrationInv'
<1> DEFINE row == [max |-> job[w].max, uses |-> 0, live |-> TRUE]
<1>1. /\ job[w].at = "check" /\ job[w].op = "create invite" /\ Respond(w)
      /\ UNCHANGED <<mode, rank, credentials, challenges, joins, made, departed, opened>>
      /\ \/ inviteCodes' = inviteCodes
         \/ Rule(job[w].by) /\ inviteCodes' = Append(inviteCodes, row)
  BY DEF CreateServerInvite, At
<1>2. CASE inviteCodes' = inviteCodes
  BY <1>1, <1>2, Refuses DEF registration, registrationTables
<1>3. CASE Rule(job[w].by) /\ inviteCodes' = Append(inviteCodes, row)
  <2>1. FieldsMatch(job[w])
    BY <1>1, ServingMaker DEF RegistrationInv
  <2>2. row \in InviteRows /\ row.max \in Nat /\ row.uses = 0
    BY <1>1, <2>1 DEF FieldsMatch, InviteRows
  <2>3. Registered # {}
    BY <1>1, <1>3, <2>1 DEF FieldsMatch, Rulers, Rule, Registered, NoAccount
  <2> HIDE DEF row
  <2>4. /\ inviteCodes' \in Seq(InviteRows) /\ Len(inviteCodes) <= Len(inviteCodes')
        /\ DOMAIN inviteCodes' = DOMAIN inviteCodes \cup {Len(inviteCodes) + 1}
        /\ \A l \in DOMAIN inviteCodes : inviteCodes'[l] = inviteCodes[l]
        /\ inviteCodes'[Len(inviteCodes) + 1] = row
    BY <1>3, <2>2, InviteAdded DEF RegistrationInv, Typed
  <2>5. ASSUME NEW l \in DOMAIN inviteCodes', l \notin DOMAIN inviteCodes \/ CountedInvites(l),
               Spenders(l)' \subseteq Spenders(l) \ {w}
        PROVE  Settled(l)
    <3>1. CASE l \in DOMAIN inviteCodes
      <4>1. inviteCodes'[l] = inviteCodes[l]
        BY <2>4, <3>1
      <4> QED BY <2>5, <3>1, <4>1, Untouched
    <3>2. CASE l \notin DOMAIN inviteCodes
      <4>1. inviteCodes'[l] = row
        BY <2>4, <2>5, <3>2
      <4>2. row.max = 0 \/ row.uses < row.max
        BY <2>2, NaturalPositive
      <4> QED BY <4>1, <4>2 DEF Settled
    <3> QED BY <3>1, <3>2
  <2>6. job[w].at # "none" /\ job[w].at # "credential"
    BY <1>1
  <2> QED BY <1>1, <2>3, <2>4, <2>5, <2>6, InvitesAnswer
<1> QED BY <1>1, <1>2, <1>3

LEMMA RevokeInviteKeeps ==
  ASSUME RegistrationInv, NEW w \in Threads, RevokeInvite(w)
  PROVE  RegistrationInv'
<1>0. PICK i : i = job[w].invite
  OBVIOUS
<1> DEFINE row == [inviteCodes[i] EXCEPT !.live = FALSE]
<1>1. /\ job[w].at = "check" /\ job[w].op = "revoke" /\ Respond(w)
      /\ UNCHANGED <<mode, rank, credentials, challenges, joins, made, departed, opened>>
      /\ \/ inviteCodes' = inviteCodes
         \/ i # 0 /\ inviteCodes' = [inviteCodes EXCEPT ![i] = row]
  BY <1>0 DEF RevokeInvite, At
<1>2. CASE inviteCodes' = inviteCodes
  BY <1>1, <1>2, Refuses DEF registration, registrationTables
<1>3. CASE i # 0 /\ inviteCodes' = [inviteCodes EXCEPT ![i] = row]
  <2>1. i \in 0 .. Len(inviteCodes)
    BY <1>0, <1>1, ServingMaker DEF RegistrationInv, FieldsMatch, FitsAccount
  <2>2. i \in DOMAIN inviteCodes
    BY <1>3, <2>1, Index DEF RegistrationInv, Typed
  <2>3. inviteCodes[i] \in InviteRows
    BY <2>2, Rows DEF RegistrationInv, Typed
  <2>4. row \in InviteRows /\ row.max = inviteCodes[i].max /\ row.uses = inviteCodes[i].uses
    BY <2>3 DEF InviteRows
  <2> HIDE DEF row
  <2>5. /\ inviteCodes' \in Seq(InviteRows) /\ Len(inviteCodes) <= Len(inviteCodes')
        /\ DOMAIN inviteCodes' = DOMAIN inviteCodes /\ inviteCodes'[i] = row
        /\ \A l \in DOMAIN inviteCodes : l # i => inviteCodes'[l] = inviteCodes[l]
    BY <1>3, <2>2, <2>4, InviteRewritten DEF RegistrationInv, Typed
  <2>6. ASSUME NEW l \in DOMAIN inviteCodes', CountedInvites(l), Spenders(l)' \subseteq Spenders(l) \ {w}
        PROVE  Settled(l)
    <3>1. inviteCodes'[l].max = inviteCodes[l].max /\ inviteCodes'[l].uses = inviteCodes[l].uses
      BY <2>4, <2>5, <2>6
    <3>2. l \in DOMAIN inviteCodes
      BY <2>5, <2>6
    <3> QED BY <2>6, <3>1, <3>2, Untouched
  <2>7. inviteCodes # <<>>
    BY <2>2, NotEmpty DEF RegistrationInv, Typed
  <2>8. job[w].at # "none" /\ job[w].at # "credential"
    BY <1>1
  <2> QED BY <1>1, <2>5, <2>6, <2>7, <2>8, InvitesAnswer
<1> QED BY <1>1, <1>2, <1>3

LEMMA ChangeModeKeeps ==
  ASSUME RegistrationInv, NEW w \in Threads, ChangeMode(w)
  PROVE  RegistrationInv'
<1>1. /\ job[w].at = "check" /\ job[w].op = "mode" /\ Respond(w)
      /\ mode' = mode \/ mode' = job[w].mode
      /\ opened' = (opened \/ mode' = "open")
      /\ UNCHANGED <<rank, credentials, challenges, inviteCodes, joins, made, departed>>
  BY DEF ChangeMode, At
<1>2. Typed /\ InvitesCounted /\ OwnerKept /\ Complete /\ FieldsMatch(job[w])
  BY <1>1, ServingMaker DEF RegistrationInv
<1>3. Moves(w) /\ job'[w] = Free
  BY <1>1, <1>2, GoingOn
<1>4. (\A i : ~Spends(w, i)') /\ SuitsOwners(job[w])' /\ FitsAccount(job[w])'
  BY <1>3, Idle
<1>5. RegistrationTypes' /\ AccountsGrow
  <2>1. mode' \in Modes /\ opened' \in BOOLEAN
    BY <1>1, <1>2 DEF FieldsMatch, Typed, RegistrationTypes
  <2>2. Registered' = Registered
    BY <1>1 DEF Registered
  <2>3. /\ InviteRows' = InviteRows /\ ChallengeRows' = ChallengeRows
        /\ JoinRows' = JoinRows /\ AccountRows' = AccountRows
    BY <1>1 DEF InviteRows, ChallengeRows, JoinRows, AccountRows
  <2>4. RegistrationTypes'
    BY <1>1, <1>2, <2>1, <2>2, <2>3 DEF Typed, RegistrationTypes
  <2>5. AccountsGrow
    BY <1>1, <1>2, Lengths DEF Typed, AccountsGrow
  <2> QED BY <2>4, <2>5
<1>6. Typed'
  BY <1>2, <1>3, <1>4, <1>5, TypesKept
<1>7. calls'.atOnce = calls.atOnce /\ \A v \in Threads \ {w} : job'[v] = job[v]
  BY <1>2, <1>3, MoveKeepsPool DEF Typed, Moves
<1>8. InvitesCounted'
  <2>1. ASSUME NEW i \in DOMAIN inviteCodes', CountedInvites(i)
        PROVE  Settled(i)
    <3>1. Spenders(i)' \subseteq Spenders(i)
      BY <1>1, <1>2, <1>4, <1>5, <1>7, SpendersStay
    <3> QED BY <1>1, <2>1, <3>1 DEF Settled
  <2>2. ~opened' => ~opened /\ mode' # "open" /\ (Registered' = {} => inviteCodes' = <<>>)
    BY <1>1, <1>2 DEF InvitesCounted, Registered
  <2>3. DOMAIN inviteCodes' = DOMAIN inviteCodes
    BY <1>1
  <2> QED BY <1>2, <1>5, <1>6, <1>7, <2>1, <2>2, <2>3, InvitesStay
<1>9. OwnerKept'
  BY <1>1, <1>2, <1>4, <1>7, OwnersStay
<1>10. Complete'
  <2>1. \A k \in DOMAIN made : made'[k].conflict \/ ~made[k].conflict
    BY <1>1
  <2>2. \A j \in DOMAIN joins' : joins'[j].status = "approved" =>
           j \in DOMAIN joins /\ joins[j].status = "approved"
    BY <1>1
  <2>3. job[w].at # "credential"
    BY <1>1
  <2> QED BY <1>1, <1>2, <1>5, <1>7, <2>1, <2>2, <2>3, CompleteStays
<1> QED BY <1>6, <1>8, <1>9, <1>10 DEF RegistrationInv

-----------------------------------------------------------------------------
(* Steps that change who has an account, and which *)

LEMMA InvitesUntouched ==
  ASSUME Typed, Typed', AccountsGrow, InvitesCounted, calls'.atOnce = calls.atOnce,
         NEW w \in Threads, \A v \in Threads \ {w} : job'[v] = job[v],
         \A i : Spends(w, i)' => Spends(w, i),
         challenges' = challenges, inviteCodes' = inviteCodes,
         ~opened' => ~opened /\ mode' = mode /\ (Registered' = {} => Registered = {})
  PROVE  InvitesCounted'
<1>1. ASSUME NEW i \in DOMAIN inviteCodes', CountedInvites(i) PROVE Settled(i)
  <2>1. Spenders(i)' \subseteq Spenders(i)
    BY SpendersStay
  <2> QED BY <1>1, <2>1 DEF Settled
<1>2. ~opened' => ~opened /\ mode' # "open" /\ (Registered' = {} => inviteCodes' = <<>>)
  BY DEF InvitesCounted
<1>3. DOMAIN inviteCodes' = DOMAIN inviteCodes
  OBVIOUS
<1> QED BY <1>1, <1>2, <1>3, InvitesStay

\* With one request at a time the others are free, and suit any owners.
LEMMA OthersSuit ==
  ASSUME Typed, OneAtATime, NEW w \in Threads, job[w] # Free,
         \A v \in Threads \ {w} : job'[v] = job[v], SuitsOwners(job[w])'
  PROVE  \A v \in Threads : SuitsOwners(job[v])'
<1>1. ASSUME NEW v \in Threads, v # w PROVE SuitsOwners(job[v])'
  <2>1. job[v] = Free
    BY <1>1, Alone DEF Typed
  <2>2. job'[v] = Free
    BY <1>1, <2>1
  <2> QED BY <2>2, Idle
<1> QED BY <1>1

LEMMA RanksTyped ==
  ASSUME RegistrationTypes, rank' \in [Names -> Ranks \cup {NoAccount}], IsFiniteSet(Registered'),
         credentials' \subseteq Names \X Keys, departed' \in BOOLEAN, opened' \in BOOLEAN,
         UNCHANGED <<mode, challenges, inviteCodes, joins, made>>
  PROVE  RegistrationTypes' /\ AccountsGrow
<1>1. /\ InviteRows' = InviteRows /\ ChallengeRows' = ChallengeRows
      /\ JoinRows' = JoinRows /\ AccountRows' = AccountRows
  BY DEF InviteRows, ChallengeRows, JoinRows, AccountRows
<1>2. RegistrationTypes'
  BY <1>1 DEF RegistrationTypes
<1>3. AccountsGrow
  BY Lengths DEF AccountsGrow
<1> QED BY <1>2, <1>3

LEMMA SetServerRoleKeeps ==
  ASSUME RegistrationInv, NEW w \in Threads, SetServerRole(w)
  PROVE  RegistrationInv'
<1>0. PICK n, role : n = job[w].of /\ role = job[w].role
  OBVIOUS
<1>1. /\ job[w].at = "set role" /\ job[w].op = "role" /\ Respond(w)
      /\ UNCHANGED <<mode, credentials, challenges, inviteCodes, joins, made, departed, opened>>
      /\ \/ rank' = rank
         \/ n \in Registered /\ rank' = [rank EXCEPT ![n] = role]
  BY <1>0 DEF SetServerRole, At, Is
<1>2. CASE rank' = rank
  BY <1>1, <1>2, Refuses DEF registration, registrationTables
<1>3. CASE n \in Registered /\ rank' = [rank EXCEPT ![n] = role]
  <2>1. Typed /\ InvitesCounted /\ OwnerKept /\ Complete /\ FieldsMatch(job[w]) /\ job[w] # Free
    BY <1>1, ServingMaker DEF RegistrationInv
  <2>2. n \in Names /\ role \in Ranks
    BY <1>0, <1>1, <2>1 DEF FieldsMatch
  <2>3. rank \in [Names -> Ranks \cup {NoAccount}] /\ IsFiniteSet(Registered)
        /\ credentials \subseteq Names \X Keys /\ departed \in BOOLEAN /\ opened \in BOOLEAN
    BY <2>1 DEF Typed, RegistrationTypes
  <2>4. /\ rank' \in [Names -> Ranks \cup {NoAccount}]
        /\ rank'[n] = role /\ \A m \in Names : m # n => rank'[m] = rank[m]
    BY <1>3, <2>2, <2>3
  <2>5. role # NoAccount
    BY <2>2 DEF Ranks, NoAccount
  <2>6. Registered' = Registered
    BY <1>3, <2>2, <2>4, <2>5 DEF Registered
  <2>7. RegistrationTypes' /\ AccountsGrow
    BY <1>1, <2>1, <2>3, <2>4, <2>6, RanksTyped DEF Typed
  <2>8. Moves(w) /\ job'[w] = Free
    BY <1>1, <2>1, GoingOn
  <2>9. (\A i : ~Spends(w, i)') /\ SuitsOwners(job[w])' /\ FitsAccount(job[w])'
    BY <2>8, Idle
  <2>10. Typed'
    BY <2>1, <2>7, <2>8, <2>9, TypesKept
  <2>11. calls'.atOnce = calls.atOnce /\ \A v \in Threads \ {w} : job'[v] = job[v]
    BY <2>1, <2>8, MoveKeepsPool DEF Typed, Moves
  <2>12. InvitesCounted'
    BY <1>1, <2>1, <2>6, <2>7, <2>9, <2>10, <2>11, InvitesUntouched
  <2>13. OwnerKept'
    <3>1. SUFFICES ASSUME OneAtATime, ~departed PROVE OwnerKept'
      BY <1>1, <2>11 DEF OwnerKept, OneAtATime
    <3>2. OwnersMade' = OwnersMade
      BY <1>1 DEF OwnersMade
    <3>3. /\ Registered # {} => ServerOwners # {}
          /\ Registered = {} => OwnersMade = {}
          /\ \A k, l \in OwnersMade : k = l
          /\ SuitsOwners(job[w])
      BY <2>1, <3>1 DEF OwnerKept
    <3>4. ServerOwners' # {}
      <4>1. CASE role = "owner"
        BY <2>2, <2>4, <4>1 DEF ServerOwners
      <4>2. CASE role # "owner" /\ n \in ServerOwners
        <5>1. PICK m \in ServerOwners : m # n
          BY <1>0, <1>1, <3>3, <4>2 DEF SuitsOwners
        <5> QED BY <2>4, <5>1 DEF ServerOwners
      <4>3. CASE n \notin ServerOwners
        <5>1. PICK m \in ServerOwners : TRUE
          BY <1>3, <3>3
        <5> QED BY <2>4, <4>3, <5>1 DEF ServerOwners
      <4> QED BY <4>1, <4>2, <4>3
    <3>5. \A v \in Threads : SuitsOwners(job[v])'
      BY <2>1, <2>9, <2>11, <3>1, OthersSuit
    <3> QED BY <2>6, <3>2, <3>3, <3>4, <3>5 DEF OwnerKept
  <2>14. Complete'
    <3>1. ASSUME NEW k \in DOMAIN made' PROVE Made(k)'
      <4>1. k \in DOMAIN made /\ made' = made /\ Made(k) /\ credentials' = credentials
        BY <1>1, <2>1, <3>1 DEF Complete
      <4>2. job[w].at # "credential"
        BY <1>1
      <4> QED BY <2>1, <2>6, <2>7, <2>11, <4>1, <4>2, MadeStays
    <3>2. \A j \in DOMAIN joins' : joins'[j].status = "approved" =>
             j \in DOMAIN joins /\ joins[j].status = "approved"
      BY <1>1
    <3> QED BY <2>1, <2>7, <3>1, <3>2, JoinsStay DEF Complete, Typed
  <2> QED BY <2>10, <2>12, <2>13, <2>14 DEF RegistrationInv
<1> QED BY <1>1, <1>2, <1>3

LEMMA DeleteAccountKeeps ==
  ASSUME RegistrationInv, NEW w \in Threads, DeleteAccount(w)
  PROVE  RegistrationInv'
<1>0. PICK n : n = job[w].by
  OBVIOUS
<1>1. /\ job[w].at = "delete" /\ job[w].op = "delete account" /\ Respond(w)
      /\ UNCHANGED <<mode, challenges, inviteCodes, joins, made>>
      /\ \/ UNCHANGED <<rank, credentials, departed, opened>>
         \/ /\ n \in Registered
            /\ rank' = [rank EXCEPT ![n] = NoAccount]
            /\ credentials' = {c \in credentials : c[1] # n}
            /\ departed' = (departed \/ rank[n] = "owner")
            /\ opened' = (opened \/ Registered = {n})
  BY <1>0 DEF DeleteAccount, At, Is
<1>2. CASE UNCHANGED <<rank, credentials, departed, opened>>
  BY <1>1, <1>2, Refuses DEF registration, registrationTables
<1>3. CASE /\ n \in Registered
           /\ rank' = [rank EXCEPT ![n] = NoAccount]
           /\ credentials' = {c \in credentials : c[1] # n}
           /\ departed' = (departed \/ rank[n] = "owner")
           /\ opened' = (opened \/ Registered = {n})
  <2>1. Typed /\ InvitesCounted /\ OwnerKept /\ Complete /\ FieldsMatch(job[w]) /\ job[w] # Free
    BY <1>1, ServingMaker DEF RegistrationInv
  <2>2. n \in Names
    BY <1>3 DEF Registered
  <2>3. rank \in [Names -> Ranks \cup {NoAccount}] /\ IsFiniteSet(Registered)
        /\ credentials \subseteq Names \X Keys /\ departed \in BOOLEAN /\ opened \in BOOLEAN
    BY <2>1 DEF Typed, RegistrationTypes
  <2>4. /\ rank' \in [Names -> Ranks \cup {NoAccount}]
        /\ rank'[n] = NoAccount /\ \A m \in Names : m # n => rank'[m] = rank[m]
    BY <1>3, <2>2, <2>3
  <2>5. Registered' = Registered \ {n}
    BY <2>4 DEF Registered
  <2>6. IsFiniteSet(Registered') /\ credentials' \subseteq Names \X Keys
        /\ departed' \in BOOLEAN /\ opened' \in BOOLEAN
    <3>1. Registered' \subseteq Registered
      BY <2>5
    <3>2. IsFiniteSet(Registered')
      BY <2>3, <3>1, FS_Subset
    <3> QED BY <1>3, <2>3, <3>2
  <2>7. RegistrationTypes' /\ AccountsGrow
    BY <1>1, <2>1, <2>4, <2>6, RanksTyped DEF Typed
  <2>8. Moves(w) /\ job'[w] = Free
    BY <1>1, <2>1, GoingOn
  <2>9. (\A i : ~Spends(w, i)') /\ SuitsOwners(job[w])' /\ FitsAccount(job[w])'
    BY <2>8, Idle
  <2>10. Typed'
    BY <2>1, <2>7, <2>8, <2>9, TypesKept
  <2>11. calls'.atOnce = calls.atOnce /\ \A v \in Threads \ {w} : job'[v] = job[v]
    BY <2>1, <2>8, MoveKeepsPool DEF Typed, Moves
  <2>12. InvitesCounted'
    <3>1. ~opened' => ~opened /\ mode' = mode /\ (Registered' = {} => Registered = {})
      BY <1>1, <1>3, <2>5
    <3> QED BY <1>1, <2>1, <2>7, <2>9, <2>10, <2>11, <3>1, InvitesUntouched
  <2>13. OwnerKept'
    <3>1. SUFFICES ASSUME OneAtATime, ~departed' PROVE OwnerKept'
      BY <2>11 DEF OwnerKept, OneAtATime
    <3>2. OwnersMade' = OwnersMade
      BY <1>1 DEF OwnersMade
    <3>3. ~departed /\ n \notin ServerOwners
      BY <1>3, <3>1 DEF ServerOwners
    <3>4. ServerOwners # {} /\ \A k, l \in OwnersMade : k = l
      BY <1>3, <2>1, <3>1, <3>3 DEF OwnerKept
    <3>5. PICK m \in ServerOwners : TRUE
      BY <3>4
    <3>6. m \in Names /\ rank'[m] = "owner"
      BY <2>4, <3>3, <3>5 DEF ServerOwners
    <3>7. ServerOwners' # {} /\ Registered' # {}
      BY <3>6 DEF ServerOwners, Registered, NoAccount
    <3>8. \A v \in Threads : SuitsOwners(job[v])'
      BY <2>1, <2>9, <2>11, <3>1, OthersSuit
    <3> QED BY <3>2, <3>4, <3>7, <3>8 DEF OwnerKept
  <2>14. Complete'
    <3>1. ASSUME NEW k \in DOMAIN made' PROVE Made(k)'
      <4>1. k \in DOMAIN made /\ made' = made /\ Made(k)
        BY <1>1, <2>1, <3>1 DEF Complete
      <4>2. job[w].at # "credential"
        BY <1>1
      <4>3. ASSUME made[k].account.name \in Registered'
            PROVE  /\ made[k].account.name \in Registered
                   /\ \A key \in Keys : <<made[k].account.name, key>> \in credentials =>
                                          <<made[k].account.name, key>> \in credentials'
        BY <1>3, <2>5, <4>3
      <4> QED BY <2>1, <2>7, <2>11, <4>1, <4>2, <4>3, MadeStays
    <3>2. \A j \in DOMAIN joins' : joins'[j].status = "approved" =>
             j \in DOMAIN joins /\ joins[j].status = "approved"
      BY <1>1
    <3> QED BY <2>1, <2>7, <3>1, <3>2, JoinsStay DEF Complete, Typed
  <2> QED BY <2>10, <2>12, <2>13, <2>14 DEF RegistrationInv
<1> QED BY <1>1, <1>2, <1>3

Accounts == [account : AccountRows, role : Ranks, conflict : BOOLEAN]

LEMMA AccountAdded ==
  ASSUME RegistrationTypes, NEW n \in Names, NEW role \in Ranks, NEW row \in Accounts,
         rank' = [rank EXCEPT ![n] = role], made' = Append(made, row),
         UNCHANGED <<mode, credentials, challenges, inviteCodes, joins, departed, opened>>
  PROVE  /\ RegistrationTypes' /\ AccountsGrow
         /\ rank' \in [Names -> Ranks \cup {NoAccount}]
         /\ rank'[n] = role /\ \A m \in Names : m # n => rank'[m] = rank[m]
         /\ Registered' = Registered \cup {n}
         /\ DOMAIN made' = DOMAIN made \cup {Len(made) + 1} /\ Len(made) + 1 \notin DOMAIN made
         /\ \A k \in DOMAIN made : made'[k] = made[k] /\ k < Len(made) + 1
         /\ made'[Len(made) + 1] = row
<1>1. rank \in [Names -> Ranks \cup {NoAccount}] /\ IsFiniteSet(Registered) /\ made \in Seq(Accounts)
  BY DEF RegistrationTypes, Accounts
<1>2. /\ rank' \in [Names -> Ranks \cup {NoAccount}]
      /\ rank'[n] = role /\ \A m \in Names : m # n => rank'[m] = rank[m]
  BY <1>1
<1>3. role # NoAccount
  BY DEF Ranks, NoAccount
<1>4. Registered' = Registered \cup {n}
  BY <1>2, <1>3 DEF Registered
<1>5. IsFiniteSet(Registered')
  BY <1>1, <1>4, FS_AddElement
<1>6. /\ DOMAIN made' = DOMAIN made \cup {Len(made) + 1} /\ Len(made) + 1 \notin DOMAIN made
      /\ \A k \in DOMAIN made : made'[k] = made[k]
      /\ made'[Len(made) + 1] = row
  BY <1>1, OneMore
<1>7. made' \in Seq(Accounts)
  BY <1>1, Appended, Elements
<1>8. /\ InviteRows' = InviteRows /\ ChallengeRows' = ChallengeRows
      /\ JoinRows' = JoinRows /\ AccountRows' = AccountRows
  BY DEF InviteRows, ChallengeRows, JoinRows, AccountRows
<1>9. RegistrationTypes'
  BY <1>2, <1>5, <1>7, <1>8 DEF RegistrationTypes, Accounts
<1>10. AccountsGrow
  BY <1>6, Lengths DEF AccountsGrow
<1>11. \A k \in DOMAIN made : k < Len(made) + 1
  BY Lengths
<1> QED BY <1>2, <1>4, <1>6, <1>9, <1>10, <1>11

LEMMA CreateUserKeeps ==
  ASSUME RegistrationInv, NEW w \in Threads, CreateUser(w)
  PROVE  RegistrationInv'
<1>0. PICK a, role : a = OfJob(w) /\ role = IF job[w].op = "approve" THEN "user" ELSE job[w].saw
  OBVIOUS
<1> DEFINE row == [account |-> a, role |-> role, conflict |-> FALSE]
<1>1. /\ job[w].at = "create"
      /\ UNCHANGED <<mode, credentials, challenges, inviteCodes, joins, departed, opened>>
      /\ \/ Respond(w) /\ UNCHANGED <<rank, made>>
         \/ /\ rank[a.name] = NoAccount /\ rank' = [rank EXCEPT ![a.name] = role]
            /\ made' = Append(made, row) /\ Proceed(w, "credential")
  BY <1>0 DEF CreateUser
<1>2. CASE Respond(w) /\ UNCHANGED <<rank, made>>
  BY <1>1, <1>2, Refuses DEF registration, registrationTables
<1>3. CASE /\ rank[a.name] = NoAccount /\ rank' = [rank EXCEPT ![a.name] = role]
           /\ made' = Append(made, row) /\ Proceed(w, "credential")
  <2>1. /\ Typed /\ InvitesCounted /\ OwnerKept /\ Complete
        /\ FieldsMatch(job[w]) /\ FitsAccount(job[w]) /\ job[w] # Free
    BY <1>1, ServingMaker DEF RegistrationInv
  <2>2. job[w].op \in Makers /\ "credential" \in Places(job[w].op)
    BY <1>1, <2>1 DEF FitsAccount, FieldsMatch, Places, Makers
  <2>3. a \in AccountRows /\ a.name \in Names
    <3>1. OfJob(w) \in AccountRows
      BY <1>1, <2>1, <2>2, OfJobTyped
    <3> QED BY <1>0, <3>1 DEF AccountRows
  <2>4. role \in {"owner", "user"} /\ role \in Ranks
    BY <1>0, <1>1, <2>1 DEF FitsAccount, Ranks
  <2>5. row \in Accounts /\ row.account = a /\ row.role = role
    BY <2>3, <2>4 DEF Accounts
  <2> HIDE DEF row
  <2> DEFINE new == Len(made) + 1
  <2>6. /\ RegistrationTypes' /\ AccountsGrow
        /\ rank'[a.name] = role /\ \A m \in Names : m # a.name => rank'[m] = rank[m]
        /\ Registered' = Registered \cup {a.name}
        /\ DOMAIN made' = DOMAIN made \cup {new} /\ new \notin DOMAIN made
        /\ \A k \in DOMAIN made : made'[k] = made[k] /\ k < new
        /\ made'[new] = row
    <3>1. RegistrationTypes /\ a.name \in Names /\ role \in Ranks /\ row \in Accounts
      BY <2>1, <2>3, <2>4, <2>5 DEF Typed
    <3>2. /\ rank' = [rank EXCEPT ![a.name] = role] /\ made' = Append(made, row)
          /\ UNCHANGED <<mode, credentials, challenges, inviteCodes, joins, departed, opened>>
      BY <1>1, <1>3
    <3>3. PICK n \in Names : n = a.name
      BY <3>1
    <3>4. rank' = [rank EXCEPT ![n] = role]
      BY <3>2, <3>3
    <3>5. RegistrationTypes' /\ AccountsGrow
      BY <3>1, <3>2, <3>4, AccountAdded
    <3>6. rank'[n] = role /\ \A m \in Names : m # n => rank'[m] = rank[m]
      BY <3>1, <3>2, <3>4, AccountAdded
    <3>7. Registered' = Registered \cup {n}
      BY <3>1, <3>2, <3>4, AccountAdded
    <3>8. DOMAIN made' = DOMAIN made \cup {new} /\ new \notin DOMAIN made
      BY <3>1, <3>2, <3>4, AccountAdded
    <3>9. \A k \in DOMAIN made : made'[k] = made[k] /\ k < new
      BY <3>1, <3>2, <3>4, AccountAdded
    <3>10. made'[new] = row
      BY <3>1, <3>2, <3>4, AccountAdded
    <3> QED BY <3>3, <3>5, <3>6, <3>7, <3>8, <3>9, <3>10
  <2> HIDE DEF new
  <2>7. Moves(w) /\ GoesTo(w, "credential", job[w].saw)
    BY <1>1, <1>3, <2>1, GoingOn
  <2>8. job'[w].at = "credential" /\ job'[w].op = job[w].op
        /\ (job[w].op = "approve" => job'[w].join = job[w].join)
    BY <2>1, <2>7, SameFields DEF GoesTo, FieldsMatch
  <2>9. OfJob(w)' = a
    BY <1>0, <1>1, <2>1, <2>2, <2>6, <2>7, OfJobKept DEF GoesTo
  <2>10. FitsAccount(job[w])'
    <3>1. job[w].op = "verify" => /\ challenges[job[w].challenge].type = "registration"
                                  /\ ~challenges'[job[w].challenge].live
      BY <1>1, <2>1 DEF FitsAccount
    <3>2. job[w].op = "approve" => HasAccount(job[w].join)'
      <4>1. SUFFICES ASSUME job[w].op = "approve" PROVE HasAccount(job[w].join)'
        OBVIOUS
      <4>2. a.join = job[w].join
        BY <1>0, <4>1 DEF OfJob
      <4>3. new \in DOMAIN made' /\ made'[new].account.join = job'[w].join
        BY <2>5, <2>6, <2>8, <4>1, <4>2
      <4> QED BY <4>3 DEF HasAccount
    <3> QED BY <1>1, <2>1, <2>2, <2>6, <2>7, <3>1, <3>2, GoneFits
  <2>11. SuitsOwners(job[w])'
    BY <2>8 DEF SuitsOwners
  <2>12. Typed'
    BY <2>1, <2>6, <2>7, <2>10, TypesKept
  <2>13. calls'.atOnce = calls.atOnce /\ \A v \in Threads \ {w} : job'[v] = job[v]
    BY <2>1, <2>7, MoveKeepsPool DEF Typed, Moves
  <2>14. InvitesCounted'
    <3>1. \A i : Spends(w, i)' => Spends(w, i)
      BY <1>0, <1>1, <2>8, <2>9 DEF Spends
    <3>2. ~opened' => ~opened /\ mode' = mode /\ (Registered' = {} => Registered = {})
      BY <1>1, <2>6
    <3> QED BY <1>1, <2>1, <2>6, <2>12, <2>13, <3>1, <3>2, InvitesUntouched
  <2>15. OwnerKept'
    <3>1. SUFFICES ASSUME OneAtATime, ~departed PROVE OwnerKept'
      BY <1>1, <2>13 DEF OwnerKept, OneAtATime
    <3>2. /\ Registered # {} => ServerOwners # {}
          /\ Registered = {} => OwnersMade = {}
          /\ \A k, l \in OwnersMade : k = l
          /\ SuitsOwners(job[w])
      BY <2>1, <3>1 DEF OwnerKept
    <3>3. role = "owner" <=> Registered = {}
      BY <1>0, <1>1, <2>4, <3>2 DEF SuitsOwners
    <3>4. Registered' # {}
      BY <2>6
    <3>5. ServerOwners' # {}
      <4>1. CASE Registered = {}
        BY <2>3, <2>6, <3>3, <4>1 DEF ServerOwners
      <4>2. CASE Registered # {}
        <5>1. PICK m \in ServerOwners : TRUE
          BY <3>2, <4>2
        <5>2. m # a.name
          BY <1>3, <5>1 DEF ServerOwners, NoAccount
        <5> QED BY <2>6, <5>1, <5>2 DEF ServerOwners
      <4> QED BY <4>1, <4>2
    <3>6. \A k, l \in OwnersMade' : k = l
      <4>1. OwnersMade' \subseteq IF Registered = {} THEN {new} ELSE OwnersMade
        <5>1. ASSUME NEW k \in OwnersMade'
              PROVE  IF Registered = {} THEN k = new ELSE k \in OwnersMade
          <6>1. k \in DOMAIN made' /\ made'[k].role = "owner"
            BY <5>1 DEF OwnersMade
          <6>2. CASE k = new
            BY <2>5, <2>6, <3>3, <6>1, <6>2
          <6>3. CASE k \in DOMAIN made
            <7>1. k \in OwnersMade
              BY <2>6, <6>1, <6>3 DEF OwnersMade
            <7> QED BY <3>2, <7>1
          <6> QED BY <2>6, <6>1, <6>2, <6>3
        <5> QED BY <5>1
      <4> QED BY <3>2, <4>1
    <3>7. \A v \in Threads : SuitsOwners(job[v])'
      BY <2>1, <2>11, <2>13, <3>1, OthersSuit
    <3> QED BY <3>4, <3>5, <3>6, <3>7 DEF OwnerKept
  <2>16. Complete'
    <3>1. ASSUME NEW k \in DOMAIN made' PROVE Made(k)'
      <4>1. CASE k = new
        <5>1. made'[k].account = a
          BY <2>5, <2>6, <4>1
        <5> QED BY <2>8, <2>9, <5>1 DEF Made
      <4>2. CASE k \in DOMAIN made /\ made[k].account.name = a.name
        <5>1. new \in DOMAIN made' /\ new > k /\ made'[new].account.name = a.name
          BY <2>5, <2>6, <4>2
        <5>2. made'[k].account.name = a.name
          BY <2>6, <4>2
        <5> QED BY <5>1, <5>2 DEF Made
      <4>3. CASE k \in DOMAIN made /\ made[k].account.name # a.name
        <5>1. Made(k) /\ made'[k] = made[k]
          BY <2>1, <2>6, <4>3 DEF Complete
        <5>2. made[k].account.name \in Registered' => made[k].account.name \in Registered
          BY <2>6, <4>3
        <5>3. job[w].at # "credential" /\ credentials' = credentials
          BY <1>1
        <5> QED BY <2>1, <2>6, <2>13, <4>3, <5>1, <5>2, <5>3, MadeStays
      <4> QED BY <2>6, <3>1, <4>1, <4>2, <4>3
    <3>2. \A j \in DOMAIN joins' : joins'[j].status = "approved" =>
             j \in DOMAIN joins /\ joins[j].status = "approved"
      BY <1>1
    <3> QED BY <2>1, <2>6, <3>1, <3>2, JoinsStay DEF Complete, Typed
  <2> QED BY <2>12, <2>14, <2>15, <2>16 DEF RegistrationInv
<1> QED BY <1>1, <1>2, <1>3

LEMMA Noted ==
  ASSUME NEW r \in Accounts, NEW p \in BOOLEAN, NEW q, q = [r EXCEPT !.conflict = p]
  PROVE  q \in Accounts /\ q.account = r.account /\ q.role = r.role /\ q.conflict = p
  BY DEF Accounts

\* The key is marked as taken at the accounts of a, and nothing else changes.
NotedFor(a) ==
  \A k \in DOMAIN made :
    /\ made'[k].account = made[k].account /\ made'[k].role = made[k].role
    /\ made[k].conflict => made'[k].conflict
    /\ made[k].account = a => made'[k].conflict

\* The answer to a key that is taken marks the account that has none of its own.
LEMMA ConflictsNoted ==
  ASSUME RegistrationTypes, NEW a,
         made' = [k \in DOMAIN made |->
                    [made[k] EXCEPT !.conflict = @ \/ made[k].account = a]],
         UNCHANGED <<mode, rank, credentials, challenges, inviteCodes, joins, departed, opened>>
  PROVE  RegistrationTypes' /\ AccountsGrow /\ DOMAIN made' = DOMAIN made /\ NotedFor(a)
<1>1. made \in Seq(Accounts) /\ \A k \in DOMAIN made : made[k] \in Accounts
  BY Rows DEF RegistrationTypes, Accounts
<1>2. DOMAIN made' = DOMAIN made /\ made' = [k \in DOMAIN made |-> made'[k]]
  OBVIOUS
<1>3. ASSUME NEW k \in DOMAIN made
      PROVE  /\ made'[k] \in Accounts
             /\ made'[k].account = made[k].account /\ made'[k].role = made[k].role
             /\ made[k].conflict => made'[k].conflict
             /\ made[k].account = a => made'[k].conflict
  <2>1. PICK p : p = (made[k].conflict \/ made[k].account = a)
    OBVIOUS
  <2>2. p \in BOOLEAN
    BY <2>1
  <2>3. made'[k] = [made[k] EXCEPT !.conflict = p]
    BY <2>1, Zenon
  <2>4. /\ made'[k] \in Accounts /\ made'[k].conflict = p
        /\ made'[k].account = made[k].account /\ made'[k].role = made[k].role
    BY <1>1, <2>2, <2>3, Noted
  <2>5. /\ made[k].conflict => p
        /\ made[k].account = a => p
    BY <2>1
  <2> QED BY <2>4, <2>5
<1>4. made' \in Seq(Accounts)
  BY ZenonT(60), <1>1, <1>2, <1>3, Rewritten
<1>5. /\ InviteRows' = InviteRows /\ ChallengeRows' = ChallengeRows
      /\ JoinRows' = JoinRows /\ AccountRows' = AccountRows /\ Registered' = Registered
  BY DEF InviteRows, ChallengeRows, JoinRows, AccountRows, Registered
<1>6. RegistrationTypes'
  BY <1>4, <1>5 DEF RegistrationTypes, Accounts
<1>7. AccountsGrow
  <2>1. \A k \in DOMAIN made : k \in DOMAIN made' /\ made'[k].account = made[k].account
    BY <1>2, <1>3
  <2>2. Len(inviteCodes) <= Len(inviteCodes')
    BY Lengths
  <2> QED BY <2>1, <2>2, Zenon DEF AccountsGrow
<1> QED BY <1>2, <1>3, <1>6, <1>7 DEF NotedFor

LEMMA CredentialRefused ==
  ASSUME RegistrationInv, NEW w \in Threads, job[w].at = "credential", Respond(w),
         NEW a, a = OfJob(w),
         made' = [k \in DOMAIN made |->
                    [made[k] EXCEPT !.conflict = @ \/ made[k].account = a]],
         UNCHANGED <<mode, rank, credentials, challenges, inviteCodes, joins, departed, opened>>
  PROVE  RegistrationInv'
<1>1. Typed /\ InvitesCounted /\ OwnerKept /\ Complete
  BY DEF RegistrationInv
<1>2. Moves(w) /\ job'[w] = Free
  BY <1>1, GoingOn
<1>3. /\ RegistrationTypes' /\ AccountsGrow /\ DOMAIN made' = DOMAIN made
      /\ \A k \in DOMAIN made :
           /\ made'[k].account = made[k].account /\ made'[k].role = made[k].role
           /\ made[k].conflict => made'[k].conflict
           /\ made[k].account = a => made'[k].conflict
  <2>1. RegistrationTypes
    BY <1>1 DEF Typed
  <2>2. RegistrationTypes' /\ AccountsGrow /\ DOMAIN made' = DOMAIN made /\ NotedFor(a)
    BY ZenonT(60), <2>1, ConflictsNoted
  <2> QED BY <2>2 DEF NotedFor
<1>4. (\A i : ~Spends(w, i)') /\ SuitsOwners(job[w])' /\ FitsAccount(job[w])'
  BY <1>2, Idle
<1>5. Typed'
  BY <1>1, <1>2, <1>3, <1>4, TypesKept
<1>6. calls'.atOnce = calls.atOnce /\ \A v \in Threads \ {w} : job'[v] = job[v]
  BY <1>1, <1>2, MoveKeepsPool DEF Typed, Moves
<1>7. Registered' = Registered
  BY DEF Registered
<1>8. InvitesCounted'
  BY <1>1, <1>3, <1>4, <1>5, <1>6, <1>7, InvitesUntouched
<1>9. OwnerKept'
  BY <1>1, <1>3, <1>4, <1>6, OwnersStay
<1>10. Complete'
  <2>1. ASSUME NEW k \in DOMAIN made' PROVE Made(k)'
    <3>1. k \in DOMAIN made /\ Made(k)
      BY <1>1, <1>3, <2>1 DEF Complete
    <3>2. CASE made[k].account = a
      <4>1. made'[k].conflict
        BY <1>3, <3>1, <3>2
      <4> QED BY <4>1 DEF Made
    <3>3. CASE made[k].account # a
      <4>1. OfJob(w) # made[k].account /\ (made'[k].conflict \/ ~made[k].conflict)
        BY <1>3, <3>1, <3>3
      <4> QED BY <1>1, <1>3, <1>6, <1>7, <3>1, <4>1, MadeStays
    <3> QED BY <3>2, <3>3
  <2>2. \A j \in DOMAIN joins' : joins'[j].status = "approved" =>
           j \in DOMAIN joins /\ joins[j].status = "approved"
    OBVIOUS
  <2> QED BY <1>1, <1>3, <2>1, <2>2, JoinsStay DEF Complete, Typed
<1> QED BY <1>5, <1>8, <1>9, <1>10 DEF RegistrationInv

LEMMA CredentialStored ==
  ASSUME RegistrationInv, NEW w \in Threads, job[w].at = "credential",
         Proceed(w, IF job[w].op = "approve" THEN "session" ELSE "spend"),
         NEW a, a = OfJob(w), credentials' = credentials \cup {<<a.name, a.key>>},
         UNCHANGED <<mode, rank, made, challenges, inviteCodes, joins, departed, opened>>
  PROVE  RegistrationInv'
<1>1. /\ Typed /\ InvitesCounted /\ OwnerKept /\ Complete
      /\ FieldsMatch(job[w]) /\ FitsAccount(job[w]) /\ job[w] # Free
  BY ServingMaker DEF RegistrationInv
<1>0. PICK place : place = IF job[w].op = "approve" THEN "session" ELSE "spend"
  OBVIOUS
<1>2. job[w].op \in Makers /\ place \in Places(job[w].op)
  BY <1>0, <1>1 DEF FitsAccount, FieldsMatch, Places, Makers
<1>3. a \in AccountRows
  BY <1>1, <1>2, OfJobTyped
<1>4. a.name \in Names /\ a.key \in Keys
  BY <1>3 DEF AccountRows
<1>5. RegistrationTypes' /\ AccountsGrow
  <2>1. /\ rank \in [Names -> Ranks \cup {NoAccount}] /\ IsFiniteSet(Registered)
        /\ credentials \subseteq Names \X Keys /\ departed \in BOOLEAN /\ opened \in BOOLEAN
    BY <1>1 DEF Typed, RegistrationTypes
  <2>2. credentials' \subseteq Names \X Keys /\ Registered' = Registered
    BY <1>4, <2>1 DEF Registered
  <2> QED BY <1>1, <2>1, <2>2, RanksTyped DEF Typed
<1>6. Moves(w) /\ GoesTo(w, place, job[w].saw)
  <2>1. Proceed(w, place) /\ place # "none"
    BY <1>0
  <2> QED BY <1>1, <2>1, GoingOn
<1>7. job'[w].at = place /\ job'[w].op = job[w].op
      /\ (job[w].op = "approve" => job'[w].join = job[w].join)
  BY <1>1, <1>6, SameFields DEF GoesTo, FieldsMatch
<1>8. OfJob(w)' = a
  BY <1>1, <1>2, <1>5, <1>6, OfJobKept DEF GoesTo
<1>9. FitsAccount(job[w])'
  <2>1. job[w].op = "verify" => /\ challenges[job[w].challenge].type = "registration"
                                /\ ~challenges'[job[w].challenge].live
    BY <1>1 DEF FitsAccount
  <2>2. job[w].op = "approve" => HasAccount(job[w].join)'
    <3>1. SUFFICES ASSUME job[w].op = "approve" PROVE HasAccount(job[w].join)'
      OBVIOUS
    <3>2. HasAccount(job[w].join)
      BY <1>1, <3>1 DEF FitsAccount
    <3> QED BY <1>7, <3>1, <3>2 DEF HasAccount
  <2>3. place # "create" /\ place # "close"
    BY <1>0
  <2> QED BY <1>1, <1>2, <1>5, <1>6, <2>1, <2>2, <2>3, GoneFits
<1>10. SuitsOwners(job[w])'
  BY <1>0, <1>7 DEF SuitsOwners
<1>11. Typed'
  BY <1>1, <1>5, <1>6, <1>9, TypesKept
<1>12. calls'.atOnce = calls.atOnce /\ \A v \in Threads \ {w} : job'[v] = job[v]
  BY <1>1, <1>6, MoveKeepsPool DEF Typed, Moves
<1>13. Registered' = Registered
  BY DEF Registered
<1>14. InvitesCounted'
  <2>1. \A i : Spends(w, i)' => Spends(w, i)
    BY <1>7, <1>8 DEF Spends
  <2> QED BY <1>1, <1>5, <1>11, <1>12, <1>13, <2>1, InvitesUntouched
<1>15. OwnerKept'
  BY <1>1, <1>10, <1>12, OwnersStay
<1>16. Complete'
  <2>1. ASSUME NEW k \in DOMAIN made' PROVE Made(k)'
    <3>1. k \in DOMAIN made /\ Made(k) /\ made' = made
      BY <1>1, <2>1 DEF Complete
    <3>2. CASE made[k].account = a
      <4>1. <<a.name, a.key>> \in credentials' /\ a.key \in Keys /\ made'[k].account = a
        BY <1>4, <3>1, <3>2
      <4> QED BY <4>1 DEF Made
    <3>3. CASE made[k].account # a
      <4>1. OfJob(w) # made[k].account
        BY <3>3
      <4> QED BY <1>1, <1>5, <1>12, <1>13, <3>1, <4>1, MadeStays
    <3> QED BY <3>2, <3>3
  <2>2. \A j \in DOMAIN joins' : joins'[j].status = "approved" =>
           j \in DOMAIN joins /\ joins[j].status = "approved"
    OBVIOUS
  <2> QED BY <1>1, <1>5, <2>1, <2>2, JoinsStay DEF Complete, Typed
<1> QED BY <1>11, <1>14, <1>15, <1>16 DEF RegistrationInv

LEMMA StoreCredentialKeeps ==
  ASSUME RegistrationInv, NEW w \in Threads, StoreCredential(w)
  PROVE  RegistrationInv'
<1>0. PICK a : a = OfJob(w)
  OBVIOUS
<1>1. /\ job[w].at = "credential"
      /\ UNCHANGED <<mode, rank, challenges, inviteCodes, joins, departed, opened>>
      /\ \/ /\ made' = [k \in DOMAIN made |->
                          [made[k] EXCEPT !.conflict = @ \/ made[k].account = a]]
            /\ Respond(w) /\ credentials' = credentials
         \/ /\ credentials' = credentials \cup {<<a.name, a.key>>}
            /\ Proceed(w, IF job[w].op = "approve" THEN "session" ELSE "spend")
            /\ made' = made
  BY <1>0 DEF StoreCredential
<1>2. CASE /\ made' = [k \in DOMAIN made |->
                         [made[k] EXCEPT !.conflict = @ \/ made[k].account = a]]
           /\ Respond(w) /\ credentials' = credentials
  <2>1. UNCHANGED <<mode, rank, credentials, challenges, inviteCodes, joins, departed, opened>>
    BY <1>1, <1>2
  <2>2. made' = [k \in DOMAIN made |-> [made[k] EXCEPT !.conflict = @ \/ made[k].account = a]]
    BY <1>2
  <2>3. job[w].at = "credential" /\ Respond(w)
    BY <1>1, <1>2
  <2> QED BY <1>0, <2>1, <2>2, <2>3, CredentialRefused, Zenon
<1>3. CASE /\ credentials' = credentials \cup {<<a.name, a.key>>}
           /\ Proceed(w, IF job[w].op = "approve" THEN "session" ELSE "spend")
           /\ made' = made
  BY <1>0, <1>1, <1>3, CredentialStored
<1> QED BY <1>1, <1>2, <1>3

-----------------------------------------------------------------------------
(* A challenge is discarded *)

LEMMA ChallengeDiscarded ==
  ASSUME RegistrationTypes, NEW c \in DOMAIN challenges,
         challenges' = [challenges EXCEPT ![c].live = FALSE],
         UNCHANGED <<mode, rank, credentials, inviteCodes, joins, made, departed, opened>>
  PROVE  /\ RegistrationTypes' /\ AccountsGrow
         /\ c \in DOMAIN challenges' /\ challenges'[c].live = FALSE
         /\ \A d \in DOMAIN challenges : d # c => challenges'[d] = challenges[d]
<1> DEFINE row == [challenges[c] EXCEPT !.live = FALSE]
<1>1. challenges \in Seq(ChallengeRows) /\ challenges[c] \in ChallengeRows
  BY Rows DEF RegistrationTypes
<1>2. /\ row \in ChallengeRows /\ row.type = challenges[c].type /\ row.name = challenges[c].name
      /\ row.invite = challenges[c].invite /\ row.live = FALSE
  BY <1>1 DEF ChallengeRows
<1>3. challenges' = [challenges EXCEPT ![c] = row]
  OBVIOUS
<1> HIDE DEF row
<1>4. /\ DOMAIN challenges' = DOMAIN challenges /\ challenges'[c] = row
      /\ \A d \in DOMAIN challenges : d # c => challenges'[d] = challenges[d]
      /\ challenges' = [d \in DOMAIN challenges |-> challenges'[d]]
  BY <1>3
<1>5. \A d \in DOMAIN challenges : challenges'[d] \in ChallengeRows
  BY <1>2, <1>4, Rows
<1>6. challenges' \in Seq(ChallengeRows)
  BY ZenonT(60), <1>1, <1>4, <1>5, Rewritten
<1>7. /\ InviteRows' = InviteRows /\ ChallengeRows' = ChallengeRows
      /\ JoinRows' = JoinRows /\ AccountRows' = AccountRows /\ Registered' = Registered
  BY DEF InviteRows, ChallengeRows, JoinRows, AccountRows, Registered
<1>8. RegistrationTypes'
  BY <1>6, <1>7 DEF RegistrationTypes
<1>9. \A d \in DOMAIN challenges :
        /\ d \in DOMAIN challenges'
        /\ challenges'[d].type = challenges[d].type
        /\ challenges'[d].name = challenges[d].name
        /\ challenges'[d].invite = challenges[d].invite
        /\ challenges'[d].live => challenges[d].live
  BY <1>2, <1>4
<1>10. Len(inviteCodes) <= Len(inviteCodes')
  BY Lengths
<1>11. AccountsGrow
  BY <1>9, <1>10, Zenon DEF AccountsGrow
<1> QED BY <1>2, <1>4, <1>8, <1>11

LEMMA DiscardKeeps ==
  ASSUME RegistrationInv, NEW w \in Threads, Discard(w)
  PROVE  RegistrationInv'
<1>0. PICK c, place :
        /\ c = job[w].challenge
        /\ place = CASE job[w].op = "verify" -> "count"
                     [] job[w].op = "pki register" -> "admit"
                     [] OTHER -> "ask"
  OBVIOUS
<1>1. /\ job[w].at = "discard" /\ challenges' = [challenges EXCEPT ![c].live = FALSE]
      /\ Proceed(w, place)
      /\ UNCHANGED <<mode, rank, credentials, inviteCodes, joins, made, departed, opened>>
  BY <1>0 DEF Discard
<1>2. /\ Typed /\ InvitesCounted /\ OwnerKept /\ Complete
      /\ FieldsMatch(job[w]) /\ FitsAccount(job[w]) /\ job[w] # Free
  BY <1>1, ServingMaker DEF RegistrationInv
<1>3. /\ job[w].op \in {"verify", "pki register", "access"} /\ place \in {"count", "admit", "ask"}
      /\ place \in Places(job[w].op) /\ (place = "count" <=> job[w].op = "verify")
  <2>1. "discard" \in Places(job[w].op)
    BY <1>1, <1>2 DEF FitsAccount
  <2>2. job[w].op \in {"verify", "pki register", "access"}
    BY <1>2, <2>1 DEF Places, FieldsMatch, Makers, Rulers, Starters
  <2>3. CASE job[w].op = "verify"
    BY <1>0, <2>3 DEF Places
  <2>4. CASE job[w].op = "pki register"
    BY <1>0, <2>4 DEF Places
  <2>5. CASE job[w].op = "access"
    BY <1>0, <2>5 DEF Places
  <2> QED BY <2>2, <2>3, <2>4, <2>5
<1>4. c \in DOMAIN challenges
  BY <1>0, <1>2, <1>3 DEF FieldsMatch, FitsAccount
<1>5. /\ RegistrationTypes' /\ AccountsGrow
      /\ c \in DOMAIN challenges' /\ challenges'[c].live = FALSE
      /\ \A d \in DOMAIN challenges : d # c => challenges'[d] = challenges[d]
  BY <1>1, <1>2, <1>4, ChallengeDiscarded DEF Typed
<1>6. Moves(w) /\ GoesTo(w, place, job[w].saw)
  <2>1. place # "none" /\ job[w].at # "none"
    BY <1>1, <1>3
  <2> QED BY <1>1, <1>2, <2>1, GoingOn
<1>7. job'[w].at = place /\ job'[w].op = job[w].op
  BY <1>2, <1>6, SameFields DEF GoesTo
<1>8. job[w].op = "verify" => challenges[c].type = "registration"
  BY <1>0, <1>1, <1>2 DEF FitsAccount
<1>9. FitsAccount(job[w])'
  <2>1. job[w].op = "verify" =>
          /\ challenges[job[w].challenge].type = "registration"
          /\ ~challenges'[job[w].challenge].live
    BY <1>0, <1>5, <1>8
  <2>2. place # "create" /\ job[w].op # "approve" /\ job[w].at # "none"
    BY <1>1, <1>3
  <2> QED BY <1>2, <1>3, <1>5, <1>6, <2>1, <2>2, GoneFits
<1>10. Typed'
  BY <1>2, <1>5, <1>6, <1>9, TypesKept
<1>11. calls'.atOnce = calls.atOnce /\ \A v \in Threads \ {w} : job'[v] = job[v]
  BY <1>2, <1>6, MoveKeepsPool DEF Typed, Moves
<1>12. InvitesCounted'
  <2>1. ASSUME NEW i \in DOMAIN inviteCodes', CountedInvites(i) PROVE Settled(i)
    <3>1. CASE challenges[c].type = "registration" /\ challenges[c].invite = i /\ challenges[c].live
      <4>1. c \notin Redeemed(i)
        BY <3>1 DEF Redeemed
      <4>2. c \in Redeemed(i)'
        BY <1>4, <1>5, <3>1 DEF Redeemed, AccountsGrow
      <4> QED BY <1>1, <2>1, <4>1, <4>2 DEF Settled
    <3>2. CASE ~(challenges[c].type = "registration" /\ challenges[c].invite = i /\ challenges[c].live)
      <4>1. ASSUME NEW d \in DOMAIN challenges, challenges[d].type = "registration",
                   challenges[d].invite = i
            PROVE  challenges'[d].live = challenges[d].live
        <5>1. CASE d # c
          BY <1>5, <5>1
        <5>2. CASE d = c
          <6>1. ~challenges[c].live
            BY <3>2, <4>1, <5>2
          <6>2. challenges[c].live \in BOOLEAN /\ challenges'[c].live \in BOOLEAN
            <7>1. challenges[c] \in ChallengeRows
              BY <1>2, <1>4, Rows DEF Typed
            <7> QED BY <1>5, <7>1 DEF ChallengeRows
          <6> QED BY <1>5, <5>2, <6>1, <6>2
        <5> QED BY <5>1, <5>2
      <4>2. Spends(w, i)' => Spends(w, i)
        <5>1. SUFFICES ASSUME Spends(w, i)' PROVE Spends(w, i)
          OBVIOUS
        <5>2. job[w].op = "verify" /\ OfJob(w)'.invite = i
          BY <1>3, <1>7, <5>1 DEF Spends, Makers
        <5>3. OfJob(w)' = OfJob(w)
          BY <1>1, <1>2, <1>5, <1>6, <5>2, OfJobKept DEF GoesTo, Makers
        <5>4. OfJob(w).invite = challenges[c].invite
          BY <1>0, <5>2 DEF OfJob
        <5>5. ~challenges[c].live
          BY <1>8, <3>2, <5>2, <5>3, <5>4
        <5> QED BY <1>0, <1>1, <5>2, <5>3, <5>5 DEF Spends, Makers
      <4>3. Spenders(i)' \subseteq Spenders(i)
        BY <1>2, <1>5, <1>11, <4>1, <4>2, SpendersStay
      <4> QED BY <1>1, <2>1, <4>3 DEF Settled
    <3> QED BY <3>1, <3>2
  <2>2. ~opened' => ~opened /\ mode' # "open" /\ (Registered' = {} => inviteCodes' = <<>>)
    BY <1>1, <1>2 DEF InvitesCounted, Registered
  <2>3. DOMAIN inviteCodes' = DOMAIN inviteCodes
    BY <1>1
  <2> QED BY <1>2, <1>5, <1>10, <1>11, <2>1, <2>2, <2>3, InvitesStay
<1>13. OwnerKept'
  <2>1. SuitsOwners(job[w])'
    BY <1>3, <1>7 DEF SuitsOwners
  <2> QED BY <1>1, <1>2, <1>11, <2>1, OwnersStay
<1>14. Complete'
  <2>1. /\ \A k \in DOMAIN made : made'[k].conflict \/ ~made[k].conflict
        /\ \A j \in DOMAIN joins' : joins'[j].status = "approved" =>
             j \in DOMAIN joins /\ joins[j].status = "approved"
        /\ job[w].at # "credential" /\ DOMAIN made' = DOMAIN made
    BY <1>1
  <2> QED BY <1>1, <1>2, <1>5, <1>11, <2>1, CompleteStays
<1> QED BY <1>10, <1>12, <1>13, <1>14 DEF RegistrationInv

-----------------------------------------------------------------------------
(* A request is taken *)

LEMMA TakeKeeps ==
  ASSUME RegistrationInv, NEW w \in Threads, Take(w)
  PROVE  RegistrationInv'
<1> DEFINE R == {r \in calls.requests : NamesRows(r)}
<1>1. Accept(w, R) /\ UNCHANGED registration
  BY DEF Take
<1>2. Typed /\ InvitesCounted /\ OwnerKept /\ Complete
  BY DEF RegistrationInv
<1>3. Plain(calls.requests)
  BY <1>2, MakerRequest DEF Plain, Typed
<1>4. R \in SUBSET calls.requests
  OBVIOUS
<1>5. /\ Pool'
      /\ job[w] = Free /\ IsJob(job'[w]) /\ job'[w].at = "check" /\ Asked(job'[w]) \in R
      /\ \A v \in Threads \ {w} : job'[v] = job[v]
      /\ calls'.requests = calls.requests /\ calls'.atOnce = calls.atOnce
  BY <1>1, <1>2, <1>3, <1>4, AcceptKeepsPool DEF Typed
<1>6. /\ mode' = mode /\ rank' = rank /\ credentials' = credentials /\ inviteCodes' = inviteCodes
      /\ made' = made /\ departed' = departed /\ opened' = opened /\ challenges' = challenges
      /\ joins' = joins
  BY <1>1 DEF registration, registrationTables
<1>7. RegistrationTypes' /\ AccountsGrow
  BY <1>1, <1>2, TablesStay DEF Typed
<1>8. FitsAccount(job[w])'
  <2>1. PICK r \in R : Asked(job'[w]) = r
    BY <1>5
  <2>2. NamesRows(r)
    BY <2>1
  <2>3. /\ "challenge" \in DOMAIN job'[w] => "challenge" \in DOMAIN r /\ job'[w].challenge = r.challenge
        /\ "invite" \in DOMAIN job'[w] => "invite" \in DOMAIN r /\ job'[w].invite = r.invite
        /\ "join" \in DOMAIN job'[w] => "join" \in DOMAIN r /\ job'[w].join = r.join
    BY <2>1 DEF Asked
  <2>4. /\ "challenge" \in DOMAIN job'[w] => job'[w].challenge \in DOMAIN challenges
        /\ "invite" \in DOMAIN job'[w] => job'[w].invite \in 0 .. Len(inviteCodes)
        /\ "join" \in DOMAIN job'[w] => job'[w].join \in DOMAIN joins
    BY <2>2, <2>3 DEF NamesRows
  <2> QED BY <1>5, <1>6, <2>4 DEF FitsAccount
<1>9. Typed'
  <2>1. \A v \in Threads : FitsAccount(job[v])'
    BY <1>2, <1>5, <1>7, <1>8, StillFitsAccount
  <2> QED BY <1>2, <1>5, <1>7, <2>1 DEF Typed
<1>10. Registered' = Registered
  BY <1>6 DEF Registered
<1>11. InvitesCounted'
  <2>1. \A i : ~Spends(w, i)'
    BY <1>5 DEF Spends
  <2> QED BY <1>2, <1>5, <1>6, <1>7, <1>9, <1>10, <2>1, InvitesUntouched
<1>12. OwnerKept'
  <2>1. SuitsOwners(job[w])'
    BY <1>5 DEF SuitsOwners
  <2> QED BY <1>2, <1>5, <1>6, <2>1, OwnersStay
<1>13. Complete'
  <2>1. job[w].at # "credential"
    BY <1>5 DEF Free
  <2>2. /\ \A k \in DOMAIN made : made'[k].conflict \/ ~made[k].conflict
        /\ \A j \in DOMAIN joins' : joins'[j].status = "approved" =>
             j \in DOMAIN joins /\ joins[j].status = "approved"
    BY <1>6
  <2> QED BY <1>2, <1>5, <1>6, <1>7, <2>1, <2>2, CompleteStays
<1> QED BY <1>9, <1>11, <1>12, <1>13 DEF RegistrationInv

-----------------------------------------------------------------------------
(* The theorems *)

LEMMA Least ==
  ASSUME NEW a \in Nat \ {0}, NEW u \in Nat, NEW m \in Nat, NEW t \in Nat, NEW q \in Nat,
         u + t <= m + (a - 1) + a * q
  PROVE  u <= m + a - 1 + a * q
<1>1. a * q \in Nat
  OBVIOUS
<1> DEFINE y == a * q
<1> HIDE DEF y
<1>2. y \in Nat /\ u + t <= m + (a - 1) + y
  BY <1>1 DEF y
<1>3. u <= m + a - 1 + y
  BY <1>2
<1> QED BY <1>3 DEF y

LEMMA AtMostOne ==
  ASSUME NEW S, \A k, l \in S : k = l
  PROVE  Cardinality(S) <= 1
<1>1. CASE S = {}
  BY <1>1, FS_EmptySet
<1>2. CASE S # {}
  <2>1. PICK k \in S : S = {k}
    BY <1>2
  <2> QED BY <2>1, FS_Singleton
<1> QED BY <1>1, <1>2

LEMMA Starts == InitRegistration => RegistrationInv
<1> SUFFICES ASSUME InitRegistration PROVE RegistrationInv
  OBVIOUS
<1>1. PICK s \in RegistrationScenarios : RegistrationTables(s) /\ Listening(s)
  BY DEF InitRegistration
<1>2. /\ s.mode \in Modes
      /\ s.rank \in [Names -> Ranks \cup {NoAccount}]
      /\ s.credentials \subseteq Names \X Keys
      /\ s.invites \in Seq(InviteRows)
      /\ \A i \in DOMAIN s.invites : s.invites[i].uses = 0
      /\ s.requests \subseteq RegistrationRequests
      /\ s.atOnce \in Nat \ {0}
  BY RegistrationAssumption
<1>3. LET accounts == {n \in Names : s.rank[n] # NoAccount} IN
        /\ IsFiniteSet(accounts)
        /\ IF accounts = {} THEN s.invites = <<>> ELSE \E n \in accounts : s.rank[n] = "owner"
  BY RegistrationAssumption
<1>4. /\ mode = s.mode /\ rank = s.rank /\ credentials = s.credentials /\ inviteCodes = s.invites
      /\ challenges = <<>> /\ joins = <<>> /\ made = <<>> /\ departed = FALSE
      /\ opened = (s.mode = "open")
  BY <1>1 DEF RegistrationTables
<1>5. Pool /\ calls.requests = s.requests
  BY <1>1, <1>2, PoolStarts
<1>6. \A w \in Threads : job[w] = Free
  BY <1>1 DEF Listening
<1>7. /\ IsFiniteSet(Registered)
      /\ Registered = {} => inviteCodes = <<>>
      /\ Registered # {} => ServerOwners # {}
  BY <1>3, <1>4 DEF Registered, ServerOwners
<1>8. DOMAIN challenges = {} /\ DOMAIN joins = {} /\ DOMAIN made = {}
  BY <1>4
<1>9. RegistrationTypes
  <2>1. \A S : <<>> \in Seq(S)
    OBVIOUS
  <2>2. departed \in BOOLEAN /\ opened \in BOOLEAN
    BY <1>4
  <2> QED BY <1>2, <1>4, <1>7, <2>1, <2>2 DEF RegistrationTypes
<1>10. Typed
  <2>1. \A w \in Threads : FitsAccount(job[w])
    BY <1>6 DEF FitsAccount
  <2> QED BY <1>2, <1>5, <1>9, <2>1 DEF Typed
<1>11. InvitesCounted
  <2>1. SUFFICES ASSUME ~opened PROVE InvitesCounted
    BY DEF InvitesCounted
  <2>2. mode # "open"
    BY <1>4, <2>1
  <2>3. ASSUME NEW i \in DOMAIN inviteCodes PROVE CountedInvites(i)
    <3>1. inviteCodes[i].uses = 0 /\ inviteCodes[i] \in InviteRows
      BY <1>2, <1>4, <1>9, Rows
    <3>2. inviteCodes[i].max \in Nat
      BY <3>1 DEF InviteRows
    <3>3. /\ Cardinality(Spenders(i)) \in Nat /\ Cardinality(Spenders(i)) <= calls.atOnce
          /\ calls.atOnce \in Nat \ {0} /\ Cardinality(Redeemed(i)) \in Nat
      BY <1>10, Finite
    <3>4. CASE inviteCodes[i].max # 0
      <4>1. inviteCodes[i].uses < inviteCodes[i].max /\ inviteCodes[i].uses \in Nat
        BY <3>1, <3>2, <3>4
      <4> QED BY <3>2, <3>3, <4>1, Room DEF CountedInvites
    <3> QED BY <3>4 DEF CountedInvites
  <2> QED BY <1>7, <2>2, <2>3 DEF InvitesCounted, CountedInvites
<1>12. OwnerKept
  <2>1. OwnersMade = {}
    BY <1>8 DEF OwnersMade
  <2>2. \A w \in Threads : SuitsOwners(job[w])
    <3>1. Free.at = "none"
      BY DEF Free
    <3> QED BY <1>6, <3>1 DEF SuitsOwners
  <2> QED BY <1>7, <2>1, <2>2 DEF OwnerKept
<1>13. Complete
  BY <1>8 DEF Complete
<1> QED BY <1>10, <1>11, <1>12, <1>13 DEF RegistrationInv

LEMMA Stutters == RegistrationInv /\ UNCHANGED registrationVars => RegistrationInv'
<1> SUFFICES ASSUME RegistrationInv, UNCHANGED registrationVars PROVE RegistrationInv'
  OBVIOUS
<1>1. /\ mode' = mode /\ rank' = rank /\ credentials' = credentials /\ inviteCodes' = inviteCodes
      /\ made' = made /\ departed' = departed /\ opened' = opened /\ challenges' = challenges
      /\ joins' = joins /\ job' = job /\ calls' = calls
  BY DEF registrationVars, registration, registrationTables, serving
<1>2. Typed'
  BY <1>1 DEF RegistrationInv, Typed, Pool, Engaged, RegistrationTypes, Registered, InviteRows,
              ChallengeRows,
         JoinRows, AccountRows, FitsAccount, HasAccount
<1>3. InvitesCounted'
  BY ZenonT(60), <1>1 DEF RegistrationInv, InvitesCounted, Registered, Spenders, Spends, OfJob, Redeemed
<1>4. OwnerKept'
  BY <1>1 DEF RegistrationInv, OwnerKept, OneAtATime, Registered, ServerOwners, OwnersMade, SuitsOwners
<1>5. Complete'
  <2>1. Registered' = Registered /\ \A w : OfJob(w)' = OfJob(w)
    BY <1>1 DEF Registered, OfJob
  <2>2. ASSUME NEW k \in DOMAIN made PROVE Made(k)'
    <3>1. Made(k)
      BY DEF RegistrationInv, Complete
    <3> QED BY <1>1, <2>1, <3>1 DEF Made
  <2>3. \A j \in DOMAIN joins : joins[j].status = "approved" => joins[j].session /\ HasAccount(j)
    BY DEF RegistrationInv, Complete
  <2> QED BY <1>1, <2>2, <2>3 DEF Complete, HasAccount
<1> QED BY <1>2, <1>3, <1>4, <1>5 DEF RegistrationInv

LEMMA NextKeeps == RegistrationInv /\ [NextRegistration]_registrationVars => RegistrationInv'
<1> SUFFICES ASSUME RegistrationInv, [NextRegistration]_registrationVars PROVE RegistrationInv'
  OBVIOUS
<1>1. CASE UNCHANGED registrationVars
  BY <1>1, Stutters
<1>2. ASSUME NEW w \in Threads,
        \/ Take(w)
        \/ RegisterOptions(w) \/ RegistrationChallenge(w) \/ AccessOptions(w)
        \/ CheckRegisterVerify(w) \/ CheckPkiRegister(w) \/ CheckAccess(w)
        \/ CheckPasswordRegister(w) \/ Discard(w) \/ Admit(w)
        \/ CountUsers(w) \/ CreateUser(w) \/ StoreCredential(w) \/ UseInvite(w)
        \/ CreateJoinRequest(w) \/ CheckApprove(w) \/ StoreJoinSession(w) \/ Approve(w) \/ Deny(w)
        \/ CreateServerInvite(w) \/ RevokeInvite(w) \/ ChangeMode(w)
        \/ CheckServerRole(w) \/ CountServerOwners(w) \/ SetServerRole(w)
        \/ CheckDeleteAccount(w) \/ DeleteAccount(w)
      PROVE RegistrationInv'
  BY <1>2, TakeKeeps, RegisterOptionsKeeps, RegistrationChallengeKeeps, AccessOptionsKeeps,
     CheckRegisterVerifyKeeps, CheckPkiRegisterKeeps, CheckAccessKeeps, CheckPasswordRegisterKeeps,
     DiscardKeeps, AdmitKeeps, CountUsersKeeps, CreateUserKeeps, StoreCredentialKeeps,
     UseInviteKeeps, CreateJoinRequestKeeps, CheckApproveKeeps, StoreJoinSessionKeeps, ApproveKeeps,
     DenyKeeps, CreateServerInviteKeeps, RevokeInviteKeeps, ChangeModeKeeps, CheckServerRoleKeeps,
     CountServerOwnersKeeps, SetServerRoleKeeps, CheckDeleteAccountKeeps, DeleteAccountKeeps, Zenon
<1> QED BY <1>1, <1>2, Zenon DEF NextRegistration

LEMMA Invariant == RegistrationSpec => []RegistrationInv
<1> QED BY Starts, NextKeeps, PTL DEF RegistrationSpec

\* The tables hold what they are for, whatever is asked and in whatever order.
THEOREM RegistrationTyped == RegistrationSpec => []RegistrationTypes
<1>1. RegistrationInv => RegistrationTypes
  BY DEF RegistrationInv, Typed
<1> QED BY <1>1, Invariant, PTL

\* An invite brings in no more than its limit, what overlapped at its last check
\* (validate_invite, use_invite) and what overlapped for each passkey challenge
\* it was redeemed with.
THEOREM InvitesAlwaysHold == RegistrationSpec => []InvitesHold
<1>1. RegistrationInv => InvitesHold
  <2> SUFFICES ASSUME RegistrationInv, ~opened, NEW i \in DOMAIN inviteCodes, inviteCodes[i].max # 0
               PROVE  inviteCodes[i].uses <= inviteCodes[i].max + calls.atOnce - 1
                        + calls.atOnce * Cardinality(Redeemed(i))
    BY DEF InvitesHold, Redeemed
  <2>1. inviteCodes[i].uses + Cardinality(Spenders(i))
          <= inviteCodes[i].max + (calls.atOnce - 1) + calls.atOnce * Cardinality(Redeemed(i))
    BY DEF RegistrationInv, InvitesCounted
  <2>2. /\ Cardinality(Spenders(i)) \in Nat /\ calls.atOnce \in Nat \ {0}
        /\ Cardinality(Redeemed(i)) \in Nat
    BY Finite DEF RegistrationInv
  <2>3. inviteCodes[i].max \in Nat /\ inviteCodes[i].uses \in Nat
    BY Rows DEF RegistrationInv, Typed, InviteRows
  <2> QED BY <2>1, <2>2, <2>3, Least
<1> QED BY <1>1, Invariant, PTL

\* Requests served in turn never leave the server without an owner, unless an
\* owner's account is deleted, and make one owner's account (create_user).
THEOREM OwnerAlwaysRemains == RegistrationSpec => []OwnerRemains
<1>1. RegistrationInv => OwnerRemains
  <2> SUFFICES ASSUME RegistrationInv, OneAtATime, ~departed
               PROVE  /\ Registered # {} => ServerOwners # {}
                      /\ Cardinality(OwnersMade) <= 1
    BY DEF OwnerRemains, OwnersMade
  <2>1. (Registered # {} => ServerOwners # {}) /\ \A k, l \in OwnersMade : k = l
    BY DEF RegistrationInv, OwnerKept
  <2> QED BY <2>1, AtMostOne
<1> QED BY <1>1, Invariant, PTL

\* No account is left without a key but for a conflict, and no request to join is
\* approved without the account and the session it asked for.
THEOREM AccountsAlwaysComplete == RegistrationSpec => []AccountsComplete
<1>1. RegistrationInv => AccountsComplete
  <2> SUFFICES ASSUME RegistrationInv PROVE AccountsComplete
    OBVIOUS
  <2>1. ASSUME NEW w \in Threads, job[w].at = "credential" PROVE w \in Engaged
    BY <2>1 DEF Engaged, Free
  <2> QED BY <2>1 DEF RegistrationInv, Complete, Made, HasAccount, AccountsComplete
<1> QED BY <1>1, Invariant, PTL

-------------------------------------------------------------------------------
(*****************************************************************************)
(* Credentials                                                               *)
(*****************************************************************************)

TwoFactors == {"mfa verify", "mfa setup verify"}
ByToken == TwoFactors \cup {"recovery key", "recovery token login"}
ShowToken == ByToken \cup {"mfa setup", "link"}
ByOps == {"add passkey options", "add key challenge", "device token", "totp setup", "regenerate",
          "delete password", "lock", "unlock", "totp verify", "totp disable", "add", "remove",
          "set password", "change password", "recovery token", "ban", "unban"}

\* The fields of a request, and of the job that serves it.
Fields(r) ==
  /\ "op" \in DOMAIN r
  /\ "token" \in DOMAIN r <=> r.op \in ShowToken \cup {"link passkey options", "link key challenge"}
  /\ "by" \in DOMAIN r <=> r.op \in ByOps
  /\ "by" \in DOMAIN r => r.by \in People
  /\ "challenge" \in DOMAIN r <=> r.op \in {"link", "add"} \/ (r.op = "login" /\ r.method # "password")
  /\ r.op = "login" => r.method \in Methods /\ "method" \in DOMAIN r
  /\ r.op = "login" /\ r.method = "password" => r.user \in People /\ "user" \in DOMAIN r
  /\ r.op \in {"link", "add", "remove"} => r.key \in AllKeys /\ "key" \in DOMAIN r
  /\ r.op \in TwoFactors \cup {"totp verify", "totp disable"} => r.code \in Nat /\ "code" \in DOMAIN r
  /\ r.op \in {"set password", "change password"} =>
       r.password \in Nat \ {NoPassword} /\ "password" \in DOMAIN r
  /\ r.op \in {"recovery token", "ban", "unban"} => r.of \in People /\ "of" \in DOMAIN r

LEMMA RequestFields ==
  ASSUME NEW r \in CredentialRequests
  PROVE  Fields(r) /\ r = [f \in DOMAIN r |-> r[f]] /\ {"at", "saw"} \cap DOMAIN r = {}
<1>1. Fields(r)
  BY DEF CredentialRequests, Fields, TwoFactors, ByToken, ShowToken, ByOps, Methods
<1>2. r = [f \in DOMAIN r |-> r[f]] /\ {"at", "saw"} \cap DOMAIN r = {}
  BY DEF CredentialRequests
<1> QED BY <1>1, <1>2

-----------------------------------------------------------------------------
(* The invariant *)

\* What is true of a worker that serves j and has reached a place.
FitsAt(j, place, saw) ==
  /\ "token" \in DOMAIN j => j.token \in DOMAIN tokens
  /\ "challenge" \in DOMAIN j => j.challenge \in DOMAIN tokens
  /\ j.op \in ShowToken /\ place # "check" => tokens[j.token].of \in People
  /\ j.op = "login" /\ (place \in {"second factor", "session"}
                         \/ (place = "admit" /\ j.method = "password")) => saw \in People
  /\ j.op \in TwoFactors \cup {"change password"} /\ place # "check" => saw \in Nat
  /\ place = "session" => j.op \in ByToken \cup {"login", "link"}
  /\ place = "admit" => j.op \in ByToken \cup {"login"}
  /\ place = "new secret" => j.op \in {"mfa setup", "totp setup"}
  /\ place = "prove" => j.op \in {"mfa setup verify", "totp verify"}
  /\ place = "stamp" => j.op \in TwoFactors \cup {"totp verify", "totp disable"}
  /\ place = "store" => j.op \in {"link", "add"}
  /\ place = "store password" => j.op \in {"set password", "change password"}
  /\ place = "discard" => "challenge" \in DOMAIN j

\* What it shows has been spent by then.
SpentAt(j, place) ==
  /\ \/ j.op \in TwoFactors \cup {"recovery key"} /\ place \in {"admit", "session"}
     \/ j.op = "recovery token login" /\ place = "session"
     \/ j.op = "link" /\ place = "store"
     => ~tokens[j.token].live
  /\ "challenge" \in DOMAIN j /\ place \notin {"check", "discard"} => ~tokens[j.challenge].live

\* What it has read is still so, when no other request is served meanwhile.
ReplayOf(u, code) == \E i \in DOMAIN sessions : sessions[i].of = u /\ sessions[i].code = code
TrustsAt(j, place, saw) ==
  /\ j.op = "remove" /\ place \in {"remove", "remove passkey"} => Cardinality(KeysOf(j.by)) > 1
  /\ j.op = "delete password" /\ place = "drop password" => KeysOf(j.by) # {}
  /\ j.op \in {"totp verify", "totp disable"} /\ place \in {"prove", "stamp"} =>
       j.code > totp[j.by].last
  /\ j.op \in TwoFactors /\ place # "check" =>
       saw = totp[tokens[j.token].of].secret /\ saw # 0
  /\ j.op \in TwoFactors /\ place \in {"prove", "stamp"} => j.code > totp[tokens[j.token].of].last
  /\ j.op \in TwoFactors /\ place \in {"spend", "admit", "session"} =>
       /\ totp[tokens[j.token].of].last = j.code
       /\ ~ReplayOf(tokens[j.token].of, <<saw, j.code>>)

Fits(j) == FitsAt(j, j.at, j.saw) /\ SpentAt(j, j.at)
Trusts(j) == TrustsAt(j, j.at, j.saw)

HasLogin(u) == KeysOf(u) # {} \/ password[u] # NoPassword
\* The codes that were used with a secret are not after the last one noted.
CodesNoted ==
  /\ \A u \in People : totp[u].secret <= secrets /\ (totp[u].verified => totp[u].secret # 0)
  /\ \A i \in DOMAIN sessions : sessions[i].code # NoCode =>
       /\ sessions[i].code[1] \in 1 .. secrets
       /\ sessions[i].code[1] = totp[sessions[i].of].secret =>
            sessions[i].code[2] <= totp[sessions[i].of].last
CodesDiffer ==
  \A i, j \in DOMAIN sessions :
    i # j /\ sessions[i].of = sessions[j].of /\ sessions[i].code # NoCode
      => sessions[i].code # sessions[j].code

InTurn ==
  /\ \A w \in Threads : Trusts(job[w])
  /\ \A u \in People : HasLogin(u)
  /\ CodesNoted /\ CodesDiffer

Inv ==
  /\ CredentialTypes /\ Pool /\ calls.requests \subseteq CredentialRequests
  /\ \A w \in Threads : Fits(job[w])
  /\ BanEndsSessions
  /\ OneAtATime => InTurn

-----------------------------------------------------------------------------
(* A step of one worker *)

LEMMA JobFields ==
  ASSUME Inv, NEW w \in Threads, job[w] # Free
  PROVE  Fields(job[w]) /\ IsJob(job[w])
<1> DEFINE r == Asked(job[w])
<1>1. r \in CredentialRequests /\ IsJob(job[w])
  BY DEF Inv, Pool, Engaged
<1>2. Fields(r)
  BY <1>1, RequestFields
<1>3. /\ \A f \in DOMAIN r : job[w][f] = r[f] /\ f \in DOMAIN job[w]
      /\ \A f \in DOMAIN job[w] \ {"at", "saw"} : f \in DOMAIN r
  BY DEF Asked
<1>4. /\ "token" \in DOMAIN r <=> "token" \in DOMAIN job[w]
      /\ "challenge" \in DOMAIN r <=> "challenge" \in DOMAIN job[w]
      /\ "by" \in DOMAIN r <=> "by" \in DOMAIN job[w]
      /\ "op" \in DOMAIN job[w] /\ job[w].op = r.op
  BY <1>2, <1>3 DEF Fields
<1>5. /\ "method" \in DOMAIN r => job[w].method = r.method
      /\ "key" \in DOMAIN r => job[w].key = r.key
      /\ "code" \in DOMAIN r => job[w].code = r.code
      /\ "password" \in DOMAIN r => job[w].password = r.password
      /\ "by" \in DOMAIN r => job[w].by = r.by
      /\ "of" \in DOMAIN r => job[w].of = r.of
      /\ "user" \in DOMAIN r => job[w].user = r.user
  BY <1>3
<1> HIDE DEF r
<1> QED BY <1>1, <1>2, <1>3, <1>4, <1>5 DEF Fields

\* No token disappears, changes hands or becomes live again.
Grows ==
  \A t \in DOMAIN tokens :
    /\ t \in DOMAIN tokens'
    /\ tokens'[t].of = tokens[t].of
    /\ ~tokens[t].live => ~tokens'[t].live

LEMMA StillFits ==
  ASSUME Inv, Grows, NEW v \in Threads, job'[v] = job[v]
  PROVE  Fits(job[v])'
<1>1. CASE job[v] = Free
  BY <1>1 DEF Free, Fits, FitsAt, SpentAt, ShowToken, ByToken, TwoFactors
<1>2. CASE job[v] # Free
  <2>1. Fields(job[v]) /\ Fits(job[v])
    BY <1>2, JobFields DEF Inv
  <2>2. FitsAt(job[v], job[v].at, job[v].saw)'
    BY <2>1 DEF Fits, FitsAt, Grows, Fields, ShowToken, ByToken
  <2>3. SpentAt(job[v], job[v].at)'
    BY <2>1 DEF Fits, FitsAt, SpentAt, Grows, Fields, ShowToken, ByToken
  <2> QED BY <2>2, <2>3 DEF Fits
<1> QED BY <1>1, <1>2

\* The invariant after a step of w, from what it does to w and to the tables.
LEMMA Preserved ==
  ASSUME Inv, NEW w \in Threads, Moves(w), CredentialTypes', Grows, Fits(job[w])',
         BanEndsSessions',
         OneAtATime => /\ Trusts(job[w])' /\ (\A u \in People : HasLogin(u))'
                       /\ CodesNoted' /\ CodesDiffer'
  PROVE  Inv'
<1>1. Pool' /\ \A v \in Threads \ {w} : job'[v] = job[v]
  BY MoveKeepsPool DEF Inv
<1>2. calls' = calls
  BY DEF Moves
<1>3. \A v \in Threads : Fits(job[v])'
  BY <1>1, StillFits
<1>4. ASSUME OneAtATime' PROVE InTurn'
  <2>1. OneAtATime
    BY <1>2, <1>4 DEF OneAtATime
  <2>2. ASSUME NEW v \in Threads \ {w} PROVE Trusts(job[v])'
    <3>1. job'[v] = Free
      BY <1>1, <2>1, Alone DEF Inv, Moves
    <3>2. job'[v].op = "none"
      BY <3>1 DEF Free
    <3> QED BY <3>2 DEF Trusts, TrustsAt, TwoFactors
  <2> QED BY <2>1, <2>2 DEF InTurn
<1> QED BY <1>1, <1>2, <1>3, <1>4 DEF Inv

\* Nothing is asked of a worker who is done.
LEMMA DoneFits ==
  ASSUME NEW j, j = Free
  PROVE  Fits(j) /\ Trusts(j)
  BY DEF Free, Fits, FitsAt, SpentAt, Trusts, TrustsAt, ShowToken, ByToken, TwoFactors

\* What is true of a job at its next place is true of the job that goes there.
LEMMA SamePlace ==
  ASSUME NEW j, NEW k, NEW place, NEW saw, Fields(j),
         DOMAIN k = DOMAIN j, \A f \in DOMAIN j \ {"at", "saw"} : k[f] = j[f]
  PROVE  /\ FitsAt(j, place, saw) => FitsAt(k, place, saw)
         /\ SpentAt(j, place) => SpentAt(k, place)
         /\ TrustsAt(j, place, saw) => TrustsAt(k, place, saw)
<1>1. k.op = j.op
  BY DEF Fields
<1>2. "token" \in DOMAIN j => k.token = j.token
  OBVIOUS
<1>3. "challenge" \in DOMAIN j => k.challenge = j.challenge
  OBVIOUS
<1>4. j.op = "login" => k.method = j.method
  BY DEF Fields
<1>5. "by" \in DOMAIN j => k.by = j.by
  OBVIOUS
<1>6. j.op \in TwoFactors \cup {"totp verify", "totp disable"} => k.code = j.code
  BY DEF Fields
<1>7. FitsAt(j, place, saw) => FitsAt(k, place, saw)
  BY ZenonT(60), <1>1, <1>2, <1>3, <1>4 DEF FitsAt, Fields, ShowToken, ByToken
<1>8. SpentAt(j, place) => SpentAt(k, place)
  BY <1>1, <1>2, <1>3 DEF SpentAt, Fields, ShowToken, ByToken
<1>9. TrustsAt(j, place, saw) => TrustsAt(k, place, saw)
  BY <1>1, <1>2, <1>5, <1>6 DEF TrustsAt, Fields, ShowToken, ByToken, ByOps
<1> QED BY <1>7, <1>8, <1>9

\* What a worker may do next when it goes on to a place with the tables as they are.
Ready(j, place, saw) ==
  FitsAt(j, place, saw) /\ SpentAt(j, place) /\ (OneAtATime => TrustsAt(j, place, saw))

LEMMA Unwritten ==
  ASSUME Inv, NEW w \in Threads, Moves(w), UNCHANGED credentialState,
         Fits(job'[w]), OneAtATime => Trusts(job'[w])
  PROVE  Inv'
<1>1. CredentialTypes' /\ Grows /\ BanEndsSessions'
  BY DEF Inv, CredentialTypes, Grows, BanEndsSessions, credentialState, authTables
<1>2. Fits(job[w])'
  BY DEF Fits, FitsAt, SpentAt, credentialState, authTables
<1>3. OneAtATime => Trusts(job[w])'
  BY DEF Trusts, TrustsAt, KeysOf, ReplayOf, credentialState, authTables
<1>4. ASSUME OneAtATime
      PROVE  (\A u \in People : HasLogin(u))' /\ CodesNoted' /\ CodesDiffer'
  <2>1. InTurn
    BY <1>4 DEF Inv
  <2> QED
    BY <2>1 DEF InTurn, HasLogin, KeysOf, CodesNoted, CodesDiffer, credentialState, authTables
<1> QED BY <1>1, <1>2, <1>3, <1>4, Preserved

\* A check that refuses, or goes on to a place it is ready for.
LEMMA Looked ==
  ASSUME Inv, NEW w \in Threads, job[w] # Free, NEW refused, NEW place, place # "none",
         Look(w, refused, place), ~refused => Ready(job[w], place, job[w].saw)
  PROVE  Inv'
<1>1. Pool /\ UNCHANGED credentialState
  BY DEF Inv, Look
<1>2. CASE refused
  <2>1. Moves(w) /\ job'[w] = Free
    BY <1>1, <1>2, Responding DEF Look, Unless
  <2> QED BY <1>1, <2>1, DoneFits, Unwritten
<1>3. CASE ~refused
  <2>1. Proceed(w, place)
    BY <1>3 DEF Look, Unless
  <2>2. /\ Moves(w) /\ job'[w].at = place /\ DOMAIN job'[w] = DOMAIN job[w]
        /\ \A f \in DOMAIN job[w] \ {"at"} : job'[w][f] = job[w][f]
    BY <1>1, <2>1, Proceeding
  <2>3. Fields(job[w]) /\ job'[w].saw = job[w].saw
    BY <2>2, JobFields DEF IsJob
  <2>4. Fits(job'[w]) /\ (OneAtATime => Trusts(job'[w]))
    BY <1>3, <2>2, <2>3, SamePlace DEF Ready, Fits, Trusts
  <2> QED BY <1>1, <2>2, <2>4, Unwritten
<1> QED BY <1>2, <1>3

LEMMA Remembered ==
  ASSUME Inv, NEW w \in Threads, job[w] # Free, NEW refused, NEW place, place # "none",
         NEW saw, Remember(w, refused, place, saw), ~refused => Ready(job[w], place, saw)
  PROVE  Inv'
<1>1. Pool /\ UNCHANGED credentialState
  BY DEF Inv, Remember
<1>2. CASE refused
  <2>1. Moves(w) /\ job'[w] = Free
    BY <1>1, <1>2, Responding DEF Remember
  <2> QED BY <1>1, <2>1, DoneFits, Unwritten
<1>3. CASE ~refused
  <2>1. Recall(w, place, saw)
    BY <1>3 DEF Remember
  <2>2. /\ Moves(w) /\ job'[w].at = place /\ job'[w].saw = saw /\ DOMAIN job'[w] = DOMAIN job[w]
        /\ \A f \in DOMAIN job[w] \ {"at", "saw"} : job'[w][f] = job[w][f]
    BY <1>1, <2>1, Recalling
  <2>3. Fields(job[w])
    BY JobFields
  <2>4. Fits(job'[w]) /\ (OneAtATime => Trusts(job'[w]))
    BY <1>3, <2>2, <2>3, SamePlace DEF Ready, Fits, Trusts
  <2> QED BY <1>1, <2>2, <2>4, Unwritten
<1> QED BY <1>2, <1>3

-----------------------------------------------------------------------------
(* The checks *)

LEMMA Serving ==
  ASSUME Inv, NEW w \in Threads, job[w].at # "none"
  PROVE  /\ job[w] # Free /\ Fields(job[w])
         /\ FitsAt(job[w], job[w].at, job[w].saw) /\ SpentAt(job[w], job[w].at)
         /\ OneAtATime => TrustsAt(job[w], job[w].at, job[w].saw) /\ InTurn
<1>1. job[w] # Free
  BY DEF Free
<1> QED BY <1>1, JobFields DEF Inv, Fits, InTurn, Trusts

LEMMA LiveOf ==
  ASSUME CredentialTypes, NEW t \in DOMAIN tokens, NEW kinds \in SUBSET OfSomebody, Live(t, kinds)
  PROVE  tokens[t].of \in People
<1>1. tokens[t] \in TokenRows
  BY DEF CredentialTypes
<1> QED BY <1>1 DEF Live, TokenRows, OfNobody, OfSomebody

LEMMA LoginChecksKept ==
  ASSUME Inv, NEW w \in Threads
  PROVE  CheckLoginVerify(w) \/ CheckPkiLogin(w) \/ CheckPasswordLogin(w)
         \/ AdmitKeyLogin(w) \/ AdmitPasswordLogin(w) \/ AdmitUser(w)
         => Inv'
<1> DEFINE j == job[w]
<1>1. CASE CheckLoginVerify(w)
  <2> DEFINE refused == HoldersOf(j.key) = {} \/ ~Live(j.challenge, {"passkey login"})
  <2>1. Look(w, refused, "discard") /\ j.op = "login" /\ j.at = "check" /\ j.method = "passkey"
    BY <1>1 DEF CheckLoginVerify, At
  <2>2. Ready(j, "discard", j.saw)
    BY <2>1, Serving DEF Ready, FitsAt, SpentAt, TrustsAt, Fields, ShowToken, ByToken, TwoFactors
  <2> QED BY <2>1, <2>2, Serving, Looked
<1>2. CASE CheckPkiLogin(w)
  <2> DEFINE refused == ~Live(j.challenge, {"pki login"})
  <2>1. Look(w, refused, "discard") /\ j.op = "login" /\ j.at = "check" /\ j.method = "pki"
    BY <1>2 DEF CheckPkiLogin, At
  <2>2. Ready(j, "discard", j.saw)
    BY <2>1, Serving DEF Ready, FitsAt, SpentAt, TrustsAt, Fields, ShowToken, ByToken, TwoFactors
  <2> QED BY <2>1, <2>2, Serving, Looked
<1>3. CASE CheckPasswordLogin(w)
  <2> DEFINE refused == password[j.user] # j.password \/ j.user \in banned
  <2>1. /\ Remember(w, refused, "admit", j.user)
        /\ j.op = "login" /\ j.at = "check" /\ j.method = "password"
    BY <1>3 DEF CheckPasswordLogin, At
  <2>2. Ready(j, "admit", j.user)
    BY <2>1, Serving DEF Ready, FitsAt, SpentAt, TrustsAt, Fields, ShowToken, ByToken, TwoFactors
  <2> QED BY <2>1, <2>2, Serving, Remembered
<1>4. CASE AdmitKeyLogin(w)
  <2>1. j.op = "login" /\ j.at = "admit" /\ j.method # "password"
    BY <1>4 DEF AdmitKeyLogin, At
  <2>2. CASE HoldersOf(j.key) = {}
    <3>1. Look(w, TRUE, "session")
      BY <1>4, <2>2 DEF AdmitKeyLogin
    <3> QED BY <2>1, <3>1, Serving, Looked
  <2>3. CASE HoldersOf(j.key) # {}
    <3>1. PICK u \in HoldersOf(j.key) :
            Remember(w, u \in banned \/ LockedOut(u), AfterFirstFactor(u, j.method), u)
      BY <1>4, <2>3 DEF AdmitKeyLogin
    <3>2. AfterFirstFactor(u, j.method) \in {"second factor", "session"} /\ u \in People
      BY DEF AfterFirstFactor, HoldersOf
    <3>3. Ready(j, AfterFirstFactor(u, j.method), u)
      BY <2>1, <3>2, Serving
         DEF Ready, FitsAt, SpentAt, TrustsAt, Fields, ShowToken, ByToken, TwoFactors
    <3> QED BY <2>1, <3>1, <3>2, <3>3, Serving, Remembered
  <2> QED BY <2>2, <2>3
<1>5. CASE AdmitPasswordLogin(w)
  <2> DEFINE place == AfterFirstFactor(j.saw, "password")
  <2>1. /\ Look(w, LockedOut(j.saw), place)
        /\ j.op = "login" /\ j.at = "admit" /\ j.method = "password"
    BY <1>5 DEF AdmitPasswordLogin, At
  <2>2. place \in {"second factor", "session"}
    BY DEF AfterFirstFactor
  <2>3. Ready(j, place, j.saw)
    BY <2>1, <2>2, Serving
       DEF Ready, FitsAt, SpentAt, TrustsAt, Fields, ShowToken, ByToken, TwoFactors
  <2> QED BY <2>1, <2>2, <2>3, Serving, Looked
<1>6. CASE AdmitUser(w)
  <2> DEFINE place == IF j.op = "recovery token login" THEN "spend" ELSE "session"
             refused == User(w) \in banned \/ LockedOut(User(w))
  <2>1. Look(w, refused, place) /\ j.op # "login" /\ j.at = "admit"
    BY <1>6 DEF AdmitUser
  <2>2. Ready(j, place, j.saw)
    BY <2>1, Serving DEF Ready, FitsAt, SpentAt, TrustsAt, Fields, ShowToken, ByToken, TwoFactors
  <2> QED BY <2>1, <2>2, Serving, Looked
<1> QED BY <1>1, <1>2, <1>3, <1>4, <1>5, <1>6

LEMMA FactorChecksKept ==
  ASSUME Inv, NEW w \in Threads
  PROVE  CheckMfaVerify(w) \/ CheckMfaSetup(w) \/ CheckMfaSetupVerify(w)
         \/ CheckTotpSetup(w) \/ CheckTotpVerify(w) \/ CheckTotpDisable(w) \/ CheckFactorNeeded(w)
         => Inv'
<1> DEFINE j == job[w]
           u == tokens[j.token].of
<1>1. \A v \in People : totp[v] \in Factors
  BY DEF Inv, CredentialTypes
<1>2. ASSUME j.op \in TwoFactors, j.at = "check", Live(j.token, {"second factor"})
      PROVE  u \in People
  <2>1. j.token \in DOMAIN tokens
    BY <1>2, Serving DEF FitsAt, Fields, ShowToken, ByToken
  <2> QED BY <1>2, <2>1, LiveOf DEF Inv, OfSomebody
<1>3. CASE CheckMfaVerify(w)
  <2> DEFINE refused == ~(/\ Live(j.token, {"second factor"})
                          /\ totp[u].verified /\ Acceptable(u, j.code))
  <2>1. Remember(w, refused, "stamp", totp[u].secret) /\ j.op = "mfa verify" /\ j.at = "check"
    BY <1>3 DEF CheckMfaVerify, At
  <2>2. ASSUME ~refused PROVE Ready(j, "stamp", totp[u].secret)
    <3>1. u \in People /\ totp[u] \in Factors
      BY <1>1, <1>2, <2>1, <2>2 DEF TwoFactors
    <3>2. OneAtATime => totp[u].secret # 0 /\ j.code > totp[u].last
      BY <2>1, <2>2, <3>1, Serving DEF InTurn, CodesNoted, Acceptable
    <3> QED
      BY <2>1, <3>1, <3>2, Serving
         DEF Ready, FitsAt, SpentAt, TrustsAt, Fields, ShowToken, ByToken, TwoFactors, Factors
  <2> QED BY <2>1, <2>2, Serving, Remembered
<1>4. CASE CheckMfaSetupVerify(w)
  <2> DEFINE refused == ~(/\ Live(j.token, {"second factor"})
                          /\ totp[u].secret # 0 /\ Acceptable(u, j.code))
  <2>1. Remember(w, refused, "prove", totp[u].secret) /\ j.op = "mfa setup verify" /\ j.at = "check"
    BY <1>4 DEF CheckMfaSetupVerify, At
  <2>2. ASSUME ~refused PROVE Ready(j, "prove", totp[u].secret)
    <3>1. u \in People /\ totp[u] \in Factors
      BY <1>1, <1>2, <2>1, <2>2 DEF TwoFactors
    <3>2. totp[u].secret # 0 /\ j.code > totp[u].last
      BY <2>2 DEF Acceptable
    <3> QED
      BY <2>1, <3>1, <3>2, Serving
         DEF Ready, FitsAt, SpentAt, TrustsAt, Fields, ShowToken, ByToken, TwoFactors, Factors
  <2> QED BY <2>1, <2>2, Serving, Remembered
<1>5. CASE CheckMfaSetup(w)
  <2> DEFINE refused == ~Live(j.token, {"second factor"})
  <2>1. Look(w, refused, "new secret") /\ j.op = "mfa setup" /\ j.at = "check"
    BY <1>5 DEF CheckMfaSetup, At
  <2>2. ASSUME ~refused PROVE Ready(j, "new secret", j.saw)
    <3>1. j.token \in DOMAIN tokens
      BY <2>1, Serving DEF FitsAt, Fields, ShowToken, ByToken
    <3>2. u \in People
      BY <2>2, <3>1, LiveOf DEF Inv, OfSomebody
    <3> QED
      BY <2>1, <3>2, Serving
         DEF Ready, FitsAt, SpentAt, TrustsAt, Fields, ShowToken, ByToken, TwoFactors
  <2> QED BY <2>1, <2>2, Serving, Looked
<1>6. CASE CheckTotpSetup(w)
  <2>1. Look(w, ~LoggedIn(j.by), "new secret") /\ j.op = "totp setup" /\ j.at = "check"
    BY <1>6 DEF CheckTotpSetup, At
  <2>2. Ready(j, "new secret", j.saw)
    BY <2>1, Serving DEF Ready, FitsAt, SpentAt, TrustsAt, Fields, ShowToken, ByToken, TwoFactors
  <2> QED BY <2>1, <2>2, Serving, Looked
<1>7. CASE CheckTotpVerify(w)
  <2> DEFINE refused == ~(LoggedIn(j.by) /\ totp[j.by].secret # 0 /\ Acceptable(j.by, j.code))
  <2>1. Look(w, refused, "prove") /\ j.op = "totp verify" /\ j.at = "check"
    BY <1>7 DEF CheckTotpVerify, At
  <2>2. ~refused => Ready(j, "prove", j.saw)
    BY <2>1, Serving DEF Ready, FitsAt, SpentAt, TrustsAt, Fields, ShowToken, ByToken, TwoFactors,
                         Acceptable
  <2> QED BY <2>1, <2>2, Serving, Looked
<1>8. CASE CheckTotpDisable(w)
  <2> DEFINE refused == ~(LoggedIn(j.by) /\ totp[j.by].verified /\ Acceptable(j.by, j.code))
  <2>1. Look(w, refused, "stamp") /\ j.op = "totp disable" /\ j.at = "check"
    BY <1>8 DEF CheckTotpDisable, At
  <2>2. ~refused => Ready(j, "stamp", j.saw)
    BY <2>1, Serving DEF Ready, FitsAt, SpentAt, TrustsAt, Fields, ShowToken, ByToken, TwoFactors,
                         Acceptable
  <2> QED BY <2>1, <2>2, Serving, Looked
<1>9. CASE CheckFactorNeeded(w)
  <2> DEFINE refused == \/ "password" \in required /\ password[j.by] # NoPassword
                        \/ "pki" \in required /\ KeysOf(j.by) \cap PersonalKeys # {}
                        \/ "passkey" \in required /\ PasskeysOf(j.by) # {}
  <2>1. Look(w, refused, "drop") /\ j.op = "totp disable" /\ j.at = "needed"
    BY <1>9 DEF CheckFactorNeeded, At
  <2>2. Ready(j, "drop", j.saw)
    BY <2>1, Serving DEF Ready, FitsAt, SpentAt, TrustsAt, Fields, ShowToken, ByToken, TwoFactors
  <2> QED BY <2>1, <2>2, Serving, Looked
<1> QED BY <1>3, <1>4, <1>5, <1>6, <1>7, <1>8, <1>9

LEMMA TokenChecksKept ==
  ASSUME Inv, NEW w \in Threads
  PROVE  CheckRecoveryKey(w) \/ CheckRecoveryToken(w) \/ CheckLinkPasskey(w) \/ CheckLinkKey(w)
         \/ CheckAddPasskey(w) \/ CheckAddKey(w)
         => Inv'
<1> DEFINE j == job[w]
<1>1. CASE CheckRecoveryKey(w)
  <2> DEFINE refused == ~Live(j.token, {"recovery key"})
  <2>1. Look(w, refused, "spend") /\ j.op = "recovery key" /\ j.at = "check"
    BY <1>1 DEF CheckRecoveryKey, At
  <2>2. ASSUME ~refused PROVE Ready(j, "spend", j.saw)
    <3>1. j.token \in DOMAIN tokens
      BY <2>1, Serving DEF FitsAt, Fields, ShowToken, ByToken
    <3>2. tokens[j.token].of \in People
      BY <2>2, <3>1, LiveOf DEF Inv, OfSomebody
    <3> QED
      BY <2>1, <3>2, Serving DEF Ready, FitsAt, SpentAt, TrustsAt, Fields, ShowToken, ByToken, TwoFactors
  <2> QED BY <2>1, <2>2, Serving, Looked
<1>2. CASE CheckRecoveryToken(w)
  <2> DEFINE refused == ~Live(j.token, {"recovery token"})
  <2>1. Look(w, refused, "admit") /\ j.op = "recovery token login" /\ j.at = "check"
    BY <1>2 DEF CheckRecoveryToken, At
  <2>2. ASSUME ~refused PROVE Ready(j, "admit", j.saw)
    <3>1. j.token \in DOMAIN tokens
      BY <2>1, Serving DEF FitsAt, Fields, ShowToken, ByToken
    <3>2. tokens[j.token].of \in People
      BY <2>2, <3>1, LiveOf DEF Inv, OfSomebody
    <3> QED
      BY <2>1, <3>2, Serving DEF Ready, FitsAt, SpentAt, TrustsAt, Fields, ShowToken, ByToken, TwoFactors
  <2> QED BY <2>1, <2>2, Serving, Looked
<1>3. CASE CheckLinkPasskey(w)
  <2> DEFINE refused == ~(/\ Live(j.challenge, {"link passkey"})
                          /\ Live(j.token, {"device token"})
                          /\ tokens[j.challenge].of = tokens[j.token].of)
  <2>1. Look(w, refused, "discard") /\ j.op = "link" /\ j.at = "check"
    BY <1>3 DEF CheckLinkPasskey, At
  <2>2. ASSUME ~refused PROVE Ready(j, "discard", j.saw)
    <3>1. j.token \in DOMAIN tokens
      BY <2>1, Serving DEF FitsAt, Fields, ShowToken, ByToken
    <3>2. tokens[j.token].of \in People
      BY <2>2, <3>1, LiveOf DEF Inv, OfSomebody
    <3> QED
      BY <2>1, <3>2, Serving DEF Ready, FitsAt, SpentAt, TrustsAt, Fields, ShowToken, ByToken, TwoFactors
  <2> QED BY <2>1, <2>2, Serving, Looked
<1>4. CASE CheckLinkKey(w)
  <2> DEFINE refused == ~(/\ Live(j.token, {"device token"})
                          /\ Live(j.challenge, {"link key"}))
  <2>1. Look(w, refused, "discard") /\ j.op = "link" /\ j.at = "check"
    BY <1>4 DEF CheckLinkKey, At
  <2>2. ASSUME ~refused PROVE Ready(j, "discard", j.saw)
    <3>1. j.token \in DOMAIN tokens
      BY <2>1, Serving DEF FitsAt, Fields, ShowToken, ByToken
    <3>2. tokens[j.token].of \in People
      BY <2>2, <3>1, LiveOf DEF Inv, OfSomebody
    <3> QED
      BY <2>1, <3>2, Serving DEF Ready, FitsAt, SpentAt, TrustsAt, Fields, ShowToken, ByToken, TwoFactors
  <2> QED BY <2>1, <2>2, Serving, Looked
<1>5. CASE CheckAddPasskey(w)
  <2> DEFINE refused == ~OwnChallenge(w, "add passkey")
  <2>1. Look(w, refused, "discard") /\ j.op = "add" /\ j.at = "check"
    BY <1>5 DEF CheckAddPasskey, At
  <2>2. Ready(j, "discard", j.saw)
    BY <2>1, Serving DEF Ready, FitsAt, SpentAt, TrustsAt, Fields, ShowToken, ByToken, TwoFactors
  <2> QED BY <2>1, <2>2, Serving, Looked
<1>6. CASE CheckAddKey(w)
  <2> DEFINE refused == ~OwnChallenge(w, "add key")
  <2>1. Look(w, refused, "discard") /\ j.op = "add" /\ j.at = "check"
    BY <1>6 DEF CheckAddKey, At
  <2>2. Ready(j, "discard", j.saw)
    BY <2>1, Serving DEF Ready, FitsAt, SpentAt, TrustsAt, Fields, ShowToken, ByToken, TwoFactors
  <2> QED BY <2>1, <2>2, Serving, Looked
<1> QED BY <1>1, <1>2, <1>3, <1>4, <1>5, <1>6

LEMMA OwnChecksKept ==
  ASSUME Inv, NEW w \in Threads
  PROVE  RefuseRegenerate(w) \/ CheckRemovePasskey(w) \/ CountPasskeys(w) \/ CheckRemoveKey(w)
         \/ CheckPasswordChange(w) \/ CheckPasswordSet(w) \/ CheckPasswordDelete(w)
         \/ CheckBan(w) \/ CheckUnban(w)
         => Inv'
<1> DEFINE j == job[w]
<1>1. CASE RefuseRegenerate(w)
  <2>1. Look(w, TRUE, "store keys") /\ j.op = "regenerate" /\ j.at = "check"
    BY <1>1 DEF RefuseRegenerate, At
  <2> QED BY <2>1, Serving, Looked
<1>2. CASE CheckRemovePasskey(w)
  <2> DEFINE refused == ~LoggedIn(j.by) \/ Cardinality(KeysOf(j.by)) <= 1
  <2>1. Look(w, refused, "remove") /\ j.op = "remove" /\ j.at = "check"
    BY <1>2 DEF CheckRemovePasskey, At
  <2>2. ASSUME ~refused PROVE Ready(j, "remove", j.saw)
    <3>1. Cardinality(KeysOf(j.by)) > 1
      <4>1. IsFiniteSet(KeysOf(j.by))
        BY CredentialAssumption, FS_Subset DEF KeysOf
      <4>2. Cardinality(KeysOf(j.by)) \in Nat
        BY <4>1, FS_CardinalityType
      <4> QED BY <2>2, <4>2
    <3> QED
      BY <2>1, <3>1, Serving DEF Ready, FitsAt, SpentAt, TrustsAt, Fields, ShowToken, ByToken, TwoFactors
  <2> QED BY <2>1, <2>2, Serving, Looked
<1>3. CASE CheckRemoveKey(w)
  <2> DEFINE refused == ~LoggedIn(j.by) \/ Cardinality(KeysOf(j.by)) <= 1
  <2>1. Look(w, refused, "remove") /\ j.op = "remove" /\ j.at = "check"
    BY <1>3 DEF CheckRemoveKey, At
  <2>2. ASSUME ~refused PROVE Ready(j, "remove", j.saw)
    <3>1. Cardinality(KeysOf(j.by)) > 1
      <4>1. IsFiniteSet(KeysOf(j.by))
        BY CredentialAssumption, FS_Subset DEF KeysOf
      <4>2. Cardinality(KeysOf(j.by)) \in Nat
        BY <4>1, FS_CardinalityType
      <4> QED BY <2>2, <4>2
    <3> QED
      BY <2>1, <3>1, Serving DEF Ready, FitsAt, SpentAt, TrustsAt, Fields, ShowToken, ByToken, TwoFactors
  <2> QED BY <2>1, <2>2, Serving, Looked
<1>4. CASE CheckPasswordChange(w)
  <2> DEFINE refused == \/ ~LoggedIn(j.by)
                        \/ password[j.by] = NoPassword \/ j.current # password[j.by]
                        \/ j.password \in Newest(former[j.by], HistoryCount) \cup {password[j.by]}
  <2>1. /\ Remember(w, refused, "keep former", password[j.by])
        /\ j.op = "change password" /\ j.at = "check"
    BY <1>4 DEF CheckPasswordChange, At
  <2>2. password[j.by] \in Nat
    BY <2>1, Serving DEF Inv, CredentialTypes, Fields, ByOps
  <2>3. Ready(j, "keep former", password[j.by])
    BY <2>1, <2>2, Serving DEF Ready, FitsAt, SpentAt, TrustsAt, Fields, ShowToken, ByToken, TwoFactors
  <2> QED BY <2>1, <2>3, Serving, Remembered
<1>5. CASE CheckPasswordSet(w)
  <2> DEFINE refused == ~LoggedIn(j.by) \/ password[j.by] # NoPassword
  <2>1. Look(w, refused, "store password") /\ j.op = "set password" /\ j.at = "check"
    BY <1>5 DEF CheckPasswordSet, At
  <2>2. Ready(j, "store password", j.saw)
    BY <2>1, Serving DEF Ready, FitsAt, SpentAt, TrustsAt, Fields, ShowToken, ByToken, TwoFactors
  <2> QED BY <2>1, <2>2, Serving, Looked
<1>6. CASE CheckPasswordDelete(w)
  <2> DEFINE refused == ~LoggedIn(j.by) \/ password[j.by] = NoPassword \/ KeysOf(j.by) = {}
  <2>1. Look(w, refused, "drop password") /\ j.op = "delete password" /\ j.at = "check"
    BY <1>6 DEF CheckPasswordDelete, At
  <2>2. ~refused => Ready(j, "drop password", j.saw)
    BY <2>1, Serving DEF Ready, FitsAt, SpentAt, TrustsAt, Fields, ShowToken, ByToken, TwoFactors
  <2> QED BY <2>1, <2>2, Serving, Looked
<1>7. CASE CheckBan(w)
  <2> DEFINE refused == ~Administers(w) \/ j.of \in banned \cup Admins
  <2>1. Look(w, refused, "ban") /\ j.op = "ban" /\ j.at = "check"
    BY <1>7 DEF CheckBan, At
  <2>2. Ready(j, "ban", j.saw)
    BY <2>1, Serving DEF Ready, FitsAt, SpentAt, TrustsAt, Fields, ShowToken, ByToken, TwoFactors
  <2> QED BY <2>1, <2>2, Serving, Looked
<1>8. CASE CheckUnban(w)
  <2> DEFINE refused == ~Administers(w) \/ j.of \notin banned
  <2>1. Look(w, refused, "unban") /\ j.op = "unban" /\ j.at = "check"
    BY <1>8 DEF CheckUnban, At
  <2>2. Ready(j, "unban", j.saw)
    BY <2>1, Serving DEF Ready, FitsAt, SpentAt, TrustsAt, Fields, ShowToken, ByToken, TwoFactors
  <2> QED BY <2>1, <2>2, Serving, Looked
<1>9. CASE CountPasskeys(w)
  <2> DEFINE refused == Cardinality(PasskeysOf(j.by)) <= 1
  <2>1. Look(w, refused, "remove passkey") /\ j.op = "remove" /\ j.at = "remove"
    BY <1>9 DEF CountPasskeys, At
  <2>2. Ready(j, "remove passkey", j.saw)
    BY <2>1, Serving
    DEF Ready, Fits, FitsAt, SpentAt, InTurn, Trusts, TrustsAt, Fields, ShowToken, ByToken, TwoFactors, Inv
  <2> HIDE DEF refused
  <2> QED BY <2>1, <2>2, Serving, Looked
<1> QED BY <1>1, <1>2, <1>3, <1>4, <1>5, <1>6, <1>7, <1>8, <1>9

-----------------------------------------------------------------------------
(* The tokens are written *)

LEMMA RowChanged ==
  ASSUME NEW t \in TokenRows
  PROVE  /\ [t EXCEPT !.live = FALSE] \in TokenRows
         /\ [t EXCEPT !.served = @ + 1] \in TokenRows
         /\ t.served \in Nat /\ t.live \in BOOLEAN
         /\ [t EXCEPT !.live = FALSE].of = t.of /\ [t EXCEPT !.served = @ + 1].of = t.of
         /\ [t EXCEPT !.live = FALSE].kind = t.kind /\ [t EXCEPT !.served = @ + 1].kind = t.kind
         /\ [t EXCEPT !.live = FALSE].live = FALSE /\ [t EXCEPT !.served = @ + 1].live = t.live
         /\ [t EXCEPT !.live = FALSE].served = t.served
         /\ [t EXCEPT !.served = @ + 1].served = t.served + 1
<1>1. /\ t = [kind |-> t.kind, of |-> t.of, live |-> t.live, served |-> t.served]
      /\ t.live \in BOOLEAN /\ t.served \in Nat
      /\ \/ t.kind \in OfNobody /\ t.of \in {Nobody}
         \/ t.kind \in OfSomebody /\ t.of \in People
  <2>1. CASE t \in [kind : OfNobody, of : {Nobody}, live : BOOLEAN, served : Nat]
    BY <2>1
  <2>2. CASE t \in [kind : OfSomebody, of : People, live : BOOLEAN, served : Nat]
    BY <2>2
  <2> QED BY <2>1, <2>2 DEF TokenRows
<1>2. [t EXCEPT !.live = FALSE] \in TokenRows
  <2>1. CASE t \in [kind : OfNobody, of : {Nobody}, live : BOOLEAN, served : Nat]
    <3>1. [t EXCEPT !.live = FALSE] \in [kind : OfNobody, of : {Nobody}, live : BOOLEAN, served : Nat]
      BY <2>1
    <3> QED BY <3>1 DEF TokenRows
  <2>2. CASE t \in [kind : OfSomebody, of : People, live : BOOLEAN, served : Nat]
    <3>1. [t EXCEPT !.live = FALSE] \in [kind : OfSomebody, of : People, live : BOOLEAN, served : Nat]
      BY <2>2
    <3> QED BY <3>1 DEF TokenRows
  <2> QED BY <2>1, <2>2 DEF TokenRows
<1>3. [t EXCEPT !.served = @ + 1]
        = [kind |-> t.kind, of |-> t.of, live |-> t.live, served |-> t.served + 1]
  BY <1>1
<1>4. [t EXCEPT !.served = @ + 1] \in TokenRows
  BY <1>1, <1>3 DEF TokenRows
<1>5. /\ [t EXCEPT !.live = FALSE].of = t.of /\ [t EXCEPT !.live = FALSE].kind = t.kind
      /\ [t EXCEPT !.live = FALSE].live = FALSE /\ [t EXCEPT !.live = FALSE].served = t.served
  BY <1>1
<1> QED BY <1>1, <1>2, <1>3, <1>4, <1>5

\* What serves a request keeps whose it is and whether it is live.
LEMMA ServedRows ==
  ASSUME CredentialTypes, NEW w
  PROVE  /\ Served(w) \in Seq(TokenRows) /\ Len(Served(w)) = Len(tokens)
         /\ \A t \in DOMAIN tokens :
              /\ Served(w)[t] \in TokenRows
              /\ Served(w)[t].of = tokens[t].of /\ Served(w)[t].live = tokens[t].live
              /\ Served(w)[t].kind = tokens[t].kind
<1>1. \A t \in DOMAIN tokens : tokens[t] \in TokenRows
  BY DEF CredentialTypes
<1>2. \A t \in DOMAIN tokens : Served(w)[t] = tokens[t]
                                 \/ Served(w)[t] = [tokens[t] EXCEPT !.served = @ + 1]
  BY DEF Served
<1>3. ASSUME NEW t \in DOMAIN tokens
      PROVE  /\ Served(w)[t] \in TokenRows
             /\ Served(w)[t].of = tokens[t].of /\ Served(w)[t].live = tokens[t].live
             /\ Served(w)[t].kind = tokens[t].kind
  BY <1>1, <1>2, <1>3, RowChanged
<1>4. Served(w) = [t \in DOMAIN tokens |-> Served(w)[t]]
  BY DEF Served
<1> HIDE DEF Served
<1>5. tokens \in Seq(TokenRows)
  BY DEF CredentialTypes
<1> QED BY <1>3, <1>4, <1>5, Rewritten

LEMMA TokensWritten ==
  ASSUME Inv, NEW w \in Threads, Moves(w), tokens' \in Seq(TokenRows), Grows,
         UNCHANGED <<banned, locked, held, password, former, totp, required, sessions, clock,
                     secrets, bans>>,
         Fits(job[w])', OneAtATime => Trusts(job[w])'
  PROVE  Inv'
<1>1. CredentialTypes' /\ BanEndsSessions'
  BY DEF Inv, CredentialTypes, BanEndsSessions
<1>2. ASSUME OneAtATime
      PROVE  (\A u \in People : HasLogin(u))' /\ CodesNoted' /\ CodesDiffer'
  <2>1. InTurn
    BY <1>2 DEF Inv
  <2> QED
    BY <2>1 DEF InTurn, HasLogin, KeysOf, CodesNoted, CodesDiffer
<1> QED BY <1>1, <1>2, Preserved

\* The worker is done.
LEMMA TokensWrittenLast ==
  ASSUME Inv, NEW w \in Threads, job[w] # Free, Respond(w), tokens' \in Seq(TokenRows), Grows,
         UNCHANGED <<banned, locked, held, password, former, totp, required, sessions, clock,
                     secrets, bans>>
  PROVE  Inv'
<1>1. Moves(w) /\ job'[w] = Free
  BY Responding DEF Inv
<1>2. Fits(job[w])' /\ Trusts(job[w])'
  <2>1. job'[w].op = "none" /\ job'[w].at = "none" /\ DOMAIN job'[w] = {"op", "at"}
    BY <1>1 DEF Free
  <2> QED BY <2>1 DEF Fits, FitsAt, SpentAt, Trusts, TrustsAt, ShowToken, ByToken, TwoFactors
<1> QED BY <1>1, <1>2, TokensWritten

LEMMA TokenIssued ==
  ASSUME Inv, NEW kind, NEW u,
         \/ kind \in OfNobody /\ u = Nobody
         \/ kind \in OfSomebody /\ u \in People,
         tokens' = Append(tokens, NewToken(kind, u))
  PROVE  tokens' \in Seq(TokenRows) /\ Grows
<1>1. NewToken(kind, u) \in TokenRows
  BY DEF NewToken, TokenRows
<1>2. tokens \in Seq(TokenRows)
  BY DEF Inv, CredentialTypes
<1> QED BY <1>1, <1>2 DEF Grows

LEMMA IssueKept ==
  ASSUME Inv, NEW w \in Threads, job[w] # Free, NEW permitted, NEW kind, NEW u,
         permitted => \/ kind \in OfNobody /\ u = Nobody
                      \/ kind \in OfSomebody /\ u \in People,
         Issue(w, permitted, kind, u)
  PROVE  Inv'
<1>1. Respond(w) /\ UNCHANGED <<banned, locked, held, password, former, totp, required, sessions,
                                clock, secrets, bans>>
  BY DEF Issue
<1>2. CASE permitted
  <2>1. tokens' \in Seq(TokenRows) /\ Grows
    BY <1>2, TokenIssued DEF Issue
  <2> QED BY <1>1, <2>1, TokensWrittenLast
<1>3. CASE ~permitted
  <2>1. tokens' = tokens
    BY <1>3 DEF Issue
  <2>2. tokens' \in Seq(TokenRows) /\ Grows
    BY <2>1 DEF Inv, CredentialTypes, Grows
  <2> QED BY <1>1, <2>2, TokensWrittenLast
<1> QED BY <1>2, <1>3

LEMMA IssuesKept ==
  ASSUME Inv, NEW w \in Threads
  PROVE  LoginOptions(w) \/ PkiChallenge(w) \/ AddPasskeyOptions(w) \/ AddKeyChallenge(w)
         \/ DeviceToken(w) \/ LinkPasskeyOptions(w) \/ LinkKeyChallenge(w) \/ RecoveryToken(w)
         => Inv'
<1> DEFINE j == job[w]
<1>1. CASE LoginOptions(w)
  <2>1. Issue(w, TRUE, "passkey login", Nobody) /\ j.at = "check"
    BY <1>1 DEF LoginOptions, At
  <2>2. "passkey login" \in OfNobody
    BY DEF OfNobody
  <2> QED BY <2>1, <2>2, Serving, IssueKept
<1>2. CASE PkiChallenge(w)
  <2>1. Issue(w, TRUE, "pki login", Nobody) /\ j.at = "check"
    BY <1>2 DEF PkiChallenge, At
  <2>2. "pki login" \in OfNobody
    BY DEF OfNobody
  <2> QED BY <2>1, <2>2, Serving, IssueKept
<1>3. CASE AddPasskeyOptions(w)
  <2>1. Issue(w, LoggedIn(j.by), "add passkey", j.by) /\ j.at = "check" /\ j.op \in ByOps
    BY <1>3 DEF AddPasskeyOptions, At, ByOps
  <2> QED BY <2>1, Serving, IssueKept DEF OfSomebody, Fields
<1>4. CASE AddKeyChallenge(w)
  <2>1. Issue(w, LoggedIn(j.by), "add key", j.by) /\ j.at = "check" /\ j.op \in ByOps
    BY <1>4 DEF AddKeyChallenge, At, ByOps
  <2> QED BY <2>1, Serving, IssueKept DEF OfSomebody, Fields
<1>5. CASE DeviceToken(w)
  <2>1. Issue(w, LoggedIn(j.by), "device token", j.by) /\ j.at = "check" /\ j.op \in ByOps
    BY <1>5 DEF DeviceToken, At, ByOps
  <2> QED BY <2>1, Serving, IssueKept DEF OfSomebody, Fields
<1>6. CASE LinkPasskeyOptions(w)
  <2> DEFINE permitted == Live(j.token, {"device token"})
  <2>1. /\ Issue(w, permitted, "link passkey", tokens[j.token].of)
        /\ j.at = "check" /\ j.op = "link passkey options"
    BY <1>6 DEF LinkPasskeyOptions, At
  <2>2. j.token \in DOMAIN tokens
    BY <2>1, Serving DEF FitsAt, Fields
  <2>3. permitted => tokens[j.token].of \in People
    BY <2>2, LiveOf DEF Inv, OfSomebody
  <2> QED BY <2>1, <2>3, Serving, IssueKept DEF OfSomebody
<1>7. CASE LinkKeyChallenge(w)
  <2>1. Issue(w, Live(j.token, {"device token"}), "link key", Nobody) /\ j.at = "check"
    BY <1>7 DEF LinkKeyChallenge, At
  <2>2. "link key" \in OfNobody
    BY DEF OfNobody
  <2> QED BY <2>1, <2>2, Serving, IssueKept
<1>8. CASE RecoveryToken(w)
  <2>1. /\ Issue(w, j.by \in Admins /\ LoggedIn(j.by), "recovery token", j.of)
        /\ j.at = "check" /\ j.op = "recovery token"
    BY <1>8 DEF RecoveryToken, At
  <2> QED BY <2>1, Serving, IssueKept DEF OfSomebody, Fields
<1> QED BY <1>1, <1>2, <1>3, <1>4, <1>5, <1>6, <1>7, <1>8

\* What a worker shows has been spent once it has taken this step.
SpentBy(j, place) ==
  /\ \/ j.op \in TwoFactors \cup {"recovery key"} /\ place \in {"admit", "session"}
     \/ j.op = "recovery token login" /\ place = "session"
     \/ j.op = "link" /\ place = "store"
     => ~tokens'[j.token].live
  /\ "challenge" \in DOMAIN j /\ place \notin {"check", "discard"} => ~tokens'[j.challenge].live

LEMMA WentOn ==
  ASSUME Inv, NEW w \in Threads, job[w] # Free, NEW place, place # "none", Proceed(w, place), Grows,
         FitsAt(job[w], place, job[w].saw), SpentBy(job[w], place)
  PROVE  /\ Moves(w) /\ Fits(job[w])'
         /\ job'[w].at = place /\ job'[w].saw = job[w].saw /\ Fields(job'[w])
         /\ DOMAIN job'[w] = DOMAIN job[w]
         /\ \A f \in DOMAIN job[w] \ {"at"} : job'[w][f] = job[w][f]
<1>1. /\ Moves(w) /\ job'[w].at = place /\ DOMAIN job'[w] = DOMAIN job[w]
      /\ \A f \in DOMAIN job[w] \ {"at"} : job'[w][f] = job[w][f]
  BY Proceeding DEF Inv
<1>2. Fields(job[w]) /\ job'[w].saw = job[w].saw
  BY <1>1, JobFields DEF IsJob
<1>3. Fields(job'[w])
  BY <1>1, <1>2 DEF Fields
<1>4. FitsAt(job'[w], place, job'[w].saw)
  BY <1>1, <1>2, SamePlace
<1>5. FitsAt(job[w], job[w].at, job[w].saw)'
  BY ZenonT(60), <1>1, <1>3, <1>4 DEF FitsAt, Grows, Fields, ShowToken, ByToken
<1>6. /\ job'[w].op = job[w].op
      /\ "token" \in DOMAIN job[w] => job'[w].token = job[w].token
      /\ "challenge" \in DOMAIN job[w] => job'[w].challenge = job[w].challenge
  BY <1>1, <1>2 DEF Fields
<1>7. SpentAt(job[w], job[w].at)'
  BY <1>1, <1>2, <1>6 DEF SpentAt, SpentBy, Fields, ShowToken, ByToken
<1> QED BY <1>1, <1>2, <1>3, <1>5, <1>7 DEF Fits

\* What it trusts does not depend on whether a token is live.
LEMMA StillTrusts ==
  ASSUME Inv, NEW w \in Threads, job[w] # Free, Fields(job'[w]), Grows,
         UNCHANGED <<held, totp, sessions>>, NEW place, NEW saw,
         job'[w].at = place, job'[w].saw = saw, DOMAIN job'[w] = DOMAIN job[w],
         \A f \in DOMAIN job[w] \ {"at", "saw"} : job'[w][f] = job[w][f],
         FitsAt(job[w], place, saw), TrustsAt(job[w], place, saw)
  PROVE  Trusts(job[w])'
<1>1. Fields(job[w])
  BY JobFields
<1>2. TrustsAt(job'[w], place, saw)
  BY <1>1, SamePlace
<1>3. job'[w].op \in TwoFactors => job'[w].token \in DOMAIN tokens
  BY <1>1, SamePlace DEF FitsAt, Fields, ShowToken, ByToken
<1> QED BY <1>2, <1>3 DEF Trusts, TrustsAt, Grows, KeysOf, ReplayOf

LEMMA SpendKept ==
  ASSUME Inv, NEW w \in Threads, job[w] # Free, NEW t \in DOMAIN tokens,
         NEW place, place # "none", Spend(w, t, place),
         FitsAt(job[w], place, job[w].saw),
         \/ job[w].op \in TwoFactors \cup {"recovery key"} /\ place \in {"admit", "session"}
         \/ job[w].op = "recovery token login" /\ place = "session"
         \/ job[w].op = "link" /\ place = "store"
         => t = job[w].token,
         "challenge" \in DOMAIN job[w] /\ place # "discard" =>
           t = job[w].challenge \/ ~tokens[job[w].challenge].live,
         OneAtATime => TrustsAt(job[w], place, job[w].saw)
  PROVE  Inv'
<1>1. /\ tokens' = [tokens EXCEPT ![t].live = FALSE] /\ Proceed(w, place)
      /\ UNCHANGED <<banned, locked, held, password, former, totp, required, sessions, clock,
                     secrets, bans>>
  BY DEF Spend
<1>2. tokens \in Seq(TokenRows) /\ \A x \in DOMAIN tokens : tokens[x] \in TokenRows
  <2>1. tokens \in Seq(TokenRows)
    BY DEF Inv, CredentialTypes
  <2> QED BY <2>1, Elements
<1>3. /\ DOMAIN tokens' = DOMAIN tokens
      /\ \A x \in DOMAIN tokens \ {t} : tokens'[x] = tokens[x]
      /\ tokens'[t] = [tokens[t] EXCEPT !.live = FALSE]
  <2>1. DOMAIN tokens' = DOMAIN tokens /\ \A x \in DOMAIN tokens \ {t} : tokens'[x] = tokens[x]
    BY <1>1, <1>2
  <2>2. tokens'[t] = [tokens[t] EXCEPT !.live = FALSE]
    BY <1>1, <1>2, Zenon
  <2> QED BY <2>1, <2>2
<1>4. Grows /\ (\A x \in DOMAIN tokens : tokens'[x] \in TokenRows) /\ ~tokens'[t].live
  <2>1. tokens'[t] \in TokenRows /\ tokens'[t].of = tokens[t].of /\ tokens'[t].live = FALSE
    BY ZenonT(60), <1>2, <1>3, RowChanged
  <2> QED BY <1>2, <1>3, <2>1 DEF Grows
<1>5. tokens' \in Seq(TokenRows)
  <2>1. tokens' = [x \in DOMAIN tokens |-> tokens'[x]]
    BY <1>1, <1>2
  <2> QED BY <1>2, <1>4, <2>1, Rewritten
<1>6. Fields(job[w])
  BY JobFields
<1>7. SpentBy(job[w], place)
  BY <1>3, <1>4, <1>6 DEF SpentBy, Grows, FitsAt, Fields, ShowToken, ByToken
<1>8. /\ Moves(w) /\ Fits(job[w])'
      /\ job'[w].at = place /\ job'[w].saw = job[w].saw /\ Fields(job'[w])
      /\ DOMAIN job'[w] = DOMAIN job[w]
      /\ \A f \in DOMAIN job[w] \ {"at", "saw"} : job'[w][f] = job[w][f]
  BY <1>1, <1>4, <1>7, WentOn
<1>9. OneAtATime => Trusts(job[w])'
  BY <1>1, <1>4, <1>8, StillTrusts
<1> QED BY <1>1, <1>4, <1>5, <1>8, <1>9, TokensWritten

LEMMA SpendsKept ==
  ASSUME Inv, NEW w \in Threads
  PROVE  DeletePendingToken(w) \/ ConsumeRecoveryKey(w) \/ UseRecoveryToken(w)
         \/ MarkDeviceTokenUsed(w) \/ SpendChallenge(w)
         => Inv'
<1> DEFINE j == job[w]
<1> USE DEF FitsAt, SpentAt, TrustsAt, Fields, ShowToken, ByToken, TwoFactors
<1>1. CASE DeletePendingToken(w)
  <2>1. Spend(w, j.token, "admit") /\ j.op \in TwoFactors /\ j.at = "spend"
    BY <1>1 DEF DeletePendingToken
  <2>2. /\ j.token \in DOMAIN tokens /\ FitsAt(j, "admit", j.saw)
        /\ "challenge" \notin DOMAIN j
        /\ OneAtATime => TrustsAt(j, "admit", j.saw)
    BY <2>1, Serving
  <2> QED BY <2>1, <2>2, Serving, SpendKept
<1>2. CASE ConsumeRecoveryKey(w)
  <2>1. Spend(w, j.token, "admit") /\ j.op = "recovery key" /\ j.at = "spend"
    BY <1>2 DEF ConsumeRecoveryKey, At
  <2>2. /\ j.token \in DOMAIN tokens /\ FitsAt(j, "admit", j.saw)
        /\ "challenge" \notin DOMAIN j
        /\ OneAtATime => TrustsAt(j, "admit", j.saw)
    BY <2>1, Serving
  <2> QED BY <2>1, <2>2, Serving, SpendKept
<1>3. CASE UseRecoveryToken(w)
  <2>1. Spend(w, j.token, "session") /\ j.op = "recovery token login" /\ j.at = "spend"
    BY <1>3 DEF UseRecoveryToken, At
  <2>2. /\ j.token \in DOMAIN tokens /\ FitsAt(j, "session", j.saw)
        /\ "challenge" \notin DOMAIN j
        /\ OneAtATime => TrustsAt(j, "session", j.saw)
    BY <2>1, Serving
  <2> QED BY <2>1, <2>2, Serving, SpendKept
<1>4. CASE MarkDeviceTokenUsed(w)
  <2>1. Spend(w, j.token, "store") /\ j.op = "link" /\ j.at = "spend"
    BY <1>4 DEF MarkDeviceTokenUsed, At
  <2>2. /\ j.token \in DOMAIN tokens /\ FitsAt(j, "store", j.saw)
        /\ ~tokens[j.challenge].live
        /\ OneAtATime => TrustsAt(j, "store", j.saw)
    BY <2>1, Serving
  <2> QED BY <2>1, <2>2, Serving, SpendKept
<1>5. CASE SpendChallenge(w)
  <2>1. j.at = "discard"
    BY <1>5 DEF SpendChallenge
  <2>2. j.op \in {"login", "link", "add"} /\ j.challenge \in DOMAIN tokens
        /\ (j.op = "login" => j.method # "password")
    BY <2>1, Serving
  <2>3. CASE j.op = "login"
    <3>1. Spend(w, j.challenge, "admit")
      BY <1>5, <2>3 DEF SpendChallenge
    <3>2. FitsAt(j, "admit", j.saw) /\ (OneAtATime => TrustsAt(j, "admit", j.saw))
      BY <2>1, <2>2, <2>3, Serving
    <3> QED BY <2>1, <2>2, <2>3, <3>1, <3>2, Serving, SpendKept
  <2>4. CASE j.op = "link"
    <3>1. Spend(w, j.challenge, "spend")
      BY <1>5, <2>4 DEF SpendChallenge
    <3>2. FitsAt(j, "spend", j.saw) /\ (OneAtATime => TrustsAt(j, "spend", j.saw))
      BY <2>1, <2>2, <2>4, Serving
    <3> QED BY <2>1, <2>2, <2>4, <3>1, <3>2, Serving, SpendKept
  <2>5. CASE j.op = "add"
    <3>1. Spend(w, j.challenge, "store")
      BY <1>5, <2>5 DEF SpendChallenge
    <3>2. FitsAt(j, "store", j.saw) /\ (OneAtATime => TrustsAt(j, "store", j.saw))
      BY <2>1, <2>2, <2>5, Serving
    <3> QED BY <2>1, <2>2, <2>5, <3>1, <3>2, Serving, SpendKept
  <2> QED BY <2>2, <2>3, <2>4, <2>5
<1> QED BY <1>1, <1>2, <1>3, <1>4, <1>5

\* Some tokens go out of use.
LEMMA Withdrawn ==
  ASSUME Inv, NEW s \in Seq(TokenRows), Len(s) = Len(tokens),
         \A t \in DOMAIN tokens : s[t].of = tokens[t].of /\ (~tokens[t].live => ~s[t].live),
         NEW gone, NEW r, r = [t \in DOMAIN tokens |->
                                 IF t \in gone THEN [s[t] EXCEPT !.live = FALSE] ELSE s[t]]
  PROVE  /\ r \in Seq(TokenRows) /\ Len(r) = Len(tokens)
         /\ \A t \in DOMAIN tokens : r[t].of = tokens[t].of /\ (~tokens[t].live => ~r[t].live)
<1>1. tokens \in Seq(TokenRows)
  BY DEF Inv, CredentialTypes
<1>2. DOMAIN s = DOMAIN tokens /\ \A t \in DOMAIN tokens : s[t] \in TokenRows
  BY <1>1, Elements
<1>3. \A t \in DOMAIN tokens :
        /\ t \in gone => r[t] = [s[t] EXCEPT !.live = FALSE]
        /\ t \notin gone => r[t] = s[t]
  BY Zenon
<1>4. ASSUME NEW t \in DOMAIN tokens
      PROVE  r[t] \in TokenRows /\ r[t].of = tokens[t].of /\ (~tokens[t].live => ~r[t].live)
  <2>1. CASE t \in gone
    <3>1. r[t] \in TokenRows /\ r[t].of = s[t].of /\ r[t].live = FALSE
      BY <2>1, <1>2, <1>3, RowChanged
    <3> QED BY <3>1
  <2>2. CASE t \notin gone
    BY <2>2, <1>2, <1>3
  <2> QED BY <2>1, <2>2
<1>5. r = [t \in DOMAIN tokens |-> r[t]]
  BY Zenon
<1> QED BY <1>1, <1>4, <1>5, Rewritten

LEMMA Extended ==
  ASSUME Inv, NEW s \in Seq(TokenRows), Len(s) = Len(tokens),
         \A t \in DOMAIN tokens : s[t].of = tokens[t].of /\ (~tokens[t].live => ~s[t].live),
         NEW kind \in OfSomebody, NEW u \in People, tokens' = Append(s, NewToken(kind, u))
  PROVE  tokens' \in Seq(TokenRows) /\ Grows
<1>1. NewToken(kind, u) \in TokenRows
  BY DEF NewToken, TokenRows
<1>2. DOMAIN tokens = 1 .. Len(tokens) /\ Len(tokens) \in Nat
  <2>1. tokens \in Seq(TokenRows)
    BY DEF Inv, CredentialTypes
  <2> QED BY <2>1, Elements
<1> QED BY <1>1, <1>2 DEF Grows

LEMMA TokenWritesKept ==
  ASSUME Inv, NEW w \in Threads
  PROVE  AwaitSecondFactor(w) \/ FirstKey(w) \/ DropRecoveryKeys(w) \/ StoreRecoveryKeys(w)
         => Inv'
<1> DEFINE j == job[w]
<1>1. /\ tokens \in Seq(TokenRows) /\ Len(tokens) = Len(tokens)
      /\ \A t \in DOMAIN tokens : tokens[t].of = tokens[t].of /\ (~tokens[t].live => ~tokens[t].live)
  BY DEF Inv, CredentialTypes
<1>2. CASE AwaitSecondFactor(w)
  <2> DEFINE earlier == {t \in DOMAIN tokens : tokens[t].kind = "second factor" /\ tokens[t].of = j.saw}
             served == Served(w)
             r == [t \in DOMAIN tokens |->
                     IF t \in earlier THEN [served[t] EXCEPT !.live = FALSE] ELSE served[t]]
  <2>1. /\ tokens' = Append(r, NewToken("second factor", j.saw)) /\ Respond(w)
        /\ UNCHANGED <<banned, locked, held, password, former, totp, required, sessions, clock,
                       secrets, bans>>
        /\ j.op = "login" /\ j.at = "second factor"
    BY <1>2 DEF AwaitSecondFactor, At
  <2>2. j.saw \in People /\ j # Free
    BY <2>1, Serving DEF FitsAt
  <2>3. /\ served \in Seq(TokenRows) /\ Len(served) = Len(tokens)
        /\ \A t \in DOMAIN tokens :
             served[t].of = tokens[t].of /\ (~tokens[t].live => ~served[t].live)
    BY ServedRows DEF Inv
  <2> HIDE DEF served, earlier
  <2>4. /\ r \in Seq(TokenRows) /\ Len(r) = Len(tokens)
        /\ \A t \in DOMAIN tokens : r[t].of = tokens[t].of /\ (~tokens[t].live => ~r[t].live)
    BY <2>3, Withdrawn
  <2> HIDE DEF r
  <2>5. tokens' \in Seq(TokenRows) /\ Grows
    BY <2>1, <2>2, <2>4, Extended DEF OfSomebody
  <2> QED BY <2>1, <2>2, <2>5, TokensWrittenLast
<1>3. CASE FirstKey(w)
  <2>1. /\ \/ tokens' = Append(tokens, NewToken("recovery key", j.by))
           \/ tokens' = tokens
        /\ Respond(w) /\ j.op = "add" /\ j.at = "first key"
        /\ UNCHANGED <<banned, locked, held, password, former, totp, required, sessions, clock,
                       secrets, bans>>
    BY <1>3 DEF FirstKey, At
  <2>2. j.by \in People /\ j # Free
    BY <2>1, Serving DEF Fields, ByOps
  <2>3. tokens' \in Seq(TokenRows) /\ Grows
    <3>1. CASE tokens' = tokens
      BY <1>1, <3>1 DEF Grows
    <3>2. CASE tokens' = Append(tokens, NewToken("recovery key", j.by))
      BY <3>2, <2>2, TokenIssued DEF OfSomebody
    <3> QED BY <2>1, <3>1, <3>2
  <2> QED BY <2>1, <2>2, <2>3, TokensWrittenLast
<1>4. CASE DropRecoveryKeys(w)
  <2> DEFINE gone == RecoveryKeysOf(j.by)
             r == [t \in DOMAIN tokens |->
                     IF t \in gone THEN [tokens[t] EXCEPT !.live = FALSE] ELSE tokens[t]]
  <2>1. /\ tokens' = r
        /\ Proceed(w, "store keys") /\ j.op = "regenerate" /\ j.at = "check"
        /\ UNCHANGED <<banned, locked, held, password, former, totp, required, sessions, clock,
                       secrets, bans>>
    BY <1>4 DEF DropRecoveryKeys, At
  <2> HIDE DEF gone
  <2>2. /\ r \in Seq(TokenRows) /\ Len(r) = Len(tokens)
        /\ \A t \in DOMAIN tokens : r[t].of = tokens[t].of /\ (~tokens[t].live => ~r[t].live)
    BY <1>1, Withdrawn
  <2> HIDE DEF r
  <2>3. Grows
    BY ZenonT(60), <1>1, <2>1, <2>2, Elements DEF Grows
  <2>4. FitsAt(j, "store keys", j.saw) /\ SpentBy(j, "store keys") /\ j # Free
    BY <2>1, Serving DEF FitsAt, SpentBy, Fields, ShowToken, ByToken, TwoFactors
  <2>5. Moves(w) /\ Fits(job[w])' /\ job'[w].at = "store keys" /\ job'[w].op = "regenerate"
    <3>1. j.op = job'[w].op
      BY <2>1, <2>3, <2>4, Serving, WentOn DEF Fields
    <3> QED BY <2>1, <2>3, <2>4, <3>1, WentOn
  <2>6. Trusts(job[w])'
    BY <2>5 DEF Trusts, TrustsAt, TwoFactors
  <2> QED BY <2>1, <2>2, <2>3, <2>5, <2>6, TokensWritten
<1>5. CASE StoreRecoveryKeys(w)
  <2>1. /\ tokens' = Append(tokens, NewToken("recovery key", j.by))
        /\ Respond(w) /\ j.op = "regenerate" /\ j.at = "store keys"
        /\ UNCHANGED <<banned, locked, held, password, former, totp, required, sessions, clock,
                       secrets, bans>>
    BY <1>5 DEF StoreRecoveryKeys, At
  <2>2. j.by \in People /\ j # Free
    BY <2>1, Serving DEF Fields, ByOps
  <2>3. tokens' \in Seq(TokenRows) /\ Grows
    BY <2>1, <2>2, TokenIssued DEF OfSomebody
  <2> QED BY <2>1, <2>2, <2>3, TokensWrittenLast
<1> QED BY <1>2, <1>3, <1>4, <1>5

-----------------------------------------------------------------------------
(* Keys and passwords *)

LEMMA Done ==
  ASSUME Inv, NEW w \in Threads, job[w] # Free, Respond(w)
  PROVE  Moves(w) /\ Fits(job[w])' /\ Trusts(job[w])'
<1>1. Moves(w) /\ job'[w] = Free
  BY Responding DEF Inv
<1>2. job'[w].op = "none" /\ job'[w].at = "none" /\ DOMAIN job'[w] = {"op", "at"}
  BY <1>1 DEF Free
<1> QED
  BY <1>1, <1>2 DEF Fits, FitsAt, SpentAt, Trusts, TrustsAt, ShowToken, ByToken, TwoFactors

LEMMA FormerTypes ==
  ASSUME NEW f \in [People -> Seq(Nat)], NEW u \in People, NEW n \in Nat
  PROVE  /\ [f EXCEPT ![u] = Append(@, n)] \in [People -> Seq(Nat)]
         /\ [f EXCEPT ![u] = <<>>] \in [People -> Seq(Nat)]
<1>1. f[u] \in Seq(Nat)
  OBVIOUS
<1>2. Append(f[u], n) \in Seq(Nat) /\ <<>> \in Seq(Nat)
  BY <1>1
<1> QED BY <1>2

LEMMA AccountsWritten ==
  ASSUME Inv, NEW w \in Threads, Moves(w), CredentialTypes', Grows,
         UNCHANGED <<totp, sessions, bans, secrets>>,
         Fits(job[w])', OneAtATime => Trusts(job[w])' /\ (\A u \in People : HasLogin(u))'
  PROVE  Inv'
<1>1. BanEndsSessions'
  BY DEF Inv, BanEndsSessions
<1>2. ASSUME OneAtATime PROVE CodesNoted' /\ CodesDiffer'
  <2>1. InTurn
    BY <1>2 DEF Inv
  <2> QED BY <2>1 DEF InTurn, CodesNoted, CodesDiffer
<1> QED BY <1>1, <1>2, Preserved

LEMMA ServedGrows ==
  ASSUME Inv, NEW w, tokens' = Served(w)
  PROVE  tokens' \in Seq(TokenRows) /\ Grows
         /\ \A t \in DOMAIN tokens : tokens'[t].live = tokens[t].live
<1>1. tokens \in Seq(TokenRows) /\ CredentialTypes
  BY DEF Inv, CredentialTypes
<1>2. /\ tokens' \in Seq(TokenRows) /\ Len(tokens') = Len(tokens)
      /\ \A t \in DOMAIN tokens : tokens'[t].of = tokens[t].of /\ tokens'[t].live = tokens[t].live
  BY <1>1, ServedRows
<1> QED BY <1>1, <1>2, Elements DEF Grows

LEMMA StoreKept ==
  ASSUME Inv, NEW w \in Threads, NEW place, job[w].at = "store", StoreKey(w, place),
         \/ place = "answer"
         \/ place = "session" /\ job[w].op = "link"
         \/ place = "first key" /\ job[w].op # "link"
  PROVE  Inv'
<1> DEFINE j == job[w]
<1>1. /\ j # Free /\ Fields(j) /\ j.op \in {"link", "add"}
      /\ FitsAt(j, "store", j.saw) /\ SpentAt(j, "store")
  BY Serving DEF FitsAt
<1>2. UNCHANGED <<banned, locked, password, former, totp, required, sessions, clock, secrets, bans>>
  BY DEF StoreKey
<1>3. CredentialTypes
  BY DEF Inv
<1>4. CASE UNCHANGED <<held, tokens>> /\ Respond(w)
  <2>1. tokens' \in Seq(TokenRows) /\ Grows
    BY <1>3, <1>4 DEF CredentialTypes, Grows
  <2> QED BY <1>1, <1>2, <1>4, <2>1, TokensWrittenLast
<1>5. CASE /\ held' = held \cup {<<Factor(w), j.key>>}
           /\ tokens' = Served(w)
           /\ IF place = "answer" THEN Respond(w) ELSE Proceed(w, place)
  <2>1. tokens' \in Seq(TokenRows) /\ Grows /\ \A t \in DOMAIN tokens : tokens'[t].live = tokens[t].live
    BY <1>5, ServedGrows
  <2>2. Factor(w) \in People
    BY <1>1 DEF Factor, FitsAt, Fields, ShowToken, ByToken, ByOps, TwoFactors
  <2>3. CredentialTypes'
    <3>1. held' \subseteq People \X AllKeys
      <4>1. j.key \in AllKeys
        BY <1>1 DEF Fields
      <4>2. held \in SUBSET (People \X AllKeys)
        BY <1>3 DEF CredentialTypes
      <4>3. <<Factor(w), j.key>> \in People \X AllKeys
        BY <2>2, <4>1
      <4> QED BY <1>5, <4>2, <4>3
    <3> QED BY <1>2, <1>3, <2>1, <3>1 DEF CredentialTypes
  <2>4. ASSUME OneAtATime PROVE (\A u \in People : HasLogin(u))'
    <3>1. \A u \in People : HasLogin(u)
      BY <2>4 DEF Inv, InTurn
    <3>2. \A u \in People : KeysOf(u) \subseteq KeysOf(u)'
      BY <1>5 DEF KeysOf
    <3> QED BY <1>2, <3>1, <3>2 DEF HasLogin
  <2>5. CASE place = "answer"
    <3>1. Moves(w) /\ Fits(job[w])' /\ Trusts(job[w])'
      BY <1>1, <1>5, <2>5, Done
    <3> QED BY <1>2, <2>1, <2>3, <2>4, <3>1, AccountsWritten
  <2>6. CASE place # "answer"
    <3>1. Proceed(w, place)
      BY <1>5, <2>6
    <3>2. FitsAt(j, place, j.saw) /\ SpentBy(j, place)
      BY <1>1, <2>1, <2>6 DEF FitsAt, SpentAt, SpentBy, Fields, ShowToken, ByToken, TwoFactors
    <3>3. /\ Moves(w) /\ Fits(job[w])' /\ job'[w].at = place
          /\ \A f \in DOMAIN job[w] \ {"at"} : job'[w][f] = job[w][f]
      BY <1>1, <2>1, <2>6, <3>1, <3>2, WentOn
    <3>4. job'[w].op \in {"link", "add"}
      BY <1>1, <3>3 DEF Fields
    <3>5. Trusts(job[w])'
      BY <3>4 DEF Trusts, TrustsAt, TwoFactors
    <3> QED BY <1>2, <2>1, <2>3, <2>4, <3>3, <3>5, AccountsWritten
  <2> QED BY <2>5, <2>6
<1> QED BY <1>4, <1>5 DEF StoreKey

\* Whoever has two keys has one left.
LEMMA OneLeft ==
  ASSUME NEW S, IsFiniteSet(S), Cardinality(S) > 1, NEW k
  PROVE  S \ {k} # {}
<1>1. SUFFICES ASSUME S \ {k} = {} PROVE FALSE
  OBVIOUS
<1>2. S \subseteq {k}
  BY <1>1
<1>3. IsFiniteSet({k}) /\ Cardinality({k}) = 1
  BY FS_Singleton
<1>4. Cardinality(S) <= 1
  BY <1>2, <1>3, FS_Subset
<1>5. Cardinality(S) \in Nat
  BY FS_CardinalityType
<1> QED BY <1>4, <1>5

\* A key goes that was not the last.
LEMMA RemoveKept ==
  ASSUME Inv, NEW w \in Threads, job[w].op = "remove", job[w].at \in {"remove", "remove passkey"},
         Respond(w), held' = held \ {<<job[w].by, job[w].key>>},
         UNCHANGED <<banned, locked, password, former, totp, required, tokens, sessions, clock,
                     secrets, bans>>
  PROVE  Inv'
<1> DEFINE j == job[w]
<1>1. j # Free /\ CredentialTypes
  BY Serving DEF Inv
<1>2. Moves(w) /\ Fits(job[w])' /\ Trusts(job[w])'
  BY <1>1, Done
<1>3. CredentialTypes' /\ Grows
  BY <1>1 DEF CredentialTypes, Grows
<1>4. ASSUME OneAtATime, NEW u \in People PROVE HasLogin(u)'
  <2>1. HasLogin(u) /\ TrustsAt(j, j.at, j.saw)
    BY <1>4, Serving DEF InTurn
  <2>2. CASE u = j.by
    <3>1. IsFiniteSet(KeysOf(u)) /\ Cardinality(KeysOf(u)) > 1
      <4>1. IsFiniteSet(KeysOf(u))
        BY CredentialAssumption, FS_Subset DEF KeysOf
      <4> QED BY <2>1, <2>2, <4>1 DEF TrustsAt
    <3>2. KeysOf(u) \ {j.key} # {}
      BY <3>1, OneLeft
    <3>3. KeysOf(u) \ {j.key} \subseteq KeysOf(u)'
      BY DEF KeysOf
    <3> QED BY <3>2, <3>3 DEF HasLogin
  <2>3. CASE u # j.by
    <3>1. KeysOf(u)' = KeysOf(u)
      BY <2>3 DEF KeysOf
    <3> QED BY <2>1, <3>1 DEF HasLogin
  <2> QED BY <2>2, <2>3
<1> QED BY <1>2, <1>3, <1>4, AccountsWritten

LEMMA AccountWritesKept ==
  ASSUME Inv, NEW w \in Threads
  PROVE  StorePasskey(w) \/ StorePkiKey(w) \/ RemovePasskey(w) \/ RemovePkiKey(w)
         \/ KeepFormer(w) \/ StorePassword(w) \/ DropPassword(w)
         => Inv'
<1> DEFINE j == job[w]
<1>1. CredentialTypes
  BY DEF Inv
<1>2. CASE StorePasskey(w)
  <2>1. j.at = "store" /\ StoreKey(w, IF j.op = "link" THEN "session" ELSE "answer")
    BY <1>2 DEF StorePasskey
  <2> QED BY <2>1, StoreKept
<1>3. CASE StorePkiKey(w)
  <2>1. j.at = "store" /\ StoreKey(w, IF j.op = "link" THEN "session" ELSE "first key")
    BY <1>3 DEF StorePkiKey
  <2> QED BY <2>1, StoreKept
<1>4. CASE RemovePasskey(w)
  BY <1>4, RemoveKept DEF RemovePasskey, At
<1>5. CASE RemovePkiKey(w)
  BY <1>5, RemoveKept DEF RemovePkiKey, At
<1>6. CASE KeepFormer(w)
  <2>1. /\ former' = [former EXCEPT ![j.by] = Append(@, j.saw)]
        /\ Proceed(w, "store password") /\ j.op = "change password" /\ j.at = "keep former"
        /\ UNCHANGED <<banned, locked, held, password, totp, required, tokens, sessions, clock,
                       secrets, bans>>
    BY <1>6 DEF KeepFormer, At
  <2>2. j # Free /\ Fields(j) /\ FitsAt(j, j.at, j.saw) /\ j.by \in People /\ j.saw \in Nat
    BY <2>1, Serving DEF FitsAt, Fields, ByOps
  <2>3. CredentialTypes' /\ Grows
    <3>1. former \in [People -> Seq(Nat)]
      BY <1>1 DEF CredentialTypes
    <3>2. former' \in [People -> Seq(Nat)]
      BY <2>1, <2>2, <3>1, FormerTypes
    <3> QED BY <1>1, <2>1, <3>2 DEF CredentialTypes, Grows
  <2>4. FitsAt(j, "store password", j.saw) /\ SpentBy(j, "store password")
    BY <2>1, <2>2 DEF FitsAt, SpentBy, Fields, ShowToken, ByToken, TwoFactors
  <2>5. /\ Moves(w) /\ Fits(job[w])' /\ job'[w].at = "store password"
        /\ \A f \in DOMAIN job[w] \ {"at"} : job'[w][f] = job[w][f]
    BY <2>1, <2>2, <2>3, <2>4, WentOn
  <2>6. job'[w].op = "change password"
    BY <2>1, <2>2, <2>5 DEF Fields
  <2>7. Trusts(job[w])'
    BY <2>6 DEF Trusts, TrustsAt, TwoFactors
  <2>8. OneAtATime => (\A u \in People : HasLogin(u))'
    BY <2>1 DEF Inv, InTurn, HasLogin, KeysOf
  <2> QED BY <2>1, <2>3, <2>5, <2>7, <2>8, AccountsWritten
<1>7. CASE StorePassword(w)
  <2>1. /\ password' = [password EXCEPT ![j.by] = j.password]
        /\ Respond(w) /\ j.at = "store password"
        /\ UNCHANGED <<banned, locked, held, former, totp, required, tokens, sessions, clock,
                       secrets, bans>>
    BY <1>7 DEF StorePassword
  <2>2. j # Free /\ j.by \in People /\ j.password \in Nat \ {NoPassword}
    BY <2>1, Serving DEF FitsAt, Fields, ByOps
  <2>3. CredentialTypes' /\ Grows
    BY <1>1, <2>1, <2>2 DEF CredentialTypes, Grows
  <2>4. Moves(w) /\ Fits(job[w])' /\ Trusts(job[w])'
    BY <2>1, <2>2, Done
  <2>5. OneAtATime => (\A u \in People : HasLogin(u))'
    BY <1>1, <2>1, <2>2 DEF Inv, InTurn, HasLogin, KeysOf, CredentialTypes
  <2> QED BY <2>1, <2>3, <2>4, <2>5, AccountsWritten
<1>8. CASE DropPassword(w)
  <2>1. /\ password' = [password EXCEPT ![j.by] = NoPassword]
        /\ former' = [former EXCEPT ![j.by] = <<>>]
        /\ Respond(w) /\ j.op = "delete password" /\ j.at = "drop password"
        /\ UNCHANGED <<banned, locked, held, totp, required, tokens, sessions, clock, secrets, bans>>
    BY <1>8 DEF DropPassword, At
  <2>2. j # Free /\ j.by \in People
    BY <2>1, Serving DEF Fields, ByOps
  <2>3. CredentialTypes' /\ Grows
    <3>1. former \in [People -> Seq(Nat)] /\ password \in [People -> Nat]
      BY <1>1 DEF CredentialTypes
    <3>2. former' \in [People -> Seq(Nat)]
      BY <2>1, <2>2, <3>1, FormerTypes
    <3>3. password' \in [People -> Nat]
      BY <2>1, <2>2, <3>1 DEF NoPassword
    <3> QED BY <1>1, <2>1, <3>2, <3>3 DEF CredentialTypes, Grows
  <2>4. Moves(w) /\ Fits(job[w])' /\ Trusts(job[w])'
    BY <2>1, <2>2, Done
  <2>5. ASSUME OneAtATime, NEW u \in People PROVE HasLogin(u)'
    <3>1. HasLogin(u) /\ TrustsAt(j, "drop password", j.saw)
      BY <2>1, <2>5, Serving DEF InTurn
    <3>2. KeysOf(u)' = KeysOf(u)
      BY <2>1 DEF KeysOf
    <3> QED BY <1>1, <2>1, <2>2, <3>1, <3>2 DEF HasLogin, TrustsAt, CredentialTypes
  <2> QED BY <2>1, <2>3, <2>4, <2>5, AccountsWritten
<1> QED BY <1>2, <1>3, <1>4, <1>5, <1>6, <1>7, <1>8

-----------------------------------------------------------------------------
(* The second factor *)

SessionRows == [of : People, live : BOOLEAN, bans : Nat, code : Nat \X Nat]

LEMMA SessionFields ==
  ASSUME CredentialTypes, NEW i \in DOMAIN sessions
  PROVE  /\ sessions[i].of \in People /\ sessions[i].bans \in Nat
         /\ sessions[i].code[1] \in Nat /\ sessions[i].code[2] \in Nat
         /\ sessions[i] \in SessionRows
<1>1. sessions \in Seq(SessionRows)
  BY DEF CredentialTypes, SessionRows
<1>2. sessions[i] \in SessionRows
  BY <1>1, Elements
<1> QED BY <1>2 DEF SessionRows

LEMMA FactorsWritten ==
  ASSUME Inv, NEW w \in Threads, Moves(w),
         UNCHANGED <<banned, locked, held, password, former, required, tokens, sessions, clock, bans>>,
         totp' \in [People -> Factors], secrets' \in Nat,
         Fits(job[w])', OneAtATime => Trusts(job[w])' /\ CodesNoted'
  PROVE  Inv'
<1>1. CredentialTypes' /\ Grows /\ BanEndsSessions'
  BY DEF Inv, CredentialTypes, Grows, BanEndsSessions
<1>2. ASSUME OneAtATime PROVE (\A u \in People : HasLogin(u))' /\ CodesDiffer'
  <2>1. InTurn
    BY <1>2 DEF Inv
  <2> QED BY <2>1 DEF InTurn, HasLogin, KeysOf, CodesDiffer
<1> QED BY <1>1, <1>2, Preserved

\* The codes stay noted when one factor is replaced by another, or its note moves on.
LEMMA FactorChanged ==
  ASSUME CredentialTypes, CodesNoted, NEW u \in People, sessions' = sessions,
         totp' \in [People -> Factors], \A v \in People \ {u} : totp'[v] = totp[v],
         secrets' \in Nat, secrets <= secrets', totp'[u].secret <= secrets',
         totp'[u].verified => totp'[u].secret # 0,
         \/ totp'[u].secret = totp[u].secret /\ totp[u].last <= totp'[u].last
         \/ totp'[u].secret \notin 1 .. secrets
  PROVE  CodesNoted'
<1>1. totp \in [People -> Factors] /\ secrets \in Nat
  BY DEF CredentialTypes
<1>2. \A v \in People : totp[v].secret \in Nat /\ totp[v].last \in Nat
                        /\ totp'[v].secret \in Nat /\ totp'[v].last \in Nat
  BY <1>1 DEF Factors
<1>3. ASSUME NEW v \in People
      PROVE  totp'[v].secret <= secrets' /\ (totp'[v].verified => totp'[v].secret # 0)
  BY <1>1, <1>2 DEF CodesNoted
<1>4. ASSUME NEW i \in DOMAIN sessions, sessions[i].code # NoCode
      PROVE  /\ sessions[i].code[1] \in 1 .. secrets'
             /\ sessions[i].code[1] = totp'[sessions[i].of].secret =>
                  sessions[i].code[2] <= totp'[sessions[i].of].last
  <2>1. /\ sessions[i].of \in People
        /\ sessions[i].code[1] \in Nat /\ sessions[i].code[2] \in Nat
    BY SessionFields
  <2>2. /\ sessions[i].code[1] \in 1 .. secrets
        /\ sessions[i].code[1] = totp[sessions[i].of].secret =>
             sessions[i].code[2] <= totp[sessions[i].of].last
    BY <1>4 DEF CodesNoted
  <2>3. CASE sessions[i].of = u
    BY <1>1, <1>2, <2>1, <2>2, <2>3
  <2>4. CASE sessions[i].of # u
    BY <1>1, <1>2, <2>1, <2>2, <2>4
  <2> QED BY <2>3, <2>4
<1> QED BY <1>3, <1>4 DEF CodesNoted

\* One factor gets a new row.
LEMMA OneFactor ==
  ASSUME CredentialTypes, NEW u \in People, NEW f \in Factors, totp' = [totp EXCEPT ![u] = f]
  PROVE  /\ totp' \in [People -> Factors] /\ totp'[u] = f
         /\ \A v \in People \ {u} : totp'[v] = totp[v]
  BY DEF CredentialTypes

LEMMA FreshFactor ==
  ASSUME NEW n \in Nat
  PROVE  /\ [secret |-> n, verified |-> FALSE, last |-> 0] \in Factors
         /\ [secret |-> n, verified |-> FALSE, last |-> 0].secret = n
         /\ ~[secret |-> n, verified |-> FALSE, last |-> 0].verified
  BY DEF Factors

\* A request that is done with a factor.
LEMMA FactorReplaced ==
  ASSUME Inv, NEW w \in Threads, job[w] # Free, Respond(w),
         UNCHANGED <<banned, locked, held, password, former, required, tokens, sessions, clock, bans>>,
         secrets' \in Nat, secrets <= secrets',
         NEW u \in People, NEW f \in Factors, totp' = [totp EXCEPT ![u] = f],
         f.secret <= secrets', ~f.verified, f.secret \notin 1 .. secrets
  PROVE  Inv'
<1>1. CredentialTypes
  BY DEF Inv
<1>2. /\ totp' \in [People -> Factors] /\ totp'[u] = f
      /\ \A v \in People \ {u} : totp'[v] = totp[v]
  BY <1>1, OneFactor
<1>3. Moves(w) /\ Fits(job[w])' /\ Trusts(job[w])'
  BY Done
<1>4. ASSUME OneAtATime PROVE CodesNoted'
  <2>1. CodesNoted
    BY <1>4 DEF Inv, InTurn
  <2> QED BY <1>1, <1>2, <2>1, FactorChanged
<1> QED BY <1>2, <1>3, <1>4, FactorsWritten

\* The user's factor, if there is one, gets a new row, and the request goes on.
LEMMA FactorsRow ==
  ASSUME NEW f \in Factors, NEW n \in Nat
  PROVE  /\ [f EXCEPT !.verified = TRUE] \in Factors /\ [f EXCEPT !.last = n] \in Factors
         /\ [f EXCEPT !.verified = TRUE].secret = f.secret
         /\ [f EXCEPT !.verified = TRUE].last = f.last
         /\ [f EXCEPT !.last = n].secret = f.secret
         /\ [f EXCEPT !.last = n].last = n
         /\ [f EXCEPT !.last = n].verified = f.verified
  BY DEF Factors

LEMMA SecretsKept ==
  ASSUME Inv, NEW w \in Threads
  PROVE  StoreSecret(w) \/ DeleteTotp(w) => Inv'
<1> DEFINE j == job[w]
           u == Factor(w)
<1>1. secrets \in Nat
  BY DEF Inv, CredentialTypes
<1>2. CASE StoreSecret(w)
  <2> DEFINE f == [secret |-> secrets', verified |-> FALSE, last |-> 0]
  <2>1. totp' = [totp EXCEPT ![u] = f]
    BY <1>2 DEF StoreSecret
  <2>2. /\ secrets' = secrets + 1 /\ Respond(w) /\ j.at = "new secret"
        /\ UNCHANGED <<banned, locked, held, password, former, required, tokens, sessions, clock, bans>>
    BY <1>2 DEF StoreSecret
  <2>3. j # Free /\ u \in People
    BY <2>2, Serving DEF FitsAt, Factor, Fields, ShowToken, ByOps
  <2>4. secrets' \in Nat /\ secrets <= secrets' /\ ~(secrets' \in 1 .. secrets)
    <3>1. secrets' = secrets + 1
      BY <2>2
    <3> QED BY <1>1, <3>1
  <2>5. f \in Factors /\ f.secret = secrets' /\ ~f.verified
    BY <2>4, FreshFactor
  <2> HIDE DEF f
  <2>6. f.secret <= secrets' /\ f.secret \notin 1 .. secrets
    BY <2>4, <2>5
  <2> QED BY <2>1, <2>2, <2>3, <2>4, <2>5, <2>6, FactorReplaced
<1>3. CASE DeleteTotp(w)
  <2>1. totp' = [totp EXCEPT ![j.by] = NoSecret]
    BY <1>3 DEF DeleteTotp
  <2>2. /\ Respond(w) /\ j.op = "totp disable" /\ j.at = "drop" /\ secrets' = secrets
        /\ UNCHANGED <<banned, locked, held, password, former, required, tokens, sessions, clock, bans>>
    BY <1>3 DEF DeleteTotp, At
  <2>3. j # Free /\ j.by \in People
    BY <2>2, Serving DEF Fields, ByOps
  <2>4. secrets' \in Nat /\ secrets <= secrets' /\ 0 <= secrets' /\ ~(0 \in 1 .. secrets)
    <3>1. secrets' = secrets
      BY <2>2
    <3> QED BY <1>1, <3>1
  <2>5. NoSecret \in Factors /\ NoSecret.secret = 0 /\ ~NoSecret.verified
    BY DEF Factors, NoSecret
  <2>6. NoSecret.secret <= secrets' /\ NoSecret.secret \notin 1 .. secrets
    BY <2>4, <2>5
  <2> QED BY <2>1, <2>2, <2>3, <2>4, <2>5, <2>6, FactorReplaced
<1> QED BY <1>2, <1>3

LEMMA ProofKept ==
  ASSUME Inv, NEW w \in Threads
  PROVE  ProveSecret(w) => Inv'
<1> DEFINE j == job[w]
           u == Factor(w)
<1>1. CredentialTypes
  BY DEF Inv
<1>2. totp \in [People -> Factors] /\ secrets \in Nat
  BY <1>1 DEF CredentialTypes
<1>3. SUFFICES ASSUME ProveSecret(w) PROVE Inv'
  OBVIOUS
<1>4. /\ Proceed(w, "stamp") /\ j.at = "prove"
      /\ UNCHANGED <<banned, locked, held, password, former, required, tokens, sessions, clock,
                     secrets, bans>>
  BY <1>3 DEF ProveSecret
<1>5. \/ totp' = totp
      \/ totp' = [totp EXCEPT ![u].verified = TRUE] /\ totp[u].secret # 0
  BY <1>3 DEF ProveSecret
<1>6. /\ j # Free /\ u \in People /\ j.op \in {"mfa setup verify", "totp verify"} /\ Fields(j)
      /\ FitsAt(j, "prove", j.saw)
  BY <1>4, Serving DEF FitsAt, Factor, Fields, ShowToken, ByToken, TwoFactors, ByOps
<1>7. totp[u] \in Factors /\ totp[u].secret \in Nat /\ totp[u].last \in Nat
  BY <1>2, <1>6 DEF Factors
<1>8. /\ totp' \in [People -> Factors]
      /\ \A v \in People \ {u} : totp'[v] = totp[v]
      /\ totp'[u].secret = totp[u].secret /\ totp'[u].last = totp[u].last
      /\ totp[u].secret # 0 \/ totp' = totp
  <2>1. CASE totp' = totp
    BY <1>2, <2>1
  <2>2. CASE totp' = [totp EXCEPT ![u].verified = TRUE] /\ totp[u].secret # 0
    <3> DEFINE f == [totp[u] EXCEPT !.verified = TRUE]
    <3>1. totp' = [totp EXCEPT ![u] = f]
      BY <2>2, Zenon
    <3>2. f \in Factors /\ f.secret = totp[u].secret /\ f.last = totp[u].last
      BY <1>7, FactorsRow
    <3> HIDE DEF f
    <3>3. /\ totp' \in [People -> Factors] /\ totp'[u] = f
          /\ \A v \in People \ {u} : totp'[v] = totp[v]
      BY <1>1, <1>6, <3>1, <3>2, OneFactor
    <3>4. totp[u].secret # 0
      BY <2>2
    <3> QED BY <3>2, <3>3, <3>4
  <2> QED BY <1>5, <2>1, <2>2
<1>9. FitsAt(j, "stamp", j.saw) /\ SpentBy(j, "stamp") /\ Grows
  BY <1>4, <1>6 DEF FitsAt, SpentBy, Grows, Fields, ShowToken, ByToken, TwoFactors
<1>10. /\ Moves(w) /\ Fits(job[w])' /\ Fields(job'[w])
       /\ job'[w].at = "stamp" /\ job'[w].saw = job[w].saw
       /\ \A f \in DOMAIN job[w] \ {"at"} : job'[w][f] = job[w][f]
  BY <1>4, <1>6, <1>9, WentOn
<1>11. ASSUME OneAtATime PROVE Trusts(job[w])'
  <2>1. TrustsAt(j, "prove", j.saw)
    BY <1>4, <1>11, Serving
  <2>2. /\ job'[w].op = j.op /\ job'[w].code = j.code
        /\ j.op = "totp verify" => job'[w].by = j.by /\ u = j.by
        /\ j.op = "mfa setup verify" => job'[w].token = j.token /\ u = tokens[j.token].of
    BY <1>6, <1>10 DEF Fields, Factor, ShowToken, ByToken, TwoFactors, ByOps
  <2>3. UNCHANGED <<tokens, sessions, held>>
    BY <1>4
  <2>4. CASE j.op = "totp verify"
    BY <1>8, <1>10, <2>1, <2>2, <2>3, <2>4 DEF Trusts, TrustsAt, TwoFactors
  <2>5. CASE j.op = "mfa setup verify"
    BY <1>8, <1>10, <2>1, <2>2, <2>3, <2>5 DEF Trusts, TrustsAt, TwoFactors
  <2> QED BY <1>6, <2>4, <2>5
<1>12. ASSUME OneAtATime PROVE CodesNoted'
  <2>1. CodesNoted
    BY <1>12 DEF Inv, InTurn
  <2>2. totp[u].secret <= secrets /\ (totp[u].verified => totp[u].secret # 0)
    BY <1>6, <2>1 DEF CodesNoted
  <2>3. secrets' = secrets /\ sessions' = sessions
    BY <1>4
  <2>4. /\ secrets' \in Nat /\ secrets <= secrets' /\ totp'[u].secret <= secrets'
        /\ totp[u].last <= totp'[u].last
    BY <1>2, <1>7, <1>8, <2>2, <2>3
  <2>5. totp'[u].verified => totp'[u].secret # 0
    BY <1>8, <2>2
  <2> QED BY <1>1, <1>6, <1>8, <2>1, <2>3, <2>4, <2>5, FactorChanged
<1>13. /\ UNCHANGED <<banned, locked, held, password, former, required, tokens, sessions, clock, bans>>
       /\ secrets' \in Nat
  BY <1>2, <1>4
<1> QED BY <1>8, <1>10, <1>11, <1>12, <1>13, FactorsWritten

LEMMA StampKept ==
  ASSUME Inv, NEW w \in Threads
  PROVE  StampCode(w) => Inv'
<1> DEFINE j == job[w]
           u == Factor(w)
<1>1. CredentialTypes
  BY DEF Inv
<1>2. totp \in [People -> Factors] /\ secrets \in Nat
  BY <1>1 DEF CredentialTypes
<1>3. SUFFICES ASSUME StampCode(w) PROVE Inv'
  OBVIOUS
<1>4. /\ j.at = "stamp"
      /\ UNCHANGED <<banned, locked, held, password, former, required, tokens, sessions, clock,
                     secrets, bans>>
  BY <1>3 DEF StampCode
<1>5. \/ totp' = totp /\ totp[u].secret = 0
      \/ totp' = [totp EXCEPT ![u].last = j.code] /\ totp[u].secret # 0
  BY <1>3 DEF StampCode
<1>6. /\ j # Free /\ u \in People /\ Fields(j) /\ j.code \in Nat
      /\ j.op \in TwoFactors \cup {"totp verify", "totp disable"}
      /\ FitsAt(j, "stamp", j.saw)
      /\ j.op \in TwoFactors => u = tokens[j.token].of
      /\ j.op \notin TwoFactors => u = j.by
  BY <1>4, Serving DEF FitsAt, Factor, Fields, ShowToken, ByToken, TwoFactors, ByOps
<1>7. totp[u] \in Factors /\ totp[u].secret \in Nat /\ totp[u].last \in Nat
  BY <1>2, <1>6 DEF Factors
<1>8. /\ totp' \in [People -> Factors]
      /\ \A v \in People \ {u} : totp'[v] = totp[v]
      /\ totp'[u].secret = totp[u].secret /\ totp'[u].verified = totp[u].verified
      /\ \/ totp'[u].last = totp[u].last /\ totp[u].secret = 0
         \/ totp'[u].last = j.code
  <2>1. CASE totp' = totp /\ totp[u].secret = 0
    BY <1>2, <2>1
  <2>2. CASE totp' = [totp EXCEPT ![u].last = j.code] /\ totp[u].secret # 0
    <3> DEFINE f == [totp[u] EXCEPT !.last = j.code]
    <3>1. totp' = [totp EXCEPT ![u] = f]
      BY <2>2, Zenon
    <3>2. /\ f \in Factors /\ f.secret = totp[u].secret /\ f.last = j.code
          /\ f.verified = totp[u].verified
      BY <1>6, <1>7, FactorsRow
    <3> HIDE DEF f
    <3>3. /\ totp' \in [People -> Factors] /\ totp'[u] = f
          /\ \A v \in People \ {u} : totp'[v] = totp[v]
      BY <1>1, <1>6, <3>1, <3>2, OneFactor
    <3> QED BY <3>2, <3>3
  <2> QED BY <1>5, <2>1, <2>2
<1>9. ASSUME OneAtATime PROVE CodesNoted' /\ j.code > totp[u].last
  <2>1. CodesNoted /\ TrustsAt(j, "stamp", j.saw)
    BY <1>4, <1>9, Serving DEF InTurn
  <2>2. totp[u].secret <= secrets /\ (totp[u].verified => totp[u].secret # 0)
    BY <1>6, <2>1 DEF CodesNoted
  <2>3. j.code > totp[u].last
    BY <1>6, <2>1 DEF TrustsAt
  <2>4. secrets' = secrets /\ sessions' = sessions
    BY <1>4
  <2>5. totp[u].last <= totp'[u].last
    <3>1. totp'[u].last = totp[u].last \/ totp'[u].last = j.code
      BY <1>8
    <3>2. totp[u].last \in Nat /\ j.code \in Nat
      BY <1>6, <1>7
    <3> QED BY <2>3, <3>1, <3>2
  <2>6. totp'[u].secret <= secrets' /\ (totp'[u].verified => totp'[u].secret # 0)
    BY <1>8, <2>2, <2>4
  <2>7. secrets' \in Nat /\ secrets <= secrets'
    BY <1>2, <2>4
  <2>8. CodesNoted'
    BY <1>1, <1>6, <1>8, <2>1, <2>4, <2>5, <2>6, <2>7, FactorChanged
  <2> QED BY <2>3, <2>8
<1>10. /\ UNCHANGED <<banned, locked, held, password, former, required, tokens, sessions, clock, bans>>
       /\ secrets' \in Nat
  BY <1>2, <1>4
<1>11. CASE j.op = "totp verify"
  <2>1. Respond(w)
    BY <1>3, <1>11 DEF StampCode
  <2>2. Moves(w) /\ Fits(job[w])' /\ Trusts(job[w])'
    BY <1>6, <2>1, Done
  <2> QED BY <1>8, <1>9, <1>10, <2>2, FactorsWritten
<1>12. CASE j.op = "totp disable"
  <2>1. Proceed(w, "needed")
    BY <1>3, <1>12 DEF StampCode
  <2>2. FitsAt(j, "needed", j.saw) /\ SpentBy(j, "needed") /\ Grows
    BY <1>4, <1>6, <1>12 DEF FitsAt, SpentBy, Grows, Fields, ShowToken, ByToken, TwoFactors
  <2>3. /\ Moves(w) /\ Fits(job[w])' /\ job'[w].at = "needed"
        /\ \A f \in DOMAIN job[w] \ {"at"} : job'[w][f] = job[w][f]
    BY <1>6, <2>1, <2>2, WentOn
  <2>4. job'[w].op = j.op
    BY <1>6, <2>3 DEF Fields
  <2>5. Trusts(job[w])'
    BY <1>12, <2>3, <2>4 DEF Trusts, TrustsAt, TwoFactors
  <2> QED BY <1>8, <1>9, <1>10, <2>3, <2>5, FactorsWritten
<1>13. CASE j.op \in TwoFactors
  <2>1. Proceed(w, "spend")
    BY <1>3, <1>13 DEF StampCode, TwoFactors
  <2>2. FitsAt(j, "spend", j.saw) /\ SpentBy(j, "spend") /\ Grows
    BY <1>4, <1>6, <1>13 DEF FitsAt, SpentBy, Grows, Fields, ShowToken, ByToken, TwoFactors
  <2>3. /\ Moves(w) /\ Fits(job[w])' /\ job'[w].at = "spend" /\ job'[w].saw = j.saw
        /\ \A f \in DOMAIN job[w] \ {"at"} : job'[w][f] = job[w][f]
    BY <1>6, <2>1, <2>2, WentOn
  <2>4. job'[w].op = j.op /\ job'[w].token = j.token /\ job'[w].code = j.code
    BY <1>6, <1>13, <2>3 DEF Fields, ShowToken, ByToken, TwoFactors
  <2>5. ASSUME OneAtATime PROVE Trusts(job[w])'
    <3>1. CodesNoted /\ TrustsAt(j, "stamp", j.saw)
      BY <1>4, <2>5, Serving DEF InTurn
    <3>2. j.saw = totp[u].secret /\ j.saw # 0 /\ u = tokens[j.token].of
      BY <1>6, <1>13, <3>1 DEF TrustsAt
    <3>3. totp'[u].last = j.code /\ totp'[u].secret = j.saw
      BY <1>8, <3>2
    <3>4. ~ReplayOf(u, <<j.saw, j.code>>)
      <4>1. SUFFICES ASSUME NEW i \in DOMAIN sessions, sessions[i].of = u,
                            sessions[i].code = <<j.saw, j.code>>
                     PROVE  FALSE
        BY DEF ReplayOf
      <4>2. sessions[i].code # NoCode
        BY <3>2, <4>1 DEF NoCode
      <4>3. sessions[i].code[2] <= totp[u].last /\ sessions[i].code[2] = j.code
        <5>1. sessions[i].code[1] = totp[sessions[i].of].secret =>
                sessions[i].code[2] <= totp[sessions[i].of].last
          BY <3>1, <4>2 DEF CodesNoted
        <5>2. /\ sessions[i].code[1] = totp[sessions[i].of].secret
              /\ sessions[i].code[2] = j.code
          BY <3>2, <4>1
        <5> QED BY <4>1, <5>1, <5>2
      <4>4. j.code > totp[u].last
        BY <1>9, <2>5
      <4>5. totp[u].last \in Nat /\ j.code \in Nat
        BY <1>6, <1>7
      <4> QED BY <4>3, <4>4, <4>5
    <3>5. tokens' = tokens /\ sessions' = sessions
      BY <1>4
    <3>6. ~\E i \in DOMAIN sessions' :
             sessions'[i].of = u /\ sessions'[i].code = <<j.saw, j.code>>
      BY <3>4, <3>5 DEF ReplayOf
    <3> QED
      BY <1>13, <2>3, <2>4, <3>2, <3>3, <3>5, <3>6 DEF Trusts, TrustsAt, ReplayOf, TwoFactors
  <2> QED BY <1>8, <1>9, <1>10, <2>3, <2>5, FactorsWritten
<1> QED BY <1>6, <1>11, <1>12, <1>13

-----------------------------------------------------------------------------
(* Sessions, bans and lockdowns *)

LEMMA SessionsWritten ==
  ASSUME Inv, NEW w \in Threads, Moves(w),
         UNCHANGED <<held, password, former, totp, required, clock, secrets>>,
         banned' \subseteq People, locked' \in BOOLEAN, bans' \in [People -> Nat],
         tokens' \in Seq(TokenRows), Grows, sessions' \in Seq(SessionRows),
         Fits(job[w])', BanEndsSessions',
         OneAtATime => Trusts(job[w])' /\ CodesNoted' /\ CodesDiffer'
  PROVE  Inv'
<1>1. CredentialTypes'
  BY DEF Inv, CredentialTypes, SessionRows
<1>2. ASSUME OneAtATime PROVE (\A u \in People : HasLogin(u))'
  <2>1. InTurn
    BY <1>2 DEF Inv
  <2> QED BY <2>1 DEF InTurn, HasLogin, KeysOf
<1> QED BY <1>1, <1>2, Preserved

LEMMA SessionAdded ==
  ASSUME CredentialTypes, NEW r \in SessionRows, sessions' = Append(sessions, r)
  PROVE  /\ sessions' \in Seq(SessionRows)
         /\ DOMAIN sessions' = DOMAIN sessions \cup {Len(sessions) + 1}
         /\ \A i \in DOMAIN sessions : sessions'[i] = sessions[i]
         /\ sessions'[Len(sessions) + 1] = r
<1>1. sessions \in Seq(SessionRows)
  BY DEF CredentialTypes, SessionRows
<1> QED BY <1>1

LEMMA SessionRow ==
  ASSUME NEW u \in People, NEW n \in Nat, NEW c \in Nat \X Nat
  PROVE  /\ [of |-> u, live |-> TRUE, bans |-> n, code |-> c] \in SessionRows
         /\ [of |-> u, live |-> TRUE, bans |-> n, code |-> c].of = u
         /\ [of |-> u, live |-> TRUE, bans |-> n, code |-> c].bans = n
         /\ [of |-> u, live |-> TRUE, bans |-> n, code |-> c].code = c
  BY DEF SessionRows

LEMMA SessionKept ==
  ASSUME Inv, NEW w \in Threads
  PROVE  CreateSession(w) => Inv'
<1> DEFINE j == job[w]
           u == User(w)
           c == CodeOf(w)
           r == [of |-> u, live |-> TRUE, bans |-> bans[u], code |-> c]
           n == Len(sessions) + 1
<1>1. CredentialTypes
  BY DEF Inv
<1>2. SUFFICES ASSUME CreateSession(w) PROVE Inv'
  OBVIOUS
<1>3. /\ j.at = "session" /\ Respond(w)
      /\ UNCHANGED <<banned, locked, held, password, former, totp, required, clock, secrets, bans>>
      /\ tokens' = tokens \/ tokens' = Served(w)
  BY <1>2 DEF CreateSession
<1>4. sessions' = Append(sessions, r)
  BY <1>2 DEF CreateSession
<1>5. /\ j # Free /\ Fields(j) /\ FitsAt(j, "session", j.saw)
      /\ j.op \in ByToken \cup {"login", "link"}
  BY <1>3, Serving DEF FitsAt
<1>6. u \in People /\ c \in Nat \X Nat
  <2>1. u \in People
    BY <1>5 DEF User, FitsAt, ShowToken
  <2>2. c \in Nat \X Nat
    BY <1>5 DEF CodeOf, NoCode, FitsAt, Fields, TwoFactors
  <2> QED BY <2>1, <2>2
<1>7. /\ r \in SessionRows /\ r.of = u /\ r.bans = bans[u] /\ r.code = c
  <2>1. bans[u] \in Nat
    BY <1>1, <1>6 DEF CredentialTypes
  <2> QED BY <1>6, <2>1, SessionRow
<1> HIDE DEF r
<1>8. /\ sessions' \in Seq(SessionRows)
      /\ DOMAIN sessions' = DOMAIN sessions \cup {n}
      /\ \A i \in DOMAIN sessions : sessions'[i] = sessions[i]
      /\ sessions'[n] = r
  BY <1>1, <1>4, <1>7, SessionAdded
<1>9. tokens' \in Seq(TokenRows) /\ Grows
  <2>1. CASE tokens' = tokens
    BY <1>1, <2>1 DEF CredentialTypes, Grows
  <2>2. CASE tokens' = Served(w)
    BY <2>2, ServedGrows
  <2> QED BY <1>3, <2>1, <2>2
<1>10. BanEndsSessions'
  <2>1. ASSUME NEW i \in DOMAIN sessions', sessions'[i].live
        PROVE  sessions'[i].bans = bans'[sessions'[i].of]
    <3>1. bans' = bans
      BY <1>3
    <3>2. CASE i = n
      BY <1>7, <1>8, <3>1, <3>2
    <3>3. CASE i # n
      BY <1>8, <2>1, <3>1, <3>3 DEF Inv, BanEndsSessions
    <3> QED BY <3>2, <3>3
  <2> QED BY <2>1 DEF BanEndsSessions
<1>11. ASSUME OneAtATime PROVE CodesNoted' /\ CodesDiffer'
  <2>1. CodesNoted /\ CodesDiffer /\ TrustsAt(j, "session", j.saw)
    BY <1>3, <1>11, Serving DEF InTurn
  <2>2. totp' = totp /\ secrets' = secrets
    BY <1>3
  <2>3. ASSUME c # NoCode
        PROVE  /\ c = <<j.saw, j.code>> /\ ~ReplayOf(u, c)
               /\ j.saw = totp[u].secret /\ j.saw # 0 /\ totp[u].last = j.code
    <3>1. j.op \in TwoFactors
      BY <2>3 DEF CodeOf, TwoFactors
    <3>2. u = tokens[j.token].of /\ c = <<j.saw, j.code>>
      BY <3>1 DEF CodeOf, User, TwoFactors
    <3> QED BY <2>1, <3>1, <3>2 DEF TrustsAt
  <2>4. \A v \in People : totp[v].secret \in Nat /\ totp[v].last \in Nat
    BY <1>1 DEF CredentialTypes, Factors
  <2>5. ASSUME c # NoCode
        PROVE  c[1] \in 1 .. secrets /\ c[1] = totp[u].secret /\ c[2] <= totp[u].last
    <3>1. c[1] = totp[u].secret /\ c[2] = totp[u].last /\ c[1] # 0
      BY <2>3, <2>5
    <3>2. totp[u].secret <= secrets /\ secrets \in Nat
      BY <1>1, <1>6, <2>1 DEF CodesNoted, CredentialTypes
    <3>3. totp[u].secret \in Nat /\ totp[u].last \in Nat
      BY <1>6, <2>4
    <3> QED BY <3>1, <3>2, <3>3
  <2>6. CodesNoted'
    <3>1. ASSUME NEW i \in DOMAIN sessions', sessions'[i].code # NoCode
          PROVE  /\ sessions'[i].code[1] \in 1 .. secrets
                 /\ sessions'[i].code[1] = totp[sessions'[i].of].secret =>
                      sessions'[i].code[2] <= totp[sessions'[i].of].last
      <4>1. CASE i = n
        BY <1>7, <1>8, <2>5, <3>1, <4>1
      <4>2. CASE i # n
        BY <1>8, <2>1, <3>1, <4>2 DEF CodesNoted
      <4> QED BY <4>1, <4>2
    <3> QED BY <2>1, <2>2, <3>1 DEF CodesNoted
  <2>7. CodesDiffer'
    <3>1. ASSUME NEW i \in DOMAIN sessions, sessions[i].of = u, c # NoCode
          PROVE  sessions[i].code # c
      BY <2>3, <3>1 DEF ReplayOf
    <3>2. ASSUME NEW i \in DOMAIN sessions', NEW k \in DOMAIN sessions', i # k,
                 sessions'[i].of = sessions'[k].of, sessions'[i].code # NoCode
          PROVE  sessions'[i].code # sessions'[k].code
      <4>1. CASE i = n
        BY <1>7, <1>8, <3>1, <3>2, <4>1
      <4>2. CASE k = n
        BY <1>7, <1>8, <3>1, <3>2, <4>2
      <4>3. CASE i # n /\ k # n
        BY <1>8, <2>1, <3>2, <4>3 DEF CodesDiffer
      <4> QED BY <4>1, <4>2, <4>3
    <3> QED BY <3>2 DEF CodesDiffer
  <2> QED BY <2>6, <2>7
<1>12. Moves(w) /\ Fits(job[w])' /\ Trusts(job[w])'
  BY <1>3, <1>5, Done
<1>13. banned' \subseteq People /\ locked' \in BOOLEAN /\ bans' \in [People -> Nat]
  BY <1>1, <1>3 DEF CredentialTypes
<1>14. UNCHANGED <<held, password, former, totp, required, clock, secrets>>
  BY <1>3
<1> QED BY <1>8, <1>9, <1>10, <1>11, <1>12, <1>13, <1>14, SessionsWritten

\* Some sessions end.
LEMMA SessionsEnd ==
  ASSUME CredentialTypes, DOMAIN sessions' = DOMAIN sessions,
         sessions' = [i \in DOMAIN sessions |-> sessions'[i]],
         \A i \in DOMAIN sessions :
           sessions'[i] = sessions[i] \/ sessions'[i] = [sessions[i] EXCEPT !.live = FALSE]
  PROVE  /\ sessions' \in Seq(SessionRows)
         /\ \A i \in DOMAIN sessions :
              /\ sessions'[i].of = sessions[i].of /\ sessions'[i].bans = sessions[i].bans
              /\ sessions'[i].code = sessions[i].code
              /\ sessions'[i].live => sessions'[i] = sessions[i]
<1>1. sessions \in Seq(SessionRows)
  BY DEF CredentialTypes, SessionRows
<1>2. ASSUME NEW i \in DOMAIN sessions
      PROVE  /\ sessions'[i] \in SessionRows
             /\ sessions'[i].of = sessions[i].of /\ sessions'[i].bans = sessions[i].bans
             /\ sessions'[i].code = sessions[i].code
             /\ sessions'[i].live => sessions'[i] = sessions[i]
  <2>1. sessions[i] \in SessionRows
    BY <1>1, Elements
  <2>2. CASE sessions'[i] = sessions[i]
    BY <2>1, <2>2
  <2>3. CASE sessions'[i] = [sessions[i] EXCEPT !.live = FALSE]
    <3>1. [sessions[i] EXCEPT !.live = FALSE] \in SessionRows
      BY <2>1 DEF SessionRows
    <3>2. /\ [sessions[i] EXCEPT !.live = FALSE].of = sessions[i].of
          /\ [sessions[i] EXCEPT !.live = FALSE].bans = sessions[i].bans
          /\ [sessions[i] EXCEPT !.live = FALSE].code = sessions[i].code
          /\ ~[sessions[i] EXCEPT !.live = FALSE].live
      BY <2>1 DEF SessionRows
    <3> QED BY <2>3, <3>1, <3>2
  <2> QED BY <2>2, <2>3
<1> QED BY <1>1, <1>2, Rewritten

\* The codes of the sessions stay as they are.
LEMMA CodesStay ==
  ASSUME CodesNoted, CodesDiffer, totp' = totp, secrets' = secrets,
         DOMAIN sessions' = DOMAIN sessions,
         \A i \in DOMAIN sessions :
           sessions'[i].of = sessions[i].of /\ sessions'[i].code = sessions[i].code
  PROVE  CodesNoted' /\ CodesDiffer'
  BY DEF CodesNoted, CodesDiffer

LEMMA LogoutKept ==
  ASSUME Inv, NEW w \in Threads
  PROVE  Logout(w) => Inv'
<1> DEFINE j == job[w]
<1>1. CredentialTypes
  BY DEF Inv
<1>2. SUFFICES ASSUME Logout(w) PROVE Inv'
  OBVIOUS
<1>3. /\ Respond(w) /\ j.at = "check"
      /\ UNCHANGED <<banned, locked, held, password, former, totp, required, tokens, clock,
                     secrets, bans>>
  BY <1>2 DEF Logout, At
<1>4. \/ sessions' = sessions
      \/ sessions' = [sessions EXCEPT ![j.session].live = FALSE] /\ j.session \in DOMAIN sessions
  BY <1>2 DEF Logout
<1>5. sessions \in Seq(SessionRows)
  BY <1>1 DEF CredentialTypes, SessionRows
<1>6. /\ DOMAIN sessions' = DOMAIN sessions
      /\ sessions' = [i \in DOMAIN sessions |-> sessions'[i]]
      /\ \A i \in DOMAIN sessions :
           sessions'[i] = sessions[i] \/ sessions'[i] = [sessions[i] EXCEPT !.live = FALSE]
  <2>1. CASE sessions' = sessions
    BY <1>5, <2>1
  <2>2. CASE /\ sessions' = [sessions EXCEPT ![j.session].live = FALSE]
             /\ j.session \in DOMAIN sessions
    <3>1. DOMAIN sessions' = DOMAIN sessions /\ sessions' = [i \in DOMAIN sessions |-> sessions'[i]]
      BY <1>5, <2>2
    <3>2. \A i \in DOMAIN sessions :
            sessions'[i] = sessions[i] \/ sessions'[i] = [sessions[i] EXCEPT !.live = FALSE]
      BY <1>5, <2>2, Zenon
    <3> QED BY <3>1, <3>2
  <2> QED BY <1>4, <2>1, <2>2
<1>7. /\ sessions' \in Seq(SessionRows)
      /\ \A i \in DOMAIN sessions :
           /\ sessions'[i].of = sessions[i].of /\ sessions'[i].code = sessions[i].code
           /\ sessions'[i].live => sessions'[i] = sessions[i]
  BY <1>1, <1>6, SessionsEnd
<1>8. BanEndsSessions'
  <2>1. bans' = bans
    BY <1>3
  <2> QED BY <1>6, <1>7, <2>1 DEF Inv, BanEndsSessions
<1>9. ASSUME OneAtATime PROVE CodesNoted' /\ CodesDiffer'
  <2>1. CodesNoted /\ CodesDiffer
    BY <1>9 DEF Inv, InTurn
  <2>2. totp' = totp /\ secrets' = secrets
    BY <1>3
  <2> QED BY <1>6, <1>7, <2>1, <2>2, CodesStay
<1>10. Moves(w) /\ Fits(job[w])' /\ Trusts(job[w])'
  BY <1>3, Serving, Done
<1>11. /\ banned' \subseteq People /\ locked' \in BOOLEAN /\ bans' \in [People -> Nat]
       /\ tokens' \in Seq(TokenRows) /\ Grows
       /\ UNCHANGED <<held, password, former, totp, required, clock, secrets>>
  BY <1>1, <1>3 DEF CredentialTypes, Grows
<1> QED BY <1>7, <1>8, <1>9, <1>10, <1>11, SessionsWritten

\* After a ban nobody banned has a live session, whatever was counted before.
LEMMA BanKept ==
  ASSUME Inv, NEW w \in Threads
  PROVE  Ban(w) => Inv'
<1> DEFINE j == job[w]
           u == job[w].of
<1>1. CredentialTypes
  BY DEF Inv
<1>2. SUFFICES ASSUME Ban(w) PROVE Inv'
  OBVIOUS
<1>3. /\ Respond(w) /\ j.op = "ban" /\ j.at = "ban"
      /\ banned' = banned \cup {u} /\ bans' = [bans EXCEPT ![u] = @ + 1]
      /\ UNCHANGED <<locked, held, password, former, totp, required, tokens, clock, secrets>>
  BY <1>2 DEF Ban, At
<1>4. sessions' = [i \in DOMAIN sessions |->
                     IF sessions[i].of = u THEN [sessions[i] EXCEPT !.live = FALSE] ELSE sessions[i]]
  BY <1>2 DEF Ban
<1>5. j # Free /\ u \in People
  BY <1>3, Serving DEF Fields
<1>6. /\ DOMAIN sessions' = DOMAIN sessions
      /\ sessions' = [i \in DOMAIN sessions |-> sessions'[i]]
      /\ \A i \in DOMAIN sessions :
           /\ sessions[i].of = u => sessions'[i] = [sessions[i] EXCEPT !.live = FALSE]
           /\ sessions[i].of # u => sessions'[i] = sessions[i]
  BY <1>4, Zenon
<1>7. /\ sessions' \in Seq(SessionRows)
      /\ \A i \in DOMAIN sessions :
           /\ sessions'[i].of = sessions[i].of /\ sessions'[i].code = sessions[i].code
           /\ sessions'[i].live => sessions'[i] = sessions[i]
  <2>1. \A i \in DOMAIN sessions :
          sessions'[i] = sessions[i] \/ sessions'[i] = [sessions[i] EXCEPT !.live = FALSE]
    BY <1>6, Zenon
  <2> QED BY <1>1, <1>6, <2>1, SessionsEnd
<1>8. BanEndsSessions'
  <2>1. ASSUME NEW i \in DOMAIN sessions, sessions'[i].live
        PROVE  sessions'[i].bans = bans'[sessions'[i].of]
    <3>1. sessions[i] \in SessionRows /\ sessions[i].of \in People
      BY <1>1, SessionFields
    <3>2. ASSUME sessions[i].of = u PROVE FALSE
      <4>1. ~[sessions[i] EXCEPT !.live = FALSE].live
        BY <3>1 DEF SessionRows
      <4>2. sessions'[i] = [sessions[i] EXCEPT !.live = FALSE]
        BY <1>6, <3>2
      <4> QED BY <2>1, <4>1, <4>2, Zenon
    <3>3. sessions'[i] = sessions[i] /\ sessions[i].live
      BY <1>7, <2>1
    <3>4. bans'[sessions[i].of] = bans[sessions[i].of]
      BY <1>1, <1>3, <3>1, <3>2 DEF CredentialTypes
    <3>5. sessions[i].bans = bans[sessions[i].of]
      BY <3>3 DEF Inv, BanEndsSessions
    <3> QED BY <3>3, <3>4, <3>5
  <2> QED BY <1>6, <2>1 DEF BanEndsSessions
<1>9. ASSUME OneAtATime PROVE CodesNoted' /\ CodesDiffer'
  <2>1. CodesNoted /\ CodesDiffer
    BY <1>9 DEF Inv, InTurn
  <2>2. totp' = totp /\ secrets' = secrets
    BY <1>3
  <2> QED BY <1>6, <1>7, <2>1, <2>2, CodesStay
<1>10. Moves(w) /\ Fits(job[w])' /\ Trusts(job[w])'
  BY <1>3, <1>5, Done
<1>11. /\ banned' \subseteq People /\ locked' \in BOOLEAN
       /\ tokens' \in Seq(TokenRows) /\ Grows
       /\ UNCHANGED <<held, password, former, totp, required, clock, secrets>>
  BY <1>1, <1>3, <1>5 DEF CredentialTypes, Grows
<1>12. bans' \in [People -> Nat]
  <2>1. bans \in [People -> Nat] /\ bans' = [bans EXCEPT ![u] = @ + 1]
    BY <1>1, <1>3 DEF CredentialTypes
  <2> QED BY <1>5, <2>1
<1> QED BY <1>7, <1>8, <1>9, <1>10, <1>11, <1>12, SessionsWritten

LEMMA AdminsKept ==
  ASSUME Inv, NEW w \in Threads
  PROVE  Unban(w) \/ Lockdown(w) \/ Unlock(w) => Inv'
<1>1. CredentialTypes
  BY DEF Inv
<1>2. SUFFICES ASSUME Unban(w) \/ Lockdown(w) \/ Unlock(w) PROVE Inv'
  OBVIOUS
<1>3. /\ Respond(w) /\ job[w].at # "none"
      /\ UNCHANGED <<held, password, former, totp, required, tokens, sessions, clock, secrets, bans>>
  BY <1>2 DEF Unban, Lockdown, Unlock, At
<1>4. banned' \subseteq banned /\ locked' \in BOOLEAN
  BY <1>1, <1>2 DEF Unban, Lockdown, Unlock, CredentialTypes
<1>5. Moves(w) /\ Fits(job[w])' /\ Trusts(job[w])'
  BY <1>3, Serving, Done
<1>6. BanEndsSessions'
  BY <1>3 DEF Inv, BanEndsSessions
<1>7. OneAtATime => CodesNoted' /\ CodesDiffer'
  BY <1>3 DEF Inv, InTurn, CodesNoted, CodesDiffer
<1>8. /\ banned' \subseteq People /\ bans' \in [People -> Nat]
      /\ tokens' \in Seq(TokenRows) /\ Grows /\ sessions' \in Seq(SessionRows)
      /\ UNCHANGED <<held, password, former, totp, required, clock, secrets>>
  BY <1>1, <1>3, <1>4 DEF CredentialTypes, Grows, SessionRows
<1> QED BY <1>4, <1>5, <1>6, <1>7, <1>8, SessionsWritten

-----------------------------------------------------------------------------
(* Every step *)

LEMMA TakeUpKept ==
  ASSUME Inv, NEW w \in Threads
  PROVE  TakeUp(w) => Inv'
<1> DEFINE R == {r \in calls.requests : NamesTokens(r)}
<1>1. SUFFICES ASSUME TakeUp(w) PROVE Inv'
  OBVIOUS
<1>2. Accept(w, R) /\ UNCHANGED credentialState
  BY <1>1 DEF TakeUp
<1>3. Pool /\ Plain(calls.requests)
  BY RequestFields DEF Inv, Plain
<1>4. /\ Pool' /\ job[w] = Free /\ IsJob(job'[w]) /\ job'[w].at = "check"
      /\ Asked(job'[w]) \in R
      /\ \A v \in Threads \ {w} : job'[v] = job[v]
      /\ calls'.requests = calls.requests /\ calls'.atOnce = calls.atOnce
  BY <1>2, <1>3, AcceptKeepsPool
<1>5. CredentialTypes' /\ Grows /\ BanEndsSessions'
  BY <1>2 DEF Inv, CredentialTypes, Grows, BanEndsSessions, credentialState, authTables
<1>6. Fits(job[w])' /\ Trusts(job[w])'
  <2> DEFINE r == Asked(job'[w])
  <2>1. r \in CredentialRequests /\ NamesTokens(r)
    BY <1>4 DEF Inv
  <2>2. Fields(r)
    BY <2>1, RequestFields
  <2>3. /\ \A f \in DOMAIN r : job'[w][f] = r[f] /\ f \in DOMAIN job'[w]
        /\ \A f \in DOMAIN job'[w] \ {"at", "saw"} : f \in DOMAIN r
    BY DEF Asked
  <2> HIDE DEF r
  <2>4. tokens' = tokens
    BY <1>2 DEF credentialState, authTables
  <2>5. /\ "token" \in DOMAIN job'[w] => job'[w].token \in DOMAIN tokens
        /\ "challenge" \in DOMAIN job'[w] => job'[w].challenge \in DOMAIN tokens
    BY <2>1, <2>3 DEF NamesTokens
  <2> QED
    BY <1>4, <2>4, <2>5 DEF Fits, FitsAt, SpentAt, Trusts, TrustsAt
<1>7. \A v \in Threads : Fits(job[v])'
  BY <1>4, <1>5, <1>6, StillFits
<1>8. ASSUME OneAtATime' PROVE InTurn'
  <2>1. OneAtATime /\ InTurn
    BY <1>4, <1>8 DEF Inv, OneAtATime
  <2>2. (\A u \in People : HasLogin(u))' /\ CodesNoted' /\ CodesDiffer'
    BY <1>2, <2>1
       DEF InTurn, HasLogin, KeysOf, CodesNoted, CodesDiffer, credentialState, authTables
  <2>3. ASSUME NEW v \in Threads \ {w} PROVE Trusts(job[v])'
    <3>1. Trusts(job[v]) /\ job'[v] = job[v]
      BY <1>4, <2>1 DEF InTurn
    <3> QED
      BY <1>2, <3>1 DEF Trusts, TrustsAt, KeysOf, ReplayOf, credentialState, authTables
  <2> QED BY <1>6, <2>2, <2>3 DEF InTurn
<1> QED BY <1>4, <1>5, <1>7, <1>8 DEF Inv

\* What the clock shows, and a step of another component, changes nothing here.
LEMMA TimePasses ==
  ASSUME Inv, UNCHANGED <<authTables, secrets, bans, serving>>, clock' \in Nat
  PROVE  Inv'
<1>1. /\ UNCHANGED <<banned, locked, held, password, former, totp, required, tokens, sessions>>
      /\ UNCHANGED <<secrets, bans, job, calls>>
  BY DEF authTables, serving
<1>2. CredentialTypes' /\ Pool' /\ calls'.requests \subseteq CredentialRequests /\ BanEndsSessions'
  BY <1>1 DEF Inv, CredentialTypes, Pool, Engaged, BanEndsSessions
<1>3. \A w \in Threads : Fits(job[w])'
  BY ZenonT(60), <1>1 DEF Inv, Fits, FitsAt, SpentAt
<1>4. ASSUME OneAtATime' PROVE InTurn'
  <2>1. InTurn
    BY <1>1, <1>4 DEF Inv, OneAtATime
  <2> QED
    BY ZenonT(60), <1>1, <2>1
       DEF InTurn, Trusts, TrustsAt, HasLogin, KeysOf, ReplayOf, CodesNoted, CodesDiffer
<1> QED BY <1>2, <1>3, <1>4 DEF Inv

LEMMA NextKept ==
  Inv /\ [NextCredentials]_credentialVars => Inv'
<1>1. SUFFICES ASSUME Inv, [NextCredentials]_credentialVars PROVE Inv'
  OBVIOUS
<1>2. CASE Tick
  <2>1. clock \in Nat
    BY <1>1 DEF Inv, CredentialTypes
  <2>2. clock' \in Nat /\ UNCHANGED <<authTables, secrets, bans, serving>>
    BY <1>2, <2>1 DEF Tick
  <2> QED BY <1>1, <2>2, TimePasses
<1>3. CASE UNCHANGED credentialVars
  <2>1. clock' \in Nat /\ UNCHANGED <<authTables, secrets, bans, serving>>
    BY <1>1, <1>3 DEF Inv, CredentialTypes, credentialVars, credentialState
  <2> QED BY <1>1, <2>1, TimePasses
<1>4. ASSUME NEW w \in Threads, TakeUp(w) PROVE Inv'
  BY <1>1, <1>4, TakeUpKept
<1>5. ASSUME NEW w \in Threads,
             \/ LoginOptions(w) \/ PkiChallenge(w) \/ AddPasskeyOptions(w) \/ AddKeyChallenge(w)
             \/ DeviceToken(w) \/ LinkPasskeyOptions(w) \/ LinkKeyChallenge(w) \/ RecoveryToken(w)
      PROVE  Inv'
  BY <1>1, <1>5, IssuesKept
<1>6. ASSUME NEW w \in Threads,
             \/ DeletePendingToken(w) \/ ConsumeRecoveryKey(w) \/ UseRecoveryToken(w)
             \/ MarkDeviceTokenUsed(w) \/ SpendChallenge(w)
      PROVE  Inv'
  BY <1>1, <1>6, SpendsKept
<1>7. ASSUME NEW w \in Threads,
             \/ CheckLoginVerify(w) \/ CheckPkiLogin(w) \/ CheckPasswordLogin(w)
             \/ AdmitKeyLogin(w) \/ AdmitPasswordLogin(w) \/ AdmitUser(w)
      PROVE  Inv'
  BY <1>1, <1>7, LoginChecksKept
<1>8. ASSUME NEW w \in Threads,
             \/ AwaitSecondFactor(w) \/ FirstKey(w) \/ DropRecoveryKeys(w) \/ StoreRecoveryKeys(w)
      PROVE  Inv'
  BY <1>1, <1>8, TokenWritesKept
<1>9. ASSUME NEW w \in Threads, CreateSession(w) \/ Logout(w) \/ Ban(w) PROVE Inv'
  BY <1>1, <1>9, SessionKept, LogoutKept, BanKept
<1>10. ASSUME NEW w \in Threads,
              \/ CheckMfaVerify(w) \/ CheckMfaSetup(w) \/ CheckMfaSetupVerify(w)
              \/ CheckTotpSetup(w) \/ CheckTotpVerify(w) \/ CheckTotpDisable(w)
              \/ CheckFactorNeeded(w)
       PROVE  Inv'
  BY <1>1, <1>10, FactorChecksKept
<1>11. ASSUME NEW w \in Threads,
              StoreSecret(w) \/ DeleteTotp(w) \/ ProveSecret(w) \/ StampCode(w)
       PROVE  Inv'
  BY <1>1, <1>11, SecretsKept, ProofKept, StampKept
<1>12. ASSUME NEW w \in Threads,
              \/ CheckRecoveryKey(w) \/ CheckRecoveryToken(w) \/ CheckLinkPasskey(w)
              \/ CheckLinkKey(w) \/ CheckAddPasskey(w) \/ CheckAddKey(w)
       PROVE  Inv'
  BY <1>1, <1>12, TokenChecksKept
<1>13. ASSUME NEW w \in Threads,
              \/ StorePasskey(w) \/ StorePkiKey(w) \/ RemovePasskey(w) \/ RemovePkiKey(w)
              \/ KeepFormer(w) \/ StorePassword(w) \/ DropPassword(w)
       PROVE  Inv'
  BY <1>1, <1>13, AccountWritesKept
<1>14. ASSUME NEW w \in Threads,
              \/ RefuseRegenerate(w) \/ CheckRemovePasskey(w) \/ CountPasskeys(w) \/ CheckRemoveKey(w)
              \/ CheckPasswordChange(w) \/ CheckPasswordSet(w) \/ CheckPasswordDelete(w)
              \/ CheckBan(w) \/ CheckUnban(w)
       PROVE  Inv'
  BY <1>1, <1>14, OwnChecksKept
<1>15. ASSUME NEW w \in Threads, Unban(w) \/ Lockdown(w) \/ Unlock(w) PROVE Inv'
  BY <1>1, <1>15, AdminsKept
<1> QED
  BY <1>1, <1>2, <1>3, <1>4, <1>5, <1>6, <1>7, <1>8, <1>9, <1>10, <1>11, <1>12, <1>13, <1>14, <1>15,
     Zenon DEF NextCredentials

LEMMA InitKept ==
  InitCredentials => Inv
<1>1. SUFFICES ASSUME InitCredentials PROVE Inv
  OBVIOUS
<1>2. PICK s \in CredentialScenarios : CredentialTables(s) /\ Listening(s)
  BY <1>1 DEF InitCredentials
<1>3. /\ s.held \subseteq People \X AllKeys /\ s.password \in [People -> Nat]
      /\ \A u \in People : s.password[u] # NoPassword \/ \E k \in AllKeys : <<u, k>> \in s.held
      /\ s.totp \in [People -> Factors]
      /\ \A u \in People : s.totp[u].secret <= 1 /\ (s.totp[u].verified => s.totp[u].secret = 1)
      /\ s.required \subseteq Methods /\ s.tokens \in Seq(TokenRows)
      /\ s.sessions \in Seq(People) /\ s.requests \subseteq CredentialRequests
      /\ s.atOnce \in Nat \ {0}
  BY CredentialAssumption
<1>4. /\ held = s.held /\ password = s.password /\ totp = s.totp /\ required = s.required
      /\ tokens = s.tokens /\ banned = {} /\ locked = FALSE
      /\ former = [u \in People |-> <<>>] /\ clock = 1 /\ secrets = 1
      /\ bans = [u \in People |-> 0]
  BY <1>2 DEF CredentialTables
<1>5. sessions = [i \in 1 .. Len(s.sessions) |->
                    [of |-> s.sessions[i], live |-> TRUE, bans |-> 0, code |-> NoCode]]
  BY <1>2 DEF CredentialTables
<1>6. /\ Len(s.sessions) \in Nat /\ DOMAIN s.sessions = 1 .. Len(s.sessions)
      /\ \A i \in DOMAIN s.sessions : s.sessions[i] \in People
  BY <1>3, Elements
<1>7. /\ sessions \in Seq(SessionRows)
      /\ \A i \in DOMAIN sessions :
           sessions[i].of \in People /\ sessions[i].bans = 0 /\ sessions[i].code = NoCode
  <2> DEFINE row(i) == [of |-> s.sessions[i], live |-> TRUE, bans |-> 0, code |-> NoCode]
  <2>1. ASSUME NEW i \in DOMAIN s.sessions
        PROVE  row(i) \in SessionRows /\ row(i).of = s.sessions[i] /\ row(i).bans = 0
               /\ row(i).code = NoCode
    <3>1. s.sessions[i] \in People /\ NoCode \in Nat \X Nat
      BY <1>6 DEF NoCode
    <3> QED BY <3>1, SessionRow
  <2>2. sessions = [i \in DOMAIN s.sessions |-> row(i)]
    BY <1>5, <1>6
  <2> HIDE DEF row
  <2>3. DOMAIN sessions = DOMAIN s.sessions /\ \A i \in DOMAIN s.sessions : sessions[i] = row(i)
    BY <2>2
  <2>4. sessions = [i \in DOMAIN s.sessions |-> sessions[i]]
    BY <2>2, <2>3
  <2>5. sessions \in Seq(SessionRows)
    <3>1. s.sessions \in Seq(People)
      BY <1>3
    <3>2. \A i \in DOMAIN s.sessions : sessions[i] \in SessionRows
      BY <2>1, <2>3
    <3> QED BY <2>3, <2>4, <3>1, <3>2, Rewritten
  <2> QED BY <1>6, <2>1, <2>3, <2>5
<1>8. CredentialTypes
  <2>1. former \in [People -> Seq(Nat)]
    <3>1. <<>> \in Seq(Nat)
      OBVIOUS
    <3> QED BY <1>4, <3>1
  <2>2. bans \in [People -> Nat] /\ locked \in BOOLEAN
    BY <1>4
  <2> QED BY <2>2, <1>3, <1>4, <1>7, <2>1 DEF CredentialTypes, SessionRows
<1>9. Pool /\ calls.requests = s.requests
  BY <1>2, <1>3, PoolStarts
<1>10. \A w \in Threads : Fits(job[w]) /\ Trusts(job[w])
  <2>1. \A w \in Threads : job[w] = Free
    BY <1>2 DEF Listening
  <2> QED BY <2>1, DoneFits
<1>11. BanEndsSessions
  BY <1>4, <1>7 DEF BanEndsSessions
<1>12. \A u \in People : HasLogin(u)
  BY <1>3, <1>4 DEF HasLogin, KeysOf
<1>13. CodesDiffer
  BY <1>7 DEF CodesDiffer
<1>14. CodesNoted
  <2>1. ASSUME NEW u \in People
        PROVE  totp[u].secret <= secrets /\ (totp[u].verified => totp[u].secret # 0)
    BY <1>3, <1>4
  <2> QED BY <1>7, <2>1 DEF CodesNoted
<1> QED BY <1>3, <1>8, <1>9, <1>10, <1>11, <1>12, <1>13, <1>14 DEF Inv, InTurn

LEMMA Invariance == CredentialSpec => []Inv
BY InitKept, NextKept, PTL DEF CredentialSpec

\* Whatever is asked, in whatever order the workers take their steps, the rows
\* of accounts, factors, tokens and sessions are well formed, and every session
\* and token belongs to somebody (the tables of auth_handler.cpp).
THEOREM CredentialsTyped == CredentialSpec => []CredentialTypes
<1>1. Inv => CredentialTypes
  BY DEF Inv
<1> QED BY <1>1, Invariance, PTL

\* However logins and bans interleave, no session outlives a ban of its user
\* (ban_user, which deletes the sessions in the transaction that marks the row).
THEOREM BansEndSessions == CredentialSpec => []BanEndsSessions
<1>1. Inv => BanEndsSessions
  BY DEF Inv
<1> QED BY <1>1, Invariance, PTL

\* Of requests that do not overlap, no sequence takes somebody's last way to log
\* in: the counts that the handlers make before they remove a key or a password
\* still hold when they remove it.
THEOREM LoginsKept == CredentialSpec => []KeepsALogin
<1>1. Inv => KeepsALogin
  BY DEF Inv, InTurn, HasLogin, KeepsALogin
<1> QED BY <1>1, Invariance, PTL

-----------------------------------------------------------------------------
(* What serves once *)

\* What a request shows that can be used once.
ShownBy(j) == {j[f] : f \in {"token", "challenge"} \cap DOMAIN j}
\* What it shows has served it already.
Over(j) == \/ j.op = "link" /\ j.at = "session"
           \/ j.op = "add" /\ j.at = "first key"
\* The workers that a token may yet serve: they have found it live.
Using(t) == {w \in Engaged : job[w].at # "check" /\ t \in ShownBy(job[w]) /\ ~Over(job[w])}

\* A live token has served nobody, and nobody finds a spent one live any more.
Counted ==
  \A t \in DOMAIN tokens :
    /\ tokens[t].live => tokens[t].served = 0
    /\ ~tokens[t].live => tokens[t].served + Cardinality(Using(t)) <= calls.atOnce

\* What a step of w does to the tokens, each by itself.
CountsRight(w) ==
  \A t \in DOMAIN tokens' :
    \/ t \notin DOMAIN tokens /\ tokens'[t].live /\ tokens'[t].served = 0
    \/ /\ t \in DOMAIN tokens
       /\ tokens'[t].served = tokens[t].served
       /\ ~tokens[t].live => ~tokens'[t].live
       /\ tokens[t].live \/ w \notin Using(t)' \/ w \in Using(t)
    \/ /\ t \in DOMAIN tokens
       /\ tokens'[t].served = tokens[t].served + 1
       /\ ~tokens[t].live /\ ~tokens'[t].live
       /\ w \in Using(t) /\ w \notin Using(t)'

LEMMA UsingFinite ==
  ASSUME Pool, NEW t
  PROVE  /\ IsFiniteSet(Using(t)) /\ Cardinality(Using(t)) \in Nat
         /\ Cardinality(Using(t)) <= calls.atOnce
<1>1. IsFiniteSet(Engaged) /\ Using(t) \subseteq Engaged /\ Cardinality(Engaged) <= calls.atOnce
  BY DEF Pool, Using
<1>2. /\ IsFiniteSet(Using(t)) /\ Cardinality(Using(t)) <= Cardinality(Engaged)
      /\ Cardinality(Engaged) \in Nat
  BY <1>1, FS_Subset, FS_CardinalityType
<1>3. Cardinality(Using(t)) \in Nat /\ calls.atOnce \in Nat
  BY <1>2, FS_CardinalityType DEF Pool
<1> QED BY <1>1, <1>2, <1>3

LEMMA CountKept ==
  ASSUME Inv, Counted, NEW w \in Threads, Moves(w), tokens' \in Seq(TokenRows), CountsRight(w)
  PROVE  Counted'
<1>1. Pool /\ Pool' /\ (\A v \in Threads \ {w} : job'[v] = job[v]) /\ calls' = calls
  BY MoveKeepsPool DEF Inv, Moves
<1>2. \A t \in DOMAIN tokens' : tokens'[t].served \in Nat
  <2>1. \A t \in DOMAIN tokens' : tokens'[t] \in TokenRows
    BY Elements
  <2> QED BY <2>1, RowChanged
<1>3. SUFFICES ASSUME NEW t \in DOMAIN tokens'
               PROVE  /\ tokens'[t].live => tokens'[t].served = 0
                      /\ ~tokens'[t].live =>
                           tokens'[t].served + Cardinality(Using(t)') <= calls.atOnce
  BY <1>1 DEF Counted
<1>4. Using(t)' \ {w} \subseteq Using(t) /\ Using(t)' \subseteq Engaged'
  BY <1>1 DEF Using, Engaged
<1>5. /\ IsFiniteSet(Using(t)) /\ Cardinality(Using(t)) \in Nat
      /\ IsFiniteSet(Using(t)') /\ Cardinality(Using(t)') \in Nat
      /\ Cardinality(Using(t)') <= calls.atOnce /\ calls.atOnce \in Nat
  <2>1. calls'.atOnce = calls.atOnce /\ calls.atOnce \in Nat
    BY <1>1 DEF Pool
  <2>2. /\ IsFiniteSet(Using(t)') /\ Cardinality(Using(t)') \in Nat
        /\ Cardinality(Using(t)') <= calls'.atOnce
    <3>1. IsFiniteSet(Engaged') /\ Cardinality(Engaged') <= calls'.atOnce
      BY <1>1 DEF Pool
    <3>2. /\ IsFiniteSet(Using(t)') /\ Cardinality(Using(t)') <= Cardinality(Engaged')
          /\ Cardinality(Engaged') \in Nat
      BY <1>4, <3>1, FS_Subset, FS_CardinalityType
    <3>3. Cardinality(Using(t)') \in Nat
      BY <3>2, FS_CardinalityType
    <3> QED BY <2>1, <3>1, <3>2, <3>3
  <2> QED BY <1>1, <2>1, <2>2, UsingFinite
<1>6. CASE t \notin DOMAIN tokens /\ tokens'[t].live /\ tokens'[t].served = 0
  BY <1>6
<1>7. CASE /\ t \in DOMAIN tokens
           /\ tokens'[t].served = tokens[t].served
           /\ ~tokens[t].live => ~tokens'[t].live
           /\ tokens[t].live \/ w \notin Using(t)' \/ w \in Using(t)
  <2>1. CASE tokens[t].live
    <3>1. tokens'[t].served = 0
      BY <1>7, <2>1 DEF Counted
    <3> QED BY <1>5, <3>1
  <2>2. CASE ~tokens[t].live
    <3>1. Using(t)' \subseteq Using(t)
      BY <1>4, <1>7, <2>2
    <3>2. Cardinality(Using(t)') <= Cardinality(Using(t))
      BY <1>5, <3>1, FS_Subset
    <3>3. tokens[t].served + Cardinality(Using(t)) <= calls.atOnce
      BY <1>7, <2>2 DEF Counted
    <3>4. ~tokens'[t].live
      BY <1>7, <2>2
    <3>5. tokens'[t].served = tokens[t].served
      BY <1>7
    <3>6. tokens'[t].served + Cardinality(Using(t)') <= calls.atOnce
      BY <1>2, <1>5, <3>2, <3>3, <3>5
    <3> QED BY <3>4, <3>6
  <2> QED BY <2>1, <2>2
<1>8. CASE /\ t \in DOMAIN tokens
           /\ tokens'[t].served = tokens[t].served + 1
           /\ ~tokens[t].live /\ ~tokens'[t].live
           /\ w \in Using(t) /\ w \notin Using(t)'
  <2>1. Using(t)' \subseteq Using(t) \ {w}
    BY <1>4, <1>8
  <2>2. /\ IsFiniteSet(Using(t) \ {w})
        /\ Cardinality(Using(t) \ {w}) = Cardinality(Using(t)) - 1
    BY <1>5, <1>8, FS_RemoveElement
  <2>3. Cardinality(Using(t)') <= Cardinality(Using(t)) - 1
    BY <2>1, <2>2, FS_Subset
  <2>4. tokens[t].served + Cardinality(Using(t)) <= calls.atOnce
    BY <1>8 DEF Counted
  <2>5. tokens'[t].served = tokens[t].served + 1 /\ tokens[t].served \in Nat
    <3>1. tokens[t] \in TokenRows
      BY <1>8, Elements DEF Inv, CredentialTypes
    <3> QED BY <1>8, <3>1, RowChanged
  <2>6. tokens'[t].served + Cardinality(Using(t)') <= calls.atOnce
    BY <1>5, <2>3, <2>4, <2>5
  <2> QED BY <1>8, <2>6
<1> QED BY <1>6, <1>7, <1>8 DEF CountsRight

\* A step that writes no token counts right, unless the worker goes on from the
\* first check with a token that it has not found live.
Rightly(w) ==
  job'[w] # Free =>
    /\ ~Over(job[w])
    /\ job[w].at = "check" => \A t \in ShownBy(job[w]) : t \in DOMAIN tokens => tokens[t].live

LEMMA UsingStays ==
  ASSUME NEW w \in Threads, Moves(w), Rightly(w), NEW t \in DOMAIN tokens
  PROVE  tokens[t].live \/ w \notin Using(t)' \/ w \in Using(t)
<1>1. SUFFICES ASSUME w \in Using(t)', ~tokens[t].live PROVE w \in Using(t)
  OBVIOUS
<1>2. job'[w] # Free /\ job[w] # Free /\ Asked(job'[w]) = Asked(job[w])
  BY <1>1 DEF Using, Engaged, Moves
<1>3. t \in ShownBy(job'[w])
  BY <1>1 DEF Using
<1>4. t \in ShownBy(job[w])
  <2>1. PICK f \in {"token", "challenge"} \cap DOMAIN job'[w] : t = job'[w][f]
    BY <1>3 DEF ShownBy
  <2>2. f \in DOMAIN job[w] /\ job[w][f] = t
    BY <1>2, <2>1, SameAsked
  <2> QED BY <2>1, <2>2 DEF ShownBy
<1>5. job[w].at # "check" /\ ~Over(job[w])
  BY <1>1, <1>2, <1>4 DEF Rightly
<1> QED BY <1>2, <1>4, <1>5 DEF Using, Engaged

LEMMA UnwrittenCounts ==
  ASSUME Inv, Counted, NEW w \in Threads, Moves(w), tokens' = tokens, Rightly(w)
  PROVE  Counted'
<1>1. tokens' \in Seq(TokenRows)
  BY DEF Inv, CredentialTypes
<1>2. CountsRight(w)
  BY UsingStays DEF CountsRight
<1> QED BY <1>1, <1>2, CountKept

\* Whoever is done holds nothing.
LEMMA DoneRightly ==
  ASSUME Inv, NEW w \in Threads, job[w].at # "none", Respond(w)
  PROVE  Moves(w) /\ Rightly(w) /\ \A t : w \notin Using(t)'
<1>1. Pool /\ job[w] # Free
  BY Serving DEF Inv
<1>2. Moves(w) /\ job'[w] = Free
  BY <1>1, Responding
<1> QED BY <1>2 DEF Rightly, Using, Engaged

LEMMA LookedCounts ==
  ASSUME Inv, Counted, NEW w \in Threads, job[w].at # "none", NEW refused,
         NEW place, place # "none", ~Over(job[w]),
         \/ Look(w, refused, place)
         \/ \E saw : Remember(w, refused, place, saw),
         ~refused /\ job[w].at = "check" =>
           \A t \in ShownBy(job[w]) : t \in DOMAIN tokens => tokens[t].live
  PROVE  Counted'
<1>1. Pool /\ job[w] # Free
  BY Serving DEF Inv
<1>2. tokens' = tokens
  BY DEF Look, Remember, credentialState, authTables
<1>3. Moves(w) /\ Rightly(w)
  <2>1. CASE refused
    <3>1. Respond(w)
      BY <2>1 DEF Look, Remember, Unless
    <3> QED BY <3>1, DoneRightly
  <2>2. CASE ~refused
    <3>1. Proceed(w, place) \/ \E saw : Recall(w, place, saw)
      BY <2>2 DEF Look, Remember, Unless
    <3>2. Moves(w)
      BY <1>1, <3>1, Proceeding, Recalling
    <3> QED BY <2>2, <3>2 DEF Rightly
  <2> QED BY <2>1, <2>2
<1> QED BY <1>2, <1>3, UnwrittenCounts

\* The fields that a request shows tokens with.
LEMMA ShownIs ==
  ASSUME NEW j, NEW t \in ShownBy(j)
  PROVE  \/ "token" \in DOMAIN j /\ t = j.token
         \/ "challenge" \in DOMAIN j /\ t = j.challenge
BY DEF ShownBy

LEMMA PlainCounts ==
  ASSUME Inv, Counted, NEW w \in Threads, job[w].at # "none", NEW refused,
         NEW place, place # "none",
         \/ Look(w, refused, place)
         \/ \E saw : Remember(w, refused, place, saw),
         job[w].at \in {"check", "remove"},
         "token" \notin DOMAIN job[w], "challenge" \notin DOMAIN job[w]
  PROVE  Counted'
<1>1. ~Over(job[w])
  BY DEF Over
<1>2. ShownBy(job[w]) = {}
  BY DEF ShownBy
<1> QED BY <1>1, <1>2, LookedCounts

LEMMA PlainChecksCount ==
  ASSUME Inv, Counted, NEW w \in Threads
  PROVE  CheckPasswordLogin(w) \/ CheckTotpSetup(w) \/ CheckTotpVerify(w) \/ CheckTotpDisable(w)
         \/ RefuseRegenerate(w) \/ CheckRemovePasskey(w) \/ CountPasskeys(w) \/ CheckRemoveKey(w)
         \/ CheckPasswordChange(w) \/ CheckPasswordSet(w) \/ CheckPasswordDelete(w)
         \/ CheckBan(w) \/ CheckUnban(w)
         => Counted'
<1> DEFINE j == job[w]
<1> USE DEF Fields, ShowToken, ByToken, TwoFactors
<1>1. CASE CheckPasswordLogin(w)
  <2> DEFINE refused == password[j.user] # j.password \/ j.user \in banned
  <2>1. Remember(w, refused, "admit", j.user) /\ j.op = "login" /\ j.at = "check" /\ j.method = "password"
    BY <1>1 DEF CheckPasswordLogin, At
  <2>2. \E saw : Remember(w, refused, "admit", saw)
    BY <2>1
  <2> HIDE DEF refused
  <2> QED BY <2>1, <2>2, Serving, PlainCounts
<1>2. CASE CheckTotpSetup(w)
  <2> DEFINE refused == ~LoggedIn(j.by)
  <2>1. Look(w, refused, "new secret") /\ j.op = "totp setup" /\ j.at = "check"
    BY <1>2 DEF CheckTotpSetup, At
  <2> HIDE DEF refused
  <2> QED BY <2>1, Serving, PlainCounts
<1>3. CASE CheckTotpVerify(w)
  <2> DEFINE refused == ~(LoggedIn(j.by) /\ totp[j.by].secret # 0 /\ Acceptable(j.by, j.code))
  <2>1. Look(w, refused, "prove") /\ j.op = "totp verify" /\ j.at = "check"
    BY <1>3 DEF CheckTotpVerify, At
  <2> HIDE DEF refused
  <2> QED BY <2>1, Serving, PlainCounts
<1>4. CASE CheckTotpDisable(w)
  <2> DEFINE refused == ~(LoggedIn(j.by) /\ totp[j.by].verified /\ Acceptable(j.by, j.code))
  <2>1. Look(w, refused, "stamp") /\ j.op = "totp disable" /\ j.at = "check"
    BY <1>4 DEF CheckTotpDisable, At
  <2> HIDE DEF refused
  <2> QED BY <2>1, Serving, PlainCounts
<1>5. CASE RefuseRegenerate(w)
  <2> DEFINE refused == TRUE
  <2>1. Look(w, refused, "store keys") /\ j.op = "regenerate" /\ j.at = "check"
    BY <1>5 DEF RefuseRegenerate, At
  <2> HIDE DEF refused
  <2> QED BY <2>1, Serving, PlainCounts
<1>6. CASE CheckRemovePasskey(w)
  <2> DEFINE refused == ~LoggedIn(j.by) \/ Cardinality(KeysOf(j.by)) <= 1
  <2>1. Look(w, refused, "remove") /\ j.op = "remove" /\ j.at = "check"
    BY <1>6 DEF CheckRemovePasskey, At
  <2> HIDE DEF refused
  <2> QED BY <2>1, Serving, PlainCounts
<1>7. CASE CheckRemoveKey(w)
  <2> DEFINE refused == ~LoggedIn(j.by) \/ Cardinality(KeysOf(j.by)) <= 1
  <2>1. Look(w, refused, "remove") /\ j.op = "remove" /\ j.at = "check"
    BY <1>7 DEF CheckRemoveKey, At
  <2> HIDE DEF refused
  <2> QED BY <2>1, Serving, PlainCounts
<1>8. CASE CheckPasswordChange(w)
  <2> DEFINE refused == \/ ~LoggedIn(j.by)
                        \/ password[j.by] = NoPassword \/ j.current # password[j.by]
                        \/ j.password \in Newest(former[j.by], HistoryCount) \cup {password[j.by]}
  <2>1. Remember(w, refused, "keep former", password[j.by]) /\ j.op = "change password" /\ j.at = "check"
    BY <1>8 DEF CheckPasswordChange, At
  <2>2. \E saw : Remember(w, refused, "keep former", saw)
    BY <2>1
  <2> HIDE DEF refused
  <2> QED BY <2>1, <2>2, Serving, PlainCounts
<1>9. CASE CheckPasswordSet(w)
  <2> DEFINE refused == ~LoggedIn(j.by) \/ password[j.by] # NoPassword
  <2>1. Look(w, refused, "store password") /\ j.op = "set password" /\ j.at = "check"
    BY <1>9 DEF CheckPasswordSet, At
  <2> HIDE DEF refused
  <2> QED BY <2>1, Serving, PlainCounts
<1>10. CASE CheckPasswordDelete(w)
  <2> DEFINE refused == ~LoggedIn(j.by) \/ password[j.by] = NoPassword \/ KeysOf(j.by) = {}
  <2>1. Look(w, refused, "drop password") /\ j.op = "delete password" /\ j.at = "check"
    BY <1>10 DEF CheckPasswordDelete, At
  <2> HIDE DEF refused
  <2> QED BY <2>1, Serving, PlainCounts
<1>11. CASE CheckBan(w)
  <2> DEFINE refused == ~Administers(w) \/ j.of \in banned \cup Admins
  <2>1. Look(w, refused, "ban") /\ j.op = "ban" /\ j.at = "check"
    BY <1>11 DEF CheckBan, At
  <2> HIDE DEF refused
  <2> QED BY <2>1, Serving, PlainCounts
<1>12. CASE CheckUnban(w)
  <2> DEFINE refused == ~Administers(w) \/ j.of \notin banned
  <2>1. Look(w, refused, "unban") /\ j.op = "unban" /\ j.at = "check"
    BY <1>12 DEF CheckUnban, At
  <2> HIDE DEF refused
  <2> QED BY <2>1, Serving, PlainCounts
<1>13. CASE CountPasskeys(w)
  <2> DEFINE refused == Cardinality(PasskeysOf(j.by)) <= 1
  <2>1. Look(w, refused, "remove passkey") /\ j.op = "remove" /\ j.at = "remove"
    BY <1>13 DEF CountPasskeys, At
  <2> HIDE DEF refused
  <2> QED BY <2>1, Serving, PlainCounts
<1> QED BY <1>1, <1>2, <1>3, <1>4, <1>5, <1>6, <1>7, <1>8, <1>9, <1>10, <1>11, <1>12, <1>13

LEMMA TokenChecksCount ==
  ASSUME Inv, Counted, NEW w \in Threads
  PROVE  CheckLoginVerify(w) \/ CheckPkiLogin(w) \/ CheckMfaVerify(w) \/ CheckMfaSetup(w)
         \/ CheckMfaSetupVerify(w) \/ CheckRecoveryKey(w) \/ CheckRecoveryToken(w)
         \/ CheckLinkPasskey(w) \/ CheckLinkKey(w) \/ CheckAddPasskey(w) \/ CheckAddKey(w)
         => Counted'
<1> DEFINE j == job[w]
           u == tokens[j.token].of
<1> USE DEF Fields, ShowToken, ByToken, TwoFactors, Live
<1>1. CASE CheckLoginVerify(w)
  <2> DEFINE refused == HoldersOf(j.key) = {} \/ ~Live(j.challenge, {"passkey login"})
  <2>1. Look(w, refused, "discard") /\ j.op = "login" /\ j.at = "check" /\ j.method = "passkey"
    BY <1>1 DEF CheckLoginVerify, At
  <2>2. ~refused => \A t \in ShownBy(j) : tokens[t].live
    BY <2>1, Serving, ShownIs
  <2>3. ~Over(j)
    BY <2>1 DEF Over
  <2> HIDE DEF refused
  <2> QED BY <2>1, <2>2, <2>3, LookedCounts
<1>2. CASE CheckPkiLogin(w)
  <2> DEFINE refused == ~Live(j.challenge, {"pki login"})
  <2>1. Look(w, refused, "discard") /\ j.op = "login" /\ j.at = "check" /\ j.method = "pki"
    BY <1>2 DEF CheckPkiLogin, At
  <2>2. ~refused => \A t \in ShownBy(j) : tokens[t].live
    BY <2>1, Serving, ShownIs
  <2>3. ~Over(j)
    BY <2>1 DEF Over
  <2> HIDE DEF refused
  <2> QED BY <2>1, <2>2, <2>3, LookedCounts
<1>3. CASE CheckMfaVerify(w)
  <2> DEFINE refused == ~(Live(j.token, {"second factor"}) /\ totp[u].verified /\ Acceptable(u, j.code))
  <2>1. Remember(w, refused, "stamp", totp[u].secret) /\ j.op = "mfa verify" /\ j.at = "check"
    BY <1>3 DEF CheckMfaVerify, At
  <2>2. ~refused => \A t \in ShownBy(j) : tokens[t].live
    BY <2>1, Serving, ShownIs
  <2>3. ~Over(j)
    BY <2>1 DEF Over
  <2>4. \E saw : Remember(w, refused, "stamp", saw)
    BY <2>1
  <2> HIDE DEF refused
  <2> QED BY <2>1, <2>2, <2>3, <2>4, LookedCounts
<1>4. CASE CheckMfaSetup(w)
  <2> DEFINE refused == ~Live(j.token, {"second factor"})
  <2>1. Look(w, refused, "new secret") /\ j.op = "mfa setup" /\ j.at = "check"
    BY <1>4 DEF CheckMfaSetup, At
  <2>2. ~refused => \A t \in ShownBy(j) : tokens[t].live
    BY <2>1, Serving, ShownIs
  <2>3. ~Over(j)
    BY <2>1 DEF Over
  <2> HIDE DEF refused
  <2> QED BY <2>1, <2>2, <2>3, LookedCounts
<1>5. CASE CheckMfaSetupVerify(w)
  <2> DEFINE refused == ~(Live(j.token, {"second factor"}) /\ totp[u].secret # 0 /\ Acceptable(u, j.code))
  <2>1. Remember(w, refused, "prove", totp[u].secret) /\ j.op = "mfa setup verify" /\ j.at = "check"
    BY <1>5 DEF CheckMfaSetupVerify, At
  <2>2. ~refused => \A t \in ShownBy(j) : tokens[t].live
    BY <2>1, Serving, ShownIs
  <2>3. ~Over(j)
    BY <2>1 DEF Over
  <2>4. \E saw : Remember(w, refused, "prove", saw)
    BY <2>1
  <2> HIDE DEF refused
  <2> QED BY <2>1, <2>2, <2>3, <2>4, LookedCounts
<1>6. CASE CheckRecoveryKey(w)
  <2> DEFINE refused == ~Live(j.token, {"recovery key"})
  <2>1. Look(w, refused, "spend") /\ j.op = "recovery key" /\ j.at = "check"
    BY <1>6 DEF CheckRecoveryKey, At
  <2>2. ~refused => \A t \in ShownBy(j) : tokens[t].live
    BY <2>1, Serving, ShownIs
  <2>3. ~Over(j)
    BY <2>1 DEF Over
  <2> HIDE DEF refused
  <2> QED BY <2>1, <2>2, <2>3, LookedCounts
<1>7. CASE CheckRecoveryToken(w)
  <2> DEFINE refused == ~Live(j.token, {"recovery token"})
  <2>1. Look(w, refused, "admit") /\ j.op = "recovery token login" /\ j.at = "check"
    BY <1>7 DEF CheckRecoveryToken, At
  <2>2. ~refused => \A t \in ShownBy(j) : tokens[t].live
    BY <2>1, Serving, ShownIs
  <2>3. ~Over(j)
    BY <2>1 DEF Over
  <2> HIDE DEF refused
  <2> QED BY <2>1, <2>2, <2>3, LookedCounts
<1>8. CASE CheckLinkPasskey(w)
  <2> DEFINE refused == ~(/\ Live(j.challenge, {"link passkey"}) /\ Live(j.token, {"device token"})
                          /\ tokens[j.challenge].of = tokens[j.token].of)
  <2>1. Look(w, refused, "discard") /\ j.op = "link" /\ j.at = "check"
    BY <1>8 DEF CheckLinkPasskey, At
  <2>2. ~refused => \A t \in ShownBy(j) : tokens[t].live
    BY ZenonT(60), <2>1, Serving, ShownIs
  <2>3. ~Over(j)
    BY <2>1 DEF Over
  <2> HIDE DEF refused
  <2> QED BY <2>1, <2>2, <2>3, LookedCounts
<1>9. CASE CheckLinkKey(w)
  <2> DEFINE refused == ~(Live(j.token, {"device token"}) /\ Live(j.challenge, {"link key"}))
  <2>1. Look(w, refused, "discard") /\ j.op = "link" /\ j.at = "check"
    BY <1>9 DEF CheckLinkKey, At
  <2>2. ~refused => \A t \in ShownBy(j) : tokens[t].live
    BY <2>1, Serving, ShownIs
  <2>3. ~Over(j)
    BY <2>1 DEF Over
  <2> HIDE DEF refused
  <2> QED BY <2>1, <2>2, <2>3, LookedCounts
<1>10. CASE CheckAddPasskey(w)
  <2> DEFINE refused == ~OwnChallenge(w, "add passkey")
  <2>1. Look(w, refused, "discard") /\ j.op = "add" /\ j.at = "check"
    BY <1>10 DEF CheckAddPasskey, At
  <2>2. ~refused => \A t \in ShownBy(j) : tokens[t].live
    BY <2>1, Serving, ShownIs DEF OwnChallenge
  <2>3. ~Over(j)
    BY <2>1 DEF Over
  <2> HIDE DEF refused
  <2> QED BY <2>1, <2>2, <2>3, LookedCounts
<1>11. CASE CheckAddKey(w)
  <2> DEFINE refused == ~OwnChallenge(w, "add key")
  <2>1. Look(w, refused, "discard") /\ j.op = "add" /\ j.at = "check"
    BY <1>11 DEF CheckAddKey, At
  <2>2. ~refused => \A t \in ShownBy(j) : tokens[t].live
    BY <2>1, Serving, ShownIs DEF OwnChallenge
  <2>3. ~Over(j)
    BY <2>1 DEF Over
  <2> HIDE DEF refused
  <2> QED BY <2>1, <2>2, <2>3, LookedCounts
<1> QED BY <1>1, <1>2, <1>3, <1>4, <1>5, <1>6, <1>7, <1>8, <1>9, <1>10, <1>11

LEMMA AdmissionsCount ==
  ASSUME Inv, Counted, NEW w \in Threads
  PROVE  AdmitKeyLogin(w) \/ AdmitPasswordLogin(w) \/ AdmitUser(w) \/ CheckFactorNeeded(w)
         => Counted'
<1> DEFINE j == job[w]
<1>1. ASSUME j.at = "admit" \/ j.at = "needed" PROVE ~Over(j) /\ j.at # "check" /\ j.at # "none"
  BY <1>1 DEF Over
<1>2. CASE AdmitKeyLogin(w)
  <2>1. j.at = "admit"
    BY <1>2 DEF AdmitKeyLogin, At
  <2>2. CASE HoldersOf(j.key) = {}
    <3>1. Look(w, TRUE, "session")
      BY <1>2, <2>2 DEF AdmitKeyLogin
    <3> QED BY <1>1, <2>1, <3>1, LookedCounts
  <2>3. CASE HoldersOf(j.key) # {}
    <3>1. PICK u \in HoldersOf(j.key) :
            Remember(w, u \in banned \/ LockedOut(u), AfterFirstFactor(u, j.method), u)
      BY <1>2, <2>3 DEF AdmitKeyLogin
    <3> DEFINE refused == u \in banned \/ LockedOut(u)
               place == AfterFirstFactor(u, j.method)
    <3>2. place # "none"
      BY DEF AfterFirstFactor
    <3>3. \E saw : Remember(w, refused, place, saw)
      BY <3>1
    <3> HIDE DEF refused, place
    <3> QED BY <1>1, <2>1, <3>2, <3>3, LookedCounts
  <2> QED BY <2>2, <2>3
<1>3. CASE AdmitPasswordLogin(w)
  <2> DEFINE place == AfterFirstFactor(j.saw, "password")
  <2>1. Look(w, LockedOut(j.saw), place) /\ j.at = "admit"
    BY <1>3 DEF AdmitPasswordLogin, At
  <2>2. place # "none"
    BY DEF AfterFirstFactor
  <2> QED BY <1>1, <2>1, <2>2, LookedCounts
<1>4. CASE AdmitUser(w)
  <2> DEFINE place == IF j.op = "recovery token login" THEN "spend" ELSE "session"
             refused == User(w) \in banned \/ LockedOut(User(w))
  <2>1. Look(w, refused, place) /\ j.at = "admit"
    BY <1>4 DEF AdmitUser
  <2> HIDE DEF refused
  <2> QED BY <1>1, <2>1, LookedCounts
<1>5. CASE CheckFactorNeeded(w)
  <2> DEFINE refused == \/ "password" \in required /\ password[j.by] # NoPassword
                        \/ "pki" \in required /\ KeysOf(j.by) \cap PersonalKeys # {}
                        \/ "passkey" \in required /\ PasskeysOf(j.by) # {}
  <2>1. Look(w, refused, "drop") /\ j.at = "needed"
    BY <1>5 DEF CheckFactorNeeded, At
  <2> HIDE DEF refused
  <2> QED BY <1>1, <2>1, LookedCounts
<1> QED BY <1>2, <1>3, <1>4, <1>5

LEMMA StaysCount ==
  ASSUME Inv, Counted, NEW w \in Threads, job[w].at # "none", tokens' = tokens,
         \/ Respond(w)
         \/ /\ job[w].at \notin {"check", "session", "first key"}
            /\ \E place : place # "none" /\ Proceed(w, place)
  PROVE  Counted'
<1>1. CASE Respond(w)
  BY <1>1, DoneRightly, UnwrittenCounts
<1>2. CASE /\ job[w].at \notin {"check", "session", "first key"}
           /\ \E place : place # "none" /\ Proceed(w, place)
  <2>1. Pool /\ job[w] # Free
    BY Serving DEF Inv
  <2>2. Moves(w) /\ Rightly(w)
    BY <1>2, <2>1, Proceeding DEF Rightly, Over
  <2> QED BY <2>2, UnwrittenCounts
<1> QED BY <1>1, <1>2

LEMMA OtherWritesCount ==
  ASSUME Inv, Counted, NEW w \in Threads
  PROVE  Logout(w) \/ StoreSecret(w) \/ ProveSecret(w) \/ StampCode(w) \/ DeleteTotp(w)
         \/ RemovePasskey(w) \/ RemovePkiKey(w) \/ KeepFormer(w) \/ StorePassword(w)
         \/ DropPassword(w) \/ Ban(w) \/ Unban(w) \/ Lockdown(w) \/ Unlock(w)
         => Counted'
<1>1. CASE Logout(w) \/ StoreSecret(w) \/ DeleteTotp(w) \/ RemovePasskey(w) \/ RemovePkiKey(w)
           \/ StorePassword(w) \/ DropPassword(w) \/ Ban(w) \/ Unban(w) \/ Lockdown(w) \/ Unlock(w)
  <2>1. Respond(w) /\ tokens' = tokens /\ job[w].at # "none"
    BY <1>1 DEF Logout, StoreSecret, DeleteTotp, RemovePasskey, RemovePkiKey, StorePassword,
                DropPassword, Ban, Unban, Lockdown, Unlock, At
  <2> QED BY <2>1, StaysCount
<1>2. CASE ProveSecret(w)
  BY <1>2, StaysCount DEF ProveSecret
<1>3. CASE KeepFormer(w)
  BY <1>3, StaysCount DEF KeepFormer, At
<1>4. CASE StampCode(w)
  <2>1. /\ tokens' = tokens /\ job[w].at = "stamp"
        /\ Respond(w) \/ Proceed(w, "needed") \/ Proceed(w, "spend")
    BY <1>4 DEF StampCode
  <2> QED BY <2>1, StaysCount
<1> QED BY <1>1, <1>2, <1>3, <1>4

\* Every token of a step that serves nobody.
LEMMA KeptServedCounts ==
  ASSUME Inv, Inv', Counted, NEW w \in Threads, Moves(w), Rightly(w),
         \A t \in DOMAIN tokens' :
           \/ t \notin DOMAIN tokens /\ tokens'[t].live /\ tokens'[t].served = 0
           \/ /\ t \in DOMAIN tokens
              /\ tokens'[t].served = tokens[t].served
              /\ ~tokens[t].live => ~tokens'[t].live
  PROVE  Counted'
<1>1. tokens' \in Seq(TokenRows)
  BY DEF Inv, CredentialTypes
<1>2. CountsRight(w)
  BY UsingStays DEF CountsRight
<1> QED BY <1>1, <1>2, CountKept

LEMMA NewTokenIs ==
  ASSUME NEW kind, NEW u
  PROVE  NewToken(kind, u).live /\ NewToken(kind, u).served = 0
  BY DEF NewToken

LEMMA AppendCounts ==
  ASSUME Inv, Inv', Counted, NEW w \in Threads, job[w].at # "none", Respond(w), NEW kind, NEW u,
         tokens' = tokens \/ tokens' = Append(tokens, NewToken(kind, u))
  PROVE  Counted'
<1>1. Moves(w) /\ Rightly(w)
  BY DoneRightly
<1>2. CASE tokens' = tokens
  BY <1>1, <1>2, UnwrittenCounts
<1>3. CASE tokens' = Append(tokens, NewToken(kind, u))
  <2>1. tokens \in Seq(TokenRows)
    BY DEF Inv, CredentialTypes
  <2>2. /\ DOMAIN tokens' = DOMAIN tokens \cup {Len(tokens) + 1}
        /\ \A t \in DOMAIN tokens : tokens'[t] = tokens[t]
        /\ tokens'[Len(tokens) + 1] = NewToken(kind, u)
    BY <1>3, <2>1
  <2> QED BY <1>1, <2>2, NewTokenIs, KeptServedCounts
<1> QED BY <1>2, <1>3

LEMMA IssuesCount ==
  ASSUME Inv, Inv', Counted, NEW w \in Threads
  PROVE  LoginOptions(w) \/ PkiChallenge(w) \/ AddPasskeyOptions(w) \/ AddKeyChallenge(w)
         \/ DeviceToken(w) \/ LinkPasskeyOptions(w) \/ LinkKeyChallenge(w) \/ RecoveryToken(w)
         \/ FirstKey(w) \/ StoreRecoveryKeys(w)
         => Counted'
<1>1. SUFFICES ASSUME LoginOptions(w) \/ PkiChallenge(w) \/ AddPasskeyOptions(w) \/ AddKeyChallenge(w)
                      \/ DeviceToken(w) \/ LinkPasskeyOptions(w) \/ LinkKeyChallenge(w)
                      \/ RecoveryToken(w) \/ FirstKey(w) \/ StoreRecoveryKeys(w)
               PROVE  Counted'
  OBVIOUS
<1>2. Respond(w) /\ job[w].at # "none"
  BY <1>1 DEF LoginOptions, PkiChallenge, AddPasskeyOptions, AddKeyChallenge, DeviceToken,
              LinkPasskeyOptions, LinkKeyChallenge, RecoveryToken, FirstKey, StoreRecoveryKeys,
              Issue, At
<1>3. PICK kind, u : tokens' = tokens \/ tokens' = Append(tokens, NewToken(kind, u))
  BY <1>1 DEF LoginOptions, PkiChallenge, AddPasskeyOptions, AddKeyChallenge, DeviceToken,
              LinkPasskeyOptions, LinkKeyChallenge, RecoveryToken, FirstKey, StoreRecoveryKeys, Issue
<1> QED BY <1>2, <1>3, AppendCounts

LEMMA SpendsCount ==
  ASSUME Inv, Inv', Counted, NEW w \in Threads
  PROVE  DeletePendingToken(w) \/ ConsumeRecoveryKey(w) \/ UseRecoveryToken(w)
         \/ MarkDeviceTokenUsed(w) \/ SpendChallenge(w)
         => Counted'
<1>1. SUFFICES ASSUME DeletePendingToken(w) \/ ConsumeRecoveryKey(w) \/ UseRecoveryToken(w)
                      \/ MarkDeviceTokenUsed(w) \/ SpendChallenge(w)
               PROVE  Counted'
  OBVIOUS
<1>2. job[w].at \in {"spend", "discard"}
  BY <1>1 DEF DeletePendingToken, ConsumeRecoveryKey, UseRecoveryToken, MarkDeviceTokenUsed,
              SpendChallenge, At
<1>3. PICK x, place : Spend(w, x, place) /\ place # "none"
  <2>1. CASE DeletePendingToken(w)
    <3>1. Spend(w, job[w].token, "admit") /\ "admit" # "none"
      BY <2>1 DEF DeletePendingToken
    <3> QED BY <3>1
  <2>2. CASE ConsumeRecoveryKey(w)
    <3>1. Spend(w, job[w].token, "admit") /\ "admit" # "none"
      BY <2>2 DEF ConsumeRecoveryKey
    <3> QED BY <3>1
  <2>3. CASE UseRecoveryToken(w)
    <3>1. Spend(w, job[w].token, "session") /\ "session" # "none"
      BY <2>3 DEF UseRecoveryToken
    <3> QED BY <3>1
  <2>4. CASE MarkDeviceTokenUsed(w)
    <3>1. Spend(w, job[w].token, "store") /\ "store" # "none"
      BY <2>4 DEF MarkDeviceTokenUsed
    <3> QED BY <3>1
  <2>5. CASE SpendChallenge(w)
    <3> DEFINE next == CASE job[w].op = "login" -> "admit" [] job[w].op = "link" -> "spend"
                         [] OTHER -> "store"
    <3>1. Spend(w, job[w].challenge, next)
      BY <2>5 DEF SpendChallenge
    <3>2. next # "none"
      OBVIOUS
    <3> QED BY <3>1, <3>2
  <2> QED BY <1>1, <2>1, <2>2, <2>3, <2>4, <2>5
<1>4. Pool /\ job[w] # Free
  BY <1>2, Serving DEF Inv
<1>5. Moves(w) /\ Rightly(w)
  BY <1>2, <1>3, <1>4, Proceeding DEF Spend, Rightly, Over
<1>6. tokens' = [tokens EXCEPT ![x].live = FALSE]
  BY <1>3 DEF Spend
<1>7. tokens \in Seq(TokenRows)
  BY DEF Inv, CredentialTypes
<1>8. DOMAIN tokens' = DOMAIN tokens
  BY <1>6, <1>7
<1>9. \A t \in DOMAIN tokens : tokens'[t] = tokens[t] \/ tokens'[t] = [tokens[t] EXCEPT !.live = FALSE]
  BY <1>6, <1>7, Zenon
<1>10. \A t \in DOMAIN tokens :
         tokens'[t].served = tokens[t].served /\ (~tokens[t].live => ~tokens'[t].live)
  <2>1. ASSUME NEW t \in DOMAIN tokens
        PROVE  tokens'[t].served = tokens[t].served /\ (~tokens[t].live => ~tokens'[t].live)
    <3>1. tokens[t] \in TokenRows
      BY <1>7, Elements
    <3>2. /\ [tokens[t] EXCEPT !.live = FALSE].served = tokens[t].served
          /\ [tokens[t] EXCEPT !.live = FALSE].live = FALSE
      BY <3>1, RowChanged
    <3> QED BY <1>9, <3>2, Zenon
  <2> QED BY <2>1
<1> QED BY <1>5, <1>8, <1>10, KeptServedCounts

LEMMA RecoveryKeysCount ==
  ASSUME Inv, Inv', Counted, NEW w \in Threads
  PROVE  DropRecoveryKeys(w) => Counted'
<1> DEFINE j == job[w]
           gone == RecoveryKeysOf(j.by)
<1>1. SUFFICES ASSUME DropRecoveryKeys(w) PROVE Counted'
  OBVIOUS
<1>2. Proceed(w, "store keys") /\ j.op = "regenerate" /\ j.at = "check"
  BY <1>1 DEF DropRecoveryKeys, At
<1>3. tokens' = [t \in DOMAIN tokens |->
                   IF t \in gone THEN [tokens[t] EXCEPT !.live = FALSE] ELSE tokens[t]]
  BY <1>1 DEF DropRecoveryKeys
<1> HIDE DEF gone
<1>4. Pool /\ j # Free /\ Fields(j)
  BY <1>2, Serving DEF Inv
<1>5. ShownBy(j) = {} /\ ~Over(j)
  BY <1>2, <1>4 DEF ShownBy, Over, Fields, ShowToken, ByToken, TwoFactors
<1>6. Moves(w) /\ Rightly(w)
  BY <1>2, <1>4, <1>5, Proceeding DEF Rightly
<1>7. DOMAIN tokens' = DOMAIN tokens
  BY <1>3
<1>8. \A t \in DOMAIN tokens : tokens'[t] = tokens[t] \/ tokens'[t] = [tokens[t] EXCEPT !.live = FALSE]
  BY <1>3, Zenon
<1>9. \A t \in DOMAIN tokens :
        tokens'[t].served = tokens[t].served /\ (~tokens[t].live => ~tokens'[t].live)
  <2>1. ASSUME NEW t \in DOMAIN tokens
        PROVE  tokens'[t].served = tokens[t].served /\ (~tokens[t].live => ~tokens'[t].live)
    <3>1. tokens[t] \in TokenRows
      BY Elements DEF Inv, CredentialTypes
    <3>2. /\ [tokens[t] EXCEPT !.live = FALSE].served = tokens[t].served
          /\ [tokens[t] EXCEPT !.live = FALSE].live = FALSE
      BY <3>1, RowChanged
    <3> QED BY <1>8, <3>2, Zenon
  <2> QED BY <2>1
<1> QED BY <1>6, <1>7, <1>9, KeptServedCounts

\* The step that serves: of what it shows every token is spent, and it is the
\* last of this request that counts.
LEMMA ServedCounts ==
  ASSUME Inv, Inv', Counted, NEW w \in Threads, Moves(w),
         job[w].at \notin {"check", "none"}, ~Over(job[w]),
         \A t \in ShownBy(job[w]) : t \in DOMAIN tokens => ~tokens[t].live,
         \A t : w \notin Using(t)',
         \A t \in DOMAIN tokens' :
           \/ t \notin DOMAIN tokens /\ tokens'[t].live /\ tokens'[t].served = 0
           \/ /\ t \in DOMAIN tokens
              /\ tokens'[t].served = Served(w)[t].served
              /\ ~tokens[t].live => ~tokens'[t].live
  PROVE  Counted'
<1>1. job[w] # Free
  BY DEF Free
<1>2. ASSUME NEW t \in DOMAIN tokens, t \in ShownBy(job[w])
      PROVE  Served(w)[t].served = tokens[t].served + 1 /\ w \in Using(t)
  <2>1. Served(w)[t] = [tokens[t] EXCEPT !.served = @ + 1]
    BY <1>2 DEF Served, ShownBy
  <2>2. tokens[t] \in TokenRows
    BY Elements DEF Inv, CredentialTypes
  <2>3. Served(w)[t].served = tokens[t].served + 1
    BY <2>1, <2>2, RowChanged
  <2> QED BY <1>1, <1>2, <2>3 DEF Using, Engaged
<1>3. ASSUME NEW t \in DOMAIN tokens, t \notin ShownBy(job[w])
      PROVE  Served(w)[t].served = tokens[t].served
  BY <1>3 DEF Served, ShownBy
<1>4. CountsRight(w)
  BY <1>2, <1>3 DEF CountsRight
<1>5. tokens' \in Seq(TokenRows)
  BY DEF Inv, CredentialTypes
<1> QED BY <1>4, <1>5, CountKept

LEMMA SessionsCount ==
  ASSUME Inv, Inv', Counted, NEW w \in Threads
  PROVE  CreateSession(w) => Counted'
<1> DEFINE j == job[w]
<1>1. SUFFICES ASSUME CreateSession(w) PROVE Counted'
  OBVIOUS
<1>2. j.at = "session" /\ Respond(w)
  BY <1>1 DEF CreateSession
<1>3. /\ Fields(j) /\ FitsAt(j, "session", j.saw) /\ SpentAt(j, "session")
      /\ j.op \in ByToken \cup {"login", "link"}
  BY <1>2, Serving DEF FitsAt
<1>4. CASE j.op = "link"
  <2>1. tokens' = tokens
    BY <1>1, <1>4 DEF CreateSession
  <2> QED BY <1>2, <2>1, StaysCount
<1>5. CASE j.op # "link"
  <2>1. tokens' = Served(w)
    BY <1>1, <1>5 DEF CreateSession
  <2>2. ~Over(j)
    BY <1>2, <1>5 DEF Over
  <2>3. \A t \in ShownBy(j) : ~tokens[t].live
    BY <1>3, <1>5, ShownIs DEF SpentAt, Fields, ShowToken, ByToken, TwoFactors
  <2>4. Moves(w) /\ \A t : w \notin Using(t)'
    BY <1>2, DoneRightly
  <2>5. DOMAIN tokens' = DOMAIN tokens
    BY <2>1 DEF Served
  <2>6. \A t \in DOMAIN tokens : tokens'[t].live = tokens[t].live
    BY <2>1, ServedGrows
  <2> QED BY <1>2, <2>1, <2>2, <2>3, <2>4, <2>5, <2>6, ServedCounts
<1> QED BY <1>4, <1>5

LEMMA PendingCounts ==
  ASSUME Inv, Inv', Counted, NEW w \in Threads
  PROVE  AwaitSecondFactor(w) => Counted'
<1> DEFINE j == job[w]
           earlier == {t \in DOMAIN tokens : tokens[t].kind = "second factor" /\ tokens[t].of = j.saw}
           served == Served(w)
           r == [t \in DOMAIN tokens |->
                   IF t \in earlier THEN [served[t] EXCEPT !.live = FALSE] ELSE served[t]]
<1>1. SUFFICES ASSUME AwaitSecondFactor(w) PROVE Counted'
  OBVIOUS
<1>2. tokens' = Append(r, NewToken("second factor", j.saw))
  BY <1>1 DEF AwaitSecondFactor
<1>3. Respond(w) /\ j.op = "login" /\ j.at = "second factor"
  BY <1>1 DEF AwaitSecondFactor, At
<1>4. ~Over(j) /\ \A t \in ShownBy(j) : ~tokens[t].live
  BY <1>3, Serving, ShownIs DEF Over, SpentAt, Fields, ShowToken, ByToken, TwoFactors
<1>5. Moves(w) /\ \A t : w \notin Using(t)'
  BY <1>3, DoneRightly
<1>6. CredentialTypes
  BY DEF Inv
<1>7. /\ served \in Seq(TokenRows) /\ Len(served) = Len(tokens)
      /\ \A t \in DOMAIN tokens :
           /\ served[t] \in TokenRows
           /\ served[t].of = tokens[t].of /\ (~tokens[t].live => ~served[t].live)
  BY <1>6, ServedRows
<1> HIDE DEF served, earlier
<1>8. /\ r \in Seq(TokenRows) /\ Len(r) = Len(tokens)
      /\ \A t \in DOMAIN tokens : ~tokens[t].live => ~r[t].live
  BY <1>7, Withdrawn
<1>9. \A t \in DOMAIN tokens : r[t].served = served[t].served
  <2>1. ASSUME NEW t \in DOMAIN tokens PROVE r[t].served = served[t].served
    <3>1. r[t] = served[t] \/ r[t] = [served[t] EXCEPT !.live = FALSE]
      BY Zenon
    <3>2. [served[t] EXCEPT !.live = FALSE].served = served[t].served
      BY <1>7, RowChanged
    <3> QED BY <3>1, <3>2, Zenon
  <2> QED BY <2>1
<1> HIDE DEF r
<1>10. DOMAIN tokens = 1 .. Len(tokens) /\ Len(tokens) \in Nat
  BY <1>6, Elements DEF CredentialTypes
<1>11. /\ DOMAIN tokens' = DOMAIN tokens \cup {Len(tokens) + 1}
       /\ \A t \in DOMAIN tokens : tokens'[t] = r[t]
       /\ tokens'[Len(tokens) + 1] = NewToken("second factor", j.saw)
       /\ Len(tokens) + 1 \notin DOMAIN tokens
  <2>1. /\ DOMAIN tokens' = DOMAIN r \cup {Len(r) + 1} /\ Len(r) + 1 \notin DOMAIN r
        /\ \A i \in DOMAIN r : tokens'[i] = r[i]
        /\ tokens'[Len(r) + 1] = NewToken("second factor", j.saw)
    <3> DEFINE e == NewToken("second factor", j.saw)
               longer == tokens'
    <3>1. longer = Append(r, e) /\ r \in Seq(TokenRows)
      BY <1>2, <1>8
    <3> HIDE DEF e, longer
    <3>2. /\ DOMAIN longer = DOMAIN r \cup {Len(r) + 1} /\ Len(r) + 1 \notin DOMAIN r
          /\ \A i \in DOMAIN r : longer[i] = r[i]
          /\ longer[Len(r) + 1] = e
      BY <3>1, OneMore
    <3> QED BY <3>2 DEF e, longer
  <2>2. DOMAIN r = DOMAIN tokens /\ Len(r) = Len(tokens)
    BY <1>8, <1>10, Elements
  <2> QED BY <2>1, <2>2
<1>12. \A t \in DOMAIN tokens' :
         \/ t \notin DOMAIN tokens /\ tokens'[t].live /\ tokens'[t].served = 0
         \/ /\ t \in DOMAIN tokens
            /\ tokens'[t].served = Served(w)[t].served
            /\ ~tokens[t].live => ~tokens'[t].live
  <2>1. ASSUME NEW t \in DOMAIN tokens
        PROVE  /\ tokens'[t].served = Served(w)[t].served
               /\ ~tokens[t].live => ~tokens'[t].live
    BY <1>8, <1>9, <1>11, <2>1, Zenon DEF served
  <2>2. /\ Len(tokens) + 1 \notin DOMAIN tokens
        /\ tokens'[Len(tokens) + 1].live /\ tokens'[Len(tokens) + 1].served = 0
    <3>1. /\ NewToken("second factor", j.saw).live
          /\ NewToken("second factor", j.saw).served = 0
      BY NewTokenIs
    <3> QED BY <1>11, <3>1, Zenon
  <2> QED BY <1>11, <2>1, <2>2
<1> QED BY <1>3, <1>4, <1>5, <1>12, ServedCounts

LEMMA StoredCounts ==
  ASSUME Inv, Inv', Counted, NEW w \in Threads
  PROVE  StorePasskey(w) \/ StorePkiKey(w) => Counted'
<1> DEFINE j == job[w]
<1>1. SUFFICES ASSUME StorePasskey(w) \/ StorePkiKey(w) PROVE Counted'
  OBVIOUS
<1>2. j.at = "store"
  BY <1>1 DEF StorePasskey, StorePkiKey
<1>3. /\ Fields(j) /\ FitsAt(j, "store", j.saw) /\ SpentAt(j, "store")
      /\ j.op \in {"link", "add"} /\ j # Free /\ Pool
  BY <1>2, Serving DEF FitsAt, Inv
<1>4. \/ Respond(w) /\ tokens' = tokens
      \/ /\ tokens' = Served(w)
         /\ \/ Respond(w)
            \/ j.op = "link" /\ Proceed(w, "session")
            \/ j.op # "link" /\ Proceed(w, "first key")
  <2>1. CASE StorePasskey(w)
    BY <2>1 DEF StorePasskey, StoreKey
  <2>2. CASE StorePkiKey(w)
    BY <2>2 DEF StorePkiKey, StoreKey
  <2> QED BY <1>1, <2>1, <2>2
<1>5. CASE Respond(w) /\ tokens' = tokens
  BY <1>2, <1>5, StaysCount
<1>6. CASE /\ tokens' = Served(w)
           /\ \/ Respond(w)
              \/ j.op = "link" /\ Proceed(w, "session")
              \/ j.op # "link" /\ Proceed(w, "first key")
  <2>1. Moves(w) /\ \A t : w \notin Using(t)'
    <3>1. CASE Respond(w)
      BY <1>2, <3>1, DoneRightly
    <3>2. CASE j.op = "link" /\ Proceed(w, "session")
      <4>1. Moves(w) /\ job'[w].at = "session" /\ job'[w].op = "link"
        BY ZenonT(60), <1>3, <3>2, Proceeding DEF Fields
      <4> QED BY <4>1 DEF Using, Over
    <3>3. CASE j.op # "link" /\ Proceed(w, "first key")
      <4>1. Moves(w) /\ job'[w].at = "first key" /\ job'[w].op = "add"
        BY ZenonT(60), <1>3, <3>3, Proceeding DEF Fields
      <4> QED BY <4>1 DEF Using, Over
    <3> QED BY <1>6, <3>1, <3>2, <3>3
  <2>2. ~Over(j)
    BY <1>2 DEF Over
  <2>3. \A t \in ShownBy(j) : ~tokens[t].live
    BY <1>3, ShownIs DEF SpentAt, Fields, ShowToken, ByToken, TwoFactors
  <2>4. DOMAIN tokens' = DOMAIN tokens
    BY <1>6 DEF Served
  <2>5. \A t \in DOMAIN tokens : tokens'[t].live = tokens[t].live
    BY <1>6, ServedGrows
  <2> QED BY <1>2, <1>6, <2>1, <2>2, <2>3, <2>4, <2>5, ServedCounts
<1> QED BY <1>4, <1>5, <1>6

LEMMA TakeUpCounts ==
  ASSUME Inv, Counted, NEW w \in Threads
  PROVE  TakeUp(w) => Counted'
<1> DEFINE R == {r \in calls.requests : NamesTokens(r)}
<1>1. SUFFICES ASSUME TakeUp(w) PROVE Counted'
  OBVIOUS
<1>2. Accept(w, R) /\ tokens' = tokens
  BY <1>1 DEF TakeUp, credentialState, authTables
<1>3. Pool /\ Plain(calls.requests)
  BY RequestFields DEF Inv, Plain
<1>4. /\ job[w] = Free /\ job'[w].at = "check" /\ calls'.atOnce = calls.atOnce
      /\ \A v \in Threads \ {w} : job'[v] = job[v]
  BY <1>2, <1>3, AcceptKeepsPool
<1>5. \A t : Using(t)' = Using(t)
  BY <1>4 DEF Using, Engaged
<1> QED BY <1>2, <1>4, <1>5 DEF Counted

LEMMA NextCounts ==
  Inv /\ Inv' /\ Counted /\ [NextCredentials]_credentialVars => Counted'
<1>1. SUFFICES ASSUME Inv, Inv', Counted, [NextCredentials]_credentialVars PROVE Counted'
  OBVIOUS
<1>2. CASE Tick \/ UNCHANGED credentialVars
  <2>1. UNCHANGED <<tokens, job, calls>>
    BY <1>2 DEF Tick, credentialVars, credentialState, authTables, serving
  <2> QED BY <1>1, <2>1 DEF Counted, Using, Engaged
<1>3. ASSUME NEW w \in Threads, TakeUp(w) PROVE Counted'
  BY <1>1, <1>3, TakeUpCounts
<1>4. ASSUME NEW w \in Threads,
             \/ LoginOptions(w) \/ PkiChallenge(w) \/ AddPasskeyOptions(w) \/ AddKeyChallenge(w)
             \/ DeviceToken(w) \/ LinkPasskeyOptions(w) \/ LinkKeyChallenge(w) \/ RecoveryToken(w)
             \/ FirstKey(w) \/ StoreRecoveryKeys(w)
      PROVE  Counted'
  BY <1>1, <1>4, IssuesCount
<1>5. ASSUME NEW w \in Threads,
             \/ DeletePendingToken(w) \/ ConsumeRecoveryKey(w) \/ UseRecoveryToken(w)
             \/ MarkDeviceTokenUsed(w) \/ SpendChallenge(w)
      PROVE  Counted'
  BY <1>1, <1>5, SpendsCount
<1>6. ASSUME NEW w \in Threads,
             AdmitKeyLogin(w) \/ AdmitPasswordLogin(w) \/ AdmitUser(w) \/ CheckFactorNeeded(w)
      PROVE  Counted'
  BY <1>1, <1>6, AdmissionsCount
<1>7. ASSUME NEW w \in Threads,
             AwaitSecondFactor(w) \/ DropRecoveryKeys(w) \/ CreateSession(w)
      PROVE  Counted'
  BY <1>1, <1>7, PendingCounts, RecoveryKeysCount, SessionsCount
<1>8. ASSUME NEW w \in Threads, StorePasskey(w) \/ StorePkiKey(w) PROVE Counted'
  BY <1>1, <1>8, StoredCounts
<1>9. ASSUME NEW w \in Threads,
             \/ CheckLoginVerify(w) \/ CheckPkiLogin(w) \/ CheckMfaVerify(w) \/ CheckMfaSetup(w)
             \/ CheckMfaSetupVerify(w) \/ CheckRecoveryKey(w) \/ CheckRecoveryToken(w)
             \/ CheckLinkPasskey(w) \/ CheckLinkKey(w) \/ CheckAddPasskey(w) \/ CheckAddKey(w)
      PROVE  Counted'
  BY <1>1, <1>9, TokenChecksCount
<1>10. ASSUME NEW w \in Threads,
              \/ CheckPasswordLogin(w) \/ CheckTotpSetup(w) \/ CheckTotpVerify(w)
              \/ CheckTotpDisable(w) \/ RefuseRegenerate(w) \/ CheckRemovePasskey(w)
              \/ CountPasskeys(w) \/ CheckRemoveKey(w) \/ CheckPasswordChange(w) \/ CheckPasswordSet(w)
              \/ CheckPasswordDelete(w) \/ CheckBan(w) \/ CheckUnban(w)
       PROVE  Counted'
  BY <1>1, <1>10, PlainChecksCount
<1>11. ASSUME NEW w \in Threads,
              \/ Logout(w) \/ StoreSecret(w) \/ ProveSecret(w) \/ StampCode(w) \/ DeleteTotp(w)
              \/ RemovePasskey(w) \/ RemovePkiKey(w) \/ KeepFormer(w) \/ StorePassword(w)
              \/ DropPassword(w) \/ Ban(w) \/ Unban(w) \/ Lockdown(w) \/ Unlock(w)
       PROVE  Counted'
  BY <1>1, <1>11, OtherWritesCount
<1> QED
  BY <1>1, <1>2, <1>3, <1>4, <1>5, <1>6, <1>7, <1>8, <1>9, <1>10, <1>11, Zenon DEF NextCredentials

LEMMA InitCounts ==
  InitCredentials => Counted
<1>1. SUFFICES ASSUME InitCredentials PROVE Counted
  OBVIOUS
<1>2. PICK s \in CredentialScenarios : CredentialTables(s) /\ Listening(s)
  BY <1>1 DEF InitCredentials
<1>3. \A t \in DOMAIN tokens : tokens[t].served = 0
  <2>1. tokens = s.tokens
    BY <1>2 DEF CredentialTables
  <2> QED BY <2>1, CredentialAssumption
<1>4. Pool
  BY <1>1, InitKept DEF Inv
<1>5. \A t : Cardinality(Using(t)) \in Nat /\ Cardinality(Using(t)) <= calls.atOnce
  BY <1>4, UsingFinite
<1> QED BY <1>3, <1>5 DEF Counted

\* However many requests show one challenge, token or code, no more are let in by
\* it than overlap, and of requests that do not overlap one: what is looked at is
\* spent before anything comes of it, and a code is noted before a session does.
THEOREM EachServesOnce == CredentialSpec => []ServedOnce
<1>1. InitCredentials => Inv /\ Counted
  BY InitKept, InitCounts
<1>2. (Inv /\ Counted) /\ [NextCredentials]_credentialVars => (Inv /\ Counted)'
  BY NextKept, NextCounts
<1>3. Inv /\ Counted => ServedOnce
  <2>1. SUFFICES ASSUME Inv, Counted PROVE ServedOnce
    OBVIOUS
  <2>2. ASSUME NEW t \in DOMAIN tokens PROVE tokens[t].served <= calls.atOnce
    <3>1. tokens[t].served \in Nat
      <4>1. tokens[t] \in TokenRows
        BY <2>1, Elements DEF Inv, CredentialTypes
      <4> QED BY <4>1, RowChanged
    <3>2. Cardinality(Using(t)) \in Nat /\ calls.atOnce \in Nat
      BY <2>1, UsingFinite DEF Inv, Pool
    <3>3. CASE tokens[t].live
      <4>1. tokens[t].served = 0
        BY <2>1, <3>3 DEF Counted
      <4> QED BY <3>2, <4>1
    <3>4. CASE ~tokens[t].live
      <4>1. tokens[t].served + Cardinality(Using(t)) <= calls.atOnce
        BY <2>1, <3>4 DEF Counted
      <4> QED BY <3>1, <3>2, <4>1
    <3> QED BY <3>3, <3>4
  <2>3. OneAtATime => CodesDiffer
    BY <2>1 DEF Inv, InTurn
  <2> QED BY <2>2, <2>3 DEF ServedOnce, CodesDiffer
<1> QED BY <1>1, <1>2, <1>3, PTL DEF CredentialSpec

===============================================================================
