------------------------------ MODULE MCMessages ------------------------------
(* Messages for TLC: two instances; a member, a member who is a server      *)
(* admin and an owner who is no member.                                     *)
EXTENDS Messages

CONSTANTS i1, i2, alice, bob, carol, a1, b1, c1, f1, f2, f3, f4

MCUserOf == a1 :> alice @@ b1 :> bob @@ c1 :> carol
MCHomeOf == a1 :> i1 @@ b1 :> i2 @@ c1 :> i1
MCSessionOf ==
  [f \in {f1, f2} |-> [nth |-> 1, user |-> alice]]
    @@ f3 :> [nth |-> 2, user |-> bob] @@ f4 :> [nth |-> 3, user |-> carol]
MCRoles == alice :> "write" @@ bob :> "read" @@ carol :> ""
MCRanks == alice :> "user" @@ bob :> "admin" @@ carol :> "owner"

Budget(spent) == [k \in Kinds |-> IF k \in DOMAIN spent THEN spent[k] ELSE 0]
Scenario(direct, tabs, contents, spent) ==
  [direct |-> direct, tabs |-> tabs, contents |-> contents, budget |-> Budget(spent)]

(* A mention of everyone and a loss; a reply, in a channel and in a direct  *)
(* one; an edit or a deletion of a message by either; reactions; two read   *)
(* receipts, and two of one tab for two messages; an upload and its         *)
(* deletion; an upload completed twice, or two uploads; the checks.         *)
MCScenarios ==
  {Scenario(FALSE, Tabs, {<<Everyone, bob>>}, "send" :> 1 @@ "loss" :> 1),
   Scenario(FALSE, Tabs, {<<bob>>}, "send" :> 2),
   Scenario(TRUE, Tabs, {<<>>, <<bob>>}, "send" :> 2),
   Scenario(FALSE, Tabs, {<<>>}, "send" :> 1 @@ "edit" :> 1 @@ "delete" :> 2),
   Scenario(FALSE, Tabs, {<<>>}, "send" :> 1 @@ "react" :> 2),
   Scenario(FALSE, Tabs, {<<bob>>}, "send" :> 1 @@ "read" :> 2),
   Scenario(FALSE, {b1}, {<<>>}, "send" :> 2 @@ "read" :> 2),
   Scenario(FALSE, Tabs, {<<>>}, "upload" :> 1 @@ "delete" :> 2 @@ "abort" :> 1),
   Scenario(FALSE, Tabs, {<<>>}, "upload" :> 2 @@ "delete" :> 1 @@ "abort" :> 1),
   Scenario(FALSE, Tabs, {<<>>}, "send" :> 1 @@ "archive" :> 1 @@ "role" :> 1)}
=============================================================================
