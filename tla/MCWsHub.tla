------------------------------- MODULE MCWsHub -------------------------------
(* TLC instances of WsHub: the tabs, the rooms and the scenarios of its runs. *)
EXTENDS WsHub, TLC

CONSTANTS i1, i2, w1, w2, alice, tab1, tab2, lobby, attic

Nothing == [k \in Kinds |-> 0]

AliceTabs == [s \in Sockets |-> alice]

\* There is a lobby, with Alice in it or not, and no attic yet.
EmptyLobby == lobby :> {}
AlicesLobby == lobby :> {alice}

(* Two tabs connect while a member is added or removed.                    *)
Join == [Nothing EXCEPT !["connect"] = 2, !["member"] = 1]
(* One tab beside every other event.                                       *)
Create == [Nothing EXCEPT !["connect"] = 1, !["room"] = 1]
Outage == [Nothing EXCEPT !["connect"] = 1, !["ban"] = 1, !["redis"] = 1, !["crash"] = 1]
Rules == [Nothing EXCEPT !["connect"] = 1, !["lockdown"] = 2, !["role"] = 1]
Page == [Nothing EXCEPT !["connect"] = 1, !["member"] = 1, !["wiki"] = 1]
Remade == [Nothing EXCEPT !["room"] = 2]
(* A membership that ends and is made again, or that meets an outage and a crash. *)
Rejoin == [Nothing EXCEPT !["connect"] = 1, !["member"] = 2]
Lapse == [Nothing EXCEPT !["connect"] = 1, !["member"] = 1, !["redis"] = 1, !["crash"] = 1]
Scenarios == {Join, Create, Outage, Rules, Page, Remade, Rejoin, Lapse}

Reach == {[Nothing EXCEPT !["connect"] = 1, !["ban"] = 1, !["lockdown"] = 1]}
Removal == {[Nothing EXCEPT !["connect"] = 1, !["member"] = 1]}
BanOnly == {[Nothing EXCEPT !["connect"] = 1, !["ban"] = 1]}

Symmetric == Permutations(Workers) \cup Permutations(Instances) \cup Permutations(Sockets)
=============================================================================
