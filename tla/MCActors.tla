------------------------------- MODULE MCActors -------------------------------
(* Who acts in the scenarios of the request handlers.                        *)
EXTENDS TLC

CONSTANTS alice, bob, carol, w1, w2

MCWorkers == {w1, w2}
MCPeople == {alice, bob}
MCLibrarians == {alice}

Two(a, b) == alice :> a @@ bob :> b
Three(a, b, c) == Two(a, b) @@ carol :> c
=============================================================================
