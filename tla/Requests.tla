------------------------------ MODULE Requests ------------------------------
(***************************************************************************)
(* What the REST handlers have in common: a request reaches the loop, is   *)
(* queued and served by one worker of the pool, from its first check of    *)
(* the database to its answer.  Other workers serve other requests in      *)
(* between: every statement the handler sends is a transaction of its own. *)
(*                                                                         *)
(* A module that EXTENDS this one has an action for every transaction that *)
(* writes, and for every read that comes after a write or whose result a   *)
(* later write trusts.  A worker's job is the request, the place it has    *)
(* reached in the handler and what it remembers of its reads.              *)
(***************************************************************************)
EXTENDS Naturals, FiniteSets

CONSTANT Threads

VARIABLES
  job,      \* what a worker serves
  calls     \* what may still be asked: a set of requests, how many of them,
            \* and how many at once

serving == <<job, calls>>

Free == [op |-> "none", at |-> "none"]

\* The bounds are calls.budget and calls.atOnce.
Listening(s) ==
  /\ job = [w \in Threads |-> Free]
  /\ calls = [requests |-> s.requests, budget |-> s.budget, atOnce |-> s.atOnce]

Engaged == {w \in Threads : job[w] # Free}

\* A worker takes one of the requests that name rows which exist.
Accept(w, requests) ==
  /\ job[w] = Free
  /\ Cardinality(Engaged) < calls.atOnce
  /\ calls.budget > 0
  /\ \E r \in requests :
       job' = [job EXCEPT ![w] =
         [f \in DOMAIN r \cup {"at", "saw"} |->
            IF f = "at" THEN "check" ELSE IF f = "saw" THEN 0 ELSE r[f]]]
  /\ calls' = [calls EXCEPT !.budget = @ - 1]

At(w, op, place) == job[w].op = op /\ job[w].at = place

\* The handler goes on, remembering what it has read, or answers.
Proceed(w, place) == job' = [job EXCEPT ![w].at = place] /\ UNCHANGED calls
Recall(w, place, saw) ==
  /\ job' = [job EXCEPT ![w].at = place, ![w].saw = saw]
  /\ UNCHANGED calls
Respond(w) == job' = [job EXCEPT ![w] = Free] /\ UNCHANGED calls
Unless(w, refused, place) == IF refused THEN Respond(w) ELSE Proceed(w, place)

\* Nothing is being served: what every handler has done is done.
AtRest == Engaged = {}
\* No two requests have ever overlapped.
OneAtATime == calls.atOnce = 1
=============================================================================
