---------------------------- MODULE RequestsProofs ----------------------------
(***************************************************************************)
(* What the pool of Requests guarantees every module built on it: who is   *)
(* engaged serves a request that was asked, and no more are engaged than   *)
(* may be at once.                                                         *)
(***************************************************************************)
EXTENDS Requests, Sequences, FiniteSetTheorems, TLAPS

\* The request that a job serves, and the fields that the handler adds to it.
Asked(j) == [f \in DOMAIN j \ {"at", "saw"} |-> j[f]]
IsJob(j) == {"at", "saw"} \subseteq DOMAIN j /\ j = [f \in DOMAIN j |-> j[f]]

Pool ==
  /\ job = [w \in Threads |-> job[w]]
  /\ \A w \in Engaged : IsJob(job[w]) /\ Asked(job[w]) \in calls.requests /\ job[w].at # "none"
  /\ IsFiniteSet(Engaged) /\ Cardinality(Engaged) <= calls.atOnce
  /\ calls.atOnce \in Nat \ {0}

\* What may be asked has no field of a handler's own.
Plain(requests) ==
  \A r \in requests : r = [f \in DOMAIN r |-> r[f]] /\ {"at", "saw"} \cap DOMAIN r = {}

\* Worker w goes on, or is done.
Moves(w) ==
  /\ job[w] # Free
  /\ calls' = calls
  /\ job' = [job EXCEPT ![w] = job'[w]]
  /\ \/ job'[w] = Free
     \/ /\ IsJob(job'[w]) /\ Asked(job'[w]) = Asked(job[w])
        /\ job'[w].at # "none"

LEMMA AskedField ==
  ASSUME NEW j, NEW f \in DOMAIN Asked(j)
  PROVE  j[f] = Asked(j)[f] /\ f \in DOMAIN j
  BY DEF Asked

\* Two jobs that serve one request have the same fields.
LEMMA SameAsked ==
  ASSUME NEW j, NEW k, Asked(j) = Asked(k), NEW f \in DOMAIN j, f \notin {"at", "saw"}
  PROVE  f \in DOMAIN k /\ k[f] = j[f]
<1>1. f \in DOMAIN Asked(j) /\ Asked(j)[f] = j[f]
  BY DEF Asked
<1>2. f \in DOMAIN Asked(k) /\ Asked(k)[f] = k[f]
  BY <1>1 DEF Asked
<1> QED BY <1>1, <1>2 DEF Asked

LEMMA PoolStarts ==
  ASSUME NEW s, Listening(s), s.atOnce \in Nat \ {0}
  PROVE  Pool /\ calls.requests = s.requests /\ calls.atOnce = s.atOnce
<1>1. Engaged = {}
  BY DEF Listening, Engaged
<1>2. IsFiniteSet({}) /\ Cardinality({}) = 0
  BY FS_EmptySet
<1> QED BY <1>1, <1>2 DEF Listening, Pool

LEMMA AcceptKeepsPool ==
  ASSUME Pool, Plain(calls.requests), NEW w \in Threads,
         NEW R \in SUBSET calls.requests, Accept(w, R)
  PROVE  /\ Pool'
         /\ job[w] = Free /\ IsJob(job'[w]) /\ job'[w].at = "check"
         /\ Asked(job'[w]) \in R
         /\ \A v \in Threads \ {w} : job'[v] = job[v]
         /\ calls'.requests = calls.requests /\ calls'.atOnce = calls.atOnce
<1>1. PICK r \in R :
        job' = [job EXCEPT ![w] =
          [f \in DOMAIN r \cup {"at", "saw"} |->
             IF f = "at" THEN "check" ELSE IF f = "saw" THEN 0 ELSE r[f]]]
  BY DEF Accept
<1>2. /\ job'[w] = [f \in DOMAIN r \cup {"at", "saw"} |->
                      IF f = "at" THEN "check" ELSE IF f = "saw" THEN 0 ELSE r[f]]
      /\ \A v \in Threads \ {w} : job'[v] = job[v]
      /\ job' = [v \in Threads |-> job'[v]]
  BY <1>1 DEF Pool
<1>3. r = [f \in DOMAIN r |-> r[f]] /\ {"at", "saw"} \cap DOMAIN r = {}
  BY DEF Plain
<1>4. IsJob(job'[w]) /\ job'[w].at = "check"
  BY <1>2 DEF IsJob
<1>5. Asked(job'[w]) = r
  BY <1>2, <1>3 DEF Asked
<1>6. calls'.requests = calls.requests /\ calls'.atOnce = calls.atOnce
  BY DEF Accept
<1>7. job[w] = Free /\ Cardinality(Engaged) < calls.atOnce
  BY DEF Accept
<1>8. job'[w] # Free
  BY <1>4 DEF Free
<1>9. Engaged' = Engaged \cup {w} /\ w \notin Engaged
  BY <1>2, <1>7, <1>8 DEF Engaged
<1>10. IsFiniteSet(Engaged') /\ Cardinality(Engaged') = Cardinality(Engaged) + 1
  BY <1>9, FS_AddElement DEF Pool
<1>11. Cardinality(Engaged) \in Nat
  BY FS_CardinalityType DEF Pool
<1>12. Cardinality(Engaged') <= calls'.atOnce /\ calls'.atOnce \in Nat \ {0}
  BY <1>6, <1>7, <1>10, <1>11 DEF Pool
<1>13. ASSUME NEW v \in Engaged'
       PROVE  IsJob(job'[v]) /\ Asked(job'[v]) \in calls'.requests /\ job'[v].at # "none"
  <2>1. CASE v = w
    BY <2>1, <1>4, <1>5, <1>6
  <2>2. CASE v # w
    <3>1. v \in Engaged /\ job'[v] = job[v]
      BY <2>2, <1>2, <1>9 DEF Engaged
    <3> QED BY <3>1, <1>6 DEF Pool
  <2> QED BY <2>1, <2>2
<1> QED BY <1>2, <1>4, <1>5, <1>6, <1>7, <1>10, <1>12, <1>13 DEF Pool

LEMMA MoveKeepsPool ==
  ASSUME Pool, NEW w \in Threads, Moves(w)
  PROVE  /\ Pool'
         /\ \A v \in Threads \ {w} : job'[v] = job[v]
         /\ Engaged' \subseteq Engaged
<1>1. \A v \in Threads \ {w} : job'[v] = job[v]
  BY DEF Pool, Moves
<1>2. job' = [v \in Threads |-> job'[v]]
  BY DEF Pool, Moves
<1>3. Engaged' \subseteq Engaged
  BY <1>1 DEF Engaged, Moves
<1>4. IsFiniteSet(Engaged') /\ Cardinality(Engaged') <= Cardinality(Engaged)
  BY <1>3, FS_Subset DEF Pool
<1>5. Cardinality(Engaged') <= calls'.atOnce /\ calls'.atOnce \in Nat \ {0}
  <2>1. Cardinality(Engaged) \in Nat /\ Cardinality(Engaged') \in Nat
    BY <1>4, FS_CardinalityType DEF Pool
  <2> QED BY <1>4, <2>1 DEF Pool, Moves
<1>6. ASSUME NEW v \in Engaged'
      PROVE  IsJob(job'[v]) /\ Asked(job'[v]) \in calls'.requests /\ job'[v].at # "none"
  <2>1. v \in Engaged
    BY <1>3
  <2>2. CASE v # w
    <3>1. job'[v] = job[v]
      BY <2>2, <1>1 DEF Engaged
    <3> QED BY <2>1, <3>1 DEF Pool, Moves
  <2>3. CASE v = w
    <3>1. job'[w] # Free
      BY <2>3 DEF Engaged
    <3> QED BY <2>1, <2>3, <3>1 DEF Pool, Moves
  <2> QED BY <2>2, <2>3
<1> QED BY <1>1, <1>2, <1>3, <1>4, <1>5, <1>6 DEF Pool

-----------------------------------------------------------------------------
(* How a handler goes on *)

LEMMA Proceeding ==
  ASSUME Pool, NEW w \in Threads, job[w] # Free, NEW place, place # "none", Proceed(w, place)
  PROVE  /\ Moves(w)
         /\ job'[w] = [job[w] EXCEPT !.at = place]
         /\ job'[w].at = place /\ DOMAIN job'[w] = DOMAIN job[w]
         /\ \A f \in DOMAIN job[w] \ {"at"} : job'[w][f] = job[w][f]
<1>1. IsJob(job[w])
  BY DEF Pool, Engaged
<1>2. job'[w] = [job[w] EXCEPT !.at = place]
  BY DEF Pool, Proceed
<1>3. /\ job'[w].at = place /\ DOMAIN job'[w] = DOMAIN job[w]
      /\ \A f \in DOMAIN job[w] \ {"at"} : job'[w][f] = job[w][f]
  BY <1>1, <1>2 DEF IsJob
<1>4. IsJob(job'[w])
  BY <1>1, <1>2 DEF IsJob
<1>5. Asked(job'[w]) = Asked(job[w])
  BY <1>3 DEF Asked
<1>6. job' = [job EXCEPT ![w] = job'[w]] /\ calls' = calls
  BY <1>2 DEF Pool, Proceed
<1> QED BY <1>2, <1>3, <1>4, <1>5, <1>6 DEF Moves

LEMMA Recalling ==
  ASSUME Pool, NEW w \in Threads, job[w] # Free, NEW place, place # "none", NEW saw,
         Recall(w, place, saw)
  PROVE  /\ Moves(w)
         /\ job'[w].at = place /\ job'[w].saw = saw /\ DOMAIN job'[w] = DOMAIN job[w]
         /\ \A f \in DOMAIN job[w] \ {"at", "saw"} : job'[w][f] = job[w][f]
<1>1. IsJob(job[w])
  BY DEF Pool, Engaged
<1>2. job'[w] = [job[w] EXCEPT !.at = place, !.saw = saw]
  BY DEF Pool, Recall
<1>3. /\ job'[w].at = place /\ job'[w].saw = saw /\ DOMAIN job'[w] = DOMAIN job[w]
      /\ \A f \in DOMAIN job[w] \ {"at", "saw"} : job'[w][f] = job[w][f]
  BY <1>1, <1>2 DEF IsJob
<1>4. IsJob(job'[w])
  BY <1>1, <1>2 DEF IsJob
<1>5. Asked(job'[w]) = Asked(job[w])
  BY <1>3 DEF Asked
<1>6. job' = [job EXCEPT ![w] = job'[w]] /\ calls' = calls
  BY <1>2 DEF Pool, Recall
<1> QED BY <1>3, <1>4, <1>5, <1>6 DEF Moves

LEMMA Responding ==
  ASSUME Pool, NEW w \in Threads, job[w] # Free, Respond(w)
  PROVE  Moves(w) /\ job'[w] = Free
  BY DEF Pool, Respond, Moves

-----------------------------------------------------------------------------
(* One at a time *)

\* With one request at a time nobody else is engaged.
LEMMA Alone ==
  ASSUME Pool, OneAtATime, NEW w \in Threads, job[w] # Free, NEW v \in Threads, v # w
  PROVE  job[v] = Free
<1>1. SUFFICES ASSUME v \in Engaged PROVE FALSE
  BY DEF Engaged
<1>2. {v, w} \subseteq Engaged
  BY <1>1 DEF Engaged
<1>3. IsFiniteSet({v, w}) /\ Cardinality({v, w}) = 2
  <2>1. IsFiniteSet({w}) /\ Cardinality({w}) = 1
    BY FS_Singleton
  <2>2. {w} \cup {v} = {v, w}
    OBVIOUS
  <2> QED BY <2>1, <2>2, FS_AddElement
<1>4. Cardinality({v, w}) <= Cardinality(Engaged)
  BY <1>2, FS_Subset DEF Pool
<1>5. Cardinality(Engaged) \in Nat
  BY FS_CardinalityType DEF Pool
<1> QED BY <1>3, <1>4, <1>5 DEF Pool, OneAtATime

-----------------------------------------------------------------------------
(* Tables are sequences *)

LEMMA Elements ==
  ASSUME NEW S, NEW s \in Seq(S)
  PROVE  /\ DOMAIN s = 1 .. Len(s) /\ Len(s) \in Nat
         /\ \A i \in DOMAIN s : s[i] \in S
         /\ s = [i \in DOMAIN s |-> s[i]]
  OBVIOUS

LEMMA Rewritten ==
  ASSUME NEW S, NEW s \in Seq(S), NEW T, NEW f, f = [t \in DOMAIN s |-> f[t]],
         \A t \in DOMAIN s : f[t] \in T
  PROVE  f \in Seq(T) /\ Len(f) = Len(s)
<1>1. DOMAIN s = 1 .. Len(s) /\ Len(s) \in Nat
  OBVIOUS
<1>2. f \in [1 .. Len(s) -> T]
  BY <1>1
<1> QED BY <1>1, <1>2

LEMMA OneMore ==
  ASSUME NEW S, NEW s \in Seq(S), NEW e, NEW longer, longer = Append(s, e)
  PROVE  /\ DOMAIN longer = DOMAIN s \cup {Len(s) + 1} /\ Len(s) + 1 \notin DOMAIN s
         /\ \A i \in DOMAIN s : longer[i] = s[i]
         /\ longer[Len(s) + 1] = e
  OBVIOUS

LEMMA Widened ==
  ASSUME NEW S, NEW s \in Seq(S), NEW T, \A i \in DOMAIN s : s[i] \in T
  PROVE  s \in Seq(T)
<1>1. s = [i \in DOMAIN s |-> s[i]]
  OBVIOUS
<1> QED BY <1>1, Rewritten

LEMMA Appended ==
  ASSUME NEW S, NEW s \in Seq(S), NEW T, \A i \in DOMAIN s : s[i] \in T, NEW e \in T,
         NEW longer, longer = Append(s, e)
  PROVE  longer \in Seq(T) /\ Len(longer) = Len(s) + 1
<1>1. s \in Seq(T)
  BY Widened
<1> QED BY <1>1
=============================================================================
