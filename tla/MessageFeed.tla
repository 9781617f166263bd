----------------------------- MODULE MessageFeed -----------------------------
(***************************************************************************)
(* What the message channel of EnclaveStation promises its browser tabs:   *)
(* PostgreSQL orders the changes to the messages of a channel, and a tab   *)
(* is sent each committed change, and each notification of its user, at    *)
(* most once and never before it is committed.  A change that is legal     *)
(* here is one the database accepts: nobody edits a deleted message or     *)
(* somebody else's.                                                        *)
(***************************************************************************)
EXTENDS Naturals, Sequences

CONSTANTS Users, Tabs, UserOf, Frames

VARIABLES
  log,    \* the committed changes
  notes,  \* the notifications created
  got     \* how often a tab was sent each frame

vars == <<log, notes, got>>

Init ==
  /\ log = <<>>
  /\ notes = <<>>
  /\ got = [t \in Tabs |-> [f \in Frames |-> 0]]

Posted == {n \in DOMAIN log : log[n].kind = "new"}
Author(m) == {log[n].by : n \in {p \in Posted : log[p].message = m}}
IsPosted(m) == Author(m) # {}
IsDeleted(m) == \E n \in DOMAIN log : log[n].kind = "deleted" /\ log[n].message = m

Legal(change) ==
  CASE change.kind = "new" -> ~IsPosted(change.message)
    [] change.kind = "edited" -> change.by \in Author(change.message)
                                   /\ ~IsDeleted(change.message)
    [] OTHER -> IsPosted(change.message)

Commit ==
  /\ Len(log') = Len(log) + 1
  /\ SubSeq(log', 1, Len(log)) = log
  /\ Legal(log'[Len(log')])
  /\ UNCHANGED <<notes, got>>

\* Somebody other than the author of a posted message is told of it.
Notify ==
  /\ Len(notes') = Len(notes) + 1
  /\ SubSeq(notes', 1, Len(notes)) = notes
  /\ LET note == notes'[Len(notes')] IN
       IsPosted(note.message) /\ note.to \notin Author(note.message)
  /\ UNCHANGED <<log, got>>

IsCommitted(f) == f[2] \in IF f[1] = "change" THEN DOMAIN log ELSE DOMAIN notes
IsFor(f, t) == f[1] = "note" => notes[f[2]].to = UserOf[t]

\* Any number of tabs are sent frames they did not have.
Push ==
  /\ got' \in [Tabs -> [Frames -> {0, 1}]]
  /\ \A t \in Tabs, f \in Frames :
       got'[t][f] # got[t][f] => got[t][f] = 0 /\ IsCommitted(f) /\ IsFor(f, t)
  /\ UNCHANGED <<log, notes>>

Next == Commit \/ Notify \/ Push

Spec == Init /\ [][Next]_vars
=============================================================================
