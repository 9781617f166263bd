-------------------------------- MODULE Calendar --------------------------------
(***************************************************************************)
(* The calendar of a space: events, once or repeating, the exceptions to   *)
(* their occurrences, who comes, and who may change what                   *)
(* (calendar_handler.cpp and the statements of database.cpp it sends).     *)
(* Titles, places and colours are left out; times are days.                *)
(***************************************************************************)
EXTENDS Requests, Recurrence

CONSTANTS
  Guests,
  Hosts,           \* admins of the space or the server: own the calendar
  Ranges(_),       \* what the browser asks to be shown of events of a frequency:
                   \* first day, day after the last
  CalendarScenarios

Rights == [view |-> 0, edit |-> 1, owner |-> 2]
Leave == -2        \* a PUT that leaves a field alone, an exception that moves nothing
Whole == -1        \* an answer to the event rather than to an occurrence

VARIABLES
  events,          \* calendar_events
  exceptions,      \* calendar_event_exceptions: by event and day
  rsvps,           \* calendar_event_rsvps: by event, person and day
  calendarGrants   \* calendar_permissions

calendarTables == <<events, exceptions, rsvps, calendarGrants>>
calendarVars == <<calendarTables, serving>>

RulesOf(freqs) ==
  [freq : freqs, interval : Nat \ {0}, count : Nat, until : Nat, days : Seq(0 .. 6),
   monthDays : SUBSET Int, months : SUBSET (1 .. 12)]
Frequencies == {"none", "daily", "weekly", "monthly", "yearly"}
CalendarRequests ==
  [op : {"event"}, by : Guests, start : Nat, end : Nat, rule : RulesOf(Frequencies)]
  \cup [op : {"update"}, by : Guests, event : Nat, start : Nat \cup {Leave}, end : Nat \cup {Leave},
        rule : RulesOf(Frequencies \cup {"leave"})]
  \cup [op : {"delete"}, by : Guests, event : Nat]
  \cup [op : {"exception"}, by : Guests, event : Nat, day : Nat, gone : BOOLEAN,
        start : Nat \cup {Leave}, end : Nat \cup {Leave}]
  \cup [op : {"rsvp"}, by : Guests, event : Nat, day : Nat \cup {Whole}, status : STRING]
  \cup [op : {"grant"}, by : Guests, of : Guests, level : DOMAIN Rights]
  \cup [op : {"ungrant"}, by : Guests, of : Guests]

\* A scenario starts with events that are there.
ASSUME CalendarAssumption ==
  \A s \in CalendarScenarios :
    /\ s.events \in Seq([by : Guests, start : Nat, end : Nat, rule : RulesOf(Frequencies),
                         here : {TRUE}])
    /\ s.calendarGrants \in [Guests -> DOMAIN Rights]
    /\ s.requests \subseteq CalendarRequests
    /\ s.atOnce \in Nat \ {0}

CalendarTables(s) ==
  /\ events = s.events /\ calendarGrants = s.calendarGrants
  /\ exceptions = {} /\ rsvps = {}
InitCalendar == \E s \in CalendarScenarios : CalendarTables(s) /\ Listening(s)

EventThere(e) == events[e].here
Repeats(e) == events[e].rule.freq # "none"

\* get_access_level
Right(u) == IF u \in Hosts THEN Rights.owner ELSE Rights[calendarGrants[u]]

NamesEvents(r) == "event" \in DOMAIN r => r.event \in DOMAIN events
TakeCalendarRequest(w) == Accept(w, {r \in calls.requests : NamesEvents(r)}) /\ UNCHANGED calendarTables
Weigh(w, refused, place) == Unless(w, refused, place) /\ UNCHANGED calendarTables

-----------------------------------------------------------------------------
(* Events *)

CheckEvent(w) ==
  /\ At(w, "event", "check")
  /\ Weigh(w, Right(job[w].by) < Rights.edit, "write")

CreateEvent(w) ==
  /\ At(w, "event", "write")
  /\ LET r == job[w] IN
     events' = Append(events, [by |-> r.by, start |-> r.start, end |-> r.end, rule |-> r.rule,
                               here |-> TRUE])
  /\ Respond(w)
  /\ UNCHANGED <<exceptions, rsvps, calendarGrants>>

\* What the request does not name is what is read here.
CheckUpdateEvent(w) ==
  /\ At(w, "update", "check")
  /\ LET r == job[w]
         old == events[r.event]
     IN IF Right(r.by) < Rights.edit \/ ~old.here THEN Respond(w)
        ELSE Recall(w, "write", [start |-> IF r.start = Leave THEN old.start ELSE r.start,
                                 end |-> IF r.end = Leave THEN old.end ELSE r.end,
                                 rule |-> IF r.rule.freq = "leave" THEN old.rule ELSE r.rule])
  /\ UNCHANGED calendarTables

\* update_calendar_event: the exceptions and the answers stay as they are.
UpdateEvent(w) ==
  /\ At(w, "update", "write")
  /\ LET e == job[w].event
         s == job[w].saw
     IN events' = IF EventThere(e)
                  THEN [events EXCEPT ![e].start = s.start, ![e].end = s.end, ![e].rule = s.rule]
                  ELSE events
  /\ Respond(w)
  /\ UNCHANGED <<exceptions, rsvps, calendarGrants>>

CheckDeleteEvent(w) ==
  /\ At(w, "delete", "check")
  /\ LET e == job[w].event IN
     Weigh(w, ~EventThere(e) \/ (events[e].by # job[w].by /\ Right(job[w].by) < Rights.owner), "write")

\* Exceptions and answers go with the event.
DeleteEvent(w) ==
  /\ At(w, "delete", "write")
  /\ LET e == job[w].event IN
       /\ events' = [events EXCEPT ![e].here = FALSE]
       /\ exceptions' = {x \in exceptions : x.event # e}
       /\ rsvps' = {a \in rsvps : a.event # e}
  /\ Respond(w)
  /\ UNCHANGED <<calendarGrants>>

-----------------------------------------------------------------------------
(* Occurrences *)

\* Only a repeating event has exceptions; whether it takes place that day is
\* not asked.
CheckException(w) ==
  /\ At(w, "exception", "check")
  /\ LET e == job[w].event IN
     Weigh(w, Right(job[w].by) < Rights.edit \/ ~EventThere(e) \/ ~Repeats(e), "write")

ExceptionOf(r) ==
  [event |-> r.event, day |-> r.day, gone |-> r.gone, start |-> r.start, end |-> r.end]

\* Mutant: an earlier exception for the day stays beside the new one.
SetExceptionBeside(w) ==
  /\ At(w, "exception", "write")
  /\ LET r == job[w] IN
     exceptions' = exceptions \cup (IF EventThere(r.event) THEN {ExceptionOf(r)} ELSE {})
  /\ Respond(w)
  /\ UNCHANGED <<events, rsvps, calendarGrants>>

\* create_event_exception takes the place of an earlier one.
SetException(w) ==
  /\ At(w, "exception", "write")
  /\ LET r == job[w] IN
     exceptions' =
       IF EventThere(r.event)
       THEN {x \in exceptions : ~(x.event = r.event /\ x.day = r.day)}
              \cup {ExceptionOf(r)}
       ELSE exceptions
  /\ Respond(w)
  /\ UNCHANGED <<events, rsvps, calendarGrants>>

\* A member who may see the calendar may answer.
CheckRsvp(w) ==
  /\ At(w, "rsvp", "check")
  /\ Weigh(w, ~EventThere(job[w].event), "write")

\* set_event_rsvp
SetRsvp(w) ==
  /\ At(w, "rsvp", "write")
  /\ LET r == job[w] IN
     rsvps' =
       IF EventThere(r.event)
       THEN {a \in rsvps : ~(a.event = r.event /\ a.of = r.by /\ a.day = r.day)}
              \cup {[event |-> r.event, of |-> r.by, day |-> r.day, status |-> r.status]}
       ELSE rsvps
  /\ Respond(w)
  /\ UNCHANGED <<events, exceptions, calendarGrants>>

CheckCalendarGrant(w) ==
  /\ At(w, "grant", "check")
  /\ Weigh(w, Right(job[w].by) < Rights.owner, "write")

CheckCalendarUngrant(w) ==
  /\ At(w, "ungrant", "check")
  /\ Weigh(w, Right(job[w].by) < Rights.owner, "write")

\* set_calendar_permission
SetCalendarGrant(w) ==
  /\ At(w, "grant", "write")
  /\ calendarGrants' = [calendarGrants EXCEPT ![job[w].of] = job[w].level]
  /\ Respond(w)
  /\ UNCHANGED <<events, exceptions, rsvps>>

\* remove_calendar_permission: who has none may look.
RemoveCalendarGrant(w) ==
  /\ At(w, "ungrant", "write")
  /\ calendarGrants' = [calendarGrants EXCEPT ![job[w].of] = "view"]
  /\ Respond(w)
  /\ UNCHANGED <<events, exceptions, rsvps>>

NextCalendar ==
  \E w \in Threads :
    \/ TakeCalendarRequest(w)
    \/ CheckEvent(w) \/ CreateEvent(w) \/ CheckUpdateEvent(w) \/ UpdateEvent(w)
    \/ CheckDeleteEvent(w) \/ DeleteEvent(w) \/ CheckException(w) \/ SetException(w)
    \/ CheckRsvp(w) \/ SetRsvp(w) \/ CheckCalendarGrant(w) \/ SetCalendarGrant(w)
    \/ CheckCalendarUngrant(w) \/ RemoveCalendarGrant(w)

CalendarSpec == InitCalendar /\ [][NextCalendar]_calendarVars

-----------------------------------------------------------------------------
(* What GET .../calendar/events shows of an event *)

Answered(e, u, day) ==
  {a.status : a \in {b \in rsvps : b.event = e /\ b.of = u /\ b.day = day}}

Given(value, otherwise) == IF value = Leave THEN otherwise ELSE value

\* Where an occurrence is shown.  An exception overrides the times of the event
\* itself, so that one without times leaves the first occurrence's (the code's
\* `if (!is_exception)').
TimesOf(e, d) ==
  LET event == events[e]
      own == {x \in exceptions : x.event = e /\ x.day = d} IN
  IF ~Repeats(e) THEN [start |-> event.start, end |-> event.end]
  ELSE IF own = {} THEN [start |-> d, end |-> d + event.end - event.start]
  ELSE LET x == CHOOSE y \in own : TRUE IN
       [start |-> Given(x.start, event.start), end |-> Given(x.end, event.end)]

\* list_calendar_events, expand_rrule and the exceptions.
Listed(e, u, from, to) ==
  LET event == events[e]
      days == IF ~Repeats(e) THEN {d \in {event.start} : event.end >= from /\ d < to}
              ELSE {d \in Expand(event.rule, event.start, from, to) :
                      \A x \in exceptions : x.event = e /\ x.day = d => ~x.gone}
  IN {[day |-> d, times |-> TimesOf(e, d), answer |-> Answered(e, u, IF Repeats(e) THEN d ELSE Whole)] :
        d \in days}

-----------------------------------------------------------------------------
(* Properties *)

CalendarTypes ==
  /\ \A e \in DOMAIN events :
       /\ events[e].by \in Guests /\ events[e].start \in Nat /\ events[e].here \in BOOLEAN
       /\ Repeats(e) => events[e].rule.interval > 0
  /\ \A x \in exceptions : x.event \in DOMAIN events /\ EventThere(x.event)
  /\ \A x, y \in exceptions : x.event = y.event /\ x.day = y.day => x = y
  /\ \A a \in rsvps : a.event \in DOMAIN events /\ EventThere(a.event) /\ a.of \in Guests
  /\ \A a, b \in rsvps : a.event = b.event /\ a.of = b.of /\ a.day = b.day => a = b
  /\ calendarGrants \in [Guests -> DOMAIN Rights]

Excepted(e, d) == {x \in exceptions : x.event = e /\ x.day = d}

\* The days of a range that the rule of an event means, those of them that it
\* takes place on and those that are shown.
Meant(e, from, to) == {d \in Occurrences(events[e].rule, events[e].start, to) : from <= d}
Due(e, from, to) ==
  {d \in FirstOf(Meant(e, from, to), MaxOccurrences) : \A x \in Excepted(e, d) : ~x.gone}
DaysShown(e, from, to) == {o.day : o \in UNION {Listed(e, u, from, to) : u \in Guests}}

\* All due days are shown and no other; with the days of a week named out of its
\* order, whatever is amiss is of one week, the last.
ShowsWhatIsDue(e, from, to) ==
  LET due == Due(e, from, to)
      shown == DaysShown(e, from, to)
      apart == (due \ shown) \cup (shown \ due)
  IN /\ InWeekOrder(events[e].rule) => apart = {}
     /\ \A d \in apart : Monday(d) = Monday(Sets!Max(due \cup shown))

\* An occurrence is as long as the event and starts on its own day, or when its
\* exception says.
ShownWhereItBelongs(e, o) ==
  LET event == events[e] IN
  /\ Excepted(e, o.day) = {} => o.times = [start |-> o.day, end |-> o.day + event.end - event.start]
  /\ \A x \in Excepted(e, o.day) :
       x.start # Leave /\ x.end # Leave => o.times = [start |-> x.start, end |-> x.end]

\* Whatever range is shown of a repeating event, after any changes to its start,
\* its rule and its exceptions, it shows the days that the rule means, counted
\* from the start and not from the range, without those taken out one by one
\* and no more than MAX_OCCURRENCES of them, and each where it belongs.  Nothing
\* is promised of four things that expand_rrule and the list do not do:
\*  - an occurrence whose exception leaves its start or end alone, as another
\*    title does, is shown at that of the event itself, so on the day of the
\*    first occurrence (calendar_handler.cpp:125, :153);
\*  - a week whose days are named out of order is left at the first that is past
\*    the end (recurrence.cpp:319), so the last week may lack a day;
\*  - of a month or a year only the day of the start is looked at
\*    (recurrence.cpp:351), so that BYMONTHDAY shows too few days, though none
\*    that is not meant;
\*  - BYMONTH and BYMONTHDAY do not restrict a week's named days (:299).
AgendaShowsOccurrences ==
  \A e \in DOMAIN events : \A r \in Ranges(events[e].rule.freq) :
    LET event == events[e]
        met == OneDayAPeriod(event.rule, event.start) IN
    EventThere(e) /\ Repeats(e) =>
      /\ met => ShowsWhatIsDue(e, r[1], r[2])
      /\ ~met /\ ~ByWeekdays(event.rule) /\ event.rule.count = Unlimited =>
           DaysShown(e, r[1], r[2]) \subseteq Meant(e, r[1], r[2])
      /\ \A u \in Guests : \A o \in Listed(e, u, r[1], r[2]) : ShownWhereItBelongs(e, o)
=============================================================================
