------------------------------ MODULE MCCalendar ------------------------------
(* The calendar: Alice administers the space, Bob may edit its calendar.     *)
(* Day 0 is Saturday, 1 January 2028.                                        *)
EXTENDS Calendar, MCActors

Every(freq, interval) ==
  [freq |-> freq, interval |-> interval, count |-> 1000, until |-> 100000, days |-> <<>>,
   monthDays |-> {}, months |-> {}]
Once == Every("none", 1)
LeaveRule == Every("leave", 1)
Event(start, rule) == [by |-> bob, start |-> start, end |-> start + 1, rule |-> rule, here |-> TRUE]
Excepting(days, times) ==
  [op : {"exception"}, by : {bob}, event : {1}, day : days, gone : BOOLEAN, start : times, end : times]
OfEvent(start, rule, requests) ==
  [events |-> <<Event(start, rule)>>, calendarGrants |-> Two("view", "edit"), budget |-> 1, atOnce |-> 1,
   requests |-> requests]

\* Events of every kind of rule, each with an exception at most.
Rules ==
  {Every("daily", 1), [Every("daily", 3) EXCEPT !.count = 4], [Every("daily", 2) EXCEPT !.until = 12],
   [Every("daily", 1) EXCEPT !.days = <<1, 3>>, !.count = 3],
   [Every("daily", 1) EXCEPT !.monthDays = {1, -1}, !.months = {1, 2}],
   Every("weekly", 2), [Every("weekly", 1) EXCEPT !.months = {2}],
   [Every("weekly", 1) EXCEPT !.days = <<1, 3, 0>>],
   [Every("weekly", 2) EXCEPT !.days = <<1, 5>>, !.count = 5],
   [Every("weekly", 1) EXCEPT !.days = <<5, 1>>, !.until = 20],
   [Every("weekly", 2) EXCEPT !.days = <<0, 3, 1>>, !.count = 4],
   Every("monthly", 1), [Every("monthly", 1) EXCEPT !.monthDays = {-1}, !.count = 2],
   [Every("monthly", 1) EXCEPT !.monthDays = {5}], [Every("monthly", 1) EXCEPT !.monthDays = {5, -1}],
   [Every("monthly", 2) EXCEPT !.count = 2],
   [Every("monthly", 1) EXCEPT !.months = {2, 3}], Every("yearly", 1)}
Recurring ==
  {OfEvent(start, rule, Excepting({start}, {Leave, start + 1})) : start \in {0, 4, 30}, rule \in Rules}

\* An event and its occurrences change hands.
Scheduling ==
  [OfEvent(3, Every("daily", 2),
     [op : {"event"}, by : {bob}, start : {4}, end : {6}, rule : {Once, Every("weekly", 1)}]
       \cup [op : {"update"}, by : {bob}, event : {1}, start : {Leave, 5}, end : {Leave},
             rule : {LeaveRule, Once, [Every("daily", 1) EXCEPT !.count = 3]}]
       \cup [op : {"delete"}, by : {bob}, event : {1, 2}] \cup Excepting({5}, {Leave, 6})
       \cup [op : {"rsvp"}, by : {alice}, event : {1}, day : {Whole, 5}, status : {"yes"}]
       \cup [op : {"grant"}, by : {alice, bob}, of : {bob}, level : {"owner"}]
       \cup [op : {"ungrant"}, by : {alice, bob}, of : {bob}])
   EXCEPT !.budget = 3, !.atOnce = 2]

MCCalendarScenarios == {Scheduling} \cup Recurring

\* Two weeks, some days of one, and six weeks of the months after.
Shown(freq) == IF freq = "yearly" THEN {<<0, 14>>, <<390, 400>>} ELSE {<<0, 14>>, <<7, 10>>, <<28, 70>>}
=============================================================================
