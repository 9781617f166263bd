------------------------------- MODULE Recurrence -------------------------------
(***************************************************************************)
(* When a repeating event takes place (recurrence.cpp).  A day is counted  *)
(* from Saturday, 1 January 2028, and a month from that January; the time  *)
(* of day, which every occurrence has from the start, is left out.         *)
(***************************************************************************)
EXTENDS Integers, Sequences, FiniteSets
Sets == INSTANCE FiniteSetsExt

CONSTANT MaxOccurrences      \* MAX_OCCURRENCES, in one expansion

Unlimited == 1000            \* a rule without COUNT
Forever == 100000            \* a rule without UNTIL

\* What timegm and gmtime_r do, until 2100.
IsLeap(year) == year % 4 = 0
DaysInMonth(m) ==
  IF m % 12 = 1 /\ IsLeap(m \div 12) THEN 29
  ELSE <<31, 28, 31, 30, 31, 30, 31, 31, 30, 31, 30, 31>>[(m % 12) + 1]
MonthStart(m) ==
  LET year == m \div 12 IN
    365 * year + (year + 3) \div 4
      + <<0, 31, 59, 90, 120, 151, 181, 212, 243, 273, 304, 334>>[(m % 12) + 1]
      + (IF IsLeap(year) /\ m % 12 > 1 THEN 1 ELSE 0)
MonthOf(d) ==
  CHOOSE m \in (d \div 31) .. (d \div 28) : MonthStart(m) <= d /\ d < MonthStart(m + 1)
MonthDay(d) == d - MonthStart(MonthOf(d)) + 1
Weekday(d) == (d + 6) % 7                  \* Sunday is 0
SinceMonday(wday) == (wday + 6) % 7
Monday(d) == d - SinceMonday(Weekday(d))
Smaller(a, b) == IF a < b THEN a ELSE b

\* The day the start falls on in another month: the 31st is the last of a
\* shorter one, and the 31st again after that.
SameDayIn(m, start) == MonthStart(m) + Smaller(MonthDay(start), DaysInMonth(m)) - 1

ByWeekdays(rule) == rule.freq = "weekly" /\ rule.days # <<>>

\* matches_by_rules
Matches(rule, d) ==
  /\ rule.months # {} => (MonthOf(d) % 12) + 1 \in rule.months
  /\ rule.monthDays # {} =>
       \E n \in rule.monthDays :
         MonthDay(d) = IF n > 0 THEN n ELSE DaysInMonth(MonthOf(d)) + 1 + n
  /\ rule.days # <<>> /\ rule.freq # "weekly" => \E i \in DOMAIN rule.days : rule.days[i] = Weekday(d)

\* The k-th day that expand_rrule looks at: week by week, in each week the
\* days in the order of the rule, or what advance makes of the one before.
Candidate(rule, start, k) ==
  LET n == Len(rule.days) IN
    IF ByWeekdays(rule)
    THEN Monday(start) + 7 * rule.interval * (k \div n) + SinceMonday(rule.days[(k % n) + 1])
    ELSE CASE rule.freq = "daily" -> start + k * rule.interval
           [] rule.freq = "weekly" -> start + 7 * k * rule.interval
           [] rule.freq = "monthly" -> SameDayIn(MonthOf(start) + k * rule.interval, start)
           [] rule.freq = "yearly" -> SameDayIn(MonthOf(start) + 12 * k * rule.interval, start)

\* Enough candidates to pass the end of the range.
Enough(rule, start, to) ==
  (IF to > start THEN to - start + 14 ELSE 14) * (IF ByWeekdays(rule) THEN Len(rule.days) ELSE 1)

FirstOf(S, n) == IF Cardinality(S) <= n THEN S ELSE {k \in S : Cardinality({j \in S : j < k}) < n}

\* The candidates that the loop of expand_rrule comes to: a day at or past the
\* end of the range, or past UNTIL, ends it, but one before the start does not.
Visited(rule, start, to) ==
  LET c(k) == Candidate(rule, start, k)
      ends(k) == (ByWeekdays(rule) => c(k) >= start) /\ (rule.until < c(k) \/ c(k) >= to)
      first == Sets!Min({k \in 0 .. Enough(rule, start, to) : ends(k)})
  IN {k \in 0 .. first - 1 :
        IF ByWeekdays(rule) THEN c(k) >= start ELSE Matches(rule, c(k))}

\* Mutant: COUNT counts what is shown.
ExpandCountingShown(rule, start, from, to) ==
  LET c(k) == Candidate(rule, start, k)
      shown == FirstOf({k \in Visited(rule, start, to) : from <= c(k)}, rule.count)
  IN {c(k) : k \in FirstOf(shown, MaxOccurrences)}

\* expand_rrule: COUNT counts the days before the range too, and of those in the
\* range the first MAX_OCCURRENCES are returned.
Expand(rule, start, from, to) ==
  LET c(k) == Candidate(rule, start, k)
      shown == {k \in FirstOf(Visited(rule, start, to), rule.count) : from <= c(k)}
  IN {c(k) : k \in FirstOf(shown, MaxOccurrences)}

-----------------------------------------------------------------------------
(* What a rule means, said of the days one by one.  Nothing here looks at   *)
(* the candidates of expand_rrule or at its filter of them.                *)

\* Every interval-th day, week, month or year from that of the start counts.
PeriodCounts(rule, start, d) ==
  (CASE rule.freq = "daily" -> d - start
     [] rule.freq = "weekly" -> (Monday(d) - Monday(start)) \div 7
     [] rule.freq = "monthly" -> MonthOf(d) - MonthOf(start)
     [] rule.freq = "yearly" -> MonthOf(d) \div 12 - MonthOf(start) \div 12) % rule.interval = 0

NamesDay(rule, d) == \E i \in DOMAIN rule.days : rule.days[i] = Weekday(d)
NamesMonthDay(rule, d) ==
  \E n \in rule.monthDays : n \in {MonthDay(d), MonthDay(d) - DaysInMonth(MonthOf(d)) - 1}

\* Within a period, the months and days that the rule names, and where it names
\* none those of the start.
DayCounts(rule, start, d) ==
  LET calendarMonth == MonthOf(d) % 12
      ofDate == rule.freq \in {"monthly", "yearly"} /\ rule.days = <<>> IN
  /\ IF rule.months = {} THEN rule.freq = "yearly" => calendarMonth = MonthOf(start) % 12
     ELSE calendarMonth + 1 \in rule.months
  /\ IF rule.days = <<>> THEN rule.freq = "weekly" => Weekday(d) = Weekday(start) ELSE NamesDay(rule, d)
  /\ IF rule.monthDays = {} THEN ofDate => d = SameDayIn(MonthOf(d), start) ELSE NamesMonthDay(rule, d)

Occurrences(rule, start, to) ==
  LET due == {d \in start .. Smaller(to - 1, rule.until) :
                PeriodCounts(rule, start, d) /\ DayCounts(rule, start, d)} IN
  FirstOf(due, rule.count)

\* A rule that expand_rrule can meet: of a month or a year it looks at one day,
\* that of the start, and of a week with named days at each of these.
OneDayAPeriod(rule, start) ==
  CASE rule.freq = "daily" -> TRUE
    [] rule.freq = "weekly" ->
         /\ rule.days # <<>> => rule.months = {} /\ rule.monthDays = {}
         /\ \A i, j \in DOMAIN rule.days : rule.days[i] = rule.days[j] => i = j
    [] rule.freq = "monthly" ->
         /\ rule.days = <<>>
         /\ rule.monthDays \subseteq {n \in {MonthDay(start), -1} : n > 0 \/ MonthDay(start) = 31}
    [] rule.freq = "yearly" -> rule.days = <<>> /\ rule.months = {} /\ rule.monthDays = {}

\* The days of a week are named in its order.
InWeekOrder(rule) ==
  \A i, j \in DOMAIN rule.days : i < j => SinceMonday(rule.days[i]) < SinceMonday(rule.days[j])
=============================================================================
