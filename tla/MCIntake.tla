------------------------------ MODULE MCIntake ------------------------------
(***************************************************************************)
(* Four schedules over two minutes: Monday 6 July 2026 09:00, when two of  *)
(* them are due, and 09:05, when the broken expression is reached.  Over   *)
(* HTTP come a mail that is delivered twice, a form without any id, and a  *)
(* slot of a schedule that an operator fires by hand.  The cron matcher is *)
(* also compared with the calendar of the whole month.                     *)
(***************************************************************************)
EXTENDS Intake, TLC

Every == {}
At(n) == {[from |-> n, to |-> n, step |-> 1]}
EveryNth(lo, hi, n) == {[from |-> lo, to |-> hi, step |-> n]}

\* 1 July 2026 is a Wednesday.
July(day, hour, minute) ==
    [minute |-> minute, hour |-> hour, day |-> day, month |-> 7, weekday |-> (day + 1) % 7]

SampleCalendar == <<July(6, 9, 0), July(6, 9, 5)>>

\* "0 9 1 * 1", "*/5 * * * *", "* * * * *" disabled, and "5 */0 * * *",
\* which raises at minute 5.
SampleSchedules == <<
    [id |-> "monthly_or_monday", enabled |-> TRUE,
     cron |-> [minute |-> At(0), hour |-> At(9), dom |-> At(1), month |-> Every, dow |-> At(1)]],
    [id |-> "five_minutes", enabled |-> TRUE,
     cron |-> [minute |-> EveryNth(0, 59, 5), hour |-> Every, dom |-> Every, month |-> Every,
               dow |-> Every]],
    [id |-> "disabled", enabled |-> FALSE,
     cron |-> [minute |-> Every, hour |-> Every, dom |-> Every, month |-> Every, dow |-> Every]],
    [id |-> "broken", enabled |-> TRUE,
     cron |-> [minute |-> At(5), hour |-> EveryNth(0, 23, 0), dom |-> Every, month |-> Every,
               dow |-> Every]]>>

SampleExpected == {"monthly_or_monday", "five_minutes"} \X {1} \cup {<<"five_minutes", 2>>}

Mail == <<"mail", 0>>
Form == <<"form", 0>>
ByHand == <<"five_minutes", 2>>
SampleRequests == {
    [event |-> Mail, ids |-> [message_id |-> Mail, delivery_id |-> <<"first", 0>>],
     body |-> Mail],
    [event |-> Mail, ids |-> [message_id |-> Mail, delivery_id |-> <<"again", 0>>],
     body |-> Mail],
    [event |-> Form, ids |-> <<>>, body |-> Form],
    [event |-> ByHand, ids |-> [message_id |-> ByHand], body |-> ByHand]}
SampleEvents == Slots \cup {Mail, Form}

\* "0 9 <dom> 7 <dow>" and the days of July 2026 on which it is due, from a
\* calendar: both day fields restricted, one, or none; a list, a range, a
\* range with a step; a step from "*" is a restriction; cron's Sunday is 0.
Monthly(dom, dow) == [minute |-> At(0), hour |-> At(9), dom |-> dom, month |-> At(7), dow |-> dow]
Sundays == {5, 12, 19, 26}
Almanac == <<
    [cron |-> Monthly(At(1), At(1)), days |-> {1, 6, 13, 20, 27}],
    [cron |-> Monthly(Every, At(0)), days |-> Sundays],
    [cron |-> Monthly(At(1) \cup At(15), Every), days |-> {1, 15}],
    [cron |-> Monthly(Every, Every), days |-> 1 .. 31],
    [cron |-> Monthly(EveryNth(1, 31, 10), At(0)), days |-> {1, 11, 21, 31} \cup Sundays],
    [cron |-> Monthly(EveryNth(10, 20, 4), Every), days |-> {10, 14, 18}],
    [cron |-> Monthly(Every, EveryNth(1, 5, 1)),
     days |-> 1 .. 31 \ (Sundays \cup {4, 11, 18, 25})]>>

\* The days of the month on which cron_matches holds in minute m.
MatchedDays == [i \in 1 .. Len(Almanac), m \in Minutes |->
    {d \in 1 .. 31 : CronMatches(Almanac[i].cron, July(d, Calendar[m].hour, Calendar[m].minute))}]

\* schedule.py: "cron's day-of-month/day-of-week OR semantics", and Python's
\* Monday 0 against cron's Sunday 0: whatever day of the month it were, in the
\* current minute cron_matches holds on exactly the days the calendar gives,
\* or on none when it is not the minute of the expression.
MatcherAgrees ==
    \A i \in 1 .. Len(Almanac) :
        MatchedDays[i, clock] = IF Calendar[clock].minute = 0 THEN Almanac[i].days ELSE {}

Symmetry == Permutations(Replicas) \cup Permutations(Callers)
=============================================================================
