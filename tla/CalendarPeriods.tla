--------------------------- MODULE CalendarPeriods ---------------------------
(***************************************************************************)
(* Calendar arithmetic on date-only values: the periods of a budget and    *)
(* the ranges that the phrases of an advisor question stand for.  A date   *)
(* is its day number, counted from 1970-01-01 as Date.UTC counts; "today"  *)
(* is already the date in the user's time zone.                            *)
(***************************************************************************)
EXTENDS Integers

CONSTANT
    None         \* SQL null

\* Date.UTC: the day number of a date, months overflowing into years.
DayNumber(year, month, day) ==
    LET y == year + (month - 1) \div 12
        m == 1 + ((month - 1) % 12)
        shifted == IF m <= 2 THEN y - 1 ELSE y
        era == shifted \div 400
        ofEra == shifted % 400
        ofYear == (153 * (IF m > 2 THEN m - 3 ELSE m + 9) + 2) \div 5
    IN era * 146097 + ofEra * 365 + ofEra \div 4 - ofEra \div 100 + ofYear + day - 719469

\* Days since 1 March of year 0 fall into eras of 400 years.
OfEra(date) == (date + 719468) % 146097

YearOfEra(of) == (of - of \div 1460 + of \div 36524 - of \div 146096) \div 365

MarchDay(of, y) == of - (365 * y + y \div 4 - y \div 100)

\* Months counted from March.
MarchMonth(date) == (5 * MarchDay(OfEra(date), YearOfEra(OfEra(date))) + 2) \div 153

MonthOf(date) == 1 + ((MarchMonth(date) + 2) % 12)

YearOf(date) ==
    YearOfEra(OfEra(date)) + 400 * ((date + 719468) \div 146097)
      + IF MarchMonth(date) >= 10 THEN 1 ELSE 0

DayOfWeek(date) == (date + 4) % 7

MonthStart(year, month) == DayNumber(year, month, 1)

MonthEnd(year, month) == DayNumber(year, month + 1, 0)

------------------------------------------------------------------------------
(* Budget periods.                                                         *)

MondayOf(date) == date - ((DayOfWeek(date) + 6) % 7)

WeeklyBounds(today) ==
    LET start == MondayOf(today)
    IN [start |-> start, end |-> start + 6, previousStart |-> start - 7, previousEnd |-> start - 1]

MonthlyBounds(today) ==
    LET year == YearOf(today) month == MonthOf(today)
    IN [start |-> MonthStart(year, month), end |-> MonthEnd(year, month),
        previousStart |-> MonthStart(year, month - 1), previousEnd |-> MonthEnd(year, month - 1)]

YearlyBounds(today) ==
    LET year == YearOf(today)
    IN [start |-> DayNumber(year, 1, 1), end |-> DayNumber(year, 12, 31),
        previousStart |-> DayNumber(year - 1, 1, 1), previousEnd |-> DayNumber(year - 1, 12, 31)]

CurrentPeriodBounds(period, today, custom) ==
    CASE period = "weekly"  -> WeeklyBounds(today)
      [] period = "monthly" -> MonthlyBounds(today)
      [] period = "yearly"  -> YearlyBounds(today)
      [] period = "custom"  -> [start |-> custom.start, end |-> custom.end,
                                previousStart |-> None, previousEnd |-> None]

DaysRemaining(today, end) == IF today > end THEN 0 ELSE end - today + 1

IsPeriodEnded(today, end) == today > end

\* An alert key names a calendar period by its start, a custom one by both ends.
PeriodKey(period, bounds) ==
    IF period = "custom" THEN <<"c", bounds.start, bounds.end>> ELSE <<period, bounds.start>>

------------------------------------------------------------------------------
(* Phrases of a question.                                                  *)

\* The order in which PHRASES is searched.
PhraseKeys == <<"thisMonth", "lastMonth", "thisWeek", "lastWeek", "last7", "last14", "last30",
                "last90", "thisYear", "ytd", "lastYear">>

\* Mutant: day 1 of the month instead of day 0.
PreviousMonthThroughFirst(today) ==
    [from |-> MonthStart(YearOf(today), MonthOf(today) - 1),
     to   |-> DayNumber(YearOf(today), MonthOf(today), 1)]

PreviousMonthBounds(today) ==
    [from |-> MonthStart(YearOf(today), MonthOf(today) - 1),
     to   |-> DayNumber(YearOf(today), MonthOf(today), 0)]

PhraseRange(key, today) ==
    CASE key = "thisMonth" -> [from |-> MonthStart(YearOf(today), MonthOf(today)), to |-> today]
      [] key = "lastMonth" -> PreviousMonthBounds(today)
      [] key = "thisWeek"  -> [from |-> MondayOf(today), to |-> today]
      [] key = "lastWeek"  -> [from |-> MondayOf(today) - 7, to |-> MondayOf(today) - 1]
      [] key = "last7"     -> [from |-> today - 6, to |-> today]
      [] key = "last14"    -> [from |-> today - 13, to |-> today]
      [] key = "last30"    -> [from |-> today - 29, to |-> today]
      [] key = "last90"    -> [from |-> today - 89, to |-> today]
      [] key \in {"thisYear", "ytd"} -> [from |-> DayNumber(YearOf(today), 1, 1), to |-> today]
      [] key = "lastYear"  -> [from |-> DayNumber(YearOf(today) - 1, 1, 1),
                               to   |-> DayNumber(YearOf(today) - 1, 12, 31)]

\* The first phrase of the list that the message contains.
ResolvePhraseDateRange(found, today) ==
    IF \E i \in DOMAIN PhraseKeys : PhraseKeys[i] \in found
    THEN PhraseRange(PhraseKeys[CHOOSE i \in DOMAIN PhraseKeys :
                        /\ PhraseKeys[i] \in found
                        /\ \A j \in 1..(i - 1) : PhraseKeys[j] \notin found], today)
    ELSE None

\* The answers offered when a question names no period.
ClarificationRange(option, today) ==
    CASE option = "thisMonth" -> [from |-> MonthStart(YearOf(today), MonthOf(today)), to |-> today]
      [] option = "lastMonth" -> PreviousMonthBounds(today)
      [] option = "last30"    -> [from |-> today - 29, to |-> today]
      [] option = "ytd"       -> [from |-> DayNumber(YearOf(today), 1, 1), to |-> today]

\* Mutant: the previous range ends on the first day of this one.
PreviousRangeTouching(range) ==
    [from |-> range.from - (range.to - range.from), to |-> range.from]

PreviousRangeOf(range) ==
    [from |-> range.from - (range.to - range.from + 1), to |-> range.from - 1]

\* The dashboard's range when the query names none, or one end only.
DashboardBounds(dateFrom, dateTo, today, days) ==
    IF dateFrom = None /\ dateTo = None THEN [from |-> today - (days - 1), to |-> today]
    ELSE [from |-> IF dateFrom = None THEN today ELSE dateFrom,
          to   |-> IF dateTo = None THEN today ELSE dateTo]
=============================================================================
