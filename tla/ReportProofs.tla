----------------------------- MODULE ReportProofs -----------------------------
(***************************************************************************)
(* What the reads that compute say, for every day and every ledger.        *)
(*                                                                         *)
(* The calendar: the code computes a day's number from its year, month and *)
(* day of the month, and back.  Both are closed formulas; the lemmas show  *)
(* that they are inverses: a day of an era of 400 years is split into      *)
(* century, cycle of four years and year, then into months counted from    *)
(* March.  A month of the calendar is then an interval of day numbers, a   *)
(* year twelve of them in a row, and the periods and phrases are such      *)
(* intervals.                                                              *)
(*                                                                         *)
(* Exports and lists: the rows of a ledger are a finite, strictly ordered  *)
(* set, so each has a rank and sorting puts each at its rank.  A page      *)
(* holds the first PageSize rows of those behind the cursor, and whatever  *)
(* it leaves is behind the next cursor, even one that has lost its         *)
(* microseconds.  So the rows read and those still behind the cursor are   *)
(* together all of them, at every turn of the loop, and the turns suffice  *)
(* to reach the end or the limit.  Files and archive are built from that.  *)
(*                                                                         *)
(* Texts: after n of its digits, what was read of a fraction is its        *)
(* quotient by the power of ten of the digits left.                        *)
(*                                                                         *)
(* Budgets: the loop over completed periods goes down a chain of starts,   *)
(* each of the period of the day before the last; it stops where a budget  *)
(* was created or at the limit, and so visits just the latest starts.      *)
(* What it adds round by round is the sum over that set.                   *)
(*                                                                         *)
(* Reports: spending adds up by category and is the outflow, as SumProofs  *)
(* has it.                                                                 *)
(* Over all accounts the two sides of a confirmed transfer cancel, link by *)
(* link, and what moved in the accounts is the cash flow.                  *)
(***************************************************************************)
EXTENDS ReportReads, SumProofs

------------------------------------------------------------------------------
(* Years of an era.                                                         *)

\* The first day of a year, counted from the first of its era; years begin in March.
YearStart(y) == 365 * y + y \div 4 - y \div 100
NextYearStart(y) == IF y = 399 THEN 146097 ELSE YearStart(y + 1)

\* A day of an era lies in a century, in a four-year cycle of it and a year of that.
Century(of) == IF of = 146096 THEN 3 ELSE of \div 36524
InCentury(of) == of - 36524 * Century(of)
Cycle(of) == InCentury(of) \div 1461
InCycle(of) == InCentury(of) - 1461 * Cycle(of)
InYear(u) == IF u = 1460 THEN 3 ELSE u \div 365

\* A day of an era lies in one of four centuries, the last of which is a day longer.
LEMMA Centuries ==
    ASSUME NEW of \in Int, of >= 0, of <= 146096
    PROVE  /\ Century(of) \in Int /\ Century(of) >= 0 /\ Century(of) <= 3
           /\ InCentury(of) \in Int /\ InCentury(of) >= 0 /\ InCentury(of) <= 36524
           /\ InCentury(of) = 36524 => Century(of) = 3
           /\ of = 36524 * Century(of) + InCentury(of)
  BY SMT DEF Century, InCentury

\* Within it, in one of 25 cycles; the last, of the first three centuries, is a day short.
LEMMA Cycles ==
    ASSUME NEW of \in Int, of >= 0, of <= 146096
    PROVE  /\ Cycle(of) \in Int /\ Cycle(of) >= 0 /\ Cycle(of) <= 24
           /\ InCycle(of) \in Int /\ InCycle(of) >= 0 /\ InCycle(of) <= 1460
           /\ of = 36524 * Century(of) + 1461 * Cycle(of) + InCycle(of)
           /\ InCycle(of) = 1460 => Cycle(of) < 24 \/ Century(of) = 3
<1> DEFINE h == Century(of)
           r == InCentury(of)
<1>1. /\ h \in Int /\ h >= 0 /\ h <= 3 /\ r \in Int /\ r >= 0 /\ r <= 36524
      /\ r = 36524 => h = 3
      /\ of = 36524 * h + r
  BY Centuries, SMT
<1>2. Cycle(of) = r \div 1461 /\ InCycle(of) = r - 1461 * Cycle(of)
  BY SMT DEF Cycle, InCycle
<1> HIDE DEF h, r
<1>3. r \div 1461 \in Int /\ r \div 1461 >= 0 /\ r \div 1461 <= 24
  BY <1>1, SMT
<1>4. /\ r - 1461 * (r \div 1461) \in Int
      /\ r - 1461 * (r \div 1461) >= 0 /\ r - 1461 * (r \div 1461) <= 1460
  BY <1>1, <1>3, SMT
<1>5. r - 1461 * (r \div 1461) = 1460 /\ r \div 1461 = 24 => r = 36524
  BY <1>1, <1>3, SMT
<1>6. /\ Cycle(of) \in Int /\ Cycle(of) >= 0 /\ Cycle(of) <= 24
      /\ InCycle(of) \in Int /\ InCycle(of) >= 0 /\ InCycle(of) <= 1460
      /\ of = 36524 * h + 1461 * Cycle(of) + InCycle(of)
  BY <1>1, <1>2, <1>3, <1>4, SMT
<1>7. InCycle(of) = 1460 => Cycle(of) < 24 \/ h = 3
  BY <1>1, <1>2, <1>3, <1>4, <1>5, SMT
<1> QED
  BY <1>6, <1>7, SMT DEF h

\* The year of a day is the one that it lies in.
LEMMA DayOfYear ==
    ASSUME NEW of \in Int, of >= 0, of <= 146096
    PROVE  /\ YearOfEra(of) \in Int /\ YearOfEra(of) >= 0 /\ YearOfEra(of) <= 399
           /\ of >= YearStart(YearOfEra(of)) /\ of < NextYearStart(YearOfEra(of))
<1> DEFINE h == Century(of)
           j == Cycle(of)
           u == InCycle(of)
           i == InYear(u)
           y == 100 * h + 4 * j + i
           e == IF 24 * h + j + u >= 1460 THEN 1 ELSE 0
           last == IF of = 146096 THEN 1 ELSE 0
<1>1. /\ h \in Int /\ h >= 0 /\ h <= 3 /\ j \in Int /\ j >= 0 /\ j <= 24
      /\ u \in Int /\ u >= 0 /\ u <= 1460
      /\ u = 1460 => j < 24 \/ h = 3
      /\ of = 36524 * h + 1461 * j + u
  BY Centuries, Cycles, SMT
<1> HIDE DEF h, j, u
<1>2. /\ i \in Int /\ i >= 0 /\ i <= 3
      /\ u >= 365 * i
      /\ u <= 365 * i + 364 + IF u = 1460 THEN 1 ELSE 0
      /\ u = 1460 => i = 3
  BY <1>1, SMT DEF InYear
<1>3. i = IF u = 1460 THEN 3 ELSE u \div 365
  BY SMT DEF InYear
<1> HIDE DEF i
<1>4. YearOfEra(of) = y
  <2>1. of \div 1460 = 25 * h + j + e
    BY <1>1, SMT
  <2>2. of \div 36524 = h + last
    BY <1>1, SMT
  <2>3. of \div 146096 = last
    BY SMT
  <2>4. of - of \div 1460 + of \div 36524 - of \div 146096 = 365 * (100 * h + 4 * j) + (u - e)
    BY <1>1, <2>1, <2>2, <2>3, SMT
  <2>5. (u - e) \div 365 = i
    BY <1>1, <1>3, SMT
  <2>6. u - e \in Int
    BY <1>1, SMT
  <2> HIDE DEF e
  <2>7. (365 * (100 * h + 4 * j) + (u - e)) \div 365 = 100 * h + 4 * j + (u - e) \div 365
    BY <1>1, <2>6, SMT
  <2>8. YearOfEra(of) = (365 * (100 * h + 4 * j) + (u - e)) \div 365
    BY <2>4, SMT DEF YearOfEra
  <2> QED
    BY <1>1, <1>2, <2>5, <2>7, <2>8, SMT
<1>5. y \in Int /\ y >= 0 /\ y <= 399
  BY <1>1, <1>2, SMT
<1>6. y \div 4 = 25 * h + j /\ y \div 100 = h
  BY <1>1, <1>2, SMT
<1>7. (y + 1) \div 4 = 25 * h + j + IF i = 3 THEN 1 ELSE 0
  BY <1>1, <1>2, SMT
<1>8. (y + 1) \div 100 = h + IF i = 3 /\ j = 24 THEN 1 ELSE 0
  BY <1>1, <1>2, SMT
<1>9. of >= YearStart(y)
  BY <1>1, <1>2, <1>6, SMT DEF YearStart
<1>10. of < NextYearStart(y)
  <2>1. CASE y = 399
    BY <2>1, SMT DEF NextYearStart
  <2>2. CASE y # 399
    BY <1>1, <1>2, <1>7, <1>8, <2>2, SMT DEF YearStart, NextYearStart
  <2> QED
    BY <2>1, <2>2, SMT
<1> QED
  BY <1>4, <1>5, <1>9, <1>10, SMT

\* A year begins on a day.
LEMMA YearTypes ==
    ASSUME NEW y \in Int
    PROVE  YearStart(y) \in Int /\ NextYearStart(y) \in Int
  BY SMT DEF YearStart, NextYearStart

\* Years of an era do not overlap.
LEMMA YearsApart ==
    ASSUME NEW y \in Int, NEW z \in Int, 0 <= y, y < z, z <= 399
    PROVE  NextYearStart(y) <= YearStart(z)
  BY SMT DEF YearStart, NextYearStart

\* And no other.
LEMMA YearUnique ==
    ASSUME NEW y \in Int, y >= 0, y <= 399, NEW of \in Int, of >= 0, of <= 146096,
           of >= YearStart(y), of < NextYearStart(y)
    PROVE  YearOfEra(of) = y
<1> DEFINE z == YearOfEra(of)
<1>1. z \in Int /\ z >= 0 /\ z <= 399 /\ of >= YearStart(z) /\ of < NextYearStart(z)
  BY DayOfYear, SMT
<1> HIDE DEF z
<1>2. /\ YearStart(y) \in Int /\ NextYearStart(y) \in Int
      /\ YearStart(z) \in Int /\ NextYearStart(z) \in Int
  BY <1>1, YearTypes, SMT
<1>3. ASSUME z < y PROVE FALSE
  BY <1>1, <1>2, <1>3, YearsApart, SMT
<1>4. ASSUME y < z PROVE FALSE
  BY <1>1, <1>2, <1>4, YearsApart, SMT
<1>5. z = y
  BY <1>1, <1>3, <1>4, SMT
<1> QED
  BY <1>5, SMT DEF z

------------------------------------------------------------------------------
(* Months.                                                                 *)

\* The day of the year on which a month begins, months counted from March.
MonthOffset(m) == (153 * m + 2) \div 5

\* A day of the year lies in the month that the formula gives.
LEMMA MonthOfDay ==
    ASSUME NEW day \in Int, day >= 0, day <= 365, NEW m \in Int, m = (5 * day + 2) \div 153
    PROVE  /\ m >= 0 /\ m <= 11
           /\ MonthOffset(m) <= day
           /\ m < 11 => day < MonthOffset(m + 1)
  BY SMT DEF MonthOffset

\* And in no other.
LEMMA MonthUnique ==
    ASSUME NEW day \in Int, day >= 0, day <= 365, NEW m \in Int, m >= 0, m <= 11,
           MonthOffset(m) <= day, m < 11 => day < MonthOffset(m + 1)
    PROVE  (5 * day + 2) \div 153 = m
  BY SMT DEF MonthOffset

\* A year has 365 or 366 days of its era.
LEMMA YearLength ==
    ASSUME NEW y \in Int, y >= 0, y <= 399
    PROVE  NextYearStart(y) - YearStart(y) >= 365 /\ NextYearStart(y) - YearStart(y) <= 366
           /\ YearStart(y) >= 0 /\ NextYearStart(y) <= 146097
  BY SMT DEF NextYearStart, YearStart

\* The year and the month, counted from March.
ShiftedYear(year, month) == IF month <= 2 THEN year - 1 ELSE year
ShiftedMonth(month) == IF month > 2 THEN month - 3 ELSE month + 9

\* The first day of a month, from the year and the month counted from March.
LEMMA BeginsAt ==
    ASSUME NEW year \in Int, NEW month \in Int, month >= 1, month <= 12,
           NEW e \in Int, NEW y \in Int, y >= 0, y <= 399,
           ShiftedYear(year, month) = 400 * e + y
    PROVE  DayNumber(year, month, 1)
              = 146097 * e + YearStart(y) + MonthOffset(ShiftedMonth(month)) - 719468
<1>1. (month - 1) \div 12 = 0 /\ (month - 1) % 12 = month - 1
  BY SMT
<1>2. (400 * e + y) \div 400 = e /\ (400 * e + y) % 400 = y
  BY SMT
<1> QED
  BY <1>1, <1>2, SMT DEF DayNumber, ShiftedYear, ShiftedMonth, YearStart, MonthOffset

\* The first day of the month after.
LEMMA EndsAt ==
    ASSUME NEW year \in Int, NEW month \in Int, month >= 1, month <= 12,
           NEW e \in Int, NEW y \in Int, y >= 0, y <= 399,
           ShiftedYear(year, month) = 400 * e + y
    PROVE  DayNumber(year, month + 1, 1)
              = 146097 * e - 719468 + IF ShiftedMonth(month) = 11 THEN NextYearStart(y)
                                      ELSE YearStart(y) + MonthOffset(ShiftedMonth(month) + 1)
<1>1. (400 * e + y) \div 400 = e /\ (400 * e + y) % 400 = y
  BY SMT
<1>2. CASE month = 12
  <2>1. ((month + 1) - 1) \div 12 = 1 /\ ((month + 1) - 1) % 12 = 0
    BY <1>2, SMT
  <2> QED
    BY <1>1, <1>2, <2>1, SMT DEF DayNumber, ShiftedYear, ShiftedMonth, YearStart, MonthOffset
<1>3. CASE month # 12
  <2>1. ((month + 1) - 1) \div 12 = 0 /\ ((month + 1) - 1) % 12 = month
    BY <1>3, SMT
  <2>2. CASE month = 2
    <3>1. CASE y = 399
      <4>1. (400 * e + y + 1) \div 400 = e + 1 /\ (400 * e + y + 1) % 400 = 0
        BY <3>1, SMT
      <4> QED
        BY <2>1, <2>2, <3>1, <4>1, SMT
           DEF DayNumber, ShiftedYear, ShiftedMonth, YearStart, NextYearStart, MonthOffset
    <3>2. CASE y # 399
      <4>1. (400 * e + y + 1) \div 400 = e /\ (400 * e + y + 1) % 400 = y + 1
        BY <3>2, SMT
      <4> QED
        BY <2>1, <2>2, <3>2, <4>1, SMT
           DEF DayNumber, ShiftedYear, ShiftedMonth, YearStart, NextYearStart, MonthOffset
    <3> QED
      BY <3>1, <3>2
  <2>3. CASE month # 2
    BY <1>1, <1>3, <2>1, <2>3, SMT
       DEF DayNumber, ShiftedYear, ShiftedMonth, YearStart, MonthOffset
  <2> QED
    BY <2>2, <2>3
<1> QED
  BY <1>2, <1>3

\* A date has a day number.
LEMMA DayTypes ==
    ASSUME NEW year \in Int, NEW month \in Int, NEW day \in Int
    PROVE  DayNumber(year, month, day) \in Int
  BY SMT DEF DayNumber

\* Day 0 of a month is the day before its first.
LEMMA DayBefore ==
    ASSUME NEW year \in Int, NEW month \in Int
    PROVE  DayNumber(year, month, 0) = DayNumber(year, month, 1) - 1
  BY SMT DEF DayNumber

\* The first day of a month and that of the next, for every year.
LEMMA MonthSpan ==
    ASSUME NEW year \in Int, NEW month \in Int, month >= 1, month <= 12
    PROVE  LET e == ShiftedYear(year, month) \div 400
               y == ShiftedYear(year, month) % 400
               m == ShiftedMonth(month)
           IN /\ DayNumber(year, month, 1)
                    = 146097 * e + YearStart(y) + MonthOffset(m) - 719468
              /\ DayNumber(year, month + 1, 1)
                    = 146097 * e - 719468 + IF m = 11 THEN NextYearStart(y)
                                            ELSE YearStart(y) + MonthOffset(m + 1)
<1> DEFINE s == ShiftedYear(year, month)
           e == s \div 400
           y == s % 400
<1>1. s \in Int
  BY SMT DEF ShiftedYear
<1> HIDE DEF s
<1>2. e \in Int /\ y \in Int /\ y >= 0 /\ y <= 399 /\ s = 400 * e + y
  BY <1>1, SMT
<1> HIDE DEF e, y
<1>3. DayNumber(year, month, 1)
         = 146097 * e + YearStart(y) + MonthOffset(ShiftedMonth(month)) - 719468
  BY <1>2, BeginsAt, SMT DEF s
<1>4. DayNumber(year, month + 1, 1)
         = 146097 * e - 719468 + IF ShiftedMonth(month) = 11 THEN NextYearStart(y)
                                 ELSE YearStart(y) + MonthOffset(ShiftedMonth(month) + 1)
  BY <1>2, EndsAt, SMT DEF s
<1> QED
  BY <1>3, <1>4, SMT DEF e, y, s

\* The days of a month have that month and its year.
LEMMA DayInMonth ==
    ASSUME NEW year \in Int, NEW month \in Int, month >= 1, month <= 12,
           NEW d \in Int, d >= DayNumber(year, month, 1), d < DayNumber(year, month + 1, 1)
    PROVE  YearOf(d) = year /\ MonthOf(d) = month
<1> DEFINE e == ShiftedYear(year, month) \div 400
           y == ShiftedYear(year, month) % 400
           m == ShiftedMonth(month)
           of == d + 719468 - 146097 * e
           day == of - YearStart(y)
<1>1. /\ ShiftedYear(year, month) \in Int
      /\ m \in Int /\ m >= 0 /\ m <= 11 /\ ShiftedMonth(month) = m
  BY SMT DEF ShiftedYear, ShiftedMonth
<1>2. /\ e \in Int /\ y \in Int /\ y >= 0 /\ y <= 399
      /\ ShiftedYear(year, month) = 400 * e + y
  BY <1>1, SMT
<1>3. DayNumber(year, month, 1) = 146097 * e + YearStart(y) + MonthOffset(m) - 719468
  BY MonthSpan, SMT
<1>4. DayNumber(year, month + 1, 1)
         = 146097 * e - 719468 + IF m = 11 THEN NextYearStart(y)
                                 ELSE YearStart(y) + MonthOffset(m + 1)
  BY MonthSpan, SMT
<1> HIDE DEF e, y, m
<1>5. /\ YearStart(y) \in Int /\ NextYearStart(y) \in Int
      /\ YearStart(y) >= 0 /\ NextYearStart(y) <= 146097
      /\ NextYearStart(y) - YearStart(y) >= 365 /\ NextYearStart(y) - YearStart(y) <= 366
  BY <1>2, YearTypes, YearLength, SMT
<1>6. /\ MonthOffset(m) \in Int /\ MonthOffset(m) >= 0
      /\ m < 11 => MonthOffset(m + 1) \in Int /\ MonthOffset(m + 1) <= 365
  BY <1>1, SMT DEF MonthOffset
<1>7. /\ day \in Int /\ day >= 0 /\ day <= 365
      /\ MonthOffset(m) <= day
      /\ m < 11 => day < MonthOffset(m + 1)
  BY <1>1, <1>2, <1>3, <1>4, <1>5, <1>6, SMT
<1>8. /\ of \in Int /\ of >= 0 /\ of <= 146096
      /\ of >= YearStart(y) /\ of < NextYearStart(y)
  BY <1>1, <1>2, <1>3, <1>4, <1>5, <1>6, SMT
<1>9. (d + 719468) % 146097 = of /\ (d + 719468) \div 146097 = e
  BY <1>2, <1>8, SMT
<1> HIDE DEF of
<1>10. YearOfEra(of) = y
  BY <1>2, <1>8, YearUnique, SMT
<1>11. MarchDay(of, y) = day
  BY <1>2, <1>8, SMT DEF MarchDay, YearStart
<1> HIDE DEF day
<1>12. MarchMonth(d) = m
  BY <1>1, <1>7, <1>9, <1>10, <1>11, MonthUnique, SMT DEF MarchMonth, OfEra
<1>13. (m + 2) % 12 = month - 1 /\ (m >= 10 <=> month <= 2)
  BY SMT DEF m, ShiftedMonth
<1>14. MonthOf(d) = month
  BY <1>1, <1>12, <1>13, SMT DEF MonthOf
<1>15. YearOf(d) = y + 400 * e + (IF m >= 10 THEN 1 ELSE 0)
  BY <1>9, <1>10, <1>12, SMT DEF YearOf, OfEra
<1>16. 400 * e + y = IF month <= 2 THEN year - 1 ELSE year
  BY <1>2, SMT DEF ShiftedYear
<1>17. YearOf(d) = year
  BY <1>1, <1>2, <1>13, <1>15, <1>16, SMT
<1> QED
  BY <1>14, <1>17, SMT

\* A day lies in its month.
LEMMA MonthOfAnyDay ==
    ASSUME NEW d \in Int
    PROVE  /\ YearOf(d) \in Int /\ MonthOf(d) \in Int /\ MonthOf(d) >= 1 /\ MonthOf(d) <= 12
           /\ d >= DayNumber(YearOf(d), MonthOf(d), 1)
           /\ d < DayNumber(YearOf(d), MonthOf(d) + 1, 1)
<1> DEFINE e == (d + 719468) \div 146097
           of == (d + 719468) % 146097
           y == YearOfEra(of)
           day == MarchDay(of, y)
           m == MarchMonth(d)
<1>1. e \in Int /\ of \in Int /\ of >= 0 /\ of <= 146096 /\ d + 719468 = 146097 * e + of
  BY SMT
<1>2. YearOf(d) = y + 400 * e + (IF m >= 10 THEN 1 ELSE 0) /\ MonthOf(d) = 1 + ((m + 2) % 12)
  BY SMT DEF YearOf, MonthOf, OfEra
<1>3. m = (5 * day + 2) \div 153
  BY SMT DEF MarchMonth, OfEra
<1> HIDE DEF e, of, m
<1>4. y \in Int /\ y >= 0 /\ y <= 399 /\ of >= YearStart(y) /\ of < NextYearStart(y)
  BY <1>1, DayOfYear, SMT
<1> HIDE DEF y
<1>5. day = of - YearStart(y)
  BY <1>1, <1>4, SMT DEF MarchDay, YearStart
<1> HIDE DEF day
<1>6. /\ YearStart(y) \in Int /\ NextYearStart(y) \in Int
      /\ NextYearStart(y) - YearStart(y) <= 366
  BY <1>4, YearTypes, YearLength, SMT
<1>7. day \in Int /\ day >= 0 /\ day <= 365
  BY <1>1, <1>4, <1>5, <1>6, SMT
<1>8. /\ m \in Int /\ m >= 0 /\ m <= 11
      /\ MonthOffset(m) <= day
      /\ m < 11 => day < MonthOffset(m + 1)
  BY <1>3, <1>7, SMT DEF MonthOffset
<1> DEFINE year == YearOf(d)
           month == MonthOf(d)
<1>9. /\ year \in Int /\ month \in Int /\ month >= 1 /\ month <= 12
      /\ ShiftedYear(year, month) = 400 * e + y /\ ShiftedMonth(month) = m
  BY <1>1, <1>2, <1>4, <1>8, SMT DEF ShiftedYear, ShiftedMonth
<1> HIDE DEF year, month
<1>10. DayNumber(year, month, 1) = 146097 * e + YearStart(y) + MonthOffset(m) - 719468
  BY <1>1, <1>4, <1>9, BeginsAt, SMT
<1>11. DayNumber(year, month + 1, 1)
          = 146097 * e - 719468 + IF m = 11 THEN NextYearStart(y)
                                  ELSE YearStart(y) + MonthOffset(m + 1)
  BY <1>1, <1>4, <1>9, EndsAt, SMT
<1>12. MonthOffset(m) \in Int /\ MonthOffset(m + 1) \in Int
  BY <1>8, SMT DEF MonthOffset
<1>13. d >= DayNumber(year, month, 1) /\ d < DayNumber(year, month + 1, 1)
  BY <1>1, <1>4, <1>5, <1>6, <1>7, <1>8, <1>10, <1>11, <1>12, SMT
<1> QED
  BY <1>9, <1>13 DEF year, month

------------------------------------------------------------------------------
(* Years.                                                                  *)

\* New Year's Day, counted by the leap years before it.
LEMMA NewYear ==
    ASSUME NEW year \in Int
    PROVE  DayNumber(year, 1, 1)
              = 365 * (year - 1) + (year - 1) \div 4 - (year - 1) \div 100
                + (year - 1) \div 400 - 719162
<1>1. (1 - 1) \div 12 = 0 /\ (1 - 1) % 12 = 0
  BY SMT
<1> DEFINE s == year - 1
           e == s \div 400
           y == s % 400
<1>2. s \in Int /\ e \in Int /\ y \in Int /\ y >= 0 /\ y <= 399 /\ s = 400 * e + y
  BY SMT
<1>3. DayNumber(year, 1, 1) = e * 146097 + y * 365 + y \div 4 - y \div 100 - 719162
  BY <1>1, SMT DEF DayNumber
<1> HIDE DEF e, y
<1>4. (400 * e + y) \div 4 = 100 * e + y \div 4 /\ (400 * e + y) \div 100 = 4 * e + y \div 100
  BY <1>2, SMT
<1>5. DayNumber(year, 1, 1) = 365 * s + s \div 4 - s \div 100 + e - 719162
  BY <1>2, <1>3, <1>4, SMT
<1> QED
  BY <1>5, SMT DEF e

\* An earlier year ends before a later one begins.
LEMMA YearsInOrder ==
    ASSUME NEW year \in Int, NEW other \in Int, other < year
    PROVE  DayNumber(other + 1, 1, 1) <= DayNumber(year, 1, 1)
<1>1. other + 1 \in Int
  BY SMT
<1>2. \A y \in Int : DayNumber(y, 1, 1) = 365 * (y - 1) + (y - 1) \div 4 - (y - 1) \div 100
                + (y - 1) \div 400 - 719162
  BY NewYear, SMT
<1> DEFINE a == other b == year - 1
<1>3. a \in Int /\ b \in Int /\ a <= b
  BY SMT
<1>4. a \div 4 <= b \div 4 /\ a \div 400 <= b \div 400
  BY <1>3, SMT
<1>5. b \div 100 - a \div 100 <= b - a
  BY <1>3, SMT
<1>6. DayNumber(other + 1, 1, 1) = 365 * a + a \div 4 - a \div 100 + a \div 400 - 719162
  BY <1>1, <1>2, SMT
<1>7. DayNumber(year, 1, 1) = 365 * b + b \div 4 - b \div 100 + b \div 400 - 719162
  BY <1>2, SMT
<1> HIDE DEF a, b
<1> QED
  BY <1>3, <1>4, <1>5, <1>6, <1>7, SMT

\* A month has at least a day.
LEMMA MonthsInOrder ==
    ASSUME NEW year \in Int, NEW month \in Int, month >= 1, month <= 12
    PROVE  DayNumber(year, month, 1) < DayNumber(year, month + 1, 1)
<1> DEFINE e == ShiftedYear(year, month) \div 400
           y == ShiftedYear(year, month) % 400
           m == ShiftedMonth(month)
<1>1. m \in Int /\ m >= 0 /\ m <= 11 /\ e \in Int /\ y \in Int /\ y >= 0 /\ y <= 399
  BY SMT DEF ShiftedYear, ShiftedMonth
<1>2. /\ DayNumber(year, month, 1) = 146097 * e + YearStart(y) + MonthOffset(m) - 719468
      /\ DayNumber(year, month + 1, 1)
            = 146097 * e - 719468 + IF m = 11 THEN NextYearStart(y)
                                    ELSE YearStart(y) + MonthOffset(m + 1)
  BY MonthSpan, SMT
<1> HIDE DEF e, y, m
<1>3. YearStart(y) \in Int /\ NextYearStart(y) \in Int /\ NextYearStart(y) - YearStart(y) >= 365
  BY <1>1, YearTypes, YearLength, SMT
<1>4. /\ MonthOffset(m) \in Int /\ MonthOffset(m + 1) \in Int
      /\ MonthOffset(m) < MonthOffset(m + 1) /\ MonthOffset(11) < 365
  BY <1>1, SMT DEF MonthOffset
<1> QED
  BY <1>1, <1>2, <1>3, <1>4, SMT

\* Month 13 is January of the next year, month 0 December of the one before, and
\* 31 December is the last day.
LEMMA TurnOfYear ==
    ASSUME NEW year \in Int, NEW day \in Int
    PROVE  /\ DayNumber(year, 13, day) = DayNumber(year + 1, 1, day)
           /\ DayNumber(year, 0, day) = DayNumber(year - 1, 12, day)
           /\ DayNumber(year, 12, 31) + 1 = DayNumber(year + 1, 1, 1)
<1>1. DayNumber(year, 13, day) = DayNumber(year + 1, 1, day)
  BY SMT DEF DayNumber
<1>2. DayNumber(year, 0, day) = DayNumber(year - 1, 12, day)
  BY SMT DEF DayNumber
<1>3. DayNumber(year, 12, 31) + 1 = DayNumber(year + 1, 1, 1)
  BY SMT DEF DayNumber
<1> QED
  BY <1>1, <1>2, <1>3

\* A month lies between two New Year's Days.
LEMMA MonthsOfYear ==
    ASSUME NEW year \in Int, NEW month \in Int, month >= 1, month <= 12
    PROVE  /\ DayNumber(year, 1, 1) <= DayNumber(year, month, 1)
           /\ DayNumber(year, month + 1, 1) <= DayNumber(year + 1, 1, 1)
<1>1. \A m \in 1..13 : DayNumber(year, m, 1) \in Int
  BY DayTypes, SMT
<1>2. \A m \in 1..12 : DayNumber(year, m, 1) < DayNumber(year, m + 1, 1)
  BY MonthsInOrder, SMT
<1> DEFINE D(m) == DayNumber(year, m, 1)
<1>3. /\ D(1) < D(2) /\ D(2) < D(3) /\ D(3) < D(4) /\ D(4) < D(5) /\ D(5) < D(6) /\ D(6) < D(7)
      /\ D(7) < D(8) /\ D(8) < D(9) /\ D(9) < D(10) /\ D(10) < D(11) /\ D(11) < D(12)
      /\ D(12) < D(13)
  BY <1>2, SMT
<1>4. D(13) = DayNumber(year + 1, 1, 1)
  BY TurnOfYear, SMT
<1>5. month \in 1..12
  BY SMT
<1>6. \A m \in 1..13 : D(m) \in Int
  BY <1>1
<1> HIDE DEF D
<1>7. D(1) <= D(month) /\ D(month + 1) <= D(13)
  BY <1>3, <1>5, <1>6, SMT
<1> QED
  BY <1>4, <1>7, SMT DEF D

\* The days of a year have that year.
LEMMA DayInYear ==
    ASSUME NEW year \in Int, NEW d \in Int,
           d >= DayNumber(year, 1, 1), d <= DayNumber(year, 12, 31)
    PROVE  YearOf(d) = year
<1> DEFINE z == YearOf(d)
           n == MonthOf(d)
<1>1. /\ z \in Int /\ n \in Int /\ n >= 1 /\ n <= 12
      /\ d >= DayNumber(z, n, 1) /\ d < DayNumber(z, n + 1, 1)
  BY MonthOfAnyDay, SMT
<1> HIDE DEF z, n
<1>2. DayNumber(z, 1, 1) <= DayNumber(z, n, 1) /\ DayNumber(z, n + 1, 1) <= DayNumber(z + 1, 1, 1)
  BY <1>1, MonthsOfYear, SMT
<1>3. DayNumber(year, 12, 31) + 1 = DayNumber(year + 1, 1, 1)
  BY TurnOfYear, SMT
<1>4. /\ DayNumber(z, 1, 1) \in Int /\ DayNumber(z, n, 1) \in Int /\ DayNumber(z, n + 1, 1) \in Int
      /\ DayNumber(z + 1, 1, 1) \in Int /\ DayNumber(year, 1, 1) \in Int
      /\ DayNumber(year + 1, 1, 1) \in Int /\ DayNumber(year, 12, 31) \in Int
  <2>1. z + 1 \in Int /\ n + 1 \in Int /\ year + 1 \in Int /\ 1 \in Int /\ 12 \in Int /\ 31 \in Int
    BY <1>1, SMT
  <2> QED
    BY <1>1, <2>1, DayTypes
<1>5. ASSUME z < year PROVE FALSE
  <2>1. DayNumber(z + 1, 1, 1) <= DayNumber(year, 1, 1)
    BY <1>1, <1>5, YearsInOrder, SMT
  <2> QED
    BY <1>1, <1>2, <1>4, <2>1, SMT
<1>6. ASSUME year < z PROVE FALSE
  <2>1. DayNumber(year + 1, 1, 1) <= DayNumber(z, 1, 1)
    BY <1>1, <1>6, YearsInOrder, SMT
  <2> QED
    BY <1>1, <1>2, <1>3, <1>4, <2>1, SMT
<1>7. z = year
  BY <1>1, <1>5, <1>6, SMT
<1> QED
  BY <1>7, SMT DEF z

------------------------------------------------------------------------------
(* Periods.                                                                *)

\* A day is one of the seven that begin on its Monday.
LEMMA WeekOfDay ==
    ASSUME NEW d \in Int
    PROVE  MondayOf(d) \in Int /\ MondayOf(d) <= d /\ d <= MondayOf(d) + 6
  BY SMT DEF MondayOf, DayOfWeek

\* And all seven have that Monday.
LEMMA DayInWeek ==
    ASSUME NEW d \in Int, NEW x \in Int, MondayOf(d) <= x, x <= MondayOf(d) + 6
    PROVE  MondayOf(x) = MondayOf(d)
  BY SMT DEF MondayOf, DayOfWeek

\* The day before a Monday belongs to the Monday a week earlier.
LEMMA WeekBefore ==
    ASSUME NEW d \in Int
    PROVE  MondayOf(MondayOf(d) - 1) = MondayOf(d) - 7
  BY SMT DEF MondayOf, DayOfWeek

\* The day before a month belongs to the month before it, in January too.
LEMMA MonthBefore ==
    ASSUME NEW year \in Int, NEW month \in Int, month >= 1, month <= 12,
           NEW d \in Int, d = DayNumber(year, month, 1) - 1
    PROVE  /\ DayNumber(YearOf(d), MonthOf(d), 1) = DayNumber(year, month - 1, 1)
           /\ DayNumber(YearOf(d), MonthOf(d) + 1, 1) = DayNumber(year, month, 1)
           /\ DayNumber(year, month - 1, 1) <= d
<1>1. CASE month = 1
  <2>1. /\ DayNumber(year, 0, 1) = DayNumber(year - 1, 12, 1)
        /\ DayNumber(year - 1, 13, 1) = DayNumber(year, 1, 1)
        /\ DayNumber(year - 1, 12, 1) < DayNumber(year - 1, 13, 1)
    <3>1. year - 1 \in Int /\ (year - 1) + 1 = year /\ 12 + 1 = 13
      BY SMT
    <3>2. DayNumber(year, 0, 1) = DayNumber(year - 1, 12, 1)
      BY TurnOfYear, SMT
    <3>3. DayNumber(year - 1, 13, 1) = DayNumber(year, 1, 1)
      BY <3>1, TurnOfYear, SMT
    <3>4. DayNumber(year - 1, 12, 1) < DayNumber(year - 1, 13, 1)
      BY <3>1, MonthsInOrder, SMT
    <3> QED
      BY <3>2, <3>3, <3>4
  <2>2. DayNumber(year - 1, 12, 1) \in Int /\ DayNumber(year, 1, 1) \in Int
    <3>1. year - 1 \in Int /\ 12 \in Int /\ 1 \in Int
      BY SMT
    <3> QED
      BY <3>1, DayTypes
  <2>3. d >= DayNumber(year - 1, 12, 1) /\ d < DayNumber(year - 1, 13, 1)
    BY <1>1, <2>1, <2>2, SMT
  <2>4. YearOf(d) = year - 1 /\ MonthOf(d) = 12
    <3>1. year - 1 \in Int /\ 12 \in Int /\ 12 >= 1 /\ 12 <= 12 /\ 12 + 1 = 13
      BY SMT
    <3> QED
      BY <2>3, <3>1, DayInMonth, SMT
  <2>5. month - 1 = 0 /\ 12 + 1 = 13
    BY <1>1, SMT
  <2> QED
    BY <1>1, <2>1, <2>2, <2>3, <2>4, <2>5, SMT
<1>2. CASE month # 1
  <2>1. month - 1 \in Int /\ month - 1 >= 1 /\ month - 1 <= 12 /\ (month - 1) + 1 = month
    BY <1>2, SMT
  <2>2. DayNumber(year, month - 1, 1) < DayNumber(year, month, 1)
    BY <2>1, MonthsInOrder, SMT
  <2>3. DayNumber(year, month - 1, 1) \in Int /\ DayNumber(year, month, 1) \in Int
    BY <2>1, DayTypes, SMT
  <2>4. d >= DayNumber(year, month - 1, 1) /\ d < DayNumber(year, month, 1)
    BY <2>2, <2>3, SMT
  <2>5. YearOf(d) = year /\ MonthOf(d) = month - 1
    BY <2>1, <2>4, DayInMonth, SMT
  <2> QED
    BY <2>1, <2>4, <2>5, SMT
<1> QED
  BY <1>1, <1>2

\* Between the first and the last day of a period, at least a day remains.
LEMMA Remaining ==
    ASSUME NEW d \in Int, NEW start \in Int, NEW end \in Int, start <= d, d <= end
    PROVE  DaysRemaining(d, end) \in 1..(end - start + 1)
  BY SMT DEF DaysRemaining

\* The weeks, months and years of a budget are the periods that PeriodsTile asks for.
LEMMA WeeksTile ==
    ASSUME NEW day \in Int
    PROVE  PeriodsTile("weekly", day, CurrentPeriodBounds("weekly", day, None))
<1> DEFINE m == MondayOf(day)
           bounds == [start |-> m, end |-> m + 6, previousStart |-> m - 7, previousEnd |-> m - 1]
<1>1. \A d : CurrentPeriodBounds("weekly", d, None)
                = [start |-> MondayOf(d), end |-> MondayOf(d) + 6,
                   previousStart |-> MondayOf(d) - 7, previousEnd |-> MondayOf(d) - 1]
  BY DEF CurrentPeriodBounds, WeeklyBounds
<1>2. m \in Int /\ m <= day /\ day <= m + 6
  BY WeekOfDay
<1>3. MondayOf(m - 1) = m - 7
  BY WeekBefore
<1>4. \A d \in m..(m + 6) : MondayOf(d) = m
  BY <1>2, DayInWeek, SMT
<1>5. CurrentPeriodBounds("weekly", day, None) = bounds
  BY <1>1
<1> HIDE DEF m
<1>6. DaysRemaining(day, m + 6) \in 1..((m + 6) - m + 1)
  <2>1. m + 6 \in Int
    BY <1>2, SMT
  <2> QED
    BY <1>2, <2>1, Remaining
<1>7. \A d \in m..(m + 6) : CurrentPeriodBounds("weekly", d, None) = bounds
  BY <1>1, <1>4
<1>8. LET before == CurrentPeriodBounds("weekly", m - 1, None)
      IN before.start = m - 7 /\ before.end = m - 1
  <2>1. m - 7 + 6 = m - 1
    BY <1>2, SMT
  <2> QED
    BY <1>1, <1>3, <2>1
<1>9. m - 1 + 1 = m /\ m - 7 # m
  BY <1>2, SMT
<1> QED
  BY <1>2, <1>5, <1>6, <1>7, <1>8, <1>9 DEF PeriodsTile, PeriodKey

\* Months.
LEMMA MonthsTile ==
    ASSUME NEW day \in Int
    PROVE  PeriodsTile("monthly", day, CurrentPeriodBounds("monthly", day, None))
<1> DEFINE y == YearOf(day)
           m == MonthOf(day)
           first == DayNumber(y, m, 1)
           next == DayNumber(y, m + 1, 1)
           last == DayNumber(y, m - 1, 1)
           bounds == [start |-> first, end |-> next - 1,
                      previousStart |-> last, previousEnd |-> first - 1]
<1>1. /\ y \in Int /\ m \in Int /\ m >= 1 /\ m <= 12 /\ day >= first /\ day < next
  BY MonthOfAnyDay, SMT
<1> HIDE DEF y, m
<1>2. \A year, month \in Int :
         /\ DayNumber(year, month, 0) = DayNumber(year, month, 1) - 1
         /\ DayNumber(year, month, 1) \in Int
  BY DayBefore, DayTypes, SMT
<1>3. \A d : YearOf(d) \in Int /\ MonthOf(d) \in Int =>
         CurrentPeriodBounds("monthly", d, None)
                = [start |-> DayNumber(YearOf(d), MonthOf(d), 1),
                   end |-> DayNumber(YearOf(d), MonthOf(d) + 1, 1) - 1,
                   previousStart |-> DayNumber(YearOf(d), MonthOf(d) - 1, 1),
                   previousEnd |-> DayNumber(YearOf(d), MonthOf(d), 1) - 1]
  <2>1. SUFFICES ASSUME NEW d, YearOf(d) \in Int, MonthOf(d) \in Int
                 PROVE  CurrentPeriodBounds("monthly", d, None)
                = [start |-> DayNumber(YearOf(d), MonthOf(d), 1),
                   end |-> DayNumber(YearOf(d), MonthOf(d) + 1, 1) - 1,
                   previousStart |-> DayNumber(YearOf(d), MonthOf(d) - 1, 1),
                   previousEnd |-> DayNumber(YearOf(d), MonthOf(d), 1) - 1]
    OBVIOUS
  <2>2. /\ DayNumber(YearOf(d), MonthOf(d) + 1, 0) = DayNumber(YearOf(d), MonthOf(d) + 1, 1) - 1
        /\ DayNumber(YearOf(d), MonthOf(d) - 1 + 1, 0) = DayNumber(YearOf(d), MonthOf(d), 1) - 1
    <3>1. MonthOf(d) + 1 \in Int /\ MonthOf(d) - 1 + 1 = MonthOf(d)
      BY <2>1, SMT
    <3> QED
      BY <1>2, <2>1, <3>1
  <2> QED
    BY <2>2 DEF CurrentPeriodBounds, MonthlyBounds, MonthStart, MonthEnd
<1>4. first \in Int /\ next \in Int /\ last \in Int
  <2>1. m + 1 \in Int /\ m - 1 \in Int
    BY <1>1, SMT
  <2> QED
    BY <1>1, <1>2, <2>1
<1>5. \A d \in Int : d >= first /\ d < next => YearOf(d) = y /\ MonthOf(d) = m
  BY <1>1, DayInMonth, SMT
<1>6. /\ DayNumber(YearOf(first - 1), MonthOf(first - 1), 1) = last
      /\ DayNumber(YearOf(first - 1), MonthOf(first - 1) + 1, 1) = first
      /\ last <= first - 1
  <2>1. first - 1 \in Int
    BY <1>4, SMT
  <2> QED
    BY <1>1, <2>1, MonthBefore, SMT
<1>7. YearOf(first - 1) \in Int /\ MonthOf(first - 1) \in Int
  <2>1. first - 1 \in Int
    BY <1>4, SMT
  <2> QED
    BY <2>1, MonthOfAnyDay
<1>8. CurrentPeriodBounds("monthly", day, None) = bounds
  BY <1>1, <1>3 DEF y, m
<1> HIDE DEF first, next, last
<1>9. \A d \in first..(next - 1) : CurrentPeriodBounds("monthly", d, None) = bounds
  <2>1. SUFFICES ASSUME NEW d \in first..(next - 1)
                 PROVE  CurrentPeriodBounds("monthly", d, None) = bounds
    OBVIOUS
  <2>2. d \in Int /\ d >= first /\ d < next
    BY <1>4, <2>1, SMT
  <2>3. YearOf(d) = y /\ MonthOf(d) = m
    BY <1>5, <2>2
  <2> QED
    BY <1>1, <1>3, <2>3 DEF first, next, last
<1>10. LET before == CurrentPeriodBounds("monthly", first - 1, None)
       IN before.start = last /\ before.end = first - 1
  BY <1>3, <1>6, <1>7
<1>11. DaysRemaining(day, next - 1) \in 1..((next - 1) - first + 1)
  <2>1. next - 1 \in Int /\ first <= day /\ day <= next - 1
    BY <1>1, <1>4, SMT
  <2> QED
    BY <1>4, <2>1, Remaining
<1>12. /\ first <= day /\ day <= next - 1 /\ first - 1 + 1 = first /\ last # first
  BY <1>1, <1>4, <1>6, SMT
<1> QED
  BY <1>8, <1>9, <1>10, <1>11, <1>12 DEF PeriodsTile, PeriodKey

\* Years.
LEMMA YearsTile ==
    ASSUME NEW day \in Int
    PROVE  PeriodsTile("yearly", day, CurrentPeriodBounds("yearly", day, None))
<1> DEFINE y == YearOf(day)
           first == DayNumber(y, 1, 1)
           end == DayNumber(y, 12, 31)
           last == DayNumber(y - 1, 1, 1)
           bounds == [start |-> first, end |-> end, previousStart |-> last, previousEnd |-> first - 1]
<1>1. y \in Int
  BY MonthOfAnyDay
<1>2. first <= day /\ day <= end
  <2>1. /\ MonthOf(day) \in Int /\ MonthOf(day) >= 1 /\ MonthOf(day) <= 12
        /\ day >= DayNumber(y, MonthOf(day), 1)
        /\ day < DayNumber(y, MonthOf(day) + 1, 1)
    BY MonthOfAnyDay, SMT
  <2> DEFINE m == MonthOf(day)
  <2> HIDE DEF y
  <2>2. first <= DayNumber(y, m, 1) /\ DayNumber(y, m + 1, 1) <= DayNumber(y + 1, 1, 1)
    BY <1>1, <2>1, MonthsOfYear, SMT
  <2>3. end + 1 = DayNumber(y + 1, 1, 1)
    BY <1>1, TurnOfYear, SMT
  <2>4. first \in Int /\ end \in Int /\ DayNumber(y, m, 1) \in Int /\ DayNumber(y, m + 1, 1) \in Int
    <3>1. m + 1 \in Int /\ 12 \in Int /\ 31 \in Int /\ 1 \in Int
      BY <2>1, SMT
    <3> QED
      BY <1>1, <2>1, <3>1, DayTypes
  <2> QED
    BY <2>1, <2>2, <2>3, <2>4, SMT
<1>3. \A d : CurrentPeriodBounds("yearly", d, None)
                = [start |-> DayNumber(YearOf(d), 1, 1), end |-> DayNumber(YearOf(d), 12, 31),
                   previousStart |-> DayNumber(YearOf(d) - 1, 1, 1),
                   previousEnd |-> DayNumber(YearOf(d) - 1, 12, 31)]
  BY DEF CurrentPeriodBounds, YearlyBounds
<1> HIDE DEF y
<1>4. /\ first \in Int /\ end \in Int /\ last \in Int /\ DayNumber(y - 1, 12, 31) \in Int
  <2>1. y - 1 \in Int /\ 12 \in Int /\ 31 \in Int /\ 1 \in Int
    BY <1>1, SMT
  <2> QED
    BY <1>1, <2>1, DayTypes
<1>5. DayNumber(y - 1, 12, 31) = first - 1
  <2>1. y - 1 \in Int /\ y - 1 + 1 = y
    BY <1>1, SMT
  <2>2. DayNumber(y - 1, 12, 31) + 1 = DayNumber(y, 1, 1)
    BY <2>1, TurnOfYear, SMT
  <2> QED
    BY <1>4, <2>2, SMT
<1>6. last < first
  <2>1. y - 1 \in Int /\ y - 1 < y /\ y - 2 + 1 = y - 1 /\ y - 2 \in Int /\ y - 2 < y - 1
    BY <1>1, SMT
  <2>2. /\ DayNumber(y - 1, 1, 1) <= DayNumber(y - 1, 12, 1)
        /\ DayNumber(y - 1, 12, 1) < DayNumber(y - 1, 13, 1)
        /\ DayNumber(y - 1, 13, 1) = DayNumber(y - 1 + 1, 1, 1)
        /\ y - 1 + 1 = y
    <3>1. 12 \in Int /\ 12 >= 1 /\ 12 <= 12 /\ 12 + 1 = 13 /\ y - 1 + 1 = y
      BY <1>1, SMT
    <3>2. DayNumber(y - 1, 1, 1) <= DayNumber(y - 1, 12, 1)
      BY <2>1, <3>1, MonthsOfYear, SMT
    <3>3. DayNumber(y - 1, 12, 1) < DayNumber(y - 1, 13, 1)
      BY <2>1, <3>1, MonthsInOrder, SMT
    <3>4. DayNumber(y - 1, 13, 1) = DayNumber(y - 1 + 1, 1, 1)
      BY <2>1, TurnOfYear, SMT
    <3> QED
      BY <3>1, <3>2, <3>3, <3>4
  <2>3. DayNumber(y - 1, 12, 1) \in Int
    <3>1. 12 \in Int /\ 1 \in Int
      BY SMT
    <3> QED
      BY <2>1, <3>1, DayTypes
  <2> QED
    BY <1>4, <2>2, <2>3, SMT
<1>7. \A d \in Int : d >= first /\ d <= end => YearOf(d) = y
  BY <1>1, DayInYear, SMT
<1>8. YearOf(first - 1) = y - 1
  <2>1. y - 1 \in Int /\ first - 1 \in Int /\ last <= first - 1
    BY <1>1, <1>4, <1>6, SMT
  <2> QED
    BY <1>4, <1>5, <2>1, DayInYear, SMT
<1>9. CurrentPeriodBounds("yearly", day, None) = bounds
  BY <1>3, <1>5 DEF y
<1> HIDE DEF first, end, last
<1>10. \A d \in first..end : CurrentPeriodBounds("yearly", d, None) = bounds
  <2>1. SUFFICES ASSUME NEW d \in first..end
                 PROVE  CurrentPeriodBounds("yearly", d, None) = bounds
    OBVIOUS
  <2>2. YearOf(d) = y
    BY <1>4, <1>7, SMT
  <2> QED
    BY <1>3, <1>5, <2>2 DEF first, end, last
<1>11. LET before == CurrentPeriodBounds("yearly", first - 1, None)
       IN before.start = last /\ before.end = first - 1
  BY <1>3, <1>5, <1>8 DEF last
<1>12. DaysRemaining(day, end) \in 1..(end - first + 1)
  BY <1>2, <1>4, Remaining
<1>13. first - 1 + 1 = first /\ last # first
  BY <1>4, <1>6, SMT
<1> QED
  BY <1>2, <1>9, <1>10, <1>11, <1>12, <1>13 DEF PeriodsTile, PeriodKey

------------------------------------------------------------------------------
(* Phrases.                                                                *)

\* The ranges that end by today, and begin before they end.
EndsByToday(range) ==
    /\ range \in [from : Int, to : Int]
    /\ range.from <= range.to /\ range.to <= today

\* Every phrase stands for such a range, the last month, week and year for the
\* period before today's.
LEMMA PhraseRanges ==
    ASSUME today \in Int
    PROVE  LET Previous(period) == LET b == CurrentPeriodBounds(period, today, None)
                                   IN [from |-> b.previousStart, to |-> b.previousEnd]
           IN /\ \A key \in ToSet(PhraseKeys) : EndsByToday(PhraseRange(key, today))
              /\ PhraseRange("lastMonth", today) = Previous("monthly")
              /\ PhraseRange("lastWeek", today) = Previous("weekly")
              /\ PhraseRange("lastYear", today) = Previous("yearly")
<1> DEFINE y == YearOf(today)
           m == MonthOf(today)
           w == MondayOf(today)
<1>1. /\ y \in Int /\ m \in Int /\ m >= 1 /\ m <= 12
      /\ today >= DayNumber(y, m, 1) /\ today < DayNumber(y, m + 1, 1)
  BY MonthOfAnyDay, SMT
<1>2. w \in Int /\ w <= today
  BY WeekOfDay
<1> HIDE DEF y, m, w
<1>3. /\ DayNumber(y, m, 1) \in Int /\ DayNumber(y, m - 1, 1) \in Int
      /\ DayNumber(y, 1, 1) \in Int /\ DayNumber(y - 1, 1, 1) \in Int
      /\ DayNumber(y - 1, 12, 31) \in Int
  <2>1. m - 1 \in Int /\ y - 1 \in Int /\ 1 \in Int /\ 12 \in Int /\ 31 \in Int
    BY <1>1, SMT
  <2> QED
    BY <1>1, <2>1, DayTypes
<1>4. DayNumber(y, m, 0) = DayNumber(y, m, 1) - 1
  BY <1>1, DayBefore
<1>5. DayNumber(y, m - 1, 1) <= DayNumber(y, m, 1) - 1
  <2>1. DayNumber(y, m, 1) - 1 \in Int
    BY <1>3, SMT
  <2> QED
    BY <1>1, <2>1, MonthBefore, SMT
<1>6. DayNumber(y, 1, 1) <= today
  BY <1>1, <1>3, MonthsOfYear, SMT
<1>7. DayNumber(y - 1, 12, 31) = DayNumber(y, 1, 1) - 1
  <2>1. y - 1 \in Int /\ y - 1 + 1 = y
    BY <1>1, SMT
  <2>2. DayNumber(y - 1, 12, 31) + 1 = DayNumber(y, 1, 1)
    BY <2>1, TurnOfYear, SMT
  <2> QED
    BY <1>3, <2>2, SMT
<1>8. DayNumber(y - 1, 1, 1) <= DayNumber(y, 1, 1) - 1
  <2>1. y - 1 \in Int /\ y - 1 + 1 = y /\ 12 \in Int /\ 12 >= 1 /\ 12 <= 12 /\ 12 + 1 = 13 /\ 1 \in Int
    BY <1>1, SMT
  <2>2. /\ DayNumber(y - 1, 1, 1) <= DayNumber(y - 1, 12, 1)
        /\ DayNumber(y - 1, 12, 1) < DayNumber(y - 1, 13, 1)
    BY <2>1, MonthsOfYear, MonthsInOrder, SMT
  <2>3. DayNumber(y - 1, 13, 1) = DayNumber(y, 1, 1)
    BY <2>1, TurnOfYear, SMT
  <2>4. DayNumber(y - 1, 12, 1) \in Int
    BY <2>1, DayTypes
  <2> QED
    BY <1>3, <2>2, <2>3, <2>4, SMT
<1>9. EndsByToday([from |-> DayNumber(y, m, 1), to |-> today])
  BY <1>1, <1>3, SMT DEF EndsByToday
<1>10. EndsByToday([from |-> DayNumber(y, m - 1, 1), to |-> DayNumber(y, m, 0)])
  BY <1>1, <1>3, <1>4, <1>5, SMT DEF EndsByToday
<1>11. EndsByToday([from |-> w, to |-> today]) /\ EndsByToday([from |-> w - 7, to |-> w - 1])
  BY <1>2, SMT DEF EndsByToday
<1>12. \A n \in {6, 13, 29, 89} : EndsByToday([from |-> today - n, to |-> today])
  BY SMT DEF EndsByToday
<1>13. EndsByToday([from |-> DayNumber(y, 1, 1), to |-> today])
  BY <1>3, <1>6, SMT DEF EndsByToday
<1>14. EndsByToday([from |-> DayNumber(y - 1, 1, 1), to |-> DayNumber(y - 1, 12, 31)])
  BY <1>3, <1>6, <1>7, <1>8, SMT DEF EndsByToday
<1>15. \A key \in ToSet(PhraseKeys) : EndsByToday(PhraseRange(key, today))
  <2> HIDE DEF EndsByToday
  <2>1. SUFFICES ASSUME NEW key \in {"thisMonth", "lastMonth", "thisWeek", "lastWeek", "last7",
                                     "last14", "last30", "last90", "thisYear", "ytd", "lastYear"}
                 PROVE  EndsByToday(PhraseRange(key, today))
    BY DEF ToSet, PhraseKeys
  <2>2. CASE key \in {"thisMonth", "lastMonth"}
    BY <1>9, <1>10, <2>2 DEF PhraseRange, PreviousMonthBounds, MonthStart, y, m
  <2>3. CASE key \in {"thisWeek", "lastWeek"}
    BY <1>11, <2>3 DEF PhraseRange, w
  <2>4. CASE key \in {"last7", "last14", "last30", "last90"}
    BY <1>12, <2>4 DEF PhraseRange
  <2>5. CASE key \in {"thisYear", "ytd", "lastYear"}
    BY <1>13, <1>14, <2>5 DEF PhraseRange, y
  <2> QED
    BY <2>1, <2>2, <2>3, <2>4, <2>5
<1>16. m - 1 + 1 = m
  BY <1>1, SMT
<1> QED
  BY <1>15, <1>16
     DEF PhraseRange, PreviousMonthBounds, MonthStart, MonthEnd, CurrentPeriodBounds,
         WeeklyBounds, MonthlyBounds, YearlyBounds, y, m

\* A message with a phrase is resolved to one that it contains.
LEMMA FirstPhrase ==
    ASSUME NEW found \in Phrases, NEW d,
           \E i \in DOMAIN PhraseKeys : PhraseKeys[i] \in found
    PROVE  \E key \in found : key \in ToSet(PhraseKeys)
                              /\ ResolvePhraseDateRange(found, d) = PhraseRange(key, d)
<1> DEFINE first(i) == /\ PhraseKeys[i] \in found
                       /\ \A j \in 1..(i - 1) : PhraseKeys[j] \notin found
<1>1. DOMAIN PhraseKeys = 1..11
  BY DEF PhraseKeys
<1>2. \E i \in 1..11 : first(i)
  BY <1>1, SMT DEF PhraseKeys
<1>3. PICK i \in DOMAIN PhraseKeys : i = CHOOSE x \in DOMAIN PhraseKeys : first(x)
  BY <1>1, <1>2
<1>4. first(i)
  BY <1>1, <1>2, <1>3
<1>5. PhraseKeys[i] \in ToSet(PhraseKeys)
  BY DEF ToSet
<1> QED
  BY <1>3, <1>4, <1>5 DEF ResolvePhraseDateRange

\* So the phrases of a message agree with the budgets' periods.
LEMMA PhrasesAgree ==
    ASSUME today \in Int, NEW found \in Phrases
    PROVE  PhraseAgrees(found, ResolvePhraseDateRange(found, today))
<1> DEFINE range == ResolvePhraseDateRange(found, today)
<1>1. CASE ~ \E i \in DOMAIN PhraseKeys : PhraseKeys[i] \in found
  <2>1. found = {}
    BY <1>1, PhrasesAssumption DEF ToSet
  <2> QED
    BY <1>1, <2>1 DEF PhraseAgrees, ResolvePhraseDateRange
<1>2. CASE \E i \in DOMAIN PhraseKeys : PhraseKeys[i] \in found
  <2>1. PICK key \in found : key \in ToSet(PhraseKeys) /\ range = PhraseRange(key, today)
    BY <1>2, FirstPhrase
  <2>2. EndsByToday(range)
    BY <2>1, PhraseRanges
  <2> HIDE DEF range
  <2>3. range # None
    BY <2>2, RangesAssumption DEF EndsByToday
  <2>4. \A x : found = {x} => key = x
    BY <2>1
  <2>5. \A option \in {"thisMonth", "lastMonth", "last30", "ytd"} :
            ClarificationRange(option, today) = PhraseRange(option, today)
    BY DEF ClarificationRange, PhraseRange
  <2>6. LET earlier == PreviousRangeOf(range)
        IN /\ earlier.to + 1 = range.from
           /\ earlier.to - earlier.from = range.to - range.from
    BY <2>2, SMT DEF EndsByToday, PreviousRangeOf
  <2>7. range.from <= range.to /\ range.to <= today
    BY <2>2 DEF EndsByToday
  <2>8. LET Previous(period) == LET b == CurrentPeriodBounds(period, today, None)
                                IN [from |-> b.previousStart, to |-> b.previousEnd]
        IN /\ found = {"lastMonth"} => range = Previous("monthly")
           /\ found = {"lastWeek"}  => range = Previous("weekly")
           /\ found = {"lastYear"}  => range = Previous("yearly")
    BY <2>1, <2>4, PhraseRanges
  <2>9. \A option \in {"thisMonth", "lastMonth", "last30", "ytd"} :
           found = {option} => ClarificationRange(option, today) = range
    BY <2>1, <2>4, <2>5
  <2> QED
    BY <2>3, <2>6, <2>7, <2>8, <2>9 DEF PhraseAgrees, range
<1> QED
  BY <1>1, <1>2

------------------------------------------------------------------------------
(* The invariant.                                                           *)

\* Today is a day, and the answer is right for the question asked.
PeriodsInv == today \in Int /\ PeriodsAgree

\* A question about periods is answered rightly, others do not matter.
LEMMA Asked ==
    ASSUME today \in Int, NEW question, NEW reply, Ask(question, reply),
           question.kind = "period" => PeriodsTile(question.period, today, reply),
           question.kind = "phrase" => PhraseAgrees(question.found, reply)
    PROVE  PeriodsInv'
  BY DEF Ask, PeriodsInv, PeriodsAgree, PeriodsTile, PhraseAgrees

\* A question about something else changes nothing of that.
LEMMA OthersAsked ==
    ASSUME today \in Int, NEW question, NEW reply, Ask(question, reply),
           question.kind \notin {"period", "phrase"}
    PROVE  PeriodsInv'
  BY Asked

\* A period.
LEMMA PeriodAsked ==
    ASSUME today \in Int, NEW period \in Calendar, AskPeriod(period)
    PROVE  PeriodsInv'
<1>1. PeriodsTile(period, today, CurrentPeriodBounds(period, today, None))
  BY WeeksTile, MonthsTile, YearsTile DEF Calendar
<1> QED
  BY <1>1, Asked DEF AskPeriod

\* A phrase.
LEMMA PhraseAsked ==
    ASSUME today \in Int, NEW found \in Phrases, AskPhrase(found)
    PROVE  PeriodsInv'
  BY PhrasesAgree, Asked DEF AskPhrase

\* Every question.
LEMMA PeriodsStep ==
    ASSUME PeriodsInv, ReportNext
    PROVE  PeriodsInv'
<1>1. today \in Int
  BY DEF PeriodsInv
<1>2. ASSUME NEW v \in Amounts, WriteAmount(v) PROVE PeriodsInv'
  BY <1>1, <1>2, OthersAsked DEF WriteAmount
<1>3. ASSUME NEW p \in Calendar, AskPeriod(p) PROVE PeriodsInv'
  BY <1>1, <1>3, PeriodAsked
<1>4. ASSUME NEW f \in Phrases, AskPhrase(f) PROVE PeriodsInv'
  BY <1>1, <1>4, PhraseAsked
<1>5. ASSUME NEW v \in Amounts, NEW w \in Amounts, AskChange(v, w) PROVE PeriodsInv'
  BY <1>1, <1>5, OthersAsked DEF AskChange
<1>6. ASSUME NEW a \in AccountScopes, AskDashboard(a) PROVE PeriodsInv'
  BY <1>1, <1>6, OthersAsked DEF AskDashboard
<1>7. ASSUME NEW c \in CurrencyCodes, NEW a \in AccountScopes, AskSpending(c, a) PROVE PeriodsInv'
  BY <1>1, <1>7, OthersAsked DEF AskSpending
<1>8. ASSUME NEW b \in Budgets, AskBudget(b) PROVE PeriodsInv'
  BY <1>1, <1>8, OthersAsked DEF AskBudget
<1>9. ASSUME NEW b \in Budgets, AskPreview(b) PROVE PeriodsInv'
  BY <1>1, <1>9, OthersAsked DEF AskPreview
<1>10. ASSUME NEW q \in TransferQueries, AskTransfers(q) PROVE PeriodsInv'
  BY <1>1, <1>10, OthersAsked DEF AskTransfers
<1>11. ASSUME NEW r \in Requests, AskExport(r) PROVE PeriodsInv'
  BY <1>1, <1>11, OthersAsked DEF AskExport
<1>12. ASSUME NEW r \in Requests, AskArchive(r) PROVE PeriodsInv'
  BY <1>1, <1>12, OthersAsked DEF AskArchive
<1>13. ASSUME AskOverview PROVE PeriodsInv'
  BY <1>1, <1>13, OthersAsked DEF AskOverview
<1> QED
  BY <1>2, <1>3, <1>4, <1>5, <1>6, <1>7, <1>8, <1>9, <1>10, <1>11, <1>12, <1>13 DEF ReportNext

\* Budgets, the dashboard and the advisor mean the same days by a period, on every
\* day of the calendar, before and after 1970: the days of a week, a month or a year
\* all have it for theirs, consecutive ones meet without gap or overlap, and a phrase
\* of a question stands for the days a budget of that period counts
\* (currentPeriodBounds, resolvePhraseDateRange, previousRangeOf).
THEOREM PeriodsAlwaysAgree == ReportSpec => []PeriodsAgree
<1>1. ReportInit => PeriodsInv
  BY DatesAssumption DEF ReportInit, PeriodsInv, PeriodsAgree
<1>2. PeriodsInv /\ [ReportNext]_reportVars => PeriodsInv'
  <2>1. CASE ReportNext
    BY <2>1, PeriodsStep
  <2>2. CASE UNCHANGED reportVars
    BY <2>2 DEF PeriodsInv, PeriodsAgree, PeriodsTile, PhraseAgrees, reportVars
  <2> QED
    BY <2>1, <2>2
<1>3. PeriodsInv => PeriodsAgree
  BY DEF PeriodsInv
<1> QED
  BY <1>1, <1>2, <1>3, PTL DEF ReportSpec

------------------------------------------------------------------------------
(* A page of an export.                                                    *)

\* A set of rows that the order of an export puts in a line.
Exportable(S) == IsFiniteSet(S) /\ Keyed(S) /\ \A t \in S : Measured(t)

Pairs(S) == {p \in S \X S : ExportOrder(p[1], p[2])}

\* Days, moments and ids order the rows.
LEMMA ExportOrdered ==
    ASSUME NEW S, Exportable(S)
    PROVE  StrictOrder(S, Pairs(S))
<1>1. \A t \in S : t.date \in Int /\ t.created \in Int /\ t.id \in Int
  BY DEF Exportable, Measured
<1>2. \A s, t \in S : <<s, t>> \in Pairs(S) <=> ExportOrder(s, t)
  BY DEF Pairs
<1>3. \A s, t \in S : s.id = t.id => s = t
  BY DEF Exportable, Keyed
<1> QED
  BY <1>1, <1>2, <1>3 DEF StrictOrder, ExportOrder

\* The rows of an export are sorted by that order.
LEMMA ExportSorted ==
    ASSUME NEW S, Exportable(S)
    PROVE  Lists(Sorted(S, ExportOrder), S, Pairs(S))
<1> DEFINE R == Pairs(S)
           f == Sorted(S, ExportOrder)
<1>1. ASSUME NEW t \in S
      PROVE  Cardinality({u \in S : ExportOrder(u, t)}) = Rank(S, R, t)
  <2>1. {u \in S : ExportOrder(u, t)} = Smaller(S, R, t)
    BY DEF Smaller, Pairs
  <2> QED
    BY <2>1 DEF Rank
<1>2. ASSUME NEW i \in 1..Cardinality(S), \E t \in S : Rank(S, R, t) = i - 1
      PROVE  f[i] \in S /\ Rank(S, R, f[i]) = i - 1
  <2>1. f[i] = CHOOSE t \in S : Cardinality({u \in S : ExportOrder(u, t)}) = i - 1
    BY DEF Sorted
  <2>2. \E t \in S : Cardinality({u \in S : ExportOrder(u, t)}) = i - 1
    BY <1>1, <1>2
  <2>3. f[i] \in S /\ Cardinality({u \in S : ExportOrder(u, f[i])}) = i - 1
    BY <2>1, <2>2
  <2> QED
    BY <1>1, <2>3
<1>3. IsFiniteSet(S) /\ StrictOrder(S, R)
  BY ExportOrdered DEF Exportable
<1> HIDE DEF R, f
<1>4. Lists(f, S, R)
  BY <1>2, <1>3, InOrder
<1> QED
  BY <1>4 DEF R, f

Cursors == [date : Int, created : Int, id : Int]

Found(l, query) == {t \in l : Passes(t, query)}

\* What a cursor leaves to be read.
Unread(l, query, cursor) ==
    {t \in l : Passes(t, query) /\ (cursor # None => Behind(t, cursor))}

Holds(rows, t) == \E i \in 1..Len(rows) : rows[i] = t

\* The cursor at a row leaves out no row that comes after it.
LEMMA BehindCursor ==
    ASSUME NEW t, Measured(t), NEW u, Measured(u), ExportOrder(t, u)
    PROVE  CursorOf(t) \in Cursors /\ Behind(u, CursorOf(t))
<1>1. /\ t.date \in Int /\ t.created \in Int /\ t.id \in Int
      /\ u.date \in Int /\ u.created \in Int /\ u.id \in Int
  BY DEF Measured
<1>2. t.created % Millisecond \in Int /\ t.created % Millisecond >= 0
  BY <1>1, LimitsAssumption
<1> QED
  BY <1>1, <1>2 DEF CursorOf, Cursors, Behind, ExportOrder

\* A page is full, and its cursor leaves all that it does not hold; or it is
\* the last and holds the rest.
PageGoesOn(page, left) ==
    /\ page.cursor \in Cursors
    /\ Len(page.rows) = PageSize
    /\ \A t \in left : Holds(page.rows, t) \/ Behind(t, page.cursor)

PageEnds(page, left) == page.cursor = None /\ \A t \in left : Holds(page.rows, t)

\* A page holds some of what its cursor leaves, and is of one of the two kinds.
LEMMA OnePage ==
    ASSUME NEW l, Exportable(l), NEW query, NEW cursor
    PROVE  LET page == ExportPage(l, query, cursor)
               left == Unread(l, query, cursor)
           IN page.rows \in Seq(left) /\ (PageGoesOn(page, left) \/ PageEnds(page, left))
<1> DEFINE left == Unread(l, query, cursor)
           sorted == Sorted(left, ExportOrder)
           n == Cardinality(left)
           k == Min({PageSize, n})
           rows == SubSeq(sorted, 1, k)
           page == ExportPage(l, query, cursor)
<1>1. Exportable(left)
  <2>1. left \in SUBSET l
    BY DEF Unread
  <2>2. IsFiniteSet(left)
    BY <2>1, FS_Subset DEF Exportable
  <2> QED
    BY <2>1, <2>2 DEF Exportable, Keyed
<1>2. /\ page.rows = rows
      /\ page.cursor = IF n > PageSize THEN CursorOf(rows[PageSize]) ELSE None
  BY DEF ExportPage, Unread
<1>3. Lists(sorted, left, Pairs(left))
  BY <1>1, ExportSorted
<1> HIDE DEF page, left, sorted
<1>4. /\ n \in Nat /\ PageSize \in Nat \ {0}
      /\ \A i \in 1..n : sorted[i] \in left
      /\ \A t \in left : \E i \in 1..n : sorted[i] = t
      /\ \A i, j \in 1..n : i < j => <<sorted[i], sorted[j]>> \in Pairs(left)
  BY <1>3, LimitsAssumption DEF Lists
<1>5. k = IF PageSize <= n THEN PageSize ELSE n
  BY <1>4, LesserOf
<1> HIDE DEF k, n
<1>6. k \in Nat /\ k <= n
  BY <1>4, <1>5
<1>7. /\ rows \in Seq(left) /\ Len(rows) = k
      /\ \A i \in 1..k : rows[i] = sorted[i]
  <2>1. \A i \in 1..k : sorted[i] \in left
    BY <1>4, <1>6
  <2>2. /\ rows \in Seq(left) /\ Len(rows) = (IF 1 <= k THEN k - 1 + 1 ELSE 0)
        /\ \A i \in 1..(k - 1 + 1) : rows[i] = sorted[1 + i - 1]
    BY <1>6, <2>1, SubSeqProperties
  <2> HIDE DEF rows
  <2> QED
    BY <1>6, <2>2
<1> HIDE DEF rows
<1>8. CASE n > PageSize
  <2>1. k = PageSize /\ k \in 1..n
    BY <1>4, <1>5, <1>8
  <2>2. page.cursor = CursorOf(sorted[k])
    BY <1>2, <1>7, <1>8, <2>1
  <2>3. ASSUME NEW j \in 1..n, j > k
        PROVE  CursorOf(sorted[k]) \in Cursors /\ Behind(sorted[j], CursorOf(sorted[k]))
    <3>1. <<sorted[k], sorted[j]>> \in Pairs(left)
      BY <1>4, <2>1, <2>3
    <3>2. ExportOrder(sorted[k], sorted[j]) /\ sorted[k] \in left /\ sorted[j] \in left
      BY <3>1 DEF Pairs
    <3>3. Measured(sorted[k]) /\ Measured(sorted[j])
      BY <1>1, <3>2 DEF Exportable
    <3> QED
      BY <3>2, <3>3, BehindCursor
  <2>4. page.cursor \in Cursors
    <3>1. n \in 1..n /\ n > k
      BY <1>4, <1>8, <2>1
    <3> QED
      BY <2>2, <2>3, <3>1
  <2>5. ASSUME NEW t \in left
        PROVE  Holds(page.rows, t) \/ Behind(t, page.cursor)
    <3>1. PICK i \in 1..n : sorted[i] = t
      BY <1>4
    <3>2. CASE i > k
      BY <2>2, <2>3, <3>1, <3>2
    <3>3. CASE ~ i > k
      <4>1. i \in 1..k
        BY <1>4, <1>6, <3>3
      <4> QED
        BY <1>2, <1>7, <3>1, <4>1 DEF Holds
    <3> QED
      BY <3>2, <3>3
  <2>6. PageGoesOn(page, left)
    BY <1>2, <1>7, <2>1, <2>4, <2>5 DEF PageGoesOn
  <2> QED
    BY <1>2, <1>7, <2>6 DEF page, left
<1>9. CASE ~ n > PageSize
  <2>1. k = n
    BY <1>4, <1>5, <1>9
  <2>2. \A t \in left : Holds(page.rows, t)
    BY <1>2, <1>4, <1>7, <2>1 DEF Holds
  <2>3. PageEnds(page, left)
    BY <1>2, <1>9, <2>2 DEF PageEnds
  <2> QED
    BY <1>2, <1>7, <2>3 DEF page, left
<1> QED
  BY <1>8, <1>9
------------------------------------------------------------------------------
(* All pages.                                                              *)

\* After n turns: what is read so far and, while there is more, what the cursor
\* leaves, is all that was found.
Turn(r, n, l, query, limit) ==
    /\ r.more \in BOOLEAN /\ r.rows \in Seq(Found(l, query))
    /\ r.more => /\ Len(r.rows) = n * PageSize
                 /\ n # 0 => Len(r.rows) <= limit
                 /\ \A t \in Found(l, query) :
                       Holds(r.rows, t) \/ t \in Unread(l, query, r.cursor)
    /\ ~ r.more => Len(r.rows) > limit \/ \A t \in Found(l, query) : Holds(r.rows, t)

Start == [rows |-> <<>>, cursor |-> None, more |-> TRUE]

\* Before the first turn nothing is read.
LEMMA FirstTurn ==
    ASSUME NEW l, NEW query, NEW limit
    PROVE  Turn(Start, 0, l, query, limit)
<1>1. <<>> \in Seq(Found(l, query)) /\ Len(<<>>) = 0
  BY EmptySeq
<1>2. \A t \in Found(l, query) : t \in Unread(l, query, None)
  BY DEF Found, Unread
<1>3. 0 * PageSize = 0
  BY LimitsAssumption
<1>4. Start.rows = <<>> /\ Start.cursor = None /\ Start.more = TRUE
  BY DEF Start
<1> QED
  BY <1>1, <1>2, <1>3, <1>4 DEF Turn

\* What is held stays so when rows are added.
LEMMA HeldThen ==
    ASSUME NEW S, NEW a \in Seq(S), NEW b \in Seq(S), NEW t
    PROVE  Holds(a \o b, t) <=> Holds(a, t) \/ Holds(b, t)
<1>1. /\ Len(a) \in Nat /\ Len(b) \in Nat /\ Len(a \o b) = Len(a) + Len(b)
      /\ \A i \in 1..(Len(a) + Len(b)) :
            (a \o b)[i] = IF i <= Len(a) THEN a[i] ELSE b[i - Len(a)]
  BY ConcatProperties, LenProperties
<1>2. ASSUME NEW i \in 1..Len(a), a[i] = t
      PROVE  Holds(a \o b, t)
  <2>1. i \in 1..(Len(a) + Len(b)) /\ (a \o b)[i] = t
    BY <1>1, <1>2
  <2> QED
    BY <1>1, <2>1 DEF Holds
<1>3. ASSUME NEW i \in 1..Len(b), b[i] = t
      PROVE  Holds(a \o b, t)
  <2>1. i + Len(a) \in 1..(Len(a) + Len(b)) /\ (a \o b)[i + Len(a)] = t
    BY <1>1, <1>3
  <2> QED
    BY <1>1, <2>1 DEF Holds
<1>4. ASSUME NEW i \in 1..(Len(a) + Len(b)), (a \o b)[i] = t
      PROVE  Holds(a, t) \/ Holds(b, t)
  <2>1. CASE i <= Len(a)
    BY <1>1, <1>4, <2>1 DEF Holds
  <2>2. CASE ~ i <= Len(a)
    <3>1. i - Len(a) \in 1..Len(b) /\ b[i - Len(a)] = t
      BY <1>1, <1>4, <2>2
    <3> QED
      BY <3>1 DEF Holds
  <2> QED
    BY <2>1, <2>2
<1> QED
  BY <1>1, <1>2, <1>3, <1>4 DEF Holds

\* A turn adds its page, and loses nothing between this page and the next.
LEMMA NextTurn ==
    ASSUME NEW l, Exportable(l), NEW query, NEW limit \in Nat, NEW n \in Nat, NEW r,
           Turn(r, n, l, query, limit)
    PROVE  Turn(NextPage(l, query, limit, r), n + 1, l, query, limit)
<1> DEFINE page == ExportPage(l, query, r.cursor)
           left == Unread(l, query, r.cursor)
           rows == r.rows \o page.rows
           next == NextPage(l, query, limit, r)
<1>1. CASE ~ r.more
  <2>1. next = r
    BY <1>1 DEF NextPage
  <2> QED
    BY <1>1, <2>1 DEF Turn
<1>2. CASE r.more
  <2>1. /\ next.rows = rows /\ next.cursor = page.cursor
        /\ next.more = (page.cursor # None /\ Len(rows) <= limit)
    BY <1>2 DEF NextPage
  <2>2. page.rows \in Seq(left) /\ (PageGoesOn(page, left) \/ PageEnds(page, left))
    BY OnePage
  <2>3. left \in SUBSET Found(l, query)
    BY DEF Unread, Found
  <2> HIDE DEF page, left
  <2>4. page.rows \in Seq(Found(l, query)) /\ r.rows \in Seq(Found(l, query))
    BY <2>2, <2>3, SeqMonotonic DEF Turn
  <2>5. /\ rows \in Seq(Found(l, query)) /\ Len(rows) = Len(r.rows) + Len(page.rows)
        /\ Len(rows) \in Nat
    BY <2>4, ConcatProperties, LenProperties
  <2>6. \A t : Holds(rows, t) <=> Holds(r.rows, t) \/ Holds(page.rows, t)
    BY <2>4, HeldThen
  <2> HIDE DEF rows, next
  <2>7. /\ Len(r.rows) = n * PageSize
        /\ \A t \in Found(l, query) : Holds(r.rows, t) \/ t \in left
    BY <1>2 DEF Turn, left
  <2>8. CASE PageGoesOn(page, left)
    <3>1. page.cursor # None
      BY <2>8, CursorsAssumption DEF PageGoesOn, Cursors
    <3>2. ASSUME NEW t \in Found(l, query)
          PROVE  Holds(rows, t) \/ t \in Unread(l, query, next.cursor)
      <4>1. CASE t \in left
        <5>1. t \in l /\ Passes(t, query)
          BY <3>2 DEF Found
        <5>2. Holds(page.rows, t) \/ Behind(t, page.cursor)
          BY <2>8, <4>1 DEF PageGoesOn
        <5> QED
          BY <2>1, <2>6, <5>1, <5>2 DEF Unread
      <4>2. CASE t \notin left
        BY <2>6, <2>7, <4>2
      <4> QED
        BY <4>1, <4>2
    <3>3. Len(rows) = (n + 1) * PageSize
      <4>1. Len(rows) = n * PageSize + PageSize
        BY <2>5, <2>7, <2>8 DEF PageGoesOn
      <4> QED
        BY <4>1, LimitsAssumption
    <3>4. next.more \in BOOLEAN /\ (next.more <=> Len(rows) <= limit)
      BY <2>1, <3>1
    <3>5. next.rows = rows
      BY <2>1
    <3>6. CASE next.more
      <4>1. Len(rows) <= limit
        BY <3>4, <3>6
      <4>2. Turn(next, n + 1, l, query, limit)
        BY <2>5, <3>2, <3>3, <3>4, <3>5, <3>6, <4>1 DEF Turn
      <4> QED
        BY <4>2 DEF next
    <3>7. CASE ~ next.more
      <4>1. Len(rows) > limit
        <5>1. ~ (Len(rows) <= limit)
          BY <3>4, <3>7, Zenon
        <5>2. PICK size \in Nat : size = Len(rows)
          BY <2>5
        <5>3. ~ (size <= limit) => size > limit
          OBVIOUS
        <5> QED
          BY <5>1, <5>2, <5>3, Zenon
      <4>2. Turn(next, n + 1, l, query, limit)
        BY <2>5, <3>4, <3>5, <3>7, <4>1 DEF Turn
      <4> QED
        BY <4>2 DEF next
    <3> QED
      BY <3>6, <3>7
  <2>9. CASE PageEnds(page, left)
    <3>1. next.more = FALSE
      BY <2>1, <2>9 DEF PageEnds
    <3>2. \A t \in Found(l, query) : Holds(rows, t)
      BY <2>6, <2>7, <2>9 DEF PageEnds
    <3>3. Turn(next, n + 1, l, query, limit)
      BY <2>1, <2>5, <3>1, <3>2 DEF Turn
    <3> QED
      BY <3>3 DEF next
  <2> QED
    BY <2>2, <2>8, <2>9 DEF next
<1>3. r.more \in BOOLEAN
  BY DEF Turn
<1> QED
  BY <1>1, <1>2, <1>3

\* The states of the loop, from before its first turn to after the last.
Loop(h, m, l, query, limit) ==
    /\ h = [n \in 0..m |-> h[n]]
    /\ \A n \in 0..m : h[n] = IF n = 0 THEN Start ELSE NextPage(l, query, limit, h[n - 1])

\* There are such states for any number of turns.
LEMMA LoopExists ==
    ASSUME NEW l, NEW query, NEW limit, NEW m \in Nat
    PROVE  \E h : Loop(h, m, l, query, limit)
<1> DEFINE Bad == {k \in Nat : ~ \E h : Loop(h, k, l, query, limit)}
<1>1. CASE m \notin Bad
  BY <1>1
<1>2. CASE m \in Bad
  <2>1. PICK k \in Bad : \A j \in Bad : k <= j
    <3>1. Bad \in SUBSET Nat /\ Bad # {}
      BY <1>2
    <3> HIDE DEF Bad
    <3> QED
      BY <3>1, LeastNumber
  <2>2. CASE k = 0
    <3> DEFINE h == [n \in 0..0 |-> Start]
    <3>1. Loop(h, 0, l, query, limit)
      BY DEF Loop
    <3> HIDE DEF h
    <3> QED
      BY <2>2, <3>1
  <2>3. CASE k # 0
    <3>1. k \in Nat /\ k - 1 \in Nat /\ k - 1 \notin Bad
      BY <2>1, <2>3
    <3>2. PICK g : Loop(g, k - 1, l, query, limit)
      BY <3>1
    <3> DEFINE last == NextPage(l, query, limit, g[k - 1])
    <3>3. PICK end : end = last
      OBVIOUS
    <3> DEFINE h == [n \in 0..k |-> IF n = k THEN end ELSE g[n]]
    <3>4. h = [n \in 0..k |-> h[n]]
      OBVIOUS
    <3>5. h[k] = end /\ \A n \in 0..(k - 1) : h[n] = g[n]
      BY <3>1
    <3> HIDE DEF h
    <3>6. ASSUME NEW n \in 0..k
          PROVE  h[n] = IF n = 0 THEN Start ELSE NextPage(l, query, limit, h[n - 1])
      <4>1. CASE n = k
        <5>1. k - 1 \in 0..(k - 1)
          BY <3>1
        <5>2. h[k - 1] = g[k - 1]
          BY <3>5, <5>1
        <5> QED
          BY <2>3, <3>3, <3>5, <4>1, <5>2
      <4>2. CASE n # k
        <5>1. n \in 0..(k - 1) /\ (n # 0 => n - 1 \in 0..(k - 1))
          BY <3>1, <4>2
        <5>2. g[n] = IF n = 0 THEN Start ELSE NextPage(l, query, limit, g[n - 1])
          BY <3>2, <5>1 DEF Loop
        <5> QED
          BY <3>5, <5>1, <5>2
      <4> QED
        BY <4>1, <4>2
    <3>7. Loop(h, k, l, query, limit)
      BY <3>4, <3>6 DEF Loop
    <3> QED
      BY <2>1, <3>7
  <2> QED
    BY <2>2, <2>3
<1> QED
  BY <1>1, <1>2

\* At every turn, the state of the loop is as it should be.
LEMMA EveryTurn ==
    ASSUME NEW l, Exportable(l), NEW query, NEW limit \in Nat, NEW m \in Nat, NEW h,
           \A n \in 0..m : h[n] = IF n = 0 THEN Start ELSE NextPage(l, query, limit, h[n - 1])
    PROVE  Turn(h[m], m, l, query, limit)
<1> DEFINE Bad == {k \in 0..m : ~ Turn(h[k], k, l, query, limit)}
<1>1. CASE m \notin Bad
  BY <1>1
<1>2. CASE m \in Bad
  <2>1. PICK k \in Bad : \A j \in Bad : k <= j
    <3>1. Bad \in SUBSET Nat /\ Bad # {}
      BY <1>2
    <3> HIDE DEF Bad
    <3> QED
      BY <3>1, LeastNumber
  <2>2. k \in 0..m /\ ~ Turn(h[k], k, l, query, limit)
    BY <2>1
  <2>3. CASE k = 0
    BY <2>2, <2>3, FirstTurn
  <2>4. CASE k # 0
    <3>1. k - 1 \in 0..m /\ k - 1 \in Nat /\ k - 1 \notin Bad
      BY <2>1, <2>2, <2>4
    <3>2. Turn(h[k - 1], k - 1, l, query, limit)
      BY <3>1
    <3>3. Turn(NextPage(l, query, limit, h[k - 1]), k - 1 + 1, l, query, limit)
      BY <3>1, <3>2, NextTurn
    <3>4. k - 1 + 1 = k /\ h[k] = NextPage(l, query, limit, h[k - 1])
      BY <2>2, <2>4
    <3> QED
      BY <2>2, <3>3, <3>4
  <2> QED
    BY <2>3, <2>4
<1> QED
  BY <1>1, <1>2

\* So many pages are more rows than the limit.
LEMMA TurnsSuffice ==
    ASSUME NEW limit \in Nat
    PROVE  Turns(limit) \in Nat /\ Turns(limit) # 0 /\ Turns(limit) * PageSize > limit
<1>1. PICK p \in Nat \ {0} : p = PageSize
  BY LimitsAssumption
<1>2. limit \div p \in Nat /\ (limit \div p + 1) * p > limit
  BY SMT
<1> QED
  BY <1>1, <1>2 DEF Turns

\* An export of no more than the limit holds all that it should, and nothing else.
Complete(rows, l, query, limit) ==
    /\ rows \in Seq(Found(l, query))
    /\ Len(rows) <= limit => \A t \in Found(l, query) : Holds(rows, t)

\* However many pages it takes, and whatever moments the database keeps.
LEMMA ExportComplete ==
    ASSUME NEW l, Exportable(l), NEW query, NEW limit \in Nat
    PROVE  Complete(ExportRows(l, query, limit), l, query, limit)
<1> DEFINE Step(h) == [n \in 0..Turns(limit) |->
                         IF n = 0 THEN [rows |-> <<>>, cursor |-> None, more |-> TRUE]
                         ELSE NextPage(l, query, limit, h[n - 1])]
           Read == CHOOSE h : h = Step(h)
<1>1. ExportRows(l, query, limit) = Read[Turns(limit)].rows
  BY DEF ExportRows
<1>2. Turns(limit) \in Nat /\ Turns(limit) # 0 /\ Turns(limit) * PageSize > limit
  BY TurnsSuffice
<1>3. PICK m : m = Turns(limit)
  OBVIOUS
<1>4. PICK h : Loop(h, m, l, query, limit)
  BY <1>2, <1>3, LoopExists
<1>5. ASSUME NEW f, NEW n \in 0..m
      PROVE  Step(f)[n] = IF n = 0 THEN Start ELSE NextPage(l, query, limit, f[n - 1])
  BY <1>3 DEF Start
<1>6. ASSUME NEW f
      PROVE  Step(f) = [n \in 0..m |-> Step(f)[n]]
  BY <1>3
<1> HIDE DEF Step
<1>7. h = Step(h)
  <2>1. PICK s : s = Step(h)
    OBVIOUS
  <2>2. s = [n \in 0..m |-> s[n]] /\ h = [n \in 0..m |-> h[n]]
    BY <1>4, <1>6, <2>1 DEF Loop
  <2>3. \A n \in 0..m : s[n] = h[n]
    BY <1>4, <1>5, <2>1 DEF Loop
  <2>4. s = h
    BY <2>2, <2>3
  <2> QED
    BY <2>1, <2>4
<1>8. Read = Step(Read)
  BY <1>7
<1> HIDE DEF Read
<1>9. PICK f : f = Read
  OBVIOUS
<1>10. \A n \in 0..m : f[n] = IF n = 0 THEN Start ELSE NextPage(l, query, limit, f[n - 1])
  <2>1. PICK s : s = Step(f)
    OBVIOUS
  <2>2. \A n \in 0..m : s[n] = IF n = 0 THEN Start ELSE NextPage(l, query, limit, f[n - 1])
    BY <1>5, <2>1
  <2> QED
    BY <1>8, <1>9, <2>1, <2>2
<1>11. Turn(f[m], m, l, query, limit)
  BY <1>2, <1>3, <1>10, EveryTurn
<1>12. ~ f[m].more
  <2>1. f[m].more => Len(f[m].rows) = m * PageSize /\ Len(f[m].rows) <= limit
    BY <1>2, <1>3, <1>11 DEF Turn
  <2> QED
    BY <1>2, <1>3, <2>1, LimitsAssumption
<1>13. f[m].rows \in Seq(Found(l, query)) /\ Len(f[m].rows) \in Nat
  <2>1. f[m].rows \in Seq(Found(l, query))
    BY <1>11 DEF Turn
  <2> QED
    BY <2>1, LenProperties
<1>14. Complete(f[m].rows, l, query, limit)
  BY <1>11, <1>12, <1>13 DEF Turn, Complete
<1> QED
  BY <1>1, <1>3, <1>9, <1>14
------------------------------------------------------------------------------
(* An archive.                                                             *)

\* What an archive of a ledger has to be.
FilesRight(l, request, archive, held, full) ==
    LET ids == {t.id : t \in l}
    IN /\ held["transactions"] \subseteq ids /\ (held["transactions"] = ids \/ full)
       /\ UNION {row.parts : row \in archive.files["merchants"]} = {a.id : a \in Tables.aliases}
       /\ request.includeConversations =>
             UNION {row.parts : row \in archive.files["advisor"]} = {m.id : m \in Tables.messages}
       /\ \A f \in DOMAIN archive.files : \A row \in archive.files[f] : \A ref \in row.refs :
             \/ ref[1] \in DOMAIN held /\ ref[2] \in held[ref[1]]
             \/ OfStatement(f, ref)
             \/ full /\ ref[1] = "transactions" /\ ref[2] \in ids

ArchiveRight(l, request, archive) ==
    FilesRight(l, request, archive,
               [f \in DOMAIN archive.files |-> {row.id : row \in archive.files[f]}],
               archive.manifest["transactions"] = MaxArchiveRows)

\* A ledger can be exported.
LEMMA LedgerExports ==
    ASSUME NEW l \in Ledgers
    PROVE  Exportable(l)
  BY LedgersAssumption DEF Exportable

\* No filter leaves anything out.
LEMMA NothingFiltered ==
    ASSUME NEW l
    PROVE  Found(l, [NoFilter EXCEPT !.includeArchived = TRUE]) = l
<1> DEFINE query == [NoFilter EXCEPT !.includeArchived = TRUE]
<1>1. /\ query.includeArchived /\ query.dateFrom = None /\ query.dateTo = None
      /\ query.account = None /\ query.institution = None /\ query.direction = None
      /\ query.currency = None /\ query.statement = None /\ query.reviewed = None
      /\ query.exactly = None /\ query.atLeast = None /\ query.atMost = None
      /\ query.category = None /\ query.categorised = None /\ query.secondary = None
      /\ query.tag = None /\ query.search = None
  BY DEF NoFilter
<1> HIDE DEF query
<1>2. ASSUME NEW t
      PROVE  Passes(t, query)
  <2>1. CategoryMatches(t, query)
    BY <1>1, FlagsAssumption DEF CategoryMatches
  <2> QED
    BY <1>1, <2>1 DEF Passes, Matches, InRange
<1>3. Found(l, query) = l
  BY <1>2 DEF Found
<1> QED
  BY <1>3 DEF query

\* The transactions of an archive that is not cut are those of the ledger.
LEMMA ArchiveRowsComplete ==
    ASSUME NEW l \in Ledgers
    PROVE  LET rows == ArchiveTransactions(l)
           IN rows \in Seq(l) /\ (Len(rows) # MaxArchiveRows => \A t \in l : Holds(rows, t))
<1> DEFINE query == [NoFilter EXCEPT !.includeArchived = TRUE]
           all == ExportRows(l, query, MaxArchiveRows)
           size == Min({MaxArchiveRows, Len(all)})
           rows == ArchiveTransactions(l)
<1>1. Complete(all, l, query, MaxArchiveRows)
  BY LedgerExports, ExportComplete, LimitsAssumption
<1>2. Found(l, query) = l
  BY NothingFiltered
<1>3. rows = SubSeq(all, 1, size)
  BY DEF ArchiveTransactions
<1> HIDE DEF all, query, rows
<1>4. /\ all \in Seq(l) /\ Len(all) \in Nat
      /\ Len(all) <= MaxArchiveRows => \A t \in l : Holds(all, t)
  BY <1>1, <1>2, LenProperties DEF Complete
<1>5. MaxArchiveRows \in Nat
  BY LimitsAssumption
<1>6. CASE Len(all) <= MaxArchiveRows
  <2>1. size = Len(all)
    BY <1>4, <1>5, <1>6, LesserOf
  <2>2. rows = all
    BY <1>3, <1>4, <2>1, SubSeqFull
  <2> QED
    BY <1>4, <1>6, <2>2 DEF rows
<1>7. CASE ~ Len(all) <= MaxArchiveRows
  <2>1. size = MaxArchiveRows
    BY <1>4, <1>5, <1>7, LesserOf
  <2>2. \A i \in 1..MaxArchiveRows : all[i] \in l
    BY <1>4, <1>5, <1>7, ElementOfSeq
  <2>3. /\ SubSeq(all, 1, MaxArchiveRows) \in Seq(l)
        /\ Len(SubSeq(all, 1, MaxArchiveRows))
              = IF 1 <= MaxArchiveRows THEN MaxArchiveRows - 1 + 1 ELSE 0
    BY <1>5, <2>2, SubSeqProperties
  <2>4. rows = SubSeq(all, 1, MaxArchiveRows)
    BY <1>3, <2>1
  <2>5. (IF 1 <= MaxArchiveRows THEN MaxArchiveRows - 1 + 1 ELSE 0) = MaxArchiveRows
    BY <1>5
  <2>6. rows \in Seq(l) /\ Len(rows) = MaxArchiveRows
    BY <2>3, <2>4, <2>5
  <2> QED
    BY <2>6 DEF rows
<1> QED
  BY <1>6, <1>7

\* The rows of an archive have the ids of transactions, one for each place.
LEMMA RowsOfLedger ==
    ASSUME NEW l, NEW rows \in Seq(l)
    PROVE  /\ {r.id : r \in TransactionRows(rows)} \subseteq {t.id : t \in l}
           /\ (\A t \in l : Holds(rows, t))
                 => {r.id : r \in TransactionRows(rows)} = {t.id : t \in l}
           /\ \A r \in TransactionRows(rows) : r.refs = {}
           /\ Cardinality(TransactionRows(rows)) = Len(rows)
<1> DEFINE Row(i) == [id |-> rows[i].id, refs |-> {}, place |-> i]
           places == 1..Len(rows)
           told == {Row(i) : i \in places}
<1>1. Len(rows) \in Nat /\ DOMAIN rows = places /\ \A i \in places : rows[i] \in l
  BY LenProperties, ElementOfSeq
<1>2. TransactionRows(rows) = told
  BY <1>1 DEF TransactionRows
<1>3. \A i \in places : Row(i).id = rows[i].id /\ Row(i).refs = {} /\ Row(i).place = i
  OBVIOUS
<1> HIDE DEF Row
<1>4. {r.id : r \in told} \subseteq {t.id : t \in l} /\ \A r \in told : r.refs = {}
  BY <1>1, <1>3
<1>5. ASSUME \A t \in l : Holds(rows, t)
      PROVE  {t.id : t \in l} \subseteq {r.id : r \in told}
  <2>1. \A t \in l : \E i \in places : rows[i] = t
    BY <1>1, <1>5 DEF Holds
  <2> QED
    BY <1>3, <2>1
<1>6. Cardinality(told) = Len(rows)
  <2> DEFINE f == [i \in places |-> Row(i)]
  <2>1. IsFiniteSet(places) /\ Cardinality(places) = Len(rows)
    <3>1. 1 \in Int /\ Len(rows) \in Int
      BY <1>1
    <3>2. IsFiniteSet(places) /\ Cardinality(places) = IF 1 > Len(rows) THEN 0 ELSE Len(rows) - 1 + 1
      BY <3>1, FS_Interval
    <3> QED
      BY <1>1, <3>2
  <2>2. f \in Surjection(places, told)
    <3>1. f \in [places -> told] /\ \A r \in told : \E i \in places : f[i] = r
      OBVIOUS
    <3> HIDE DEF f, told
    <3> QED
      BY <3>1 DEF Surjection
  <2>3. f \in Injection(places, told)
    <3>1. f \in [places -> told] /\ \A i \in places : f[i].place = i
      BY <1>3
    <3> HIDE DEF f, told
    <3>2. \A i, j \in places : f[i] = f[j] => i = j
      BY <3>1
    <3> QED
      BY <3>1, <3>2 DEF Injection, IsInjective
  <2> HIDE DEF f, told
  <2> QED
    BY <2>1, <2>2, <2>3, FS_Surjection
<1> QED
  BY <1>2, <1>4, <1>5, <1>6

\* Rows that hold parts keep their ids and what they refer to, and hold every part
\* whose owner is one of them.
LEMMA RowsUnder ==
    ASSUME NEW rows, NEW parts, \A p \in parts : p.owner \in {r.id : r \in rows}
    PROVE  /\ {r.id : r \in Under(rows, parts)} = {r.id : r \in rows}
           /\ \A r \in Under(rows, parts) : \E s \in rows : r.refs = s.refs
           /\ UNION {r.parts : r \in Under(rows, parts)} = {p.id : p \in parts}
<1> DEFINE Row(r) == [id |-> r.id, refs |-> r.refs,
                      parts |-> {p.id : p \in {q \in parts : q.owner = r.id}}]
<1>1. Under(rows, parts) = {Row(r) : r \in rows}
  BY DEF Under
<1>2. \A r \in rows : /\ Row(r).id = r.id /\ Row(r).refs = r.refs
                       /\ Row(r).parts = {p.id : p \in {q \in parts : q.owner = r.id}}
  OBVIOUS
<1> HIDE DEF Row
<1>3. {s.id : s \in {Row(r) : r \in rows}} = {r.id : r \in rows}
  BY <1>2
<1>4. \A s \in {Row(r) : r \in rows} : \E r \in rows : s.refs = r.refs
  BY <1>2
<1>5. ASSUME NEW e
      PROVE  e \in UNION {s.parts : s \in {Row(r) : r \in rows}} <=> e \in {p.id : p \in parts}
  <2>1. ASSUME NEW p \in parts, e = p.id
        PROVE  \E r \in rows : e \in Row(r).parts
    <3>1. PICK r \in rows : p.owner = r.id
      OBVIOUS
    <3> QED
      BY <1>2, <2>1, <3>1
  <2>2. ASSUME NEW r \in rows, e \in Row(r).parts
        PROVE  e \in {p.id : p \in parts}
    BY <1>2, <2>2
  <2> QED
    BY <2>1, <2>2
<1> QED
  BY <1>1, <1>3, <1>4, <1>5

\* The files of an archive, by name.
LEMMA FilesNamed ==
    ASSUME NEW l, NEW rows, NEW links, NEW request
    PROVE  LET files == ArchiveFiles(l, rows, links, Tables, request)
           IN /\ DOMAIN files = FileNames(request)
              /\ files["merchants"] = MerchantRows(Tables)
              /\ files["transactions"] = TransactionRows(rows)
              /\ files["transfer-links"] = LinkRows(links)
              /\ files["splits"] = SplitsOf(l)
              /\ request.includeConversations => files["advisor"] = ConversationRows(Tables)
              /\ \A f \in WholeTables : files[f] = Tables[f]
<1> DEFINE files == ArchiveFiles(l, rows, links, Tables, request)
<1>1. DOMAIN files = FileNames(request)
  BY DEF ArchiveFiles
<1>2. ASSUME NEW f \in FileNames(request)
      PROVE  files[f] =
                CASE f = "merchants"      -> MerchantRows(Tables)
                  [] f = "transfer-links" -> LinkRows(links)
                  [] f = "transactions"   -> TransactionRows(rows)
                  [] f = "splits"         -> SplitsOf(l)
                  [] f = "advisor"        -> ConversationRows(Tables)
                  [] OTHER                -> Tables[f]
  BY DEF ArchiveFiles
<1> HIDE DEF files
<1>3. {"merchants", "transactions", "transfer-links", "splits"} \subseteq FileNames(request)
  BY DEF FileNames
<1>4. request.includeConversations => "advisor" \in FileNames(request)
  BY DEF FileNames
<1>5. \A f \in WholeTables :
         /\ f \in FileNames(request)
         /\ f \notin {"merchants", "transactions", "transfer-links", "splits", "advisor"}
  BY DEF FileNames, WholeTables, DirectoryTables, PlanningTables
<1>6. files["merchants"] = MerchantRows(Tables)
  BY <1>2, <1>3
<1>7. files["transactions"] = TransactionRows(rows)
  BY <1>2, <1>3
<1>8. files["transfer-links"] = LinkRows(links)
  BY <1>2, <1>3
<1>9. files["splits"] = SplitsOf(l)
  BY <1>2, <1>3
<1>10. request.includeConversations => files["advisor"] = ConversationRows(Tables)
  BY <1>2, <1>4
<1>11. \A f \in WholeTables : files[f] = Tables[f]
  BY <1>2, <1>5
<1> QED
  BY <1>1, <1>6, <1>7, <1>8, <1>9, <1>10, <1>11 DEF files

\* Every link has its two transactions in the ledger.
LinksWithin(links, l) == \A k \in links : {k.outgoing, k.incoming} \subseteq {t.id : t \in l}

\* An archive refers to nothing that it does not hold but what has no file or no room.
LEMMA ArchiveClosed ==
    ASSUME NEW l \in Ledgers, NEW links, LinksWithin(links, l), NEW request
    PROVE  ArchiveRight(l, request, Archive(l, links, Tables, request))
<1> DEFINE rows == ArchiveTransactions(l)
           files == ArchiveFiles(l, rows, links, Tables, request)
           archive == Archive(l, links, Tables, request)
           ids == {t.id : t \in l}
           Ids(f) == {r.id : r \in files[f]}
           full == Len(rows) = MaxArchiveRows
<1>1. archive.files = files /\ archive.manifest = Manifest(files)
  BY DEF Archive
<1>2. rows \in Seq(l) /\ (~full => \A t \in l : Holds(rows, t))
  BY ArchiveRowsComplete
<1>4. /\ DOMAIN files = FileNames(request)
      /\ files["merchants"] = MerchantRows(Tables)
      /\ files["transactions"] = TransactionRows(rows)
      /\ files["transfer-links"] = LinkRows(links)
      /\ files["splits"] = SplitsOf(l)
      /\ request.includeConversations => files["advisor"] = ConversationRows(Tables)
      /\ \A f \in WholeTables : files[f] = Tables[f]
  BY FilesNamed
<1> HIDE DEF rows, files, archive
<1>3. /\ Ids("transactions") \subseteq ids /\ (~full => Ids("transactions") = ids)
      /\ \A r \in files["transactions"] : r.refs = {}
      /\ Cardinality(files["transactions"]) = Len(rows)
  <2>1. /\ {r.id : r \in TransactionRows(rows)} \subseteq ids
        /\ ~full => {r.id : r \in TransactionRows(rows)} = ids
        /\ \A r \in TransactionRows(rows) : r.refs = {}
        /\ Cardinality(TransactionRows(rows)) = Len(rows)
    BY <1>2, RowsOfLedger
  <2> QED
    BY <1>4, <2>1
<1>5. /\ archive.manifest["transactions"] = Len(rows)
      /\ \A f \in FileNames(request) : f \in DOMAIN files
      /\ WholeTables \union {"merchants", "transactions"} \subseteq DOMAIN files
  <2>1. WholeTables \union {"merchants", "transactions"} \subseteq DOMAIN files
    BY <1>4 DEF FileNames
  <2> QED
    BY <1>1, <1>3, <1>4, <2>1 DEF Manifest
<1>6. /\ Ids("merchants") = {r.id : r \in Tables.merchants}
      /\ \A r \in files["merchants"] : \E s \in Tables.merchants : r.refs = s.refs
      /\ UNION {r.parts : r \in files["merchants"]} = {a.id : a \in Tables.aliases}
  <2>1. \A a \in Tables.aliases : a.owner \in {r.id : r \in Tables.merchants}
    BY TablesAssumption
  <2>2. LET under == Under(Tables.merchants, Tables.aliases)
        IN /\ {r.id : r \in under} = {r.id : r \in Tables.merchants}
           /\ \A r \in under : \E s \in Tables.merchants : r.refs = s.refs
           /\ UNION {r.parts : r \in under} = {a.id : a \in Tables.aliases}
    BY ONLY <2>1, RowsUnder
  <2>3. files["merchants"] = Under(Tables.merchants, Tables.aliases)
    BY <1>4 DEF MerchantRows
  <2> QED
    BY <2>2, <2>3
<1>7. ASSUME request.includeConversations
      PROVE  /\ \A r \in files["advisor"] : \E s \in Tables.threads : r.refs = s.refs
             /\ UNION {r.parts : r \in files["advisor"]} = {m.id : m \in Tables.messages}
  <2>1. \A m \in Tables.messages : m.owner \in {r.id : r \in Tables.threads}
    BY TablesAssumption
  <2>2. LET under == Under(Tables.threads, Tables.messages)
        IN /\ \A r \in under : \E s \in Tables.threads : r.refs = s.refs
           /\ UNION {r.parts : r \in under} = {m.id : m \in Tables.messages}
    BY ONLY <2>1, RowsUnder
  <2>3. files["advisor"] = Under(Tables.threads, Tables.messages)
    BY <1>4, <1>7 DEF ConversationRows
  <2> QED
    BY <2>2, <2>3
<1>8. \A f \in WholeTables \union {"merchants"} : Ids(f) = {r.id : r \in Tables[f]}
  BY <1>4, <1>6
<1> DEFINE Told(ref) == ref[1] \in DOMAIN files /\ ref[2] \in Ids(ref[1])
           Dropped(ref) == full /\ ref[1] = "transactions" /\ ref[2] \in ids
<1>9. ASSUME NEW table \in WholeTables \union {"merchants", "threads"}, NEW r \in Tables[table],
             NEW ref \in r.refs
      PROVE  Told(ref) \/ OfStatement(table, ref)
  <2>1. SUFFICES ASSUME ~ OfStatement(table, ref)
                 PROVE  Told(ref)
    OBVIOUS
  <2>2. Closed(table)
    BY TablesAssumption
  <2>3. /\ ref[1] \in WholeTables \union {"merchants"}
        /\ ref[2] \in {s.id : s \in Tables[ref[1]]}
    BY <2>1, <2>2 DEF Closed
  <2> QED
    BY <1>5, <1>8, <2>3
<1>10. ASSUME NEW f \in FileNames(request), NEW r \in files[f], NEW ref \in r.refs
       PROVE  Told(ref) \/ OfStatement(f, ref) \/ Dropped(ref)
  <2>1. CASE f \in WholeTables
    BY <1>4, <1>9, <1>10, <2>1
  <2>2. CASE f = "merchants"
    <3>1. PICK s \in Tables["merchants"] : r.refs = s.refs
      BY <1>6, <1>10, <2>2
    <3> QED
      BY <1>9, <1>10, <2>2, <3>1
  <2>3. CASE f = "advisor" /\ request.includeConversations
    <3>1. PICK s \in Tables["threads"] : r.refs = s.refs
      BY <1>7, <1>10, <2>3
    <3>2. ~ OfStatement("threads", ref)
      BY DEF OfStatement
    <3> QED
      BY <1>9, <1>10, <3>1, <3>2
  <2>4. CASE f = "transfer-links"
    <3>1. PICK k \in links :
             r = [id |-> k.id,
                  refs |-> {<<"transactions", k.outgoing>>, <<"transactions", k.incoming>>}]
      BY <1>4, <2>4 DEF LinkRows
    <3>2. ref[1] = "transactions" /\ ref[2] \in {k.outgoing, k.incoming}
      BY <3>1
    <3> QED
      BY <1>3, <1>5, <3>2 DEF LinksWithin
  <2>5. CASE f = "splits"
    <3>1. PICK s \in SplitRows(l) : r = [id |-> s.id, refs |-> {<<"transactions", s.transaction>>}]
      BY <1>4, <2>5 DEF SplitsOf
    <3>2. ref[1] = "transactions" /\ ref[2] = s.transaction
      BY <3>1
    <3>3. s.transaction \in ids
      BY DEF SplitRows
    <3> QED
      BY <1>3, <1>5, <3>2, <3>3
  <2>6. CASE f = "transactions"
    BY <1>3, <1>10, <2>6
  <2> QED
    BY <2>1, <2>2, <2>3, <2>4, <2>5, <2>6 DEF FileNames
<1>11. PICK held : held = [f \in DOMAIN archive.files |-> {row.id : row \in archive.files[f]}]
  OBVIOUS
<1>12. \A f \in DOMAIN files : held[f] = Ids(f)
  BY <1>1, <1>11
<1>13. DOMAIN held = DOMAIN files
  BY <1>1, <1>11
<1> DEFINE atLimit == archive.manifest["transactions"] = MaxArchiveRows
<1>14. held["transactions"] \subseteq ids /\ (held["transactions"] = ids \/ atLimit)
  BY <1>3, <1>5, <1>12
<1>15. ASSUME NEW f \in DOMAIN archive.files, NEW row \in archive.files[f], NEW ref \in row.refs
       PROVE  \/ ref[1] \in DOMAIN held /\ ref[2] \in held[ref[1]]
              \/ OfStatement(f, ref)
              \/ atLimit /\ ref[1] = "transactions" /\ ref[2] \in ids
  <2>1. Told(ref) \/ OfStatement(f, ref) \/ Dropped(ref)
    BY <1>1, <1>4, <1>10
  <2> QED
    BY <1>5, <1>12, <1>13, <2>1
<1> QED
  <2>1. FilesRight(l, request, archive, held, atLimit)
    <3>1. UNION {row.parts : row \in archive.files["merchants"]} = {a.id : a \in Tables.aliases}
      BY <1>1, <1>6
    <3>2. request.includeConversations =>
             UNION {row.parts : row \in archive.files["advisor"]} = {m.id : m \in Tables.messages}
      BY <1>1, <1>7
    <3> HIDE DEF atLimit
    <3> QED
      BY <1>14, <1>15, <3>1, <3>2, Zenon DEF FilesRight
  <2> QED
    BY <1>11, <2>1, Zenon DEF ArchiveRight, archive
------------------------------------------------------------------------------
(* The list of transactions with the same filters.                         *)

ListedPairs(S, sort) == {p \in S \X S : Before(p[1], p[2], sort)}

\* A column orders the rows in either direction, its ties broken by their ids.
LEMMA ColumnOrders ==
    ASSUME NEW S, NEW key, \A t \in S : key[t] \in Int /\ t.id \in Int, Keyed(S), NEW R,
           \/ \A t, u \in S : <<t, u>> \in R
                                <=> key[t] < key[u] \/ (key[t] = key[u] /\ t.id < u.id)
           \/ \A t, u \in S : <<t, u>> \in R
                                <=> key[t] > key[u] \/ (key[t] = key[u] /\ t.id > u.id)
    PROVE  StrictOrder(S, R)
  BY DEF StrictOrder, Keyed

\* So does every sort of the list.
LEMMA ListOrdered ==
    ASSUME NEW S, Exportable(S), NEW sort
    PROVE  StrictOrder(S, ListedPairs(S, sort))
<1> DEFINE R == ListedPairs(S, sort)
           dates == [t \in S |-> t.date]
           amounts == [t \in S |-> t.amount]
           texts == [t \in S |-> t.description]
<1>1. /\ \A t \in S : t.id \in Int /\ dates[t] \in Int /\ amounts[t] \in Int /\ texts[t] \in Int
      /\ Keyed(S)
  BY DEF Exportable, Measured
<1>2. \A t, u \in S : <<t, u>> \in R <=> Before(t, u, sort)
  BY DEF ListedPairs
<1>3. \A t \in S : dates[t] = t.date /\ amounts[t] = t.amount /\ texts[t] = t.description
  OBVIOUS
<1> HIDE DEF R, dates, amounts, texts
<1>4. CASE sort = "bookingDateAsc"
  <2>1. \A t, u \in S : <<t, u>> \in R
           <=> dates[t] < dates[u] \/ (dates[t] = dates[u] /\ t.id < u.id)
    BY <1>2, <1>3, <1>4, ZenonT(60) DEF Before
  <2> QED
    BY <1>1, <2>1, ColumnOrders DEF R
<1>5. CASE sort = "amountAsc"
  <2>1. \A t, u \in S : <<t, u>> \in R
           <=> amounts[t] < amounts[u] \/ (amounts[t] = amounts[u] /\ t.id < u.id)
    BY <1>2, <1>3, <1>5, ZenonT(60) DEF Before
  <2> QED
    BY <1>1, <2>1, ColumnOrders DEF R
<1>6. CASE sort = "amountDesc"
  <2>1. \A t, u \in S : <<t, u>> \in R
           <=> amounts[t] > amounts[u] \/ (amounts[t] = amounts[u] /\ t.id > u.id)
    BY <1>2, <1>3, <1>6, ZenonT(60) DEF Before
  <2> QED
    BY <1>1, <2>1, ColumnOrders DEF R
<1>7. CASE sort = "descriptionAsc"
  <2>1. \A t, u \in S : <<t, u>> \in R
           <=> texts[t] < texts[u] \/ (texts[t] = texts[u] /\ t.id < u.id)
    BY <1>2, <1>3, <1>7, ZenonT(60) DEF Before
  <2> QED
    BY <1>1, <2>1, ColumnOrders DEF R
<1>8. CASE sort = "descriptionDesc"
  <2>1. \A t, u \in S : <<t, u>> \in R
           <=> texts[t] > texts[u] \/ (texts[t] = texts[u] /\ t.id > u.id)
    BY <1>2, <1>3, <1>8 DEF Before
  <2> QED
    BY <1>1, <2>1, ColumnOrders DEF R
<1>9. CASE sort \notin {"bookingDateAsc", "amountAsc", "amountDesc", "descriptionAsc",
                        "descriptionDesc"}
  <2>1. \A t, u \in S : <<t, u>> \in R
           <=> dates[t] > dates[u] \/ (dates[t] = dates[u] /\ t.id > u.id)
    BY <1>2, <1>3, <1>9 DEF Before
  <2> QED
    BY <1>1, <2>1, ColumnOrders DEF R
<1> QED
  BY <1>4, <1>5, <1>6, <1>7, <1>8, <1>9

\* The list in one page holds what the filters select and nothing else.
LEMMA ListComplete ==
    ASSUME NEW l, Exportable(l), NEW query
    PROVE  LET listed == ListTransactions(l, query, Cardinality(l), 0)
           IN /\ ToSet(listed.items) = Found(l, query)
              /\ listed.total = Cardinality(Found(l, query))
<1> DEFINE found == Found(l, query)
           R == ListedPairs(found, query.sort)
           sorted == Sorted(found, LAMBDA t, u : Before(t, u, query.sort))
           n == Cardinality(found)
           listed == ListTransactions(l, query, Cardinality(l), 0)
<1>1. Exportable(found) /\ n \in Nat /\ Cardinality(l) \in Nat /\ n <= Cardinality(l)
  <2>1. found \in SUBSET l
    BY DEF Found
  <2>2. IsFiniteSet(found) /\ n <= Cardinality(l)
    BY <2>1, FS_Subset DEF Exportable
  <2> QED
    BY <2>1, <2>2, FS_CardinalityType DEF Exportable, Keyed
<1>2. /\ listed.items = SubSeq(sorted, 0 + 1, Min({0 + Cardinality(l), Len(sorted)}))
      /\ listed.total = n
  BY DEF ListTransactions, Found
<1>3. Len(sorted) = n
  BY <1>1 DEF Sorted
<1>4. ASSUME NEW t \in found
      PROVE  Cardinality({u \in found : Before(u, t, query.sort)}) = Rank(found, R, t)
  <2>1. {u \in found : Before(u, t, query.sort)} = Smaller(found, R, t)
    BY DEF Smaller, ListedPairs
  <2> QED
    BY <2>1 DEF Rank
<1>5. ASSUME NEW i \in 1..n, \E t \in found : Rank(found, R, t) = i - 1
      PROVE  sorted[i] \in found /\ Rank(found, R, sorted[i]) = i - 1
  <2>1. sorted[i] = CHOOSE t \in found :
                       Cardinality({u \in found : Before(u, t, query.sort)}) = i - 1
    BY DEF Sorted
  <2>2. \E t \in found : Cardinality({u \in found : Before(u, t, query.sort)}) = i - 1
    BY <1>4, <1>5
  <2>3. /\ sorted[i] \in found
        /\ Cardinality({u \in found : Before(u, sorted[i], query.sort)}) = i - 1
    BY <2>1, <2>2
  <2> QED
    BY <1>4, <2>3
<1>6. IsFiniteSet(found) /\ StrictOrder(found, R)
  BY <1>1, ListOrdered DEF Exportable
<1> HIDE DEF found, R, sorted, listed
<1>7. Lists(sorted, found, R)
  BY <1>5, <1>6, InOrder
<1> HIDE DEF n
<1>8. /\ \A i \in 1..n : sorted[i] \in found
      /\ \A t \in found : \E i \in 1..n : sorted[i] = t
  BY <1>7 DEF Lists, n
<1>9. listed.items = SubSeq(sorted, 1, n)
  <2>1. Min({Cardinality(l), n}) = n
    BY <1>1, LesserOf
  <2>2. 0 + 1 = 1 /\ 0 + Cardinality(l) = Cardinality(l)
    BY <1>1
  <2> QED
    BY <1>2, <1>3, <2>1, <2>2
<1>10. /\ listed.items \in Seq(found) /\ Len(listed.items) = n
       /\ \A i \in 1..n : listed.items[i] = sorted[i]
  <2>1. /\ SubSeq(sorted, 1, n) \in Seq(found)
        /\ Len(SubSeq(sorted, 1, n)) = (IF 1 <= n THEN n - 1 + 1 ELSE 0)
        /\ \A i \in 1..(n - 1 + 1) : SubSeq(sorted, 1, n)[i] = sorted[1 + i - 1]
    BY <1>1, <1>8, SubSeqProperties
  <2> QED
    BY <1>1, <1>9, <2>1
<1>11. DOMAIN listed.items = 1..n
  BY <1>10, LenProperties
<1>12. ToSet(listed.items) = found
  BY <1>8, <1>10, <1>11 DEF ToSet
<1> QED
  BY <1>2, <1>12 DEF found, listed, n
------------------------------------------------------------------------------
(* An export of transactions.                                              *)

\* What a file has to be.
ExportRight(l, request, file) ==
    file # Refused =>
       LET rows == ToSet(file[1].rows)
           shown == {row.id : row \in rows}
           listed == ListTransactions(l, request.query, Cardinality(l), 0)
       IN /\ shown = {t.id : t \in ToSet(listed.items)} /\ Cardinality(shown) = listed.total
          /\ \A t \in l, row \in rows :
                t.id = row.id => (row.transfer = "confirmed" <=> ~Counted(t))
          /\ Len(file) = 3 => \A row \in rows :
                Cardinality({s \in file[2].rows : s.transaction = row.id}) = row.splitCount
          /\ request.type = "transactions_csv" \/ ~request.includeNotes
                => file[1].columns = file[1].cells

\* Of the links of a transaction, a confirmed one is told.
LEMMA ConfirmedTold ==
    ASSUME NEW l \in Ledgers, NEW t \in l
    PROVE  TransferStatus(t, LinksOf(l)) = "confirmed" <=> ~ Counted(t)
<1> DEFINE links == LinksOf(l)
           own == {k.status : k \in {j \in links : t.id \in {j.outgoing, j.incoming}}}
           rank == <<"confirmed", "suggested", "rejected", "unlinked">>
           told == {i \in 1..4 : rank[i] \in own}
<1>1. ~ Counted(t) <=> "confirmed" \in own
  BY LinksAssumption DEF Counted
<1>2. own \subseteq {"confirmed", "suggested", "rejected", "unlinked"}
  BY LinksAssumption DEF LinksOf
<1>3. TransferStatus(t, links) = IF own = {} THEN "none" ELSE rank[Min(told)]
  BY DEF TransferStatus
<1> HIDE DEF own, links
<1>4. /\ rank[1] = "confirmed" /\ rank[2] = "suggested" /\ rank[3] = "rejected"
      /\ rank[4] = "unlinked"
  OBVIOUS
<1>5. \A i : i \in told <=> i \in 1..4 /\ rank[i] \in own
  OBVIOUS
<1>6. 1..4 = {1, 2, 3, 4}
  OBVIOUS
<1> HIDE DEF rank, told
<1>7. CASE own = {}
  BY <1>1, <1>3, <1>7 DEF links
<1>8. CASE own # {}
  <2>1. told # {} /\ told \subseteq 1..4
    BY <1>2, <1>4, <1>5, <1>6, <1>8
  <2>2. \E i \in told : \A j \in told : i <= j
    <3>1. told \in SUBSET Nat
      BY <2>1
    <3> QED
      BY <2>1, <3>1, LeastNumber
  <2>3. Min(told) \in told /\ \A j \in told : Min(told) <= j
    BY <2>2 DEF Min
  <2>4. CASE "confirmed" \in own
    <3>1. 1 \in told
      BY <1>4, <1>5, <1>6, <2>4
    <3>2. PICK m : m = Min(told)
      OBVIOUS
    <3>3. m \in 1..4 /\ m <= 1
      BY <2>1, <2>3, <3>1, <3>2
    <3>4. Min(told) = 1
      BY <3>2, <3>3
    <3> QED
      BY <1>1, <1>3, <1>4, <1>8, <2>4, <3>4 DEF links
  <2>5. CASE "confirmed" \notin own
    <3>1. rank[Min(told)] \in own
      BY <1>5, <2>3
    <3> QED
      BY <1>1, <1>3, <1>8, <2>5, <3>1 DEF links
  <2> QED
    BY <2>4, <2>5
<1> QED
  BY <1>7, <1>8

\* Among the splits of some transactions, those of one are as many as it has.
LEMMA SplitsCounted ==
    ASSUME NEW l \in Ledgers, NEW S \in SUBSET l, NEW t \in S
    PROVE  Cardinality({s \in SplitRows(S) : s.transaction = t.id}) = SplitCount(t)
<1> DEFINE Row(s) == [transaction |-> t.id, id |-> s.id, amount |-> s.amount]
           active == ActiveSplits(t)
           rows == {s \in SplitRows(S) : s.transaction = t.id}
<1>1. \A u \in S : u.id = t.id => u = t
  BY LedgersAssumption DEF Keyed
<1>2. rows = {Row(s) : s \in active}
  <2>1. ASSUME NEW r \in rows
        PROVE  r \in {Row(s) : s \in active}
    <3>1. PICK u \in S : r \in {[transaction |-> u.id, id |-> s.id, amount |-> s.amount] :
                                   s \in ActiveSplits(u)}
      BY DEF SplitRows
    <3>2. PICK s \in ActiveSplits(u) : r = [transaction |-> u.id, id |-> s.id, amount |-> s.amount]
      BY <3>1
    <3>3. u.id = t.id
      BY <3>2
    <3> QED
      BY <1>1, <3>2, <3>3
  <2>2. ASSUME NEW s \in active
        PROVE  Row(s) \in rows
    <3>1. Row(s) \in SplitRows(S)
      BY DEF SplitRows
    <3> QED
      BY <3>1
  <2> QED
    BY <2>1, <2>2
<1>3. IsFiniteSet(active) /\ \A s, r \in active : s.id = r.id => s = r
  <2>1. active \in SUBSET t.splits
    BY DEF ActiveSplits
  <2>2. IsFiniteSet(t.splits) /\ Keyed(t.splits)
    BY LedgersAssumption
  <2> QED
    BY <2>1, <2>2, FS_Subset DEF Keyed
<1> DEFINE f == [s \in active |-> Row(s)]
<1>4. \A s \in active : f[s].id = s.id
  OBVIOUS
<1>5. f \in Bijection(active, {Row(s) : s \in active})
  BY <1>3, <1>4 DEF Bijection, Injection, Surjection, IsInjective
<1>6. Cardinality({Row(s) : s \in active}) = Cardinality(active)
  BY <1>3, <1>5, FS_Bijection DEF ExistsBijection
<1> QED
  BY <1>2, <1>6 DEF SplitCount

\* Without notes, or in CSV, cells stand under their columns.
LEMMA CellsUnderColumns ==
    ASSUME NEW type, NEW notes, type = "transactions_csv" \/ ~ notes
    PROVE  Columns(type, notes) = Cells(type, notes)
<1> DEFINE row == <<"row">>
           numeric == IF type = "transactions_xlsx" THEN <<"numeric">> ELSE <<>>
           note == IF notes THEN <<"note">> ELSE <<>>
           words == {"row", "numeric", "note"}
<1>1. Columns(type, notes) = row \o numeric \o note /\ Cells(type, notes) = row \o note \o numeric
  BY DEF Columns, Cells
<1>2. numeric = <<>> \/ note = <<>>
  OBVIOUS
<1>3. row \in Seq(words) /\ numeric \in Seq(words) /\ note \in Seq(words)
  <2>1. ASSUME NEW S, NEW x \in S
        PROVE  <<x>> \in Seq(S)
    OBVIOUS
  <2>2. <<"row">> \in Seq(words) /\ <<"numeric">> \in Seq(words) /\ <<"note">> \in Seq(words)
    BY <2>1
  <2>3. <<>> \in Seq(words)
    BY EmptySeq
  <2> QED
    BY <2>2, <2>3
<1> HIDE DEF row, numeric, note
<1>4. \A s \in Seq(words) : s \o <<>> = s
  BY ConcatEmptySeq
<1>5. row \o numeric \in Seq(words) /\ row \o note \in Seq(words)
  BY <1>3, ConcatProperties
<1> QED
  BY <1>1, <1>2, <1>3, <1>4, <1>5
\* A file that is not refused tells of each transaction that the list shows, and of
\* no other.
LEMMA FileRight ==
    ASSUME NEW l \in Ledgers, NEW request
    PROVE  ExportRight(l, request, TransactionsFile(l, LinksOf(l), request))
<1> DEFINE links == LinksOf(l)
           query == request.query
           found == Found(l, query)
           all == ExportRows(l, query, MaxExportRows)
           told == [i \in DOMAIN all |-> ExportRow(all[i], links)]
           splits == SplitRows(ToSet(all))
           file == TransactionsFile(l, links, request)
           listed == ListTransactions(l, query, Cardinality(l), 0)
           Told(t) == ExportRow(t, links)
<1>1. SUFFICES ASSUME file # Refused
               PROVE  ExportRight(l, request, file)
  BY DEF ExportRight
<1>2. /\ ~ Len(all) > MaxExportRows
      /\ file = IF request.type = "transactions_csv" THEN <<Sheet(request, told)>>
                ELSE WorkbookSheets(request, told, splits)
  <2> DEFINE counted == ListTransactions(l, query, 0, 0).total
  <2>1. file = IF counted > MaxExportRows \/ Len(all) > MaxExportRows THEN Refused
               ELSE IF request.type = "transactions_csv" THEN <<Sheet(request, told)>>
               ELSE WorkbookSheets(request, told, splits)
    BY DEF TransactionsFile
  <2> HIDE DEF file, told, splits, all, counted
  <2>2. file # Refused
    BY <1>1
  <2>3. ~ (counted > MaxExportRows) /\ ~ Len(all) > MaxExportRows
    BY <2>1, <2>2
  <2> QED
    BY <2>1, <2>3
<1>3. /\ file[1] = Sheet(request, told)
      /\ Len(file) = 3 => file[2] = Sheet(request, splits)
  BY <1>2 DEF WorkbookSheets
<1>4. /\ file[1].rows = told /\ file[1].columns = Columns(request.type, request.includeNotes)
      /\ file[1].cells = Cells(request.type, request.includeNotes)
      /\ Len(file) = 3 => file[2].rows = splits
  BY <1>3 DEF Sheet
<1>5. /\ all \in Seq(found) /\ \A t \in found : Holds(all, t)
      /\ DOMAIN all = 1..Len(all) /\ \A i \in 1..Len(all) : all[i] \in found
  <2>1. Complete(all, l, query, MaxExportRows) /\ MaxExportRows \in Nat
    BY LedgerExports, ExportComplete, LimitsAssumption
  <2>2. all \in Seq(found) /\ Len(all) \in Nat
    BY <2>1, LenProperties DEF Complete
  <2> HIDE DEF all, found
  <2>3. Len(all) <= MaxExportRows
    BY <1>2, <2>1, <2>2
  <2>4. \A t \in found : Holds(all, t)
    BY <2>1, <2>3 DEF Complete, found
  <2> QED
    BY <2>2, <2>4, LenProperties, ElementOfSeq
<1>6. ToSet(all) = found
  <2> HIDE DEF all, found
  <2> QED
    BY <1>5 DEF ToSet, Holds
<1>7. found \in SUBSET l
  BY DEF Found
<1>8. ToSet(listed.items) = found /\ listed.total = Cardinality(found)
  BY LedgerExports, ListComplete
<1> HIDE DEF found, all, listed, file, links
<1>9. ToSet(told) = {Told(t) : t \in found}
  <2>1. DOMAIN told = DOMAIN all /\ \A i \in DOMAIN all : told[i] = Told(all[i])
    OBVIOUS
  <2> HIDE DEF told, Told
  <2>2. ToSet(told) = {Told(all[i]) : i \in DOMAIN all}
    BY <2>1 DEF ToSet
  <2>3. {all[i] : i \in DOMAIN all} = found
    BY <1>6 DEF ToSet
  <2> QED
    BY <2>2, <2>3
<1>10. \A t \in found : /\ Told(t).id = t.id /\ Told(t).transfer = TransferStatus(t, links)
                         /\ Told(t).splitCount = SplitCount(t)
  BY DEF ExportRow
<1> HIDE DEF told, Told
<1>11. {row.id : row \in ToSet(told)} = {t.id : t \in found}
  BY <1>9, <1>10
<1>12. Cardinality({t.id : t \in found}) = Cardinality(found)
  <2> DEFINE f == [t \in found |-> t.id]
  <2>1. IsFiniteSet(found) /\ \A t, u \in found : t.id = u.id => t = u
    BY <1>7, LedgersAssumption, FS_Subset DEF Keyed
  <2>2. f \in Bijection(found, {t.id : t \in found})
    BY <2>1 DEF Bijection, Injection, Surjection, IsInjective
  <2> QED
    BY <2>1, <2>2, FS_Bijection DEF ExistsBijection
<1>13. ASSUME NEW t \in l, NEW row \in ToSet(told), t.id = row.id
       PROVE  row.transfer = "confirmed" <=> ~ Counted(t)
  <2>1. PICK u \in found : row = Told(u)
    BY <1>9
  <2>2. u = t
    BY <1>7, <1>10, <1>13, <2>1, LedgersAssumption DEF Keyed
  <2>3. row.transfer = TransferStatus(t, links)
    BY <1>10, <2>1, <2>2
  <2> QED
    BY <2>3, ConfirmedTold DEF links
<1>14. ASSUME NEW row \in ToSet(told)
       PROVE  Cardinality({s \in splits : s.transaction = row.id}) = row.splitCount
  <2>1. PICK t \in found : row = Told(t)
    BY <1>9
  <2>2. row.id = t.id /\ row.splitCount = SplitCount(t)
    BY <1>10, <2>1
  <2>3. Cardinality({s \in SplitRows(found) : s.transaction = t.id}) = SplitCount(t)
    BY <1>7, SplitsCounted
  <2> QED
    BY <1>6, <2>2, <2>3
<1>15. request.type = "transactions_csv" \/ ~ request.includeNotes
         => file[1].columns = file[1].cells
  BY <1>4, CellsUnderColumns
<1> HIDE DEF splits
<1>16. ExportRight(l, request, file)
  BY <1>4, <1>8, <1>11, <1>12, <1>13, <1>14, <1>15 DEF ExportRight, listed
<1> QED
  BY <1>16

------------------------------------------------------------------------------
(* The invariant of exports.                                               *)

\* The answer is right for the export asked.
ExportsInv ==
    /\ ledger \in Ledgers
    /\ asked.kind = "export" => ExportRight(ledger, asked.request, answer)
    /\ asked.kind = "archive" => ArchiveRight(ledger, asked.request, answer)

\* A question about an export is answered rightly, others do not matter.
LEMMA ExportAsked ==
    ASSUME ledger \in Ledgers, NEW question, NEW reply, Ask(question, reply),
           question.kind = "export" => ExportRight(ledger, question.request, reply),
           question.kind = "archive" => ArchiveRight(ledger, question.request, reply)
    PROVE  ExportsInv'
  BY DEF Ask, ExportsInv, ExportRight, ArchiveRight

\* A question about something else changes nothing of that.
LEMMA NoExportAsked ==
    ASSUME ledger \in Ledgers, NEW question, NEW reply, Ask(question, reply),
           question.kind \notin {"export", "archive"}
    PROVE  ExportsInv'
  BY ExportAsked

\* Transactions.
LEMMA FileAsked ==
    ASSUME ledger \in Ledgers, NEW request, AskExport(request)
    PROVE  ExportsInv'
<1> DEFINE stored == Stored(request)
           question == [kind |-> "export", request |-> stored]
           reply == TransactionsFile(ledger, LinksOf(ledger), stored)
<1>1. Ask(question, reply)
  BY DEF AskExport
<1>2. question.kind = "export" /\ question.request = stored
  OBVIOUS
<1>3. ExportRight(ledger, stored, reply)
  BY FileRight
<1> HIDE DEF question, reply, stored
<1> QED
  BY <1>1, <1>2, <1>3, ExportAsked

\* An archive.
LEMMA ArchiveAsked ==
    ASSUME ledger \in Ledgers, NEW request, AskArchive(request)
    PROVE  ExportsInv'
<1> DEFINE question == [kind |-> "archive", request |-> request]
           reply == Archive(ledger, LinksOf(ledger), Tables, request)
<1>1. Ask(question, reply)
  BY DEF AskArchive
<1>2. question.kind = "archive" /\ question.request = request
  OBVIOUS
<1>3. ArchiveRight(ledger, request, reply)
  <2>1. LinksWithin(LinksOf(ledger), ledger)
    BY DEF LinksWithin, LinksOf
  <2> QED
    BY <2>1, ArchiveClosed
<1> HIDE DEF question, reply
<1> QED
  BY <1>1, <1>2, <1>3, ExportAsked

\* Every question.
LEMMA ExportsStep ==
    ASSUME ExportsInv, ReportNext
    PROVE  ExportsInv'
<1>1. ledger \in Ledgers
  BY DEF ExportsInv
<1>2. ASSUME NEW v \in Amounts, WriteAmount(v) PROVE ExportsInv'
  BY <1>1, <1>2, NoExportAsked DEF WriteAmount
<1>3. ASSUME NEW p \in Calendar, AskPeriod(p) PROVE ExportsInv'
  BY <1>1, <1>3, NoExportAsked DEF AskPeriod
<1>4. ASSUME NEW f \in Phrases, AskPhrase(f) PROVE ExportsInv'
  BY <1>1, <1>4, NoExportAsked DEF AskPhrase
<1>5. ASSUME NEW v \in Amounts, NEW w \in Amounts, AskChange(v, w) PROVE ExportsInv'
  BY <1>1, <1>5, NoExportAsked DEF AskChange
<1>6. ASSUME NEW a \in AccountScopes, AskDashboard(a) PROVE ExportsInv'
  BY <1>1, <1>6, NoExportAsked DEF AskDashboard
<1>7. ASSUME NEW c \in CurrencyCodes, NEW a \in AccountScopes, AskSpending(c, a) PROVE ExportsInv'
  BY <1>1, <1>7, NoExportAsked DEF AskSpending
<1>8. ASSUME NEW b \in Budgets, AskBudget(b) PROVE ExportsInv'
  BY <1>1, <1>8, NoExportAsked DEF AskBudget
<1>9. ASSUME NEW b \in Budgets, AskPreview(b) PROVE ExportsInv'
  BY <1>1, <1>9, NoExportAsked DEF AskPreview
<1>10. ASSUME NEW q \in TransferQueries, AskTransfers(q) PROVE ExportsInv'
  BY <1>1, <1>10, NoExportAsked DEF AskTransfers
<1>11. ASSUME NEW r \in Requests, AskExport(r) PROVE ExportsInv'
  BY <1>1, <1>11, FileAsked
<1>12. ASSUME NEW r \in Requests, AskArchive(r) PROVE ExportsInv'
  BY <1>1, <1>12, ArchiveAsked
<1>13. ASSUME AskOverview PROVE ExportsInv'
  BY <1>1, <1>13, NoExportAsked DEF AskOverview
<1> QED
  BY <1>2, <1>3, <1>4, <1>5, <1>6, <1>7, <1>8, <1>9, <1>10, <1>11, <1>12, <1>13 DEF ReportNext

\* So it stays.
LEMMA ExportsInvariant == ReportSpec => []ExportsInv
<1>1. ReportInit => ExportsInv
  BY DEF ReportInit, ExportsInv
<1>2. ExportsInv /\ [ReportNext]_reportVars => ExportsInv'
  <2>1. CASE ReportNext
    BY <2>1, ExportsStep
  <2>2. CASE UNCHANGED reportVars
    BY <2>2 DEF ExportsInv, ExportRight, ArchiveRight, reportVars
  <2> QED
    BY <2>1, <2>2
<1> QED
  BY <1>1, <1>2, PTL DEF ReportSpec

\* An export that is not refused holds every transaction that the list counts with the
\* same filters, and no other, for every ledger, page and limit: a cursor that keeps
\* milliseconds of the database's microseconds may repeat rows and never skips one.
\* Its rows say "confirmed transfer" where the reports leave a transaction out, and
\* count the splits that the workbook lists (fetchTransactionExportPage,
\* generateSnapshot, listTransactions, fetchTransferStatuses, fetchSplitCounts).
THEOREM ExportsAlwaysAgree == ReportSpec => []ExportAgrees
<1>1. ExportsInv => ExportAgrees
  BY DEF ExportsInv, ExportRight, ExportAgrees
<1> QED
  BY <1>1, ExportsInvariant, PTL

\* An archive holds every alias, every message if they were asked for, every transaction
\* of the ledger that is not dropped beyond the limit, and all that its rows refer to but
\* those and the statements of alerts (fetchArchiveTransactions, fetchArchiveAlertEvents).
THEOREM ArchivesAreClosed == ReportSpec => []ArchiveIsClosed
<1>1. ExportsInv => ArchiveIsClosed
  BY DEF ExportsInv, ArchiveRight, FilesRight, ArchiveIsClosed
<1> QED
  BY <1>1, ExportsInvariant, PTL

------------------------------------------------------------------------------
(* Decimal texts.                                                          *)

\* The powers of ten.
LEMMA PowersOfTen ==
    /\ TenTo[0] = 1
    /\ \A n \in 1..Places : TenTo[n] = 10 * TenTo[n - 1]
    /\ \A n \in 0..Places : TenTo[n] \in Nat /\ TenTo[n] > 0
<1> DEFINE step == [p \in Nat \X Nat |-> 10 * p[2]]
<1>1. Places \in Nat /\ step \in [Nat \X Nat -> Nat]
  BY PlacesAssumption
<1>2. \A n \in Nat, v \in Nat : step[<<n, v>>] = 10 * v
  OBVIOUS
<1> HIDE DEF step
<1>3. PICK h \in [0..Places -> Nat] : RunOf(h, 1, step, Places)
  BY <1>1, RunExists
<1>4. h = [n \in 0..Places |-> IF n = 0 THEN 1 ELSE 10 * h[n - 1]]
  <2>1. ASSUME NEW n \in 0..Places
        PROVE  h[n] = IF n = 0 THEN 1 ELSE 10 * h[n - 1]
    <3>1. CASE n = 0
      BY <1>3, <3>1 DEF RunOf
    <3>2. CASE n # 0
      <4>1. n \in 1..Places /\ n - 1 \in 0..Places /\ n \in Nat
        BY <1>1, <3>2
      <4>2. h[n] = step[<<n, h[n - 1]>>] /\ h[n - 1] \in Nat
        BY <1>3, <4>1 DEF RunOf
      <4> QED
        BY <1>2, <3>2, <4>1, <4>2
    <3> QED
      BY <3>1, <3>2
  <2> QED
    BY <2>1
<1>5. TenTo = [n \in 0..Places |-> IF n = 0 THEN 1 ELSE 10 * TenTo[n - 1]]
  BY <1>4 DEF TenTo
<1>6. TenTo[0] = 1 /\ \A n \in 1..Places : TenTo[n] = 10 * TenTo[n - 1]
  <2>1. 0 \in 0..Places /\ \A n \in 1..Places : n \in 0..Places /\ n # 0
    BY <1>1
  <2> QED
    BY <1>5, <2>1
<1> DEFINE Bad == {n \in 0..Places : ~ (TenTo[n] \in Nat /\ TenTo[n] > 0)}
<1>7. Bad = {}
  <2>1. SUFFICES ASSUME Bad # {} PROVE FALSE
    OBVIOUS
  <2>2. PICK k \in Bad : \A j \in Bad : k <= j
    <3>1. Bad \in SUBSET Nat
      BY <1>1
    <3> HIDE DEF Bad
    <3> QED
      BY <2>1, <3>1, LeastNumber
  <2>3. k # 0
    BY <1>6, <2>2
  <2>4. k - 1 \in 0..Places /\ k - 1 \notin Bad /\ k \in 1..Places
    BY <1>1, <2>2, <2>3
  <2> QED
    BY <1>6, <2>2, <2>4
<1> QED
  BY <1>6, <1>7

\* The number that digits write is the last of a loop over them.
LEMMA DigitsRead ==
    ASSUME NEW d \in Seq(Nat)
    PROVE  \E h \in [0..Len(d) -> Nat] :
              /\ h[0] = 0 /\ \A n \in 1..Len(d) : h[n] = 10 * h[n - 1] + d[n]
              /\ Digits(d) = h[Len(d)]
<1> DEFINE step == [p \in Nat \X Nat |-> 10 * p[2] + IF p[1] \in 1..Len(d) THEN d[p[1]] ELSE 0]
<1>1. PICK m \in Nat : m = Len(d)
  BY LenProperties
<1>2. \A n \in 1..m : d[n] \in Nat
  BY <1>1, ElementOfSeq
<1>3. ASSUME NEW n \in Nat, NEW v \in Nat
      PROVE  /\ step[<<n, v>>] \in Nat
             /\ n \in 1..m => step[<<n, v>>] = 10 * v + d[n]
  BY <1>1, <1>2
<1>4. step \in [Nat \X Nat -> Nat]
  BY <1>1, <1>2
<1> HIDE DEF step
<1>5. PICK h \in [0..m -> Nat] : RunOf(h, 0, step, m)
  BY <1>4, RunExists
<1>6. h[0] = 0 /\ \A n \in 1..m : h[n] = 10 * h[n - 1] + d[n]
  <2>1. ASSUME NEW n \in 1..m
        PROVE  h[n] = 10 * h[n - 1] + d[n]
    <3>1. n \in Nat /\ n - 1 \in 0..m
      OBVIOUS
    <3>2. h[n] = step[<<n, h[n - 1]>>] /\ h[n - 1] \in Nat
      BY <1>5, <3>1 DEF RunOf
    <3> QED
      BY <1>3, <3>1, <3>2
  <2> QED
    BY <1>5, <2>1 DEF RunOf
<1> DEFINE Read == CHOOSE f : f = [n \in 0..Len(d) |->
                                     IF n = 0 THEN 0 ELSE 10 * f[n - 1] + d[n]]
<1>7. Digits(d) = Read[m]
  BY <1>1 DEF Digits
<1>8. h = [n \in 0..Len(d) |-> IF n = 0 THEN 0 ELSE 10 * h[n - 1] + d[n]]
  <2>1. \A n \in 0..m : h[n] = IF n = 0 THEN 0 ELSE 10 * h[n - 1] + d[n]
    BY <1>6
  <2> QED
    BY <1>1, <2>1
<1>9. Read = [n \in 0..Len(d) |-> IF n = 0 THEN 0 ELSE 10 * Read[n - 1] + d[n]]
  BY <1>8
<1> HIDE DEF Read
<1>10. Read[0] = 0 /\ \A n \in 1..m : Read[n] = 10 * Read[n - 1] + d[n]
  <2>1. 0 \in 0..m /\ \A n \in 1..m : n \in 0..m /\ n # 0
    OBVIOUS
  <2> QED
    BY <1>1, <1>9, <2>1
<1> DEFINE Bad == {n \in 0..m : Read[n] # h[n]}
<1>11. Bad = {}
  <2>1. SUFFICES ASSUME Bad # {} PROVE FALSE
    OBVIOUS
  <2>2. PICK k \in Bad : \A j \in Bad : k <= j
    <3>1. Bad \in SUBSET Nat
      OBVIOUS
    <3> HIDE DEF Bad
    <3> QED
      BY <2>1, <3>1, LeastNumber
  <2>3. k # 0
    BY <1>6, <1>10, <2>2
  <2>4. k - 1 \in 0..m /\ k - 1 \notin Bad /\ k \in 1..m
    BY <2>2, <2>3
  <2> QED
    BY <1>6, <1>10, <2>2, <2>4
<1>12. Digits(d) = h[m]
  BY <1>7, <1>11
<1> QED
  BY <1>1, <1>6, <1>12

\* A number and its last digit.
LEMMA LastDigit ==
    ASSUME NEW x \in Nat
    PROVE  \E high \in Nat, low \in 0..9 :
              high = x \div 10 /\ low = x % 10 /\ x = 10 * high + low
<1>1. PICK high \in Nat : high = x \div 10
  BY SMT
<1>2. PICK low \in 0..9 : low = x % 10
  BY SMT
<1>3. x = 10 * high + low
  BY <1>1, <1>2, SMT
<1> QED
  BY <1>1, <1>2, <1>3

\* A digit more is a division by ten more.
LEMMA QuotientByTen ==
    ASSUME NEW v \in Nat, NEW q \in Nat, q > 0
    PROVE  \E high \in Nat, low \in 0..9 :
              high = v \div (10 * q) /\ low = (v \div q) % 10 /\ v \div q = 10 * high + low
<1>1. PICK x \in Nat : x = v \div q
  BY SMT
<1>2. v \div (10 * q) = x \div 10
  BY <1>1, SMT
<1> QED
  BY <1>1, <1>2, LastDigit

\* The digits of a number below the factor write it.
LEMMA DigitsOfPadded ==
    ASSUME NEW v \in Nat, v < Factor
    PROVE  /\ Padded(v, Places) \in [1..Places -> 0..9]
           /\ Digits(Padded(v, Places)) = v
<1>1. Places \in Nat
  BY PlacesAssumption
<1>2. \A i \in 1..Places : TenTo[Places - i] \in Nat /\ TenTo[Places - i] > 0
  BY <1>1, PowersOfTen
<1>3. PICK d : d = Padded(v, Places)
  OBVIOUS
<1>4. \A i \in 1..Places : d[i] = (v \div TenTo[Places - i]) % 10
  BY <1>3 DEF Padded
<1>5. ASSUME NEW i \in 1..Places
      PROVE  (v \div TenTo[Places - i]) % 10 \in 0..9
  BY <1>2, QuotientByTen
<1>6. d \in [1..Places -> 0..9]
  BY <1>3, <1>5 DEF Padded
<1>7. d \in Seq(Nat) /\ Len(d) = Places
  <2>1. d \in [1..Places -> Nat]
    BY <1>6
  <2> QED
    BY <1>1, <2>1, LenProperties, SeqDef
<1>8. PICK h \in [0..Places -> Nat] :
        /\ h[0] = 0 /\ \A n \in 1..Places : h[n] = 10 * h[n - 1] + d[n]
        /\ Digits(d) = h[Places]
  BY <1>7, DigitsRead
<1> DEFINE Bad == {n \in 0..Places : h[n] # v \div TenTo[Places - n]}
<1>9. Bad = {}
  <2>1. SUFFICES ASSUME Bad # {} PROVE FALSE
    OBVIOUS
  <2>2. PICK k \in Bad : \A j \in Bad : k <= j
    <3>1. Bad \in SUBSET Nat
      BY <1>1
    <3> HIDE DEF Bad
    <3> QED
      BY <2>1, <3>1, LeastNumber
  <2>3. CASE k = 0
    <3>1. PICK q \in Nat : q = Factor
      BY <1>1, PowersOfTen DEF Factor
    <3>2. v \div q = 0
      BY <3>1, SMT
    <3> QED
      BY <1>1, <1>8, <2>2, <2>3, <3>1, <3>2 DEF Factor
  <2>4. CASE k # 0
    <3>1. k - 1 \in 0..Places /\ k - 1 \notin Bad /\ k \in 1..Places
      BY <1>1, <2>2, <2>4
    <3>2. h[k - 1] = v \div TenTo[Places - (k - 1)]
      BY <3>1
    <3>3. Places - (k - 1) \in 1..Places /\ (Places - (k - 1)) - 1 = Places - k
      BY <1>1, <3>1
    <3>4. PICK q \in Nat : q = TenTo[Places - k] /\ q > 0
      BY <1>2, <3>1
    <3>5. TenTo[Places - (k - 1)] = 10 * q
      BY <3>3, <3>4, PowersOfTen
    <3>6. PICK high \in Nat, low \in 0..9 :
            high = v \div (10 * q) /\ low = (v \div q) % 10 /\ v \div q = 10 * high + low
      BY <3>4, QuotientByTen
    <3>7. h[k] = 10 * h[k - 1] + d[k] /\ d[k] = low
      BY <1>4, <1>8, <3>1, <3>4, <3>6
    <3>8. h[k - 1] = high
      BY <3>2, <3>5, <3>6
    <3>9. h[k] = v \div q
      BY <3>6, <3>7, <3>8
    <3> QED
      BY <2>2, <3>4, <3>9
  <2> QED
    BY <2>3, <2>4
<1>10. h[Places] = v
  <2>1. Places \in 0..Places /\ Places - Places = 0
    BY <1>1
  <2>2. h[Places] = v \div 1
    BY <1>9, <2>1, PowersOfTen
  <2> QED
    BY <2>2
<1> QED
  BY <1>3, <1>6, <1>8, <1>10

\* Digits without the zeros at their end; with as many zeros they are what they were.
LEMMA TrimmedDigits ==
    ASSUME NEW m \in Nat, NEW d \in [1..m -> Nat]
    PROVE  LET t == Trimmed(d)
           IN /\ t \in Seq(Nat) /\ Len(t) \in 0..m
              /\ t \o Zeros(m - Len(t)) = d
              /\ (\A i \in 1..m : d[i] = 0) => t = <<>>
<1> DEFINE ends == {0} \union {i \in DOMAIN d : d[i] # 0}
<1>1. PICK k \in ends : \A j \in ends : k >= j
  <2>1. IsFiniteSet(ends) /\ ends \in SUBSET Int /\ ends # {}
    <3>1. ends \subseteq 0..m /\ IsFiniteSet(0..m)
      BY FS_Interval
    <3> QED
      BY <3>1, FS_Subset
  <2> DEFINE Bad == {n \in Nat : \E j \in ends : n = m - j}
  <2>2. Bad \in SUBSET Nat /\ Bad # {}
    <3>1. m \in Bad
      OBVIOUS
    <3> QED
      BY <3>1
  <2>3. PICK n \in Bad : \A j \in Bad : n <= j
    <3> HIDE DEF Bad
    <3> QED
      BY <2>2, LeastNumber
  <2>4. PICK k \in ends : n = m - k
    BY <2>3
  <2>5. ASSUME NEW j \in ends
        PROVE  k >= j
    <3>1. j \in 0..m /\ k \in 0..m
      OBVIOUS
    <3>2. m - j \in Bad
      BY <3>1
    <3>3. n <= m - j
      BY <2>3, <3>2
    <3> QED
      BY <2>4, <3>1, <3>3
  <2> QED
    BY <2>5
<1>2. PICK top : top = Max(ends)
  OBVIOUS
<1>3. top \in ends /\ \A j \in ends : top >= j
  BY <1>1, <1>2 DEF Max
<1>4. top \in 0..m /\ top \in Nat /\ \A i \in 1..m : i > top => d[i] = 0
  BY <1>3
<1>5. PICK t : t = SubSeq(d, 1, top)
  OBVIOUS
<1>6. Trimmed(d) = t
  BY <1>2, <1>5 DEF Trimmed
<1>7. d \in Seq(Nat) /\ Len(d) = m
  BY LenProperties, SeqDef
<1>8. t \in Seq(Nat) /\ Len(t) = top /\ \A i \in 1..top : t[i] = d[i]
  <2>1. \A i \in 1..top : i \in 1..m
    BY <1>4
  <2> QED
    BY <1>4, <1>5, <1>7, <2>1, SubSeqProperties
<1>9. PICK z : z = Zeros(m - top)
  OBVIOUS
<1>10. z \in Seq(Nat) /\ Len(z) = m - top /\ \A i \in 1..(m - top) : z[i] = 0
  <2>1. m - top \in Nat
    BY <1>4
  <2>2. z \in [1..(m - top) -> Nat] /\ \A i \in 1..(m - top) : z[i] = 0
    BY <1>9 DEF Zeros
  <2> QED
    BY <2>1, <2>2, LenProperties, SeqDef
<1>11. PICK u : u = t \o z
  OBVIOUS
<1>12. /\ u \in Seq(Nat) /\ Len(u) = m
       /\ \A i \in 1..m : u[i] = IF i <= top THEN t[i] ELSE z[i - top]
  <2>1. top + (m - top) = m
    BY <1>4
  <2>2. u \in Seq(Nat) /\ Len(u) = m
    <3>1. t \o z \in Seq(Nat) /\ Len(t \o z) = Len(t) + Len(z)
      BY <1>8, <1>10, ConcatProperties
    <3> QED
      BY <1>8, <1>10, <1>11, <2>1, <3>1
  <2>3. \A i \in 1..m : (t \o z)[i] = IF i <= top THEN t[i] ELSE z[i - top]
    <3>1. \A i \in 1..(Len(t) + Len(z)) :
             (t \o z)[i] = IF i <= Len(t) THEN t[i] ELSE z[i - Len(t)]
      BY <1>8, <1>10, ConcatProperties
    <3> QED
      BY <1>8, <1>10, <2>1, <3>1
  <2> QED
    BY <1>11, <2>2, <2>3
<1>13. u = d
  <2>1. ASSUME NEW i \in 1..m
        PROVE  u[i] = d[i]
    <3>1. CASE i <= top
      <4>1. i \in 1..top
        BY <1>4, <3>1
      <4> QED
        BY <1>8, <1>12, <3>1, <4>1
    <3>2. CASE ~ i <= top
      <4>1. i - top \in 1..(m - top) /\ i > top
        BY <1>4, <3>2
      <4> QED
        BY <1>4, <1>10, <1>12, <3>2, <4>1
    <3> QED
      BY <3>1, <3>2
  <2> QED
    BY <1>7, <1>12, <2>1, SeqEqual
<1>14. (\A i \in 1..m : d[i] = 0) => t = <<>>
  <2>1. (\A i \in 1..m : d[i] = 0) => top = 0
    BY <1>3
  <2> QED
    BY <1>8, <2>1, EmptySeq
<1> QED
  BY <1>4, <1>6, <1>8, <1>9, <1>11, <1>13, <1>14

\* A number and what a division leaves of it.
LEMMA DivisionLeaves ==
    ASSUME NEW v \in Nat, NEW q \in Nat, q > 0
    PROVE  \E high \in Nat, low \in Nat :
              high = v \div q /\ low = v % q /\ low < q /\ v = high * q + low
<1>1. PICK high \in Nat : high = v \div q
  BY SMT
<1>2. PICK low \in Nat : low = v % q /\ low < q
  BY SMT
<1>3. v = high * q + low
  BY <1>1, <1>2, SMT
<1> QED
  BY <1>1, <1>2, <1>3

TextRight(v, text) ==
    /\ ScaledValue(text) = IF Absolute(v) < WholeLimit * Factor THEN v ELSE None
    /\ TrimNumeric([text EXCEPT !.fraction = @ \o Zeros(Places - Len(@))]) = text

\* The text of an amount reads back as it, if it has no digit too many.
LEMMA TextReadsBack ==
    ASSUME NEW v \in Int
    PROVE  TextRight(v, DecimalText(v))
<1>1. PICK a \in Nat : a = Absolute(v)
  BY DEF Absolute
<1>2. PICK q \in Nat : q = Factor /\ q > 0
  BY PlacesAssumption, PowersOfTen DEF Factor
<1>3. PICK high \in Nat, low \in Nat :
        high = a \div q /\ low = a % q /\ low < q /\ a = high * q + low
  BY <1>2, DivisionLeaves
<1>4. PICK d \in [1..Places -> Nat] : d = Padded(low, Places) /\ Digits(d) = low
  <2>1. Padded(low, Places) \in [1..Places -> 0..9] /\ Digits(Padded(low, Places)) = low
    BY <1>2, <1>3, DigitsOfPadded
  <2> QED
    BY <2>1
<1>5. PICK t : t = Trimmed(d)
  OBVIOUS
<1>6. /\ t \in Seq(Nat) /\ Len(t) \in 0..Places
      /\ t \o Zeros(Places - Len(t)) = d
      /\ (\A i \in 1..Places : d[i] = 0) => t = <<>>
  BY <1>5, PlacesAssumption, TrimmedDigits
<1>7. PICK text : text = [negative |-> v < 0, whole |-> high, fraction |-> t]
  OBVIOUS
<1>8. DecimalText(v) = text
  BY <1>1, <1>2, <1>3, <1>4, <1>5, <1>7 DEF DecimalText
<1>9. WholeLimit \in Nat /\ (high < WholeLimit <=> a < WholeLimit * q)
  <2>1. PICK limit \in Nat : limit = WholeLimit
    BY PlacesAssumption
  <2>2. CASE high < limit
    <3>1. (high + 1) * q <= limit * q
      BY <1>2, <2>1, <2>2, SMT
    <3>2. (high + 1) * q = high * q + q
      BY <1>2, <1>3, SMT
    <3> QED
      BY <1>2, <1>3, <2>1, <2>2, <3>1, <3>2, SMT
  <2>3. CASE ~ high < limit
    <3>1. limit * q <= high * q
      BY <1>2, <1>3, <2>1, <2>3, SMT
    <3> QED
      BY <1>2, <1>3, <2>1, <2>3, <3>1, SMT
  <2> QED
    BY <2>2, <2>3
<1>10. ScaledValue(text) = IF Absolute(v) < WholeLimit * Factor THEN v ELSE None
  <2>1. text.whole * Factor + Digits(text.fraction \o Zeros(Places - Len(text.fraction))) = a
    BY <1>2, <1>3, <1>4, <1>6, <1>7
  <2>2. IsDecimal(text) <=> high < WholeLimit
    BY <1>6, <1>7 DEF IsDecimal
  <2>3. ScaledValue(text) = IF ~IsDecimal(text) THEN None ELSE IF v < 0 THEN -a ELSE a
    BY <1>7, <2>1 DEF ScaledValue
  <2>4. (IF v < 0 THEN -a ELSE a) = v
    BY <1>1 DEF Absolute
  <2>5. IsDecimal(text) <=> Absolute(v) < WholeLimit * Factor
    BY <1>1, <1>2, <1>9, <2>2
  <2> QED
    BY <2>3, <2>4, <2>5
<1>11. TrimNumeric([text EXCEPT !.fraction = @ \o Zeros(Places - Len(@))]) = text
  <2>1. PICK padded : padded = [text EXCEPT !.fraction = @ \o Zeros(Places - Len(@))]
    OBVIOUS
  <2>2. padded = [negative |-> v < 0, whole |-> high, fraction |-> d]
    BY <1>6, <1>7, <2>1
  <2>3. TrimNumeric(padded)
           = [negative |-> v < 0, whole |-> high,
              fraction |-> IF \E i \in DOMAIN d : d[i] # 0 THEN Trimmed(d) ELSE <<>>]
    BY <2>2 DEF TrimNumeric
  <2>4. (IF \E i \in DOMAIN d : d[i] # 0 THEN Trimmed(d) ELSE <<>>) = t
    BY <1>5, <1>6
  <2> QED
    BY <1>7, <2>1, <2>3, <2>4
<1> QED
  BY <1>8, <1>10, <1>11 DEF TextRight

\* A question about something else than a text.
LEMMA NoTextAsked ==
    ASSUME NEW question, NEW reply, Ask(question, reply), question.kind # "text"
    PROVE  TextIsExact'
  BY DEF Ask, TextIsExact

\* The question that writes a text.
LEMMA TextAsked ==
    ASSUME NEW v \in Amounts, WriteAmount(v)
    PROVE  TextIsExact'
<1>1. PICK text : text = DecimalText(v)
  OBVIOUS
<1>2. v \in Int /\ TextRight(v, text)
  BY <1>1, AmountsAssumption, TextReadsBack
<1>3. asked' = [kind |-> "text", value |-> v] /\ answer' = text
  BY <1>1 DEF WriteAmount, Ask
<1> QED
  BY <1>2, <1>3 DEF TextRight, TextIsExact

\* Every question.
LEMMA TextsStep ==
    ASSUME ReportNext
    PROVE  TextIsExact'
<1>1. ASSUME NEW v \in Amounts, WriteAmount(v) PROVE TextIsExact'
  BY <1>1, TextAsked
<1>2. ASSUME NEW p \in Calendar, AskPeriod(p) PROVE TextIsExact'
  BY <1>2, NoTextAsked DEF AskPeriod
<1>3. ASSUME NEW f \in Phrases, AskPhrase(f) PROVE TextIsExact'
  BY <1>3, NoTextAsked DEF AskPhrase
<1>4. ASSUME NEW v \in Amounts, NEW w \in Amounts, AskChange(v, w) PROVE TextIsExact'
  BY <1>4, NoTextAsked DEF AskChange
<1>5. ASSUME NEW a \in AccountScopes, AskDashboard(a) PROVE TextIsExact'
  BY <1>5, NoTextAsked DEF AskDashboard
<1>6. ASSUME NEW c \in CurrencyCodes, NEW a \in AccountScopes, AskSpending(c, a) PROVE TextIsExact'
  BY <1>6, NoTextAsked DEF AskSpending
<1>7. ASSUME NEW b \in Budgets, AskBudget(b) PROVE TextIsExact'
  BY <1>7, NoTextAsked DEF AskBudget
<1>8. ASSUME NEW b \in Budgets, AskPreview(b) PROVE TextIsExact'
  BY <1>8, NoTextAsked DEF AskPreview
<1>9. ASSUME NEW q \in TransferQueries, AskTransfers(q) PROVE TextIsExact'
  BY <1>9, NoTextAsked DEF AskTransfers
<1>10. ASSUME NEW r \in Requests, AskExport(r) PROVE TextIsExact'
  BY <1>10, NoTextAsked DEF AskExport
<1>11. ASSUME NEW r \in Requests, AskArchive(r) PROVE TextIsExact'
  BY <1>11, NoTextAsked DEF AskArchive
<1>12. ASSUME AskOverview PROVE TextIsExact'
  BY <1>12, NoTextAsked DEF AskOverview
<1> QED
  BY <1>1, <1>2, <1>3, <1>4, <1>5, <1>6, <1>7, <1>8, <1>9, <1>10, <1>11, <1>12 DEF ReportNext

\* An amount written as a text reads back as itself exactly if the pattern allows its whole
\* digits, else it is refused, and it has the one canonical form, for every amount and scale:
\* no digit is lost at a trailing zero, a sign or a value below one unit (scaledIntegerTo-
\* Decimal, decimalToScaledInteger, trimNumeric).
THEOREM TextsAreExact == ReportSpec => []TextIsExact
<1>1. ReportInit => TextIsExact
  BY DEF ReportInit, TextIsExact
<1>2. TextIsExact /\ [ReportNext]_reportVars => TextIsExact'
  <2>1. CASE ReportNext
    BY <2>1, TextsStep
  <2>2. CASE UNCHANGED reportVars
    BY <2>2 DEF TextIsExact, reportVars
  <2> QED
    BY <2>1, <2>2
<1> QED
  BY <1>1, <1>2, PTL DEF ReportSpec

------------------------------------------------------------------------------
(* What a budget has spent.                                                *)

\* Spending, of a category and in total, is an integer.
LEMMA SpendingInt ==
    ASSUME NEW l \in Ledgers, NEW currency, NEW scope
    PROVE  LET spending == ExpenseSpending(l, currency, scope)
           IN /\ spending.total \in Int
              /\ \A c \in DOMAIN spending.byCategory : spending.byCategory[c] \in Int
<1> DEFINE T == Debits(l, currency, scope)
           rows == RowsOf(T)
           C == {r.category : r \in rows}
           by == [c \in C |-> Total({r \in rows : r.category = c})]
<1>1. ExpenseSpending(l, currency, scope) = [byCategory |-> by, total |-> ValuesSum(by, C)]
  BY DEF ExpenseSpending, RowsOf, Debits
<1>2. T \in SUBSET l
  BY DEF Debits
<1>3. IsFiniteSet(T) /\ RowsFitIn(T)
  BY <1>2, LedgersAssumption, FS_Subset DEF RowsFitIn, Measured
<1> HIDE DEF T
<1>4. IsFiniteSet(rows) /\ \A r \in rows : r.amount \in Int
  BY <1>3, RowsFit
<1> HIDE DEF rows
<1>5. ASSUME NEW c \in C
      PROVE  by[c] \in Int
  <2>1. PICK R : R = {r \in rows : r.category = c}
    OBVIOUS
  <2>2. IsFiniteSet(R) /\ \A r \in R : r.amount \in Int
    BY <1>4, <2>1, FS_Subset
  <2>3. Total(R) \in Int
    BY <2>2, TotalInt
  <2> QED
    BY <2>1, <2>3
<1>6. IsFiniteSet(C)
  <2> DEFINE group == [r \in rows |-> r.category]
  <2>1. group \in Surjection(rows, C)
    BY DEF Surjection
  <2> HIDE DEF group
  <2> QED
    BY <1>4, <2>1, FS_Surjection
<1>7. DOMAIN by = C
  OBVIOUS
<1> HIDE DEF by, C
<1>8. ValuesSum(by, C) \in Int
  BY <1>5, <1>6, ValuesInt
<1> QED
  BY <1>1, <1>5, <1>7, <1>8

\* So is what a budget has spent.
LEMMA SpentInt ==
    ASSUME NEW l \in Ledgers, NEW b, NEW from, NEW to
    PROVE  SpentInBounds(l, b, from, to) \in Int
<1>1. PICK scope : scope = [from |-> from, to |-> to, account |-> b.account]
  OBVIOUS
<1>2. PICK spending : spending = ExpenseSpending(l, b.currency, scope)
  OBVIOUS
<1>3. /\ spending.total \in Int
      /\ \A c \in DOMAIN spending.byCategory : spending.byCategory[c] \in Int
  BY <1>2, SpendingInt
<1>4. SpentInBounds(l, b, from, to) =
         IF b.category = None THEN spending.total
         ELSE IF b.category \in DOMAIN spending.byCategory
         THEN spending.byCategory[b.category] ELSE 0
  BY <1>1, <1>2 DEF SpentInBounds
<1> QED
  BY <1>3, <1>4

\* The sum that a preview makes is over one category or none.
LEMMA OneOrNone ==
    ASSUME NEW v, NEW S, \A c \in S : v[c] \in Int, NEW k
    PROVE  ValuesSum(v, {c \in S : c = k}) = IF k \in S THEN v[k] ELSE 0
<1>1. PICK T : T = {c \in S : c = k}
  OBVIOUS
<1>2. T = IF k \in S THEN {k} ELSE {}
  BY <1>1
<1>3. IsFiniteSet(T)
  BY <1>2, FS_Singleton, FS_EmptySet
<1>4. PICK g : Additive(g, v, T)
  BY <1>1, <1>3, AdditiveExists
<1>5. ValuesSum(v, T) = g[T]
  BY <1>3, <1>4, ValuesOf
<1>6. g[T] = IF k \in S THEN v[k] ELSE 0
  <2>1. CASE k \in S
    <3>1. T = {k} /\ k \in T /\ T \ {k} = {} /\ v[k] \in Int
      BY <1>2, <2>1
    <3>2. g[T] = v[k] + g[{}] /\ g[{}] = 0
      BY <1>4, <3>1 DEF Additive
    <3> QED
      BY <2>1, <3>1, <3>2
  <2>2. CASE k \notin S
    BY <1>2, <1>4, <2>2 DEF Additive
  <2> QED
    BY <2>1, <2>2
<1> QED
  BY <1>1, <1>5, <1>6

------------------------------------------------------------------------------
(* Percentages.                                                            *)

\* The quotient of a BigInt by a positive one, which drops the fraction.
LEMMA QuotientOf ==
    ASSUME NEW a \in Int, NEW q \in Nat, q > 0
    PROVE  /\ Quotient(a, q) \in Int
           /\ a >= 0 => \E low \in Nat : low < q /\ a = Quotient(a, q) * q + low
                                         /\ Quotient(a, q) >= 0
           /\ a < 0 => Quotient(a, q) <= 0
<1>1. Absolute(q) = q /\ (q < 0) = FALSE
  BY DEF Absolute
<1>2. CASE a >= 0
  <2>1. PICK high \in Nat, low \in Nat :
          high = a \div q /\ low = a % q /\ low < q /\ a = high * q + low
    <3>1. a \in Nat
      BY <1>2
    <3> QED
      BY <3>1, DivisionLeaves
  <2>2. Quotient(a, q) = high
    BY <1>1, <1>2, <2>1 DEF Quotient, Absolute
  <2>3. ~ a < 0 /\ high \in Int /\ high >= 0
    BY <1>2
  <2>4. \E rest \in Nat : rest < q /\ a = high * q + rest /\ high >= 0
    BY <2>1, <2>3
  <2> QED
    BY <2>2, <2>3, <2>4
<1>3. CASE a < 0
  <2>1. PICK n \in Nat : n = -a
    BY <1>3
  <2>2. PICK high \in Nat, low \in Nat :
          high = n \div q /\ low = n % q /\ low < q /\ n = high * q + low
    BY <2>1, DivisionLeaves
  <2>3. Quotient(a, q) = -high
    BY <1>1, <1>3, <2>1, <2>2 DEF Quotient, Absolute
  <2> QED
    BY <1>3, <2>3
<1> QED
  BY <1>2, <1>3

\* A product grows with its factors.
LEMMA Products ==
    ASSUME NEW x \in Int, NEW y \in Int, NEW q \in Nat, q > 0
    PROVE  /\ x * q \in Int /\ y * q \in Int
           /\ x >= y => x * q >= y * q
           /\ x < y => x * q + q <= y * q
<1>1. x * q \in Int /\ y * q \in Int
  BY SMT
<1>2. x >= y => x * q >= y * q
  BY SMT
<1>3. x < y => x * q + q <= y * q
  <2>1. SUFFICES ASSUME x + 1 <= y PROVE (x + 1) * q <= y * q
    BY SMT
  <2> QED
    BY <2>1, SMT
<1> QED
  BY <1>1, <1>2, <1>3

\* A percentage is rounded down, so it reaches a whole number exactly when the
\* amount does.
LEMMA PercentReaches ==
    ASSUME NEW part \in Int, NEW total \in Nat, total > 0, NEW k \in Nat, k > 0
    PROVE  /\ PercentOf(part, total).whole \in Int
           /\ PercentOf(part, total).whole >= k <=> PercentReached(part, total, k)
<1>1. PICK a \in Int : a = part * 10000
  BY SMT
<1>2. PICK u \in Int : u = Quotient(a, total)
  BY QuotientOf
<1>3. PICK w \in Int : w = Quotient(u, 100)
  <2>1. 100 \in Nat /\ 100 > 0
    BY SMT
  <2> QED
    BY <2>1, QuotientOf
<1>4. PercentOf(part, total).whole = w
  <2>1. ~ total <= 0
    BY SMT
  <2> QED
    BY <1>1, <1>2, <1>3, <2>1 DEF PercentOf, Percentage
<1>5. PercentReached(part, total, k) <=> part * 100 >= total * k
  BY DEF PercentReached
<1>6. CASE part >= 0
  <2>1. a >= 0
    BY <1>1, <1>6, SMT
  <2>2. PICK low \in Nat : low < total /\ a = u * total + low /\ u >= 0
    BY <1>2, <2>1, QuotientOf
  <2>3. PICK rest \in Nat : rest < 100 /\ u = w * 100 + rest
    <3>1. 100 \in Nat /\ 100 > 0
      BY SMT
    <3> QED
      BY <1>3, <2>2, <3>1, QuotientOf
  <2>4. PICK p \in Int : p = k * 100
    BY SMT
  <2>5. w >= k <=> u >= p
    BY <2>3, <2>4, SMT
  <2>6. PICK x \in Int, y \in Int : x = u * total /\ y = p * total
    BY Products
  <2>7. (u >= p => x >= y) /\ (u < p => x + total <= y)
    BY <2>6, Products
  <2>8. u >= p <=> a >= y
    BY <2>2, <2>6, <2>7, SMT
  <2>9. y = 100 * (total * k)
    BY <2>4, <2>6, SMT
  <2>10. PICK z \in Int : z = total * k
    BY SMT
  <2>11. a >= 100 * z <=> part * 100 >= z
    BY <1>1, SMT
  <2> QED
    BY <1>4, <1>5, <2>5, <2>8, <2>9, <2>10, <2>11
<1>7. CASE part < 0
  <2>1. a < 0
    BY <1>1, <1>7, SMT
  <2>2. u <= 0
    BY <1>2, <2>1, QuotientOf
  <2>3. w <= 0
    <3>1. CASE u < 0
      BY <1>3, <3>1, QuotientOf, SMT
    <3>2. CASE u = 0
      BY <1>3, <3>2, SMT DEF Quotient, Absolute
    <3> QED
      BY <2>2, <3>1, <3>2
  <2>4. PICK z \in Int : z = total * k /\ z > 0
    BY SMT
  <2>5. part * 100 < 0
    BY <1>7, SMT
  <2> QED
    BY <1>4, <1>5, <2>3, <2>4, <2>5
<1> QED
  BY <1>4, <1>6, <1>7

------------------------------------------------------------------------------
(* The periods before the current one.                                     *)

\* The start of the period of each day.
StartsOf(st) ==
    /\ st \in [Int -> Int]
    /\ \A d \in Int : st[d] <= d
    /\ \A d, e \in Int : st[d] <= e /\ e <= d => st[e] = st[d]

\* The starts of a period and of those before it.
ChainOf(s, st, m) ==
    /\ s \in [0..m -> Int] /\ st[s[0]] = s[0]
    /\ \A n \in 1..m : s[n] = st[s[n - 1] - 1]

\* Each starts before the last.
LEMMA ChainFalls ==
    ASSUME NEW m \in Nat, NEW st, StartsOf(st), NEW s, ChainOf(s, st, m)
    PROVE  /\ \A n \in 1..m : s[n] < s[n - 1]
           /\ \A n \in 0..m : st[s[n]] = s[n]
           /\ \A i, j \in 0..m : i < j => s[j] < s[i]
<1>1. /\ s \in [0..m -> Int] /\ st[s[0]] = s[0] /\ st \in [Int -> Int]
      /\ \A n \in 1..m : s[n] = st[s[n - 1] - 1]
  BY DEF ChainOf, StartsOf
<1>2. ASSUME NEW n \in 1..m
      PROVE  s[n] < s[n - 1] /\ st[s[n]] = s[n]
  <2>1. n - 1 \in 0..m /\ n \in 0..m
    OBVIOUS
  <2>2. PICK e \in Int : e = s[n - 1] - 1
    BY <1>1, <2>1
  <2>3. s[n] = st[e] /\ s[n] <= e /\ s[n] \in Int /\ s[n - 1] \in Int
    BY <1>1, <2>1, <2>2 DEF StartsOf
  <2>4. st[s[n]] = st[e]
    BY <2>3 DEF StartsOf
  <2> QED
    BY <2>2, <2>3, <2>4
<1>3. ASSUME NEW n \in 0..m
      PROVE  st[s[n]] = s[n]
  <2>1. n = 0 \/ n \in 1..m
    OBVIOUS
  <2> QED
    BY <1>1, <1>2, <2>1
<1>4. ASSUME NEW i \in 0..m
      PROVE  \A j \in 0..m : i < j => s[j] < s[i]
  <2> DEFINE Bad == {j \in 0..m : i < j /\ ~ s[j] < s[i]}
  <2>1. CASE Bad = {}
    BY <2>1
  <2>2. CASE Bad # {}
    <3>1. PICK j \in Bad : \A k \in Bad : j <= k
      <4>1. Bad \in SUBSET Nat
        OBVIOUS
      <4> HIDE DEF Bad
      <4> QED
        BY <2>2, <4>1, LeastNumber
    <3>2. j \in 1..m /\ j - 1 \in 0..m /\ j - 1 \notin Bad /\ i < j
      BY <3>1
    <3>3. s[j] < s[j - 1] /\ s[j] \in Int /\ s[j - 1] \in Int /\ s[i] \in Int
      BY <1>1, <1>2, <3>2
    <3>4. s[j - 1] <= s[i]
      <4>1. i = j - 1 \/ i < j - 1
        BY <3>2
      <4> QED
        BY <3>2, <3>3, <4>1
    <3> QED
      BY <3>1, <3>3, <3>4
  <2> QED
    BY <2>1, <2>2
<1> QED
  BY <1>2, <1>3, <1>4

\* A day before the current period belongs to one of those before it, or lies
\* before all of them.
LEMMA ChainCovers ==
    ASSUME NEW m \in Nat, m > 0, NEW st, StartsOf(st), NEW s, ChainOf(s, st, m),
           NEW d \in Int, d < s[0]
    PROVE  (\E n \in 1..m : st[d] = s[n]) \/ d < s[m]
<1> DEFINE Reached == {n \in 0..m : s[n] <= d}
<1>1. /\ s \in [0..m -> Int] /\ st \in [Int -> Int]
      /\ \A n \in 1..m : s[n] = st[s[n - 1] - 1]
  BY DEF ChainOf, StartsOf
<1>2. CASE Reached = {}
  <2>1. m \in 0..m /\ s[m] \in Int
    BY <1>1
  <2> QED
    BY <1>2, <2>1
<1>3. CASE Reached # {}
  <2>1. PICK n \in Reached : \A k \in Reached : n <= k
    <3>1. Reached \in SUBSET Nat
      OBVIOUS
    <3> HIDE DEF Reached
    <3> QED
      BY <1>3, <3>1, LeastNumber
  <2>2. 0 \in 0..m /\ s[0] \in Int
    BY <1>1
  <2>3. n # 0
    BY <2>1, <2>2
  <2>4. n \in 1..m /\ n - 1 \in 0..m /\ n - 1 \notin Reached
    BY <2>1, <2>3
  <2>5. s[n - 1] \in Int /\ s[n] \in Int /\ s[n] <= d /\ d <= s[n - 1] - 1
    BY <1>1, <2>1, <2>4
  <2>6. PICK e \in Int : e = s[n - 1] - 1
    BY <2>5
  <2>7. st[e] = s[n] /\ st[e] <= d /\ d <= e
    BY <1>1, <2>4, <2>5, <2>6
  <2>8. st[d] = st[e]
    BY <2>7 DEF StartsOf
  <2> QED
    BY <2>4, <2>7, <2>8
<1> QED
  BY <1>2, <1>3

\* The starts since a day, the latest of the periods always among them.
StartsSince(st, s, day) == {st[d] : d \in day..(s[0] - 1)} \union {s[1]}

MostRecent(S, m) == {x \in S : Cardinality({r \in S : r > x}) < m}

\* Where a loop over them stops.
StopsAt(s, day, m, last) ==
    /\ last \in 1..m /\ (s[last] <= day \/ last = m)
    /\ \A n \in 1..m : n < last => s[n] > day

ChainMembers(s, m) == {s[n] : n \in 1..m}

LEMMA MembersCount ==
    ASSUME NEW m \in Nat, NEW s, \A n \in 1..m : s[n] \in Int,
           \A i, j \in 1..m : i < j => s[j] < s[i]
    PROVE  IsFiniteSet(ChainMembers(s, m)) /\ Cardinality(ChainMembers(s, m)) = m
<1> DEFINE f == [n \in 1..m |-> s[n]]
<1>1. \A i, j \in 1..m : i # j => s[i] # s[j]
  <2>1. ASSUME NEW i \in 1..m, NEW j \in 1..m, i # j
        PROVE  s[i] # s[j]
    <3>1. i < j \/ j < i
      BY <2>1
    <3>2. s[i] \in Int /\ s[j] \in Int
      OBVIOUS
    <3>3. s[j] < s[i] \/ s[i] < s[j]
      BY <3>1
    <3> QED
      BY <3>2, <3>3
  <2> QED
    BY <2>1
<1>2. f \in [1..m -> ChainMembers(s, m)] /\ \A n \in 1..m : f[n] = s[n]
  BY DEF ChainMembers
<1>3. f \in Surjection(1..m, ChainMembers(s, m)) /\ f \in Injection(1..m, ChainMembers(s, m))
  <2> HIDE DEF f
  <2>1. \A t \in ChainMembers(s, m) : \E n \in 1..m : f[n] = t
    BY <1>2 DEF ChainMembers
  <2>2. f \in Surjection(1..m, ChainMembers(s, m))
    BY <1>2, <2>1 DEF Surjection
  <2>3. \A i, j \in 1..m : f[i] = f[j] => i = j
    BY <1>1, <1>2
  <2> QED
    BY <1>2, <2>2, <2>3 DEF Injection, IsInjective
<1>4. IsFiniteSet(1..m) /\ Cardinality(1..m) = m
  <2>1. 1 \in Int /\ m \in Int
    OBVIOUS
  <2>2. IsFiniteSet(1..m) /\ Cardinality(1..m) = IF 1 > m THEN 0 ELSE m - 1 + 1
    BY <2>1, FS_Interval
  <2> QED
    BY <2>2
<1> HIDE DEF f
<1>5. IsFiniteSet(ChainMembers(s, m))
  BY <1>3, <1>4, FS_Surjection
<1>6. Cardinality(ChainMembers(s, m)) = Cardinality(1..m)
  BY <1>3, <1>4, FS_Surjection
<1> QED
  BY <1>4, <1>5, <1>6

\* The loop meets just the latest starts.
LEMMA LatestStarts ==
    ASSUME NEW m \in Nat, m > 0, NEW st, StartsOf(st), NEW s, ChainOf(s, st, m),
           NEW day \in Int, NEW last, StopsAt(s, day, m, last)
    PROVE  MostRecent(StartsSince(st, s, day), m) = ChainMembers(s, last)
<1> DEFINE S == StartsSince(st, s, day)
<1>1. /\ s \in [0..m -> Int] /\ st \in [Int -> Int]
      /\ \A n \in 1..m : s[n] = st[s[n - 1] - 1]
  BY DEF ChainOf, StartsOf
<1>2. /\ \A n \in 0..m : st[s[n]] = s[n]
      /\ \A i, j \in 0..m : i < j => s[j] < s[i]
  BY ChainFalls
<1>3. last \in 1..m /\ \A n \in 1..m : n \in 0..m /\ s[n] \in Int
  BY <1>1 DEF StopsAt
<1>4. ASSUME NEW x \in S
      PROVE  x \in Int /\ ((\E n \in 1..m : x = s[n]) \/ x < s[m])
  <2>1. CASE x = s[1]
    <3>1. 1 \in 1..m
      OBVIOUS
    <3> QED
      BY <1>3, <2>1, <3>1
  <2>2. ASSUME NEW d \in day..(s[0] - 1), x = st[d]
        PROVE  x \in Int /\ ((\E n \in 1..m : x = s[n]) \/ x < s[m])
    <3>1. 0 \in 0..m /\ m \in 0..m /\ s[0] \in Int /\ s[m] \in Int
      BY <1>1
    <3>2. d \in Int /\ d < s[0]
      BY <3>1
    <3>3. st[d] \in Int /\ st[d] <= d
      BY <3>2 DEF StartsOf
    <3>4. (\E n \in 1..m : st[d] = s[n]) \/ d < s[m]
      BY <3>2, ChainCovers
    <3> QED
      BY <2>2, <3>1, <3>2, <3>3, <3>4
  <2> QED
    BY <2>1, <2>2 DEF StartsSince
<1>5. ASSUME NEW n \in 1..m, n <= last
      PROVE  s[n] \in S
  <2>1. CASE n = 1
    BY <2>1 DEF StartsSince
  <2>2. CASE n # 1
    <3>1. n - 1 \in 1..m /\ n - 1 < last /\ n - 1 \in 0..m
      BY <1>3, <1>5, <2>2
    <3>2. s[n - 1] > day
      BY <3>1 DEF StopsAt
    <3>3. 0 \in 0..m /\ 0 < n - 1
      BY <3>1
    <3>4. s[n - 1] < s[0] /\ s[n - 1] \in Int /\ s[0] \in Int
      BY <1>1, <1>2, <3>1, <3>3
    <3>5. s[n - 1] - 1 \in day..(s[0] - 1)
      BY <3>2, <3>4
    <3>6. s[n] = st[s[n - 1] - 1]
      BY <1>1
    <3> QED
      BY <3>5, <3>6 DEF StartsSince
  <2> QED
    BY <2>1, <2>2
<1>6. ASSUME s[last] <= day, NEW x \in S
      PROVE  x >= s[last]
  <2>1. last \in 0..m /\ s[last] \in Int
    BY <1>3
  <2>2. CASE x = s[1]
    <3>1. 1 \in 0..m /\ 1 \in 1..m /\ s[1] \in Int
      BY <1>3
    <3>2. last = 1 \/ 1 < last
      BY <1>3
    <3> QED
      BY <1>2, <2>1, <2>2, <3>1, <3>2
  <2>3. ASSUME NEW d \in day..(s[0] - 1), x = st[d]
        PROVE  x >= s[last]
    <3>1. 0 \in 0..m /\ s[0] \in Int
      BY <1>1
    <3>2. d \in Int /\ s[last] <= d
      BY <1>6, <2>1, <3>1
    <3>3. st[d] \in Int
      BY <3>2 DEF StartsOf
    <3>4. st[d] <= s[last] => st[s[last]] = st[d]
      BY <2>1, <3>2 DEF StartsOf
    <3> QED
      BY <1>2, <2>1, <2>3, <3>3, <3>4
  <2> QED
    BY <2>2, <2>3 DEF StartsSince
<1>0. IsFiniteSet(S)
  <2> DEFINE days == day..(s[0] - 1)
             starts == {st[d] : d \in days}
             f == [d \in days |-> st[d]]
  <2>1. 0 \in 0..m /\ s[0] \in Int
    BY <1>1
  <2>2. IsFiniteSet(days)
    <3>1. s[0] - 1 \in Int
      BY <2>1
    <3> QED
      BY <3>1, FS_Interval
  <2>3. f \in Surjection(days, starts)
    BY DEF Surjection
  <2>4. S = starts \union {s[1]}
    BY DEF StartsSince
  <2> HIDE DEF f, days, starts, S
  <2>5. IsFiniteSet(starts)
    BY <2>2, <2>3, FS_Surjection
  <2>6. IsFiniteSet({s[1]})
    BY FS_Singleton
  <2> QED
    BY <2>4, <2>5, <2>6, FS_Union
<1> HIDE DEF S
<1>7. ASSUME NEW x \in S, Cardinality({r \in S : r > x}) < m
      PROVE  x \in ChainMembers(s, last)
  <2>1. CASE s[last] <= day
    <3>1. x >= s[last] /\ x \in Int /\ s[last] \in Int /\ last \in 0..m
      BY <1>3, <1>4, <1>6, <2>1
    <3>2. s[m] <= s[last]
      <4>1. last = m \/ last < m
        BY <1>3
      <4>2. m \in 0..m /\ s[m] \in Int
        BY <1>1
      <4> QED
        BY <1>2, <3>1, <4>1, <4>2
    <3>3. PICK n \in 1..m : x = s[n]
      <4>1. m \in 0..m /\ s[m] \in Int
        BY <1>1
      <4> QED
        BY <1>4, <3>1, <3>2, <4>1
    <3>4. n <= last
      <4>1. n \in 0..m /\ (last < n => s[n] < s[last])
        BY <1>2, <3>1
      <4> QED
        BY <1>3, <3>1, <3>3, <4>1
    <3>5. n \in 1..last
      BY <1>3, <3>4
    <3> QED
      BY <3>3, <3>5 DEF ChainMembers
  <2>2. CASE last = m
    <3>1. CASE \E n \in 1..m : x = s[n]
      BY <2>2, <3>1 DEF ChainMembers
    <3>2. CASE x < s[m]
      <4> DEFINE above == {r \in S : r > x}
      <4>1. \A n \in 1..m : s[n] \in above
        <5>1. ASSUME NEW n \in 1..m
              PROVE  s[n] \in S /\ s[n] > x
          <6>1. n <= last
            BY <2>2
          <6>2. s[n] \in S
            BY <1>5, <6>1
          <6>3. n \in 0..m /\ m \in 0..m /\ s[n] \in Int /\ s[m] \in Int /\ x \in Int
            BY <1>1, <1>4
          <6>4. n = m \/ n < m
            OBVIOUS
          <6>5. s[m] <= s[n]
            BY <1>2, <6>3, <6>4
          <6> QED
            BY <3>2, <6>2, <6>3, <6>5
        <5> QED
          BY <5>1
      <4>2. IsFiniteSet(above) /\ above \in SUBSET S
        BY <1>0, FS_Subset
      <4>3. above = {r \in S : r > x}
        OBVIOUS
      <4> HIDE DEF above
      <4>4. ChainMembers(s, m) \in SUBSET above
        BY <4>1 DEF ChainMembers
      <4>5. IsFiniteSet(ChainMembers(s, m)) /\ Cardinality(ChainMembers(s, m)) = m
        <5>1. \A i, j \in 1..m : i \in 0..m /\ j \in 0..m
          OBVIOUS
        <5>2. \A i, j \in 1..m : i < j => s[j] < s[i]
          BY <1>2, <5>1
        <5> QED
          BY <1>3, <5>2, MembersCount
      <4>6. Cardinality(ChainMembers(s, m)) <= Cardinality(above)
        BY <4>2, <4>4, FS_Subset
      <4>7. Cardinality(above) \in Nat
        BY <4>2, FS_CardinalityType
      <4> QED
        BY <1>7, <4>3, <4>5, <4>6, <4>7
    <3> QED
      BY <1>4, <1>7, <3>1, <3>2
  <2> QED
    BY <2>1, <2>2 DEF StopsAt
<1>8. ASSUME NEW n \in 1..last
      PROVE  s[n] \in S /\ Cardinality({r \in S : r > s[n]}) < m
  <2>1. n \in 1..m /\ n <= last /\ n - 1 \in Nat /\ n - 1 < m /\ n \in 0..m /\ s[n] \in Int
    BY <1>3
  <2>2. PICK above : above = {r \in S : r > s[n]}
    OBVIOUS
  <2>3. ASSUME NEW r \in above
        PROVE  r \in ChainMembers(s, n - 1)
    <3>1. r \in S /\ r > s[n]
      BY <2>2
    <3>2. r \in Int /\ m \in 0..m /\ s[m] \in Int /\ (n = m \/ n < m)
      BY <1>1, <1>4, <2>1, <3>1
    <3>3. s[m] <= s[n]
      BY <1>2, <2>1, <3>2
    <3>4. PICK k \in 1..m : r = s[k]
      BY <1>4, <2>1, <3>1, <3>2, <3>3
    <3>5. k < n
      <4>1. k \in 0..m /\ (k = n \/ k < n \/ n < k)
        BY <2>1
      <4> QED
        BY <1>2, <2>1, <3>1, <3>2, <3>4, <4>1
    <3>6. k \in 1..(n - 1)
      BY <2>1, <3>5
    <3> QED
      BY <3>4, <3>6 DEF ChainMembers
  <2>4. above \in SUBSET ChainMembers(s, n - 1)
    BY <2>3
  <2>5. IsFiniteSet(ChainMembers(s, n - 1)) /\ Cardinality(ChainMembers(s, n - 1)) = n - 1
    <3>1. \A i, j \in 1..(n - 1) : i \in 1..m /\ i \in 0..m /\ j \in 0..m
      BY <2>1
    <3>2. \A i, j \in 1..(n - 1) : i < j => s[j] < s[i]
      BY <1>2, <3>1
    <3>3. \A i \in 1..(n - 1) : s[i] \in Int
      BY <1>3, <3>1
    <3> QED
      BY <2>1, <3>2, <3>3, MembersCount
  <2>6. IsFiniteSet(above) /\ Cardinality(above) <= n - 1
    BY <2>4, <2>5, FS_Subset
  <2>7. Cardinality(above) \in Nat
    BY <2>6, FS_CardinalityType
  <2> QED
    BY <1>5, <2>1, <2>2, <2>6, <2>7
<1>9. MostRecent(S, m) = ChainMembers(s, last)
  <2>1. ASSUME NEW x \in MostRecent(S, m)
        PROVE  x \in ChainMembers(s, last)
    BY <1>7 DEF MostRecent
  <2>2. ASSUME NEW x \in ChainMembers(s, last)
        PROVE  x \in MostRecent(S, m)
    <3>1. PICK n \in 1..last : x = s[n]
      BY DEF ChainMembers
    <3> QED
      BY <1>8, <3>1 DEF MostRecent
  <2> QED
    BY <2>1, <2>2
<1> QED
  BY <1>9 DEF S

\* Periods begin and end on days.
LEMMA BoundsTypes ==
    ASSUME NEW p \in Calendar, NEW d \in Int
    PROVE  LET bounds == CurrentPeriodBounds(p, d, None)
           IN {bounds.start, bounds.end, bounds.previousStart, bounds.previousEnd} \subseteq Int
<1>1. CASE p = "weekly"
  <2>1. PICK m \in Int : m = MondayOf(d)
    BY WeekOfDay
  <2>2. CurrentPeriodBounds(p, d, None)
           = [start |-> m, end |-> m + 6, previousStart |-> m - 7, previousEnd |-> m - 1]
    BY <1>1, <2>1 DEF CurrentPeriodBounds, WeeklyBounds
  <2> QED
    BY <2>2
<1>2. CASE p = "monthly"
  <2>1. PICK y \in Int, m \in Int : y = YearOf(d) /\ m = MonthOf(d)
    BY MonthOfAnyDay
  <2>2. /\ DayNumber(y, m, 1) \in Int /\ DayNumber(y, m + 1, 0) \in Int
        /\ DayNumber(y, m - 1, 1) \in Int /\ DayNumber(y, m - 1 + 1, 0) \in Int
    <3>1. m + 1 \in Int /\ m - 1 \in Int /\ m - 1 + 1 \in Int /\ 0 \in Int /\ 1 \in Int
      OBVIOUS
    <3> QED
      BY <3>1, DayTypes
  <2>3. CurrentPeriodBounds(p, d, None)
           = [start |-> DayNumber(y, m, 1), end |-> DayNumber(y, m + 1, 0),
              previousStart |-> DayNumber(y, m - 1, 1),
              previousEnd |-> DayNumber(y, m - 1 + 1, 0)]
    BY <1>2, <2>1 DEF CurrentPeriodBounds, MonthlyBounds, MonthStart, MonthEnd
  <2> QED
    BY <2>2, <2>3
<1>3. CASE p = "yearly"
  <2>1. PICK y \in Int : y = YearOf(d)
    BY MonthOfAnyDay
  <2>2. /\ DayNumber(y, 1, 1) \in Int /\ DayNumber(y, 12, 31) \in Int
        /\ DayNumber(y - 1, 1, 1) \in Int /\ DayNumber(y - 1, 12, 31) \in Int
    <3>1. y - 1 \in Int /\ 1 \in Int /\ 12 \in Int /\ 31 \in Int
      OBVIOUS
    <3> QED
      BY <3>1, DayTypes
  <2>3. CurrentPeriodBounds(p, d, None)
           = [start |-> DayNumber(y, 1, 1), end |-> DayNumber(y, 12, 31),
              previousStart |-> DayNumber(y - 1, 1, 1), previousEnd |-> DayNumber(y - 1, 12, 31)]
    BY <1>3, <2>1 DEF CurrentPeriodBounds, YearlyBounds
  <2> QED
    BY <2>2, <2>3
<1> QED
  BY <1>1, <1>2, <1>3 DEF Calendar

\* So the days have periods that follow each other.
LEMMA PeriodsChain ==
    ASSUME NEW p \in Calendar, NEW st, st = [d \in Int |-> CurrentPeriodBounds(p, d, None).start]
    PROVE  /\ StartsOf(st)
           /\ \A d \in Int :
                LET bounds == CurrentPeriodBounds(p, d, None)
                IN /\ bounds.start = st[d] /\ bounds.previousStart = st[st[d] - 1]
                   /\ CurrentPeriodBounds(p, st[d], None) = bounds
                   /\ d <= bounds.end
<1>1. ASSUME NEW d \in Int
      PROVE  LET bounds == CurrentPeriodBounds(p, d, None)
             IN /\ {bounds.start, bounds.end, bounds.previousStart, bounds.previousEnd} \subseteq Int
                /\ bounds.start <= d /\ d <= bounds.end
                /\ \A e \in bounds.start..bounds.end : CurrentPeriodBounds(p, e, None) = bounds
                /\ bounds.previousEnd + 1 = bounds.start
                /\ CurrentPeriodBounds(p, bounds.previousEnd, None).start = bounds.previousStart
  <2>1. PeriodsTile(p, d, CurrentPeriodBounds(p, d, None))
    BY WeeksTile, MonthsTile, YearsTile DEF Calendar
  <2> QED
    BY <2>1, BoundsTypes DEF PeriodsTile
<1>2. st \in [Int -> Int] /\ \A d \in Int : st[d] = CurrentPeriodBounds(p, d, None).start
  BY <1>1
<1>3. ASSUME NEW d \in Int
      PROVE  LET bounds == CurrentPeriodBounds(p, d, None)
             IN /\ bounds.start = st[d] /\ bounds.previousStart = st[st[d] - 1]
                /\ CurrentPeriodBounds(p, st[d], None) = bounds
                /\ d <= bounds.end /\ st[d] <= d
                /\ \A e \in Int : st[d] <= e /\ e <= d => st[e] = st[d]
  <2>1. PICK bounds : bounds = CurrentPeriodBounds(p, d, None)
    OBVIOUS
  <2>2. /\ bounds.start \in Int /\ bounds.end \in Int /\ bounds.previousEnd \in Int
        /\ bounds.start <= d /\ d <= bounds.end
        /\ \A e \in bounds.start..bounds.end : CurrentPeriodBounds(p, e, None) = bounds
        /\ bounds.previousEnd + 1 = bounds.start
        /\ CurrentPeriodBounds(p, bounds.previousEnd, None).start = bounds.previousStart
    BY <1>1, <2>1
  <2>3. st[d] = bounds.start
    BY <1>2, <2>1
  <2>4. bounds.previousEnd = st[d] - 1 /\ st[d] - 1 \in Int
    BY <2>2, <2>3
  <2>5. bounds.previousStart = st[st[d] - 1]
    BY <1>2, <2>2, <2>4
  <2>6. \A e \in Int : st[d] <= e /\ e <= d => st[e] = st[d]
    <3>1. ASSUME NEW e \in Int, st[d] <= e, e <= d
          PROVE  st[e] = st[d]
      <4>1. e \in bounds.start..bounds.end
        BY <2>2, <2>3, <3>1
      <4>2. CurrentPeriodBounds(p, e, None) = bounds
        BY <2>2, <4>1
      <4> QED
        BY <1>2, <2>3, <4>2
    <3> QED
      BY <3>1
  <2>7. CurrentPeriodBounds(p, st[d], None) = bounds
    <3>1. st[d] \in bounds.start..bounds.end
      BY <2>2, <2>3
    <3> QED
      BY <2>2, <3>1
  <2> QED
    BY <2>1, <2>2, <2>3, <2>5, <2>6, <2>7
<1>4. \A d \in Int : st[d] <= d /\ \A e \in Int : st[d] <= e /\ e <= d => st[e] = st[d]
  BY <1>3
<1> QED
  BY <1>2, <1>3, <1>4 DEF StartsOf

------------------------------------------------------------------------------
(* What a budget carries over.                                             *)

\* What some periods left unused is a sum as well.
UnspentSum(l, b, S) == SumOver(S, LAMBDA s : Unspent(l, b, s))

LEMMA UnspentOf ==
    ASSUME NEW l, NEW b, NEW S, IsFiniteSet(S), NEW v, \A s \in S : v[s] = Unspent(l, b, s),
           NEW g, Additive(g, v, S)
    PROVE  UnspentSum(l, b, S) = g[S]
<1> DEFINE Step(f) ==
        [s \in SUBSET S |->
           IF s = {} THEN 0
           ELSE Unspent(l, b, CHOOSE x \in s : TRUE) + f[s \ {CHOOSE x \in s : TRUE}]]
    Fold == CHOOSE f : f = Step(f)
<1>1. UnspentSum(l, b, S) = Fold[S]
  BY DEF UnspentSum, SumOver, MapThenSumSet, MapThenFoldSet
<1>2. \A s \in SUBSET S : s # {} => (CHOOSE x \in s : TRUE) \in S
  OBVIOUS
<1>3. g = Step(g)
  <2> DEFINE step == [s \in SUBSET S |->
                        IF s = {} THEN 0
                        ELSE v[CHOOSE x \in s : TRUE] + g[s \ {CHOOSE x \in s : TRUE}]]
  <2>1. g = step
    BY AdditiveChosen
  <2>2. step = Step(g)
    BY <1>2
  <2> QED
    BY <2>1, <2>2
<1>4. Fold = Step(Fold)
  <2> HIDE DEF Step
  <2> QED
    BY <1>3
<1> HIDE DEF Fold
<1>5. ASSUME NEW s \in SUBSET S, s # {}
      PROVE  \E c \in s : Fold[s] = v[c] + Fold[s \ {c}]
  <2>1. (CHOOSE x \in s : TRUE) \in s
    BY <1>5
  <2>2. Fold[s] = Unspent(l, b, CHOOSE x \in s : TRUE) + Fold[s \ {CHOOSE x \in s : TRUE}]
    BY <1>4, <1>5
  <2> QED
    BY <2>1, <2>2
<1>6. Fold[{}] = 0
  BY <1>4
<1>7. \A s \in SUBSET S : s # {} => \E c \in s : Fold[s] = v[c] + Fold[s \ {c}]
  BY <1>5
<1>8. Fold[S] = g[S]
  <2>1. PICK f : f = Fold
    OBVIOUS
  <2>2. Folded(f, v, S)
    BY <1>6, <1>7, <2>1 DEF Folded
  <2>3. f[S] = g[S]
    BY <2>2, SumsUnique
  <2> QED
    BY <2>1, <2>3
<1> QED
  BY <1>1, <1>8

\* The sums of a loop from the last of its rounds to the first.
LoopSums(f, u, s, day, m) ==
    \A n \in 1..m : f[n] = u[n] + IF s[n] <= day \/ n = m THEN 0 ELSE f[n + 1]

LEMMA LoopSumsExist ==
    ASSUME NEW m \in Nat, m > 0, NEW u \in [1..m -> Int], NEW s, NEW day
    PROVE  \E f \in [1..m -> Int] : LoopSums(f, u, s, day, m)
<1> DEFINE Rest(k) == IF k \in 1..m THEN u[k] ELSE 0
           step == [q \in Nat \X Int |->
                      Rest(m - q[1]) + IF s[m - q[1]] <= day THEN 0 ELSE q[2]]
<1>1. m - 1 \in Nat /\ u[m] \in Int
  OBVIOUS
<1>2. step \in [Nat \X Int -> Int]
  <2>1. \A k : Rest(k) \in Int
    OBVIOUS
  <2> HIDE DEF Rest
  <2> QED
    BY <2>1
<1>3. \A n \in Nat, x \in Int :
         step[<<n, x>>] = Rest(m - n) + IF s[m - n] <= day THEN 0 ELSE x
  OBVIOUS
<1> HIDE DEF step
<1>4. PICK h \in [0..(m - 1) -> Int] : RunOf(h, u[m], step, m - 1)
  BY <1>1, <1>2, RunExists
<1> DEFINE f == [n \in 1..m |-> h[m - n]]
<1>5. f \in [1..m -> Int] /\ \A n \in 1..m : f[n] = h[m - n]
  OBVIOUS
<1> HIDE DEF f
<1>6. ASSUME NEW n \in 1..m
      PROVE  f[n] = u[n] + IF s[n] <= day \/ n = m THEN 0 ELSE f[n + 1]
  <2>1. CASE n = m
    <3>1. f[n] = h[0] /\ h[0] = u[m]
      BY <1>4, <1>5, <2>1 DEF RunOf
    <3> QED
      BY <1>1, <2>1, <3>1
  <2>2. CASE n # m
    <3>1. /\ m - n \in 1..(m - 1) /\ m - n \in Nat /\ n + 1 \in 1..m
          /\ m - n - 1 = m - (n + 1) /\ m - n - 1 \in 0..(m - 1) /\ m - (m - n) = n
      BY <2>2
    <3>2. h[m - n] = step[<<m - n, h[m - n - 1]>>]
      BY <1>4, <3>1 DEF RunOf
    <3>3. h[m - n - 1] = f[n + 1] /\ f[n + 1] \in Int
      BY <1>5, <3>1
    <3>4. step[<<m - n, f[n + 1]>>] = Rest(n) + IF s[n] <= day THEN 0 ELSE f[n + 1]
      BY <1>3, <3>1, <3>3, SMTT(30)
    <3> QED
      BY <1>5, <2>2, <3>2, <3>3, <3>4
  <2> QED
    BY <2>1, <2>2
<1> QED
  BY <1>5, <1>6 DEF LoopSums

\* Starts that fall, and values that are given to them in turn.
Falling(s, m) ==
    (\A n \in 1..m : s[n] \in Int) /\ \A i, j \in 1..m : i < j => s[j] < s[i]

InTurn(v, s, u, m) == \A n \in 1..m : v[s[n]] = u[n]

\* It comes to what the rounds before it stops add up to.
LEMMA LoopAddsUp ==
    ASSUME NEW m \in Nat, NEW s, NEW day, NEW last, StopsAt(s, day, m, last),
           day \in Int, Falling(s, m),
           NEW u, NEW f, LoopSums(f, u, s, day, m),
           NEW v, InTurn(v, s, u, last),
           NEW g, Additive(g, v, ChainMembers(s, last))
    PROVE  f[1] = g[ChainMembers(s, last)]
<1> DEFINE From(n) == {s[k] : k \in n..last}
           Bad == {n \in 1..last : f[n] # g[From(n)]}
           Rounds == {r \in Nat : last - r \in Bad}
<1>0. /\ \A n \in 1..m : s[n] \in Int
      /\ \A i, j \in 1..m : i < j => s[j] < s[i]
      /\ \A n \in 1..last : v[s[n]] = u[n]
  BY DEF Falling, InTurn
<1>1. last \in 1..m /\ last \in Nat
  BY DEF StopsAt
<1>2. \A n \in 1..last : n \in 1..m
  BY <1>1
<1>3. ASSUME NEW n \in 1..last
      PROVE  /\ From(n) \in SUBSET ChainMembers(s, last) /\ s[n] \in From(n)
             /\ g[From(n)] = u[n] + g[From(n) \ {s[n]}]
  <2>1. From(n) \in SUBSET ChainMembers(s, last)
    <3>1. \A k \in n..last : k \in 1..last
      OBVIOUS
    <3> QED
      BY <3>1 DEF ChainMembers
  <2>2. s[n] \in From(n)
    OBVIOUS
  <2> HIDE DEF From
  <2>3. g[From(n)] = v[s[n]] + g[From(n) \ {s[n]}]
    BY <2>1, <2>2 DEF Additive
  <2> QED
    BY <1>0, <2>1, <2>2, <2>3
<1>4. ASSUME Bad # {}
      PROVE  FALSE
  <2>0. Bad \subseteq 1..last
    OBVIOUS
  <2>1. \A k \in Bad : last - k \in Rounds
    <3>1. ASSUME NEW k \in Bad
          PROVE  last - k \in Nat /\ last - (last - k) = k
      <4>1. k \in 1..last
        BY <2>0
      <4> QED
        BY <1>1, <4>1
    <3> HIDE DEF Bad
    <3> QED
      BY <3>1
  <2>2. PICK r \in Rounds : \A q \in Rounds : r <= q
    <3>1. Rounds \in SUBSET Nat
      OBVIOUS
    <3> HIDE DEF Rounds, Bad
    <3>2. Rounds # {}
      BY <1>4, <2>1
    <3> QED
      BY <3>1, <3>2, LeastNumber
  <2>3. PICK n \in Bad : n = last - r /\ r \in Nat
    OBVIOUS
  <2>4. \A k \in 1..last : n < k => k \notin Bad
    <3>1. ASSUME NEW k \in 1..last, n < k, k \in Bad
          PROVE  FALSE
      <4> HIDE DEF Bad, Rounds
      <4>1. r <= last - k
        BY <2>1, <2>2, <3>1
      <4> QED
        BY <1>1, <2>3, <3>1, <4>1
    <3> QED
      BY <3>1
  <2>5. n \in 1..last /\ n \in 1..m /\ f[n] # g[From(n)]
    BY <1>2
  <2>6. f[n] = u[n] + IF s[n] <= day \/ n = m THEN 0 ELSE f[n + 1]
    BY <2>5 DEF LoopSums
  <2>7. CASE n = last
    <3>1. From(n) = {s[n]}
      BY <1>1, <2>7
    <3>2. s[n] <= day \/ n = m
      BY <2>7 DEF StopsAt
    <3>3. g[{}] = 0
      BY DEF Additive
    <3>4. From(n) \ {s[n]} = {}
      BY <3>1
    <3>5. g[From(n)] = u[n] + 0
      BY <1>3, <2>5, <3>3, <3>4
    <3> QED
      BY <2>5, <2>6, <3>2, <3>5
  <2>8. CASE n # last
    <3>1. n < last /\ n + 1 \in 1..last /\ n < n + 1
      BY <1>1, <2>5, <2>8
    <3>2. s[n] > day /\ n # m
      BY <1>1, <2>5, <3>1 DEF StopsAt
    <3>3. ~ (s[n] <= day \/ n = m)
      BY <1>0, <2>5, <3>2
    <3>4. From(n) \ {s[n]} = From(n + 1)
      <4>1. ASSUME NEW x \in From(n) \ {s[n]}
            PROVE  x \in From(n + 1)
        <5>1. PICK k \in n..last : x = s[k]
          OBVIOUS
        <5>2. k # n
          BY <5>1
        <5>3. k \in (n + 1)..last
          BY <2>5, <5>2
        <5> QED
          BY <5>1, <5>3
      <4>2. ASSUME NEW x \in From(n + 1)
            PROVE  x \in From(n) \ {s[n]}
        <5>1. PICK k \in (n + 1)..last : x = s[k]
          OBVIOUS
        <5>2. k \in n..last /\ k \in 1..m /\ n < k
          BY <1>1, <2>5
        <5>3. s[k] < s[n] /\ s[k] \in Int /\ s[n] \in Int
          BY <1>0, <2>5, <5>2
        <5> QED
          BY <5>1, <5>2, <5>3
      <4> QED
        BY <4>1, <4>2
    <3>5. f[n + 1] = g[From(n + 1)]
      BY <2>4, <3>1
    <3>6. f[n] = u[n] + f[n + 1]
      BY <2>6, <3>3
    <3>7. g[From(n)] = u[n] + g[From(n + 1)]
      BY <1>3, <2>5, <3>4
    <3> HIDE DEF From
    <3> QED
      BY <2>5, <3>5, <3>6, <3>7
  <2> QED
    BY <2>7, <2>8
<1>5. 1 \in 1..last /\ From(1) = ChainMembers(s, last)
  BY <1>1 DEF ChainMembers
<1> QED
  BY <1>4, <1>5

\* The periods that the loop visits.
LEMMA Visited ==
    ASSUME NEW b, b.period \in Calendar, NEW bounds,
           NEW st, st = [d \in Int |-> CurrentPeriodBounds(b.period, d, None).start],
           NEW s, ChainOf(s, st, RolloverPeriods), bounds.previousStart = st[s[0] - 1]
    PROVE  \A n \in 1..RolloverPeriods :
              /\ PriorPeriods(b, bounds)[n] = CurrentPeriodBounds(b.period, s[n], None)
              /\ PriorPeriods(b, bounds)[n].start = s[n]
<1> DEFINE Prior == PriorPeriods(b, bounds)
           p == b.period
           m == RolloverPeriods
           Step(f) == [n \in 1..RolloverPeriods |->
               CurrentPeriodBounds(b.period,
                   IF n = 1 THEN bounds.previousStart ELSE f[n - 1].previousStart, None)]
           h == [n \in 1..RolloverPeriods |-> CurrentPeriodBounds(b.period, s[n], None)]
<1>0. m \in Nat
  BY RolloverAssumption
<1>1. StartsOf(st) /\ \A d \in Int : /\ CurrentPeriodBounds(p, d, None).start = st[d]
                                    /\ CurrentPeriodBounds(p, d, None).previousStart = st[st[d] - 1]
  BY PeriodsChain
<1>2. /\ s \in [0..m -> Int] /\ \A n \in 1..m : s[n] = st[s[n - 1] - 1]
      /\ \A n \in 0..m : st[s[n]] = s[n]
  <2>1. \A n \in 0..m : st[s[n]] = s[n]
    BY <1>0, <1>1, ChainFalls
  <2> QED
    BY <2>1 DEF ChainOf
<1>3. ASSUME NEW n \in 1..m
      PROVE  s[n] = IF n = 1 THEN bounds.previousStart ELSE h[n - 1].previousStart
  <2>1. CASE n = 1
    BY <1>2, <2>1
  <2>2. CASE n # 1
    <3>1. n - 1 \in 1..m /\ n - 1 \in 0..m
      BY <1>0, <2>2
    <3>2. s[n - 1] \in Int /\ st[s[n - 1]] = s[n - 1]
      BY <1>2, <3>1
    <3>3. h[n - 1].previousStart = st[s[n - 1] - 1]
      BY <1>1, <3>1, <3>2
    <3> QED
      BY <1>2, <2>2, <3>3
  <2> QED
    BY <2>1, <2>2
<1>4. h = Step(h)
  <2> DEFINE to == [n \in 1..m |-> IF n = 1 THEN bounds.previousStart ELSE h[n - 1].previousStart]
  <2>1. \A n \in 1..m : s[n] = to[n]
    BY <1>3
  <2>2. Step(h) = [n \in 1..RolloverPeriods |-> CurrentPeriodBounds(b.period, to[n], None)]
    OBVIOUS
  <2> HIDE DEF to
  <2> QED
    BY <2>1, <2>2
<1>5. Prior = Step(Prior)
  <2>1. Prior = CHOOSE f : f = Step(f)
    BY DEF PriorPeriods
  <2> HIDE DEF Step
  <2> QED
    BY <1>4, <2>1
<1> HIDE DEF Prior
<1> DEFINE Bad == {n \in 1..m : Prior[n] # h[n]}
<1>6. ASSUME Bad # {}
      PROVE  FALSE
  <2>1. PICK n \in Bad : \A k \in Bad : n <= k
    <3>1. Bad \in SUBSET Nat
      OBVIOUS
    <3> HIDE DEF Bad
    <3> QED
      BY <1>6, <3>1, LeastNumber
  <2>2. Prior[n] = CurrentPeriodBounds(p, IF n = 1 THEN bounds.previousStart ELSE Prior[n - 1].previousStart, None)
    BY <1>5
  <2>3. (IF n = 1 THEN bounds.previousStart ELSE Prior[n - 1].previousStart)
          = IF n = 1 THEN bounds.previousStart ELSE h[n - 1].previousStart
    <3>1. CASE n = 1
      BY <3>1
    <3>2. CASE n # 1
      <4>1. n - 1 \in 1..m /\ n - 1 < n
        BY <1>0, <3>2
      <4>2. n - 1 \notin Bad
        BY <2>1, <4>1
      <4>3. Prior[n - 1] = h[n - 1]
        BY <4>1, <4>2
      <4> QED
        BY <3>2, <4>3
    <3> QED
      BY <3>1, <3>2
  <2>4. Prior[n] = CurrentPeriodBounds(p, s[n], None)
    BY <1>3, <2>2, <2>3
  <2> QED
    BY <2>4
<1>7. ASSUME NEW n \in 1..m
      PROVE  Prior[n] = CurrentPeriodBounds(p, s[n], None) /\ Prior[n].start = s[n]
  <2>1. Prior[n] = CurrentPeriodBounds(p, s[n], None)
    BY <1>6
  <2>2. n \in 0..m /\ s[n] \in Int
    BY <1>2
  <2> QED
    BY <1>1, <1>2, <2>1, <2>2
<1> QED
  BY <1>7 DEF Prior

\* What a period left is never a debt.
LEMMA UnspentInt ==
    ASSUME NEW l \in Ledgers, NEW b \in Budgets, NEW start
    PROVE  Unspent(l, b, start) \in Nat
<1>1. PICK bounds : bounds = CurrentPeriodBounds(b.period, start, None)
  OBVIOUS
<1>2. PICK spent \in Int : spent = SpentInBounds(l, b, bounds.start, bounds.end)
  BY SpentInt
<1>3. b.amount \in Int
  BY BudgetsAssumption
<1>4. Unspent(l, b, start) = IF b.amount - spent > 0 THEN b.amount - spent ELSE 0
  BY <1>1, <1>2 DEF Unspent
<1> QED
  BY <1>3, <1>4

\* A budget carries over what the periods it may carry over from left.
LEMMA RolloverRight ==
    ASSUME NEW l \in Ledgers, NEW b \in Budgets, b.period \in Calendar, NEW day \in Int,
           NEW bounds, bounds = CurrentPeriodBounds(b.period, day, None),
           NEW found, \A n \in 1..RolloverPeriods : found[n] = l
    PROVE  /\ b.created < bounds.start
                => RolloverCarried(found, b, bounds)
                   = IF b.rollover THEN UnspentSum(l, b, CarriedStarts(b, bounds)) ELSE 0
           /\ RolloverCarried(found, b, bounds) \in Nat
<1> DEFINE m == RolloverPeriods
           p == b.period
           st == [d \in Int |-> CurrentPeriodBounds(p, d, None).start]
<1>0. b.period # "custom"
  BY DEF Calendar
<1>1. m \in Nat /\ m > 0 /\ b.created \in Int
  BY RolloverAssumption, BudgetsAssumption
<1>2. /\ StartsOf(st)
      /\ \A d \in Int : CurrentPeriodBounds(p, d, None).start = st[d]
      /\ bounds.start = st[day] /\ bounds.previousStart = st[st[day] - 1]
  BY PeriodsChain
<1>3. st \in [Int -> Int] /\ st[day] \in Int /\ st[st[day]] = st[day]
  <2> HIDE DEF st
  <2>1. st \in [Int -> Int] /\ st[day] \in Int /\ st[day] <= day
    BY <1>2 DEF StartsOf
  <2> QED
    BY <1>2, <2>1 DEF StartsOf
<1>4. PICK s : ChainOf(s, st, m) /\ s[0] = bounds.start
  <2> HIDE DEF st
  <2> DEFINE step == [q \in Nat \X Int |-> st[q[2] - 1]]
  <2>1. step \in [Nat \X Int -> Int] /\ \A n \in Nat, x \in Int : step[<<n, x>>] = st[x - 1]
    BY <1>3
  <2> HIDE DEF step
  <2>2. PICK h \in [0..m -> Int] : RunOf(h, st[day], step, m)
    BY <1>1, <1>3, <2>1, RunExists
  <2>3. ASSUME NEW n \in 1..m
        PROVE  h[n] = st[h[n - 1] - 1]
    <3>1. n \in Nat /\ n - 1 \in 0..m
      BY <1>1
    <3>2. h[n - 1] \in Int /\ h[n] = step[<<n, h[n - 1]>>]
      BY <2>2, <3>1 DEF RunOf
    <3> QED
      BY <2>1, <3>1, <3>2
  <2>4. h[0] = st[day]
    BY <2>2 DEF RunOf
  <2>5. ChainOf(h, st, m)
    BY <1>3, <2>2, <2>3, <2>4 DEF ChainOf
  <2> QED
    BY <1>2, <2>4, <2>5
<1>5. /\ s \in [0..m -> Int] /\ s[1] = bounds.previousStart
      /\ \A n \in 1..m : s[n] = st[s[n - 1] - 1]
  <2> HIDE DEF st
  <2>1. 1 \in 1..m
    BY <1>1
  <2> QED
    BY <1>2, <1>4, <2>1 DEF ChainOf
<1>6. \A i, j \in 1..m : i < j => s[j] < s[i]
  <2> HIDE DEF st
  <2>1. \A i, j \in 0..m : i < j => s[j] < s[i]
    BY <1>1, <1>2, <1>4, ChainFalls
  <2>2. \A i \in 1..m : i \in 0..m
    BY <1>1
  <2> QED
    BY <2>1, <2>2
<1>7. PICK last : StopsAt(s, b.created, m, last)
  <2> DEFINE Stops == {n \in 1..m : s[n] <= b.created \/ n = m}
  <2>1. Stops \in SUBSET Nat /\ Stops # {}
    <3>1. m \in Stops
      BY <1>1
    <3> QED
      BY <3>1
  <2>2. PICK n \in Stops : \A k \in Stops : n <= k
    <3> HIDE DEF Stops
    <3> QED
      BY <2>1, LeastNumber
  <2>3. ASSUME NEW k \in 1..m, k < n
        PROVE  s[k] > b.created
    <3>1. k \notin Stops
      BY <2>2, <2>3
    <3>2. ~ s[k] <= b.created /\ k \in 0..m
      BY <3>1
    <3>3. s[k] \in Int
      BY <1>5, <3>2
    <3> QED
      BY <1>1, <3>2, <3>3
  <2>4. StopsAt(s, b.created, m, n)
    BY <2>3 DEF StopsAt
  <2> QED
    BY <2>4
<1>8. last \in 1..m /\ (\A n \in 1..m : s[n] \in Int) /\ \A n \in 1..last : n \in 1..m
  <2>1. last \in 1..m
    BY <1>7 DEF StopsAt
  <2>2. \A n \in 1..m : n \in 0..m
    BY <1>1
  <2> QED
    BY <1>1, <1>5, <2>1, <2>2
<1>9. b.created < bounds.start => CarriedStarts(b, bounds) = ChainMembers(s, last)
  <2>0. SUFFICES ASSUME b.created < bounds.start
                 PROVE  CarriedStarts(b, bounds) = ChainMembers(s, last)
    OBVIOUS
  <2>1. MostRecent(StartsSince(st, s, b.created), m) = ChainMembers(s, last)
    <3> HIDE DEF st
    <3> QED
      BY <1>1, <1>2, <1>4, <1>7, LatestStarts
  <2>2. {CurrentPeriodBounds(p, d, None).start : d \in b.created..(bounds.start - 1)}
          = {st[d] : d \in b.created..(bounds.start - 1)}
    <3>1. \A d \in b.created..(bounds.start - 1) : CurrentPeriodBounds(p, d, None).start = st[d]
      BY <1>1, <1>2
    <3> HIDE DEF st
    <3> QED
      BY <3>1
  <2>3. StartsSince(st, s, b.created) = {st[d] : d \in b.created..(s[0] - 1)}
    <3> HIDE DEF st
    <3>1. s[1] = st[s[0] - 1] /\ s[0] \in Int
      BY <1>1, <1>5
    <3>2. s[0] - 1 \in b.created..(s[0] - 1)
      BY <1>1, <1>4, <2>0, <3>1
    <3> QED
      BY <3>1, <3>2 DEF StartsSince
  <2>4. CarriedStarts(b, bounds) = MostRecent(StartsSince(st, s, b.created), m)
    <3> HIDE DEF st
    <3> QED
      BY <1>4, <2>2, <2>3 DEF CarriedStarts, MostRecent
  <2> QED
    BY <2>1, <2>4
<1> DEFINE Prior == PriorPeriods(b, bounds)
           Unused(n) == b.amount - SpentInBounds(found[n], b, Prior[n].start, Prior[n].end)
           Step(f) == [n \in 1..RolloverPeriods |->
               (IF Unused(n) >= 0 THEN Unused(n) ELSE 0)
               + IF LastPrior(b, Prior, n) THEN 0 ELSE f[n + 1]]
           Carried == CHOOSE f : f = Step(f)
<1>10. RolloverCarried(found, b, bounds) = IF b.rollover THEN Carried[1] ELSE 0
  <2>1. RolloverCarried(found, b, bounds)
           = IF b.rollover /\ b.period # "custom" THEN Carried[1] ELSE 0
    BY DEF RolloverCarried, Rolls
  <2> HIDE DEF Carried, Step, Unused, Prior
  <2> QED
    BY <1>0, <2>1
<1>11. \A n \in 1..m : Prior[n] = CurrentPeriodBounds(p, s[n], None) /\ Prior[n].start = s[n]
  <2>1. bounds.previousStart = st[s[0] - 1]
    BY <1>2, <1>4
  <2> QED
    <3>1. PICK starts : starts = st
      OBVIOUS
    <3>2. ChainOf(s, starts, RolloverPeriods) /\ bounds.previousStart = starts[s[0] - 1]
      BY <1>4, <2>1, <3>1
    <3> QED
      BY <3>1, <3>2, Visited
<1> HIDE DEF st
<1>12. PICK u \in [1..m -> Int] : \A n \in 1..m :
          u[n] = (IF Unused(n) >= 0 THEN Unused(n) ELSE 0) /\ u[n] = Unspent(l, b, s[n])
  <2>1. ASSUME NEW n \in 1..m
        PROVE  (IF Unused(n) >= 0 THEN Unused(n) ELSE 0) = Unspent(l, b, s[n])
    <3>1. PICK prior : prior = Prior[n] /\ prior = CurrentPeriodBounds(p, s[n], None)
      BY <1>11
    <3> HIDE DEF Prior
    <3>2. PICK spent \in Int : spent = SpentInBounds(l, b, prior.start, prior.end)
                              /\ spent = SpentInBounds(found[n], b, prior.start, prior.end)
      BY SpentInt
    <3>3. PICK left \in Int : left = b.amount - spent
      BY <3>2, BudgetsAssumption
    <3>4. Unused(n) = left
      BY <3>1, <3>2, <3>3
    <3>5. Unspent(l, b, s[n]) = IF left > 0 THEN left ELSE 0
      BY <3>1, <3>2, <3>3 DEF Unspent
    <3> HIDE DEF Unused
    <3> QED
      BY <3>3, <3>4, <3>5
  <2> DEFINE u == [n \in 1..m |-> Unspent(l, b, s[n])]
  <2> HIDE DEF Unused
  <2>2. u \in [1..m -> Int]
    BY UnspentInt
  <2> QED
    BY <2>1, <2>2
<1> DEFINE Sums(f) == [n \in 1..m |->
              u[n] + IF s[n] <= b.created \/ n = m THEN 0 ELSE f[n + 1]]
<1>13. ASSUME NEW f
       PROVE  Step(f) = Sums(f)
  <2>1. \A n \in 1..m : /\ (IF Unused(n) >= 0 THEN Unused(n) ELSE 0) = u[n]
                        /\ LastPrior(b, Prior, n) <=> s[n] <= b.created \/ n = m
    BY <1>11, <1>12 DEF LastPrior
  <2> HIDE DEF Unused, Prior
  <2>2. ASSUME NEW n \in 1..m
        PROVE  (IF Unused(n) >= 0 THEN Unused(n) ELSE 0)
               + (IF LastPrior(b, Prior, n) THEN 0 ELSE f[n + 1])
               = u[n] + IF s[n] <= b.created \/ n = m THEN 0 ELSE f[n + 1]
    <3>1. (IF LastPrior(b, Prior, n) THEN 0 ELSE f[n + 1])
             = IF s[n] <= b.created \/ n = m THEN 0 ELSE f[n + 1]
      BY <2>1, Zenon
    <3>2. (IF Unused(n) >= 0 THEN Unused(n) ELSE 0) = u[n]
      BY <2>1, Zenon
    <3> QED
      BY <3>1, <3>2, Zenon
  <2> QED
    BY <2>2, Zenon
<1>14. LoopSums(Carried, u, s, b.created, m)
  <2>1. PICK f \in [1..m -> Int] : LoopSums(f, u, s, b.created, m)
    BY <1>1, LoopSumsExist
  <2>2. f = Sums(f)
    BY <2>1 DEF LoopSums
  <2>3. f = Step(f)
    BY <1>13, <2>2
  <2> HIDE DEF Step
  <2>4. Carried = Step(Carried)
    BY <2>3
  <2>5. Carried = Sums(Carried)
    BY <1>13, <2>4
  <2> HIDE DEF Carried
  <2> QED
    BY <2>5 DEF LoopSums
<1> HIDE DEF Carried, Step, Unused, Prior
<1>15. PICK T : T = ChainMembers(s, last)
  OBVIOUS
<1>16. IsFiniteSet(T)
  <2>1. \A i, j \in 1..last : i < j => s[j] < s[i]
    BY <1>6, <1>8
  <2>2. \A i \in 1..last : s[i] \in Int
    BY <1>8
  <2> QED
    BY <1>1, <1>8, <1>15, <2>1, <2>2, MembersCount, SMTT(30)
<1>17. PICK v : v = [x \in T |-> Unspent(l, b, x)]
  OBVIOUS
<1>18. \A x \in T : v[x] = Unspent(l, b, x) /\ v[x] \in Nat
  BY <1>17, UnspentInt
<1>19. PICK g : Additive(g, v, T)
  BY <1>16, <1>18, AdditiveExists
<1>20. UnspentSum(l, b, T) = g[T]
  BY <1>16, <1>18, <1>19, UnspentOf
<1>21. Carried[1] = g[T]
  <2>1. \A n \in 1..last : v[s[n]] = u[n]
    <3>1. \A n \in 1..last : s[n] \in T
      BY <1>15 DEF ChainMembers
    <3> QED
      BY <1>8, <1>12, <1>18, <3>1
  <2>2. PICK f : f = Carried
    OBVIOUS
  <2>3. f[1] = g[ChainMembers(s, last)]
    <3>1. Falling(s, m) /\ InTurn(v, s, u, last)
      BY <1>6, <1>8, <2>1 DEF Falling, InTurn
    <3>2. LoopSums(f, u, s, b.created, m) /\ Additive(g, v, ChainMembers(s, last))
      BY <1>14, <1>15, <1>19, <2>2
    <3> QED
      BY <1>1, <1>7, <3>1, <3>2, LoopAddsUp
  <2> QED
    BY <1>15, <2>2, <2>3
<1>22. g[T] \in Nat
  BY <1>16, <1>18, <1>19, SumsGrow
<1> QED
  BY <1>9, <1>10, <1>15, <1>20, <1>21, <1>22

------------------------------------------------------------------------------
(* The invariant of budgets.                                               *)

\* What the answer about a budget says.
BudgetRight(l, day, b, reply) ==
    b.period # "custom" =>
       LET bounds == CurrentPeriodBounds(b.period, day, None)
           whole == reply.percentageUsed.whole
       IN /\ b.created < bounds.start
                => reply.carried
                   = IF b.rollover THEN UnspentSum(l, b, CarriedStarts(b, bounds)) ELSE 0
          /\ reply.status = "exceeded" <=> reply.limit > 0 /\ reply.remaining <= 0
          /\ reply.status = "exceeded" <=> whole >= 100
          /\ reply.status = "approaching" <=> whole \in WarningThreshold(b)..99

PreviewRight(l, day, b, reply) == reply = BudgetStatus(l, b, day).spent

LEMMA StatusRight ==
    ASSUME NEW l \in Ledgers, NEW day \in Int, NEW b \in Budgets
    PROVE  BudgetRight(l, day, b, BudgetStatus(l, b, day))
<1> SUFFICES ASSUME b.period # "custom"
             PROVE  BudgetRight(l, day, b, BudgetStatus(l, b, day))
  BY DEF BudgetRight
<1>1. /\ b.period \in Calendar /\ b.amount \in Nat /\ b.amount > 0
      /\ b.threshold \in {None} \union 1..100
  BY BudgetsAssumption
<1>2. PICK bounds : bounds = CurrentPeriodBounds(b.period, day, None)
  OBVIOUS
<1>3. CurrentPeriodBounds(b.period, day, b.custom) = bounds
  BY <1>1, <1>2 DEF CurrentPeriodBounds, Calendar
<1>4. day <= bounds.end /\ bounds.end \in Int
  <2>1. PICK st : st = [d \in Int |-> CurrentPeriodBounds(b.period, d, None).start]
    OBVIOUS
  <2>2. day <= bounds.end
    BY <1>1, <1>2, <2>1, PeriodsChain
  <2> QED
    BY <1>1, <1>2, <2>2, BoundsTypes
<1>5. PICK spent \in Int : spent = SpentInBounds(l, b, bounds.start, bounds.end)
  BY SpentInt
<1> DEFINE found == [n \in 0..RolloverPeriods |-> l]
<1>0. found[0] = l /\ \A n \in 1..RolloverPeriods : found[n] = l
  BY RolloverAssumption
<1>6. PICK carried \in Nat :
        /\ carried = RolloverCarried(found, b, bounds)
        /\ b.created < bounds.start
             => carried = IF b.rollover THEN UnspentSum(l, b, CarriedStarts(b, bounds)) ELSE 0
  BY <1>0, <1>1, <1>2, RolloverRight
<1>7. PICK limit \in Nat : limit = b.amount + carried /\ limit > 0
  BY <1>1
<1>8. PICK threshold \in 1..100 : threshold = WarningThreshold(b)
  BY <1>1 DEF WarningThreshold, DefaultWarningThreshold
<1>9. PICK whole \in Int : whole = PercentOf(spent, limit).whole
  <2>1. 1 \in Nat /\ 1 > 0
    OBVIOUS
  <2> QED
    BY <1>7, <2>1, PercentReaches
<1>10. PICK full \in BOOLEAN, near \in BOOLEAN :
          full = PercentReached(spent, limit, 100) /\ near = PercentReached(spent, limit, threshold)
  BY DEF PercentReached
<1>11. (full <=> whole >= 100) /\ (near <=> whole >= threshold)
  <2>1. 100 \in Nat /\ 100 > 0 /\ threshold \in Nat /\ threshold > 0
    BY SMT
  <2> QED
    BY <1>7, <1>9, <1>10, <2>1, PercentReaches
<1>12. full <=> limit - spent <= 0
  <2>1. PercentReached(spent, limit, 100) <=> spent * 100 >= limit * 100
    BY <1>7 DEF PercentReached
  <2>2. spent * 100 >= limit * 100 <=> limit - spent <= 0
    BY SMT
  <2> QED
    BY <1>10, <2>1, <2>2
<1> DEFINE reply == BudgetStatus(l, b, day)
<1>13. /\ reply.carried = carried /\ reply.limit = limit /\ reply.remaining = limit - spent
       /\ reply.percentageUsed = PercentOf(spent, limit)
       /\ reply.status = StatusOf(limit, spent, threshold, IsPeriodEnded(day, bounds.end))
  <2>1. reply = StatusFound(found, b, day)
    BY DEF BudgetStatus
  <2> HIDE DEF found
  <2> QED
    BY <1>0, <1>3, <1>5, <1>6, <1>7, <1>8, <2>1 DEF StatusFound, StatusIn
<1>14. reply.status = IF full THEN "exceeded" ELSE IF near THEN "approaching" ELSE "healthy"
  <2>1. ~ IsPeriodEnded(day, bounds.end)
    BY <1>4 DEF IsPeriodEnded
  <2> HIDE DEF reply
  <2> QED
    BY <1>10, <1>13, <2>1 DEF StatusOf
<1> HIDE DEF reply
<1>15. reply.status = "exceeded" <=> full
  BY <1>14
<1>16. reply.status = "approaching" <=> near /\ ~full
  BY <1>14
<1>17. near /\ ~full <=> whole \in threshold..99
  BY <1>11
<1>18. BudgetRight(l, day, b, reply)
  <2>1. reply.percentageUsed.whole = whole
    BY <1>9, <1>13
  <2>2. reply.limit > 0 /\ (reply.remaining <= 0 <=> full)
    BY <1>7, <1>12, <1>13
  <2> QED
    BY <1>2, <1>6, <1>8, <1>11, <1>13, <1>15, <1>16, <1>17, <2>1, <2>2 DEF BudgetRight
<1> QED
  BY <1>18 DEF reply

\* What a preview answers.
PreviewOf(b, spending) ==
    IF b.category = None THEN spending.total
    ELSE ValuesSum(spending.byCategory, {c \in DOMAIN spending.byCategory : c = b.category})

\* The preview sums one category, or takes the total.
LEMMA PreviewSpent ==
    ASSUME NEW l \in Ledgers, NEW day, NEW b,
           NEW bounds, bounds = CurrentPeriodBounds(b.period, day, b.custom),
           NEW scope, scope = [from |-> bounds.start, to |-> bounds.end, account |-> b.account],
           NEW spending, spending = ExpenseSpending(l, b.currency, scope)
    PROVE  PreviewRight(l, day, b, PreviewOf(b, spending))
<1>1. \A c \in DOMAIN spending.byCategory : spending.byCategory[c] \in Int
  BY SpendingInt
<1>2. PICK v, S, k : v = spending.byCategory /\ S = DOMAIN spending.byCategory /\ k = b.category
  OBVIOUS
<1>3. ValuesSum(v, {c \in S : c = k}) = IF k \in S THEN v[k] ELSE 0
  <2>1. \A c \in S : v[c] \in Int
    BY <1>1, <1>2
  <2> QED
    BY <2>1, OneOrNone
<1>4. PreviewOf(b, spending)
        = IF b.category = None THEN spending.total
          ELSE ValuesSum(spending.byCategory, {c \in DOMAIN spending.byCategory : c = b.category})
  BY DEF PreviewOf
<1>5. BudgetStatus(l, b, day).spent = SpentInBounds(l, b, bounds.start, bounds.end)
  <2> DEFINE found == [n \in 0..RolloverPeriods |-> l]
  <2>1. found[0] = l
    BY RolloverAssumption
  <2>2. BudgetStatus(l, b, day) = StatusFound(found, b, day)
    BY DEF BudgetStatus
  <2> HIDE DEF found
  <2> QED
    BY <2>1, <2>2 DEF StatusFound, StatusIn
<1>6. SpentInBounds(l, b, bounds.start, bounds.end)
        = IF b.category = None THEN spending.total
          ELSE IF b.category \in DOMAIN spending.byCategory
          THEN spending.byCategory[b.category] ELSE 0
  BY DEF SpentInBounds
<1> QED
  BY <1>2, <1>3, <1>4, <1>5, <1>6 DEF PreviewRight

\* The answer is right for the budget asked about.
BudgetsInv ==
    /\ ledger \in Ledgers /\ today \in Int
    /\ asked.kind = "preview" => PreviewRight(ledger, today, asked.budget, answer)
    /\ asked.kind = "budget" => BudgetRight(ledger, today, asked.budget, answer)

LEMMA BudgetAsked ==
    ASSUME ledger \in Ledgers, today \in Int, NEW question, NEW reply, Ask(question, reply),
           question.kind = "preview" => PreviewRight(ledger, today, question.budget, reply),
           question.kind = "budget" => BudgetRight(ledger, today, question.budget, reply)
    PROVE  BudgetsInv'
  BY DEF Ask, BudgetsInv

\* A question about something else changes nothing of that.
LEMMA NoBudgetAsked ==
    ASSUME ledger \in Ledgers, today \in Int, NEW question, NEW reply, Ask(question, reply),
           question.kind \notin {"preview", "budget"}
    PROVE  BudgetsInv'
  BY BudgetAsked

\* A budget.
LEMMA StatusAsked ==
    ASSUME ledger \in Ledgers, today \in Int, NEW b \in Budgets, AskBudget(b)
    PROVE  BudgetsInv'
<1> DEFINE question == [kind |-> "budget", budget |-> b]
           reply == BudgetStatus(ledger, b, today)
<1>1. Ask(question, reply)
  BY DEF AskBudget
<1>2. question.kind = "budget" /\ question.budget = b
  OBVIOUS
<1>3. BudgetRight(ledger, today, b, reply)
  BY StatusRight
<1> HIDE DEF question, reply
<1> QED
  BY <1>1, <1>2, <1>3, BudgetAsked

\* A preview.
LEMMA PreviewAsked ==
    ASSUME ledger \in Ledgers, today \in Int, NEW b \in Budgets, AskPreview(b)
    PROVE  BudgetsInv'
<1> DEFINE bounds == CurrentPeriodBounds(b.period, today, b.custom)
           scope == [from |-> bounds.start, to |-> bounds.end, account |-> b.account]
           spending == ExpenseSpending(ledger, b.currency, scope)
           question == [kind |-> "preview", budget |-> b]
           reply == PreviewOf(b, spending)
<1>1. Ask(question, reply)
  BY DEF AskPreview, PreviewOf
<1>2. question.kind = "preview" /\ question.budget = b
  OBVIOUS
<1>3. PreviewRight(ledger, today, b, reply)
  BY PreviewSpent
<1> HIDE DEF question, reply
<1> QED
  BY <1>1, <1>2, <1>3, BudgetAsked

\* Every question.
LEMMA BudgetsStep ==
    ASSUME BudgetsInv, ReportNext
    PROVE  BudgetsInv'
<1>1. ledger \in Ledgers /\ today \in Int
  BY DEF BudgetsInv
<1>2. ASSUME NEW v \in Amounts, WriteAmount(v) PROVE BudgetsInv'
  BY <1>1, <1>2, NoBudgetAsked DEF WriteAmount
<1>3. ASSUME NEW p \in Calendar, AskPeriod(p) PROVE BudgetsInv'
  BY <1>1, <1>3, NoBudgetAsked DEF AskPeriod
<1>4. ASSUME NEW f \in Phrases, AskPhrase(f) PROVE BudgetsInv'
  BY <1>1, <1>4, NoBudgetAsked DEF AskPhrase
<1>5. ASSUME NEW v \in Amounts, NEW w \in Amounts, AskChange(v, w) PROVE BudgetsInv'
  BY <1>1, <1>5, NoBudgetAsked DEF AskChange
<1>6. ASSUME NEW a \in AccountScopes, AskDashboard(a) PROVE BudgetsInv'
  BY <1>1, <1>6, NoBudgetAsked DEF AskDashboard
<1>7. ASSUME NEW c \in CurrencyCodes, NEW a \in AccountScopes, AskSpending(c, a) PROVE BudgetsInv'
  BY <1>1, <1>7, NoBudgetAsked DEF AskSpending
<1>8. ASSUME NEW b \in Budgets, AskBudget(b) PROVE BudgetsInv'
  BY <1>1, <1>8, StatusAsked
<1>9. ASSUME NEW b \in Budgets, AskPreview(b) PROVE BudgetsInv'
  BY <1>1, <1>9, PreviewAsked
<1>10. ASSUME NEW q \in TransferQueries, AskTransfers(q) PROVE BudgetsInv'
  BY <1>1, <1>10, NoBudgetAsked DEF AskTransfers
<1>11. ASSUME NEW r \in Requests, AskExport(r) PROVE BudgetsInv'
  BY <1>1, <1>11, NoBudgetAsked DEF AskExport
<1>12. ASSUME NEW r \in Requests, AskArchive(r) PROVE BudgetsInv'
  BY <1>1, <1>12, NoBudgetAsked DEF AskArchive
<1>13. ASSUME AskOverview PROVE BudgetsInv'
  BY <1>1, <1>13, NoBudgetAsked DEF AskOverview
<1> QED
  BY <1>2, <1>3, <1>4, <1>5, <1>6, <1>7, <1>8, <1>9, <1>10, <1>11, <1>12, <1>13 DEF ReportNext

\* So it stays.
LEMMA BudgetsInvariant == ReportSpec => []BudgetsInv
<1>1. ReportInit => BudgetsInv
  BY DatesAssumption DEF ReportInit, BudgetsInv
<1>2. BudgetsInv /\ [ReportNext]_reportVars => BudgetsInv'
  <2>1. CASE ReportNext
    BY <2>1, BudgetsStep
  <2>2. CASE UNCHANGED reportVars
    BY <2>2 DEF BudgetsInv, reportVars
  <2> QED
    BY <2>1, <2>2
<1> QED
  BY <1>1, <1>2, PTL DEF ReportSpec

\* A budget that was created before the current period carries over what each completed
\* period since its creation left, at most MAX_ROLLOVER_PERIODS of them, and never a debt
\* (the others: CarriedAsDocumented, which the code violates); its status says the same as its
\* percentage, which is rounded on its own, for every amount and threshold; and the
\* preview shows what the budget will (computeBudgetStatus, computeRolloverCarried,
\* percentOf, previewBudget).
THEOREM BudgetsAddUp == ReportSpec => []BudgetAddsUp
<1>1. BudgetsInv => BudgetAddsUp
  BY DEF BudgetsInv, BudgetRight, PreviewRight, BudgetAddsUp, DocumentedCarry, UnspentSum
<1> QED
  BY <1>1, BudgetsInvariant, PTL

------------------------------------------------------------------------------
(* What the ledgers keep, and what is uncategorized.                       *)

LEMMA LedgerWhole ==
    ASSUME NEW l \in Ledgers, NEW T \in SUBSET l
    PROVE  Whole(T)
<1>1. IsFiniteSet(T)
  BY LedgersAssumption, FS_Subset
<1>2. Keyed(T)
  BY LedgersAssumption DEF Keyed
<1> QED
  BY <1>1, <1>2, LedgersAssumption, SplitsAssumption DEF Whole

\* What is spent without a category is among what the ledger holds without one.
LEMMA UncategorizedCovers ==
    ASSUME NEW l \in Ledgers, NEW currency, NEW scope,
           NEW spending, spending = ExpenseSpending(l, currency, scope),
           None \in DOMAIN spending.byCategory
    PROVE  \E u \in UncategorizedAllocations(l) :
              u.currency = currency /\ u.amount >= spending.byCategory[None]
<1> DEFINE all == {u \in l : u.status = "confirmed" /\ u.direction = "debit" /\ Counted(u)}
           rows == {r \in UNION {Allocations(t) : t \in all} : r.category = None}
           own == {r \in rows : r.currency = currency}
           spent == {r \in RowsOf(Debits(l, currency, scope)) : r.category = None}
           entry == [currency |-> currency, count |-> Cardinality(own),
                     amount |-> Total(own)]
<1>1. /\ DOMAIN spending.byCategory
              = {r.category : r \in RowsOf(Debits(l, currency, scope))}
      /\ \A c \in DOMAIN spending.byCategory :
            spending.byCategory[c]
              = Total({r \in RowsOf(Debits(l, currency, scope)) : r.category = c})
  BY DEF ExpenseSpending, RowsOf, Debits
<1>2. spending.byCategory[None] = Total(spent) /\ spent # {}
  BY <1>1
<1>3. spent \subseteq own
  <2>1. ASSUME NEW t \in Debits(l, currency, scope), NEW r \in Allocations(t), r.category = None
        PROVE  r \in own
    <3>1. t \in all /\ t.currency = currency
      BY DEF Debits, Within
    <3>2. r.currency = currency
      BY <3>1, RowOf
    <3> QED
      BY <2>1, <3>1, <3>2
  <2> QED
    BY <2>1 DEF RowsOf
<1>4. entry \in UncategorizedAllocations(l)
  <2>1. currency \in {r.currency : r \in rows}
    BY <1>2, <1>3
  <2> QED
    BY <2>1 DEF UncategorizedAllocations
<1>5. IsFiniteSet(own) /\ \A r \in own : r.amount \in Nat
  <2>1. Whole(all)
    BY LedgerWhole
  <2>2. own \in SUBSET RowsOf(all)
    BY DEF RowsOf
  <2> HIDE DEF own, all
  <2> QED
    BY <2>1, <2>2, WholeRows, FS_Subset
<1>6. entry.amount = Total(own) /\ entry.currency = currency
  BY DEF Total
<1> HIDE DEF entry, own, spent
<1>7. Total(spent) <= Total(own) /\ Total(spent) \in Int /\ Total(own) \in Int
  BY <1>3, <1>5, TotalOfPart
<1>8. entry.amount >= spending.byCategory[None]
  BY <1>2, <1>6, <1>7
<1> QED
  BY <1>4, <1>6, <1>8

------------------------------------------------------------------------------
(* The categories of the dashboard.                                        *)

\* The group of a currency and a category.
CategoryGroup(rows, currency, category) ==
    LET of == {r \in rows : r.currency = currency /\ r.category = category}
    IN [currency |-> currency, category |-> category, amount |-> Total(of),
        count |-> Cardinality({r.transaction : r \in of})]

LEMMA GroupsKnown ==
    ASSUME NEW l, NEW scope, NEW rows, rows = RowsOf(Expenses(l, scope))
    PROVE  CategoryGroups(l, scope) = {CategoryGroup(rows, r.currency, r.category) : r \in rows}
<1> DEFINE keys == {<<r.currency, r.category>> : r \in rows}
<1>1. CategoryGroups(l, scope) = {CategoryGroup(rows, k[1], k[2]) : k \in keys}
  BY DEF CategoryGroups, CategoryGroup, RowsOf, Total
<1>2. ASSUME NEW r \in rows
      PROVE  /\ <<r.currency, r.category>> \in keys
             /\ <<r.currency, r.category>>[1] = r.currency /\ <<r.currency, r.category>>[2] = r.category
  OBVIOUS
<1>3. ASSUME NEW k \in keys
      PROVE  \E r \in rows : k[1] = r.currency /\ k[2] = r.category
  OBVIOUS
<1> HIDE DEF keys
<1>4. ASSUME NEW k \in keys
      PROVE  \E r \in rows : CategoryGroup(rows, k[1], k[2])
                              = CategoryGroup(rows, r.currency, r.category)
  <2>1. PICK r \in rows : k[1] = r.currency /\ k[2] = r.category
    BY <1>3
  <2> QED
    BY <2>1
<1>5. ASSUME NEW r \in rows
      PROVE  \E k \in keys : CategoryGroup(rows, k[1], k[2])
                              = CategoryGroup(rows, r.currency, r.category)
  <2>1. PICK k \in keys : k[1] = r.currency /\ k[2] = r.category
    BY <1>2
  <2> QED
    BY <2>1
<1> QED
  BY <1>1, <1>4, <1>5

\* A group is known by its currency and its category.
LEMMA GroupsKeyed ==
    ASSUME NEW l, NEW scope, NEW g \in CategoryGroups(l, scope), NEW h \in CategoryGroups(l, scope),
           g.currency = h.currency, g.category = h.category
    PROVE  g = h
<1>1. PICK rows : rows = RowsOf(Expenses(l, scope))
  OBVIOUS
<1>2. PICK r \in rows : g = CategoryGroup(rows, r.currency, r.category)
  BY <1>1, GroupsKnown
<1>3. PICK q \in rows : h = CategoryGroup(rows, q.currency, q.category)
  BY <1>1, GroupsKnown
<1>4. /\ g.currency = r.currency /\ g.category = r.category
      /\ h.currency = q.currency /\ h.category = q.category
  BY <1>2, <1>3 DEF CategoryGroup
<1> QED
  BY <1>2, <1>3, <1>4

\* The groups of a currency add up to what was spent in it.
GroupsIn(l, scope, currency) == {g \in CategoryGroups(l, scope) : g.currency = currency}

LEMMA GroupsAddUp ==
    ASSUME NEW l \in Ledgers, NEW scope, NEW currency
    PROVE  /\ IsFiniteSet(CategoryGroups(l, scope))
           /\ \A g \in CategoryGroups(l, scope) : g.amount \in Nat
           /\ Total(GroupsIn(l, scope, currency)) = SpentOf(l, scope, currency)
<1>1. PICK T, rows, groups : /\ T = Expenses(l, scope) /\ rows = RowsOf(T)
                             /\ groups = CategoryGroups(l, scope)
  OBVIOUS
<1>2. T \in SUBSET l
  BY <1>1 DEF Expenses
<1>3. Whole(T)
  BY <1>2, LedgerWhole
<1>4. IsFiniteSet(rows) /\ \A r \in rows : r.amount \in Nat
  BY <1>1, <1>3, WholeRows
<1>5. PICK group : group = [r \in rows |-> CategoryGroup(rows, r.currency, r.category)]
  OBVIOUS
<1>6. groups = {group[r] : r \in rows}
  BY <1>1, <1>5, GroupsKnown
<1>7. IsFiniteSet(groups)
  <2>1. group \in Surjection(rows, groups)
    BY <1>5, <1>6 DEF Surjection
  <2> QED
    BY <1>4, <2>1, FS_Surjection
<1>8. ASSUME NEW r \in rows
      PROVE  /\ group[r].currency = r.currency /\ group[r].category = r.category
             /\ group[r].amount = Total({q \in rows : group[q] = group[r]})
             /\ group[r].amount \in Nat
  <2>1. PICK own : own = {q \in rows : q.currency = r.currency /\ q.category = r.category}
    OBVIOUS
  <2>2. /\ group[r].currency = r.currency /\ group[r].category = r.category
        /\ group[r].amount = Total(own)
    BY <1>5, <2>1 DEF CategoryGroup
  <2>3. own = {q \in rows : group[q] = group[r]}
    <3>1. ASSUME NEW q \in rows
          PROVE  group[q] = group[r] <=> q.currency = r.currency /\ q.category = r.category
      BY <1>5 DEF CategoryGroup
    <3> QED
      BY <2>1, <3>1
  <2>4. IsFiniteSet(own) /\ \A q \in own : q.amount \in Nat
    BY <1>4, <2>1, FS_Subset
  <2>5. Total(own) \in Nat
    BY <2>4, TotalNat
  <2> QED
    BY <2>2, <2>3, <2>5
<1>9. \A g \in groups : g.amount \in Nat
  BY <1>6, <1>8
<1>10. PICK S, C : S = {r \in rows : r.currency = currency} /\ C = {g \in groups : g.currency = currency}
  OBVIOUS
<1>11. Gathers(group, C, S)
  <2>1. ASSUME NEW r \in S
        PROVE  group[r] \in C
    BY <1>6, <1>8, <1>10
  <2>2. ASSUME NEW c \in C
        PROVE  c.amount = Total({q \in S : group[q] = c})
    <3>1. PICK r \in rows : c = group[r] /\ r.currency = currency
      <4>1. PICK r \in rows : c = group[r]
        BY <1>6, <1>10
      <4>2. c.currency = currency /\ c.currency = r.currency
        BY <1>8, <1>10, <4>1
      <4> QED
        BY <4>1, <4>2
    <3>2. {q \in S : group[q] = c} = {q \in rows : group[q] = group[r]}
      BY <1>8, <1>10, <3>1
    <3> QED
      BY <1>8, <3>1, <3>2
  <2> QED
    BY <2>1, <2>2 DEF Gathers
<1>12. /\ IsFiniteSet(S) /\ IsFiniteSet(C)
       /\ \A r \in S : r.amount \in Int
  BY <1>4, <1>7, <1>10, FS_Subset
<1>13. Total(C) = Total(S)
  BY <1>11, <1>12, TotalGathered
<1>14. Total(S) = SpentOf(l, scope, currency)
  <2>1. PICK U : U = {t \in T : t.currency = currency}
    OBVIOUS
  <2>2. S = RowsOf(U)
    <3>1. ASSUME NEW t, NEW r \in Allocations(t)
          PROVE  r.currency = t.currency
      BY RowOf
    <3> QED
      BY <1>1, <1>10, <2>1, <3>1 DEF RowsOf
  <2>3. Whole(U)
    BY <1>2, <2>1, LedgerWhole
  <2>4. Total(S) = Total(U)
    BY <2>2, <2>3, RowsAddUp
  <2> QED
    BY <1>1, <2>1, <2>4 DEF SpentOf
<1> QED
  BY <1>1, <1>7, <1>9, <1>10, <1>13, <1>14 DEF GroupsIn

\* What the dashboard says of a group.
EntryOf(g, outflow) ==
    [currency |-> g.currency, category |-> g.category, amount |-> g.amount, count |-> g.count,
     share |-> SharePercentOf(g.amount, outflow)]

LEMMA EntriesAddUp ==
    ASSUME NEW l \in Ledgers, NEW scope, NEW currency, NEW outflow,
           NEW shown \in SUBSET GroupsIn(l, scope, currency)
    PROVE  LET E == {EntryOf(g, outflow) : g \in shown}
           IN /\ IsFiniteSet(E) /\ \A e \in E : e.amount \in Int
              /\ Total(E) = Total(shown)
<1>1. PICK groups, S, E, entry :
         /\ groups = CategoryGroups(l, scope) /\ S = shown
         /\ E = {EntryOf(g, outflow) : g \in shown} /\ entry = [g \in shown |-> EntryOf(g, outflow)]
  OBVIOUS
<1>2. IsFiniteSet(groups) /\ \A g \in groups : g.amount \in Nat
  BY <1>1, GroupsAddUp
<1>3. S \in SUBSET groups /\ E = {entry[g] : g \in S}
  BY <1>1 DEF GroupsIn
<1>4. IsFiniteSet(S)
  BY <1>2, <1>3, FS_Subset
<1>5. IsFiniteSet(E)
  <2>1. entry \in Surjection(S, E)
    BY <1>1, <1>3 DEF Surjection
  <2> QED
    BY <1>4, <2>1, FS_Surjection
<1>6. ASSUME NEW g \in S
      PROVE  /\ entry[g].currency = g.currency /\ entry[g].category = g.category
             /\ entry[g].amount = g.amount /\ entry[g].amount \in Nat
  BY <1>1, <1>2, <1>3 DEF EntryOf
<1>7. ASSUME NEW e \in E
      PROVE  e.amount = Total({h \in S : entry[h] = e})
  <2>1. PICK g \in S : e = entry[g]
    BY <1>3
  <2>2. ASSUME NEW h \in S, entry[h] = e
        PROVE  h = g
    <3>1. h.currency = g.currency /\ h.category = g.category
      BY <1>6, <2>1, <2>2
    <3>2. h \in CategoryGroups(l, scope) /\ g \in CategoryGroups(l, scope)
      BY <1>1, <1>3
    <3> QED
      BY <3>1, <3>2, GroupsKeyed
  <2>3. {h \in S : entry[h] = e} = {g}
    BY <2>1, <2>2
  <2>4. e.amount = g.amount /\ g.amount \in Int
    BY <1>6, <2>1
  <2> QED
    BY <2>3, <2>4, TotalOfOne
<1>8. Gathers(entry, E, S)
  BY <1>3, <1>7 DEF Gathers
<1>9. Total(E) = Total(S)
  <2>1. \A r \in S : r.amount \in Int
    BY <1>2, <1>3
  <2> QED
    BY <1>4, <1>5, <1>8, <2>1, TotalGathered
<1>10. E = {EntryOf(g, outflow) : g \in shown} /\ S = shown
  BY <1>1
<1>11. IsFiniteSet(E) /\ (\A e \in E : e.amount \in Int) /\ Total(E) = Total(shown)
  <2>1. \A e \in E : e.amount \in Int
    BY <1>3, <1>6
  <2>2. Total(E) = Total(shown)
    BY <1>1, <1>9
  <2> QED
    BY <1>5, <2>1, <2>2
<1> QED
  BY ONLY <1>10, <1>11

\* What the categories of a currency say.
CategoriesRight(l, scope, currency, entries) ==
    LET groups == CategoryGroups(l, scope)
        own == {g \in groups : g.currency = currency /\ g.category # None}
    IN /\ Total(ToSet(entries)) <= SpentOf(l, scope, currency)
       /\ Cardinality(groups) <= FetchLimit /\ Cardinality(own) <= TopN
             => Total(ToSet(entries)) = SpentOf(l, scope, currency)

LEMMA CategoriesShown ==
    ASSUME NEW l \in Ledgers, NEW scope, NEW currency
    PROVE  CategoriesRight(l, scope, currency, DashboardCategories(l, scope, currency))
<1> DEFINE fetched == ToSet(Largest(CategoryGroups(l, scope), FetchLimit))
           own == {g \in fetched : g.currency = currency}
           named == {g \in own : g.category # None}
           shown == ToSet(Largest(named, TopN)) \union {g \in own : g.category = None /\ g.amount # 0}
           E == {EntryOf(g, Outflow(l, scope, currency)) : g \in shown}
<1>1. DashboardCategories(l, scope, currency) = Largest(E, Cardinality(shown))
  BY DEF DashboardCategories, EntryOf
<1>2. TopN \in Nat /\ FetchLimit \in Nat
  BY ListsAssumption
<1>3. PICK groups, all : groups = CategoryGroups(l, scope) /\ all = GroupsIn(l, scope, currency)
  OBVIOUS
<1>4. /\ IsFiniteSet(groups) /\ \A g \in groups : g.amount \in Nat
      /\ Total(all) = SpentOf(l, scope, currency)
      /\ all = {g \in groups : g.currency = currency}
  BY <1>3, GroupsAddUp DEF GroupsIn
<1>5. fetched \in SUBSET groups /\ (Cardinality(groups) <= FetchLimit => fetched = groups)
  <2>1. \A g \in groups : g.amount \in Int
    BY <1>4
  <2> QED
    BY <1>2, <1>3, <1>4, <2>1, LargestOf
<1> HIDE DEF fetched
<1>6. /\ named \in SUBSET all /\ IsFiniteSet(named) /\ \A g \in named : g.amount \in Int
      /\ own \in SUBSET all
  <2>1. own \in SUBSET all /\ named \in SUBSET own
    BY <1>4, <1>5
  <2>2. named \in SUBSET groups
    BY <1>4, <2>1
  <2> QED
    BY <1>4, <2>1, <2>2, FS_Subset
<1>7. /\ ToSet(Largest(named, TopN)) \subseteq named
      /\ Cardinality(named) <= TopN => ToSet(Largest(named, TopN)) = named
  <2> HIDE DEF named
  <2> QED
    BY <1>2, <1>6, LargestOf
<1>8. shown \in SUBSET all
  BY <1>6, <1>7
<1>9. IsFiniteSet(all) /\ \A g \in all : g.amount \in Nat
  BY <1>4, FS_Subset
<1>10. ASSUME Cardinality(groups) <= FetchLimit,
              Cardinality({g \in groups : g.currency = currency /\ g.category # None}) <= TopN
       PROVE  \A g \in all \ shown : g.amount = 0
  <2>1. own = all
    BY <1>4, <1>5, <1>10
  <2>2. named = {g \in groups : g.currency = currency /\ g.category # None}
    BY <1>4, <2>1
  <2>3. ToSet(Largest(named, TopN)) = named
    BY <1>7, <1>10, <2>2
  <2> QED
    BY <2>1, <2>3
<1> HIDE DEF shown, E
<1>11. IsFiniteSet(E) /\ (\A e \in E : e.amount \in Int) /\ Total(E) = Total(shown)
  BY <1>3, <1>8, EntriesAddUp DEF E
<1>12. ToSet(Largest(E, Cardinality(shown))) = E
  <2>1. IsFiniteSet(shown)
    BY <1>8, <1>9, FS_Subset
  <2>2. PICK f : f = [g \in shown |-> EntryOf(g, Outflow(l, scope, currency))]
    OBVIOUS
  <2>3. f \in Surjection(shown, E)
    BY <2>2 DEF Surjection, E
  <2>4. Cardinality(E) <= Cardinality(shown) /\ Cardinality(shown) \in Nat
    BY <2>1, <2>3, FS_Surjection, FS_CardinalityType
  <2> QED
    BY <1>11, <2>4, LargestOf
<1>13. /\ Total(shown) <= Total(all)
       /\ (\A g \in all \ shown : g.amount = 0) => Total(shown) = Total(all)
  BY <1>8, <1>9, TotalOfPart
<1> QED
  BY <1>1, <1>3, <1>4, <1>10, <1>11, <1>12, <1>13 DEF CategoriesRight

------------------------------------------------------------------------------
(* What moved, by account and by currency.                                 *)

\* What some transactions move: what comes in less what goes out.
NetOf(T) == Flow(T, "credit") - Flow(T, "debit")

Signed(t) == IF t.direction = "credit" THEN t.amount
             ELSE IF t.direction = "debit" THEN -t.amount ELSE 0

\* g holds what the subsets of a set of transactions move.
Nets(g, S) ==
    /\ Additive(g, [t \in S |-> Signed(t)], S)
    /\ \A T \in SUBSET S : g[T] = NetOf(T)

LEMMA NetsExist ==
    ASSUME NEW S, IsFiniteSet(S), \A t \in S : t.amount \in Int
    PROVE  \E g : Nets(g, S)
<1>1. PICK f, v, w : /\ v = [t \in S |-> t.amount] /\ w = [t \in S |-> Signed(t)]
                     /\ Additive(f, v, S) /\ \A T \in SUBSET S : f[T] = Total(T)
  BY TotalsExist DEF Totalled
<1> DEFINE In(T) == {t \in T : t.direction = "credit"}
           Out(T) == {t \in T : t.direction = "debit"}
           g == [T \in SUBSET S |-> f[In(T)] - f[Out(T)]]
<1>2. \A T \in SUBSET S : In(T) \in SUBSET S /\ Out(T) \in SUBSET S
  OBVIOUS
<1>3. \A T \in SUBSET S : f[T] \in Int
  BY <1>1 DEF Additive
<1>4. ASSUME NEW T \in SUBSET S
      PROVE  g[T] = f[In(T)] - f[Out(T)] /\ g[T] \in Int /\ g[T] = NetOf(T)
  <2>1. g[T] = f[In(T)] - f[Out(T)] /\ g[T] \in Int
    BY <1>2, <1>3
  <2>2. NetOf(T) = Total(In(T)) - Total(Out(T))
    BY DEF NetOf, Flow, Total
  <2> QED
    BY <1>1, <1>2, <2>1, <2>2
<1>5. g \in [SUBSET S -> Int]
  BY <1>4
<1>6. g[{}] = 0
  <2>1. In({}) = {} /\ Out({}) = {} /\ f[{}] = 0
    BY <1>1 DEF Additive
  <2> QED
    BY <1>4, <2>1
<1>7. ASSUME NEW T \in SUBSET S, NEW x \in T
      PROVE  g[T] = w[x] + g[T \ {x}]
  <2>1. PICK U \in SUBSET S : U = T \ {x}
    OBVIOUS
  <2>2. w[x] = Signed(x) /\ v[x] = x.amount /\ x.amount \in Int
    BY <1>1
  <2>3. \A V \in SUBSET S : \A y \in V : f[V] = v[y] + f[V \ {y}]
    BY <1>1 DEF Additive
  <2>4. CASE x.direction = "credit"
    <3>1. In(U) = In(T) \ {x} /\ x \in In(T) /\ Out(U) = Out(T)
      BY <2>1, <2>4
    <3>2. f[In(T)] = x.amount + f[In(U)]
      <4>1. In(T) \in SUBSET S /\ In(T) \ {x} = In(U)
        BY <1>2, <3>1
      <4>2. f[In(T)] = v[x] + f[In(T) \ {x}]
        BY <2>3, <3>1, <4>1
      <4> QED
        BY <2>2, <4>1, <4>2
    <3>3. f[In(U)] \in Int /\ f[Out(T)] \in Int /\ f[Out(U)] = f[Out(T)]
      BY <1>2, <1>3, <3>1
    <3>4. g[T] = f[In(T)] - f[Out(T)] /\ g[U] = f[In(U)] - f[Out(U)] /\ w[x] = x.amount
      BY <1>4, <2>2, <2>4 DEF Signed
    <3> HIDE DEF g, In, Out
    <3>5. g[T] = w[x] + g[U]
      BY <2>2, <3>2, <3>3, <3>4
    <3> QED
      BY <2>1, <3>5
  <2>5. CASE x.direction = "debit"
    <3>1. Out(U) = Out(T) \ {x} /\ x \in Out(T) /\ In(U) = In(T)
      BY <2>1, <2>5
    <3>2. f[Out(T)] = x.amount + f[Out(U)]
      BY <1>2, <2>2, <2>3, <3>1
    <3>3. f[Out(U)] \in Int /\ f[In(T)] \in Int /\ f[In(U)] = f[In(T)]
      BY <1>2, <1>3, <3>1
    <3>4. g[T] = f[In(T)] - f[Out(T)] /\ g[U] = f[In(U)] - f[Out(U)] /\ w[x] = -x.amount
      BY <1>4, <2>2, <2>5 DEF Signed
    <3> HIDE DEF g, In, Out
    <3>5. g[T] = w[x] + g[U]
      BY <2>2, <3>2, <3>3, <3>4
    <3> QED
      BY <2>1, <3>5
  <2>6. CASE x.direction \notin {"credit", "debit"}
    <3>1. In(U) = In(T) /\ Out(U) = Out(T)
      BY <2>1, <2>6
    <3>2. g[T] = f[In(T)] - f[Out(T)] /\ g[U] = f[In(U)] - f[Out(U)] /\ w[x] = 0
      BY <1>4, <2>2, <2>6 DEF Signed
    <3>3. g[U] = g[T] /\ g[T] \in Int
      BY <1>4, <3>1, <3>2
    <3> HIDE DEF g, In, Out
    <3>4. g[T] = w[x] + g[U]
      BY <3>2, <3>3
    <3> QED
      BY <2>1, <3>4
  <2> QED
    BY <2>4, <2>5, <2>6
<1>8. \A x \in S : w[x] \in Int
  BY <1>1 DEF Signed
<1> HIDE DEF g
<1>9. Additive(g, w, S)
  BY <1>5, <1>6, <1>7, <1>8 DEF Additive
<1> QED
  BY <1>1, <1>4, <1>9 DEF Nets

\* What rows that say what moved add up to.
NetSum(C) == SumOver(C, LAMBDA c : c.net)

LEMMA NetSumOf ==
    ASSUME NEW S, IsFiniteSet(S), NEW v, \A r \in S : v[r] = r.net,
           NEW g, Additive(g, v, S)
    PROVE  NetSum(S) = g[S]
<1> DEFINE Step(f) ==
        [s \in SUBSET S |->
           IF s = {} THEN 0
           ELSE (CHOOSE x \in s : TRUE).net + f[s \ {CHOOSE x \in s : TRUE}]]
    Fold == CHOOSE f : f = Step(f)
<1>1. NetSum(S) = Fold[S]
  BY DEF NetSum, SumOver, MapThenSumSet, MapThenFoldSet
<1>2. \A s \in SUBSET S : s # {} => (CHOOSE x \in s : TRUE) \in S
  OBVIOUS
<1>3. g = Step(g)
  <2> DEFINE step == [s \in SUBSET S |->
                        IF s = {} THEN 0
                        ELSE v[CHOOSE x \in s : TRUE] + g[s \ {CHOOSE x \in s : TRUE}]]
  <2>1. g = step
    BY AdditiveChosen
  <2>2. step = Step(g)
    BY <1>2
  <2> QED
    BY <2>1, <2>2
<1>4. Fold = Step(Fold)
  <2> HIDE DEF Step
  <2> QED
    BY <1>3
<1> HIDE DEF Fold
<1>5. ASSUME NEW s \in SUBSET S, s # {}
      PROVE  \E c \in s : Fold[s] = v[c] + Fold[s \ {c}]
  <2>1. (CHOOSE x \in s : TRUE) \in s
    BY <1>5
  <2>2. Fold[s] = (CHOOSE x \in s : TRUE).net + Fold[s \ {CHOOSE x \in s : TRUE}]
    BY <1>4, <1>5
  <2> QED
    BY <2>1, <2>2
<1>6. Fold[{}] = 0
  BY <1>4
<1>7. PICK f : f = Fold
  OBVIOUS
<1>8. Folded(f, v, S)
  BY <1>5, <1>6, <1>7 DEF Folded
<1> QED
  BY <1>1, <1>7, <1>8, SumsUnique

\* C holds a row for each group of S, which says what the group moves.
Moves(group, C, S) ==
    /\ \A x \in S : group[x] \in C
    /\ \A c \in C : c.net = NetOf({x \in S : group[x] = c})

LEMMA NetGathered ==
    ASSUME NEW S, IsFiniteSet(S), \A t \in S : t.amount \in Int,
           NEW C, IsFiniteSet(C), NEW group, Moves(group, C, S)
    PROVE  NetSum(C) = NetOf(S)
<1>1. PICK g, v, w : /\ v = [t \in S |-> Signed(t)] /\ w = [c \in C |-> c.net]
                     /\ Additive(g, v, S) /\ \A T \in SUBSET S : g[T] = NetOf(T)
  BY NetsExist DEF Nets
<1>2. Grouped(S, group, C, g, w)
  BY <1>1 DEF Grouped, Moves
<1>3. PICK h : Additive(h, w, C) /\ h[C] = g[S]
  <2>1. Additive(g, v, S) /\ IsFiniteSet(S)
    BY <1>1
  <2>2. \E h : Additive(h, w, C) /\ h[C] = g[S]
    BY ONLY <1>2, <2>1, SumByGroup
  <2> QED
    BY <2>2
<1>4. NetSum(C) = h[C]
  BY <1>1, <1>3, NetSumOf
<1> QED
  BY <1>1, <1>3, <1>4

\* What a scope without an account counts.
Scoped(l, scope) == {t \in l : Within(t, scope)}

\* The accounts that are shown, and what each says.
Active == {a \in AccountTable : a.status = "active"}
Activities(l, scope) == {AccountActivity(l, scope, a) : a \in Active}

\* By account, what moved is what moved.
LEMMA ActivitiesNet ==
    ASSUME NEW l \in Ledgers, NEW scope, scope.account = None,
           \A t \in Scoped(l, scope) : \E a \in Active : a.id = t.account
    PROVE  NetSum(Activities(l, scope)) = NetOf(Scoped(l, scope))
<1>1. PICK S, C, activity, group :
         /\ S = Scoped(l, scope) /\ C = Activities(l, scope)
         /\ activity = [a \in Active |-> AccountActivity(l, scope, a)]
         /\ group = [t \in S |-> activity[CHOOSE a \in Active : a.id = t.account]]
  OBVIOUS
<1>2. C = {activity[a] : a \in Active}
  BY <1>1 DEF Activities
<1>3. IsFiniteSet(S) /\ \A t \in S : t.amount \in Int
  <2>1. S \in SUBSET l
    BY <1>1 DEF Scoped
  <2> QED
    BY <2>1, LedgerWhole DEF Whole
<1>4. IsFiniteSet(C)
  <2>1. IsFiniteSet(Active)
    BY AccountsAssumption, FS_Subset DEF Active
  <2>2. activity \in Surjection(Active, C)
    BY <1>1, <1>2 DEF Surjection
  <2> QED
    BY <2>1, <2>2, FS_Surjection
<1>5. \A a, b \in Active : a.id = b.id => a = b
  BY AccountsAssumption DEF Active, Keyed
<1>6. ASSUME NEW t \in S
      PROVE  \E a \in Active : a.id = t.account /\ group[t] = activity[a]
  <2>1. PICK a \in Active : a.id = t.account
    BY <1>1
  <2>2. a = CHOOSE b \in Active : b.id = t.account
    BY <1>5, <2>1
  <2> QED
    BY <1>1, <2>1, <2>2
<1>7. ASSUME NEW a \in Active
      PROVE  activity[a].account = a.id /\ activity[a].net = NetOf({t \in S : t.account = a.id})
  <2>1. PICK rows : rows = {t \in l : t.account = a.id /\ t.status = "confirmed"
                                       /\ scope.from <= t.date /\ t.date <= scope.to}
    OBVIOUS
  <2>2. activity[a].account = a.id /\ activity[a].net = NetOf(rows)
    BY <1>1, <2>1 DEF AccountActivity, NetOf
  <2>3. rows = {t \in S : t.account = a.id}
    BY <1>1, <2>1 DEF Scoped, Within
  <2> QED
    BY <2>2, <2>3
<1>8. ASSUME NEW c \in C
      PROVE  c.net = NetOf({t \in S : group[t] = c})
  <2>1. PICK a \in Active : c = activity[a]
    BY <1>2
  <2>2. ASSUME NEW t \in S
        PROVE  group[t] = c <=> t.account = a.id
    <3>1. PICK b \in Active : b.id = t.account /\ group[t] = activity[b]
      BY <1>6
    <3>2. activity[b].account = b.id /\ activity[a].account = a.id
      BY <1>7
    <3> QED
      BY <1>5, <2>1, <3>1, <3>2
  <2>3. {t \in S : group[t] = c} = {t \in S : t.account = a.id}
    BY <2>2
  <2> QED
    BY <1>7, <2>1, <2>3
<1>9. Moves(group, C, S)
  BY <1>2, <1>6, <1>8 DEF Moves
<1> QED
  BY <1>1, <1>3, <1>4, <1>9, NetGathered

\* What the rows of a currency moved.
FlowOf(rows, currency) ==
    LET of == {t \in rows : t.currency = currency}
    IN [currency |-> currency, inflow |-> Flow(of, "credit"), outflow |-> Flow(of, "debit"),
        net |-> Flow(of, "credit") - Flow(of, "debit"), count |-> Cardinality(of),
        unresolved |-> Cardinality({t \in of : t.direction = "unknown"})]

CountedIn(l, scope) == {t \in l : Within(t, scope) /\ Counted(t)}

LEMMA FlowsKnown ==
    ASSUME NEW l, NEW scope
    PROVE  CashFlow(l, scope)
             = {FlowOf(CountedIn(l, scope), t.currency) : t \in CountedIn(l, scope)}
<1> DEFINE rows == CountedIn(l, scope)
<1>1. CashFlow(l, scope) = {FlowOf(rows, c) : c \in {t.currency : t \in rows}}
  BY DEF CashFlow, FlowOf, CountedIn
<1> HIDE DEF rows
<1> QED
  BY <1>1 DEF rows

\* By currency, so is what moved and counts.
LEMMA FlowsNet ==
    ASSUME NEW l \in Ledgers, NEW scope
    PROVE  NetSum(CashFlow(l, scope)) = NetOf({t \in Scoped(l, scope) : Counted(t)})
<1>1. PICK S, C, group : /\ S = CountedIn(l, scope) /\ C = CashFlow(l, scope)
                         /\ group = [t \in S |-> FlowOf(S, t.currency)]
  OBVIOUS
<1>2. C = {FlowOf(S, t.currency) : t \in S}
  BY <1>1, FlowsKnown
<1>3. ASSUME NEW t \in S
      PROVE  /\ group[t].currency = t.currency
             /\ group[t].net = NetOf({u \in S : u.currency = t.currency})
  BY <1>1 DEF NetOf, FlowOf
<1>4. \A t, u \in S : t.currency = u.currency => group[t] = group[u]
  BY <1>1
<1>5. C = {group[t] : t \in S}
  BY <1>1, <1>2
<1>6. S = {t \in Scoped(l, scope) : Counted(t)}
  BY <1>1 DEF Scoped, CountedIn
<1>7. IsFiniteSet(S) /\ \A t \in S : t.amount \in Int
  <2>1. S \in SUBSET l
    BY <1>6 DEF Scoped
  <2> QED
    BY <2>1, LedgerWhole DEF Whole
<1>8. IsFiniteSet(C)
  <2>1. group \in Surjection(S, C)
    BY <1>1, <1>5 DEF Surjection
  <2> QED
    BY <1>7, <2>1, FS_Surjection
<1>9. ASSUME NEW c \in C
      PROVE  c.net = NetOf({t \in S : group[t] = c})
  <2>1. PICK t \in S : c = group[t]
    BY <1>5
  <2>2. \A u \in S : group[u] = c <=> u.currency = t.currency
    BY <1>3, <1>4, <2>1
  <2>3. {u \in S : group[u] = c} = {u \in S : u.currency = t.currency}
    BY <2>2
  <2> QED
    BY <1>3, <2>1, <2>3
<1>10. Moves(group, C, S)
  BY <1>5, <1>9 DEF Moves
<1>11. NetSum(C) = NetOf(S)
  BY <1>7, <1>8, <1>10, NetGathered
<1> QED
  BY <1>1, <1>6, <1>11

\* The two sides of a transfer move nothing.
LEMMA SidesCancel ==
    ASSUME NEW o, NEW i, o.amount \in Int, i.amount \in Int, Opposite(o, i)
    PROVE  NetOf({o, i}) = 0
<1>1. PICK S : S = {o, i}
  OBVIOUS
<1>2. IsFiniteSet(S) /\ \A t \in S : t.amount \in Int
  <2>1. IsFiniteSet({o} \union {i})
    BY FS_Singleton, FS_AddElement
  <2>2. S = {o} \union {i}
    BY <1>1
  <2> QED
    BY <1>1, <2>1, <2>2
<1>3. PICK g, v : /\ v = [t \in S |-> Signed(t)] /\ Additive(g, v, S)
                  /\ \A T \in SUBSET S : g[T] = NetOf(T)
  BY <1>2, NetsExist DEF Nets
<1>4. /\ v[o] = -o.amount /\ v[i] = o.amount /\ o # i
      /\ S \ {o} = {i} /\ {i} \ {i} = {} /\ S \in SUBSET S /\ {i} \in SUBSET S
  BY <1>1, <1>3 DEF Opposite, Signed
<1>5. g[S] = v[o] + g[{i}] /\ g[{i}] = v[i] + g[{}] /\ g[{}] = 0
  <2>1. /\ g[{}] = 0
        /\ \A T \in SUBSET S : \A x \in T : g[T] = v[x] + g[T \ {x}]
    BY <1>3 DEF Additive
  <2>2. o \in S /\ i \in {i}
    BY <1>1
  <2>3. g[S] = v[o] + g[S \ {o}] /\ g[{i}] = v[i] + g[{i} \ {i}]
    BY <1>4, <2>1, <2>2
  <2> QED
    BY <1>4, <2>1, <2>3
<1>6. g[S] = 0
  BY <1>4, <1>5
<1> QED
  BY <1>1, <1>3, <1>4, <1>6

\* The links that count.
Confirmed(l) == {k \in LinksOf(l) : k.status = "confirmed"}

\* Confirmed links and their sides.
LEMMA LinkSides ==
    ASSUME NEW l \in Ledgers
    PROVE  /\ IsFiniteSet(Confirmed(l))
           /\ \A k \in Confirmed(l) :
                 \E o, i \in l : o.id = k.outgoing /\ i.id = k.incoming /\ Opposite(o, i)
           /\ \A t \in l : t.transfer = "confirmed"
                 <=> \E k \in Confirmed(l) : t.id \in {k.outgoing, k.incoming}
           /\ \A t \in l : \A k, m \in Confirmed(l) :
                 t.id \in {k.outgoing, k.incoming} /\ t.id \in {m.outgoing, m.incoming} => k = m
<1>1. Confirmed(l) \in SUBSET Links
  BY DEF Confirmed, LinksOf
<1>2. ASSUME NEW k \in Confirmed(l)
      PROVE  \E o, i \in l : o.id = k.outgoing /\ i.id = k.incoming /\ Opposite(o, i)
  <2>1. PICK o \in l, i \in l : o.id = k.outgoing /\ i.id = k.incoming
    BY DEF Confirmed, LinksOf
  <2>2. Opposite(o, i)
    BY <2>1, LinksAssumption DEF Confirmed
  <2> QED
    BY <2>1, <2>2
<1>3. ASSUME NEW t \in l, NEW k \in Confirmed(l), NEW m \in Confirmed(l),
             t.id \in {k.outgoing, k.incoming}, t.id \in {m.outgoing, m.incoming}
      PROVE  k = m
  <2>1. k # m => {k.outgoing, k.incoming} \intersect {m.outgoing, m.incoming} = {}
    BY LinksAssumption DEF Confirmed
  <2> QED
    BY <1>3, <2>1
<1>4. \A t \in l : t.transfer = "confirmed"
         <=> \E k \in Confirmed(l) : t.id \in {k.outgoing, k.incoming}
  BY LinksAssumption DEF Confirmed
<1>5. IsFiniteSet(Confirmed(l))
  BY <1>1, LinksAssumption, FS_Subset
<1> QED
  BY <1>2, <1>3, <1>4, <1>5

\* All transfers together move nothing.
LEMMA TransfersNet ==
    ASSUME NEW l \in Ledgers
    PROVE  NetOf({t \in l : t.transfer = "confirmed"}) = 0
<1>1. PICK S, K, group, w :
         /\ S = {t \in l : t.transfer = "confirmed"} /\ K = Confirmed(l)
         /\ group = [t \in S |-> CHOOSE k \in K : t.id \in {k.outgoing, k.incoming}]
         /\ w = [k \in K |-> 0]
  OBVIOUS
<1>2. S \in SUBSET l /\ IsFiniteSet(S) /\ \A t \in S : t.amount \in Int
  <2>1. S \in SUBSET l
    BY <1>1
  <2> QED
    BY <2>1, LedgerWhole DEF Whole
<1>3. ASSUME NEW t \in S
      PROVE  group[t] \in K /\ t.id \in {group[t].outgoing, group[t].incoming}
  <2>1. \E k \in K : t.id \in {k.outgoing, k.incoming}
    BY <1>1, LinkSides
  <2> QED
    BY <1>1, <2>1
<1>4. PICK g, v : Additive(g, v, S) /\ \A T \in SUBSET S : g[T] = NetOf(T)
  BY <1>2, NetsExist DEF Nets
<1>5. ASSUME NEW k \in K
      PROVE  w[k] = g[{t \in S : group[t] = k}]
  <2>1. PICK o \in l, i \in l : o.id = k.outgoing /\ i.id = k.incoming /\ Opposite(o, i)
    BY <1>1, LinkSides
  <2>2. o \in S /\ i \in S
    BY <1>1, <2>1, LinkSides
  <2>3. ASSUME NEW t \in S
        PROVE  group[t] = k <=> t \in {o, i}
    <3>1. t.id \in {k.outgoing, k.incoming} => group[t] = k
      BY <1>1, <1>2, <1>3, LinkSides
    <3>2. t.id = o.id => t = o
      BY <1>2, LedgersAssumption DEF Keyed
    <3>3. t.id = i.id => t = i
      BY <1>2, LedgersAssumption DEF Keyed
    <3> QED
      BY <1>3, <2>1, <3>1, <3>2, <3>3
  <2>4. {t \in S : group[t] = k} = {o, i}
    BY <2>2, <2>3
  <2>5. NetOf({o, i}) = 0
    BY <1>2, <2>1, <2>2, SidesCancel
  <2>6. g[{o, i}] = 0
    BY <1>4, <2>2, <2>5
  <2> QED
    BY <1>1, <2>4, <2>6
<1>6. Grouped(S, group, K, g, w)
  BY <1>3, <1>5 DEF Grouped
<1>7. PICK h : Additive(h, w, K) /\ h[K] = g[S]
  BY <1>2, <1>4, <1>6, SumByGroup
<1>8. h[K] = 0
  <2>1. IsFiniteSet(K)
    BY <1>1, LinkSides
  <2>2. \A k \in K : w[k] = 0
    BY <1>1
  <2> QED
    BY <1>7, <2>1, <2>2, NothingAdds
<1> QED
  BY <1>1, <1>4, <1>7, <1>8

\* Over all accounts, what moved is the cash flow.
CancelRight(l, scope, activity, flows) ==
    LET shown == {e.account : e \in activity}
    IN scope.account = None
       /\ (\A t \in l : t.transfer = "confirmed" => Within(t, scope))
       /\ (\A t \in l : Within(t, scope) => t.account \in shown)
          => NetSum(activity) = NetSum(flows)

LEMMA FlowsCancel ==
    ASSUME NEW l \in Ledgers, NEW scope
    PROVE  CancelRight(l, scope, Activities(l, scope), CashFlow(l, scope))
<1> SUFFICES ASSUME scope.account = None,
                    \A t \in l : t.transfer = "confirmed" => Within(t, scope),
                    \A t \in l : Within(t, scope)
                       => t.account \in {e.account : e \in Activities(l, scope)}
             PROVE  NetSum(Activities(l, scope)) = NetSum(CashFlow(l, scope))
  BY DEF CancelRight
<1>1. \A t \in Scoped(l, scope) : \E a \in Active : a.id = t.account
  <2>1. ASSUME NEW e \in Activities(l, scope)
        PROVE  \E a \in Active : a.id = e.account
    <3>1. PICK a \in Active : e = AccountActivity(l, scope, a)
      BY DEF Activities
    <3>2. AccountActivity(l, scope, a).account = a.id
      BY DEF AccountActivity
    <3> QED
      BY <3>1, <3>2
  <2> QED
    BY <2>1 DEF Scoped
<1>2. PICK W, D, U : /\ W = Scoped(l, scope) /\ D = {t \in W : Counted(t)}
                     /\ U = {t \in l : t.transfer = "confirmed"}
  OBVIOUS
<1>3. W \in SUBSET l /\ D \in SUBSET l /\ U \in SUBSET l /\ D \cap U = {} /\ D \union U = W
  BY <1>2 DEF Scoped, Counted
<1>4. IsFiniteSet(l) /\ \A t \in l : t.amount \in Int
  <2>1. Whole(l)
    BY LedgerWhole
  <2> QED
    BY ONLY <2>1 DEF Whole
<1>5. PICK g, v : Additive(g, v, l) /\ \A T \in SUBSET l : g[T] = NetOf(T)
  <2>1. \E g : Nets(g, l)
    BY <1>4, NetsExist
  <2>2. PICK g : Nets(g, l)
    BY <2>1
  <2> QED
    BY <2>2 DEF Nets
<1>6. g[D \union U] = g[D] + g[U]
  <2>1. IsFiniteSet(l) /\ Additive(g, v, l)
    BY <1>4, <1>5
  <2> QED
    BY ONLY <1>3, <2>1, AdditiveUnion
<1>7. g[W] = g[D] + g[U] /\ g[U] = 0
  BY <1>2, <1>3, <1>5, <1>6, TransfersNet
<1>8. g[W] = g[D]
  <2>1. g[D] \in Int
    BY <1>3, <1>5 DEF Additive
  <2> QED
    BY ONLY <1>7, <2>1
<1>9. NetOf(W) = NetOf(D)
  BY <1>3, <1>5, <1>8
<1> QED
  BY <1>1, <1>2, <1>9, ActivitiesNet, FlowsNet

\* What goes out is what is spent.
LEMMA OutflowSpent ==
    ASSUME NEW l, NEW scope, NEW f \in CashFlow(l, scope)
    PROVE  f.outflow = SpentOf(l, scope, f.currency)
<1>1. PICK rows, c : rows = CountedIn(l, scope) /\ f = FlowOf(rows, c)
  BY FlowsKnown
<1>2. PICK of : of = {t \in rows : t.currency = c}
  OBVIOUS
<1>3. f.currency = c /\ f.outflow = Total({t \in of : t.direction = "debit"})
  BY <1>1, <1>2 DEF FlowOf, Flow, Total
<1>4. {t \in of : t.direction = "debit"} = {t \in Expenses(l, scope) : t.currency = c}
  BY <1>1, <1>2 DEF CountedIn, Expenses
<1> QED
  BY <1>3, <1>4 DEF SpentOf

------------------------------------------------------------------------------
(* The list of transfers.                                                  *)

\* The newest links come first.
NewerPairs(S) == {p \in S \X S : p[1].id > p[2].id}

LinkKeys(S) == IsFiniteSet(S) /\ Keyed(S) /\ \A k \in S : k.id \in Int

LEMMA NewestFirst ==
    ASSUME NEW S, LinkKeys(S)
    PROVE  Lists(Sorted(S, LAMBDA k, m : k.id > m.id), S, NewerPairs(S))
<1> DEFINE R == NewerPairs(S)
           f == Sorted(S, LAMBDA k, m : k.id > m.id)
<1>1. \A k, m \in S : <<k, m>> \in R <=> k.id > m.id
  BY DEF NewerPairs
<1>2. StrictOrder(S, R)
  <2> HIDE DEF R
  <2> QED
    BY <1>1 DEF StrictOrder, LinkKeys, Keyed
<1>3. ASSUME NEW k \in S
      PROVE  Cardinality({m \in S : m.id > k.id}) = Rank(S, R, k)
  <2>1. {m \in S : m.id > k.id} = Smaller(S, R, k)
    BY <1>1 DEF Smaller
  <2> QED
    BY <2>1 DEF Rank
<1>4. ASSUME NEW i \in 1..Cardinality(S), \E k \in S : Rank(S, R, k) = i - 1
      PROVE  f[i] \in S /\ Rank(S, R, f[i]) = i - 1
  <2>1. f[i] = CHOOSE k \in S : Cardinality({m \in S : m.id > k.id}) = i - 1
    BY DEF Sorted
  <2>2. \E k \in S : Cardinality({m \in S : m.id > k.id}) = i - 1
    BY <1>3, <1>4
  <2>3. f[i] \in S /\ Cardinality({m \in S : m.id > f[i].id}) = i - 1
    BY <2>1, <2>2
  <2> QED
    BY <1>3, <2>3
<1>5. IsFiniteSet(S)
  BY DEF LinkKeys
<1> HIDE DEF R, f
<1>6. Lists(f, S, R)
  BY <1>2, <1>4, <1>5, InOrder
<1> QED
  BY <1>6 DEF R, f

\* The links that a query selects.
LinksFound(l, query) ==
    LET Sides(k) == {t \in l : t.id \in {k.outgoing, k.incoming}}
    IN {k \in LinksOf(l) : /\ Matches(query.status, k.status)
                           /\ \E t \in Sides(k) : Matches(query.account, t.account)
                           /\ \E t \in Sides(k) : InRange(t.date, query.dateFrom, None)
                           /\ \E t \in Sides(k) : InRange(t.date, None, query.dateTo)
                           /\ \E t \in Sides(k) : Matches(query.currency, t.currency)}

\* A page that is not full has all of them.
LEMMA TransfersListed ==
    ASSUME NEW l, NEW query, NEW listed,
           listed = ListInternalTransfers(l, LinksOf(l), query, TransferLimit),
           Len(listed) < TransferLimit
    PROVE  ToSet(listed) = LinksFound(l, query)
<1>1. PICK S, f, R : /\ S = LinksFound(l, query) /\ R = NewerPairs(S)
                     /\ f = Sorted(S, LAMBDA k, m : k.id > m.id)
  OBVIOUS
<1>2. listed = SubSeq(f, 1, Min({TransferLimit, Len(f)}))
  BY <1>1 DEF ListInternalTransfers, LinksFound
<1>3. LinkKeys(S)
  <2>1. S \in SUBSET Links
    BY <1>1 DEF LinksFound, LinksOf
  <2>2. IsFiniteSet(S)
    BY <2>1, LinksAssumption, FS_Subset
  <2> QED
    BY <2>1, <2>2, LinksAssumption DEF LinkKeys, Keyed
<1>4. Lists(f, S, R)
  BY <1>1, <1>3, NewestFirst
<1>5. PICK n \in Nat : n = Cardinality(S) /\ Len(f) = n
  <2>1. Cardinality(S) \in Nat
    BY <1>3, FS_CardinalityType DEF LinkKeys
  <2>2. Len(f) = Cardinality(S)
    BY <1>1, <2>1 DEF Sorted
  <2> QED
    BY <2>1, <2>2
<1>6. /\ \A i \in 1..n : f[i] \in S
      /\ \A k \in S : \E i \in 1..n : f[i] = k
  BY <1>4, <1>5 DEF Lists
<1>7. PICK m \in Nat : /\ m = Min({TransferLimit, n}) /\ m <= n
                       /\ (m < TransferLimit => m = n)
  BY ListsAssumption, LesserOf
<1>8. /\ listed \in Seq(S) /\ Len(listed) = m
      /\ \A i \in 1..m : listed[i] = f[i]
  <2>1. \A i \in 1..m : f[i] \in S
    BY <1>6, <1>7
  <2>2. /\ SubSeq(f, 1, m) \in Seq(S)
        /\ Len(SubSeq(f, 1, m)) = (IF 1 <= m THEN m - 1 + 1 ELSE 0)
        /\ \A i \in 1..(m - 1 + 1) : SubSeq(f, 1, m)[i] = f[1 + i - 1]
    BY <2>1, SubSeqProperties
  <2>3. listed = SubSeq(f, 1, m)
    BY <1>2, <1>5, <1>7
  <2> QED
    BY <2>2, <2>3
<1>9. m = n /\ DOMAIN listed = 1..n
  <2>1. m = n
    BY <1>7, <1>8
  <2> QED
    BY <1>8, <2>1, LenProperties
<1>10. ToSet(listed) = S
  BY <1>6, <1>8, <1>9 DEF ToSet
<1> QED
  BY <1>1, <1>10

\* What a list of confirmed transfers says.
ListRight(l, query, listed) ==
    query.status = "confirmed" /\ Len(listed) < TransferLimit =>
       LET sides == UNION {{k.outgoing, k.incoming} : k \in ToSet(listed)}
       IN \A t \in l :
             /\ t.id \in sides => ~Counted(t)
             /\ t.transfer = "confirmed" /\ Matches(query.account, t.account)
                  /\ Matches(query.currency, t.currency)
                  /\ InRange(t.date, query.dateFrom, query.dateTo) => t.id \in sides

LEMMA TransfersRight ==
    ASSUME NEW l \in Ledgers, NEW query
    PROVE  ListRight(l, query, ListInternalTransfers(l, LinksOf(l), query, TransferLimit))
<1>1. PICK listed, found, sides :
         /\ listed = ListInternalTransfers(l, LinksOf(l), query, TransferLimit)
         /\ found = LinksFound(l, query)
         /\ sides = UNION {{k.outgoing, k.incoming} : k \in ToSet(listed)}
  OBVIOUS
<1>2. ASSUME query.status = "confirmed", Len(listed) < TransferLimit, NEW t \in l
      PROVE  /\ t.id \in sides => ~Counted(t)
             /\ t.transfer = "confirmed" /\ Matches(query.account, t.account)
                  /\ Matches(query.currency, t.currency)
                  /\ InRange(t.date, query.dateFrom, query.dateTo) => t.id \in sides
  <2>1. ToSet(listed) = found
    BY <1>1, <1>2, TransfersListed
  <2>2. \A k \in found : k \in Confirmed(l)
    BY <1>1, <1>2, FlagsAssumption DEF LinksFound, Matches, Confirmed
  <2>3. t.id \in sides <=> \E k \in found : t.id \in {k.outgoing, k.incoming}
    BY <1>1, <2>1
  <2>4. ASSUME t.id \in sides
        PROVE  ~Counted(t)
    <3>1. t.transfer = "confirmed"
      BY <2>2, <2>3, <2>4, LinkSides
    <3> QED
      BY <3>1 DEF Counted
  <2>5. ASSUME t.transfer = "confirmed", Matches(query.account, t.account),
               Matches(query.currency, t.currency),
               InRange(t.date, query.dateFrom, query.dateTo)
        PROVE  t.id \in sides
    <3>1. PICK k \in Confirmed(l) : t.id \in {k.outgoing, k.incoming}
      BY <2>5, LinkSides
    <3>2. InRange(t.date, query.dateFrom, None) /\ InRange(t.date, None, query.dateTo)
      BY <2>5 DEF InRange
    <3>3. Matches(query.status, k.status) /\ k \in LinksOf(l)
      BY <1>2 DEF Confirmed, Matches
    <3>4. k \in found
      BY <1>1, <2>5, <3>1, <3>2, <3>3 DEF LinksFound
    <3> QED
      BY <2>3, <3>1, <3>4
  <2> QED
    BY <2>4, <2>5
<1> QED
  BY <1>1, <1>2 DEF ListRight

------------------------------------------------------------------------------
(* The invariant of reports.                                               *)

\* What the dashboard says.
DashboardRight(l, scope, reply) ==
    /\ \A c \in CurrencyCodes : CategoriesRight(l, scope, c, reply.categories[c])
    /\ \A f \in reply.cashFlow : f.outflow = SpentOf(l, scope, f.currency)
    /\ CancelRight(l, scope, reply.accounts, reply.cashFlow)

\* What the spending of budgets and of the advisor says.
SpendingRight(l, scope, currency, reply) ==
    /\ reply.spending.total = SpentOf(l, scope, currency)
    /\ scope.account = None /\ None \in DOMAIN reply.spending.byCategory =>
          \E u \in reply.uncategorized :
             u.currency = currency /\ u.amount >= reply.spending.byCategory[None]

\* The answer is right for the report asked for.
ReportsInv ==
    /\ ledger \in Ledgers
    /\ asked.kind = "dashboard" => DashboardRight(ledger, asked.scope, answer)
    /\ asked.kind = "spending" => SpendingRight(ledger, asked.scope, asked.currency, answer)
    /\ asked.kind = "transfers" => ListRight(ledger, asked.query, answer)

LEMMA ReportAsked ==
    ASSUME ledger \in Ledgers, NEW question, NEW reply, Ask(question, reply),
           question.kind = "dashboard" => DashboardRight(ledger, question.scope, reply),
           question.kind = "spending"
             => SpendingRight(ledger, question.scope, question.currency, reply),
           question.kind = "transfers" => ListRight(ledger, question.query, reply)
    PROVE  ReportsInv'
<1>1. ledger' = ledger /\ asked' = question /\ answer' = reply
  BY DEF Ask
<1>2. question.kind = "dashboard" => DashboardRight(ledger', question.scope, reply)
  BY <1>1
<1>3. question.kind = "spending"
        => SpendingRight(ledger', question.scope, question.currency, reply)
  BY <1>1
<1>4. question.kind = "transfers" => ListRight(ledger', question.query, reply)
  BY <1>1
<1> QED
  BY <1>1, <1>2, <1>3, <1>4
     DEF ReportsInv, DashboardRight, SpendingRight, ListRight, CategoriesRight, CancelRight

\* A question about something else changes nothing of that.
LEMMA NoReportAsked ==
    ASSUME ledger \in Ledgers, NEW question, NEW reply, Ask(question, reply),
           question.kind \notin {"dashboard", "spending", "transfers"}
    PROVE  ReportsInv'
  BY ReportAsked

\* The dashboard.
LEMMA DashboardAsked ==
    ASSUME ledger \in Ledgers, NEW a, AskDashboard(a)
    PROVE  ReportsInv'
<1> DEFINE scope == Scope(a)
           question == [kind |-> "dashboard", scope |-> scope]
           reply == [cashFlow |-> CashFlow(ledger, scope),
                     categories |-> [c \in CurrencyCodes |-> DashboardCategories(ledger, scope, c)],
                     merchants |-> [c \in CurrencyCodes |-> DashboardMerchants(ledger, scope, c)],
                     accounts |-> {AccountActivity(ledger, scope, b) :
                                     b \in {b \in AccountTable : b.status = "active"}},
                     attention |-> Attention(ledger, {})]
<1>1. Ask(question, reply)
  BY DEF AskDashboard
<1>2. question.kind = "dashboard" /\ question.scope = scope
  OBVIOUS
<1>3. /\ reply.cashFlow = CashFlow(ledger, scope)
      /\ \A c \in CurrencyCodes : reply.categories[c] = DashboardCategories(ledger, scope, c)
      /\ reply.accounts = Activities(ledger, scope)
  BY DEF Activities, Active
<1> HIDE DEF question, reply, scope
<1>4. DashboardRight(ledger, scope, reply)
  <2>1. \A c \in CurrencyCodes : CategoriesRight(ledger, scope, c, reply.categories[c])
    BY <1>3, CategoriesShown
  <2>2. \A f \in reply.cashFlow : f.outflow = SpentOf(ledger, scope, f.currency)
    BY <1>3, OutflowSpent
  <2>3. CancelRight(ledger, scope, reply.accounts, reply.cashFlow)
    BY <1>3, FlowsCancel
  <2> QED
    BY <2>1, <2>2, <2>3 DEF DashboardRight
<1> QED
  BY <1>1, <1>2, <1>4, ReportAsked

\* Spending.
LEMMA SpendingAsked ==
    ASSUME ledger \in Ledgers, NEW c, NEW a, AskSpending(c, a)
    PROVE  ReportsInv'
<1> DEFINE scope == Scope(a)
           question == [kind |-> "spending", scope |-> scope, currency |-> c]
           reply == [spending |-> ExpenseSpending(ledger, c, scope),
                     uncategorized |-> UncategorizedAllocations(ledger)]
<1>1. Ask(question, reply)
  BY DEF AskSpending
<1>2. question.kind = "spending" /\ question.scope = scope /\ question.currency = c
  OBVIOUS
<1>3. /\ reply.spending = ExpenseSpending(ledger, c, scope)
      /\ reply.uncategorized = UncategorizedAllocations(ledger)
  OBVIOUS
<1> HIDE DEF question, reply, scope
<1>4. SpendingRight(ledger, scope, c, reply)
  <2>1. reply.spending.total = SpentOf(ledger, scope, c)
    BY <1>3, LedgerWhole, SpendingTotal
  <2>2. ASSUME None \in DOMAIN reply.spending.byCategory
        PROVE  \E u \in reply.uncategorized :
                  u.currency = c /\ u.amount >= reply.spending.byCategory[None]
    BY <1>3, <2>2, UncategorizedCovers
  <2> QED
    BY <2>1, <2>2 DEF SpendingRight
<1> QED
  BY <1>1, <1>2, <1>4, ReportAsked

\* Transfers.
LEMMA TransfersAsked ==
    ASSUME ledger \in Ledgers, NEW query, AskTransfers(query)
    PROVE  ReportsInv'
<1> DEFINE question == [kind |-> "transfers", query |-> query]
           reply == ListInternalTransfers(ledger, LinksOf(ledger), query, TransferLimit)
<1>1. Ask(question, reply)
  BY DEF AskTransfers
<1>2. question.kind = "transfers" /\ question.query = query
  OBVIOUS
<1>3. ListRight(ledger, query, reply)
  BY TransfersRight
<1> HIDE DEF question, reply
<1> QED
  BY <1>1, <1>2, <1>3, ReportAsked

\* Every question.
LEMMA ReportsStep ==
    ASSUME ReportsInv, ReportNext
    PROVE  ReportsInv'
<1>1. ledger \in Ledgers
  BY DEF ReportsInv
<1>2. ASSUME NEW v \in Amounts, WriteAmount(v) PROVE ReportsInv'
  BY <1>1, <1>2, NoReportAsked DEF WriteAmount
<1>3. ASSUME NEW p \in Calendar, AskPeriod(p) PROVE ReportsInv'
  BY <1>1, <1>3, NoReportAsked DEF AskPeriod
<1>4. ASSUME NEW f \in Phrases, AskPhrase(f) PROVE ReportsInv'
  BY <1>1, <1>4, NoReportAsked DEF AskPhrase
<1>5. ASSUME NEW v \in Amounts, NEW w \in Amounts, AskChange(v, w) PROVE ReportsInv'
  BY <1>1, <1>5, NoReportAsked DEF AskChange
<1>6. ASSUME NEW a \in AccountScopes, AskDashboard(a) PROVE ReportsInv'
  BY <1>1, <1>6, DashboardAsked
<1>7. ASSUME NEW c \in CurrencyCodes, NEW a \in AccountScopes, AskSpending(c, a) PROVE ReportsInv'
  BY <1>1, <1>7, SpendingAsked
<1>8. ASSUME NEW b \in Budgets, AskBudget(b) PROVE ReportsInv'
  BY <1>1, <1>8, NoReportAsked DEF AskBudget
<1>9. ASSUME NEW b \in Budgets, AskPreview(b) PROVE ReportsInv'
  BY <1>1, <1>9, NoReportAsked DEF AskPreview
<1>10. ASSUME NEW q \in TransferQueries, AskTransfers(q) PROVE ReportsInv'
  BY <1>1, <1>10, TransfersAsked
<1>11. ASSUME NEW r \in Requests, AskExport(r) PROVE ReportsInv'
  BY <1>1, <1>11, NoReportAsked DEF AskExport
<1>12. ASSUME NEW r \in Requests, AskArchive(r) PROVE ReportsInv'
  BY <1>1, <1>12, NoReportAsked DEF AskArchive
<1>13. ASSUME AskOverview PROVE ReportsInv'
  BY <1>1, <1>13, NoReportAsked DEF AskOverview
<1> QED
  BY <1>2, <1>3, <1>4, <1>5, <1>6, <1>7, <1>8, <1>9, <1>10, <1>11, <1>12, <1>13 DEF ReportNext

\* So it stays.
LEMMA ReportsInvariant == ReportSpec => []ReportsInv
<1>1. ReportInit => ReportsInv
  BY DEF ReportInit, ReportsInv
<1>2. ReportsInv /\ [ReportNext]_reportVars => ReportsInv'
  <2>1. CASE ReportNext
    BY <2>1, ReportsStep
  <2>2. CASE UNCHANGED reportVars
    BY <2>2 DEF ReportsInv, reportVars, DashboardRight, SpendingRight, ListRight, CategoriesRight,
                CancelRight
  <2> QED
    BY <2>1, <2>2
<1> QED
  BY <1>1, <1>2, PTL DEF ReportSpec

\* For every ledger, the total of spending, the outflow of the cash flow and, where none
\* falls off the list, the categories of the dashboard are the same sum: the debits of the
\* scope, each once and whole, with its splits in its place; what is spent without a
\* category is among the uncategorized allocations; over all accounts both sides of every
\* transfer cancel out; and a list of confirmed transfers that fits its page shows what
\* the sums leave out (getExpenseSpending, getDashboardSummary,
\* getUncategorizedExpenseAllocations, listInternalTransfers).
THEOREM ReportsAlwaysAgree == ReportSpec => []ReportsAgree
<1>1. ReportsInv => ReportsAgree
  <2>1. \A scope, c : SpentOf(ledger, scope, c) = Spent(scope, c)
    BY DEF SpentOf, Spent
  <2>2. \A scope, c, entries :
           CategoriesRight(ledger, scope, c, entries) => CategoriesAddUp(scope, c, entries)
    BY <2>1 DEF CategoriesRight, CategoriesAddUp
  <2>3. \A scope, activity, flows :
           CancelRight(ledger, scope, activity, flows) => TransfersCancel(scope, activity, flows)
    BY DEF CancelRight, TransfersCancel, NetSum
  <2>4. \A query, listed :
           ListRight(ledger, query, listed) /\ query.status = "confirmed"
             /\ Len(listed) < TransferLimit => TransfersShown(query, listed)
    BY DEF ListRight, TransfersShown
  <2> QED
    BY <2>1, <2>2, <2>3, <2>4 DEF ReportsInv, ReportsAgree, DashboardRight, SpendingRight
<1> QED
  BY <1>1, ReportsInvariant, PTL
=============================================================================
