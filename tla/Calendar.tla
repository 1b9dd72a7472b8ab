------------------------------ MODULE Calendar ------------------------------
(***************************************************************************)
(* Civil dates and the cadence grids the detector and the forecast use: a  *)
(* date is a record, an ISO string of the code.                            *)
(***************************************************************************)
EXTENDS Integers, Sequences

IsLeapYear(y) == y % 4 = 0 /\ (y % 100 # 0 \/ y % 400 = 0)

DaysInMonth(y, m) ==
  CASE m = 2 -> IF IsLeapYear(y) THEN 29 ELSE 28
    [] m \in {4, 6, 9, 11} -> 30
    [] OTHER -> 31

Date(y, m, d) == [year |-> y, month |-> m, day |-> d]
IsDate(date) == /\ date \in [year : 1 .. 9999, month : 1 .. 12, day : 1 .. 31]
                /\ date.day <= DaysInMonth(date.year, date.month)

(* ISO strings compare as the dates they name.                              *)
Before(a, b) ==
  \/ a.year < b.year
  \/ a.year = b.year /\ a.month < b.month
  \/ a.year = b.year /\ a.month = b.month /\ a.day < b.day

Earliest(dates) == CHOOSE d \in dates : \A e \in dates : ~ Before(e, d)

(* Days since 1970-01-01, counted in eras of 400 years that begin in March. *)
EpochDay(date) ==
  LET year == date.year - (IF date.month <= 2 THEN 1 ELSE 0)
      era == year \div 400
      yearOfEra == year - era * 400
      dayOfYear == (153 * (date.month + (IF date.month > 2 THEN -3 ELSE 9)) + 2) \div 5
                     + date.day - 1
  IN  era * 146097 + yearOfEra * 365 + yearOfEra \div 4 - yearOfEra \div 100
        + dayOfYear - 719468

CivilDate(epochDay) ==
  LET shifted == epochDay + 719468
      era == shifted \div 146097
      dayOfEra == shifted - era * 146097
      yearOfEra == (dayOfEra - dayOfEra \div 1460 + dayOfEra \div 36524
                      - dayOfEra \div 146096) \div 365
      dayOfYear == dayOfEra - (365 * yearOfEra + yearOfEra \div 4 - yearOfEra \div 100)
      monthPrime == (5 * dayOfYear + 2) \div 153
      month == monthPrime + (IF monthPrime < 10 THEN 3 ELSE -9)
  IN  Date(yearOfEra + era * 400 + (IF month <= 2 THEN 1 ELSE 0),
           month,
           dayOfYear - (153 * monthPrime + 2) \div 5 + 1)

(* Months are counted from year 0; an anchor day is clamped to its month.   *)
MonthIndex(date) == date.year * 12 + date.month - 1
InMonth(index, day) ==
  LET y == index \div 12
      m == (index % 12) + 1
      last == DaysInMonth(y, m)
  IN  Date(y, m, IF day <= last THEN day ELSE last)

(* An anchor is a grid of every so many days, of a day in every so many     *)
(* months, or of two days of each month.                                    *)
EpochGrid(interval, day) == [kind |-> "epoch_grid", interval |-> interval, day |-> day]
DayOfMonth(day, interval, phase) ==
  [kind |-> "day_of_month", days |-> {day}, interval |-> interval, phase |-> phase]
DayPair(d1, d2) == [kind |-> "day_pair", days |-> {d1, d2}, interval |-> 1, phase |-> 0]

CadenceDatesBetween(anchor, from, to) ==
  IF anchor.kind = "epoch_grid"
  THEN LET steps == - ((anchor.day - EpochDay(from)) \div anchor.interval)   \* the ceiling
           first == anchor.day + steps * anchor.interval
       IN  {CivilDate(first + k * anchor.interval) :
              k \in 0 .. (EpochDay(to) - first) \div anchor.interval}
  ELSE LET months == {i \in MonthIndex(from) .. MonthIndex(to) :
                        (i % anchor.interval) = anchor.phase}
       IN  {d \in {InMonth(i, day) : i \in months, day \in anchor.days} :
              ~ Before(d, from) /\ ~ Before(to, d)}
=============================================================================
