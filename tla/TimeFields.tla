----------------------------- MODULE TimeFields -----------------------------
(***************************************************************************)
(* The Time library: seconds since 1970 and the fields of a date.  A time  *)
(* of 32 bits is a number of days and a number of seconds, since it does   *)
(* not fit the integers of TLC.                                            *)
(***************************************************************************)
EXTENDS Integers, FiniteSets

monthDays == <<31, 28, 31, 30, 31, 30, 31, 31, 30, 31, 30, 31>>

\* For an offset from 1970.
LEAP_YEAR(y) ==
    LET year == 1970 + y IN
    year > 0 /\ year % 4 = 0 /\ (year % 100 # 0 \/ year % 400 = 0)

DaysOfYear(y) == IF LEAP_YEAR(y) THEN 366 ELSE 365
monthLength(y, m) == IF m = 2 /\ LEAP_YEAR(y) THEN 29 ELSE monthDays[m]

\* The loops over years and months end at the first the days do not fill.
breakTime(t) ==
    LET yearOf[y \in Nat, days \in Nat] ==
            IF days >= DaysOfYear(y) THEN yearOf[y + 1, days - DaysOfYear(y)]
            ELSE [year |-> y, day |-> days]
        year == yearOf[0, t.days]
        monthOf[m \in Nat, days \in Nat] ==
            IF m <= 12 /\ days >= monthLength(year.year, m)
            THEN monthOf[m + 1, days - monthLength(year.year, m)]
            ELSE [month |-> m, day |-> days]
        month == monthOf[1, year.day]
    IN  [Second |-> t.secs % 60, Minute |-> (t.secs \div 60) % 60, Hour |-> t.secs \div 3600,
         Wday |-> ((t.days + 4) % 7) + 1, Year |-> year.year, Month |-> month.month,
         Day |-> month.day + 1]

makeTime(tm) ==
    LET leaps  == Cardinality({i \in 0 .. tm.Year - 1 : LEAP_YEAR(i)})
        months[m \in 0 .. 11] == IF m = 0 THEN 0 ELSE months[m - 1] + monthLength(tm.Year, m)
    IN  [days |-> tm.Year * 365 + leaps + months[tm.Month - 1] + tm.Day - 1,
         secs |-> tm.Hour * 3600 + tm.Minute * 60 + tm.Second]

\* hourFormat12() and isPM().
hourFormat12(tm) == IF tm.Hour = 0 THEN 12 ELSE IF tm.Hour > 12 THEN tm.Hour - 12 ELSE tm.Hour
isPM(tm) == tm.Hour >= 12

\* By reference: the Gregorian calendar, by counting Thursdays from 1970-01-01.
GregorianDays(y, m, d) ==
    LET a == IF m <= 2 THEN y - 1 ELSE y
        era == a \div 400
        yoe == a % 400
        doy == (153 * (IF m > 2 THEN m - 3 ELSE m + 9) + 2) \div 5 + d - 1
    IN  era * 146097 + yoe * 365 + yoe \div 4 - yoe \div 100 + doy - 719468

\* The fields of a time are its date in the calendar, they make up the same
\* time again, and the clock of twelve hours tells the same hour.
TimeReadBack(t) ==
    LET tm == breakTime(t) IN
    /\ makeTime(tm) = t
    /\ GregorianDays(1970 + tm.Year, tm.Month, tm.Day) = t.days
    /\ tm.Day \in 1 .. monthLength(tm.Year, tm.Month)
    /\ (hourFormat12(tm) % 12) + (IF isPM(tm) THEN 12 ELSE 0) = tm.Hour
=============================================================================
