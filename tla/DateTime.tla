------------------------------ MODULE DateTime ------------------------------
(***************************************************************************)
(* The conversions of cymo_datetime.c, walked through the calendar day by  *)
(* day and through chosen days second by second.                           *)
(*                                                                         *)
(* A datetime_t counts microseconds since 0001-01-01; here it is a record  *)
(* of the day, the second of the day and the microsecond, which is what    *)
(* the divisions by TICKS_PER_DAY and TICKS_PER_SECOND make of it.  A text *)
(* is the record of the numbers its groups of digits stand for.            *)
(***************************************************************************)
EXTENDS Integers

CONSTANTS
  FirstYears,  \* the years a walk of 400 starts in
  LastDay,     \* the day of MAX_DATE_TIME
  ClockDays,   \* the days walked second by second
  Usecs,       \* microseconds of the second
  Offsets      \* time zones, minutes

\* The days of 400 years, and of MAX_DATE_TIME, 9999-12-31.
CycleDays == 146097
MaxDay == 3652058

\* A year after a multiple of 400 begins a cycle of the calendar.
ASSUME FirstYearsAssumption ==
  \A y \in FirstYears :
    y \in Nat /\ y % 400 = 1 /\ CycleDays * (y \div 400) <= LastDay
\* cymo_datetime.c:268 gives the range of time zones.
ASSUME LimitsAssumption ==
  LastDay \in Nat /\ LastDay <= MaxDay /\ Offsets \subseteq -1439 .. 1439
\* Zero is a number of microseconds like the others.
ASSUME UsecsAssumption == Usecs \subseteq 0 .. 999999 /\ 0 \in Usecs

VARIABLES
  day,   \* days since 0001-01-01
  date,  \* that day in the Gregorian calendar, and its number in the year
  sec    \* second of the day

vars == <<day, date, sec>>

-----------------------------------------------------------------------------
(***************************************************************************)
(* The proleptic Gregorian calendar, from its rules.                       *)
(***************************************************************************)
IsLeap(y) == y % 4 = 0 /\ (y % 100 # 0 \/ y % 400 = 0)

MonthLength(y, m) ==
  IF m = 2 THEN IF IsLeap(y) THEN 29 ELSE 28
  ELSE IF m \in {4, 6, 9, 11} THEN 30 ELSE 31

Date(y, m, d, yday) == [year |-> y, month |-> m, day |-> d, yday |-> yday]

Init ==
  /\ \E y \in FirstYears :
       /\ day = CycleDays * (y \div 400)
       /\ date = Date(y, 1, 1, 1)
  /\ sec = 0

NextDay ==
  /\ sec = 0 /\ day < LastDay /\ (day + 1) % CycleDays # 0
  /\ day' = day + 1
  /\ date' = IF date.day < MonthLength(date.year, date.month)
             THEN [date EXCEPT !.day = @ + 1, !.yday = @ + 1]
             ELSE IF date.month < 12
             THEN Date(date.year, date.month + 1, 1, date.yday + 1)
             ELSE Date(date.year + 1, 1, 1, 1)
  /\ UNCHANGED sec

Tick ==
  /\ day \in ClockDays /\ sec < 86399
  /\ sec' = sec + 1
  /\ UNCHANGED <<day, date>>

Next == NextDay \/ Tick

Spec == Init /\ [][Next]_vars

-----------------------------------------------------------------------------
(***************************************************************************)
(* Days and dates.                                                         *)
(***************************************************************************)
LeapDay(y) == IF IsLeap(y) THEN 1 ELSE 0

DayOffset == <<306, 337, 0, 31, 61, 92, 122, 153, 184, 214, 245, 275>>

\* Mutant: the quarter of a day is not taken off.
RdnToYmdNoQuarter(rdn) ==
  LET Z == rdn + 307
      A == (100 * Z) \div 3652425
      B == A - A \div 4
      y == (100 * B + 100 * Z) \div 36525
      d == B + Z - (1461 * y) \div 4
      m == (535 * d + 48950) \div 16384
  IN  IF m > 12 THEN Date(y + 1, m - 12, d - DayOffset[m - 12], d - 306)
      ELSE Date(y, m, d - DayOffset[m], d + 59 + LeapDay(y))

\* rdn_to_ymd: years counted from March, in hundredths of a day.
RdnToYmd(rdn) ==
  LET Z == rdn + 1 + 306
      H == 100 * Z - 25
      A == H \div 3652425
      B == A - A \div 4
      y == (100 * B + H) \div 36525
      d == B + Z - (1461 * y) \div 4
      m == (535 * d + 48950) \div 16384
  IN  IF m > 12 THEN Date(y + 1, m - 12, d - DayOffset[m - 12], d - 306)
      ELSE Date(y, m, d - DayOffset[m], d + 59 + LeapDay(y))

YdToRdn(y, d) ==
  LET p == y - 1 IN 365 * p + p \div 4 - p \div 100 + p \div 400 + d

DaysPreceding(m, leap) ==
  <<0, 31, 59, 90, 120, 151, 181, 212, 243, 273, 304, 334>>[m]
    + (IF m > 2 THEN leap ELSE 0)

\* Mutant: December is month 0 of the next year and stays in it.
YmdToRdnDecember(year, month, dom) ==
  LET y == year + (IF month > 12 THEN month \div 12 ELSE 0)
      m == IF month % 12 = 0 THEN 12 ELSE month % 12
  IN  YdToRdn(y, DaysPreceding(m, LeapDay(y)) + dom - 1)

\* ymd_to_rdn: a month outside 1 .. 12 is carried into the year, month 0 being
\* the December before.
YmdToRdn(year, month, dom) ==
  LET over  == month < 1 \/ month > 12
      carry == IF over THEN month \div 12 ELSE 0
      rest  == IF over THEN month % 12 ELSE month
      y     == year + carry - (IF rest < 1 THEN 1 ELSE 0)
      m     == IF rest < 1 THEN 12 ELSE rest
  IN  YdToRdn(y, DaysPreceding(m, LeapDay(y)) + dom - 1)

-----------------------------------------------------------------------------
(***************************************************************************)
(* Datetimes and texts.                                                    *)
(***************************************************************************)
Stamp(d, s, u) == [day |-> d, sec |-> s, usec |-> u]

Pow10 == <<1, 10, 100, 1000, 10000, 100000, 1000000, 10000000, 100000000,
           1000000000>>

\* datetime_decode of a day and a second of it.
Decode(d, s) ==
  LET ymd == RdnToYmd(d) IN
  [year |-> ymd.year, month |-> ymd.month, day |-> ymd.day,
   hour |-> s \div 3600, minute |-> (s \div 60) % 60, second |-> s % 60]

\* datetime_from_hmsu, without the microseconds.
FromHms(h, m, s) == h * 3600 + m * 60 + s

\* Mutant: both digits are taken modulo 10.
TwoDigitsDecimal(v, base) == v % 100

\* What two characters say when the low one is v modulo 10 and the high one
\* what is left modulo "base".
TwoDigits(v, base) == 10 * ((v \div 10) % base) + (v % 10)

Precision(usec) ==
  IF usec = 0 THEN 0
  ELSE IF usec % 1000000 = 0 THEN 3
  ELSE IF usec % 1000 = 0 THEN 6 ELSE 9

\* datetime_format into a buffer that is long enough: the fields are those of
\* t whatever the offset, which is only written behind them.  The buffer is not
\* modelled, nor the length that is answered, which the five characters of an
\* offset are not counted in.
Format(t, offset) ==
  LET ymd  == RdnToYmd(t.day)
      away == IF offset < 0 THEN -offset ELSE offset
      n    == Precision(t.usec)
  IN  [year |-> ymd.year % 10000, month |-> ymd.month, day |-> ymd.day,
       second |-> TwoDigits(t.sec, 6),
       minute |-> TwoDigits(t.sec \div 60, 6),
       hour |-> TwoDigits(t.sec \div 3600, 10),
       digits |-> n,
       fraction |-> IF n = 0 THEN 0 ELSE t.usec \div Pow10[10 - n],
       minus |-> offset < 0,
       zone |-> 60 * TwoDigits(away \div 60, 10) + TwoDigits(away, 6)]

\* Days and seconds, "less" seconds earlier, which is less than a day.
Earlier(t, less) ==
  LET s == t.sec - less IN
  IF s < 0 THEN Stamp(t.day - 1, s + 86400, t.usec)
  ELSE IF s >= 86400 THEN Stamp(t.day + 1, s - 86400, t.usec)
  ELSE Stamp(t.day, s, t.usec)

Accepts(x) ==
  /\ x.year >= 1 /\ x.month \in 1 .. 12
  /\ x.day >= 1 /\ x.day <= MonthLength(x.year, x.month)
  /\ x.hour <= 23 /\ x.minute <= 59 /\ x.second <= 59
  /\ x.digits \in 0 .. 9 /\ x.zone \div 60 <= 23

\* datetime_from_iso8601 of a text it accepts.
Parse(x) ==
  LET usec == (x.fraction * Pow10[10 - x.digits]) \div 1000
      away == 60 * x.zone
  IN  Earlier(Stamp(YmdToRdn(x.year, x.month, x.day),
                    FromHms(x.hour, x.minute, x.second), usec),
              IF x.minus THEN -away ELSE away)
-----------------------------------------------------------------------------
\* rdn_to_ymd agrees with the calendar on every day it is walked through: year,
\* month, day of the month and day of the year.
CalendarAgrees == RdnToYmd(day) = date

\* What datetime_decode takes apart, datetime_from_ymd and datetime_from_hmsu
\* put together again, also when the date is given as a month of an earlier
\* year (13 and more) or as month 0 of the next.
FieldsReadBack ==
  LET f == Decode(day, sec) IN
  /\ f.hour <= 23 /\ FromHms(f.hour, f.minute, f.second) = sec
  /\ \A k \in 0 .. 2 : f.year > k =>
       YmdToRdn(f.year - k, f.month + 12 * k, f.day) = day
  /\ f.month = 12 => YmdToRdn(f.year + 1, 0, f.day) = day

\* test_datetime.c:53, assert(dt == dt2), for whole seconds: the text written
\* for a datetime is accepted and read back as that datetime.  With an offset it
\* is read back as the time that many minutes earlier, across midnight as well;
\* on day 0 that is before the first datetime when the offset is positive, and
\* nothing is said.  Microseconds change nothing of the date and the time of
\* day; they are not themselves read back, being written as nanoseconds.
TextReadsBack ==
  \A o \in Offsets, u \in Usecs : (day = 0 => o <= 0) =>
    LET text  == Format(Stamp(day, sec, u), o)
        back  == Parse(text)
        whole == Earlier(Stamp(day, sec, 0), 60 * o)
    IN  /\ Accepts(text)
        /\ back.day = whole.day /\ back.sec = whole.sec
        /\ u = 0 => back = whole
=============================================================================
