--------------------------- MODULE DateTimeProofs ---------------------------
(***************************************************************************)
(* What DateTime.tla promises of the conversions, for every day of the     *)
(* calendar up to LastDay and every second: any cycle of 400 years it is   *)
(* walked through, not only those TLC walks.                               *)
(*                                                                         *)
(* A year is split by the rules of the calendar into cycles of 400, whole  *)
(* centuries, groups of four and what is left; the divisions of rdn_to_ymd *)
(* are then linear, and each one finds its part.                           *)
(***************************************************************************)
EXTENDS DateTime, TLAPS

\* The day counts on with the date, and the day of the year with the month.
Counted ==
  /\ date.yday = DaysPreceding(date.month, LeapDay(date.year)) + date.day
  /\ day = YdToRdn(date.year, date.yday) - 1

InDay(s) == s \in Nat /\ s < 86400

DInv ==
  /\ date \in [year : Nat \ {0}, month : 1 .. 12, day : 1 .. 31, yday : 1 .. 366]
  /\ date.day <= MonthLength(date.year, date.month)
  /\ InDay(sec)
  /\ day \in Nat /\ day <= LastDay
  /\ Counted

-----------------------------------------------------------------------------
(***************************************************************************)
(* Years.                                                                  *)
(***************************************************************************)
\* The parts of a year that the calendar's rules speak of.
LEMMA YearSplit ==
  ASSUME NEW y \in Nat
  PROVE  \E a \in Nat, b \in 0 .. 3, c \in 0 .. 24, e \in 0 .. 3 :
           /\ y = 400 * a + 100 * b + 4 * c + e
           /\ y \div 4 = 100 * a + 25 * b + c
           /\ y \div 100 = 4 * a + b /\ y \div 400 = a
           /\ IsLeap(y) <=> e = 0 /\ (c # 0 \/ b = 0)
           /\ IsLeap(y + 1) <=> e = 3 /\ (c # 24 \/ b = 3)
<1> DEFINE a == y \div 400
           b == (y % 400) \div 100
           c == (y % 100) \div 4
           e == y % 4
<1>1. a \in Nat /\ b \in 0 .. 3 /\ c \in 0 .. 24 /\ e \in 0 .. 3
  OBVIOUS
<1>2. y = 400 * a + 100 * b + 4 * c + e
  OBVIOUS
<1>3. /\ y \div 4 = 100 * a + 25 * b + c
      /\ y \div 100 = 4 * a + b /\ y \div 400 = a
  OBVIOUS
<1>4. IsLeap(y) <=> e = 0 /\ (c # 0 \/ b = 0)
  BY DEF IsLeap
<1>5. IsLeap(y + 1) <=> e = 3 /\ (c # 24 \/ b = 3)
  BY DEF IsLeap
<1> QED BY <1>1, <1>2, <1>3, <1>4, <1>5

\* A leap year has one day more.
LEMMA YearLength ==
  ASSUME NEW y \in Nat \ {0}
  PROVE  YdToRdn(y + 1, 1) = YdToRdn(y, 365 + LeapDay(y)) + 1
  BY DEF YdToRdn, LeapDay, IsLeap

MonthsFit(y, m) ==
  /\ DaysPreceding(m, LeapDay(y)) \in 0 .. 335
  /\ MonthLength(y, m) \in 28 .. 31
  /\ DaysPreceding(1, LeapDay(y)) = 0
  /\ m < 12 => DaysPreceding(m + 1, LeapDay(y)) =
                 DaysPreceding(m, LeapDay(y)) + MonthLength(y, m)
  /\ m = 12 => DaysPreceding(m, LeapDay(y)) + MonthLength(y, m) =
                 365 + LeapDay(y)

\* The lengths of the months add up to the days that precede the next one.
LEMMA MonthsAddUp ==
  ASSUME NEW y \in Nat, NEW m \in 1 .. 12
  PROVE  MonthsFit(y, m)
  BY DEF MonthsFit, DaysPreceding, MonthLength, LeapDay

-----------------------------------------------------------------------------
(***************************************************************************)
(* The walk counts days as yd_to_rdn does.                                 *)
(***************************************************************************)
\* The first day of a cycle is counted right.
LEMMA InitCounts == Init => DInv
<1> SUFFICES ASSUME Init
             PROVE  DInv
  OBVIOUS
<1> PICK y \in FirstYears :
      day = CycleDays * (y \div 400) /\ date = Date(y, 1, 1, 1) /\ sec = 0
  BY DEF Init
<1>1. y \in Nat /\ y % 400 = 1 /\ CycleDays * (y \div 400) <= LastDay
  BY FirstYearsAssumption
<1>2. day = YdToRdn(y, 1) - 1
  BY <1>1 DEF YdToRdn, CycleDays
<1>3. DaysPreceding(1, LeapDay(y)) = 0 /\ MonthLength(y, 1) \in 28 .. 31
  BY <1>1, MonthsAddUp DEF MonthsFit
<1>4. day \in Nat /\ LastDay \in Nat
  BY <1>1, LimitsAssumption DEF CycleDays
<1> QED BY <1>1, <1>2, <1>3, <1>4 DEF DInv, Counted, Date, InDay

\* The next day is one more, across the end of a month and of a year.
LEMMA DayCounts == DInv /\ NextDay => DInv'
<1> SUFFICES ASSUME DInv, NextDay
             PROVE  DInv'
  OBVIOUS
<1> PICK y, m, d, n : y = date.year /\ m = date.month /\ d = date.day /\ n = date.yday
  OBVIOUS
<1> PICK p, l : p = DaysPreceding(m, LeapDay(y)) /\ l = MonthLength(y, m)
  OBVIOUS
<1>1. /\ y \in Nat /\ y # 0 /\ m \in 1 .. 12 /\ d \in 1 .. 31 /\ n \in 1 .. 366
      /\ d <= l /\ n = p + d /\ day = YdToRdn(y, n) - 1
      /\ date = [year |-> y, month |-> m, day |-> d, yday |-> n]
  BY DEF DInv, Counted
<1>2. /\ day \in Nat /\ day' = day + 1 /\ day' \in Nat /\ day' <= LastDay
      /\ InDay(sec')
  BY LimitsAssumption DEF DInv, NextDay
<1>3. /\ p \in 0 .. 335 /\ l \in 28 .. 31 /\ (m = 12 => p + l = 365 + LeapDay(y))
      /\ m < 12 => DaysPreceding(m + 1, LeapDay(y)) = p + l
  <2>1. y \in Nat /\ m \in 1 .. 12
    BY <1>1
  <2>2. MonthsFit(y, m)
    BY <2>1, MonthsAddUp, Zenon
  <2> QED BY <2>2 DEF MonthsFit
<1>4. YdToRdn(y, n + 1) = YdToRdn(y, n) + 1 /\ YdToRdn(y, n) \in Int
  BY <1>1 DEF YdToRdn
<1>5. CASE d < l
  <2>1. date' = Date(y, m, d + 1, n + 1)
    <3>1. date' = [date EXCEPT !.day = d + 1, !.yday = n + 1]
      BY <1>5 DEF NextDay
    <3> QED BY <1>1, <3>1 DEF Date
  <2>2. n + 1 \in 1 .. 366 /\ d + 1 \in 1 .. 31 /\ d + 1 <= l /\ n + 1 = p + (d + 1)
    <3>1. p + l <= 366
      <4>1. CASE m = 12
        BY <1>3, <4>1 DEF LeapDay
      <4>2. CASE m < 12
        <5>1. DaysPreceding(m + 1, LeapDay(y)) \in 0 .. 335
          <6>1. m + 1 \in 1 .. 12
            BY <1>1, <4>2
          <6> QED BY <1>1, <6>1, MonthsAddUp DEF MonthsFit
        <5> QED BY <1>3, <4>2, <5>1
      <4> QED BY <1>1, <4>1, <4>2
    <3> QED BY <1>1, <1>3, <1>5, <3>1
  <2> QED BY <1>1, <1>2, <1>4, <2>1, <2>2 DEF DInv, Counted, Date
<1>6. CASE d = l /\ m < 12
  <2>1. date' = Date(y, m + 1, 1, n + 1)
    BY <1>1, <1>6 DEF NextDay, Date
  <2>2. /\ n + 1 = DaysPreceding(m + 1, LeapDay(y)) + 1 /\ n + 1 \in 1 .. 366
        /\ m + 1 \in 1 .. 12 /\ 1 <= MonthLength(y, m + 1)
    <3>1. m + 1 \in 1 .. 12
      BY <1>1, <1>6
    <3>2. /\ MonthLength(y, m + 1) \in 28 .. 31
          /\ DaysPreceding(m + 1, LeapDay(y)) \in 0 .. 335
      BY <1>1, <3>1, MonthsAddUp DEF MonthsFit
    <3> QED BY <1>1, <1>3, <1>6, <3>1, <3>2
  <2> QED BY <1>1, <1>2, <1>4, <2>1, <2>2 DEF DInv, Counted, Date
<1>7. CASE d = l /\ m = 12
  <2>1. date' = Date(y + 1, 1, 1, 1)
    BY <1>1, <1>7 DEF NextDay, Date
  <2>2. day + 1 = YdToRdn(y + 1, 1) - 1
    <3>1. n = 365 + LeapDay(y)
      BY <1>1, <1>3, <1>7
    <3> QED BY <1>1, <1>4, <3>1, YearLength
  <2>3. /\ DaysPreceding(1, LeapDay(y + 1)) = 0 /\ y + 1 \in Nat \ {0}
        /\ MonthLength(y + 1, 1) \in 28 .. 31
    BY <1>1, MonthsAddUp DEF MonthsFit
  <2> QED BY <1>2, <2>1, <2>2, <2>3 DEF DInv, Counted, Date
<1> QED BY <1>1, <1>3, <1>5, <1>6, <1>7

\* A second does not move the date.
LEMMA TickCounts == DInv /\ Tick => DInv'
  BY DEF DInv, Counted, Tick, InDay

-----------------------------------------------------------------------------
(***************************************************************************)
(* rdn_to_ymd: the divisions, of the day Z that is the d-th of the year y  *)
(* that begins in March, find the century, the year and the month.         *)
(***************************************************************************)
MarchDay(y, d) == 365 * y + y \div 4 - y \div 100 + y \div 400 + d

\* The last day of such a year is a leap day or is not there.
LastIsLeap(y, d) == d = 366 => IsLeap(y + 1)

\* The divisions of rdn_to_ymd, by name; Z is its Z.
Hundredths(Z) == 100 * Z - 25
Centuries(Z) == Hundredths(Z) \div 3652425
Whole(Z) == Centuries(Z) - Centuries(Z) \div 4
YearOf(Z) == (100 * Whole(Z) + Hundredths(Z)) \div 36525
DayOf(Z) == Whole(Z) + Z - (1461 * YearOf(Z)) \div 4
MarchMonth(m) == IF m <= 2 THEN m + 12 ELSE m
MonthOf(d) == (535 * d + 48950) \div 16384

\* They find the year and the day in it.
LEMMA FindsTheYear ==
  ASSUME NEW y \in Nat, NEW d \in 1 .. 366, LastIsLeap(y, d)
  PROVE  YearOf(MarchDay(y, d)) = y /\ DayOf(MarchDay(y, d)) = d
<1> PICK a \in Nat, b \in 0 .. 3, c \in 0 .. 24, e \in 0 .. 3 :
      /\ y = 400 * a + 100 * b + 4 * c + e
      /\ y \div 4 = 100 * a + 25 * b + c
      /\ y \div 100 = 4 * a + b /\ y \div 400 = a
      /\ IsLeap(y) <=> e = 0 /\ (c # 0 \/ b = 0)
      /\ IsLeap(y + 1) <=> e = 3 /\ (c # 24 \/ b = 3)
  BY YearSplit, Zenon
<1> PICK Z : Z = MarchDay(y, d)
  OBVIOUS
<1>1. d = 366 => e = 3 /\ (c # 24 \/ b = 3)
  BY DEF LastIsLeap
<1>2. Z = 146097 * a + 36524 * b + 1461 * c + 365 * e + d /\ Z \in Int
  BY SMT DEF MarchDay
<1>3. Centuries(Z) = 4 * a + b
  BY <1>1, <1>2, SMT DEF Centuries, Hundredths
<1>4. Whole(Z) = 3 * a + b
  <2>1. PICK q : q = 4 * a + b
    OBVIOUS
  <2>2. q \div 4 = a /\ q - a = 3 * a + b
    BY <2>1, SMT
  <2> QED BY <1>3, <2>1, <2>2, SMT DEF Whole
<1>5. YearOf(Z) = y
  <2>1. (100 * (3 * a + b) + Hundredths(Z)) \div 36525 = y
    BY <1>1, <1>2, SMT DEF Hundredths
  <2> QED BY <1>4, <2>1, SMT DEF YearOf
<1>6. (1461 * y) \div 4 = 365 * y + 100 * a + 25 * b + c
  BY SMT
<1>7. DayOf(Z) = d
  <2>1. 3 * a + b + Z - (365 * y + 100 * a + 25 * b + c) = d
    BY <1>2, SMT
  <2> QED BY <1>4, <1>5, <1>6, <2>1, SMT DEF DayOf
<1> QED BY <1>5, <1>7

\* A month has that many days, in a leap year.
HasDay(m, k) == (m = 2 => k <= 29) /\ (m \in {4, 6, 9, 11} => k <= 30)

\* The k-th of a month is the d-th of a year that begins in March.
InMarchYear(m, k, d) ==
  /\ d \in 1 .. 366
  /\ MonthOf(d) = MarchMonth(m)
  /\ d = 366 => m = 2 /\ k = 29

\* Months from March on, 13 and 14 are those of the next year.
LEMMA FindsTheMonth ==
  ASSUME NEW m \in 1 .. 12, NEW k \in 1 .. 31, HasDay(m, k)
  PROVE  InMarchYear(m, k, k + DayOffset[m])
  BY SMT DEF DayOffset, MonthOf, MarchMonth, HasDay, InMarchYear

\* The day of the year, counted from January and from March.
LEMMA DayOfYear ==
  ASSUME NEW y \in Nat, NEW m \in 1 .. 12
  PROVE  IF m <= 2 THEN DaysPreceding(m, LeapDay(y)) = DayOffset[m] - 306
         ELSE DaysPreceding(m, LeapDay(y)) = DayOffset[m] + 59 + LeapDay(y)
  BY DEF DaysPreceding, LeapDay, DayOffset

\* yd_to_rdn of a day counted from March, of that year or of the one before.
LEMMA FromMarch ==
  ASSUME NEW y \in Nat, NEW d \in 1 .. 366, y # 0
  PROVE  YdToRdn(y, d + 59 + LeapDay(y)) + 306 = MarchDay(y, d)
  BY DEF YdToRdn, MarchDay, LeapDay, IsLeap

\* The same, of January and February.
LEMMA FromLastMarch ==
  ASSUME NEW y \in Nat, NEW d \in 1 .. 366, y # 0
  PROVE  YdToRdn(y, d - 306) + 306 = MarchDay(y - 1, d)
  BY DEF YdToRdn, MarchDay

\* What rdn_to_ymd makes of the day a date names is that date.
LEMMA ReadsTheDate ==
  ASSUME DInv
  PROVE  RdnToYmd(day) = date
<1> PICK y, m, k, n : y = date.year /\ m = date.month /\ k = date.day /\ n = date.yday
  OBVIOUS
<1>1. /\ y \in Nat /\ y # 0 /\ m \in 1 .. 12 /\ k \in 1 .. 31 /\ n \in 1 .. 366
      /\ k <= MonthLength(y, m) /\ n = DaysPreceding(m, LeapDay(y)) + k
      /\ day = YdToRdn(y, n) - 1 /\ day \in Nat
      /\ date = [year |-> y, month |-> m, day |-> k, yday |-> n]
  BY DEF DInv, Counted
<1> PICK d : d = k + DayOffset[m]
  OBVIOUS
<1>2. HasDay(m, k)
  BY <1>1 DEF MonthLength, HasDay
<1>3. /\ d \in 1 .. 366
      /\ MonthOf(d) = MarchMonth(m)
      /\ d = 366 => m = 2 /\ k = 29
  <2>1. m \in 1 .. 12 /\ k \in 1 .. 31
    BY <1>1
  <2>2. InMarchYear(m, k, k + DayOffset[m])
    BY <1>2, <2>1, FindsTheMonth, Zenon
  <2>3. InMarchYear(m, k, d)
    BY <2>2
  <2> QED BY <2>3 DEF InMarchYear
<1>4. DayOffset[m] \in 0 .. 337 /\ (m <= 2 => DayOffset[m] >= 306) /\ d - DayOffset[m] = k
  BY <1>1 DEF DayOffset
<1>5. IF m <= 2 THEN n = d - 306 ELSE n = d + 59 + LeapDay(y)
  <2>1. LeapDay(y) \in {0, 1}
    BY DEF LeapDay
  <2>2. CASE m <= 2
    <3>1. DaysPreceding(m, LeapDay(y)) = DayOffset[m] - 306
      BY <1>1, <2>2, DayOfYear
    <3> QED BY <1>1, <1>4, <2>2, <3>1
  <2>3. CASE m > 2
    <3>1. DaysPreceding(m, LeapDay(y)) = DayOffset[m] + 59 + LeapDay(y)
      BY <1>1, <2>3, DayOfYear
    <3> QED BY <1>1, <1>4, <2>1, <2>3, <3>1
  <2> QED BY <1>1, <2>2, <2>3
<1> PICK M : M = IF m <= 2 THEN y - 1 ELSE y
  OBVIOUS
<1>6. /\ M \in Nat /\ LastIsLeap(M, d) /\ YdToRdn(y, n) + 306 = MarchDay(M, d)
  <2>1. CASE m <= 2
    <3>1. M = y - 1 /\ M \in Nat /\ M + 1 = y
      BY <1>1, <2>1
    <3>2. d > 306 /\ n = d - 306
      BY <1>1, <1>3, <1>4, <1>5, <2>1
    <3>3. YdToRdn(y, d - 306) + 306 = MarchDay(y - 1, d)
      <4>1. y \in Nat /\ y # 0 /\ d \in 1 .. 366
        BY <1>1, <1>3
      <4> QED BY <4>1, FromLastMarch, Zenon
    <3>4. LastIsLeap(M, d)
      BY <1>1, <1>3, <3>1 DEF LastIsLeap, MonthLength
    <3> QED BY <3>1, <3>2, <3>3, <3>4
  <2>2. CASE m > 2
    <3>1. M = y /\ d # 366 /\ n = d + 59 + LeapDay(y)
      BY <1>1, <1>3, <1>5, <2>2
    <3>2. YdToRdn(y, d + 59 + LeapDay(y)) + 306 = MarchDay(y, d)
      <4>1. y \in Nat /\ y # 0 /\ d \in 1 .. 366
        BY <1>1, <1>3
      <4> QED BY <4>1, FromMarch, Zenon
    <3> QED BY <1>1, <3>1, <3>2 DEF LastIsLeap
  <2> QED BY <1>1, <2>1, <2>2
<1> PICK Z : Z = day + 1 + 306
  OBVIOUS
<1>7. Z = MarchDay(M, d)
  BY <1>1, <1>6 DEF YdToRdn
<1>8. YearOf(Z) = M /\ DayOf(Z) = d
  <2>1. M \in Nat /\ d \in 1 .. 366 /\ LastIsLeap(M, d)
    BY <1>3, <1>6
  <2>2. YearOf(MarchDay(M, d)) = M /\ DayOf(MarchDay(M, d)) = d
    BY <2>1, FindsTheYear, Zenon
  <2> QED BY <1>7, <2>2, SMT
<1>9. RdnToYmd(day) =
        LET x == MonthOf(d) IN
        IF x > 12 THEN Date(M + 1, x - 12, d - DayOffset[x - 12], d - 306)
        ELSE Date(M, x, d - DayOffset[x], d + 59 + LeapDay(M))
  BY <1>8 DEF RdnToYmd, Hundredths, Centuries, Whole, YearOf, DayOf, MonthOf
<1>10. CASE m <= 2
  BY <1>1, <1>3, <1>4, <1>5, <1>9, <1>10, SMT DEF Date, MarchMonth
<1>11. CASE m > 2
  BY <1>1, <1>3, <1>4, <1>5, <1>9, <1>11, SMT DEF Date, MarchMonth
<1> QED BY <1>1, <1>10, <1>11

-----------------------------------------------------------------------------
(***************************************************************************)
(* The clock of a day, and the way back.                                   *)
(***************************************************************************)
\* What datetime_decode takes for the clock of s, and what it has to be.
ClockOf(s, h, m, x) == h = s \div 3600 /\ m = (s \div 60) % 60 /\ x = s % 60

TellsTime(s, h, m, x) ==
  h \in 0 .. 23 /\ m \in 0 .. 59 /\ x \in 0 .. 59 /\ FromHms(h, m, x) = s

\* Hours, minutes and seconds put together again.
LEMMA ClockReadsBack ==
  ASSUME NEW s, InDay(s), NEW h, NEW m, NEW x, ClockOf(s, h, m, x)
  PROVE  TellsTime(s, h, m, x)
<1> PICK r : r = s % 3600
  OBVIOUS
<1>1. s \in Nat /\ h \in 0 .. 23 /\ r \in 0 .. 3599 /\ s = 3600 * h + r
  BY SMT DEF InDay, ClockOf
<1>2. PICK q, z : q = r \div 60 /\ z = r % 60
  OBVIOUS
<1>3. q \in 0 .. 59 /\ z \in 0 .. 59 /\ r = 60 * q + z
  BY <1>1, <1>2, SMT
<1>4. s \div 60 = 60 * h + q /\ s % 60 = z
  BY <1>1, <1>3, SMT
<1>5. (60 * h + q) % 60 = q
  BY <1>1, <1>3, SMT
<1>6. m = q /\ x = z
  BY <1>4, <1>5, SMT DEF ClockOf
<1> QED BY <1>1, <1>3, <1>6, SMT DEF TellsTime, FromHms

\* A month of the year itself, and carried into it from k years before or
\* from the next one.
LEMMA CarriedMonth ==
  ASSUME NEW y \in Nat, NEW m \in 1 .. 12, NEW d \in 1 .. 31
  PROVE  /\ \A k \in 0 .. 2 : y > k =>
              YmdToRdn(y - k, m + 12 * k, d) =
                YdToRdn(y, DaysPreceding(m, LeapDay(y)) + d - 1)
         /\ m = 12 => YmdToRdn(y + 1, 0, d) =
                        YdToRdn(y, DaysPreceding(m, LeapDay(y)) + d - 1)
<1> DEFINE R == YdToRdn(y, DaysPreceding(m, LeapDay(y)) + d - 1)
<1>1. YmdToRdn(y, m, d) = R
  <2>1. y + 0 - 0 = y /\ ~(m < 1) /\ ~(m > 12)
    OBVIOUS
  <2> QED BY <2>1 DEF YmdToRdn
<1>2. ASSUME NEW k \in 1 .. 2
      PROVE  YmdToRdn(y - k, m + 12 * k, d) = R
  <2>1. m + 12 * k > 12
    OBVIOUS
  <2>2. CASE m = 12
    <3>1. /\ (m + 12 * k) \div 12 = k + 1 /\ (m + 12 * k) % 12 = 0
          /\ y - k + (k + 1) - 1 = y
      BY <2>2
    <3> QED BY <2>1, <2>2, <3>1 DEF YmdToRdn
  <2>3. CASE m < 12
    <3>1. /\ (m + 12 * k) \div 12 = k /\ (m + 12 * k) % 12 = m
          /\ y - k + k - 0 = y /\ ~(m < 1)
      BY <2>3
    <3> QED BY <2>1, <3>1 DEF YmdToRdn
  <2> QED BY <2>2, <2>3
<1>3. YmdToRdn(y + 1, 0, d) = YdToRdn(y, DaysPreceding(12, LeapDay(y)) + d - 1)
  <2>1. 0 \div 12 = 0 /\ 0 % 12 = 0 /\ y + 1 + 0 - 1 = y
    OBVIOUS
  <2> QED BY <2>1 DEF YmdToRdn
<1>4. ASSUME NEW k \in 0 .. 2
      PROVE  YmdToRdn(y - k, m + 12 * k, d) = R
  <2>1. CASE k = 0
    <3>1. y - k = y /\ m + 12 * k = m
      BY <2>1
    <3> QED BY <1>1, <3>1
  <2>2. CASE k # 0
    BY <1>2, <2>2
  <2> QED BY <2>1, <2>2
<1> QED BY <1>3, <1>4

\* The fields of the day and the second walked to.
LEMMA Fields ==
  ASSUME DInv
  PROVE  /\ date.year \in Nat /\ date.year # 0
         /\ date.month \in 1 .. 12 /\ date.day \in 1 .. 31
         /\ day = YdToRdn(date.year, DaysPreceding(date.month, LeapDay(date.year))
                                       + date.day - 1)
<1> PICK y, m, d, p : /\ y = date.year /\ m = date.month /\ d = date.day
                      /\ p = DaysPreceding(m, LeapDay(y))
  OBVIOUS
<1>1. /\ y \in Nat /\ y # 0 /\ m \in 1 .. 12 /\ d \in 1 .. 31
      /\ day = YdToRdn(y, p + d) - 1
  BY DEF DInv, Counted
<1>2. p \in 0 .. 335
  BY <1>1, MonthsAddUp DEF MonthsFit
<1>3. YdToRdn(y, p + d) - 1 = YdToRdn(y, p + d - 1)
  BY <1>1, <1>2, SMT DEF YdToRdn
<1> QED BY <1>1, <1>3

\* What FieldsReadBack says follows of any date counted so far.
LEMMA FieldsOfEveryDay ==
  ASSUME DInv
  PROVE  FieldsReadBack
<1> PICK y, m, d : y = date.year /\ m = date.month /\ d = date.day
  OBVIOUS
<1> PICK f : f = Decode(day, sec)
  OBVIOUS
<1>1. /\ y \in Nat /\ y # 0 /\ m \in 1 .. 12 /\ d \in 1 .. 31
      /\ day = YdToRdn(y, DaysPreceding(m, LeapDay(y)) + d - 1)
  BY Fields
<1>2. /\ f.year = y /\ f.month = m /\ f.day = d
      /\ f.hour = sec \div 3600 /\ f.minute = (sec \div 60) % 60 /\ f.second = sec % 60
  BY ReadsTheDate DEF Decode
<1>3. f.hour <= 23 /\ FromHms(f.hour, f.minute, f.second) = sec
  <2>1. InDay(sec)
    BY DEF DInv
  <2>2. ClockOf(sec, f.hour, f.minute, f.second)
    BY <1>2 DEF ClockOf
  <2>3. TellsTime(sec, f.hour, f.minute, f.second)
    BY <2>1, <2>2, ClockReadsBack, Zenon
  <2> QED BY <2>3 DEF TellsTime
<1>4. /\ \A k \in 0 .. 2 : y > k => YmdToRdn(y - k, m + 12 * k, d) = day
      /\ m = 12 => YmdToRdn(y + 1, 0, d) = day
  <2>1. y \in Nat /\ m \in 1 .. 12 /\ d \in 1 .. 31
    BY <1>1
  <2>2. /\ \A k \in 0 .. 2 : y > k => YmdToRdn(y - k, m + 12 * k, d) =
                YdToRdn(y, DaysPreceding(m, LeapDay(y)) + d - 1)
        /\ m = 12 => YmdToRdn(y + 1, 0, d) =
                       YdToRdn(y, DaysPreceding(m, LeapDay(y)) + d - 1)
    BY <2>1, CarriedMonth, Zenon
  <2> QED BY <1>1, <2>2, Zenon
<1> QED BY <1>2, <1>3, <1>4, SMT DEF FieldsReadBack

-----------------------------------------------------------------------------
(***************************************************************************)
(* The text of a datetime, and the way back.                               *)
(***************************************************************************)
\* Two characters, the high one modulo 6, hold what is left of minutes or seconds.
LEMMA Minutes ==
  ASSUME NEW v \in Nat
  PROVE  TwoDigits(v, 6) = v % 60
<1> PICK t, u : t = v \div 10 /\ u = v % 10
  OBVIOUS
<1>1. t \in Nat /\ u \in 0 .. 9 /\ v = 10 * t + u
  BY SMT
<1>2. PICK a, b : a = t \div 6 /\ b = t % 6
  OBVIOUS
<1>3. a \in Nat /\ b \in 0 .. 5 /\ t = 6 * a + b
  BY <1>1, <1>2, SMT
<1>4. (60 * a + 10 * b + u) % 60 = 10 * b + u
  BY <1>1, <1>3, SMT
<1>5. v = 60 * a + 10 * b + u
  BY <1>1, <1>3, SMT
<1> QED BY <1>2, <1>4, <1>5 DEF TwoDigits

\* Two characters hold a number below a hundred.
LEMMA BelowHundred ==
  ASSUME NEW v \in 0 .. 99
  PROVE  TwoDigits(v, 10) = v
  BY SMT DEF TwoDigits

\* The zone of a text is the offset it was written with.
LEMMA Zone ==
  ASSUME NEW a \in 0 .. 1439
  PROVE  60 * TwoDigits(a \div 60, 10) + TwoDigits(a, 6) = a /\ a \div 60 <= 23
<1>1. a \div 60 \in 0 .. 23 /\ a = 60 * (a \div 60) + (a % 60)
  BY SMT
<1>2. TwoDigits(a \div 60, 10) = a \div 60
  BY <1>1, BelowHundred, SMT
<1>3. TwoDigits(a, 6) = a % 60
  BY Minutes, SMT
<1> QED BY <1>1, <1>2, <1>3

\* A year of five digits begins after LastDay.
LEMMA FourDigits ==
  ASSUME DInv
  PROVE  date.year % 10000 = date.year
<1> PICK y, n, p, q :
      y = date.year /\ n = date.yday /\ p = y - 1 /\ q = YdToRdn(y, n)
  OBVIOUS
<1>1. /\ y \in Nat /\ y # 0 /\ n \in 1 .. 366
      /\ day = q - 1 /\ day \in Nat /\ day <= LastDay
  BY SMT DEF DInv, Counted
<1>2. PICK a, b, c : a = p \div 4 /\ b = p \div 100 /\ c = p \div 400
  OBVIOUS
<1>3. /\ p \in Nat /\ a \in Int /\ b \in Int /\ c \in Int
      /\ 4 * a >= p - 3 /\ 100 * b <= p /\ 400 * c >= p - 399
  BY <1>1, <1>2, SMT
<1>4. q = 365 * p + a - b + c + n
  BY <1>1, <1>2, SMT DEF YdToRdn
<1>5. q <= 3652059
  <2>1. LastDay \in Nat /\ LastDay <= MaxDay
    BY LimitsAssumption
  <2>2. q \in Int
    BY <1>1, <1>3, <1>4, SMT
  <2> QED BY <1>1, <2>1, <2>2, SMT DEF MaxDay
<1>6. y < 10000
  BY <1>1, <1>3, <1>4, <1>5, SMT
<1> QED BY <1>1, <1>6, SMT

\* Each number of the text is the field it was written from.
LEMMA TextOfEverySecond ==
  ASSUME DInv
  PROVE  TextReadsBack
<1> SUFFICES ASSUME NEW o \in Offsets, NEW u \in Usecs
             PROVE  LET text  == Format(Stamp(day, sec, u), o)
                        back  == Parse(text)
                        whole == Earlier(Stamp(day, sec, 0), 60 * o)
                    IN  /\ Accepts(text)
                        /\ back.day = whole.day /\ back.sec = whole.sec
                        /\ u = 0 => back = whole
  BY Zenon DEF TextReadsBack
<1> PICK t : t = Stamp(day, sec, u)
  OBVIOUS
<1> PICK x, a, y, m, d :
      /\ x = Format(t, o) /\ a = IF o < 0 THEN -o ELSE o
      /\ y = date.year /\ m = date.month /\ d = date.day
  OBVIOUS
<1>1. o \in Int /\ a \in 0 .. 1439 /\ (IF o < 0 THEN -(60 * a) ELSE 60 * a) = 60 * o
  BY LimitsAssumption, SMT
<1>2. t.day = day /\ t.sec = sec /\ t.usec = u /\ InDay(sec) /\ sec \in Nat
  BY SMT DEF Stamp, DInv, InDay
<1>3. /\ x.year = y /\ x.month = m /\ x.day = d
      /\ x.hour = TwoDigits(sec \div 3600, 10)
      /\ x.minute = TwoDigits(sec \div 60, 6) /\ x.second = TwoDigits(sec, 6)
      /\ x.digits = Precision(u)
      /\ x.fraction = IF Precision(u) = 0 THEN 0
                      ELSE u \div Pow10[10 - Precision(u)]
      /\ x.zone = 60 * TwoDigits(a \div 60, 10) + TwoDigits(a, 6)
  BY <1>2, ReadsTheDate, FourDigits, SMT DEF Format
<1>4. ClockOf(sec, x.hour, x.minute, x.second)
  <2>1. sec \div 3600 \in 0 .. 99 /\ sec \div 60 \in Nat
    BY <1>2, SMT DEF InDay
  <2>2. TwoDigits(sec \div 3600, 10) = sec \div 3600
    BY <2>1, BelowHundred, SMT
  <2>3. TwoDigits(sec \div 60, 6) = (sec \div 60) % 60 /\ TwoDigits(sec, 6) = sec % 60
    BY <1>2, <2>1, Minutes, SMT
  <2> QED BY <1>3, <2>2, <2>3, SMT DEF ClockOf
<1>5. TellsTime(sec, x.hour, x.minute, x.second)
  BY <1>2, <1>4, ClockReadsBack, Zenon
<1>6. x.zone = a /\ a \div 60 <= 23
  BY <1>1, <1>3, Zone, SMT
<1>7. Accepts(x)
  <2>1. y \in Nat /\ y # 0 /\ m \in 1 .. 12 /\ d \in 1 .. 31 /\ d <= MonthLength(y, m)
    BY SMT DEF DInv
  <2>2. x.digits \in 0 .. 9
    BY <1>3, SMT DEF Precision
  <2> QED BY <1>3, <1>5, <1>6, <2>1, <2>2, SMT DEF Accepts, TellsTime
<1> PICK w : w = (x.fraction * Pow10[10 - x.digits]) \div 1000
  OBVIOUS
<1>8. Parse(x) = Earlier(Stamp(day, sec, w), 60 * o)
  <2>1. YmdToRdn(x.year, x.month, x.day) = day
    <3>1. y \in Nat /\ y # 0 /\ m \in 1 .. 12 /\ d \in 1 .. 31
      BY Fields
    <3>2. day = YdToRdn(y, DaysPreceding(m, LeapDay(y)) + d - 1)
      BY Fields
    <3>3. YmdToRdn(y, m, d) = YdToRdn(y, DaysPreceding(m, LeapDay(y)) + d - 1)
      <4>1. y - 0 = y /\ m + 12 * 0 = m /\ 0 \in 0 .. 2 /\ y > 0
        BY <3>1, SMT
      <4> QED BY <3>1, <4>1, CarriedMonth, Zenon
    <3>4. x.year = y /\ x.month = m /\ x.day = d
      BY <1>3
    <3> QED BY <3>2, <3>3, <3>4
  <2>2. FromHms(x.hour, x.minute, x.second) = sec
    BY <1>5 DEF TellsTime
  <2>3. (IF x.minus THEN -(60 * x.zone) ELSE 60 * x.zone) = 60 * o
    <3>1. x.minus <=> o < 0
      BY Zenon DEF Format
    <3>2. PICK z : z = 60 * x.zone
      OBVIOUS
    <3>3. (IF o < 0 THEN -z ELSE z) = 60 * o
      BY <1>1, <1>6, <3>2, SMT
    <3>4. (IF x.minus THEN -z ELSE z) = 60 * o
      BY <3>1, <3>3, Zenon
    <3> QED BY <3>2, <3>4, Zenon
  <2> QED BY <2>1, <2>2, <2>3, SMT DEF Parse, Stamp
<1>9. \A v : LET e == Earlier(Stamp(day, sec, w), 60 * o)
                 f == Earlier(Stamp(day, sec, v), 60 * o)
             IN  e.day = f.day /\ e.sec = f.sec
  BY SMT DEF Earlier, Stamp
<1>10. u = 0 => w = 0
  BY <1>3, SMT DEF Precision, Pow10
<1> QED BY <1>7, <1>8, <1>9, <1>10

-----------------------------------------------------------------------------
\* The walk's day number, its date and the day of the year count on together,
\* by yd_to_rdn and the days that precede a month: the calendar's own rules lead
\* from one date to the next and yd_to_rdn's formula counts one day more.
THEOREM Invariance == Spec => []DInv
<1>1. DInv /\ [Next]_vars => DInv'
  <2> SUFFICES ASSUME DInv, [Next]_vars
               PROVE  DInv'
    OBVIOUS
  <2>1. CASE NextDay
    BY <2>1, DayCounts
  <2>2. CASE Tick
    BY <2>2, TickCounts
  <2>3. CASE UNCHANGED vars
    BY <2>3, SMT DEF vars, DInv, Counted
  <2> QED BY <2>1, <2>2, <2>3 DEF Next
<1> QED BY <1>1, InitCounts, PTL DEF Spec

\* rdn_to_ymd makes of every day up to LastDay the date the calendar's rules
\* give it, whichever cycle of 400 years it is in.
THEOREM EveryDate == Spec => []CalendarAgrees
<1>1. DInv => CalendarAgrees
  BY ReadsTheDate DEF CalendarAgrees
<1> QED BY <1>1, Invariance, PTL

\* Every date and time datetime_decode takes apart is put together again by
\* ymd_to_rdn and datetime_from_hmsu, in months carried into the year as well.
THEOREM EveryField == Spec => []FieldsReadBack
  BY FieldsOfEveryDay, Invariance, PTL

\* test_datetime.c:53, assert(dt == dt2), for the text of every whole second: at
\* offset zero it is read back as that datetime, and at an offset of o minutes as
\* the datetime o minutes earlier, day 0 at a positive offset left out.  The date
\* and the time of day come back whatever the microseconds.
THEOREM EveryText == Spec => []TextReadsBack
  BY TextOfEverySecond, Invariance, PTL
=============================================================================
