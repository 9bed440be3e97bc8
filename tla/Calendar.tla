------------------------------ MODULE Calendar ------------------------------
(***************************************************************************)
(* driver/time.c and the daylight saving of driver/ntp.c: from the seconds *)
(* of an NTP answer, or the fields a browser posts (page_ntp.c), to what   *)
(* is written to the clock chip.  Months count from 0, tm_year from 1900.  *)
(* The clock of the model is what the rest of the world says the time is.  *)
(* sysCfg.dst_flag goes into _daylight, which nothing reads.               *)
(***************************************************************************)
EXTENDS Integers

CONSTANTS Starts,   \* seconds since 1970 at which the clock may be looked at first
          Ticks,    \* looks that follow (bound)
          Tick,     \* seconds between two of them
          Zones     \* sysCfg.timezone, in hours

VARIABLES clock,    \* seconds since 1970
          ticks     \* looks so far

vars == <<clock, ticks>>

Init == clock \in Starts /\ ticks = 0

Pass == ticks < Ticks /\ clock' = clock + Tick /\ ticks' = ticks + 1

Next == Pass
-----------------------------------------------------------------------------
(* time.c                                                                   *)

SECS_DAY == 86400
EPOCH_YR == 1970
YEAR0 == 1900
TIME_MAX == 2147483647

\* Mutated form: the year 2000 is forgotten.
LeapBefore2000(year) == year % 4 = 0 /\ year % 100 # 0

LEAPYEAR(year) == year % 4 = 0 /\ (year % 100 # 0 \/ year % 400 = 0)
YEARSIZE(year) == IF LEAPYEAR(year) THEN 366 ELSE 365

_ytab(year, mon) ==
  <<31, IF LEAPYEAR(year) THEN 29 ELSE 28, 31, 30, 31, 30, 31, 31, 30, 31, 30, 31>>[mon + 1]

\* The loop of gmtime_r over the years: <<year, dayno>>.
Years[p \in Nat \X Nat] ==
  IF p[2] >= YEARSIZE(p[1]) THEN Years[<<p[1] + 1, p[2] - YEARSIZE(p[1])>>] ELSE p

\* Month 0 is January 1900.
MonthSize(m) == _ytab(YEAR0 + m \div 12, m % 12)

\* The loops over the months: the month a day falls into, and its day there.  That
\* of gmtime_r begins in January, and ends in the same year; those of mktime go
\* either way.
DayOf[p \in Int \X Int] ==
  IF p[2] < 0 THEN DayOf[<<p[1] - 1, p[2] + MonthSize(p[1] - 1)>>]
  ELSE IF p[2] >= MonthSize(p[1]) THEN DayOf[<<p[1] + 1, p[2] - MonthSize(p[1])>>]
  ELSE p

gmtime_r(time) ==
  LET dayclock == time % SECS_DAY
      dayno == time \div SECS_DAY
      y == Years[<<EPOCH_YR, dayno>>]
      m == DayOf[<<12 * (y[1] - YEAR0), y[2]>>]
  IN [sec |-> dayclock % 60, min |-> (dayclock % 3600) \div 60, hour |-> dayclock \div 3600,
      wday |-> (dayno + 4) % 7, year |-> y[1] - YEAR0, yday |-> y[2],
      mon |-> m[1] % 12, mday |-> m[2] + 1, isdst |-> 0]

\* _timezone is 0 - sysCfg.timezone * 3600.
localtime_r(time, zone) == gmtime_r(time + 3600 * zone)

\* Leap days before the year: a step of n years, and one more if the part of a
\* step that is left has one in it.
Every(n, year) ==
  (year - EPOCH_YR) \div n + (IF year % n # 0 /\ year % n < EPOCH_YR % n THEN 1 ELSE 0)

\* Days since January 1970, and since January, of a date that is in order.
YearDay(year, mon, mday) ==
  LET before[m \in 0 .. 11] == IF m = 0 THEN 0 ELSE before[m - 1] + _ytab(year, m - 1)
  IN before[mon] + mday - 1

Day(year, mon, mday) ==
  (year - EPOCH_YR) * 365 + Every(4, year) - Every(100, year) + Every(400, year)
  + YearDay(year, mon, mday)

\* The fields put in order; a carry of C's / and % is floored by the lines behind.
mktime(tm) ==
  LET min == tm.min + tm.sec \div 60
      hour == tm.hour + min \div 60
      d == DayOf[<<12 * tm.year + tm.mon, hour \div 24 + tm.mday - 1>>]
      year == d[1] \div 12
      mon == d[1] % 12
  IN [sec |-> tm.sec % 60, min |-> min % 60, hour |-> hour % 24,
      wday |-> (Day(YEAR0 + year, mon, d[2] + 1) + 4) % 7, year |-> year,
      yday |-> YearDay(YEAR0 + year, mon, d[2] + 1), mon |-> mon, mday |-> d[2] + 1,
      isdst |-> tm.isdst]

\* What mktime returns, _timezone being 0 and tm in order; -1 if it does not fit.
Seconds(tm) ==
  LET day == Day(YEAR0 + tm.year, tm.mon, tm.mday)
      seconds == (tm.hour * 60 + tm.min) * 60 + tm.sec
  IN IF YEAR0 + tm.year < EPOCH_YR \/ (TIME_MAX - seconds) \div SECS_DAY < day THEN -1
     ELSE seconds + day * SECS_DAY
-----------------------------------------------------------------------------
(* ntp.c                                                                    *)

SecondOfDay(tm) == tm.hour * 3600 + tm.min * 60 + tm.sec

\* Mutated form: a last Sunday on the 25th is missed.
InLastWeekLate(tm) == tm.mday - tm.wday > 25

\* The Sunday before, or today, is the last one of a month of 31 days.
InLastWeek(tm) == tm.mday - tm.wday >= 25

check_dst(tm) ==
  \/ tm.mon \in 3 .. 8
  \/ tm.mon = 2 /\ InLastWeek(tm) /\ (tm.wday = 0 => SecondOfDay(tm) >= 10800)
  \/ tm.mon = 9 /\ (InLastWeek(tm) => tm.wday = 0 /\ SecondOfDay(tm) < 14400)

\* The hour is added whatever sysCfg.dst_flag says.
applyTZ(tm) ==
  LET t == mktime(tm)
  IN IF check_dst(t) THEN [mktime([t EXCEPT !.hour = @ + 1]) EXCEPT !.isdst = 1]
     ELSE [t EXCEPT !.isdst = 0]

decToBcd(dec) == (dec \div 10) * 16 + (dec % 10)

\* DS1307_Date_to_Write.
Registers(tm, wday) ==
  [i \in 1 .. 7 |-> decToBcd(<<tm.sec, tm.min, tm.hour, wday, tm.mday, tm.mon + 1, tm.year - 100>>[i])]

\* ntp_udp_recv: Sunday is 7.
NtpDate(time, zone) ==
  LET tm == applyTZ(localtime_r(time, zone)) IN Registers(tm, IF tm.wday = 0 THEN 7 ELSE tm.wday)

\* The fields that the browser posts: its UTC clock, with the month from 0.
Posted(time) ==
  LET tm == gmtime_r(time)
  IN [year |-> tm.year + YEAR0, mon |-> tm.mon, mday |-> tm.mday, hour |-> tm.hour,
      min |-> tm.min, sec |-> tm.sec, wday |-> tm.wday]

\* cgi_PC_Time, up to applyTZ: the date of a fixed moment with these fields set.
SetFields(data, mon, zone) ==
  LET dt == gmtime_r(1522921929)
  IN [sec |-> data.sec, min |-> data.min, hour |-> data.hour + zone, wday |-> data.wday,
      year |-> data.year - YEAR0, yday |-> dt.yday, mon |-> mon, mday |-> data.mday,
      isdst |-> dt.isdst]

\* Mutated form: the month is taken to count from 1 (the line that is commented out).
PcTimeMonth(data, zone) == SetFields(data, data.mon - 1, zone)

PcTime(data, zone) == SetFields(data, data.mon, zone)

\* ... and behind it: Sunday is 0.
PcDate(data, zone) ==
  LET tm == applyTZ(PcTime(data, zone)) IN Registers(tm, IF tm.wday = 7 THEN 0 ELSE tm.wday)
-----------------------------------------------------------------------------
\* The number of a day in the Gregorian calendar, by its rules alone: years begin
\* in March and months have 153 days every five.
DayNumber(year, mon, mday) ==
  LET y == IF mon < 2 THEN year - 1 ELSE year
      m == (mon + 10) % 12
  IN 365 * y + y \div 4 - y \div 100 + y \div 400 + (153 * m + 2) \div 5 + mday - 719469

\* gmtime_r gives the date of the Gregorian calendar, and mktime takes it back,
\* unchanged: over ends of months, leap days and centuries.
CalendarHolds ==
  LET tm == gmtime_r(clock)
  IN /\ DayNumber(tm.year + YEAR0, tm.mon, tm.mday) = clock \div SECS_DAY
     /\ tm.yday = DayNumber(tm.year + YEAR0, tm.mon, tm.mday) - DayNumber(tm.year + YEAR0, 0, 1)
     /\ tm.mday \in 1 .. 31 /\ tm.mon \in 0 .. 11
     /\ mktime(tm) = tm /\ Seconds(tm) = clock

\* The last Sunday of a month of 31 days, as a number of a day.
LastSunday(year, mon) ==
  CHOOSE d \in DayNumber(year, mon, 25) .. DayNumber(year, mon, 31) : (d + 4) % 7 = 0

\* Daylight saving is on from 3:00 of the last Sunday of March to 4:00 of that of
\* October, local time without it.  (In Ukraine, where the program is used, it ends
\* at 3:00 of that time.)
SummerTime ==
  \A zone \in Zones :
    LET local == clock + 3600 * zone
        tm == localtime_r(clock, zone)
        year == tm.year + YEAR0
    IN check_dst(mktime(tm)) <=>
         /\ local >= LastSunday(year, 2) * SECS_DAY + 10800
         /\ local < LastSunday(year, 9) * SECS_DAY + 14400

\* Whether the clock is set from NTP or from the browser, it is set to the same date
\* for the same moment, in every zone; but not to the same day of the week on a Sunday.
PagesAgree ==
  \A zone \in Zones :
    LET ntp == NtpDate(clock, zone)
        pc == PcDate(Posted(clock), zone)
    IN /\ [ntp EXCEPT ![4] = 0] = [pc EXCEPT ![4] = 0]
       /\ ntp[4] = pc[4] \/ <<ntp[4], pc[4]>> = <<7, 0>>
=============================================================================
