------------------------------- MODULE Clock -------------------------------
(***************************************************************************)
(* The time stamp of a file: rtc_now_ns reads the two halves of a running  *)
(* clock (rtc.c), get_fattime turns the days since 1970 into a date        *)
(* (fatfs_disk.c).  FatFs calls it for every file it changes               *)
(* (FF_FS_NORTC is 0 in ffconf.h).                                         *)
(*                                                                         *)
(* External: the goldfish clock.  Reading its low half latches the high    *)
(* half.  The clock ticks TicksPerDay times a day, the low half counts     *)
(* modulo LoMod.  Splitting the second of the day into hours, minutes and  *)
(* seconds is left out.                                                    *)
(***************************************************************************)
EXTENDS Integers

CONSTANTS LoMod,          \* 2^32
          TicksPerDay,
          FirstYear,      \* 1970
          LastYear,       \* bound: the clock stops at the end of this year
          MaxLag          \* bound: ticks between the two reads

ASSUME ClockAssumption == /\ LoMod \in Nat \ {0} /\ TicksPerDay \in Nat \ {0}
                          /\ FirstYear = 1970 /\ LastYear \in Nat /\ MaxLag \in Nat

VARIABLES
  now, year, month, mday,  \* the clock, and the calendar beside it
  latched,                 \* the high half as latched
  clock_pc,                \* off, idle, low, stamped
  low,                     \* the low half as read
  lag,                     \* ticks since
  asof,                    \* history: the calendar's date when the low half was read
  stamp                    \* the date in the last time stamp

clockVars == <<now, year, month, mday, latched, clock_pc, low, lag, asof, stamp>>

-----------------------------------------------------------------------------
(***************************************************************************)
(* The calendar (external): the reference.                                 *)
(***************************************************************************)

Leap(y) == y % 4 = 0 /\ (y % 100 # 0 \/ y % 400 = 0)
MonthDays(y, m) ==
  CASE m = 2 -> IF Leap(y) THEN 29 ELSE 28
    [] m \in {4, 6, 9, 11} -> 30
    [] OTHER -> 31

\* Days from 1970-01-01 to the first of January of y.
DaysBefore[y \in FirstYear..LastYear] ==
  IF y = FirstYear THEN 0
  ELSE DaysBefore[y - 1] + (IF Leap(y - 1) THEN 366 ELSE 365)

NextDay ==
  LET lastDay == mday = MonthDays(year, month)
      lastMonth == lastDay /\ month = 12
  IN /\ mday' = IF lastDay THEN 1 ELSE mday + 1
     /\ month' = IF lastMonth THEN 1 ELSE IF lastDay THEN month + 1 ELSE month
     /\ year' = IF lastMonth THEN year + 1 ELSE year

\* The clock ticks, also between the two reads.
Tick ==
  /\ clock_pc \in {"idle", "low"}
  /\ clock_pc = "low" => lag < MaxLag
  /\ lag' = IF clock_pc = "low" THEN lag + 1 ELSE lag
  /\ now' = now + 1
  /\ IF now' % TicksPerDay = 0 THEN NextDay /\ year' <= LastYear
                               ELSE UNCHANGED <<year, month, mday>>
  /\ UNCHANGED <<latched, clock_pc, low, asof, stamp>>

-----------------------------------------------------------------------------
(***************************************************************************)
(* get_fattime.                                                            *)
(***************************************************************************)

\* rtc_now_ns reads the low half, and so latches the high one.
RtcReadLow ==
  /\ clock_pc = "idle"
  /\ low' = now % LoMod
  /\ latched' = now \div LoMod
  /\ asof' = <<year, month, mday>>
  /\ lag' = 0
  /\ clock_pc' = "low"
  /\ UNCHANGED <<now, year, month, mday, stamp>>

\* YearOfEra without the correction for centuries.
YearOfEraNoCentury(doe) == (doe - doe \div 1460) \div 365

\* The year that a day of an era of 400 years is in, and the day within it.
YearOfEra(doe) == (doe - doe \div 1460 + doe \div 36524 - doe \div 146096) \div 365
DayOfYear(doe) ==
  LET yoe == YearOfEra(doe) IN doe - (365 * yoe + yoe \div 4 - yoe \div 100)

\* The date of a day counted from 1970, by way of years that begin in March.
Civil(day) ==
  LET days == day + 719468
      era  == days \div 146097
      doe  == days - era * 146097
      doy  == DayOfYear(doe)
      mp   == (5 * doy + 2) \div 153
      m    == IF mp < 10 THEN mp + 3 ELSE mp - 9
  IN <<YearOfEra(doe) + era * 400 + (IF m <= 2 THEN 1 ELSE 0), m,
       doy - (153 * mp + 2) \div 5 + 1>>

\* FAT counts years from 1980 in seven bits.
Clamp(date) ==
  CASE date[1] < 1980 -> <<1980, 1, 1>>
    [] date[1] > 2107 -> <<2107, date[2], date[3]>>
    [] OTHER -> date

\* The high half is read, and the stamp made.
GetFattime ==
  /\ clock_pc = "low"
  /\ stamp' = Clamp(Civil((latched * LoMod + low) \div TicksPerDay))
  /\ clock_pc' = "stamped"
  /\ UNCHANGED <<now, year, month, mday, latched, low, lag, asof>>

\* The next call may come; it latches anew.
StampUsed ==
  /\ clock_pc = "stamped"
  /\ clock_pc' = "idle"
  /\ low' = 0 /\ latched' = 0 /\ lag' = 0 /\ asof' = <<>> /\ stamp' = <<>>
  /\ UNCHANGED <<now, year, month, mday>>

ClockNext == Tick \/ RtcReadLow \/ GetFattime \/ StampUsed

\* The machine is started on the first of January of some year.
ClockStart ==
  /\ year \in FirstYear..LastYear /\ month = 1 /\ mday = 1
  /\ now = DaysBefore[year] * TicksPerDay
  /\ clock_pc = "idle" /\ latched = 0 /\ low = 0 /\ lag = 0 /\ asof = <<>> /\ stamp = <<>>

ClockUnused ==
  /\ year = FirstYear /\ month = 1 /\ mday = 1 /\ now = 0
  /\ clock_pc = "off" /\ latched = 0 /\ low = 0 /\ lag = 0 /\ asof = <<>> /\ stamp = <<>>

-----------------------------------------------------------------------------

\* A file is stamped with the date of the moment get_fattime read the clock, on
\* every day FAT can express, also when the low half of the clock wraps between
\* the two reads ("Read low first to latch high", rtc.c:19-22); earlier days give
\* the first of January 1980, later ones stay in 2107.
StampIsToday ==
  clock_pc = "stamped" =>
    \/ asof[1] \in 1980..2107 /\ stamp = asof
    \/ asof[1] < 1980 /\ stamp = <<1980, 1, 1>>
    \/ asof[1] > 2107 /\ stamp[1] = 2107
=============================================================================
