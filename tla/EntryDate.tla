------------------------------ MODULE EntryDate ------------------------------
(***************************************************************************)
(* The date of a leaderboard entry on its way through the file             *)
(* (drivers/rtc.c, leaderboard/leaderboard.c, ui/menu.c).                  *)
(*                                                                         *)
(* The date comes from the clock with the year of the century, is written  *)
(* as seconds since 1970 and is read back with the full year; the next     *)
(* save takes that for a year of the century again.  The time of the day   *)
(* goes through unchanged and is left out: the file holds days, counted    *)
(* here from the first of March of the year 0. mktime takes its argument   *)
(* for local time, gmtime gives UTC; the model is for a machine on UTC.    *)
(***************************************************************************)
EXTENDS Integers

CONSTANTS
    Years,     \* years of the century the clock may have
    MaxLoads   \* bound: how often the file is read; at the 33rd time the year
               \* no longer fits the 16 bits of rtc_year

ASSUME YearsAssumption == Years \subseteq 0..99
ASSUME MaxLoadsAssumption == MaxLoads \in 0..32

VARIABLES
    dt,      \* dt_of_entry
    file,    \* the time stamp in the file, in days
    where,   \* "table": only in memory, "file": written, "menu": read back
    loads,   \* how often it was read
    born     \* history: the date the clock had

\* The names leave room for those of Rtc, with which the proofs share a module.
entry == <<dt, file, where, loads, born>>

\* The registers may have been read across an update: any day, any month.
EntryInit ==
    /\ born \in [day : 1..31, month : 1..12, year : Years]
    /\ dt = born
    /\ file = 0 /\ where = "table" /\ loads = 0

-----------------------------------------------------------------------------
(* The C library: mktime counts days in the Gregorian calendar and takes a *)
(* day past the end of its month for one of the next month; gmtime turns a *)
(* number of days into the date. Years begin in March here, so that the    *)
(* day a leap year adds is the last one of a year.                         *)

DaysBefore(year) == 365 * year + (year \div 4) - (year \div 100) + (year \div 400)
DaysBeforeMonth(m) == (153 * m + 2) \div 5

mktime(tm_mday, tm_mon, tm_year) ==
    LET m == (tm_mon + 10) % 12
        y == 1900 + tm_year - (IF tm_mon < 2 THEN 1 ELSE 0)
    IN DaysBefore(y) + DaysBeforeMonth(m) + tm_mday - 1

gmtime(days) ==
    LET era == days \div 146097
        guess == 400 * era + (400 * (days % 146097)) \div 146097
        y == CHOOSE y \in guess - 1..guess + 1 :
                DaysBefore(y) <= days /\ days < DaysBefore(y + 1)
        d == days - DaysBefore(y)
        m == CHOOSE m \in 0..11 :
                DaysBeforeMonth(m) <= d /\ (m < 11 => d < DaysBeforeMonth(m + 1))
    IN [tm_mday |-> d - DaysBeforeMonth(m) + 1,
        tm_mon |-> (m + 2) % 12,
        tm_year |-> y + (IF m >= 10 THEN 1 ELSE 0) - 1900]

-----------------------------------------------------------------------------
monthKept(d) == mktime(d.day, d.month, d.year + 100)

rtc_date_time_to_unix(d) == mktime(d.day, d.month - 1, d.year + 100)

unix_to_rtc_date_time(days) ==
    LET t == gmtime(days)
    IN [day |-> t.tm_mday, month |-> t.tm_mon + 1, year |-> (t.tm_year + 1900) % 65536]

\* Leaderboard_write_file writes the time stamp of the entry, ...
Write ==
    /\ where \in {"table", "menu"}
    /\ file' = rtc_date_time_to_unix(dt)
    /\ where' = "file"
    /\ UNCHANGED <<dt, loads, born>>

\* ... and Leaderboard_read_file in a later run takes the date from it.
Read ==
    /\ where = "file" /\ loads < MaxLoads
    /\ dt' = unix_to_rtc_date_time(file)
    /\ where' = "menu" /\ loads' = loads + 1
    /\ UNCHANGED <<file, born>>

EntryNext == Write \/ Read

EntrySpec == EntryInit /\ [][EntryNext]_entry

-----------------------------------------------------------------------------
(* Properties. *)

IsLeap(year) == year % 4 = 0 /\ (year % 100 # 0 \/ year % 400 = 0)
MonthLength(month, year) ==
    CASE month = 2 -> IF IsLeap(year) THEN 29 ELSE 28
      [] month \in {4, 6, 9, 11} -> 30
      [] OTHER -> 31

\* The date the calendar gives for the registers: the 30th of February is the
\* first or second of March.
Meant ==
    LET over == born.day - MonthLength(born.month, 2000 + born.year)
    IN IF over <= 0 THEN born ELSE [born EXCEPT !.day = over, !.month = @ + 1]

\* The first time an entry is read back it has the very date the clock had;
\* every further save and load moves it by exactly 2000 years, and never
\* changes its day or month, the 29th of February included. A day the month
\* does not have, from registers read across an update, is corrected once.
DriftsByYearsOnly ==
    where = "menu" => dt = [Meant EXCEPT !.year = @ + 2000 * loads]
=============================================================================
