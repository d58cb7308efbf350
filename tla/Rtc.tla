--------------------------------- MODULE Rtc ---------------------------------
(***************************************************************************)
(* Reading the date and time from the real-time clock (drivers/rtc.c)      *)
(* while the clock runs.                                                   *)
(*                                                                         *)
(* The clock raises its update flag at least 244 microseconds before it    *)
(* changes its registers.  rtc_read_date_time tests the flag once and then *)
(* reads seven registers one by one; a process that is held up in between  *)
(* (every register is two kernel calls) reads registers of two dates.      *)
(*                                                                         *)
(* A date is the sequence of the seven registers in the order of reading:  *)
(* seconds, minutes, hours, day of week, day, month, year of the century.  *)
(***************************************************************************)
EXTENDS Integers, Sequences

CONSTANTS
    Starts,    \* dates the clock may have when the model starts
    Garbage,   \* the contents of an uninitialised struct rtc_date_time
    MaxTicks,  \* bound: updates of the clock
    MaxFail,   \* bound: kernel calls that fail
    NONE       \* no value returned yet

Registers == 1..7
Low == <<0, 0, 0, 1, 1, 1, 0>>

\* The century is the 21st: a year is a leap year if 4 divides it.
DaysIn(month, year) ==
    CASE month = 2 -> IF year % 4 = 0 THEN 29 ELSE 28
      [] month \in {4, 6, 9, 11} -> 30
      [] OTHER -> 31

High(c) == <<59, 59, 23, 7, DaysIn(c[6], c[7]), 12, 99>>
Dates == [Registers -> 0..99]
IsDate(c) == c \in Dates /\ \A i \in Registers : Low[i] <= c[i] /\ c[i] <= High(c)[i]

ASSUME StartsAssumption == \A c \in Starts : IsDate(c)
ASSUME GarbageAssumption == Garbage \in [Registers -> Nat]
ASSUME BoundsAssumption == MaxTicks \in Nat /\ MaxFail \in Nat /\ NONE \notin {0, 1}

VARIABLES
    clock,     \* the date the clock keeps
    uip,       \* its update flag
    next,      \* register rtc_read_date_time reads next, 0: not running
    raw,       \* the local variables seconds, minutes, ... year
    rtc_dt,    \* the struct of the caller
    result,    \* what the last call returned
    ticks, fails,  \* what the bounds count
    from,      \* history: the date when the flag was tested
    window,    \* history: updates announced since, "rolled" if one happened
    wrapped    \* history: a century has ended since

hardware == <<clock, uip, ticks>>
vars == <<hardware, next, raw, rtc_dt, result, fails, from, window, wrapped>>

Init ==
    /\ clock \in Starts /\ uip \in BOOLEAN
    /\ next = 0 /\ raw = [i \in Registers |-> 0] /\ rtc_dt = Garbage /\ result = NONE
    /\ ticks = 0 /\ fails = 0
    /\ from = clock /\ window = "none" /\ wrapped = FALSE

-----------------------------------------------------------------------------
(* The clock. A field moves when all those below it are at their highest. *)

Below == << {}, {1}, {1, 2}, {1, 2, 3}, {1, 2, 3}, {1, 2, 3, 5}, {1, 2, 3, 5, 6} >>

After(c) ==
    [i \in Registers |->
        IF \E j \in Below[i] : c[j] # High(c)[j] THEN c[i]
        ELSE IF c[i] = High(c)[i] THEN Low[i] ELSE c[i] + 1]

Announce ==
    /\ ~uip /\ ticks < MaxTicks
    /\ uip' = TRUE
    /\ window' = IF window = "none" THEN "announced" ELSE window
    /\ UNCHANGED <<clock, ticks, next, raw, rtc_dt, result, fails, from, wrapped>>

Roll ==
    /\ uip
    /\ clock' = After(clock) /\ uip' = FALSE /\ ticks' = ticks + 1
    /\ window' = IF window = "announced" THEN "rolled" ELSE window
    /\ wrapped' = (wrapped \/ clock'[7] < clock[7])
    /\ UNCHANGED <<next, raw, rtc_dt, result, fails, from>>

\* The registers hold two decimal digits in four bits each.
Register(i) == 16 * (clock[i] \div 10) + (clock[i] % 10)

-----------------------------------------------------------------------------
(* The driver. *)

bcd_to_dec(bcd) == (bcd \div 16) * 10 + (bcd % 16)

Return(code) == next' = 0 /\ result' = code

FlagIgnored == FALSE
rtc_update_in_progress == uip

\* rtc_read_date_time tests the flag, and then its argument.
TestFlag(null) ==
    /\ next = 0
    /\ IF rtc_update_in_progress \/ null THEN Return(1) ELSE next' = 1 /\ result' = NONE
    /\ from' = clock /\ window' = "none" /\ wrapped' = FALSE
    /\ UNCHANGED <<hardware, raw, rtc_dt, fails>>

ReadBackwards ==
    /\ next \in Registers
    /\ raw' = [raw EXCEPT ![8 - next] = Register(8 - next)]
    /\ next' = next + 1
    /\ UNCHANGED <<hardware, rtc_dt, result, fails, from, window, wrapped>>

\* rtc_read_register for the next register.
ReadRegister ==
    /\ next \in Registers
    /\ raw' = [raw EXCEPT ![next] = Register(next)]
    /\ next' = next + 1
    /\ UNCHANGED <<hardware, rtc_dt, result, fails, from, window, wrapped>>

FailLate ==
    /\ next \in Registers \cup {0} /\ fails < MaxFail
    /\ fails' = fails + 1
    /\ Return(1)
    /\ rtc_dt' = [i \in Registers |-> IF i < next THEN bcd_to_dec(raw[i]) ELSE rtc_dt[i]]
    /\ UNCHANGED <<hardware, raw, from, window, wrapped>>

\* A kernel call of rtc_read_register fails; a flag that cannot be read
\* counts as raised.
Fail ==
    /\ next \in Registers \cup {0} /\ fails < MaxFail
    /\ fails' = fails + 1
    /\ Return(1)
    /\ UNCHANGED <<hardware, raw, rtc_dt, from, window, wrapped>>

\* All registers are read: the struct is assigned.
Assign ==
    /\ next = 8
    /\ rtc_dt' = [i \in Registers |-> bcd_to_dec(raw[i])]
    /\ Return(0)
    /\ UNCHANGED <<hardware, raw, fails, from, window, wrapped>>

Next ==
    \/ Announce \/ Roll
    \/ \E null \in BOOLEAN : TestFlag(null)
    \/ ReadRegister \/ Fail \/ Assign

Spec == Init /\ [][Next]_vars

-----------------------------------------------------------------------------
(* Properties. *)

\* The clock keeps a date that exists, and the driver's variables their ranges.
TypeOK ==
    /\ IsDate(clock) /\ uip \in BOOLEAN
    /\ next \in 0..8 /\ raw \in [Registers -> 0..255]
    /\ rtc_dt \in [Registers -> Nat] /\ result \in {NONE, 0, 1}
    /\ ticks \in Nat /\ fails \in 0..MaxFail
    /\ IsDate(from) /\ window \in {"none", "announced", "rolled"}
    /\ wrapped \in BOOLEAN

\* A call that returns 0 before the clock has announced and made an update,
\* that is within 244 microseconds of the test of the flag, returns the one
\* date the clock had all the time.
WholeIfQuick == (result = 0 /\ window # "rolled") => rtc_dt = from

\* Dates in the order of time: years first, seconds last, the day of the
\* week left out.
Earlier(a, b) ==
    \E i \in Registers \ {4} :
        a[i] < b[i] /\ \A j \in Registers \ {4} : j > i => a[j] = b[j]

\* However long the call is held up, and however many updates it mixes, the
\* date it returns is never earlier than the date when it was called, because
\* the registers are read from the seconds upwards, unless the century ends
\* in the meantime.
NeverEarly == (result = 0 /\ ~wrapped) => ~Earlier(rtc_dt, from)

\* A call that returns 1 leaves the caller's struct as it was: no date is
\* ever made of registers and of what the struct held before.
FailureKeepsDate == [][result' = 1 => rtc_dt' = rtc_dt]_vars
=============================================================================
