-------------------------------- MODULE Timer --------------------------------
(***************************************************************************)
(* Programming a counter of the i8254 timer (drivers/timer.c):             *)
(* timer_set_frequency and timer_get_conf, one step per port access, any   *)
(* of which may fail.                                                      *)
(***************************************************************************)
EXTENDS Integers

CONSTANTS
    TIMER_FREQ,   \* clock frequency of the timer (1193182)
    Frequencies,  \* frequencies the functions are called with
    Modes,        \* operating modes and counting bases, the bits 3..0 of a
                  \* control word, the counter may be in at the start
    BootDivisor,  \* divisor it has at the start
    BadCounts,    \* what a counter may make of a BCD digit above 9
    MaxFail,      \* bound: port accesses that fail
    NONE          \* no value yet

ASSUME FrequencyAssumption == TIMER_FREQ \in Nat /\ Frequencies \subseteq Nat
ASSUME DivisorAssumption == TIMER_FREQ < 19 * 65536 /\ BootDivisor \in Nat
ASSUME BadCountsAssumption == BadCounts \subseteq Nat /\ BadCounts # {}
ASSUME ModesAssumption == Modes \subseteq 0..15
ASSUME FailAssumption == MaxFail \in Nat /\ NONE \notin Nat

VARIABLES
    mode,      \* hardware: bits 3..0 of its last control word
    divisor,   \* hardware: what it counts down from, NONE: being programmed
    low,       \* hardware: the LSB it was given, NONE: not yet
    latched,   \* hardware: the next byte read is its status
    pc,        \* the next port access of the driver
    freq,      \* argument of timer_set_frequency
    st,        \* the byte timer_get_conf read
    result,    \* what the last call returned
    fails,     \* port accesses that failed
    initial    \* history: mode at the start

hardware == <<mode, divisor, low, latched>>
vars == <<hardware, pc, freq, st, result, fails, initial>>

Init ==
    /\ mode \in Modes /\ initial = mode /\ divisor = BootDivisor /\ low = NONE
    /\ latched = FALSE
    /\ pc = "idle" /\ freq = 0 /\ st = 0 /\ result = NONE /\ fails = 0

-----------------------------------------------------------------------------
InRangeFrom18(f) == f >= 18 /\ f <= TIMER_FREQ
InRange(f) == f >= 19 /\ f <= TIMER_FREQ

timer_set_frequency(f) ==
    /\ pc = "idle"
    /\ freq' = f
    /\ IF InRange(f) THEN pc' = "readback" /\ result' = NONE
                     ELSE pc' = "idle" /\ result' = 1
    /\ UNCHANGED <<hardware, st, fails, initial>>

\* util_get_16_LSB and util_get_16_MSB of the divisor, a 16-bit integer.
F == (TIMER_FREQ \div freq) % 65536
LSB == F % 256
MSB == F \div 256

SkipReadBack ==
    /\ pc = "readback"
    /\ pc' = "status"
    /\ UNCHANGED <<hardware, freq, st, result, fails, initial>>

\* timer_get_conf: the read-back command latches the status, ...
ReadBack ==
    /\ pc = "readback"
    /\ latched' = TRUE
    /\ pc' = "status"
    /\ UNCHANGED <<mode, divisor, low, freq, st, result, fails, initial>>

\* ... and the next byte read from the counter is the status, whose two
\* highest bits may have any value, and not a byte of the count.
ReadStatus ==
    /\ pc = "status"
    /\ st' \in (IF latched THEN {16 * u + mode : u \in {3, 7, 11, 15}} ELSE {0, 255})
    /\ latched' = FALSE
    /\ pc' = "control"
    /\ UNCHANGED <<mode, divisor, low, freq, result, fails, initial>>

Control == 48 + (st % 16)

\* The control word stops the counter until it has both bytes.
WriteControl ==
    /\ pc = "control"
    /\ mode' = Control % 16 /\ divisor' = NONE /\ low' = NONE
    /\ pc' = "lsb"
    /\ UNCHANGED <<latched, freq, st, result, fails, initial>>

WriteLSB ==
    /\ pc = "lsb"
    /\ low' = LSB
    /\ pc' = "msb"
    /\ UNCHANGED <<mode, divisor, latched, freq, st, result, fails, initial>>

\* TIMER_BIN in bit 0 of the control word, and not TIMER_BCD.
InBinary(m) == m % 2 = 0

Digits(count) ==
    <<count % 16, (count \div 16) % 16, (count \div 256) % 16, count \div 4096>>

\* What the counter counts down from when it is given a count of 16 bits: in
\* BCD each four bits are a decimal digit, and a digit above 9 is undefined.
CountsFrom(m, count) ==
    LET d == Digits(count)
    IN IF InBinary(m) THEN {count}
       ELSE IF \A i \in 1..4 : d[i] <= 9
            THEN {d[1] + 10 * d[2] + 100 * d[3] + 1000 * d[4]}
            ELSE BadCounts

WriteMSB ==
    /\ pc = "msb"
    /\ divisor' \in CountsFrom(mode, low + 256 * MSB) /\ low' = NONE
    /\ pc' = "idle" /\ result' = 0
    /\ UNCHANGED <<mode, latched, freq, st, fails, initial>>

\* sys_outb or sys_inb fails: the call returns at once.
Fail ==
    /\ pc # "idle" /\ fails < MaxFail
    /\ fails' = fails + 1
    /\ pc' = "idle" /\ result' = 1
    /\ UNCHANGED <<hardware, freq, st, initial>>

Next ==
    \/ \E f \in Frequencies : timer_set_frequency(f)
    \/ ReadBack \/ ReadStatus \/ WriteControl \/ WriteLSB \/ WriteMSB \/ Fail

Spec == Init /\ [][Next]_vars

-----------------------------------------------------------------------------
(* Properties. *)

\* Every variable keeps its range; bytes are bytes and divisors have 16 bits.
TypeOK ==
    /\ mode \in 0..15 /\ initial \in 0..15
    /\ divisor \in Nat \cup {NONE} /\ low \in 0..255 \cup {NONE} /\ latched \in BOOLEAN
    /\ pc \in {"idle", "readback", "status", "control", "lsb", "msb"}
    /\ freq \in Nat /\ st \in 0..255 /\ result \in {NONE, 0, 1} /\ fails \in 0..MaxFail

\* A call that returns 0 on a counter that counts in binary has programmed
\* the divisor the frequency needs, with no bit of it lost between the integer
\* division and the two bytes, whatever calls failed half way before. In BCD,
\* which the call keeps, the two bytes of the divisor stand for another count.
FrequencyIsSet == (result = 0 /\ InBinary(mode)) => divisor = TIMER_FREQ \div freq

\* No call changes how the counter works: its mode and counting base are those
\* it had at the start, also when calls failed between two port accesses.
ModeKept == mode = initial

\* The counter stands still only during a call or after one that returned 1.
StopsOnlyOnFailure == (pc = "idle" /\ divisor = NONE) => result = 1
=============================================================================
