----------------------------- MODULE TimerProofs -----------------------------
(***************************************************************************)
(* The properties of Timer for every frequency of the timer, every set of  *)
(* arguments and any number of failing port accesses.                      *)
(***************************************************************************)
EXTENDS Timer, TLAPS

\* What holds between the port accesses of a call, in addition to the types:
\* the mode read back is the one to restore, and the bytes written so far are
\* those of the divisor.
Inv ==
    /\ TypeOK
    /\ mode = initial
    /\ pc = "status" => latched
    /\ pc = "control" => st % 16 = mode
    /\ pc # "idle" => InRange(freq) /\ result = NONE
    /\ pc = "msb" => low = LSB
    /\ pc \in {"lsb", "msb"} => divisor = NONE
    /\ result = 0 => InRange(freq)
    /\ FrequencyIsSet
    /\ StopsOnlyOnFailure

-----------------------------------------------------------------------------

LEMMA ProductMonotone ==
    ASSUME NEW a \in Nat, NEW b \in Nat, NEW c \in Nat, a >= c
    PROVE  a * b >= c * b
<1> DEFINE d == a - c
<1>1. d \in Nat
  OBVIOUS
<1> HIDE DEF d
<1>2. d * b >= 0
  BY <1>1
<1>3. a = c + d
  BY <1>1 DEF d
<1>4. (c + d) * b = c * b + d * b
  BY <1>1
<1> QED BY <1>1, <1>2, <1>3, <1>4

LEMMA QuotientFits ==
    ASSUME NEW T \in Nat, NEW f \in Nat, f >= 19, T < 19 * 65536
    PROVE  T \div f \in Nat /\ T \div f < 65536
<1> DEFINE q == T \div f
<1>1. q \in Nat /\ f * q <= T
  OBVIOUS
<1> HIDE DEF q
<1>2. f * q >= 19 * q
  BY <1>1, ProductMonotone
<1>3. f * q \in Nat
  BY <1>1
<1>4. 19 * q <= T
  BY <1>1, <1>2, <1>3
<1>5. q < 65536
  BY <1>1, <1>4
<1> QED BY <1>1, <1>5 DEF q

\* A frequency that passes the test has a divisor of 16 bits: 19 is the lowest
\* one that does.
LEMMA DivisorFits ==
    ASSUME NEW f \in Nat, InRange(f)
    PROVE  TIMER_FREQ \div f \in Nat /\ TIMER_FREQ \div f < 65536
BY QuotientFits, FrequencyAssumption, DivisorAssumption DEF InRange

LEMMA BytesOf ==
    ASSUME NEW q \in Nat, q < 65536
    PROVE  /\ q % 65536 = q
           /\ q % 256 \in 0..255 /\ q \div 256 \in Nat
           /\ (q % 256) + 256 * (q \div 256) = q
OBVIOUS

\* No bit of the divisor is lost between the division and the two bytes.
LEMMA TwoBytes ==
    ASSUME freq \in Nat, InRange(freq)
    PROVE  /\ LSB \in 0..255
           /\ LSB + 256 * MSB = TIMER_FREQ \div freq
<1> DEFINE q == TIMER_FREQ \div freq
<1>1. q \in Nat /\ q < 65536
  BY DivisorFits
<1>2. F = q % 65536
  BY DEF F
<1> HIDE DEF q
<1>3. F = q
  BY <1>1, <1>2, BytesOf
<1>4. LSB = q % 256 /\ MSB = q \div 256
  BY <1>3 DEF LSB, MSB
<1>5. q % 256 \in 0..255 /\ (q % 256) + 256 * (q \div 256) = q
  BY <1>1, BytesOf
<1>6. LSB \in 0..255 /\ LSB + 256 * MSB = q
  BY <1>4, <1>5
<1> QED BY <1>6 DEF q

\* The counter counts from a number in either base, and from the count itself
\* in binary.
LEMMA CountsFromType ==
    ASSUME NEW mm \in 0..15, NEW q \in Nat
    PROVE  /\ CountsFrom(mm, q) \subseteq Nat
           /\ InBinary(mm) => CountsFrom(mm, q) = {q}
<1> DEFINE d == Digits(q)
<1>1. d[1] \in Nat /\ d[2] \in Nat /\ d[3] \in Nat /\ d[4] \in Nat
  <2>1. q % 16 \in Nat /\ q \div 16 \in Nat /\ q \div 256 \in Nat /\ q \div 4096 \in Nat
    OBVIOUS
  <2>2. (q \div 16) % 16 \in Nat /\ (q \div 256) % 16 \in Nat
    BY <2>1
  <2> QED BY <2>1, <2>2 DEF Digits
<1> HIDE DEF d
<1>2. d[1] + 10 * d[2] + 100 * d[3] + 1000 * d[4] \in Nat
  BY <1>1
<1>3. PICK b \in Nat : CountsFrom(mm, q) \in {{q}, {b}, BadCounts}
  BY <1>2 DEF CountsFrom, d
<1>4. InBinary(mm) => CountsFrom(mm, q) = {q}
  BY DEF CountsFrom
<1>5. CountsFrom(mm, q) \subseteq Nat
  BY <1>3, BadCountsAssumption
<1> QED BY <1>4, <1>5

LEMMA InitInv == Init => Inv
<1> SUFFICES ASSUME Init PROVE Inv
  OBVIOUS
<1>1. divisor # NONE /\ result # 0
  BY DivisorAssumption, FailAssumption DEF Init
<1>2. mode \in 0..15
  BY ModesAssumption DEF Init
<1>3. TypeOK
  <2>1. latched \in BOOLEAN
    BY DEF Init
  <2>2. mode \in 0..15 /\ initial \in 0..15
    BY <1>2 DEF Init
  <2>3. divisor \in Nat \cup {NONE} /\ low \in 0..255 \cup {NONE}
    BY DivisorAssumption DEF Init
  <2>4. /\ pc \in {"idle", "readback", "status", "control", "lsb", "msb"}
        /\ freq \in Nat /\ st \in 0..255 /\ result \in {NONE, 0, 1} /\ fails \in 0..MaxFail
    BY FailAssumption DEF Init
  <2> QED BY <2>1, <2>2, <2>3, <2>4 DEF TypeOK
<1>4. pc = "idle" /\ mode = initial
  BY DEF Init
<1> QED BY <1>1, <1>3, <1>4 DEF Inv, FrequencyIsSet, StopsOnlyOnFailure

LEMMA StepInv == Inv /\ [Next]_vars => Inv'
<1> SUFFICES ASSUME Inv, [Next]_vars PROVE Inv'
  OBVIOUS
<1> USE FrequencyAssumption, FailAssumption
<1>1. CASE UNCHANGED vars
  BY <1>1 DEF vars, hardware, Inv, TypeOK, FrequencyIsSet, StopsOnlyOnFailure, LSB, F, InRange
<1>2. ASSUME NEW f \in Frequencies, timer_set_frequency(f) PROVE Inv'
  BY <1>2 DEF timer_set_frequency, hardware, Inv, TypeOK, FrequencyIsSet, StopsOnlyOnFailure, InRange
<1>3. CASE ReadBack
  BY <1>3 DEF ReadBack, Inv, TypeOK, FrequencyIsSet, StopsOnlyOnFailure, InRange
<1>4. CASE ReadStatus
  <2>1. PICK u \in {3, 7, 11, 15} : st' = 16 * u + mode
    BY <1>4 DEF ReadStatus, Inv
  <2>2. st' \in 0..255 /\ st' % 16 = mode
    BY <2>1 DEF Inv, TypeOK
  <2>3. /\ pc = "status" /\ pc' = "control"
        /\ mode' = mode /\ divisor' = divisor /\ low' = low /\ freq' = freq
        /\ result' = result /\ fails' = fails /\ initial' = initial
    BY <1>4 DEF ReadStatus
  <2>4. TypeOK'
    <3>1. latched' \in BOOLEAN
      <4>1. latched' = FALSE
        BY <1>4 DEF ReadStatus
      <4> QED BY <4>1, Zenon
    <3> QED BY <2>2, <2>3, <3>1 DEF Inv, TypeOK
  <2> QED BY <2>2, <2>3, <2>4 DEF Inv, FrequencyIsSet, StopsOnlyOnFailure, InRange
<1>5. CASE WriteControl
  <2>1. Control % 16 = mode
    BY <1>5 DEF WriteControl, Control, Inv, TypeOK
  <2> QED BY <1>5, <2>1 DEF WriteControl, Inv, TypeOK, FrequencyIsSet, StopsOnlyOnFailure, InRange
<1>6. CASE WriteLSB
  <2>1. LSB \in 0..255
    BY <1>6, TwoBytes DEF WriteLSB, Inv, TypeOK
  <2>2. LSB' = LSB
    BY <1>6 DEF WriteLSB, LSB, F
  <2> QED BY <1>6, <2>1, <2>2 DEF WriteLSB, Inv, TypeOK, FrequencyIsSet, StopsOnlyOnFailure, InRange
<1>7. CASE WriteMSB
  <2>1. freq \in Nat /\ InRange(freq) /\ low = LSB
    BY <1>7 DEF WriteMSB, Inv, TypeOK
  <2>2. LSB + 256 * MSB = TIMER_FREQ \div freq
    BY <2>1, TwoBytes
  <2>3. TIMER_FREQ \div freq \in Nat
    BY <2>1, DivisorFits
  <2>4. /\ divisor' \in CountsFrom(mode, TIMER_FREQ \div freq)
        /\ mode \in 0..15 /\ mode' = mode /\ freq' = freq
    BY <1>7, <2>1, <2>2 DEF WriteMSB, Inv, TypeOK
  <2>5. divisor' \in Nat
    BY <2>3, <2>4, CountsFromType
  <2>6. InBinary(mode) => divisor' = TIMER_FREQ \div freq
    BY <2>3, <2>4, CountsFromType
  <2>7. FrequencyIsSet'
    BY <2>4, <2>6 DEF FrequencyIsSet
  <2>8. divisor' # NONE
    BY <2>5
  <2> QED BY <1>7, <2>5, <2>7, <2>8 DEF WriteMSB, Inv, TypeOK, StopsOnlyOnFailure, InRange
<1>8. CASE Fail
  BY <1>8 DEF Fail, hardware, Inv, TypeOK, FrequencyIsSet, StopsOnlyOnFailure, InRange
<1> QED BY <1>1, <1>2, <1>3, <1>4, <1>5, <1>6, <1>7, <1>8 DEF Next

LEMMA InvHolds == Spec => []Inv
BY InitInv, StepInv, PTL DEF Spec

-----------------------------------------------------------------------------

\* The bytes written to the timer are bytes, and the counter's divisor is a
\* number or being programmed, whichever port access fails.
THEOREM TimerTypeCorrect == Spec => []TypeOK
<1>1. Inv => TypeOK
  BY DEF Inv
<1> QED BY <1>1, InvHolds, PTL

\* A call of timer_set_frequency that returns 0 has programmed the divisor of
\* its frequency, for every frequency a timer of 16 bits can have, if the
\* counter counts in binary; timer_set_frequency keeps the base it finds.
THEOREM FrequencyIsProgrammed == Spec => []FrequencyIsSet
<1>1. Inv => FrequencyIsSet
  BY DEF Inv
<1> QED BY <1>1, InvHolds, PTL

\* timer_set_frequency gives the counter back the mode timer_get_conf read.
THEOREM ModeIsKept == Spec => []ModeKept
<1>1. Inv => ModeKept
  BY DEF Inv, ModeKept
<1> QED BY <1>1, InvHolds, PTL

\* The counter is left without a divisor by failing calls only.
THEOREM StopNeedsFailure == Spec => []StopsOnlyOnFailure
<1>1. Inv => StopsOnlyOnFailure
  BY DEF Inv
<1> QED BY <1>1, InvHolds, PTL
=============================================================================
