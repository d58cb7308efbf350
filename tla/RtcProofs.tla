------------------------------ MODULE RtcProofs ------------------------------
(***************************************************************************)
(* The properties of Rtc for every date, any number of updates between two *)
(* reads and any number of failing calls; and that of EntryDate, where     *)
(* the dates the clock gives go, for every date and number of loads.       *)
(***************************************************************************)
EXTENDS Rtc, EntryDate, TLAPS

-----------------------------------------------------------------------------
(* Dates. *)

\* The bounds of the seven registers, one by one.
LEMMA DateFields ==
    ASSUME NEW c
    PROVE  IsDate(c) <=>
              /\ c \in Dates
              /\ 0 <= c[1] /\ c[1] <= 59 /\ 0 <= c[2] /\ c[2] <= 59 /\ 0 <= c[3] /\ c[3] <= 23
              /\ 1 <= c[4] /\ c[4] <= 7
              /\ 1 <= c[5] /\ c[5] <= DaysIn(c[6], c[7])
              /\ 1 <= c[6] /\ c[6] <= 12 /\ 0 <= c[7] /\ c[7] <= 99
BY DEF IsDate, Registers, Low, High

LEMMA DateTypes ==
    ASSUME NEW c, IsDate(c)
    PROVE  /\ c \in [Registers -> Nat]
           /\ c[1] \in Nat /\ c[2] \in Nat /\ c[3] \in Nat /\ c[4] \in Nat
           /\ c[5] \in Nat /\ c[6] \in Nat /\ c[7] \in Nat
BY DEF IsDate, Dates, Registers

LEMMA DaysInRange ==
    ASSUME NEW m, NEW y
    PROVE  DaysIn(m, y) \in Nat /\ DaysIn(m, y) >= 28 /\ DaysIn(m, y) <= 31
BY DEF DaysIn

\* The next value of one register, given whether those below are at their
\* highest.
Moved(over, value, low, high) ==
    IF ~over THEN value ELSE IF value = high THEN low ELSE value + 1

LEMMA AfterFields ==
    ASSUME NEW c
    PROVE  LET a == After(c)
               s == c[1] = 59
               m == s /\ c[2] = 59
               h == m /\ c[3] = 23
               d == h /\ c[5] = DaysIn(c[6], c[7])
               y == d /\ c[6] = 12
           IN /\ DOMAIN a = Registers
              /\ a[1] = Moved(TRUE, c[1], 0, 59)
              /\ a[2] = Moved(s, c[2], 0, 59)
              /\ a[3] = Moved(m, c[3], 0, 23)
              /\ a[4] = Moved(h, c[4], 1, 7)
              /\ a[5] = Moved(h, c[5], 1, DaysIn(c[6], c[7]))
              /\ a[6] = Moved(d, c[6], 1, 12)
              /\ a[7] = Moved(y, c[7], 0, 99)
<1> DEFINE a == After(c)
           g == High(c)
<1>1. /\ g[1] = 59 /\ g[2] = 59 /\ g[3] = 23 /\ g[4] = 7
      /\ g[5] = DaysIn(c[6], c[7]) /\ g[6] = 12 /\ g[7] = 99
  BY DEF High
<1>2. /\ Low[1] = 0 /\ Low[2] = 0 /\ Low[3] = 0 /\ Low[4] = 1
      /\ Low[5] = 1 /\ Low[6] = 1 /\ Low[7] = 0
  BY DEF Low
<1>3. /\ Below[1] = {} /\ Below[2] = {1} /\ Below[3] = {1, 2} /\ Below[4] = {1, 2, 3}
      /\ Below[5] = {1, 2, 3} /\ Below[6] = {1, 2, 3, 5} /\ Below[7] = {1, 2, 3, 5, 6}
  BY DEF Below
<1>4. /\ DOMAIN a = Registers
      /\ \A i \in Registers :
            a[i] = IF \E j \in Below[i] : c[j] # g[j] THEN c[i]
                   ELSE IF c[i] = g[i] THEN Low[i] ELSE c[i] + 1
  BY DEF After
<1>5. 1 \in Registers /\ 2 \in Registers /\ 3 \in Registers /\ 4 \in Registers
      /\ 5 \in Registers /\ 6 \in Registers /\ 7 \in Registers
  BY DEF Registers
<1> HIDE DEF a, g
<1>6. a[1] = Moved(TRUE, c[1], 0, 59)
  BY <1>1, <1>2, <1>3, <1>4, <1>5 DEF Moved
<1>7. a[2] = Moved(c[1] = 59, c[2], 0, 59)
  BY <1>1, <1>2, <1>3, <1>4, <1>5 DEF Moved
<1>8. a[3] = Moved(c[1] = 59 /\ c[2] = 59, c[3], 0, 23)
  BY <1>1, <1>2, <1>3, <1>4, <1>5 DEF Moved
<1>9. a[4] = Moved(c[1] = 59 /\ c[2] = 59 /\ c[3] = 23, c[4], 1, 7)
  BY <1>1, <1>2, <1>3, <1>4, <1>5 DEF Moved
<1>10. a[5] = Moved(c[1] = 59 /\ c[2] = 59 /\ c[3] = 23, c[5], 1, DaysIn(c[6], c[7]))
  BY <1>1, <1>2, <1>3, <1>4, <1>5 DEF Moved
<1>11. a[6] = Moved(c[1] = 59 /\ c[2] = 59 /\ c[3] = 23 /\ c[5] = DaysIn(c[6], c[7]), c[6], 1, 12)
  BY <1>1, <1>2, <1>3, <1>4, <1>5 DEF Moved
<1>12. a[7] = Moved(c[1] = 59 /\ c[2] = 59 /\ c[3] = 23 /\ c[5] = DaysIn(c[6], c[7]) /\ c[6] = 12, c[7], 0, 99)
  BY <1>1, <1>2, <1>3, <1>4, <1>5 DEF Moved
<1> QED BY <1>4, <1>6, <1>7, <1>8, <1>9, <1>10, <1>11, <1>12 DEF a, Moved

\* An update takes the clock from a date to a date.
LEMMA AfterIsDate ==
    ASSUME NEW c, IsDate(c)
    PROVE  IsDate(After(c))
<1> DEFINE a == After(c)
           n == DaysIn(c[6], c[7])
<1>1. n \in Nat /\ n >= 28 /\ n <= 31 /\ DaysIn(a[6], a[7]) \in Nat /\ DaysIn(a[6], a[7]) >= 28
  BY DaysInRange
<1>2. (a[6] = c[6] /\ a[7] = c[7]) => DaysIn(a[6], a[7]) = n
  OBVIOUS
<1>3. /\ DOMAIN a = Registers
      /\ a[1] = Moved(TRUE, c[1], 0, 59)
      /\ a[2] = Moved(c[1] = 59, c[2], 0, 59)
      /\ a[3] = Moved(c[1] = 59 /\ c[2] = 59, c[3], 0, 23)
      /\ a[4] = Moved(c[1] = 59 /\ c[2] = 59 /\ c[3] = 23, c[4], 1, 7)
      /\ a[5] = Moved(c[1] = 59 /\ c[2] = 59 /\ c[3] = 23, c[5], 1, n)
      /\ a[6] = Moved(c[1] = 59 /\ c[2] = 59 /\ c[3] = 23 /\ c[5] = n, c[6], 1, 12)
      /\ a[7] = Moved(c[1] = 59 /\ c[2] = 59 /\ c[3] = 23 /\ c[5] = n /\ c[6] = 12, c[7], 0, 99)
  BY AfterFields
<1>4. /\ c[1] \in Nat /\ c[2] \in Nat /\ c[3] \in Nat /\ c[4] \in Nat
      /\ c[5] \in Nat /\ c[6] \in Nat /\ c[7] \in Nat
  BY DateTypes
<1>5. /\ c[1] <= 59 /\ c[2] <= 59 /\ c[3] <= 23 /\ 1 <= c[4] /\ c[4] <= 7
      /\ 1 <= c[5] /\ c[5] <= n /\ 1 <= c[6] /\ c[6] <= 12 /\ c[7] <= 99
  BY DateFields
<1>6. a = [i \in Registers |-> a[i]]
  BY DEF After
<1> HIDE DEF a, n
<1>7. /\ a[1] \in Nat /\ a[1] <= 59 /\ a[2] \in Nat /\ a[2] <= 59 /\ a[3] \in Nat /\ a[3] <= 23
      /\ a[4] \in Nat /\ 1 <= a[4] /\ a[4] <= 7
  BY <1>3, <1>4, <1>5 DEF Moved
<1>8. /\ a[6] \in Nat /\ 1 <= a[6] /\ a[6] <= 12 /\ a[7] \in Nat /\ a[7] <= 99
  BY <1>1, <1>3, <1>4, <1>5 DEF Moved
<1>9. a[5] \in Nat /\ 1 <= a[5] /\ a[5] <= DaysIn(a[6], a[7]) /\ a[5] <= 31
  <2>1. CASE c[1] = 59 /\ c[2] = 59 /\ c[3] = 23 /\ c[5] = n
    <3>1. a[5] = 1
      BY <1>3, <2>1 DEF Moved
    <3> QED BY <3>1, <1>1
  <2>2. CASE ~(c[1] = 59 /\ c[2] = 59 /\ c[3] = 23 /\ c[5] = n)
    <3>1. a[6] = c[6] /\ a[7] = c[7]
      BY <1>3, <2>2 DEF Moved
    <3>2. a[5] \in Nat /\ 1 <= a[5] /\ a[5] <= n
      BY <1>1, <1>3, <1>4, <1>5, <2>2 DEF Moved
    <3> QED BY <3>1, <3>2, <1>1, <1>2
  <2> QED BY <2>1, <2>2
<1>10. \A i \in Registers : a[i] \in 0..99
  BY <1>7, <1>8, <1>9 DEF Registers
<1>11. a \in Dates
  BY <1>6, <1>10 DEF Dates
<1> QED BY <1>7, <1>8, <1>9, <1>11, DateFields DEF a

-----------------------------------------------------------------------------
(* The order of dates. *)

Compared == Registers \ {4}
Numbers == [Registers -> Nat]

LEMMA EarlierTransitive ==
    ASSUME NEW a \in Numbers, NEW b \in Numbers, NEW c \in Numbers,
           Earlier(a, b), Earlier(b, c)
    PROVE  Earlier(a, c)
<1>1. \A i \in Registers : a[i] \in Nat /\ b[i] \in Nat /\ c[i] \in Nat
  BY DEF Numbers
<1>2. PICK i \in Compared : a[i] < b[i] /\ \A j \in Compared : j > i => a[j] = b[j]
  BY DEF Earlier, Compared
<1>3. PICK k \in Compared : b[k] < c[k] /\ \A j \in Compared : j > k => b[j] = c[j]
  BY DEF Earlier, Compared
<1>4. i \in Int /\ k \in Int /\ i \in Registers /\ k \in Registers
      /\ \A j \in Compared : j \in Int /\ j \in Registers
  BY DEF Compared, Registers
<1>5. CASE i < k
  <2>1. a[k] < c[k]
    BY <1>2, <1>3, <1>4, <1>5
  <2>2. \A j \in Compared : j > k => a[j] = c[j]
    BY <1>2, <1>3, <1>4, <1>5
  <2> QED BY <2>1, <2>2 DEF Earlier, Compared
<1>6. CASE i >= k
  <2>1. a[i] < c[i]
    <3>1. b[i] <= c[i]
      BY <1>1, <1>3, <1>4, <1>6
    <3> QED BY <1>1, <1>2, <1>4, <3>1
  <2>2. \A j \in Compared : j > i => a[j] = c[j]
    BY <1>2, <1>3, <1>4, <1>6
  <2> QED BY <2>1, <2>2 DEF Earlier, Compared
<1> QED BY <1>4, <1>5, <1>6

LEMMA EarlierIrreflexive ==
    ASSUME NEW a \in Numbers
    PROVE  ~Earlier(a, a)
BY DEF Earlier, Numbers, Registers

LEMMA EarlierSameFields ==
    ASSUME NEW a, NEW b, NEW c, \A i \in Compared : a[i] = b[i]
    PROVE  Earlier(a, c) <=> Earlier(b, c)
BY DEF Earlier, Compared

\* Where an update stops carrying: the register moves up, those above stay.
LEMMA UpdateIsLater ==
    ASSUME NEW c, IsDate(c), After(c)[7] >= c[7]
    PROVE  \E k \in Compared : c[k] < After(c)[k] /\ \A j \in Compared : j > k => After(c)[j] = c[j]
<1> DEFINE a == After(c)
           n == DaysIn(c[6], c[7])
<1>1. n \in Nat /\ n >= 28
  BY DaysInRange
<1>3. /\ a[1] = Moved(TRUE, c[1], 0, 59)
      /\ a[2] = Moved(c[1] = 59, c[2], 0, 59)
      /\ a[3] = Moved(c[1] = 59 /\ c[2] = 59, c[3], 0, 23)
      /\ a[5] = Moved(c[1] = 59 /\ c[2] = 59 /\ c[3] = 23, c[5], 1, n)
      /\ a[6] = Moved(c[1] = 59 /\ c[2] = 59 /\ c[3] = 23 /\ c[5] = n, c[6], 1, 12)
      /\ a[7] = Moved(c[1] = 59 /\ c[2] = 59 /\ c[3] = 23 /\ c[5] = n /\ c[6] = 12, c[7], 0, 99)
  BY AfterFields
<1>4. /\ c[1] \in Nat /\ c[2] \in Nat /\ c[3] \in Nat
      /\ c[5] \in Nat /\ c[6] \in Nat /\ c[7] \in Nat
  BY DateTypes
<1>5. a[7] >= c[7]
  OBVIOUS
<1>6. Compared = {1, 2, 3, 5, 6, 7}
  BY DEF Compared, Registers
<1> HIDE DEF a, n
<1>7. CASE c[1] # 59
  BY <1>3, <1>4, <1>6, <1>7 DEF Moved, a
<1>8. CASE c[1] = 59 /\ c[2] # 59
  <2>1. c[2] < a[2] /\ \A j \in Compared : j > 2 => a[j] = c[j]
    BY <1>3, <1>4, <1>6, <1>8 DEF Moved
  <2> QED BY <2>1, <1>6 DEF a
<1>9. CASE c[1] = 59 /\ c[2] = 59 /\ c[3] # 23
  <2>1. c[3] < a[3] /\ \A j \in Compared : j > 3 => a[j] = c[j]
    BY <1>3, <1>4, <1>6, <1>9 DEF Moved
  <2> QED BY <2>1, <1>6 DEF a
<1>10. CASE c[1] = 59 /\ c[2] = 59 /\ c[3] = 23 /\ c[5] # n
  <2>1. c[5] < a[5] /\ \A j \in Compared : j > 5 => a[j] = c[j]
    BY <1>3, <1>4, <1>6, <1>10 DEF Moved
  <2> QED BY <2>1, <1>6 DEF a
<1>11. CASE c[1] = 59 /\ c[2] = 59 /\ c[3] = 23 /\ c[5] = n /\ c[6] # 12
  <2>1. c[6] < a[6] /\ \A j \in Compared : j > 6 => a[j] = c[j]
    BY <1>3, <1>4, <1>6, <1>11 DEF Moved
  <2> QED BY <2>1, <1>6 DEF a
<1>12. CASE c[1] = 59 /\ c[2] = 59 /\ c[3] = 23 /\ c[5] = n /\ c[6] = 12
  <2>1. c[7] < a[7] /\ \A j \in Compared : j > 7 => a[j] = c[j]
    <3>1. c[7] # 99
      BY <1>3, <1>4, <1>5, <1>12 DEF Moved
    <3> QED BY <3>1, <1>3, <1>4, <1>6, <1>12 DEF Moved
  <2> QED BY <2>1, <1>6 DEF a
<1> QED BY <1>7, <1>8, <1>9, <1>10, <1>11, <1>12

-----------------------------------------------------------------------------
(* The inductive invariant. *)

LEMMA BcdRoundTrip ==
    ASSUME NEW n \in Nat, n <= 99
    PROVE  /\ bcd_to_dec(16 * (n \div 10) + (n % 10)) = n
           /\ 16 * (n \div 10) + (n % 10) \in 0..255
BY DEF bcd_to_dec

\* The date the call would return if no further update came: registers it has
\* read, and those of the clock it has not read yet.
Mixed == [i \in Registers |-> IF i < next THEN bcd_to_dec(raw[i]) ELSE clock[i]]

Inv ==
    /\ TypeOK
    /\ (next # 0 /\ window = "none") => ~uip
    /\ (next # 0 /\ window # "rolled") => Mixed = from /\ clock = from
    /\ (next # 0 /\ ~wrapped) => ~Earlier(Mixed, from)
    /\ next # 0 => result = NONE
    /\ WholeIfQuick
    /\ NeverEarly

LEMMA MixedIsNumbers ==
    ASSUME TypeOK
    PROVE  Mixed \in Numbers /\ from \in Numbers /\ clock \in Numbers
<1>1. \A i \in Registers : raw[i] \in 0..255
  BY DEF TypeOK
<1>2. \A n \in 0..255 : bcd_to_dec(n) \in Nat
  BY DEF bcd_to_dec
<1>3. clock \in Numbers /\ from \in Numbers
  BY DateTypes DEF TypeOK, Numbers
<1> QED BY <1>1, <1>2, <1>3 DEF Mixed, Numbers

LEMMA InitInv == Init => Inv
<1> SUFFICES ASSUME Init PROVE Inv
  OBVIOUS
<1>1. IsDate(clock) /\ IsDate(from)
  BY StartsAssumption DEF Init
<1>2. uip \in BOOLEAN /\ wrapped \in BOOLEAN
  BY DEF Init
<1>3. /\ next = 0 /\ raw \in [Registers -> 0..255] /\ rtc_dt \in [Registers -> Nat]
      /\ result = NONE /\ ticks \in Nat /\ fails \in 0..MaxFail
      /\ window \in {"none", "announced", "rolled"}
  BY GarbageAssumption, BoundsAssumption DEF Init
<1>4. TypeOK
  BY <1>1, <1>2, <1>3 DEF TypeOK
<1> QED BY <1>3, <1>4, BoundsAssumption DEF Inv, WholeIfQuick, NeverEarly

LEMMA AnnounceInv == Inv /\ Announce => Inv'
<1> SUFFICES ASSUME Inv, Announce PROVE Inv'
  OBVIOUS
<1>1. uip' = TRUE /\ window' = IF window = "none" THEN "announced" ELSE window
  BY DEF Announce
<1>2. UNCHANGED <<clock, ticks, next, raw, rtc_dt, result, fails, from, wrapped>>
  BY DEF Announce
<1>3. uip' \in BOOLEAN
  BY <1>1, Zenon
<1>4. TypeOK'
  BY <1>1, <1>2, <1>3 DEF Inv, TypeOK
<1>5. Mixed' = Mixed
  BY <1>2 DEF Mixed
<1>6. window' # "none" /\ (window' # "rolled" => window # "rolled")
  BY <1>1 DEF Inv, TypeOK
<1> QED BY <1>2, <1>4, <1>5, <1>6 DEF Inv, WholeIfQuick, NeverEarly

LEMMA RollInv == Inv /\ Roll => Inv'
<1> SUFFICES ASSUME Inv, Roll PROVE Inv'
  OBVIOUS
<1>1. uip /\ clock' = After(clock) /\ uip' = FALSE /\ ticks' = ticks + 1
  BY DEF Roll
<1>2. window' = IF window = "announced" THEN "rolled" ELSE window
  BY DEF Roll
<1>3. next' = next /\ raw' = raw /\ rtc_dt' = rtc_dt /\ result' = result
      /\ fails' = fails /\ from' = from
  BY DEF Roll
<1>4. wrapped' = (wrapped \/ clock'[7] < clock[7])
  BY DEF Roll
<1>5. TypeOK'
  <2>1. IsDate(clock')
    BY <1>1, AfterIsDate DEF Inv, TypeOK
  <2>2. uip' \in BOOLEAN
    BY <1>1, Zenon
  <2>3. wrapped' \in BOOLEAN
    BY <1>4
  <2>4. /\ IsDate(from') /\ window' \in {"none", "announced", "rolled"} /\ ticks' \in Nat
        /\ next' \in 0..8 /\ raw' \in [Registers -> 0..255] /\ rtc_dt' \in [Registers -> Nat]
        /\ result' \in {NONE, 0, 1} /\ fails' \in 0..MaxFail
    BY <1>1, <1>2, <1>3 DEF Inv, TypeOK
  <2> QED BY <2>1, <2>2, <2>3, <2>4 DEF TypeOK
<1>6. next # 0 => window' = "rolled"
  BY <1>1, <1>2 DEF Inv, TypeOK
<1>7. ASSUME next # 0, ~wrapped' PROVE ~Earlier(Mixed', from)
  <2>1. ~wrapped /\ ~(clock'[7] < clock[7])
    BY <1>4, <1>7
  <2>2. IsDate(clock) /\ IsDate(clock')
    BY <1>5 DEF Inv, TypeOK
  <2>3. After(clock)[7] >= clock[7]
    BY <1>1, <2>1, <2>2, DateTypes
  <2>4. PICK k \in Compared :
            clock[k] < clock'[k] /\ \A j \in Compared : j > k => clock'[j] = clock[j]
    BY <1>1, <2>2, <2>3, UpdateIsLater
  <2>5. ~Earlier(Mixed, from)
    BY <1>7, <2>1 DEF Inv
  <2>6. Mixed \in Numbers /\ from \in Numbers /\ Mixed' \in Numbers
    <3>1. Mixed \in Numbers /\ from \in Numbers
      BY MixedIsNumbers DEF Inv
    <3>2. (TypeOK => Mixed \in Numbers)'
      BY MixedIsNumbers, PTL
    <3> QED BY <1>5, <3>1, <3>2
  <2>7. \A i \in Registers : /\ i < next => Mixed'[i] = Mixed[i]
                             /\ ~(i < next) => Mixed[i] = clock[i] /\ Mixed'[i] = clock'[i]
    BY <1>3 DEF Mixed
  <2>8. k \in Registers /\ k \in Int /\ next \in Int
        /\ \A j \in Compared : j \in Registers /\ j \in Int
    BY DEF Compared, Registers, Inv, TypeOK
  <2>9. CASE k < next
    <3>1. \A i \in Compared : Mixed'[i] = Mixed[i]
      BY <2>4, <2>7, <2>8, <2>9
    <3> QED BY <2>5, <3>1, EarlierSameFields
  <2>10. CASE ~(k < next)
    <3>1. Mixed[k] < Mixed'[k] /\ \A j \in Compared : j > k => Mixed[j] = Mixed'[j]
      BY <2>4, <2>7, <2>8, <2>10
    <3>2. Earlier(Mixed, Mixed')
      BY <3>1 DEF Earlier, Compared
    <3> QED BY <2>5, <2>6, <3>2, EarlierTransitive
  <2> QED BY <2>9, <2>10
<1>8. WholeIfQuick'
  BY <1>2, <1>3 DEF Inv, WholeIfQuick
<1>9. NeverEarly'
  BY <1>3, <1>4 DEF Inv, NeverEarly
<1>10. (next # 0 => result = NONE)'
  BY <1>3 DEF Inv
<1> QED BY <1>3, <1>5, <1>6, <1>7, <1>8, <1>9, <1>10 DEF Inv

LEMMA TestFlagInv == ASSUME NEW null \in BOOLEAN PROVE Inv /\ TestFlag(null) => Inv'
<1> SUFFICES ASSUME Inv, TestFlag(null) PROVE Inv'
  OBVIOUS
<1>1. /\ next = 0 /\ from' = clock /\ window' = "none" /\ clock' = clock /\ raw' = raw
      /\ rtc_dt' = rtc_dt /\ ticks' = ticks /\ fails' = fails
  BY DEF TestFlag, hardware
<1>2. \/ next' = 0 /\ result' = 1
      \/ next' = 1 /\ result' = NONE /\ ~uip
  BY DEF TestFlag, Return, rtc_update_in_progress
<1>3. uip' = uip /\ wrapped' = FALSE
  BY DEF TestFlag, hardware
<1>4. TypeOK'
  <2>1. uip' \in BOOLEAN /\ wrapped' \in BOOLEAN
    BY <1>3 DEF Inv, TypeOK
  <2> QED BY <1>1, <1>2, <2>1 DEF Inv, TypeOK
<1>5. WholeIfQuick' /\ NeverEarly'
  BY <1>2, BoundsAssumption DEF WholeIfQuick, NeverEarly
<1>6. CASE next' = 0
  BY <1>4, <1>5, <1>6 DEF Inv
<1>7. CASE next' = 1
  <2>1. clock \in Numbers
    BY MixedIsNumbers DEF Inv
  <2>2. Mixed' = clock
    BY <1>1, <1>7, <2>1 DEF Mixed, Numbers, Registers
  <2>3. ~Earlier(Mixed', from')
    BY <1>1, <2>1, <2>2, EarlierIrreflexive
  <2>4. ~uip' /\ result' = NONE
    BY <1>2, <1>3, <1>7
  <2> QED BY <1>1, <1>4, <1>5, <2>2, <2>3, <2>4 DEF Inv
<1> QED BY <1>2, <1>6, <1>7

LEMMA ReadRegisterInv == Inv /\ ReadRegister => Inv'
<1> SUFFICES ASSUME Inv, ReadRegister PROVE Inv'
  OBVIOUS
<1>1. /\ next \in Registers /\ raw' = [raw EXCEPT ![next] = Register(next)] /\ next' = next + 1
      /\ clock' = clock /\ ticks' = ticks /\ rtc_dt' = rtc_dt /\ result' = result
      /\ fails' = fails /\ from' = from /\ window' = window
  BY DEF ReadRegister, hardware
<1>2. uip' = uip /\ wrapped' = wrapped
  BY DEF ReadRegister, hardware
<1>3. raw \in [Registers -> 0..255] /\ clock[next] \in Nat /\ clock[next] <= 99
  BY <1>1 DEF Inv, TypeOK, IsDate, Dates
<1>4. Register(next) \in 0..255 /\ bcd_to_dec(Register(next)) = clock[next]
  BY <1>3, BcdRoundTrip DEF Register
<1>5. TypeOK'
  <2>1. uip' \in BOOLEAN /\ wrapped' \in BOOLEAN
    BY <1>2 DEF Inv, TypeOK
  <2>2. raw' \in [Registers -> 0..255]
    BY <1>1, <1>3, <1>4
  <2>3. next' \in 0..8
    BY <1>1 DEF Registers
  <2> QED BY <1>1, <2>1, <2>2, <2>3 DEF Inv, TypeOK
<1>6. Mixed' = Mixed
  <2>1. \A i \in Registers : Mixed'[i] = Mixed[i]
    <3> SUFFICES ASSUME NEW i \in Registers PROVE Mixed'[i] = Mixed[i]
      OBVIOUS
    <3>1. i \in Int /\ next \in Int
      BY <1>1 DEF Registers
    <3>2. CASE i = next
      <4>1. raw'[i] = Register(next) /\ i < next' /\ ~(i < next)
        BY <1>1, <1>3, <3>1, <3>2
      <4>2. Mixed'[i] = bcd_to_dec(raw'[i]) /\ Mixed[i] = clock[i]
        BY <4>1 DEF Mixed
      <4> QED BY <1>4, <3>2, <4>1, <4>2
    <3>3. CASE i # next
      <4>1. raw'[i] = raw[i] /\ (i < next' <=> i < next)
        BY <1>1, <1>3, <3>1, <3>3
      <4> QED BY <1>1, <4>1 DEF Mixed
    <3> QED BY <3>2, <3>3
  <2> QED BY <2>1 DEF Mixed
<1>7. next # 0 /\ next' # 0
  BY <1>1 DEF Registers
<1>8. result # 0
  BY <1>7, BoundsAssumption DEF Inv
<1> QED BY <1>1, <1>2, <1>5, <1>6, <1>7, <1>8 DEF Inv, WholeIfQuick, NeverEarly

LEMMA FailInv == Inv /\ Fail => Inv'
<1> SUFFICES ASSUME Inv, Fail PROVE Inv'
  OBVIOUS
<1>1. /\ fails < MaxFail /\ fails' = fails + 1 /\ next' = 0 /\ result' = 1
      /\ clock' = clock /\ ticks' = ticks /\ raw' = raw /\ rtc_dt' = rtc_dt
      /\ from' = from /\ window' = window
  BY DEF Fail, Return, hardware
<1>2. uip' = uip /\ wrapped' = wrapped
  BY DEF Fail, hardware
<1>3. uip' \in BOOLEAN /\ wrapped' \in BOOLEAN
  BY <1>2 DEF Inv, TypeOK
<1>4. TypeOK'
  BY <1>1, <1>3, BoundsAssumption DEF Inv, TypeOK
<1> QED BY <1>1, <1>4 DEF Inv, WholeIfQuick, NeverEarly

LEMMA AssignInv == Inv /\ Assign => Inv'
<1> SUFFICES ASSUME Inv, Assign PROVE Inv'
  OBVIOUS
<1>1. /\ next = 8 /\ rtc_dt' = [i \in Registers |-> bcd_to_dec(raw[i])] /\ next' = 0 /\ result' = 0
      /\ clock' = clock /\ ticks' = ticks /\ raw' = raw /\ fails' = fails
      /\ from' = from /\ window' = window
  BY DEF Assign, Return, hardware
<1>2. uip' = uip /\ wrapped' = wrapped
  BY DEF Assign, hardware
<1>3. rtc_dt' = Mixed
  BY <1>1 DEF Mixed, Registers
<1>4. rtc_dt' \in [Registers -> Nat]
  BY <1>3, MixedIsNumbers DEF Inv, Numbers
<1>5. uip' \in BOOLEAN /\ wrapped' \in BOOLEAN
  BY <1>2 DEF Inv, TypeOK
<1>6. TypeOK'
  BY <1>1, <1>4, <1>5 DEF Inv, TypeOK
<1>7. WholeIfQuick'
  BY <1>1, <1>3 DEF Inv, WholeIfQuick
<1>8. NeverEarly'
  BY <1>1, <1>2, <1>3 DEF Inv, NeverEarly
<1> QED BY <1>1, <1>6, <1>7, <1>8 DEF Inv

LEMMA StutterInv == Inv /\ UNCHANGED vars => Inv'
<1> SUFFICES ASSUME Inv, UNCHANGED vars PROVE Inv'
  OBVIOUS
<1>1. Mixed' = Mixed
  BY DEF Mixed, vars, hardware
<1> QED BY <1>1 DEF Inv, TypeOK, WholeIfQuick, NeverEarly, vars, hardware

LEMMA InvHolds == Spec => []Inv
<1>1. Inv /\ [Next]_vars => Inv'
  BY AnnounceInv, RollInv, TestFlagInv, ReadRegisterInv, FailInv, AssignInv, StutterInv DEF Next
<1> QED BY <1>1, InitInv, PTL DEF Spec

-----------------------------------------------------------------------------

\* The clock keeps a date of the calendar, and the driver's variables their
\* types, for every start.
THEOREM RtcTypeCorrect == Spec => []TypeOK
<1>1. Inv => TypeOK
  BY DEF Inv
<1> QED BY <1>1, InvHolds, PTL

\* rtc_read_date_time is right when no announced update overtakes it.
THEOREM QuickReadsAreWhole == Spec => []WholeIfQuick
<1>1. Inv => WholeIfQuick
  BY DEF Inv
<1> QED BY <1>1, InvHolds, PTL

\* Held up for any time, rtc_read_date_time never returns a date earlier than
\* that of the call.
THEOREM ReadsAreNeverEarly == Spec => []NeverEarly
<1>1. Inv => NeverEarly
  BY DEF Inv
<1> QED BY <1>1, InvHolds, PTL

\* A call of rtc_read_date_time that fails at any register leaves the struct of
\* its caller alone.
THEOREM FailuresKeepTheDate == Spec => FailureKeepsDate
<1>1. [Next]_vars => [result' = 1 => rtc_dt' = rtc_dt]_vars
  BY DEF Next, Announce, Roll, TestFlag, ReadRegister, Fail, Assign, Return, hardware, vars
<1> QED BY <1>1, PTL DEF Spec, FailureKeepsDate

-----------------------------------------------------------------------------
(* The date of an entry in the file (module EntryDate). The calendar       *)
(* repeats after 400 years, so 2000 years change neither the place of a    *)
(* date in its year nor the length of its months.                          *)

LEMMA DaysBeforeInt ==
    ASSUME NEW y \in Nat
    PROVE  DaysBefore(y) \in Nat
BY DEF DaysBefore

LEMMA DaysBeforeGrows ==
    ASSUME NEW a \in Nat, NEW b \in Nat, a <= b
    PROVE  DaysBefore(a) <= DaysBefore(b)
BY DEF DaysBefore

LEMMA DaysBeforeEra ==
    ASSUME NEW r \in Nat, NEW q \in Nat
    PROVE  DaysBefore(400 * q + r) = 146097 * q + DaysBefore(r)
BY DEF DaysBefore

LEMMA YearLength ==
    ASSUME NEW y \in Nat
    PROVE  DaysBefore(y + 1) - DaysBefore(y) = IF IsLeap(y + 1) THEN 366 ELSE 365
BY DEF DaysBefore, IsLeap

LEMMA LeapRepeats ==
    ASSUME NEW y \in Nat, NEW k \in Nat
    PROVE  IsLeap(2000 * k + y) <=> IsLeap(y)
BY DEF IsLeap

LEMMA MonthTable ==
    /\ DaysBeforeMonth(0) = 0 /\ DaysBeforeMonth(1) = 31 /\ DaysBeforeMonth(2) = 61
    /\ DaysBeforeMonth(3) = 92 /\ DaysBeforeMonth(4) = 122 /\ DaysBeforeMonth(5) = 153
    /\ DaysBeforeMonth(6) = 184 /\ DaysBeforeMonth(7) = 214 /\ DaysBeforeMonth(8) = 245
    /\ DaysBeforeMonth(9) = 275 /\ DaysBeforeMonth(10) = 306
    /\ DaysBeforeMonth(11) = 337
BY DEF DaysBeforeMonth

LEMMA MonthGrows ==
    ASSUME NEW a \in 0..11, NEW b \in 0..11, a < b
    PROVE  /\ DaysBeforeMonth(a) \in Int /\ DaysBeforeMonth(a + 1) \in Int
           /\ DaysBeforeMonth(b) \in Int
           /\ DaysBeforeMonth(a + 1) <= DaysBeforeMonth(b)
BY DEF DaysBeforeMonth

\* The first guess of the year is at most one off: the mean year of the
\* calendar has 146097 / 400 days.
LEMMA GuessIsClose ==
    ASSUME NEW y \in Nat, NEW days \in Nat,
           DaysBefore(y) <= days, days < DaysBefore(y + 1)
    PROVE  LET guess == 400 * (days \div 146097)
                        + (400 * (days % 146097)) \div 146097
           IN guess \in Nat /\ y \in guess - 1..guess + 1
<1> DEFINE q == y \div 400
           r == y % 400
           t == days - 146097 * q
<1>1. q \in Nat /\ r \in Nat /\ r < 400 /\ y = 400 * q + r
  OBVIOUS
<1> HIDE DEF q, r
<1>2. DaysBefore(y) = 146097 * q + DaysBefore(r)
  BY <1>1, DaysBeforeEra
<1>3. DaysBefore(y + 1) = 146097 * q + DaysBefore(r + 1)
  <2>1. y + 1 = 400 * q + (r + 1) /\ r + 1 \in Nat
    BY <1>1
  <2> QED BY <2>1, <1>1, DaysBeforeEra
<1>4. DaysBefore(r) \in Nat /\ DaysBefore(r + 1) \in Nat
  BY <1>1, DaysBeforeInt
<1>5. t \in Int /\ DaysBefore(r) <= t /\ t < DaysBefore(r + 1)
  BY <1>1, <1>2, <1>3, <1>4
<1>6. DaysBefore(r + 1) <= 146097
  BY <1>1 DEF DaysBefore
<1>7. 0 <= t /\ t < 146097 /\ t \in Nat /\ days = 146097 * q + t
  BY <1>1, <1>4, <1>5, <1>6
<1> HIDE DEF t
<1>8. days \div 146097 = q /\ days % 146097 = t
  BY <1>1, <1>7
<1>9. 146096 * r - 300 <= 400 * DaysBefore(r)
  BY <1>1 DEF DaysBefore
<1>10. 400 * DaysBefore(r + 1) <= 146096 * (r + 1) + 796
  BY <1>1 DEF DaysBefore
<1>11. 146096 * r - 300 <= 400 * t /\ 400 * t <= 146096 * (r + 1) + 796
  BY <1>1, <1>4, <1>5, <1>7, <1>9, <1>10
<1>12. (400 * t) \div 146097 \in Nat /\ (400 * t) \div 146097 >= r - 1
       /\ (400 * t) \div 146097 <= r + 1
  BY <1>1, <1>7, <1>11
<1> QED BY <1>1, <1>8, <1>12

\* gmtime finds the year and the month a day is in.
LEMMA GmtimeIs ==
    ASSUME NEW y \in Nat, NEW m \in 0..11, NEW d \in Nat,
           DaysBeforeMonth(m) <= d, m < 11 => d < DaysBeforeMonth(m + 1),
           d < DaysBefore(y + 1) - DaysBefore(y)
    PROVE  gmtime(DaysBefore(y) + d) =
              [tm_mday |-> d - DaysBeforeMonth(m) + 1,
               tm_mon |-> (m + 2) % 12,
               tm_year |-> y + (IF m >= 10 THEN 1 ELSE 0) - 1900]
<1> DEFINE days == DaysBefore(y) + d
           guess == 400 * (days \div 146097) + (400 * (days % 146097)) \div 146097
           In(z) == DaysBefore(z) <= days /\ days < DaysBefore(z + 1)
           At(k) == DaysBeforeMonth(k) <= d /\ (k < 11 => d < DaysBeforeMonth(k + 1))
<1>1. DaysBefore(y) \in Nat /\ DaysBefore(y + 1) \in Nat
  BY DaysBeforeInt
<1>2. days \in Nat /\ In(y)
  BY <1>1
<1>3. guess \in Nat /\ y \in guess - 1..guess + 1
  <2> HIDE DEF days
  <2> QED BY <1>2, GuessIsClose
<1>4. ASSUME NEW z \in guess - 1..guess + 1, In(z)
      PROVE  z = y
  <2>0. guess \in Nat
    BY <1>3
  <2> HIDE DEF guess
  <2>1. z \in Int
    BY <2>0
  <2>2. CASE z = -1
    <3>1. DaysBefore(z + 1) = 0
      BY <2>2 DEF DaysBefore
    <3> QED BY <3>1, <1>2, <1>4
  <2>3. CASE z \in Nat /\ z < y
    <3>1. DaysBefore(z + 1) <= DaysBefore(y)
      BY <2>3, DaysBeforeGrows
    <3>2. DaysBefore(z + 1) \in Nat
      BY <2>3, DaysBeforeInt
    <3> QED BY <3>1, <3>2, <1>1, <1>2, <1>4
  <2>4. CASE z \in Nat /\ y < z
    <3>1. DaysBefore(y + 1) <= DaysBefore(z)
      BY <2>4, DaysBeforeGrows
    <3>2. DaysBefore(z) \in Nat
      BY <2>4, DaysBeforeInt
    <3> QED BY <3>1, <3>2, <1>1, <1>2, <1>4
  <2>5. z = -1 \/ z \in Nat
    BY <2>0
  <2> QED BY <2>1, <2>2, <2>3, <2>4, <2>5
<1>5. ASSUME NEW k \in 0..11, At(k)
      PROVE  k = m
  <2>1. CASE k < m
    BY <2>1, <1>5, MonthGrows
  <2>2. CASE m < k
    BY <2>2, <1>5, MonthGrows
  <2> QED BY <2>1, <2>2
<1>6. (CHOOSE z \in guess - 1..guess + 1 : In(z)) = y
  <2> HIDE DEF guess, In
  <2> QED BY <1>2, <1>3, <1>4
<1>7. (CHOOSE k \in 0..11 : At(k)) = m
  <2>1. At(m)
    OBVIOUS
  <2> HIDE DEF At
  <2> QED BY <2>1, <1>5
<1>8. days - DaysBefore(y) = d
  BY <1>1
<1> DEFINE Y == CHOOSE z \in guess - 1..guess + 1 : In(z)
           D == days - DaysBefore(Y)
           M == CHOOSE k \in 0..11 : /\ DaysBeforeMonth(k) <= D
                                     /\ k < 11 => D < DaysBeforeMonth(k + 1)
<1>9. gmtime(days) = [tm_mday |-> D - DaysBeforeMonth(M) + 1,
                        tm_mon |-> (M + 2) % 12,
                        tm_year |-> Y + (IF M >= 10 THEN 1 ELSE 0) - 1900]
  BY DEF gmtime
<1> HIDE DEF days
<1>10. Y = y
  BY <1>6
<1> HIDE DEF Y
<1>11. D = d
  BY <1>8, <1>10
<1> HIDE DEF D
<1>12. M = m
  BY <1>7, <1>11
<1> HIDE DEF M
<1> QED BY <1>9, <1>10, <1>11, <1>12 DEF days

Date(day, month, year) == [day |-> day, month |-> month, year |-> year]

MarchMonth(month) == (month + 9) % 12
MarchYear(month, year) == year - (IF month < 3 THEN 1 ELSE 0)

LEMMA MarchMonths ==
    /\ MarchMonth(1) = 10 /\ MarchMonth(2) = 11 /\ MarchMonth(3) = 0 /\ MarchMonth(4) = 1
    /\ MarchMonth(5) = 2 /\ MarchMonth(6) = 3 /\ MarchMonth(7) = 4 /\ MarchMonth(8) = 5
    /\ MarchMonth(9) = 6 /\ MarchMonth(10) = 7 /\ MarchMonth(11) = 8 /\ MarchMonth(12) = 9
BY DEF MarchMonth

LEMMA MonthLengths ==
    ASSUME NEW year
    PROVE  /\ MonthLength(1, year) = 31
           /\ MonthLength(2, year) = IF IsLeap(year) THEN 29 ELSE 28
           /\ MonthLength(3, year) = 31 /\ MonthLength(4, year) = 30
           /\ MonthLength(5, year) = 31 /\ MonthLength(6, year) = 30
           /\ MonthLength(7, year) = 31 /\ MonthLength(8, year) = 31
           /\ MonthLength(9, year) = 30 /\ MonthLength(10, year) = 31
           /\ MonthLength(11, year) = 30 /\ MonthLength(12, year) = 31
BY DEF MonthLength

LEMMA MonthLengthRange ==
    ASSUME NEW month \in 1..12, NEW year
    PROVE  MonthLength(month, year) \in 28..31
BY DEF MonthLength

\* Where a date of the calendar lies in its year from March to February.
LEMMA PlaceInYear ==
    ASSUME NEW month \in 1..12, NEW year \in Nat, year >= 1,
           NEW day \in Nat, 1 <= day, day <= MonthLength(month, year)
    PROVE  LET m == MarchMonth(month)
               y == MarchYear(month, year)
               d == DaysBeforeMonth(m) + day - 1
           IN /\ m \in 0..11 /\ y \in Nat /\ d \in Nat
              /\ DaysBeforeMonth(m) \in Nat
              /\ DaysBeforeMonth(m) <= d
              /\ m < 11 => d < DaysBeforeMonth(m + 1)
              /\ d < DaysBefore(y + 1) - DaysBefore(y)
              /\ (m + 2) % 12 = month - 1
              /\ m >= 10 <=> month < 3
<1> DEFINE m == MarchMonth(month)
           y == MarchYear(month, year)
           d == DaysBeforeMonth(m) + day - 1
<1>1. y \in Nat /\ (month < 3 => y + 1 = year)
  BY DEF MarchYear
<1> HIDE DEF y
<1>2. /\ DaysBefore(y + 1) \in Nat /\ DaysBefore(y) \in Nat
      /\ DaysBefore(y + 1) - DaysBefore(y) >= 365
      /\ (month = 2 /\ IsLeap(year)) => DaysBefore(y + 1) - DaysBefore(y) = 366
  <2>1. DaysBefore(y + 1) \in Nat /\ DaysBefore(y) \in Nat
    <3>1. y + 1 \in Nat
      BY <1>1
    <3> QED BY <3>1, <1>1, DaysBeforeInt
  <2>2. DaysBefore(y + 1) - DaysBefore(y) = IF IsLeap(y + 1) THEN 366 ELSE 365
    BY <1>1, YearLength
  <2>3. month = 2 => y + 1 = year
    BY <1>1
  <2>4. CASE IsLeap(y + 1)
    BY <2>1, <2>2, <2>4
  <2>5. CASE ~IsLeap(y + 1)
    <3>1. ~(month = 2 /\ IsLeap(year))
      BY <2>3, <2>5
    <3> QED BY <2>1, <2>2, <2>5, <3>1
  <2> QED BY <2>4, <2>5
<1>3. \/ month = 1 \/ month = 2 \/ month = 3 \/ month = 4 \/ month = 5 \/ month = 6
      \/ month = 7 \/ month = 8 \/ month = 9 \/ month = 10 \/ month = 11 \/ month = 12
  OBVIOUS
<1>4. /\ m \in 0..11 /\ DaysBeforeMonth(m) \in Nat
      /\ (m + 2) % 12 = month - 1
      /\ m >= 10 <=> month < 3
  BY <1>3, MarchMonths, MonthTable
<1>5. /\ d \in Nat /\ DaysBeforeMonth(m) <= d
  BY <1>4
<1>6. m < 11 => d < DaysBeforeMonth(m + 1)
  BY <1>3, MarchMonths, MonthTable, MonthLengths
<1>7. d < DaysBefore(y + 1) - DaysBefore(y)
  <2>1. CASE month = 2
    <3>1. d = 337 + day - 1 /\ day <= (IF IsLeap(year) THEN 29 ELSE 28)
      BY <2>1, MarchMonths, MonthTable, MonthLengths
    <3> HIDE DEF d
    <3> QED BY <2>1, <3>1, <1>2
  <2>2. CASE month # 2
    <3>1. d < 365
      <4>1. day <= 31
        BY MonthLengthRange
      <4>2. DaysBeforeMonth(m) <= 306
        BY <2>2, <1>3, MarchMonths, MonthTable
      <4> QED BY <4>1, <4>2, <1>4
    <3> QED BY <3>1, <1>2, <1>5
  <2> QED BY <2>1, <2>2
<1> QED BY <1>1, <1>4, <1>5, <1>6, <1>7 DEF y

Stamp(day, month, year) ==
    DaysBefore(MarchYear(month, year + 2000)) + DaysBeforeMonth(MarchMonth(month)) + day - 1

LEMMA UnixIs ==
    ASSUME NEW day \in Nat, NEW month \in 1..12, NEW year \in Nat
    PROVE  rtc_date_time_to_unix(Date(day, month, year)) = Stamp(day, month, year)
<1>1. month - 1 + 10 = month + 9 /\ (month - 1 < 2 <=> month < 3)
  OBVIOUS
<1>2. 1900 + (year + 100) - (IF month - 1 < 2 THEN 1 ELSE 0) = MarchYear(month, year + 2000)
  BY DEF MarchYear
<1> QED BY <1>1, <1>2 DEF rtc_date_time_to_unix, mktime, MarchMonth, Date, Stamp

\* A date of the calendar comes back with the full year.
LEMMA RoundTrip ==
    ASSUME NEW day \in Nat, NEW month \in 1..12, NEW year \in Nat,
           1 <= day, day <= MonthLength(month, year + 2000), year + 2000 < 65536
    PROVE  unix_to_rtc_date_time(
              rtc_date_time_to_unix(Date(day, month, year)))
              = Date(day, month, year + 2000)
<1> DEFINE m == MarchMonth(month)
           y == MarchYear(month, year + 2000)
           d == DaysBeforeMonth(m) + day - 1
           days == rtc_date_time_to_unix(Date(day, month, year))
<1>1. /\ m \in 0..11 /\ y \in Nat /\ d \in Nat
      /\ DaysBeforeMonth(m) \in Nat
      /\ DaysBeforeMonth(m) <= d
      /\ m < 11 => d < DaysBeforeMonth(m + 1)
      /\ d < DaysBefore(y + 1) - DaysBefore(y)
      /\ (m + 2) % 12 = month - 1
      /\ m >= 10 <=> month < 3
  BY PlaceInYear
<1>2. days = DaysBefore(y) + d
  <2>1. DaysBefore(y) \in Nat
    BY <1>1, DaysBeforeInt
  <2>2. days = DaysBefore(y) + DaysBeforeMonth(m) + day - 1
    <3>1. days = Stamp(day, month, year)
      BY UnixIs
    <3> HIDE DEF days
    <3> QED BY <3>1 DEF Stamp
  <2> HIDE DEF days, y, m
  <2> QED BY <2>1, <2>2, <1>1
<1>3. y + (IF m >= 10 THEN 1 ELSE 0) - 1900 = year + 100
  <2>1. y = year + 2000 - (IF month < 3 THEN 1 ELSE 0)
    BY DEF MarchYear
  <2> HIDE DEF y, m
  <2> QED BY <2>1, <1>1
<1>4. d - DaysBeforeMonth(m) + 1 = day
  BY <1>1
<1> HIDE DEF m, y, d, days
<1>5. gmtime(days) = [tm_mday |-> day, tm_mon |-> month - 1, tm_year |-> year + 100]
  <2>1. gmtime(DaysBefore(y) + d) =
              [tm_mday |-> d - DaysBeforeMonth(m) + 1,
               tm_mon |-> (m + 2) % 12,
               tm_year |-> y + (IF m >= 10 THEN 1 ELSE 0) - 1900]
    <3>1. /\ m \in 0..11 /\ y \in Nat /\ d \in Nat
          /\ DaysBeforeMonth(m) <= d
          /\ m < 11 => d < DaysBeforeMonth(m + 1)
          /\ d < DaysBefore(y + 1) - DaysBefore(y)
      BY <1>1
    <3> QED BY <3>1, GmtimeIs
  <2> QED BY <2>1, <1>1, <1>2, <1>3, <1>4
<1>6. (year + 100 + 1900) % 65536 = year + 2000 /\ month - 1 + 1 = month
  OBVIOUS
<1>7. unix_to_rtc_date_time(days) = Date(day, month, year + 2000)
  BY <1>5, <1>6 DEF unix_to_rtc_date_time, Date
<1> QED BY <1>7 DEF days

\* A day past the end of its month is one of the next month.
Passes(day, month, year, over) ==
    day = MonthLength(month, year + 2000) + over /\ over > 0

Corrects(day, month, year, over) ==
    /\ over \in 1..3 /\ month + 1 \in 1..12
    /\ over <= MonthLength(month + 1, year + 2000)
    /\ rtc_date_time_to_unix(Date(day, month, year)) =
       rtc_date_time_to_unix(Date(over, month + 1, year))

LEMMA Corrected ==
    ASSUME NEW day \in 1..31, NEW month \in 1..12, NEW year \in Nat,
           NEW over \in Int, Passes(day, month, year, over)
    PROVE  Corrects(day, month, year, over)
<1>1. \/ month = 1 \/ month = 2 \/ month = 3 \/ month = 4 \/ month = 5 \/ month = 6
      \/ month = 7 \/ month = 8 \/ month = 9 \/ month = 10 \/ month = 11 \/ month = 12
  OBVIOUS
<1>2. MonthLength(month, year + 2000) \in 28..31
  BY MonthLengthRange
<1>3. over \in 1..3 /\ over = day - MonthLength(month, year + 2000)
  BY <1>2 DEF Passes
<1>4. month = 2 \/ month = 4 \/ month = 6 \/ month = 9 \/ month = 11
  BY <1>1, <1>3, MonthLengths
<1>5. month + 1 \in 1..12
  BY <1>4
<1>6. over <= MonthLength(month + 1, year + 2000)
  BY <1>3, <1>5, MonthLengthRange
<1> DEFINE a == DaysBefore(MarchYear(month, year + 2000))
           b == DaysBefore(MarchYear(month + 1, year + 2000))
<1>7. rtc_date_time_to_unix(Date(day, month, year))
        = Stamp(day, month, year)
  BY UnixIs
<1>8. rtc_date_time_to_unix(Date(over, month + 1, year))
        = Stamp(over, month + 1, year)
  <2>1. over \in Nat
    BY <1>3
  <2> QED BY <2>1, <1>5, UnixIs
<1>9. a + DaysBeforeMonth(MarchMonth(month)) + day - 1
        = b + DaysBeforeMonth(MarchMonth(month + 1)) + over - 1
  <2>1. CASE month = 2
    <3>1. MarchYear(2, year + 2000) = year + 1999 /\ MarchYear(3, year + 2000) = year + 2000
      BY DEF MarchYear
    <3>2. DaysBefore(year + 1999) \in Nat /\ DaysBefore(year + 2000) \in Nat
      BY DaysBeforeInt
    <3>3. year + 1999 \in Nat /\ (year + 1999) + 1 = year + 2000
      OBVIOUS
    <3>4. DaysBefore(year + 2000) - DaysBefore(year + 1999)
             = IF IsLeap(year + 2000) THEN 366 ELSE 365
      BY <3>3, YearLength
    <3>5. over = day - (IF IsLeap(year + 2000) THEN 29 ELSE 28)
      BY <2>1, <1>3, MonthLengths
    <3>6. a = DaysBefore(year + 1999) /\ b = DaysBefore(year + 2000)
      BY <2>1, <3>1
    <3>7. /\ DaysBeforeMonth(MarchMonth(month)) = 337
          /\ DaysBeforeMonth(MarchMonth(month + 1)) = 0
      BY <2>1, MarchMonths, MonthTable
    <3> HIDE DEF a, b
    <3>8. CASE IsLeap(year + 2000)
      BY <3>2, <3>4, <3>5, <3>6, <3>7, <3>8
    <3>9. CASE ~IsLeap(year + 2000)
      BY <3>2, <3>4, <3>5, <3>6, <3>7, <3>9
    <3> QED BY <3>8, <3>9
  <2>2. CASE month # 2
    <3>1. MarchYear(month, year + 2000) = MarchYear(month + 1, year + 2000)
      BY <2>2, <1>4 DEF MarchYear
    <3>2. MarchYear(month, year + 2000) \in Nat
      BY DEF MarchYear
    <3>3. a = b /\ a \in Nat
      BY <3>1, <3>2, DaysBeforeInt
    <3>4. over = day - 30
      BY <2>2, <1>3, <1>4, MonthLengths
    <3>5. DaysBeforeMonth(MarchMonth(month)) \in Int
          /\ DaysBeforeMonth(MarchMonth(month + 1)) = DaysBeforeMonth(MarchMonth(month)) + 30
      BY <2>2, <1>4, MarchMonths, MonthTable
    <3> HIDE DEF a, b
    <3> QED BY <3>3, <3>4, <3>5
  <2> QED BY <2>1, <2>2
<1>10. Stamp(day, month, year) = Stamp(over, month + 1, year)
  BY <1>9 DEF Stamp
<1> QED BY <1>3, <1>5, <1>6, <1>7, <1>8, <1>10 DEF Corrects

\* Meant is a date of the calendar, and has the time stamp of the registers.
LEMMA MeantIs ==
    ASSUME born \in [day : 1..31, month : 1..12, year : Nat]
    PROVE  /\ Meant \in [day : 1..31, month : 1..12, year : Nat]
           /\ Meant.year = born.year
           /\ Meant.day <= MonthLength(Meant.month, Meant.year + 2000)
           /\ rtc_date_time_to_unix(born) = rtc_date_time_to_unix(Meant)
<1> DEFINE over == born.day - MonthLength(born.month, 2000 + born.year)
<1>1. born.day \in 1..31 /\ born.month \in 1..12 /\ born.year \in Nat
  OBVIOUS
<1>2. born = Date(born.day, born.month, born.year)
  BY DEF Date
<1>3. 2000 + born.year = born.year + 2000
  BY <1>1
<1>4. Meant = IF over <= 0 THEN born
                ELSE [born EXCEPT !.day = over, !.month = born.month + 1]
  BY DEF Meant
<1>5. MonthLength(born.month, born.year + 2000) \in 28..31
  BY <1>1, MonthLengthRange
<1>6. CASE over <= 0
  BY <1>1, <1>3, <1>4, <1>5, <1>6
<1>7. CASE over > 0
  <2>1. over = born.day - MonthLength(born.month, born.year + 2000)
    BY <1>3
  <2>2. /\ over \in 1..3 /\ born.month + 1 \in 1..12
        /\ over <= MonthLength(born.month + 1, born.year + 2000)
        /\ rtc_date_time_to_unix(born) =
           rtc_date_time_to_unix(Date(over, born.month + 1, born.year))
    <3> HIDE DEF over
    <3>1. /\ over \in 1..3 /\ born.month + 1 \in 1..12
          /\ over <= MonthLength(born.month + 1, born.year + 2000)
          /\ rtc_date_time_to_unix(Date(born.day, born.month, born.year)) =
             rtc_date_time_to_unix(Date(over, born.month + 1, born.year))
      <4>1. PICK d, m, y, o : d = born.day /\ m = born.month /\ y = born.year /\ o = over
        OBVIOUS
      <4>2. /\ d \in 1..31 /\ m \in 1..12 /\ y \in Nat
            /\ o \in Int /\ Passes(d, m, y, o)
        BY <4>1, <2>1, <1>1, <1>5, <1>7 DEF Passes
      <4>3. Corrects(d, m, y, o)
        BY <4>2, Corrected
      <4> QED BY <4>1, <4>3 DEF Corrects
    <3> QED BY <3>1, <1>2
  <2> HIDE DEF over
  <2>3. Meant = Date(over, born.month + 1, born.year)
    <3>1. ~(over <= 0)
      BY <2>2
    <3>2. Meant = [born EXCEPT !.day = over, !.month = born.month + 1]
      BY <3>1, <1>4
    <3> QED BY <3>2, <1>2 DEF Date
  <2> QED BY <2>2, <2>3, <1>1 DEF Date
<1> QED BY <1>1, <1>3, <1>5, <1>6, <1>7

Drifted(k) == Date(Meant.day, Meant.month, Meant.year + 2000 * k)

\* In memory the entry has the date of its last load, and the time stamp in the
\* file is that of the date it was written with.
DateInv ==
    /\ born \in [day : 1..31, month : 1..12, year : Nat] /\ born.year <= 99
    /\ loads \in Nat /\ loads <= 32
    /\ where \in {"table", "file", "menu"}
    /\ where = "table" => dt = born /\ loads = 0
    /\ where = "menu" => dt = Drifted(loads)
    /\ where = "file" => file = rtc_date_time_to_unix(Drifted(loads))

LEMMA DriftedStep ==
    ASSUME born \in [day : 1..31, month : 1..12, year : Nat], born.year <= 99,
           NEW k \in Nat, k <= 31
    PROVE  unix_to_rtc_date_time(rtc_date_time_to_unix(Drifted(k))) = Drifted(k + 1)
<1> DEFINE y == Meant.year
<1>1. /\ Meant.day \in 1..31 /\ Meant.month \in 1..12 /\ y \in Nat /\ y <= 99
      /\ Meant.day <= MonthLength(Meant.month, y + 2000)
  BY MeantIs
<1> HIDE DEF y
<1>2. MonthLength(Meant.month, (y + 2000 * k) + 2000) = MonthLength(Meant.month, y + 2000)
  <2>1. (y + 2000 * k) + 2000 = 2000 * (k + 1) + y /\ y + 2000 = 2000 * 1 + y /\ k + 1 \in Nat
    BY <1>1
  <2>2. IsLeap((y + 2000 * k) + 2000) <=> IsLeap(y + 2000)
    BY <2>1, <1>1, LeapRepeats
  <2> QED BY <2>2 DEF MonthLength
<1>3. y + 2000 * k \in Nat /\ (y + 2000 * k) + 2000 < 65536
      /\ (y + 2000 * k) + 2000 = y + 2000 * (k + 1)
  BY <1>1
<1>4. unix_to_rtc_date_time(rtc_date_time_to_unix(
         Date(Meant.day, Meant.month, y + 2000 * k)))
         = Date(Meant.day, Meant.month, (y + 2000 * k) + 2000)
  <2>1. Meant.day \in Nat /\ 1 <= Meant.day
    BY <1>1
  <2> DEFINE z == y + 2000 * k
  <2>2. z \in Nat /\ z + 2000 < 65536 /\ Meant.day <= MonthLength(Meant.month, z + 2000)
    BY <1>1, <1>2, <1>3
  <2> HIDE DEF z
  <2>3. unix_to_rtc_date_time(rtc_date_time_to_unix(
           Date(Meant.day, Meant.month, z)))
           = Date(Meant.day, Meant.month, z + 2000)
    <3>1. PICK d, m : d = Meant.day /\ m = Meant.month
      OBVIOUS
    <3>2. d \in Nat /\ m \in 1..12 /\ 1 <= d /\ d <= MonthLength(m, z + 2000)
      BY <3>1, <2>1, <2>2, <1>1
    <3>3. unix_to_rtc_date_time(rtc_date_time_to_unix(
             Date(d, m, z))) = Date(d, m, z + 2000)
      BY <3>2, <2>2, RoundTrip
    <3> QED BY <3>1, <3>3
  <2> QED BY <2>3 DEF z
<1> QED BY <1>3, <1>4 DEF Drifted, y

LEMMA DriftedZero ==
    ASSUME born \in [day : 1..31, month : 1..12, year : Nat]
    PROVE  rtc_date_time_to_unix(born) = rtc_date_time_to_unix(Drifted(0))
<1>1. /\ Meant \in [day : 1..31, month : 1..12, year : Nat]
      /\ rtc_date_time_to_unix(born) = rtc_date_time_to_unix(Meant)
  BY MeantIs
<1>2. Drifted(0) = Meant
  BY <1>1 DEF Drifted, Date
<1> QED BY <1>1, <1>2

\* Whatever year of the century the clock has, and as often as the file is
\* written and read (up to the 33rd load, where the 16 bits of the year end),
\* the date of an entry moves by whole spans of 2000 years and its day and
\* month stay what the calendar made of the registers.
THEOREM DatesDriftByYears == EntrySpec => []DriftsByYearsOnly
<1>1. EntryInit => DateInv
  <2> SUFFICES ASSUME EntryInit PROVE DateInv
    OBVIOUS
  <2>1. born \in [day : 1..31, month : 1..12, year : Years]
    BY DEF EntryInit
  <2>2. born.year \in Nat /\ born.year <= 99
    <3>1. born.year \in Years
      BY <2>1
    <3>2. born.year \in 0..99
      BY <3>1, YearsAssumption
    <3> QED BY <3>2
  <2>3. born \in [day : 1..31, month : 1..12, year : Nat]
    BY <2>1, <2>2
  <2> QED BY <2>2, <2>3 DEF EntryInit, DateInv
<1>2. DateInv /\ [EntryNext]_entry => DateInv'
  <2> SUFFICES ASSUME DateInv, [EntryNext]_entry PROVE DateInv'
    OBVIOUS
  <2>1. CASE Write
    <3>1. /\ where \in {"table", "menu"} /\ file' = rtc_date_time_to_unix(dt)
          /\ where' = "file" /\ loads' = loads /\ born' = born
      BY <2>1 DEF Write
    <3>2. file' = rtc_date_time_to_unix(Drifted(loads))
      <4>1. CASE where = "table"
        BY <4>1, <3>1, DriftedZero DEF DateInv
      <4>2. CASE where = "menu"
        BY <4>2, <3>1 DEF DateInv
      <4> QED BY <4>1, <4>2, <3>1
    <3>3. Drifted(loads)' = Drifted(loads)
      BY <3>1 DEF Drifted, Meant
    <3>4. (rtc_date_time_to_unix(Drifted(loads)))' = rtc_date_time_to_unix(Drifted(loads))
      BY <3>3 DEF rtc_date_time_to_unix
    <3> QED BY <3>1, <3>2, <3>4 DEF DateInv
  <2>2. CASE Read
    <3>1. /\ where = "file" /\ loads < MaxLoads
          /\ dt' = unix_to_rtc_date_time(file)
          /\ where' = "menu" /\ loads' = loads + 1 /\ born' = born
      BY <2>2 DEF Read
    <3>2. loads \in Nat /\ loads <= 31
      BY <3>1, MaxLoadsAssumption DEF DateInv
    <3>3. dt' = Drifted(loads + 1)
      BY <3>1, <3>2, DriftedStep DEF DateInv
    <3>4. Drifted(loads)' = Drifted(loads + 1)
      BY <3>1 DEF Drifted, Meant
    <3> QED BY <3>1, <3>2, <3>3, <3>4 DEF DateInv
  <2>3. CASE UNCHANGED entry
    BY <2>3 DEF entry, DateInv, Drifted, Meant, rtc_date_time_to_unix
  <2> QED BY <2>1, <2>2, <2>3 DEF EntryNext
<1>3. DateInv => DriftsByYearsOnly
  <2> SUFFICES ASSUME DateInv, where = "menu"
               PROVE  dt = [Meant EXCEPT !.year = Meant.year + 2000 * loads]
    BY DEF DriftsByYearsOnly
  <2>1. Meant \in [day : 1..31, month : 1..12, year : Nat]
    BY MeantIs DEF DateInv
  <2> QED BY <2>1 DEF DateInv, Drifted, Date
<1> QED BY <1>1, <1>2, <1>3, PTL DEF EntrySpec
=============================================================================
