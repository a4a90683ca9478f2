------------------------ MODULE GhanaHolidays_proofs ------------------------
(***************************************************************************)
(* The calendar shows the movable feasts as the church has them, in every  *)
(* year: the runs check one period of the calendar, in which the solar and *)
(* lunar corrections take four values of the many they take later.         *)
(***************************************************************************)
EXTENDS GhanaHolidays, TLAPS

-----------------------------------------------------------------------------
(* The steps of the computation, named. *)

\* Days from 21 March to the full moon of the cycle.
Moon(y) ==
  LET a == y % 19  b == y \div 100  d == b \div 4
      f == (b + 8) \div 25  g == (b - f + 1) \div 3
  IN  (19 * a + b - d - g + 15) % 30

\* Days from the day after that moon to the Sunday.
Wait(y) ==
  LET b == y \div 100  c == y % 100  e == b % 4
      i == c \div 4  k == c % 4
  IN  (32 + 2 * e + 2 * i - Moon(y) - k) % 7

\* The two exceptions of the cycle: this moon counts a day earlier.
Early(y) == Moon(y) = 29 \/ (Moon(y) = 28 /\ y % 19 > 10)

LEMMA StepTypes ==
  ASSUME NEW y \in Nat \ {0}
  PROVE  y % 19 \in 0 .. 18 /\ Moon(y) \in 0 .. 29 /\ Wait(y) \in 0 .. 6
<1>1. y % 19 \in 0 .. 18
  OBVIOUS
<1>2. y \div 100 \in Int /\ (y \div 100) \div 4 \in Int /\ (y \div 100 + 8) \div 25 \in Int
  OBVIOUS
<1>3. (y \div 100 - (y \div 100 + 8) \div 25 + 1) \div 3 \in Int
  BY <1>2
<1>4. Moon(y) \in 0 .. 29
  BY <1>1, <1>2, <1>3 DEF Moon
<1>5. (y \div 100) % 4 \in Int /\ (y % 100) \div 4 \in Int /\ (y % 100) % 4 \in Int
  OBVIOUS
<1>6. Wait(y) \in 0 .. 6
  <2> DEFINE x == 32 + 2 * ((y \div 100) % 4) + 2 * ((y % 100) \div 4) - Moon(y) - ((y % 100) % 4)
  <2>1. x \in Int
    BY <1>4, <1>5
  <2>2. Wait(y) = x % 7
    BY DEF Wait
  <2> HIDE DEF x
  <2> QED
    BY <2>1, <2>2
<1> QED
  BY <1>1, <1>4, <1>6

\* The last correction takes a week off exactly for an early moon on a Saturday.
LEMMA Correction ==
  ASSUME NEW a \in 0 .. 18, NEW h \in 0 .. 29, NEW l \in 0 .. 6
  PROVE  (a + 11 * h + 22 * l) \div 451 =
           IF l = 6 /\ (h = 29 \/ (h = 28 /\ a > 10)) THEN 1 ELSE 0
OBVIOUS

LEMMA DateType ==
  ASSUME NEW y \in Nat \ {0}, NEW m \in 1 .. 13, NEW d \in Nat
  PROVE  Date(y, m, d) \in Int
BY DEF Date, DaysBefore

\* Month and day from a number of days since the end of February.
LEMMA MarchAndApril ==
  ASSUME NEW y \in Nat \ {0}, NEW n \in 93 .. 154
  PROVE  Date(y, n \div 31, (n % 31) + 1) = Date(y, 3, 1) + n - 93
<1>1. CASE n < 124
  <2>1. n \div 31 = 3 /\ n % 31 = n - 93
    BY <1>1
  <2> QED
    BY <2>1 DEF Date, DaysBefore
<1>2. CASE n >= 124
  <2>1. n \div 31 = 4 /\ n % 31 = n - 124
    BY <1>2
  <2> QED
    BY <2>1 DEF Date, DaysBefore
<1> QED
  BY <1>1, <1>2

LEMMA EasterIs ==
  ASSUME NEW y \in Nat \ {0}
  PROVE  Easter(y) = Date(y, 3, 1) + 21 + Moon(y) + Wait(y)
                       - (IF Wait(y) = 6 /\ Early(y) THEN 7 ELSE 0)
<1> DEFINE a == y % 19
           h == Moon(y)
           l == Wait(y)
           m == (a + 11 * h + 22 * l) \div 451
           n == h + l - 7 * m + 114
<1>1. a \in 0 .. 18 /\ h \in 0 .. 29 /\ l \in 0 .. 6
  BY StepTypes
<1>2. Easter(y) = Date(y, n \div 31, (n % 31) + 1)
  BY DEF Easter, Moon, Wait
<1>3. Early(y) <=> (h = 29 \/ (h = 28 /\ a > 10))
  BY DEF Early
<1> HIDE DEF a, h, l
<1>4. m = IF l = 6 /\ Early(y) THEN 1 ELSE 0
  BY <1>1, <1>3, Correction
<1> HIDE DEF m
<1>5. n \in 93 .. 154
  BY <1>1, <1>3, <1>4
<1>6. Easter(y) = Date(y, 3, 1) + n - 93
  BY <1>2, <1>5, MarchAndApril
<1> QED
  <2>1. Date(y, 3, 1) \in Int
    BY DateType
  <2>2. Early(y) \in BOOLEAN
    BY DEF Early
  <2> QED
    BY <1>1, <1>4, <1>6, <2>1, <2>2 DEF h, l

-----------------------------------------------------------------------------
(* The week. *)

\* The days of the computation make a Sunday of 22 March, plus the moon, plus
\* the wait.
LEMMA WaitEndsOnSunday ==
  ASSUME NEW y \in Nat \ {0}
  PROVE  Day(Date(y, 3, 1) + 21 + Moon(y) + Wait(y)) = 0
<1> DEFINE b == y \div 100
           c == y % 100
           d == b \div 4
           e == b % 4
           i == c \div 4
           k == c % 4
           N == 365 * (y - 1) + y \div 4 - b + y \div 400 + 59 + 1 + 21
           x == 32 + 2 * e + 2 * i - Moon(y) - k
<1>1. (N + 32 + 2 * e + 2 * i - k) % 7 = 0
  OBVIOUS
<1>2. N \in Int /\ x \in Int /\ Moon(y) \in Int
  BY StepTypes
<1>3. Date(y, 3, 1) + 21 = N
  <2>1. IF IsLeap(y)
        THEN (y - 1) \div 4 - (y - 1) \div 100 + (y - 1) \div 400 + 1 = y \div 4 - b + y \div 400
        ELSE (y - 1) \div 4 - (y - 1) \div 100 + (y - 1) \div 400 = y \div 4 - b + y \div 400
    BY DEF IsLeap
  <2>2. DaysBefore(3, y) = 59 + (IF IsLeap(y) THEN 1 ELSE 0)
    BY DEF DaysBefore
  <2>3. IsLeap(y) \in BOOLEAN
    BY DEF IsLeap
  <2> QED
    BY <2>1, <2>2, <2>3 DEF Date
<1>4. Wait(y) = x % 7
  BY DEF Wait
<1>5. (N + x + Moon(y)) % 7 = 0
  BY <1>1, <1>2
<1> HIDE DEF N, x
<1>6. (N + Moon(y) + (x % 7)) % 7 = 0
  BY <1>2, <1>5
<1> QED
  BY <1>3, <1>4, <1>6 DEF Day

\* A week has one Sunday.
LEMMA FirstSunday ==
  ASSUME NEW p \in Int, NEW n \in p + 1 .. p + 7, Day(n) = 0
  PROVE  n = CHOOSE k \in p + 1 .. p + 7 : Day(k) = 0
<1>1. \A k \in p + 1 .. p + 7 : Day(k) = 0 => k = n
  BY DEF Day
<1> QED
  BY <1>1

-----------------------------------------------------------------------------
(* The church's moon. *)

\* Two ways to count the corrections of the lunar cycle.
LEMMA LunarCorrection ==
  ASSUME NEW b \in Nat
  PROVE  /\ (b - (b + 8) \div 25 + 1) \div 3 = (8 * (b + 1) + 5) \div 25
         /\ (3 * (b + 1)) \div 4 = b - b \div 4
OBVIOUS

\* The age of the moon on 1 January before the two exceptions are made.
Age(y) ==
  LET golden == (y % 19) + 1  century == y \div 100 + 1
      solar == (3 * century) \div 4 - 12
      lunar == (8 * century + 5) \div 25 - 5
  IN  (11 * golden + 20 + lunar - solar) % 30

\* The older the moon on 1 January, the sooner it is full.
LEMMA MoonFromAge ==
  ASSUME NEW y \in Nat \ {0}
  PROVE  Age(y) \in 0 .. 29 /\ Moon(y) = IF Age(y) <= 23 THEN 23 - Age(y) ELSE 53 - Age(y)
<1> DEFINE a == y % 19
           b == y \div 100
           d == b \div 4
           g == (b - (b + 8) \div 25 + 1) \div 3
           s == (3 * (b + 1)) \div 4 - 12
           u == (8 * (b + 1) + 5) \div 25 - 5
           v == 11 * (a + 1) + 20 + u - s
           w == 19 * a + b - d - g + 15
<1>1. a \in Nat /\ b \in Nat /\ d \in Nat /\ u \in Int /\ s \in Int
  OBVIOUS
<1>2. g = u + 5 /\ s = b - d - 12
  BY <1>1, LunarCorrection
<1>3. Age(y) = v % 30 /\ Moon(y) = w % 30
  BY DEF Age, Moon
<1> HIDE DEF a, b, d, g, s, u
<1>4. v \in Int /\ w \in Int /\ v + w = 30 * a + 53
  BY <1>1, <1>2
<1> HIDE DEF v, w
<1>5. v % 30 \in 0 .. 29 /\ w % 30 \in 0 .. 29
  BY <1>4
<1>6. (v % 30) + (w % 30) \in {23, 53}
  BY <1>1, <1>4, <1>5
<1> QED
  BY <1>3, <1>5, <1>6

LEMMA PaschalMoonIs ==
  ASSUME NEW y \in Nat \ {0}
  PROVE  PaschalMoon(y) = Date(y, 3, 1) + 20 + Moon(y) - (IF Early(y) THEN 1 ELSE 0)
<1>1. Epact(y) = IF Age(y) = 24 \/ (Age(y) = 25 /\ (y % 19) + 1 > 11) THEN Age(y) + 1 ELSE Age(y)
  BY DEF Epact, Age
<1>2. y % 19 \in 0 .. 18 /\ Age(y) \in 0 .. 29
  BY StepTypes, MoonFromAge
<1>3. Early(y) <=> (Age(y) = 24 \/ (Age(y) = 25 /\ y % 19 > 10))
  BY <1>2, MoonFromAge DEF Early
<1> DEFINE q == 44 - Epact(y)
           t == IF q < 21 THEN q + 30 ELSE q
<1>4. t = 21 + Moon(y) - (IF Early(y) THEN 1 ELSE 0)
  BY <1>1, <1>2, <1>3, MoonFromAge
<1>5. PaschalMoon(y) = Date(y, 3, t)
  BY DEF PaschalMoon
<1>6. t \in Nat
  BY <1>1, <1>2
<1> HIDE DEF t
<1>7. Date(y, 3, t) = Date(y, 3, 1) + t - 1
  BY <1>6 DEF Date, DaysBefore
<1>8. Date(y, 3, 1) \in Int
  BY DateType
<1>9. Moon(y) \in Int
  BY StepTypes
<1> QED
  BY <1>4, <1>5, <1>7, <1>8, <1>9

-----------------------------------------------------------------------------
\* The computation gives the Sunday after the church's full moon, in every
\* year of the calendar.
THEOREM EasterIsRight == \A y \in Nat \ {0} : Easter(y) = EasterSunday(y)
<1> SUFFICES ASSUME NEW y \in Nat \ {0} PROVE Easter(y) = EasterSunday(y)
  OBVIOUS
<1> DEFINE M == Date(y, 3, 1)
           h == Moon(y)
           l == Wait(y)
           E == Early(y)
           p == PaschalMoon(y)
           n == Easter(y)
<1>1. M \in Int /\ h \in 0 .. 29 /\ l \in 0 .. 6 /\ E \in BOOLEAN
  BY DateType, StepTypes DEF Early
<1>2. Day(M + 21 + h + l) = 0
  BY WaitEndsOnSunday
<1>3. n = M + 21 + h + l - (IF l = 6 /\ E THEN 7 ELSE 0)
  BY EasterIs
<1>4. p = M + 20 + h - (IF E THEN 1 ELSE 0)
  BY PaschalMoonIs
<1>5. EasterSunday(y) = CHOOSE k \in p + 1 .. p + 7 : Day(k) = 0
  BY DEF EasterSunday
<1> HIDE DEF M, h, l, E, p, n
<1>6. p \in Int /\ n \in p + 1 .. p + 7
  BY <1>1, <1>3, <1>4
<1>7. Day(n) = 0
  BY <1>1, <1>2, <1>3 DEF Day
<1> QED
  BY <1>5, <1>6, <1>7, FirstSunday DEF n

-----------------------------------------------------------------------------
(* The months a user leafs through. *)

PageOK == year \in Nat \ {0} /\ month \in 1 .. 12

\* A name that one holiday of the year has.
Once(y, name, n) == {h \in Holidays(y) : h.name = name} = {[name |-> name, date |-> n]}

Shown(name, m, y) == {h.date : h \in {k \in ForMonth(m, y) : k.name = name}}

\* Such a holiday is shown in its month and nowhere else.
LEMMA ShownOnTheDay ==
  ASSUME NEW y, NEW m, NEW name, NEW n, Once(y, name, n)
  PROVE  Shown(name, m, y) = IF InMonth(n, y, m) THEN {n} ELSE {}
<1> DEFINE r == [name |-> name, date |-> n]
           S == {k \in ForMonth(m, y) : k.name = name}
<1>1. S = {h \in {r} : InMonth(h.date, y, m)}
  BY DEF ForMonth, Once
<1>2. r.date = n
  OBVIOUS
<1> HIDE DEF r, S
<1>3. CASE InMonth(n, y, m)
  <2>1. S = {r}
    BY <1>1, <1>2, <1>3
  <2>2. {h.date : h \in S} = {r.date}
    BY <2>1
  <2> QED
    BY <1>2, <1>3, <2>2 DEF S, Shown
<1>4. CASE ~InMonth(n, y, m)
  <2>1. S = {}
    BY <1>1, <1>2, <1>4
  <2>2. {h.date : h \in S} = {}
    BY <2>1
  <2> QED
    BY <1>4, <2>2 DEF S, Shown
<1> QED
  BY <1>3, <1>4

LEMMA NamesDiffer ==
  ASSUME NEW y
  PROVE  /\ Once(y, "GoodFriday", Easter(y) - 2)
         /\ Once(y, "HolySaturday", Easter(y) - 1)
         /\ Once(y, "EasterMonday", Easter(y) + 1)
         /\ Once(y, "FarmersDay", FarmersDay(y))
<1>1. Once(y, "GoodFriday", Easter(y) - 2)
  <2>1. [name |-> "GoodFriday", date |-> Easter(y) - 2] \in Holidays(y)
    BY DEF Holidays
  <2>2. \A h \in Holidays(y) : h.name = "GoodFriday" => h = [name |-> "GoodFriday", date |-> Easter(y) - 2]
    BY DEF Holidays
  <2> QED
    BY <2>1, <2>2 DEF Once
<1>2. Once(y, "HolySaturday", Easter(y) - 1)
  <2>1. [name |-> "HolySaturday", date |-> Easter(y) - 1] \in Holidays(y)
    BY DEF Holidays
  <2>2. \A h \in Holidays(y) : h.name = "HolySaturday" => h = [name |-> "HolySaturday", date |-> Easter(y) - 1]
    BY DEF Holidays
  <2> QED
    BY <2>1, <2>2 DEF Once
<1>3. Once(y, "EasterMonday", Easter(y) + 1)
  <2>1. [name |-> "EasterMonday", date |-> Easter(y) + 1] \in Holidays(y)
    BY DEF Holidays
  <2>2. \A h \in Holidays(y) : h.name = "EasterMonday" => h = [name |-> "EasterMonday", date |-> Easter(y) + 1]
    BY DEF Holidays
  <2> QED
    BY <2>1, <2>2 DEF Once
<1>4. Once(y, "FarmersDay", FarmersDay(y))
  <2>1. [name |-> "FarmersDay", date |-> FarmersDay(y)] \in Holidays(y)
    BY DEF Holidays
  <2>2. \A h \in Holidays(y) : h.name = "FarmersDay" => h = [name |-> "FarmersDay", date |-> FarmersDay(y)]
    BY DEF Holidays
  <2> QED
    BY <2>1, <2>2 DEF Once
<1> QED
  BY <1>1, <1>2, <1>3, <1>4

\* The loop ends in the first week of December, on a Friday.
LEMMA FarmersDayIs ==
  ASSUME NEW y \in Nat \ {0}
  PROVE  /\ Day(FarmersDay(y)) = 5
         /\ FarmersDay(y) \in Date(y, 12, 1) .. Date(y, 12, 7)
         /\ InMonth(FarmersDay(y), y, 12)
<1> DEFINE s == Date(y, 12, 1)
           F(n) == Day(n) = 5 /\ \A k \in s .. n - 1 : Day(k) # 5
<1>1. s \in Int
  BY DateType
<1>2. Date(y, 12, 7) = s + 6 /\ Date(y, 12, 31) = s + 30 /\ Date(y, 13, 1) = s + 31
  <2>1. IsLeap(y) \in BOOLEAN
    BY DEF IsLeap
  <2> QED
    BY <1>1, <2>1 DEF Date, DaysBefore
<1>3. FarmersDay(y) = CHOOSE n \in s .. s + 30 : F(n)
  BY <1>2 DEF FarmersDay
<1> HIDE DEF s
<1>4. \E f \in s .. s + 6 : Day(f) = 5 /\ \A k \in s .. s + 6 : Day(k) = 5 => k = f
  <2> DEFINE f == s + ((12 - (s % 7)) % 7)
  <2>1. f \in s .. s + 6 /\ Day(f) = 5
    BY <1>1 DEF Day
  <2>2. \A k \in s .. s + 6 : Day(k) = 5 => k = f
    BY <1>1 DEF Day
  <2> HIDE DEF f
  <2> QED
    BY <2>1, <2>2
<1>5. PICK f \in s .. s + 6 : Day(f) = 5 /\ \A k \in s .. s + 6 : Day(k) = 5 => k = f
  BY <1>4
<1>6. f \in s .. s + 30 /\ F(f)
  BY <1>1, <1>5
<1>7. \A n \in s .. s + 30 : F(n) => n = f
  BY <1>1, <1>5
<1> HIDE DEF F
<1>8. FarmersDay(y) = f
  BY <1>3, <1>6, <1>7
<1>9. Date(y, 12, 1) = s
  BY DEF s
<1> QED
  BY <1>1, <1>2, <1>5, <1>8, <1>9 DEF InMonth

\* On every page the movable feasts are on their days.
THEOREM FeastsAreRight == Spec => []MovableFeastsAreRight
<1>1. Init => PageOK
  BY ConstantsAssumption DEF Init, PageOK
<1>2. PageOK /\ [NextMonth]_vars => PageOK'
  BY DEF PageOK, NextMonth, vars
<1>3. PageOK => MovableFeastsAreRight
  <2> SUFFICES ASSUME PageOK PROVE MovableFeastsAreRight
    OBVIOUS
  <2> DEFINE expected(n) == IF InMonth(n, year, month) THEN {n} ELSE {}
  <2>1. Easter(year) = EasterSunday(year)
    BY EasterIsRight DEF PageOK
  <2>2. Shown("GoodFriday", month, year) = expected(EasterSunday(year) - 2)
    <3>1. Once(year, "GoodFriday", EasterSunday(year) - 2)
      BY <2>1, NamesDiffer
    <3> QED
      BY <3>1, ShownOnTheDay
  <2>3. Shown("HolySaturday", month, year) = expected(EasterSunday(year) - 1)
    <3>1. Once(year, "HolySaturday", EasterSunday(year) - 1)
      BY <2>1, NamesDiffer
    <3> QED
      BY <3>1, ShownOnTheDay
  <2>4. Shown("EasterMonday", month, year) = expected(EasterSunday(year) + 1)
    <3>1. Once(year, "EasterMonday", EasterSunday(year) + 1)
      BY <2>1, NamesDiffer
    <3> QED
      BY <3>1, ShownOnTheDay
  <2>5. Shown("FarmersDay", month, year) = expected(FarmersDay(year))
    <3>1. Once(year, "FarmersDay", FarmersDay(year))
      BY NamesDiffer
    <3> QED
      BY <3>1, ShownOnTheDay
  <2>6. \A n \in Shown("FarmersDay", month, year) : Day(n) = 5 /\ n \in Date(year, 12, 1) .. Date(year, 12, 7)
    BY <2>5, FarmersDayIs DEF PageOK
  <2>7. month = 12 => Shown("FarmersDay", month, year) # {}
    BY <2>5, FarmersDayIs DEF PageOK
  <2> QED
    BY <2>2, <2>3, <2>4, <2>6, <2>7 DEF MovableFeastsAreRight, Shown
<1> QED
  BY <1>1, <1>2, <1>3, PTL DEF Spec
=============================================================================
