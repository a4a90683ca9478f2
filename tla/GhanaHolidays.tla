--------------------------- MODULE GhanaHolidays ---------------------------
(***************************************************************************)
(* The public holidays of the calendar, as a user sees them who leafs      *)
(* through it month by month.  A JavaScript Date at midnight is the number *)
(* of its day, 1 January of the year 1 being day 1, a Monday; the server's *)
(* clock is UTC, so that toISOString keeps the day.  Names are one word.   *)
(***************************************************************************)
EXTENDS Integers

CONSTANTS FirstYear, LastYear   \* years leafed through

ASSUME ConstantsAssumption == FirstYear \in Nat \ {0} /\ LastYear \in Nat

VARIABLES year, month  \* the month shown

vars == <<year, month>>

-----------------------------------------------------------------------------
(* Dates. *)

IsLeap(y) == y % 4 = 0 /\ (y % 100 # 0 \/ y % 400 = 0)

DaysBefore(m, y) ==
  <<0, 31, 59, 90, 120, 151, 181, 212, 243, 273, 304, 334, 365>>[m]
    + (IF m > 2 /\ IsLeap(y) THEN 1 ELSE 0)

\* new Date(y, m - 1, d): days beyond the month run on into the next one.
Date(y, m, d) ==
  365 * (y - 1) + (y - 1) \div 4 - (y - 1) \div 100 + (y - 1) \div 400 + DaysBefore(m, y) + d

\* getDay: 0 is a Sunday.
Day(n) == n % 7

InMonth(n, y, m) == Date(y, m, 1) <= n /\ n < Date(y, m + 1, 1)

-----------------------------------------------------------------------------
\* Variant: the step that matters once or twice in a century is left out.
EasterUncorrected(y) ==
  LET a == y % 19  b == y \div 100  c == y % 100  d == b \div 4  e == b % 4
      f == (b + 8) \div 25  g == (b - f + 1) \div 3
      h == (19 * a + b - d - g + 15) % 30
      i == c \div 4  k == c % 4
      l == (32 + 2 * e + 2 * i - h - k) % 7
      n == h + l + 114
  IN  Date(y, n \div 31, (n % 31) + 1)

Easter(y) ==
  LET a == y % 19  b == y \div 100  c == y % 100  d == b \div 4  e == b % 4
      f == (b + 8) \div 25  g == (b - f + 1) \div 3
      h == (19 * a + b - d - g + 15) % 30
      i == c \div 4  k == c % 4
      l == (32 + 2 * e + 2 * i - h - k) % 7
      m == (a + 11 * h + 22 * l) \div 451
      n == h + l - 7 * m + 114
  IN  Date(y, n \div 31, (n % 31) + 1)

\* The loop from 1 December stops at the first Friday.
FarmersDay(y) ==
  CHOOSE n \in Date(y, 12, 1) .. Date(y, 12, 31) :
    Day(n) = 5 /\ \A k \in Date(y, 12, 1) .. n - 1 : Day(k) # 5

Holidays(y) ==
  {[name |-> "NewYearsDay", date |-> Date(y, 1, 1)],
   [name |-> "ConstitutionDay", date |-> Date(y, 1, 7)],
   [name |-> "IndependenceDay", date |-> Date(y, 3, 6)],
   [name |-> "GoodFriday", date |-> Easter(y) - 2],
   [name |-> "HolySaturday", date |-> Easter(y) - 1],
   [name |-> "EasterMonday", date |-> Easter(y) + 1],
   [name |-> "MayDay", date |-> Date(y, 5, 1)],
   [name |-> "AfricaUnionDay", date |-> Date(y, 5, 25)],
   [name |-> "RepublicDay", date |-> Date(y, 7, 1)],
   [name |-> "FoundersDay", date |-> Date(y, 8, 4)],
   [name |-> "KwameNkrumahMemorialDay", date |-> Date(y, 9, 21)],
   [name |-> "FarmersDay", date |-> FarmersDay(y)],
   [name |-> "ChristmasDay", date |-> Date(y, 12, 25)],
   [name |-> "BoxingDay", date |-> Date(y, 12, 26)]}

ForMonth(m, y) == {h \in Holidays(y) : InMonth(h.date, y, m)}

Init == year \in FirstYear .. LastYear /\ month = 1

NextMonth ==
  /\ month < 12
  /\ month' = month + 1
  /\ UNCHANGED year

Spec == Init /\ [][NextMonth]_vars

-----------------------------------------------------------------------------
(* The ecclesiastical calendar: the age of the moon on 1 January (the      *)
(* epact, by the Lilian cycle with its solar and lunar corrections and its *)
(* two exceptions) gives the first full moon from 21 March on; Easter is   *)
(* the Sunday after it.                                                    *)
Epact(y) ==
  LET golden == (y % 19) + 1  century == y \div 100 + 1
      solar == (3 * century) \div 4 - 12
      lunar == (8 * century + 5) \div 25 - 5
      e == (11 * golden + 20 + lunar - solar) % 30
  IN  IF e = 24 \/ (e = 25 /\ golden > 11) THEN e + 1 ELSE e

PaschalMoon(y) ==
  LET n == 44 - Epact(y) IN Date(y, 3, IF n < 21 THEN n + 30 ELSE n)

EasterSunday(y) ==
  CHOOSE n \in PaschalMoon(y) + 1 .. PaschalMoon(y) + 7 : Day(n) = 0

(* The month view shows the days around Easter as the church's calendar    *)
(* has them, in the month they fall in, also when Easter Sunday falls in   *)
(* the next one; and Farmers' Day on a Friday of the first week of December*)
MovableFeastsAreRight ==
  LET shown(name) == {h.date : h \in {k \in ForMonth(month, year) : k.name = name}}
      expected(n) == IF InMonth(n, year, month) THEN {n} ELSE {}
  IN /\ shown("GoodFriday") = expected(EasterSunday(year) - 2)
     /\ shown("HolySaturday") = expected(EasterSunday(year) - 1)
     /\ shown("EasterMonday") = expected(EasterSunday(year) + 1)
     /\ \A n \in shown("FarmersDay") : Day(n) = 5 /\ n \in Date(year, 12, 1) .. Date(year, 12, 7)
     /\ month = 12 => shown("FarmersDay") # {}
=============================================================================
