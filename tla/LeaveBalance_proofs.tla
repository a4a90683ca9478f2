------------------------- MODULE LeaveBalance_proofs -------------------------
(***************************************************************************)
(* Proofs about LeaveBalance for every policy, any number of requests, job *)
(* runs and days.  A balance is a sum over the ledger rows of a set of     *)
(* requests that steps change, so facts about such sums come first.        *)
(***************************************************************************)
EXTENDS LeaveBalance, FiniteSetTheorems, WellFoundedInduction, TLAPS

-----------------------------------------------------------------------------
(* Sums over a finite set.  The fold takes the elements in the order of an  *)
(* arbitrary choice; that its value does not depend on the order is proved  *)
(* here, by looking at a smallest set for which it would.                   *)

Pick(s) == CHOOSE x \in s : TRUE

\* g[s] is the sum of d over s, for every s within S.
SumsWithin(d, S, g) ==
  g = [s \in SUBSET S |-> IF s = {} THEN 0 ELSE d[Pick(s)] + g[s \ {Pick(s)}]]

Sum(d, S) == (CHOOSE g : SumsWithin(d, S, g))[S]

\* Two summands agree on a set.
SameOn(d, e, S) == \A x \in S : d[x] = e[x]

LEMMA PickIn == ASSUME NEW s, s # {} PROVE Pick(s) \in s
BY DEF Pick

LEMMA SameOnItself == ASSUME NEW d, NEW S PROVE SameOn(d, d, S)
BY DEF SameOn

LEMMA LeastSet ==
  ASSUME NEW R, IsFiniteSet(R), NEW T \in SUBSET (SUBSET R), T # {}
  PROVE  \E S \in T : \A s \in T : ~(s \subseteq S /\ s # S)
<1>1. IsWellFoundedOn(StrictSubsetOrdering(R), SUBSET R)
  BY FS_StrictSubsetOrderingWellFounded, FS_FiniteSubsetsOfFinite
<1>2. PICK S \in T : \A s \in T : ~ (<<s, S>> \in StrictSubsetOrdering(R))
  BY <1>1, WFMin
<1> QED
  BY <1>2 DEF StrictSubsetOrdering

\* Two such functions agree wherever their summands do.
LEMMA SumsAgree ==
  ASSUME NEW R, IsFiniteSet(R), NEW S \in SUBSET R, NEW T \in SUBSET R,
         NEW d, NEW e, NEW g, NEW h, SumsWithin(d, S, g), SumsWithin(e, T, h),
         NEW U \in SUBSET R, U \subseteq S, U \subseteq T, SameOn(d, e, U)
  PROVE  g[U] = h[U]
<1> DEFINE Bad == {s \in SUBSET U : g[s] # h[s]}
<1>1. SUFFICES ASSUME Bad # {} PROVE FALSE
  OBVIOUS
<1>2. PICK s \in Bad : \A t \in Bad : ~(t \subseteq s /\ t # s)
  <2>1. Bad \in SUBSET (SUBSET R)
    OBVIOUS
  <2> HIDE DEF Bad
  <2> QED
    BY <1>1, <2>1, LeastSet
<1>3. s \in SUBSET U /\ s \in SUBSET S /\ s \in SUBSET T /\ g[s] # h[s]
  BY <1>2
<1>4. g[s] = IF s = {} THEN 0 ELSE d[Pick(s)] + g[s \ {Pick(s)}]
  BY <1>3 DEF SumsWithin
<1>5. h[s] = IF s = {} THEN 0 ELSE e[Pick(s)] + h[s \ {Pick(s)}]
  BY <1>3 DEF SumsWithin
<1>6. s # {}
  BY <1>3, <1>4, <1>5
<1>7. Pick(s) \in s
  BY <1>6, PickIn
<1>8. g[s \ {Pick(s)}] = h[s \ {Pick(s)}]
  <2>1. s \ {Pick(s)} \in SUBSET U /\ s \ {Pick(s)} \subseteq s /\ s \ {Pick(s)} # s
    BY <1>3, <1>7
  <2> QED
    BY <1>2, <2>1
<1>9. d[Pick(s)] = e[Pick(s)]
  BY <1>3, <1>7 DEF SameOn
<1> QED
  BY <1>3, <1>4, <1>5, <1>6, <1>8, <1>9

\* The recursion defines a function on the subsets of every finite set.
LEMMA SumsExist ==
  ASSUME NEW R, IsFiniteSet(R), NEW d, NEW S \in SUBSET R
  PROVE  \E g : SumsWithin(d, S, g)
<1> DEFINE Bad == {s \in SUBSET R : ~ \E g : SumsWithin(d, s, g)}
<1>1. SUFFICES ASSUME Bad # {} PROVE FALSE
  OBVIOUS
<1>2. PICK T \in Bad : \A t \in Bad : ~(t \subseteq T /\ t # T)
  <2>1. Bad \in SUBSET (SUBSET R)
    OBVIOUS
  <2> HIDE DEF Bad
  <2> QED
    BY <1>1, <2>1, LeastSet
<1>3. T \in SUBSET R /\ ~ \E g : SumsWithin(d, T, g)
  BY <1>2
<1>4. \A s \in SUBSET T : s # T => \E g : SumsWithin(d, s, g)
  BY <1>2, <1>3
<1> DEFINE below(s) == CHOOSE g : SumsWithin(d, s, g)
           val(s) == below(s)[s]
           top == IF T = {} THEN 0 ELSE d[Pick(T)] + val(T \ {Pick(T)})
           f == [s \in SUBSET T |-> IF s = T THEN top ELSE val(s)]
<1>5. \A s \in SUBSET T : s # T => SumsWithin(d, s, below(s))
  BY <1>4
<1> HIDE DEF below
<1>6. ASSUME NEW s \in SUBSET T, s # T
      PROVE  val(s) = IF s = {} THEN 0 ELSE d[Pick(s)] + val(s \ {Pick(s)})
  <2>1. SumsWithin(d, s, below(s))
    BY <1>5, <1>6
  <2>2. below(s)[s] = IF s = {} THEN 0 ELSE d[Pick(s)] + below(s)[s \ {Pick(s)}]
    BY <2>1 DEF SumsWithin
  <2>3. CASE s = {}
    BY <2>2, <2>3
  <2>4. CASE s # {}
    <3> DEFINE t == s \ {Pick(s)}
    <3>1. Pick(s) \in s
      BY <2>4, PickIn
    <3>2. t \in SUBSET T /\ t # T /\ t \subseteq s /\ t \in SUBSET R /\ s \in SUBSET R
      BY <1>3, <1>6, <3>1
    <3>3. SumsWithin(d, t, below(t))
      BY <1>5, <3>2
    <3> HIDE DEF t
    <3>4. below(s)[t] = below(t)[t]
      BY <2>1, <3>2, <3>3, SumsAgree, SameOnItself
    <3> QED
      BY <2>2, <2>4, <3>4 DEF t
  <2> QED
    BY <2>3, <2>4
<1> HIDE DEF val
<1>7. ASSUME NEW s \in SUBSET T
      PROVE  f[s] = IF s = {} THEN 0 ELSE d[Pick(s)] + f[s \ {Pick(s)}]
  <2>1. s # {} => /\ s \ {Pick(s)} \in SUBSET T /\ s \ {Pick(s)} # T
    BY <1>7, PickIn
  <2>2. s # {} => f[s \ {Pick(s)}] = val(s \ {Pick(s)})
    BY <2>1
  <2>3. CASE s = T
    BY <2>2, <2>3
  <2>4. CASE s # T
    BY <1>6, <2>2, <2>4
  <2> QED
    BY <2>3, <2>4
<1>8. f = [s \in SUBSET T |-> IF s = {} THEN 0 ELSE d[Pick(s)] + f[s \ {Pick(s)}]]
  <2>1. f = [s \in SUBSET T |-> f[s]]
    OBVIOUS
  <2> HIDE DEF f
  <2> QED
    BY <1>7, <2>1
<1> HIDE DEF f
<1> QED
  BY <1>3, <1>8 DEF SumsWithin

\* The equation the sum satisfies, taking off the chosen element.
LEMMA SumPick ==
  ASSUME NEW R, IsFiniteSet(R), NEW d, NEW S \in SUBSET R
  PROVE  Sum(d, S) = IF S = {} THEN 0 ELSE d[Pick(S)] + Sum(d, S \ {Pick(S)})
<1> DEFINE g == CHOOSE g : SumsWithin(d, S, g)
           T == S \ {Pick(S)}
           h == CHOOSE h : SumsWithin(d, T, h)
<1>1. SumsWithin(d, S, g)
  BY SumsExist
<1>2. T \in SUBSET R
  OBVIOUS
<1>3. SumsWithin(d, T, h)
  BY <1>2, SumsExist
<1> HIDE DEF g, h
<1>4. g[S] = IF S = {} THEN 0 ELSE d[Pick(S)] + g[T]
  BY <1>1 DEF SumsWithin
<1>5. g[T] = h[T]
  BY <1>1, <1>2, <1>3, SumsAgree, SameOnItself
<1> QED
  BY <1>4, <1>5 DEF Sum, g, h

\* Equal summands, equal sums.
LEMMA SumSame ==
  ASSUME NEW R, IsFiniteSet(R), NEW d, NEW e, NEW S \in SUBSET R, \A x \in S : d[x] = e[x]
  PROVE  Sum(d, S) = Sum(e, S)
<1>1. ASSUME NEW g, NEW h, SumsWithin(d, S, g), SumsWithin(e, S, h)
      PROVE  g[S] = h[S]
  <2>1. S \subseteq S
    OBVIOUS
  <2>2. SameOn(d, e, S)
    BY DEF SameOn
  <2> QED
    BY <1>1, <2>1, <2>2, SumsAgree
<1>2. SumsWithin(d, S, CHOOSE g : SumsWithin(d, S, g))
  BY SumsExist
<1>3. SumsWithin(e, S, CHOOSE g : SumsWithin(e, S, g))
  BY SumsExist
<1> QED
  BY <1>1, <1>2, <1>3 DEF Sum

\* A sum of naturals is a natural.
LEMMA SumNat ==
  ASSUME NEW R, IsFiniteSet(R), NEW d \in [R -> Nat], NEW S \in SUBSET R
  PROVE  Sum(d, S) \in Nat
<1> DEFINE Bad == {s \in SUBSET R : Sum(d, s) \notin Nat}
<1>1. SUFFICES ASSUME Bad # {} PROVE FALSE
  OBVIOUS
<1>2. PICK s \in Bad : \A t \in Bad : ~(t \subseteq s /\ t # s)
  <2>1. Bad \in SUBSET (SUBSET R)
    OBVIOUS
  <2> HIDE DEF Bad
  <2> QED
    BY <1>1, <2>1, LeastSet
<1>3. s \in SUBSET R /\ Sum(d, s) \notin Nat
  BY <1>2
<1>4. Sum(d, s) = IF s = {} THEN 0 ELSE d[Pick(s)] + Sum(d, s \ {Pick(s)})
  BY <1>3, SumPick
<1>5. s # {} /\ Pick(s) \in s
  BY <1>3, <1>4, PickIn
<1>6. Sum(d, s \ {Pick(s)}) \in Nat
  <2>1. s \ {Pick(s)} \in SUBSET R /\ s \ {Pick(s)} # s /\ s \ {Pick(s)} \subseteq s
    BY <1>3, <1>5
  <2> QED
    BY <1>2, <2>1
<1>7. d[Pick(s)] \in Nat
  BY <1>3, <1>5
<1> QED
  BY <1>3, <1>4, <1>5, <1>6, <1>7

\* Any element may be taken off first.
LEMMA SumWithout ==
  ASSUME NEW R, IsFiniteSet(R), NEW d \in [R -> Nat], NEW S \in SUBSET R, NEW x \in S
  PROVE  Sum(d, S) = d[x] + Sum(d, S \ {x})
<1> DEFINE Bad == {s \in SUBSET R : \E y \in s : Sum(d, s) # d[y] + Sum(d, s \ {y})}
<1>1. SUFFICES ASSUME Bad # {} PROVE FALSE
  OBVIOUS
<1>2. PICK s \in Bad : \A t \in Bad : ~(t \subseteq s /\ t # s)
  <2>1. Bad \in SUBSET (SUBSET R)
    OBVIOUS
  <2> HIDE DEF Bad
  <2> QED
    BY <1>1, <2>1, LeastSet
<1>3. PICK y \in s : Sum(d, s) # d[y] + Sum(d, s \ {y})
  BY <1>2
<1> DEFINE p == Pick(s)
           a == s \ {p}
           b == s \ {y}
           c == s \ {p, y}
<1>4. s \in SUBSET R /\ p \in s
  BY <1>2, <1>3, PickIn
<1>5. Sum(d, s) = d[p] + Sum(d, a)
  BY <1>3, <1>4, SumPick
<1>6. y # p
  BY <1>3, <1>5
<1>7. /\ a \in SUBSET R /\ a \subseteq s /\ a # s /\ y \in a /\ a \ {y} = c
      /\ b \in SUBSET R /\ b \subseteq s /\ b # s /\ p \in b /\ b \ {p} = c
      /\ c \in SUBSET R
  BY <1>4, <1>6
<1>8. Sum(d, a) = d[y] + Sum(d, c)
  BY <1>2, <1>7
<1>9. Sum(d, b) = d[p] + Sum(d, c)
  BY <1>2, <1>7
<1>10. d[y] \in Nat /\ d[p] \in Nat /\ Sum(d, c) \in Nat
  <2>1. Sum(d, c) \in Nat
    BY <1>7, SumNat
  <2> QED
    BY <1>4, <2>1
<1>11. d[p] + (d[y] + Sum(d, c)) = d[y] + (d[p] + Sum(d, c))
  BY <1>10
<1> QED
  BY <1>3, <1>5, <1>8, <1>9, <1>11

\* Fewer elements, no larger sum.
LEMMA SumSmaller ==
  ASSUME NEW R, IsFiniteSet(R), NEW d \in [R -> Nat], NEW T \in SUBSET R, NEW S \in SUBSET T
  PROVE  Sum(d, S) <= Sum(d, T)
<1> DEFINE Bad == {t \in SUBSET T : S \subseteq t /\ ~(Sum(d, S) <= Sum(d, t))}
<1>1. SUFFICES ASSUME Bad # {} PROVE FALSE
  OBVIOUS
<1>2. PICK t \in Bad : \A u \in Bad : ~(u \subseteq t /\ u # t)
  <2>1. Bad \in SUBSET (SUBSET R)
    OBVIOUS
  <2> HIDE DEF Bad
  <2> QED
    BY <1>1, <2>1, LeastSet
<1>3. /\ t \in SUBSET R /\ S \subseteq t /\ ~(Sum(d, S) <= Sum(d, t))
      /\ Sum(d, S) \in Nat /\ Sum(d, t) \in Nat
  BY <1>2, SumNat
<1>4. PICK x \in t : x \notin S
  BY <1>3
<1>5. Sum(d, t) = d[x] + Sum(d, t \ {x})
  BY <1>3, SumWithout
<1>6. Sum(d, S) <= Sum(d, t \ {x})
  BY <1>2, <1>3, <1>4
<1>7. d[x] \in Nat /\ Sum(d, t \ {x}) \in Nat
  BY <1>3, SumNat
<1> QED
  BY <1>3, <1>5, <1>6, <1>7

\* A sum is what is within a set and what is not.
LEMMA SumSplit ==
  ASSUME NEW R, IsFiniteSet(R), NEW d \in [R -> Nat], NEW S \in SUBSET R, NEW G
  PROVE  Sum(d, S) = Sum(d, S \ G) + Sum(d, S \cap G)
<1> DEFINE Bad == {s \in SUBSET R : Sum(d, s) # Sum(d, s \ G) + Sum(d, s \cap G)}
<1>1. SUFFICES ASSUME Bad # {} PROVE FALSE
  OBVIOUS
<1>2. PICK s \in Bad : \A t \in Bad : ~(t \subseteq s /\ t # s)
  <2>1. Bad \in SUBSET (SUBSET R)
    OBVIOUS
  <2> HIDE DEF Bad
  <2> QED
    BY <1>1, <2>1, LeastSet
<1> DEFINE a == s \ G
           b == s \cap G
<1>3. s \in SUBSET R /\ Sum(d, s) # Sum(d, a) + Sum(d, b)
  BY <1>2
<1>4. s # {}
  <2>1. Sum(d, {}) = 0
    BY SumPick
  <2>2. s = {} => a = {} /\ b = {}
    OBVIOUS
  <2>3. s = {} => Sum(d, s) = 0 /\ Sum(d, a) = 0 /\ Sum(d, b) = 0
    BY <2>1, <2>2
  <2> HIDE DEF a, b
  <2>4. s = {} => Sum(d, s) = Sum(d, a) + Sum(d, b)
    BY <2>3
  <2> QED
    BY <1>3, <2>4
<1>5. PICK x \in s : TRUE
  BY <1>4
<1> DEFINE t == s \ {x}
<1>6. Sum(d, s) = d[x] + Sum(d, t)
  BY <1>3, <1>5, SumWithout
<1>7. Sum(d, t) = Sum(d, t \ G) + Sum(d, t \cap G)
  <2>1. t \in SUBSET R /\ t \subseteq s /\ t # s
    BY <1>3, <1>5
  <2> QED
    BY <1>2, <2>1
<1>8. /\ d[x] \in Nat /\ Sum(d, t \ G) \in Nat /\ Sum(d, t \cap G) \in Nat
  <2>1. x \in R /\ t \ G \in SUBSET R /\ t \cap G \in SUBSET R
    BY <1>3, <1>5
  <2>2. d[x] \in Nat
    BY <2>1
  <2>3. Sum(d, t \ G) \in Nat
    BY <2>1, SumNat
  <2>4. Sum(d, t \cap G) \in Nat
    BY <2>1, SumNat
  <2> QED
    BY <2>2, <2>3, <2>4
<1>9. CASE x \in G
  <2>1. t \ G = a /\ t \cap G = b \ {x} /\ x \in b /\ b \in SUBSET R
    BY <1>3, <1>5, <1>9
  <2>2. Sum(d, b) = d[x] + Sum(d, b \ {x})
    BY <2>1, SumWithout
  <2>3. Sum(d, t \ G) = Sum(d, a) /\ Sum(d, t \cap G) = Sum(d, b \ {x})
    BY <2>1
  <2> HIDE DEF t, a, b
  <2>4. ASSUME NEW i \in Nat, NEW j \in Nat, NEW k \in Nat PROVE i + (j + k) = j + (i + k)
    OBVIOUS
  <2>5. Sum(d, s) = d[x] + (Sum(d, a) + Sum(d, b \ {x}))
    BY <1>6, <1>7, <2>3
  <2>6. Sum(d, s) = Sum(d, a) + (d[x] + Sum(d, b \ {x}))
    BY <1>8, <2>3, <2>4, <2>5
  <2> QED
    BY <1>3, <2>2, <2>6
<1>10. CASE x \notin G
  <2>1. t \cap G = b /\ t \ G = a \ {x} /\ x \in a /\ a \in SUBSET R
    BY <1>3, <1>5, <1>10
  <2>2. Sum(d, a) = d[x] + Sum(d, a \ {x})
    BY <2>1, SumWithout
  <2>3. Sum(d, t \ G) = Sum(d, a \ {x}) /\ Sum(d, t \cap G) = Sum(d, b)
    BY <2>1
  <2> HIDE DEF t, a, b
  <2>4. ASSUME NEW i \in Nat, NEW j \in Nat, NEW k \in Nat PROVE i + (j + k) = (i + j) + k
    OBVIOUS
  <2>5. Sum(d, s) = d[x] + (Sum(d, a \ {x}) + Sum(d, b))
    BY <1>6, <1>7, <2>3
  <2>6. Sum(d, s) = (d[x] + Sum(d, a \ {x})) + Sum(d, b)
    BY <1>8, <2>3, <2>4, <2>5
  <2> QED
    BY <1>3, <2>2, <2>6
<1> QED
  BY <1>9, <1>10

\* The days of the ledger rows f, and the library's sum of them.
Days(f) == [r \in Requests |-> f[r].days]

LEMMA LedgerSum ==
  ASSUME NEW f, NEW S \in SUBSET Requests, IsFiniteSet(Requests)
  PROVE  MapThenSumSet(LAMBDA r : f[r].days, S) = Sum(Days(f), S)
<1> DEFINE iter == CHOOSE g : g = [s \in SUBSET S |->
                     IF s = {} THEN 0 ELSE f[Pick(s)].days + g[s \ {Pick(s)}]]
           h == CHOOSE h : SumsWithin(Days(f), S, h)
<1>1. MapThenSumSet(LAMBDA r : f[r].days, S) = iter[S]
  BY DEF MapThenSumSet, MapThenFoldSet, Pick
<1>2. ASSUME NEW s \in SUBSET S, s # {} PROVE Days(f)[Pick(s)] = f[Pick(s)].days
  BY <1>2, PickIn DEF Days
<1>3. SumsWithin(Days(f), S, h)
  BY SumsExist
<1>4. \A g : SumsWithin(Days(f), S, g)
             <=> g = [s \in SUBSET S |->
                        IF s = {} THEN 0 ELSE f[Pick(s)].days + g[s \ {Pick(s)}]]
  BY <1>2 DEF SumsWithin
<1>5. iter = [s \in SUBSET S |->
                IF s = {} THEN 0 ELSE f[Pick(s)].days + iter[s \ {Pick(s)}]]
  BY <1>3, <1>4
<1>6. SumsWithin(Days(f), S, iter)
  BY <1>4, <1>5
<1> HIDE DEF iter, h
<1>7. S \subseteq S
  OBVIOUS
<1>8. iter[S] = h[S]
  BY <1>3, <1>6, <1>7, SumsAgree, SameOnItself
<1> QED
  BY <1>1, <1>8 DEF Sum, h

-----------------------------------------------------------------------------
(* The balance as a function of the columns it is read from. *)

RowType == [state : {"absent", "reserving", "pending", "confirmed", "deleted"},
            days : DaySizes \cup {0}, start : Dates]

Ledgers == [Requests -> RowType]

\* The rows of f that count on day t, and the balance they leave.
EffectiveIn(f, t) == {r \in Requests : f[r].state = "confirmed" /\ f[r].start <= t}

Balance(c, e, f, t) == c - e - Sum(Days(f), EffectiveIn(f, t))

LEMMA DaysType ==
  ASSUME NEW f \in Ledgers
  PROVE  Days(f) \in [Requests -> Nat]
<1>1. DaySizes \cup {0} \subseteq Nat
  BY ConstantsAssumption
<1>2. \A r \in Requests : f[r].days \in Nat
  BY <1>1 DEF Ledgers, RowType
<1> QED
  BY <1>2 DEF Days

LEMMA SumType ==
  ASSUME NEW f \in Ledgers, NEW S \in SUBSET Requests
  PROVE  Sum(Days(f), S) \in Nat
BY DaysType, SumNat, ConstantsAssumption

LEMMA BalanceType ==
  ASSUME NEW c \in Nat, NEW e \in Nat, NEW f \in Ledgers, NEW t
  PROVE  Balance(c, e, f, t) \in Int
<1>1. EffectiveIn(f, t) \in SUBSET Requests
  BY DEF EffectiveIn
<1> QED
  BY <1>1, SumType DEF Balance

LEMMA UsableIs ==
  /\ Usable = Balance(credited, expired, row, today)
  /\ Usable' = Balance(credited', expired', row', today')
<1>1. /\ Effective = EffectiveIn(row, today)
      /\ Effective' = EffectiveIn(row', today')
  BY DEF Effective, Confirmed, EffectiveIn
<1>2. /\ EffectiveIn(row, today) \in SUBSET Requests
      /\ EffectiveIn(row', today') \in SUBSET Requests
  BY DEF EffectiveIn
<1>3. SumDays(Effective) = Sum(Days(row), EffectiveIn(row, today))
  BY <1>1, <1>2, LedgerSum, ConstantsAssumption DEF SumDays
<1>4. SumDays(Effective)' = Sum(Days(row'), EffectiveIn(row', today'))
  <2>1. SumDays(Effective)' = MapThenSumSet(LAMBDA r : row'[r].days, Effective')
    BY DEF SumDays, MapThenSumSet, MapThenFoldSet
  <2> QED
    BY <1>1, <1>2, <2>1, LedgerSum, ConstantsAssumption
<1> QED
  BY <1>3, <1>4 DEF Usable, Balance

\* Rows that do not count may change.
LEMMA SameBalance ==
  ASSUME NEW f, NEW g, NEW c, NEW e, NEW t, EffectiveIn(g, t) = EffectiveIn(f, t),
         \A r \in EffectiveIn(f, t) : g[r].days = f[r].days
  PROVE  Balance(c, e, g, t) = Balance(c, e, f, t)
<1>1. EffectiveIn(f, t) \in SUBSET Requests
  BY DEF EffectiveIn
<1>2. \A r \in EffectiveIn(f, t) : Days(g)[r] = Days(f)[r]
  BY <1>1 DEF Days
<1>3. Sum(Days(g), EffectiveIn(f, t)) = Sum(Days(f), EffectiveIn(f, t))
  BY <1>1, <1>2, SumSame, ConstantsAssumption
<1> QED
  BY <1>3 DEF Balance

\* A row more takes its days off.
LEMMA OneRowMore ==
  ASSUME NEW f \in Ledgers, NEW g \in Ledgers, NEW c \in Nat, NEW e \in Nat, NEW t, NEW u,
         NEW r \in Requests, r \notin EffectiveIn(f, t),
         EffectiveIn(g, u) = EffectiveIn(f, t) \cup {r},
         \A q \in Requests : g[q].days = f[q].days
  PROVE  Balance(c, e, g, u) = Balance(c, e, f, t) - f[r].days
<1> DEFINE S == EffectiveIn(f, t)
           T == EffectiveIn(g, u)
<1>1. S \in SUBSET Requests /\ T \in SUBSET Requests /\ r \in T /\ T \ {r} = S
  BY DEF EffectiveIn
<1>2. Days(g) = Days(f) /\ Days(f) \in [Requests -> Nat] /\ Days(f)[r] = f[r].days
  BY DaysType DEF Days
<1>3. Sum(Days(f), T) = Days(f)[r] + Sum(Days(f), T \ {r})
  BY <1>1, <1>2, SumWithout, ConstantsAssumption
<1>4. Sum(Days(f), S) \in Nat /\ Days(f)[r] \in Nat
  BY <1>1, <1>2, SumType
<1> HIDE DEF S, T
<1>5. Balance(c, e, g, u) = c - e - (Days(f)[r] + Sum(Days(f), S))
  BY <1>1, <1>2, <1>3 DEF Balance, S, T
<1>6. Balance(c, e, f, t) = c - e - Sum(Days(f), S)
  BY DEF Balance, S
<1> QED
  BY <1>2, <1>4, <1>5, <1>6

\* As days pass, leave begins and the balance only falls.
LEMMA LaterBalance ==
  ASSUME NEW f \in Ledgers, NEW c \in Nat, NEW e \in Nat, NEW t \in Nat
  PROVE  Balance(c, e, f, t + 1) <= Balance(c, e, f, t)
<1>1. /\ EffectiveIn(f, t + 1) \in SUBSET Requests
      /\ EffectiveIn(f, t) \in SUBSET EffectiveIn(f, t + 1)
  BY ConstantsAssumption DEF EffectiveIn, Ledgers, RowType, Dates
<1>2. Sum(Days(f), EffectiveIn(f, t)) <= Sum(Days(f), EffectiveIn(f, t + 1))
  BY <1>1, DaysType, SumSmaller, ConstantsAssumption
<1>3. Sum(Days(f), EffectiveIn(f, t)) \in Nat /\ Sum(Days(f), EffectiveIn(f, t + 1)) \in Nat
  BY <1>1, SumType
<1> QED
  BY <1>2, <1>3 DEF Balance

\* The smaller and the larger of two numbers.
LEMMA MinMax ==
  ASSUME NEW a \in Int, NEW b \in Int
  PROVE  /\ Min({a, b}) = IF a <= b THEN a ELSE b
         /\ Max({a, b}) = IF a >= b THEN a ELSE b
BY DEF Min, Max

-----------------------------------------------------------------------------
(* Type correctness. *)

LEMMA PolicyType ==
  ASSUME TypeOK
  PROVE  /\ policy.accrualRate \in Nat /\ policy.maxBalance \in Nat
         /\ policy.carryOverLimit \in Nat
BY ConstantsAssumption DEF TypeOK

LEMMA UsableType ==
  ASSUME TypeOK
  PROVE  Usable \in Int
BY BalanceType, UsableIs DEF TypeOK, Ledgers, RowType

JobType == [pc : {"idle", "credit", "carry", "expire"}, amount : Nat, expire : Nat, back : Nat]

PageType == [pc : {"idle", "used", "pending"}, accrued : Nat, used : Nat, most : Int]

\* What an accrual job will insert.
LEMMA CreditType ==
  ASSUME TypeOK, Credit(Usable) > 0
  PROVE  /\ Credit(Usable) \in Nat
         /\ Credit(Usable) + Usable <= policy.maxBalance
<1>1. policy.accrualRate \in Int /\ policy.maxBalance - Usable \in Int
  BY PolicyType, UsableType
<1>2. /\ Credit(Usable) \in Int
      /\ Credit(Usable) <= policy.maxBalance - Usable
  BY <1>1, MinMax DEF Credit
<1> QED
  BY <1>1, <1>2, PolicyType, UsableType

\* What the year end will insert: no part of it is negative.
LEMMA CarryOverType ==
  ASSUME TypeOK, Usable > 0
  PROVE  Carried(Usable) \in Nat /\ Expiring(Usable) \in Nat
<1>1. Usable \in Nat /\ policy.carryOverLimit \in Nat
  BY PolicyType, UsableType
<1>2. /\ Min({Usable, policy.carryOverLimit}) \in Nat
      /\ Min({Usable, policy.carryOverLimit}) <= Usable
  BY <1>1, MinMax
<1>3. /\ policy.carryOver = "Full" => Carried(Usable) = Usable
      /\ policy.carryOver = "Limited" => Carried(Usable) = Min({Usable, policy.carryOverLimit})
      /\ policy.carryOver \notin {"Full", "Limited"} => Carried(Usable) = 0
  BY DEF Carried
<1>4. Carried(Usable) \in Nat /\ Carried(Usable) <= Usable
  BY <1>1, <1>2, <1>3
<1> QED
  BY <1>1, <1>4 DEF Expiring

LEMMA TypeInit == Init => TypeOK
<1> SUFFICES ASSUME Init PROVE TypeOK
  OBVIOUS
<1>1. 0 \in Dates /\ 0 \in 0 .. MaxRuns /\ 0 \in Nat
  BY ConstantsAssumption DEF Dates
<1>2. row \in [Requests -> [state : {"absent", "reserving", "pending", "confirmed", "deleted"},
                           days : DaySizes \cup {0}, start : Dates]]
  BY <1>1 DEF Init, NoRow
<1>3. job \in [Workers -> [pc : {"idle", "credit", "carry", "expire"},
                          amount : Nat, expire : Nat, back : Nat]]
  BY <1>1 DEF Init, NoJob
<1>4. NoPage \in PageType
  BY <1>1 DEF NoPage, PageType
<1> QED
  BY <1>1, <1>2, <1>3, <1>4 DEF Init, TypeOK, PageType

LEMMA TypeRequest ==
  ASSUME TypeOK, NEW r \in Requests,
         \/ \E days \in DaySizes, start \in Dates : BeginReserve(r, days, start)
         \/ FinishReserve(r) \/ AbortReserve(r) \/ Confirm(r) \/ Release(r)
  PROVE  TypeOK'
<1>1. NoRow \in RowType
  BY ConstantsAssumption DEF NoRow, RowType, Dates
<1>2. row \in [Requests -> RowType]
  BY DEF TypeOK, RowType
<1>3. row' \in [Requests -> RowType]
  <2>1. ASSUME NEW days \in DaySizes, NEW start \in Dates, BeginReserve(r, days, start)
        PROVE  row' \in [Requests -> RowType]
    BY <1>2, <2>1 DEF BeginReserve, Check, RowType
  <2>2. ASSUME NEW from, NEW to \in {"absent", "pending", "confirmed"}, SetState(r, from, to)
        PROVE  row' \in [Requests -> RowType]
    <3>1. [row[r] EXCEPT !.state = to] \in RowType
      BY <1>2, <2>2 DEF RowType
    <3> QED
      BY <1>1, <1>2, <2>2, <3>1 DEF SetState
  <2> QED
    BY <2>1, <2>2 DEF FinishReserve, AbortReserve, Confirm, Release
<1>4. /\ UNCHANGED <<policy, removed, today, credited, expired, job, runs, page>>
      /\ overlapped' \in BOOLEAN
  BY DEF BeginReserve, Check, FinishReserve, AbortReserve, Confirm, Release, SetState, TypeOK
<1> QED
  BY <1>3, <1>4 DEF TypeOK, RowType

LEMMA TypeJob ==
  ASSUME TypeOK, NEW w \in Workers,
         \/ BeginAccrual(w) \/ BeginDevSeed(w) \/ BeginCarryOver(w)
         \/ InsertCredit(w) \/ InsertExpiry(w) \/ JobFails(w)
  PROVE  TypeOK'
<1>1. job \in [Workers -> JobType] /\ NoJob \in JobType /\ runs \in 0 .. MaxRuns
      /\ MaxRuns \in Nat /\ credited \in Nat /\ expired \in Nat
  BY ConstantsAssumption DEF TypeOK, JobType, NoJob
<1>2. ASSUME NEW j \in JobType, Begin(w, j) PROVE TypeOK'
  <2>1. job' \in [Workers -> JobType] /\ runs' \in 0 .. MaxRuns
    BY <1>1, <1>2 DEF Begin
  <2> QED
    BY <1>2, <2>1 DEF Begin, TypeOK, JobType, ledger
<1>3. CASE BeginAccrual(w) \/ BeginDevSeed(w)
  <2>1. [pc |-> "credit", amount |-> Credit(Usable), expire |-> 0, back |-> 0] \in JobType
    BY <1>3, CreditType DEF BeginAccrual, BeginDevSeed, JobType
  <2> QED
    BY <1>2, <1>3, <2>1 DEF BeginAccrual, BeginDevSeed
<1>4. CASE BeginCarryOver(w)
  <2>1. [pc |-> IF Carried(Usable) > 0 THEN "carry" ELSE "expire",
         amount |-> Carried(Usable), expire |-> Expiring(Usable), back |-> 0] \in JobType
    BY <1>4, CarryOverType DEF BeginCarryOver, JobType
  <2> QED
    BY <1>2, <1>4, <2>1 DEF BeginCarryOver
<1>5. CASE InsertCredit(w) \/ InsertExpiry(w) \/ JobFails(w)
  <2>1. [job[w] EXCEPT !.pc = "expire", !.amount = 0] \in JobType
    BY <1>1 DEF JobType
  <2>2. job' \in [Workers -> JobType]
    BY <1>1, <1>5, <2>1 DEF InsertCredit, InsertExpiry, JobFails
  <2>3. job[w].amount \in Nat /\ job[w].expire \in Nat
    BY <1>1 DEF JobType
  <2>4. credited' \in Nat /\ expired' \in Nat
    BY <1>1, <1>5, <2>3 DEF InsertCredit, InsertExpiry, JobFails, ledger
  <2>5. UNCHANGED <<policy, removed, today, row, runs, overlapped, page>>
    BY <1>5 DEF InsertCredit, InsertExpiry, JobFails, ledger
  <2> QED
    BY <2>2, <2>4, <2>5 DEF TypeOK, JobType
<1> QED
  BY <1>3, <1>4, <1>5

LEMMA GivenType ==
  ASSUME TypeOK, NEW gone
  PROVE  /\ SumDays(gone \cap Effective) \in Nat
         /\ SumDays(gone \cap Effective) = Sum(Days(row), EffectiveIn(row, today) \cap gone)
<1>1. gone \cap Effective = EffectiveIn(row, today) \cap gone
  BY DEF Effective, Confirmed, EffectiveIn
<1>2. gone \cap Effective \in SUBSET Requests /\ row \in Ledgers
  BY DEF Effective, Confirmed, TypeOK, Ledgers, RowType
<1>3. SumDays(gone \cap Effective) = Sum(Days(row), gone \cap Effective)
  BY <1>2, LedgerSum, ConstantsAssumption DEF SumDays
<1> QED
  BY <1>1, <1>2, <1>3, SumType

LEMMA TypeRemove ==
  ASSUME TypeOK, (\E gone \in SUBSET Requests : RemoveDepartment(gone)) \/ RemovePolicy
  PROVE  TypeOK'
<1>1. Gone \in RowType /\ row \in [Requests -> RowType] /\ job \in [Workers -> JobType]
      /\ page \in PageType
  BY ConstantsAssumption DEF Gone, RowType, Dates, TypeOK, JobType, PageType
<1>2. ASSUME NEW gone \in SUBSET Requests, RemoveDepartment(gone) PROVE TypeOK'
  <2> DEFINE given == SumDays(gone \cap Effective)
  <2>1. given \in Nat
    BY GivenType
  <2>2. /\ row' = [r \in Requests |-> IF r \in gone THEN Gone ELSE row[r]]
        /\ job' = [w \in Workers |->
             IF job[w].pc = "idle" THEN job[w] ELSE [job[w] EXCEPT !.back = @ + given]]
        /\ page' = IF page.pc = "used" THEN [page EXCEPT !.most = @ + given] ELSE page
        /\ UNCHANGED <<policy, removed, today, credited, expired, runs, overlapped>>
    BY <1>2 DEF RemoveDepartment
  <2> HIDE DEF given
  <2>3. row' \in [Requests -> RowType]
    BY <1>1, <2>2
  <2>4. job' \in [Workers -> JobType]
    <3>1. \A w \in Workers : [job[w] EXCEPT !.back = @ + given] \in JobType
      BY <1>1, <2>1 DEF JobType
    <3> QED
      BY <1>1, <2>2, <3>1
  <2>5. page' \in PageType
    BY <1>1, <2>1, <2>2 DEF PageType
  <2> QED
    BY <2>2, <2>3, <2>4, <2>5 DEF TypeOK, RowType, JobType, PageType
<1>3. CASE RemovePolicy
  <2>1. row' \in [Requests -> RowType]
    BY <1>1, <1>3 DEF RemovePolicy
  <2> QED
    BY <1>3, <2>1 DEF RemovePolicy, TypeOK, RowType
<1> QED
  BY <1>2, <1>3

\* The sums the page reads.
LEMMA PageSums ==
  ASSUME TypeOK
  PROVE  /\ Used \in Nat /\ SumDays(Pending) \in Nat
         /\ Used >= credited - Usable
<1> DEFINE e == Sum(Days(row), EffectiveIn(row, today))
           c == Sum(Days(row), Confirmed)
           p == Sum(Days(row), Pending)
<1>1. row \in Ledgers /\ credited \in Nat /\ expired \in Nat
  BY DEF TypeOK, Ledgers, RowType
<1>2. /\ EffectiveIn(row, today) \in SUBSET Confirmed
      /\ EffectiveIn(row, today) \in SUBSET Requests
      /\ Confirmed \in SUBSET Requests /\ Pending \in SUBSET Requests
  BY DEF EffectiveIn, Confirmed, Pending
<1>3. e \in Nat /\ c \in Nat /\ p \in Nat
  BY <1>1, <1>2, SumType
<1>4. e <= c
  BY <1>1, <1>2, DaysType, SumSmaller, ConstantsAssumption
<1>5. SumDays(Confirmed) = c /\ SumDays(Pending) = p
  BY <1>2, LedgerSum, ConstantsAssumption DEF SumDays
<1> HIDE DEF e, c, p
<1>6. Usable = credited - expired - e
  BY UsableIs DEF Balance, e
<1> QED
  BY <1>1, <1>3, <1>4, <1>5, <1>6 DEF Used

LEMMA TypePage ==
  ASSUME TypeOK, ReadAccrued \/ ReadUsed \/ ReadPending
  PROVE  TypeOK'
<1>1. page \in PageType /\ runs \in 0 .. MaxRuns /\ MaxRuns \in Nat /\ credited \in Nat
  BY ConstantsAssumption DEF TypeOK, PageType
<1>2. UNCHANGED <<policy, removed, today, credited, expired, row, job, overlapped>>
  BY DEF ReadAccrued, ReadUsed, ReadPending, ReadPage, ledger
<1>3. page' \in PageType
  <2>1. CASE ReadAccrued
    <3>1. [NoPage EXCEPT !.pc = "used", !.accrued = credited, !.most = Usable] \in PageType
      BY <1>1, UsableType DEF NoPage, PageType
    <3> QED
      BY <2>1, <3>1 DEF ReadAccrued, ReadPage
  <2>2. CASE ReadUsed
    <3>1. [page EXCEPT !.pc = "pending", !.used = Used] \in PageType
      BY <1>1, PageSums DEF PageType
    <3> QED
      BY <2>2, <3>1 DEF ReadUsed, ReadPage
  <2>3. CASE ReadPending
    <3>1. NoPage \in PageType
      BY <1>1 DEF NoPage, PageType
    <3> QED
      BY <2>3, <3>1 DEF ReadPending, ReadPage
  <2> QED
    BY <2>1, <2>2, <2>3
<1>4. runs' \in 0 .. MaxRuns
  BY <1>1 DEF ReadAccrued, ReadUsed, ReadPending
<1> QED
  BY <1>2, <1>3, <1>4 DEF TypeOK, PageType

LEMMA TypeNext == TypeOK /\ [Next]_vars => TypeOK'
<1> SUFFICES ASSUME TypeOK, [Next]_vars PROVE TypeOK'
  OBVIOUS
<1>1. CASE Tick
  BY <1>1, ConstantsAssumption DEF Tick, TypeOK, Dates, ledger
<1>2. CASE UNCHANGED vars
  BY <1>2 DEF vars, ledger, TypeOK
<1> QED
  BY <1>1, <1>2, TypeRequest, TypeJob, TypeRemove, TypePage DEF Next

\* Every column keeps its type; in particular no job credits or expires a
\* negative number of days.
THEOREM TypeCorrect == Spec => []TypeOK
BY TypeInit, TypeNext, PTL DEF Spec

-----------------------------------------------------------------------------
(* How each step moves the balance. *)

\* The steps of a request: only a confirmation takes days, and only those of
\* a leave that has begun.
LEMMA RequestBalance ==
  ASSUME TypeOK, NEW r \in Requests
  PROVE  /\ \A days \in DaySizes, start \in Dates : BeginReserve(r, days, start) => Usable' = Usable
         /\ FinishReserve(r) \/ AbortReserve(r) \/ Release(r) => Usable' = Usable
         /\ Confirm(r) => Usable' = Usable - (IF row[r].start <= today THEN row[r].days ELSE 0)
<1>1. row \in Ledgers /\ credited \in Nat /\ expired \in Nat /\ row[r].days \in Nat /\ Usable \in Int
  <2>1. row \in Ledgers /\ credited \in Nat /\ expired \in Nat
    BY DEF TypeOK, Ledgers, RowType
  <2>2. Days(row)[r] \in Nat
    BY <2>1, DaysType
  <2> QED
    BY <2>1, <2>2, UsableType DEF Days
<1>2. ASSUME row[r].state # "confirmed", row'[r].state # "confirmed",
             \A q \in Requests \ {r} : row'[q] = row[q],
             UNCHANGED <<credited, expired, today>>
      PROVE  Usable' = Usable
  <2>1. EffectiveIn(row', today) = EffectiveIn(row, today)
    BY <1>2 DEF EffectiveIn
  <2>2. \A q \in EffectiveIn(row, today) : row'[q].days = row[q].days
    BY <1>2 DEF EffectiveIn
  <2>3. Balance(credited, expired, row', today) = Balance(credited, expired, row, today)
    BY <2>1, <2>2, SameBalance
  <2> QED
    BY <1>2, <2>3, UsableIs
<1>3. ASSUME NEW days \in DaySizes, NEW start \in Dates, BeginReserve(r, days, start)
      PROVE  Usable' = Usable
  BY <1>1, <1>2, <1>3 DEF BeginReserve, Check, Ledgers
<1>4. ASSUME FinishReserve(r) \/ AbortReserve(r) \/ Release(r) PROVE Usable' = Usable
  <2>1. row[r].state \in {"reserving", "pending"}
    BY <1>4 DEF FinishReserve, AbortReserve, Release, SetState
  <2>2. \/ row' = [row EXCEPT ![r] = NoRow]
        \/ row' = [row EXCEPT ![r] = [row[r] EXCEPT !.state = "pending"]]
    BY <1>4 DEF FinishReserve, AbortReserve, Release, SetState
  <2>3. row'[r].state # "confirmed"
    BY <1>1, <2>2 DEF Ledgers, RowType, NoRow
  <2>4. /\ \A q \in Requests \ {r} : row'[q] = row[q]
        /\ UNCHANGED <<credited, expired, today>>
    BY <1>1, <1>4, <2>2 DEF FinishReserve, AbortReserve, Release, SetState, Ledgers
  <2> QED
    BY <1>2, <2>1, <2>3, <2>4
<1>5. ASSUME Confirm(r)
      PROVE  Usable' = Usable - (IF row[r].start <= today THEN row[r].days ELSE 0)
  <2>1. /\ row[r].state = "pending"
        /\ row' = [row EXCEPT ![r] = [row[r] EXCEPT !.state = "confirmed"]]
        /\ UNCHANGED <<credited, expired, today>>
    BY <1>5 DEF Confirm, SetState
  <2>2. /\ row'[r].state = "confirmed" /\ row'[r].days = row[r].days /\ row'[r].start = row[r].start
        /\ \A q \in Requests \ {r} : row'[q] = row[q]
    BY <1>1, <2>1 DEF Ledgers, RowType
  <2>3. r \notin EffectiveIn(row, today) /\ row' \in Ledgers
    <3>1. TypeOK'
      BY <1>5, TypeRequest
    <3> QED
      BY <2>1, <3>1 DEF EffectiveIn, TypeOK, Ledgers, RowType
  <2>4. CASE row[r].start <= today
    <3>1. EffectiveIn(row', today) = EffectiveIn(row, today) \cup {r}
      BY <2>1, <2>2, <2>4 DEF EffectiveIn
    <3>2. \A q \in Requests : row'[q].days = row[q].days
      BY <2>2
    <3>3. Balance(credited, expired, row', today) = Balance(credited, expired, row, today) - row[r].days
      BY <1>1, <2>3, <3>1, <3>2, OneRowMore
    <3> QED
      BY <2>1, <2>4, <3>3, UsableIs
  <2>5. CASE ~(row[r].start <= today)
    <3>1. EffectiveIn(row', today) = EffectiveIn(row, today)
      BY <2>1, <2>2, <2>5 DEF EffectiveIn
    <3>2. Balance(credited, expired, row', today) = Balance(credited, expired, row, today)
      BY <2>2, <3>1, SameBalance DEF EffectiveIn
    <3> QED
      BY <1>1, <2>1, <2>5, <3>2, UsableIs
  <2> QED
    BY <2>4, <2>5
<1> QED
  BY <1>3, <1>4, <1>5

\* The steps of a job.
LEMMA JobBalance ==
  ASSUME TypeOK, NEW w \in Workers
  PROVE  /\ BeginAccrual(w) \/ BeginDevSeed(w) \/ BeginCarryOver(w) \/ JobFails(w) => Usable' = Usable
         /\ InsertCredit(w) => Usable' = Usable + job[w].amount
         /\ InsertExpiry(w) => Usable' = Usable - job[w].expire
<1>1. job[w].amount \in Nat /\ job[w].expire \in Nat /\ credited \in Nat /\ expired \in Nat
      /\ row \in Ledgers
  BY DEF TypeOK, Ledgers, RowType
<1> DEFINE s == Sum(Days(row), EffectiveIn(row, today))
<1>2. s \in Nat
  BY <1>1, SumType DEF EffectiveIn
<1>3. Usable = credited - expired - s
  BY UsableIs DEF Balance
<1>4. UNCHANGED <<row, today>> => Usable' = credited' - expired' - s
  BY UsableIs DEF Balance
<1> HIDE DEF s
<1>5. ASSUME InsertCredit(w) PROVE Usable' = Usable + job[w].amount
  BY <1>1, <1>2, <1>3, <1>4, <1>5 DEF InsertCredit
<1>6. ASSUME InsertExpiry(w) PROVE Usable' = Usable - job[w].expire
  BY <1>1, <1>2, <1>3, <1>4, <1>6 DEF InsertExpiry
<1>7. ASSUME BeginAccrual(w) \/ BeginDevSeed(w) \/ BeginCarryOver(w) \/ JobFails(w)
      PROVE  Usable' = Usable
  BY <1>3, <1>4, <1>7 DEF BeginAccrual, BeginDevSeed, BeginCarryOver, Begin, JobFails, ledger
<1> QED
  BY <1>5, <1>6, <1>7

\* A department that is removed gives back the deductions that counted.
LEMMA RemovalBalance ==
  ASSUME TypeOK, NEW gone \in SUBSET Requests, RemoveDepartment(gone)
  PROVE  Usable' = Usable + SumDays(gone \cap Effective)
<1> DEFINE S == EffectiveIn(row, today)
<1>1. /\ row' = [r \in Requests |-> IF r \in gone THEN Gone ELSE row[r]]
      /\ UNCHANGED <<credited, expired, today>>
  BY DEF RemoveDepartment
<1>2. row \in Ledgers /\ credited \in Nat /\ expired \in Nat
  BY DEF TypeOK, Ledgers, RowType
<1>3. EffectiveIn(row', today') = S \ gone /\ S \in SUBSET Requests
  BY <1>1 DEF EffectiveIn, Gone
<1>4. \A r \in S \ gone : Days(row')[r] = Days(row)[r]
  BY <1>1, <1>3 DEF Days
<1>5. Sum(Days(row'), S \ gone) = Sum(Days(row), S \ gone)
  BY <1>3, <1>4, SumSame, ConstantsAssumption
<1>6. Sum(Days(row), S) = Sum(Days(row), S \ gone) + Sum(Days(row), S \cap gone)
  <2>1. Days(row) \in [Requests -> Nat] /\ S \in SUBSET Requests
    BY <1>2, <1>3, DaysType
  <2>2. IsFiniteSet(Requests)
    BY ConstantsAssumption
  <2> HIDE DEF S
  <2> QED
    BY <2>1, <2>2, SumSplit
<1>7. Sum(Days(row), S \ gone) \in Nat /\ Sum(Days(row), S \cap gone) \in Nat
  BY <1>2, <1>3, SumType
<1>8. SumDays(gone \cap Effective) = Sum(Days(row), S \cap gone)
  BY GivenType
<1>9. Usable' = credited - expired - Sum(Days(row), S \ gone)
  BY <1>1, <1>3, <1>5, UsableIs DEF Balance
<1>10. Usable = credited - expired - Sum(Days(row), S)
  BY UsableIs DEF Balance
<1> HIDE DEF S
<1> QED
  BY <1>2, <1>6, <1>7, <1>8, <1>9, <1>10

LEMMA TickBalance ==
  ASSUME TypeOK, Tick
  PROVE  Usable' <= Usable
<1>1. Balance(credited, expired, row, today + 1) <= Balance(credited, expired, row, today)
  BY LaterBalance, ConstantsAssumption DEF TypeOK, Ledgers, RowType, Dates
<1> QED
  BY <1>1, UsableIs DEF Tick, ledger

\* The page only reads.
LEMMA PageBalance ==
  ASSUME ReadAccrued \/ ReadUsed \/ ReadPending
  PROVE  Usable' = Usable
BY UsableIs DEF ReadAccrued, ReadUsed, ReadPending, ReadPage, ledger

-----------------------------------------------------------------------------
(* The policy's maximum. *)

\* No two jobs at once.
OneJob == \A v, w \in Workers : v = w

\* A job that is about to insert saw a balance that leaves room for what it
\* inserts, and still does but for the days given back since: apart from
\* these the balance only falls meanwhile.
Room(w) ==
  job[w].pc = "credit" => /\ job[w].expire = 0
                          /\ Usable + job[w].amount <= policy.maxBalance + job[w].back

CapInv == TypeOK /\ ~removed => \A w \in Workers : Room(w)

LEMMA UsableTypes ==
  ASSUME TypeOK, TypeOK'
  PROVE  Usable \in Int /\ Usable' \in Int
BY BalanceType, UsableIs DEF TypeOK, Ledgers, RowType

\* A job keeps its room when the balance does not rise.
LEMMA RoomStays ==
  ASSUME TypeOK, TypeOK', Usable' <= Usable, policy' = policy, NEW w \in Workers, Room(w),
         job'[w] = job[w] \/ job'[w].pc # "credit"
  PROVE  Room(w)'
<1>1. /\ Usable \in Int /\ Usable' \in Int /\ policy.maxBalance \in Nat
      /\ job[w].amount \in Nat /\ job[w].back \in Nat
  BY UsableTypes, PolicyType DEF TypeOK
<1> QED
  BY <1>1 DEF Room

LEMMA RoomRequest ==
  ASSUME TypeOK, TypeOK', NEW r \in Requests, NEW w \in Workers, Room(w),
         \/ \E days \in DaySizes, start \in Dates : BeginReserve(r, days, start)
         \/ FinishReserve(r) \/ AbortReserve(r) \/ Confirm(r) \/ Release(r)
  PROVE  Room(w)'
<1>1. policy' = policy /\ job' = job
  BY DEF BeginReserve, Check, FinishReserve, AbortReserve, Confirm, Release, SetState
<1>2. Usable' <= Usable
  <2>1. Usable \in Int
    BY UsableType
  <2>2. row[r].days \in Nat
    <3>1. Days(row)[r] \in Nat
      BY DaysType DEF TypeOK, Ledgers, RowType
    <3> QED
      BY <3>1 DEF Days
  <2> QED
    BY <2>1, <2>2, RequestBalance
<1> QED
  BY <1>1, <1>2, RoomStays

LEMMA RoomRemoval ==
  ASSUME TypeOK, TypeOK', NEW gone \in SUBSET Requests, RemoveDepartment(gone),
         NEW w \in Workers, Room(w)
  PROVE  Room(w)'
<1> DEFINE given == SumDays(gone \cap Effective)
<1>1. /\ Usable \in Int /\ given \in Nat /\ policy.maxBalance \in Nat
      /\ job[w].amount \in Nat /\ job[w].back \in Nat
  BY UsableType, PolicyType, GivenType DEF TypeOK
<1>2. Usable' = Usable + given
  BY RemovalBalance
<1>3. /\ policy' = policy
      /\ job' = [v \in Workers |->
           IF job[v].pc = "idle" THEN job[v] ELSE [job[v] EXCEPT !.back = @ + given]]
  BY DEF RemoveDepartment
<1> HIDE DEF given
<1>4. /\ job'[w].pc = job[w].pc /\ job'[w].amount = job[w].amount /\ job'[w].expire = job[w].expire
      /\ job[w].pc = "credit" => job'[w].back = job[w].back + given
  BY <1>3 DEF TypeOK
<1> QED
  BY <1>1, <1>2, <1>3, <1>4 DEF Room

LEMMA RoomBegin ==
  ASSUME TypeOK, TypeOK', NEW v \in Workers, NEW w \in Workers, Room(w),
         BeginAccrual(v) \/ BeginDevSeed(v) \/ BeginCarryOver(v)
  PROVE  Room(w)'
<1>1. policy' = policy /\ Usable' = Usable /\ Usable \in Int
  BY JobBalance, UsableType DEF BeginAccrual, BeginDevSeed, BeginCarryOver, Begin
<1>2. CASE w # v
  <2>1. job'[w] = job[w]
    BY <1>2 DEF BeginAccrual, BeginDevSeed, BeginCarryOver, Begin, TypeOK
  <2> QED
    BY <1>1, <2>1, RoomStays
<1>3. CASE w = v /\ BeginCarryOver(v)
  <2>1. job'[w].pc # "credit"
    BY <1>3 DEF BeginCarryOver, Begin, TypeOK
  <2> QED
    BY <2>1 DEF Room
<1>4. CASE w = v /\ (BeginAccrual(v) \/ BeginDevSeed(v))
  <2>1. /\ Credit(Usable) > 0
        /\ job'[w] = [pc |-> "credit", amount |-> Credit(Usable), expire |-> 0, back |-> 0]
    BY <1>4 DEF BeginAccrual, BeginDevSeed, Begin, TypeOK
  <2>2. Usable + Credit(Usable) <= policy.maxBalance /\ policy.maxBalance \in Nat
    BY <1>1, <2>1, CreditType, PolicyType
  <2> QED
    BY <1>1, <2>1, <2>2 DEF Room
<1> QED
  BY <1>2, <1>3, <1>4

LEMMA RoomEnd ==
  ASSUME TypeOK, TypeOK', NEW v \in Workers, NEW w \in Workers, Room(w),
         InsertExpiry(v) \/ JobFails(v)
  PROVE  Room(w)'
<1>1. policy' = policy /\ job' = [job EXCEPT ![v] = NoJob]
  BY DEF InsertExpiry, JobFails
<1>2. job'[w] = job[w] \/ job'[w].pc # "credit"
  BY <1>1 DEF NoJob, TypeOK
<1>3. Usable \in Int /\ job[v].expire \in Nat
  BY UsableType DEF TypeOK
<1>4. Usable' <= Usable
  BY <1>3, JobBalance
<1> QED
  BY <1>1, <1>2, <1>4, RoomStays

LEMMA CapNext ==
  ASSUME OneJob
  PROVE  TypeOK /\ CapInv /\ [Next]_vars => CapInv'
<1> SUFFICES ASSUME TypeOK, CapInv, [Next]_vars, ~removed', NEW w \in Workers
             PROVE  Room(w)'
  BY DEF CapInv
<1>1. TypeOK' /\ Usable \in Int
  BY TypeNext, UsableType
<1>2. ~removed
  BY DEF Next, BeginReserve, Check, FinishReserve, AbortReserve, Confirm, Release, SetState,
         RemoveDepartment, RemovePolicy, BeginAccrual, BeginDevSeed, BeginCarryOver, Begin,
         InsertCredit, InsertExpiry, JobFails, ReadAccrued, ReadUsed, ReadPending, ReadPage,
         Tick, vars
<1>3. Room(w)
  BY <1>2 DEF CapInv
<1>4. CASE Tick
  <2>1. policy' = policy /\ job' = job
    BY <1>4 DEF Tick
  <2> QED
    BY <1>1, <1>3, <1>4, <2>1, TickBalance, RoomStays
<1>5. CASE ReadAccrued \/ ReadUsed \/ ReadPending \/ UNCHANGED vars
  <2>1. policy' = policy /\ job' = job /\ Usable' = Usable
    BY <1>5, PageBalance, UsableIs DEF ReadAccrued, ReadUsed, ReadPending, ReadPage, vars, ledger
  <2> QED
    BY <1>1, <1>3, <2>1, RoomStays
<1>6. ASSUME NEW v \in Workers, InsertCredit(v) PROVE Room(w)'
  <2>1. v = w
    BY DEF OneJob
  <2>2. job'[w].pc # "credit"
    BY <1>6, <2>1 DEF InsertCredit, NoJob, TypeOK
  <2> QED
    BY <2>2 DEF Room
<1>7. CASE RemovePolicy
  BY <1>7 DEF RemovePolicy
<1> QED
  BY <1>1, <1>3, <1>4, <1>5, <1>6, <1>7, RoomRequest, RoomRemoval, RoomBegin, RoomEnd DEF Next

\* While no two jobs overlap, an accrual ends above the policy's maximum only
\* by days given back while it ran, whatever else happens to the requests
\* between its sum and its insert, and whatever inserts fail.
THEOREM AccrualKeepsToTheMaximum ==
  ASSUME OneJob
  PROVE  Spec => CreditsKeepToTheMaximum
<1> DEFINE Kept == \A w \in Workers :
             job[w].pc = "credit" /\ job'[w] # job[w] /\ credited' # credited
               => Usable' <= policy.maxBalance + job[w].back
<1>1. Init => CapInv
  BY DEF Init, NoJob, CapInv, Room
<1>2. TypeOK /\ CapInv /\ [Next]_vars => CapInv'
  BY CapNext
<1>3. TypeOK /\ CapInv /\ [Next]_vars => [Kept]_vars
  <2> SUFFICES ASSUME TypeOK, CapInv, Next, NEW w \in Workers,
                      job[w].pc = "credit", job'[w] # job[w], credited' # credited
               PROVE  Usable' <= policy.maxBalance + job[w].back
    OBVIOUS
  <2>1. PICK v \in Workers : InsertCredit(v)
    BY DEF Next, BeginReserve, Check, FinishReserve, AbortReserve, Confirm, Release, SetState,
           RemoveDepartment, RemovePolicy, BeginAccrual, BeginDevSeed, BeginCarryOver, Begin,
           InsertExpiry, JobFails, ReadAccrued, ReadUsed, ReadPending, ReadPage, Tick, ledger
  <2>2. v = w
    BY DEF OneJob
  <2>3. ~removed /\ Room(w)
    BY <2>1 DEF CapInv, InsertCredit
  <2>4. Usable' = Usable + job[w].amount
    BY <2>1, <2>2, JobBalance
  <2> QED
    BY <2>3, <2>4 DEF Room
<1> QED
  BY <1>1, <1>2, <1>3, TypeCorrect, PTL DEF Spec, CreditsKeepToTheMaximum

-----------------------------------------------------------------------------
(* The balance page. *)

\* Between the first two sums the credits it read exceed the debits that count
\* by no more than what could be reserved at the first, and was given back.
PageInv ==
  /\ page.pc = "used" /\ ~removed => page.accrued - credited + Usable <= page.most
  /\ page.pc = "pending" /\ ~removed => page.accrued - page.used <= page.most

\* Steps that leave the page and the policy alone: what they add to the
\* balance they credit.
LEMMA PageKept ==
  ASSUME TypeOK, TypeOK', PageInv, page' = page, removed' = removed,
         \/ credited' = credited /\ Usable' <= Usable
         \/ \E k \in Nat : credited' = credited + k /\ Usable' = Usable + k
  PROVE  PageInv'
<1>1. /\ Usable \in Int /\ Usable' \in Int /\ credited \in Nat /\ credited' \in Nat
      /\ page.accrued \in Nat /\ page.most \in Int
  BY UsableTypes DEF TypeOK
<1>2. ASSUME NEW v \in Int, v = Usable', NEW d \in Nat, d = credited',
             page.accrued - credited + Usable <= page.most
      PROVE  page.accrued - d + v <= page.most
  <2>1. CASE d = credited /\ v <= Usable
    BY <1>1, <1>2, <2>1
  <2>2. ASSUME NEW k \in Nat, d = credited + k, v = Usable + k
        PROVE  page.accrued - d + v <= page.most
    BY <1>1, <1>2, <2>2
  <2> QED
    BY <1>2, <2>1, <2>2
<1>3. page.accrued - credited + Usable <= page.most
        => page.accrued - credited' + Usable' <= page.most
  BY <1>1, <1>2
<1> QED
  BY <1>3 DEF PageInv

LEMMA PageNext == TypeOK /\ PageInv /\ [Next]_vars => PageInv'
<1> SUFFICES ASSUME TypeOK, PageInv, [Next]_vars PROVE PageInv'
  OBVIOUS
<1>1. TypeOK' /\ Usable \in Int /\ Usable' \in Int /\ credited \in Nat
  BY TypeNext, UsableTypes DEF TypeOK
<1>2. ASSUME NEW r \in Requests,
             \/ \E days \in DaySizes, start \in Dates : BeginReserve(r, days, start)
             \/ FinishReserve(r) \/ AbortReserve(r) \/ Confirm(r) \/ Release(r)
      PROVE  PageInv'
  <2>1. page' = page /\ removed' = removed /\ credited' = credited
    BY <1>2 DEF BeginReserve, Check, FinishReserve, AbortReserve, Confirm, Release, SetState
  <2>2. row[r].days \in Nat
    <3>1. Days(row)[r] \in Nat
      BY DaysType DEF TypeOK, Ledgers, RowType
    <3> QED
      BY <3>1 DEF Days
  <2>3. Usable' <= Usable
    BY <1>1, <1>2, <2>2, RequestBalance
  <2> QED
    BY <1>1, <2>1, <2>3, PageKept
<1>3. ASSUME NEW gone \in SUBSET Requests, RemoveDepartment(gone) PROVE PageInv'
  <2> DEFINE given == SumDays(gone \cap Effective)
  <2>1. given \in Nat /\ Usable' = Usable + given
    BY <1>3, GivenType, RemovalBalance
  <2>2. /\ page' = IF page.pc = "used" THEN [page EXCEPT !.most = @ + given] ELSE page
        /\ removed' = removed /\ credited' = credited
    BY <1>3 DEF RemoveDepartment
  <2> HIDE DEF given
  <2>3. page.accrued \in Nat /\ page.most \in Int
    BY DEF TypeOK
  <2>4. CASE page.pc = "used"
    <3>1. page'.pc = "used" /\ page'.accrued = page.accrued /\ page'.most = page.most + given
      BY <2>2, <2>4 DEF TypeOK
    <3> QED
      BY <1>1, <2>1, <2>2, <2>3, <2>4, <3>1 DEF PageInv
  <2>5. CASE page.pc # "used"
    BY <2>2, <2>5 DEF PageInv
  <2> QED
    BY <2>4, <2>5
<1>4. CASE RemovePolicy
  BY <1>4 DEF RemovePolicy, PageInv
<1>5. ASSUME NEW w \in Workers,
             \/ BeginAccrual(w) \/ BeginDevSeed(w) \/ BeginCarryOver(w)
             \/ InsertCredit(w) \/ InsertExpiry(w) \/ JobFails(w)
      PROVE  PageInv'
  <2>1. page' = page /\ removed' = removed
    BY <1>5 DEF BeginAccrual, BeginDevSeed, BeginCarryOver, Begin, InsertCredit, InsertExpiry, JobFails
  <2>2. job[w].amount \in Nat /\ job[w].expire \in Nat
    BY DEF TypeOK
  <2>3. CASE InsertCredit(w)
    <3>1. credited' = credited + job[w].amount /\ Usable' = Usable + job[w].amount
      BY <2>3, JobBalance DEF InsertCredit
    <3> QED
      BY <1>1, <2>1, <2>2, <3>1, PageKept
  <2>4. CASE InsertExpiry(w)
    <3>1. credited' = credited /\ Usable' = Usable - job[w].expire
      BY <2>4, JobBalance DEF InsertExpiry
    <3> QED
      BY <1>1, <2>1, <2>2, <3>1, PageKept
  <2>5. CASE BeginAccrual(w) \/ BeginDevSeed(w) \/ BeginCarryOver(w) \/ JobFails(w)
    <3>1. credited' = credited /\ Usable' = Usable
      BY <2>5, JobBalance DEF BeginAccrual, BeginDevSeed, BeginCarryOver, Begin, JobFails, ledger
    <3> QED
      BY <1>1, <2>1, <3>1, PageKept
  <2> QED
    BY <1>5, <2>3, <2>4, <2>5
<1>6. CASE ReadAccrued
  <2>1. /\ page' = [NoPage EXCEPT !.pc = "used", !.accrued = credited, !.most = Usable]
        /\ credited' = credited /\ Usable' = Usable
    BY <1>6, PageBalance DEF ReadAccrued, ReadPage, ledger
  <2>2. page'.pc = "used" /\ page'.accrued = credited /\ page'.most = Usable
    BY <2>1 DEF NoPage
  <2> QED
    BY <1>1, <2>1, <2>2 DEF PageInv
<1>7. CASE ReadUsed
  <2>1. /\ page.pc = "used" /\ removed' = removed
        /\ page'.pc = "pending" /\ page'.used = Used
        /\ page'.accrued = page.accrued /\ page'.most = page.most
    BY <1>7 DEF ReadUsed, ReadPage, TypeOK
  <2>2. Used \in Nat /\ Used >= credited - Usable /\ page.accrued \in Nat /\ page.most \in Int
    BY PageSums DEF TypeOK
  <2> QED
    BY <1>1, <2>1, <2>2 DEF PageInv
<1>8. CASE ReadPending
  <2>1. page'.pc = "idle"
    BY <1>8 DEF ReadPending, ReadPage, NoPage
  <2> QED
    BY <2>1 DEF PageInv
<1>9. CASE Tick
  <2>1. page' = page /\ removed' = removed /\ credited' = credited
    BY <1>9 DEF Tick, ledger
  <2> QED
    BY <1>1, <1>9, <2>1, TickBalance, PageKept
<1>10. CASE UNCHANGED vars
  <2>1. page' = page /\ removed' = removed /\ credited' = credited /\ Usable' = Usable
    BY <1>10, UsableIs DEF vars, ledger
  <2> QED
    BY <1>1, <2>1, PageKept
<1> QED
  BY <1>2, <1>3, <1>4, <1>5, <1>6, <1>7, <1>8, <1>9, <1>10 DEF Next

\* However its three sums interleave with requests, jobs and removals, the
\* page never shows more than could be reserved when it began, and what a
\* removed department gave back before its second sum.
THEOREM PageWasSpendable == Spec => ShownWasSpendable
<1> DEFINE Shown == ReadPending /\ ~removed => Remaining <= Max({page.most, 0})
<1>1. Init => PageInv
  BY DEF Init, NoPage, PageInv
<1>2. TypeOK /\ PageInv /\ [Next]_vars => [Shown]_vars
  <2> SUFFICES ASSUME TypeOK, PageInv, ReadPending, ~removed
               PROVE  Remaining <= Max({page.most, 0})
    OBVIOUS
  <2> DEFINE left == page.accrued - page.used - SumDays(Pending)
  <2>1. page.accrued \in Nat /\ page.used \in Nat /\ page.most \in Int
    BY DEF TypeOK
  <2>2. SumDays(Pending) \in Nat
    BY PageSums
  <2>3. page.accrued - page.used <= page.most
    BY DEF PageInv, ReadPending, ReadPage
  <2>4. left \in Int /\ left <= page.most
    BY <2>1, <2>2, <2>3
  <2>5. Remaining = Max({left, 0})
    BY DEF Remaining
  <2>6. \A k \in Int : Max({k, 0}) = IF k >= 0 THEN k ELSE 0
    BY MinMax
  <2> HIDE DEF left
  <2>7. /\ Max({left, 0}) = IF left >= 0 THEN left ELSE 0
        /\ Max({page.most, 0}) = IF page.most >= 0 THEN page.most ELSE 0
    BY <2>1, <2>4, <2>6
  <2> QED
    BY <2>1, <2>4, <2>5, <2>7
<1>3. TypeOK /\ PageInv /\ [Next]_vars => PageInv'
  BY PageNext
<1> QED
  BY <1>1, <1>2, <1>3, TypeCorrect, PTL DEF Spec, ShownWasSpendable

-----------------------------------------------------------------------------
(* Requests one after the other. *)

\* At most one request is open, its days are still there, and no job is
\* about to take days away.
Covered ==
  ~overlapped /\ policy.carryOver \in {"Full", "NA"} =>
    /\ Usable >= 0
    /\ \A r, q \in Requests : Open(r) /\ Open(q) => r = q
    /\ \A r \in Requests : Open(r) => Usable >= row[r].days
    /\ \A w \in Workers : job[w].pc # "expire" /\ job[w].expire = 0

CovInv == TypeOK /\ Covered

LEMMA DaysNat ==
  ASSUME TypeOK, NEW r \in Requests
  PROVE  row[r].days \in Nat
<1>1. Days(row)[r] \in Nat
  BY DaysType DEF TypeOK, Ledgers, RowType
<1> QED
  BY <1>1 DEF Days

\* A step that opens no request and takes no day away.
LEMMA NothingOpens ==
  ASSUME CovInv, TypeOK', policy' = policy, overlapped' = overlapped, Usable' >= Usable,
         \A q \in Requests : Open(q)' => Open(q) /\ row'[q].days = row[q].days,
         \A w \in Workers : \/ job'[w].pc = job[w].pc /\ job'[w].expire = job[w].expire
                            \/ job'[w].pc # "expire" /\ job'[w].expire = 0
  PROVE  CovInv'
<1>1. Usable \in Int /\ Usable' \in Int /\ \A q \in Requests : row[q].days \in Nat
  BY UsableTypes, DaysNat DEF CovInv
<1> SUFFICES ASSUME ~overlapped, policy.carryOver \in {"Full", "NA"} PROVE Covered'
  BY DEF CovInv, Covered
<1>2. /\ Usable >= 0
      /\ \A r, q \in Requests : Open(r) /\ Open(q) => r = q
      /\ \A r \in Requests : Open(r) => Usable >= row[r].days
      /\ \A w \in Workers : job[w].pc # "expire" /\ job[w].expire = 0
  BY DEF CovInv, Covered
<1>3. \A r, q \in Requests : Open(r)' /\ Open(q)' => r = q
  BY <1>2
<1>4. \A r \in Requests : Open(r)' => Usable' >= row'[r].days
  BY <1>1, <1>2
<1>5. Usable' >= 0 /\ \A w \in Workers : job'[w].pc # "expire" /\ job'[w].expire = 0
  BY <1>1, <1>2
<1> QED
  BY <1>3, <1>4, <1>5 DEF Covered

LEMMA CovReserve ==
  ASSUME CovInv, TypeOK', NEW r \in Requests, NEW days \in DaySizes, NEW start \in Dates,
         BeginReserve(r, days, start)
  PROVE  CovInv'
<1> SUFFICES ASSUME ~overlapped', policy'.carryOver \in {"Full", "NA"} PROVE Covered'
  BY DEF CovInv, Covered
<1>1. /\ TypeOK /\ policy' = policy /\ job' = job /\ today' = today /\ Usable >= days
      /\ row' = [row EXCEPT ![r] = [state |-> "reserving", days |-> days, start |-> start]]
      /\ ~overlapped /\ \A q \in Requests \ {r} : ~Open(q)
  BY DEF CovInv, BeginReserve, Check, TypeOK
<1>2. row'[r].days = days /\ \A q \in Requests \ {r} : row'[q] = row[q]
  BY <1>1 DEF TypeOK
<1>3. Usable' = Usable /\ Usable >= 0
  BY <1>1, RequestBalance DEF CovInv, Covered
<1>4. \A q \in Requests : Open(q)' => q = r
  BY <1>1, <1>2 DEF Open
<1> QED
  BY <1>1, <1>2, <1>3, <1>4 DEF CovInv, Covered

LEMMA CovRequest ==
  ASSUME CovInv, TypeOK', NEW r \in Requests,
         FinishReserve(r) \/ AbortReserve(r) \/ Release(r)
  PROVE  CovInv'
<1>1. /\ TypeOK /\ row[r].state \in {"reserving", "pending"}
      /\ \/ row' = [row EXCEPT ![r] = NoRow]
         \/ row' = [row EXCEPT ![r] = [row[r] EXCEPT !.state = "pending"]]
      /\ UNCHANGED <<policy, today, job, overlapped>>
  BY DEF CovInv, FinishReserve, AbortReserve, Release, SetState
<1>2. \A q \in Requests : Open(q)' => Open(q) /\ row'[q].days = row[q].days
  <2> SUFFICES ASSUME NEW q \in Requests, Open(q)' PROVE Open(q) /\ row'[q].days = row[q].days
    OBVIOUS
  <2>1. CASE q # r
    BY <1>1, <2>1 DEF Open, TypeOK
  <2>2. CASE q = r
    BY <1>1, <2>2 DEF Open, TypeOK, NoRow
  <2> QED
    BY <2>1, <2>2
<1>3. Usable' = Usable /\ Usable \in Int
  BY <1>1, RequestBalance, UsableType
<1> QED
  BY <1>1, <1>2, <1>3, NothingOpens

\* Leave that has begun takes its own days, which are there.
LEMMA CovConfirm ==
  ASSUME CovInv, TypeOK', NEW r \in Requests, Confirm(r)
  PROVE  CovInv'
<1>1. /\ TypeOK /\ row[r].state = "pending"
      /\ row' = [row EXCEPT ![r] = [row[r] EXCEPT !.state = "confirmed"]]
      /\ UNCHANGED <<policy, today, job, overlapped>>
  BY DEF CovInv, Confirm, SetState
<1>2. /\ row'[r].state = "confirmed" /\ row'[r].days = row[r].days /\ row'[r].start = row[r].start
      /\ \A q \in Requests \ {r} : row'[q] = row[q]
  BY <1>1 DEF TypeOK
<1>3. Usable' = Usable - (IF row[r].start <= today THEN row[r].days ELSE 0)
  BY <1>1, RequestBalance
<1>4. Usable \in Int /\ row[r].days \in Nat
  BY <1>1, UsableType, DaysNat
<1>5. Open(r)
  BY <1>1 DEF Open
<1>6. CASE row[r].start <= today
  <2> SUFFICES ASSUME ~overlapped, policy.carryOver \in {"Full", "NA"} PROVE Covered'
    BY <1>1 DEF CovInv, Covered
  <2>1. Usable >= row[r].days /\ \A q \in Requests : Open(q) => q = r
    BY <1>5 DEF CovInv, Covered
  <2>2. ~Open(r)'
    BY <1>1, <1>2, <1>6 DEF Open, TypeOK, Dates
  <2>3. \A q \in Requests : ~Open(q)'
    BY <1>1, <1>2, <2>1, <2>2 DEF Open
  <2>4. Usable' >= 0
    BY <1>3, <1>4, <1>6, <2>1
  <2> QED
    BY <1>1, <2>3, <2>4 DEF CovInv, Covered
<1>7. CASE ~(row[r].start <= today)
  <2>1. Usable' = Usable
    BY <1>3, <1>4, <1>7
  <2>2. \A q \in Requests : Open(q)' => Open(q) /\ row'[q].days = row[q].days
    BY <1>1, <1>2, <1>5 DEF Open
  <2> QED
    BY <1>1, <1>4, <2>1, <2>2, NothingOpens
<1> QED
  BY <1>6, <1>7

LEMMA CovBegin ==
  ASSUME CovInv, TypeOK', NEW w \in Workers,
         BeginAccrual(w) \/ BeginDevSeed(w) \/ BeginCarryOver(w) \/ JobFails(w)
  PROVE  CovInv'
<1>1. /\ TypeOK /\ Usable' = Usable /\ Usable \in Int
      /\ UNCHANGED <<policy, today, row, overlapped>>
  <2>1. UNCHANGED <<policy, today, row, overlapped>>
    BY DEF BeginAccrual, BeginDevSeed, BeginCarryOver, Begin, JobFails, ledger
  <2> QED
    BY <2>1, JobBalance, UsableType DEF CovInv
<1>2. \A q \in Requests : Open(q)' => Open(q) /\ row'[q].days = row[q].days
  BY <1>1 DEF Open
<1>3. ASSUME job'[w].pc # "expire", job'[w].expire = 0,
             \A v \in Workers \ {w} : job'[v] = job[v]
      PROVE  CovInv'
  <2>1. \A v \in Workers : job'[v] = job[v] \/ (job'[v].pc # "expire" /\ job'[v].expire = 0)
    BY <1>3
  <2> QED
    BY <1>1, <1>2, <2>1, NothingOpens
<1>4. CASE BeginAccrual(w) \/ BeginDevSeed(w)
  BY <1>1, <1>3, <1>4 DEF BeginAccrual, BeginDevSeed, Begin, TypeOK
<1>5. CASE JobFails(w)
  BY <1>1, <1>3, <1>5 DEF JobFails, NoJob, TypeOK
<1>6. CASE BeginCarryOver(w)
  <2> SUFFICES ASSUME policy.carryOver = "Full" PROVE CovInv'
    BY <1>1, <1>6 DEF CovInv, Covered, BeginCarryOver
  <2>1. Carried(Usable) > 0 /\ Expiring(Usable) = 0
    BY <1>6 DEF BeginCarryOver, Carried, Expiring
  <2>2. job' = [job EXCEPT ![w] = [pc |-> "carry", amount |-> Carried(Usable), expire |-> 0, back |-> 0]]
    BY <1>6, <2>1 DEF BeginCarryOver, Begin
  <2> QED
    BY <1>1, <1>3, <2>2 DEF TypeOK
<1> QED
  BY <1>4, <1>5, <1>6

LEMMA CovInsert ==
  ASSUME CovInv, TypeOK', NEW w \in Workers, InsertCredit(w) \/ InsertExpiry(w)
  PROVE  CovInv'
<1> SUFFICES ASSUME ~overlapped, policy.carryOver \in {"Full", "NA"} PROVE CovInv'
  BY DEF CovInv, Covered, InsertCredit, InsertExpiry
<1>1. /\ TypeOK /\ job[w].pc # "expire" /\ job[w].expire = 0
      /\ UNCHANGED <<policy, today, row, overlapped>>
  BY DEF CovInv, Covered, InsertCredit, InsertExpiry
<1>2. InsertCredit(w) /\ job' = [job EXCEPT ![w] = NoJob]
  BY <1>1 DEF InsertCredit, InsertExpiry
<1>3. \A v \in Workers : job'[v] = job[v] \/ (job'[v].pc # "expire" /\ job'[v].expire = 0)
  BY <1>1, <1>2 DEF TypeOK, NoJob
<1>4. \A q \in Requests : Open(q)' => Open(q) /\ row'[q].days = row[q].days
  BY <1>1 DEF Open
<1>5. Usable' >= Usable
  <2>1. Usable' = Usable + job[w].amount
    BY <1>1, <1>2, JobBalance
  <2>2. Usable \in Int /\ job[w].amount \in Nat
    BY <1>1, UsableType DEF TypeOK
  <2> QED
    BY <2>1, <2>2
<1> QED
  BY <1>1, <1>3, <1>4, <1>5, NothingOpens

\* At most one leave begins on a day.
LEMMA CovTick ==
  ASSUME CovInv, TypeOK', Tick
  PROVE  CovInv'
<1>1. /\ TypeOK /\ today' = today + 1 /\ today \in Nat /\ \A q \in Requests : row[q].start \in Nat
      /\ UNCHANGED <<policy, credited, expired, row, job, overlapped>>
  BY ConstantsAssumption DEF CovInv, Tick, TypeOK, Dates, ledger
<1>2. \A q \in Requests : Open(q)' => Open(q) /\ row'[q].days = row[q].days
  BY <1>1 DEF Open
<1>3. Usable \in Int
  BY <1>1, UsableType
<1>4. CASE \A q \in Requests : ~(row[q].state = "confirmed" /\ row[q].start = today + 1)
  <2>1. EffectiveIn(row, today + 1) = EffectiveIn(row, today)
    BY <1>1, <1>4 DEF EffectiveIn
  <2>2. Usable' = Usable
    BY <1>1, <2>1, UsableIs DEF Balance
  <2> QED
    BY <1>1, <1>2, <1>3, <2>2, NothingOpens
<1>5. CASE \E q \in Requests : row[q].state = "confirmed" /\ row[q].start = today + 1
  <2> SUFFICES ASSUME ~overlapped, policy.carryOver \in {"Full", "NA"} PROVE Covered'
    BY <1>1 DEF CovInv, Covered
  <2>1. PICK r \in Requests : row[r].state = "confirmed" /\ row[r].start = today + 1
    BY <1>5
  <2>2. Open(r)
    BY <1>1, <2>1 DEF Open
  <2>3. Usable >= row[r].days /\ \A q \in Requests : Open(q) => q = r
    BY <2>2 DEF CovInv, Covered
  <2>4. \A q \in Requests : ~Open(q)'
    BY <1>1, <1>2, <2>1, <2>3 DEF Open
  <2>5. /\ EffectiveIn(row, today + 1) = EffectiveIn(row, today) \cup {r}
        /\ r \notin EffectiveIn(row, today)
    <3>1. \A q \in Requests : row[q].state = "confirmed" /\ row[q].start = today + 1 => q = r
      BY <1>1, <2>3 DEF Open
    <3> QED
      BY <1>1, <2>1, <3>1 DEF EffectiveIn
  <2>6. Usable' = Usable - row[r].days
    <3>1. row \in Ledgers /\ credited \in Nat /\ expired \in Nat
      BY <1>1 DEF TypeOK, Ledgers, RowType
    <3>2. Balance(credited, expired, row, today + 1) = Balance(credited, expired, row, today) - row[r].days
      BY <2>5, <3>1, OneRowMore
    <3> QED
      BY <1>1, <3>2, UsableIs
  <2>7. Usable' >= 0
    BY <1>1, <1>3, <2>3, <2>6, DaysNat
  <2> QED
    BY <1>1, <2>4, <2>7 DEF CovInv, Covered
<1> QED
  BY <1>4, <1>5

\* What is removed is not open any more, and gives days back.
LEMMA CovRemove ==
  ASSUME CovInv, TypeOK', (\E gone \in SUBSET Requests : RemoveDepartment(gone)) \/ RemovePolicy
  PROVE  CovInv'
<1>1. ASSUME NEW gone \in SUBSET Requests, RemoveDepartment(gone) PROVE CovInv'
  <2> DEFINE given == SumDays(gone \cap Effective)
  <2>1. /\ UNCHANGED <<policy, today, overlapped>>
        /\ row' = [r \in Requests |-> IF r \in gone THEN Gone ELSE row[r]]
        /\ job' = [w \in Workers |->
             IF job[w].pc = "idle" THEN job[w] ELSE [job[w] EXCEPT !.back = @ + given]]
    BY <1>1 DEF RemoveDepartment
  <2>2. given \in Nat /\ Usable \in Int /\ Usable' = Usable + given
    BY <1>1, GivenType, RemovalBalance, UsableType DEF CovInv
  <2> HIDE DEF given
  <2>3. Usable' >= Usable
    BY <2>2
  <2>4. \A q \in Requests : Open(q)' => Open(q) /\ row'[q].days = row[q].days
    BY <2>1 DEF Open, Gone
  <2>5. \A w \in Workers : job'[w].pc = job[w].pc /\ job'[w].expire = job[w].expire
    BY <2>1 DEF CovInv, TypeOK
  <2> QED
    BY <2>1, <2>3, <2>4, <2>5, NothingOpens
<1>2. CASE RemovePolicy
  <2>1. /\ UNCHANGED <<policy, overlapped, job>> /\ row' = [r \in Requests |-> Gone]
        /\ credited' = 0 /\ expired' = 0
    BY <1>2 DEF RemovePolicy
  <2>2. \A q \in Requests : ~Open(q)'
    BY <2>1 DEF Open, Gone
  <2>3. EffectiveIn(row', today') = {}
    BY <2>1 DEF EffectiveIn, Gone
  <2>4. Usable' = 0
    <3>1. Sum(Days(row'), {}) = 0
      BY SumPick, ConstantsAssumption
    <3> QED
      BY <2>1, <2>3, <3>1, UsableIs DEF Balance
  <2> QED
    BY <2>1, <2>2, <2>4 DEF CovInv, Covered
<1> QED
  BY <1>1, <1>2

LEMMA CovInit == Init => CovInv
<1> SUFFICES ASSUME Init PROVE CovInv
  OBVIOUS
<1>1. TypeOK
  BY TypeInit
<1>2. EffectiveIn(row, today) = {} /\ \A r \in Requests : ~Open(r)
  BY DEF EffectiveIn, Init, NoRow, Open
<1>3. Sum(Days(row), {}) = 0
  BY SumPick, ConstantsAssumption
<1>4. Usable = 0
  BY <1>2, <1>3, UsableIs DEF Balance, Init
<1> QED
  BY <1>1, <1>2, <1>4 DEF CovInv, Covered, Init, NoJob

LEMMA CovNext == CovInv /\ [Next]_vars => CovInv'
<1> SUFFICES ASSUME CovInv, [Next]_vars PROVE CovInv'
  OBVIOUS
<1>1. TypeOK /\ TypeOK' /\ Usable \in Int
  BY TypeNext, UsableType DEF CovInv
<1>2. CASE UNCHANGED vars
  <2>1. Usable' = Usable /\ UNCHANGED <<policy, overlapped, job>>
    BY <1>2, UsableIs DEF vars, ledger
  <2>2. \A q \in Requests : Open(q)' => Open(q) /\ row'[q].days = row[q].days
    BY <1>2 DEF Open, vars, ledger
  <2> QED
    BY <1>1, <2>1, <2>2, NothingOpens
<1>3. CASE ReadAccrued \/ ReadUsed \/ ReadPending
  <2>1. UNCHANGED <<policy, today, row, overlapped, job>>
    BY <1>3 DEF ReadAccrued, ReadUsed, ReadPending, ReadPage, ledger
  <2>2. \A q \in Requests : Open(q)' => Open(q) /\ row'[q].days = row[q].days
    BY <2>1 DEF Open
  <2> QED
    BY <1>1, <1>3, <2>1, <2>2, PageBalance, NothingOpens
<1> QED
  BY <1>1, <1>2, <1>3, CovReserve, CovRequest, CovConfirm, CovRemove, CovBegin, CovInsert,
     CovTick DEF Next

\* Requests checked one after the other, each when the leave before it has
\* been decided and has begun, never overdraw a balance, however many jobs
\* run at once.
THEOREM SettledRequestsAreNotOverdrawn == Spec => []SettledRequestsAreCovered
<1>1. CovInv => SettledRequestsAreCovered
  BY DEF CovInv, Covered, SettledRequestsAreCovered
<1> QED
  BY <1>1, CovInit, CovNext, PTL DEF Spec
=============================================================================
