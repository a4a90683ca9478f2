------------------------ MODULE BirthdayInbox_proofs ------------------------
(***************************************************************************)
(* Proofs about BirthdayInbox for any number of users, runs and days, any  *)
(* length of the year and any number of failures.                          *)
(***************************************************************************)
EXTENDS BirthdayInbox, FunctionTheorems, FiniteSetTheorems, TLAPS

-----------------------------------------------------------------------------
(* Types. *)

\* Rows can be counted, and a run that inserts has a pair to insert for.
TypeInv ==
  /\ TypeOK
  /\ IsFiniteSet(inbox)
  /\ \A w \in Runs : run[w].pc = "insert" => run[w].pair \in Pairs

LEMMA DaysAreNat == Days \subseteq Nat
BY ConstantsAssumption DEF Days

LEMMA SentIsFinite ==
  ASSUME IsFiniteSet(inbox), NEW to, NEW about, NEW day
  PROVE  /\ IsFiniteSet(Sent(to, about, day))
         /\ Cardinality(Sent(to, about, day)) \in Nat
<1>1. Sent(to, about, day) \in SUBSET inbox
  BY DEF Sent
<1> QED
  BY <1>1, FS_Subset, FS_CardinalityType

\* What a run inserts is a row.
LEMMA NewRowTyped ==
  ASSUME TypeInv, NEW p \in Pairs, NEW d \in Days
  PROVE  NewRow(p[2], p[1], d) \in Row
<1>1. p[1] \in Users /\ p[2] \in Users
  BY DEF Pairs
<1>2. Cardinality(Sent(p[2], p[1], d)) + 1 \in Nat \ {0}
  BY SentIsFinite DEF TypeInv
<1> QED
  BY <1>1, <1>2 DEF NewRow, Row, IsToday

LEMMA TypeInit == Init => TypeInv
BY ConstantsAssumption, FS_EmptySet DEF Init, TypeInv, TypeOK, Idle, Days, RunRecord

\* Steps that change the record of one run only.
LEMMA RunsTyped ==
  ASSUME TypeInv, NEW w \in Runs, NEW k \in RunRecord, run' = [run EXCEPT ![w] = k],
         k.pc = "insert" => k.pair \in Pairs, failures' \in 0 .. MaxFailures,
         UNCHANGED <<today, staff>>, inbox' \subseteq Row, IsFiniteSet(inbox')
  PROVE  TypeInv'
BY DEF TypeInv, TypeOK

LEMMA IdleTyped == Idle \in RunRecord /\ Idle.pc # "insert"
BY ConstantsAssumption DEF Idle, RunRecord, Days

\* The record of a run after it is through with a pair.
LEMMA DoneTyped ==
  ASSUME TypeInv, NEW w \in Runs, NEW p, Done(w, p)
  PROVE  \E k \in RunRecord : run' = [run EXCEPT ![w] = k] /\ k.pc = "find"
<1> DEFINE k == [run[w] EXCEPT !.pc = "find", !.todo = @ \ {p}, !.pair = NoPair]
<1>1. k \in RunRecord /\ k.pc = "find"
  BY DEF TypeInv, TypeOK, RunRecord
<1>2. run' = [run EXCEPT ![w] = k]
  BY DEF Done, TypeInv, TypeOK
<1> QED
  BY <1>1, <1>2

LEMMA TypeNext == TypeInv /\ [Next]_vars => TypeInv'
<1> SUFFICES ASSUME TypeInv, [Next]_vars PROVE TypeInv'
  OBVIOUS
<1>0. /\ run \in [Runs -> RunRecord] /\ inbox \subseteq Row /\ IsFiniteSet(inbox)
      /\ failures \in 0 .. MaxFailures /\ today \in Days /\ staff \subseteq Users
  BY DEF TypeInv, TypeOK
<1>1. ASSUME NEW w \in Runs, Start(w) PROVE TypeInv'
  <2> DEFINE k == [Idle EXCEPT !.pc = "recipients", !.day = today,
                               !.about = {u \in staff : Upcoming(u, today)}]
  <2>1. k \in RunRecord /\ k.pc # "insert"
    BY <1>0, IdleTyped DEF Idle, RunRecord
  <2> QED
    BY <1>0, <1>1, <2>1, RunsTyped DEF Start
<1>2. ASSUME NEW w \in Runs, Recipients(w) PROVE TypeInv'
  <2> DEFINE todo == {p \in run[w].about \X staff : p[1] # p[2]}
             k == [run[w] EXCEPT !.pc = "find", !.todo = todo]
  <2>1. todo \in SUBSET Pairs
    BY <1>0 DEF Pairs, RunRecord
  <2>2. k \in RunRecord /\ k.pc # "insert"
    BY <1>0, <2>1 DEF RunRecord
  <2>3. run' = [run EXCEPT ![w] = k]
    BY <1>0, <1>2 DEF Recipients
  <2> QED
    BY <1>0, <1>2, <2>2, <2>3, RunsTyped DEF Recipients
<1>3. ASSUME NEW w \in Runs, NEW p \in Pairs, Find(w, p) PROVE TypeInv'
  <2> DEFINE k == IF Sent(p[2], p[1], run[w].day) # {}
                    THEN [run[w] EXCEPT !.todo = @ \ {p}]
                    ELSE [run[w] EXCEPT !.pc = "insert", !.pair = p]
  <2>1. k \in RunRecord /\ (k.pc = "insert" => k.pair \in Pairs)
    BY <1>0, <1>3 DEF RunRecord, Find
  <2>2. run' = [run EXCEPT ![w] = k]
    BY <1>0, <1>3 DEF Find
  <2> QED
    BY <1>0, <1>3, <2>1, <2>2, RunsTyped DEF Find
<1>4. ASSUME NEW w \in Runs, Insert(w) PROVE TypeInv'
  <2>1. run[w].pair \in Pairs /\ run[w].day \in Days
    BY <1>0, <1>4 DEF Insert, TypeInv, RunRecord
  <2>2. inbox' \subseteq Row /\ IsFiniteSet(inbox')
    BY <1>0, <1>4, <2>1, NewRowTyped, FS_AddElement DEF Insert
  <2> QED
    BY <1>0, <1>4, <2>2, DoneTyped, RunsTyped DEF Insert
<1>5. ASSUME NEW w \in Runs, NEW p, Skip(w, p) PROVE TypeInv'
  <2>1. failures' \in 0 .. MaxFailures
    BY <1>0, <1>5, ConstantsAssumption DEF Skip, CountFailure
  <2> QED
    BY <1>0, <1>5, <2>1, DoneTyped, RunsTyped DEF Skip
<1>6. ASSUME NEW w \in Runs, Finish(w) \/ Crash(w) PROVE TypeInv'
  <2>1. failures' \in 0 .. MaxFailures
    BY <1>0, <1>6, ConstantsAssumption DEF Finish, Crash, CountFailure
  <2> QED
    BY <1>0, <1>6, <2>1, IdleTyped, RunsTyped DEF Finish, Crash
<1>7. ASSUME NEW r \in inbox, MarkRead(r) PROVE TypeInv'
  <2>1. [r EXCEPT !.read = TRUE] \in Row
    BY <1>0 DEF Row
  <2>2. inbox' \subseteq Row /\ IsFiniteSet(inbox')
    BY <1>0, <1>7, <2>1, FS_RemoveElement, FS_AddElement DEF MarkRead
  <2> QED
    BY <1>7, <2>2 DEF MarkRead, TypeInv, TypeOK
<1>8. ASSUME NEW u \in Users, MarkAllRead(u) PROVE TypeInv'
  <2> DEFINE f == [r \in inbox |-> IF r.to = u THEN [r EXCEPT !.read = TRUE] ELSE r]
  <2>1. f \in Surjection(inbox, inbox')
    BY <1>8 DEF MarkAllRead, Surjection
  <2>2. IsFiniteSet(inbox')
    BY <1>0, <2>1, FS_Surjection
  <2>3. inbox' \subseteq Row
    BY <1>0, <1>8 DEF MarkAllRead, Row
  <2> QED
    BY <1>8, <2>2, <2>3 DEF MarkAllRead, TypeInv, TypeOK
<1>9. ASSUME NEW u \in Users, Register(u) PROVE TypeInv'
  BY <1>9 DEF Register, TypeInv, TypeOK
<1>10. CASE Midnight
  BY <1>10, ConstantsAssumption DEF Midnight, TypeInv, TypeOK, Days
<1>11. CASE UNCHANGED vars
  BY <1>11 DEF vars, TypeInv, TypeOK
<1> QED
  BY <1>1, <1>2, <1>3, <1>4, <1>5, <1>6, <1>7, <1>8, <1>9, <1>10, <1>11 DEF Next, Work

\* The state keeps its types, whatever runs overlap, fail or go on past
\* midnight.
THEOREM TypeCorrect == Spec => []TypeOK
<1>1. TypeInv => TypeOK
  BY DEF TypeInv
<1> QED
  BY <1>1, TypeInit, TypeNext, PTL DEF Spec

LEMMA TypeAlways == Spec => []TypeInv
BY TypeInit, TypeNext, PTL DEF Spec

-----------------------------------------------------------------------------
(* The priority of a message. *)

Known(u) == BirthDay[u] # NoDay

\* The next birthday is today's exactly if it is this year's and today.
LEMMA TodayIsTheDay ==
  ASSUME NEW u \in Users, Known(u), NEW day \in Nat
  PROVE  IsToday(u, day) <=> day % YearLength = BirthDay[u]
<1>1. BirthDay[u] \in 0 .. YearLength - 1 /\ YearLength \in Nat \ {0}
  BY ConstantsAssumption DEF Known
<1>2. day % YearLength \in 0 .. YearLength - 1
  BY <1>1
<1> DEFINE m == day % YearLength
<1>3. (IF day - m + BirthDay[u] < day THEN day - m + BirthDay[u] + YearLength
       ELSE day - m + BirthDay[u]) = day <=> m = BirthDay[u]
  <2> HIDE DEF m
  <2> QED
    BY <1>1, <1>2 DEF m
<1> QED
  BY <1>3 DEF IsToday, NextBirthday

\* Runs are about users whose birthday is known; rows have the priority of
\* their day.
PriorityInv ==
  /\ \A w \in Runs :
       /\ \A u \in run[w].about : Known(u)
       /\ \A p \in run[w].todo : Known(p[1])
       /\ run[w].pc = "insert" => Known(run[w].pair[1])
  /\ \A r \in inbox : r.high <=> r.day % YearLength = BirthDay[r.about]

LEMMA PriorityNext == TypeInv /\ PriorityInv /\ [Next]_vars => PriorityInv'
<1> SUFFICES ASSUME TypeInv, PriorityInv, [Next]_vars PROVE PriorityInv'
  OBVIOUS
<1>0. /\ run \in [Runs -> RunRecord] /\ inbox \subseteq Row
      /\ \A w \in Runs : run[w].pc = "insert" => run[w].pair \in Pairs
  BY DEF TypeInv, TypeOK
<1>1. ASSUME NEW w \in Runs, Start(w) PROVE PriorityInv'
  BY <1>0, <1>1 DEF Start, PriorityInv, Idle, Upcoming, Known
<1>2. ASSUME NEW w \in Runs, Recipients(w) PROVE PriorityInv'
  BY <1>0, <1>2 DEF Recipients, PriorityInv, RunRecord
<1>3. ASSUME NEW w \in Runs, NEW p \in Pairs, Find(w, p) PROVE PriorityInv'
  BY <1>0, <1>3 DEF Find, PriorityInv, RunRecord
<1>4. ASSUME NEW w \in Runs, NEW p, Done(w, p)
      PROVE  \A v \in Runs : /\ \A u \in run'[v].about : Known(u)
                             /\ \A q \in run'[v].todo : Known(q[1])
                             /\ run'[v].pc = "insert" => Known(run'[v].pair[1])
  BY <1>0, <1>4 DEF Done, PriorityInv, RunRecord
<1>5. ASSUME NEW w \in Runs, Insert(w) PROVE PriorityInv'
  <2> DEFINE p == run[w].pair
             r == NewRow(p[2], p[1], run[w].day)
  <2>1. p \in Pairs /\ p[1] \in Users /\ run[w].day \in Nat /\ Known(p[1])
    BY <1>0, <1>5, DaysAreNat DEF Insert, PriorityInv, Pairs, RunRecord
  <2>2. r.high <=> r.day % YearLength = BirthDay[r.about]
    BY <2>1, TodayIsTheDay DEF NewRow
  <2>3. inbox' = inbox \cup {r} /\ Done(w, p)
    BY <1>5 DEF Insert
  <2> QED
    BY <1>4, <2>2, <2>3 DEF PriorityInv
<1>6. ASSUME NEW w \in Runs, NEW p, Skip(w, p) PROVE PriorityInv'
  BY <1>4, <1>6 DEF Skip, PriorityInv
<1>7. ASSUME NEW w \in Runs, Finish(w) \/ Crash(w) PROVE PriorityInv'
  BY <1>0, <1>7 DEF Finish, Crash, PriorityInv, Idle
<1>8. ASSUME NEW r \in inbox, MarkRead(r) PROVE PriorityInv'
  BY <1>0, <1>8 DEF MarkRead, PriorityInv, Row
<1>9. ASSUME NEW u \in Users, MarkAllRead(u) PROVE PriorityInv'
  BY <1>0, <1>9 DEF MarkAllRead, PriorityInv, Row
<1>10. CASE Midnight \/ UNCHANGED vars \/ (\E u \in Users : Register(u))
  BY <1>10 DEF Midnight, Register, vars, PriorityInv
<1> QED
  BY <1>1, <1>2, <1>3, <1>5, <1>6, <1>7, <1>8, <1>9, <1>10 DEF Next, Work

\* The high-priority filter shows exactly the birthdays of the day of the
\* message, also when the run went on past midnight.
THEOREM PriorityIsTheDay == Spec => []HighPriorityIsTheDay
<1>1. Init => PriorityInv
  BY DEF Init, PriorityInv, Idle
<1>2. TypeInv /\ PriorityInv => HighPriorityIsTheDay
  BY DEF PriorityInv, HighPriorityIsTheDay, List
<1> QED
  BY <1>1, <1>2, PriorityNext, TypeAlways, PTL DEF Spec

-----------------------------------------------------------------------------
(* The copies of a message. *)

\* The runs that looked for the message about p in vain.
Inserting(p, d) == {w \in Runs : run[w].pc = "insert" /\ run[w].pair = p /\ run[w].day = d}

\* Each copy used up a run's turn: nobody may begin another one.
CountInv ==
  \A p \in Pairs, d \in Days :
    Cardinality(Sent(p[2], p[1], d)) + Cardinality(Inserting(p, d)) <= Cardinality(Runs)

LEMMA InsertingIsFinite ==
  ASSUME NEW p, NEW d
  PROVE  /\ IsFiniteSet(Inserting(p, d)) /\ Cardinality(Inserting(p, d)) \in Nat
         /\ Cardinality(Inserting(p, d)) <= Cardinality(Runs)
         /\ Cardinality(Runs) \in Nat
<1>1. IsFiniteSet(Runs) /\ Inserting(p, d) \in SUBSET Runs
  BY ConstantsAssumption DEF Inserting
<1> QED
  BY <1>1, FS_Subset, FS_CardinalityType

\* Neither number grows.
LEMMA CountsShrink ==
  ASSUME TypeInv, TypeInv', CountInv,
         ASSUME NEW p \in Pairs, NEW d \in Days
         PROVE  /\ Cardinality(Sent(p[2], p[1], d)') <= Cardinality(Sent(p[2], p[1], d))
                /\ Inserting(p, d)' \subseteq Inserting(p, d)
  PROVE  CountInv'
<1> SUFFICES ASSUME NEW p \in Pairs, NEW d \in Days
             PROVE  Cardinality(Sent(p[2], p[1], d)') + Cardinality(Inserting(p, d)')
                      <= Cardinality(Runs)
  BY DEF CountInv
<1>1. /\ IsFiniteSet(Inserting(p, d)) /\ Cardinality(Inserting(p, d)) \in Nat
      /\ Cardinality(Runs) \in Nat
  BY InsertingIsFinite
<1>2. Inserting(p, d)' \in SUBSET Inserting(p, d)
  OBVIOUS
<1>3. /\ Cardinality(Inserting(p, d)') <= Cardinality(Inserting(p, d))
      /\ Cardinality(Inserting(p, d)') \in Nat
  BY <1>1, <1>2, FS_Subset, FS_CardinalityType
<1>4. Cardinality(Sent(p[2], p[1], d)) \in Nat /\ Cardinality(Sent(p[2], p[1], d)') \in Nat
  <2>1. IsFiniteSet(inbox) /\ IsFiniteSet(inbox')
    BY DEF TypeInv
  <2>2. /\ Sent(p[2], p[1], d) \in SUBSET inbox
        /\ Sent(p[2], p[1], d)' \in SUBSET inbox'
    BY DEF Sent
  <2> QED
    BY <2>1, <2>2, FS_Subset, FS_CardinalityType
<1> QED
  BY <1>1, <1>3, <1>4 DEF CountInv

LEMMA SameInbox ==
  ASSUME UNCHANGED inbox, NEW p, NEW d
  PROVE  Sent(p[2], p[1], d)' = Sent(p[2], p[1], d)
BY DEF Sent

LEMMA CountNext == TypeInv /\ TypeInv' /\ CountInv /\ [Next]_vars => CountInv'
<1> SUFFICES ASSUME TypeInv, TypeInv', CountInv, [Next]_vars PROVE CountInv'
  OBVIOUS
<1>0. /\ run \in [Runs -> RunRecord] /\ inbox \subseteq Row /\ IsFiniteSet(inbox)
      /\ \A w \in Runs : run[w].pc = "insert" => run[w].pair \in Pairs
  BY DEF TypeInv, TypeOK
<1>1. ASSUME NEW w \in Runs, UNCHANGED inbox, run'[w].pc # "insert",
             \A v \in Runs \ {w} : run'[v] = run[v]
      PROVE  CountInv'
  <2>1. ASSUME NEW p \in Pairs, NEW d \in Days
        PROVE  /\ Cardinality(Sent(p[2], p[1], d)') <= Cardinality(Sent(p[2], p[1], d))
               /\ Inserting(p, d)' \subseteq Inserting(p, d)
    <3>1. Cardinality(Sent(p[2], p[1], d)) \in Nat
      BY <1>0, SentIsFinite
    <3>2. Inserting(p, d)' \subseteq Inserting(p, d)
      BY <1>1 DEF Inserting
    <3> QED
      BY <1>1, <3>1, <3>2, SameInbox
  <2> QED
    BY <2>1, CountsShrink
<1>2. ASSUME NEW w \in Runs,
             Start(w) \/ Recipients(w) \/ Finish(w) \/ Crash(w) \/ (\E p \in Pairs : Skip(w, p))
      PROVE  CountInv'
  <2>1. /\ UNCHANGED inbox /\ run'[w].pc # "insert"
        /\ \A v \in Runs \ {w} : run'[v] = run[v]
    <3>1. CASE Start(w)
      BY <1>0, <3>1 DEF Start, Idle, RunRecord
    <3>2. CASE Recipients(w)
      BY <1>0, <3>2 DEF Recipients, RunRecord
    <3>3. CASE Finish(w) \/ Crash(w)
      BY <1>0, <3>3 DEF Finish, Crash, Idle
    <3>4. CASE \E p \in Pairs : Skip(w, p)
      BY <1>0, <3>4 DEF Skip, Done, RunRecord
    <3> QED
      BY <1>2, <3>1, <3>2, <3>3, <3>4
  <2> QED
    BY <1>1, <2>1
<1>3. ASSUME NEW w \in Runs, NEW q \in Pairs, Find(w, q) PROVE CountInv'
  <2>1. CASE Sent(q[2], q[1], run[w].day) # {}
    <3>1. /\ UNCHANGED inbox /\ run'[w].pc # "insert"
          /\ \A v \in Runs \ {w} : run'[v] = run[v]
      BY <1>0, <1>3, <2>1 DEF Find, RunRecord
    <3> QED
      BY <1>1, <3>1
  <2>2. CASE Sent(q[2], q[1], run[w].day) = {}
    <3> SUFFICES ASSUME NEW p \in Pairs, NEW d \in Days
                 PROVE  Cardinality(Sent(p[2], p[1], d)') + Cardinality(Inserting(p, d)')
                          <= Cardinality(Runs)
      BY DEF CountInv
    <3>1. Sent(p[2], p[1], d)' = Sent(p[2], p[1], d)
      BY <1>3, SameInbox DEF Find
    <3>2. CASE p = q /\ d = run[w].day
      <4>1. Cardinality(Sent(p[2], p[1], d)') = 0
        BY <2>2, <3>1, <3>2, FS_EmptySet
      <4>2. Inserting(p, d)' \in SUBSET Runs /\ IsFiniteSet(Runs)
        BY ConstantsAssumption DEF Inserting
      <4>3. /\ Cardinality(Inserting(p, d)') <= Cardinality(Runs)
            /\ Cardinality(Inserting(p, d)') \in Nat
        BY <4>2, FS_Subset, FS_CardinalityType
      <4> QED
        BY <4>1, <4>3
    <3>3. CASE ~(p = q /\ d = run[w].day)
      <4>1. run' = [run EXCEPT ![w].pc = "insert", ![w].pair = q]
        BY <1>3, <2>2 DEF Find
      <4>2. run'[w].pair = q /\ run'[w].day = run[w].day /\ \A v \in Runs \ {w} : run'[v] = run[v]
        BY <1>0, <4>1 DEF RunRecord
      <4>3. Inserting(p, d)' \in SUBSET Inserting(p, d)
        BY <3>3, <4>2 DEF Inserting
      <4>4. /\ IsFiniteSet(Inserting(p, d)) /\ Cardinality(Inserting(p, d)) \in Nat
            /\ Cardinality(Runs) \in Nat
        BY InsertingIsFinite
      <4>5. /\ Cardinality(Inserting(p, d)') <= Cardinality(Inserting(p, d))
            /\ Cardinality(Inserting(p, d)') \in Nat
        BY <4>3, <4>4, FS_Subset, FS_CardinalityType
      <4>6. Cardinality(Sent(p[2], p[1], d)) \in Nat
        BY <1>0, SentIsFinite
      <4> QED
        BY <3>1, <4>4, <4>5, <4>6 DEF CountInv
    <3> QED
      BY <3>2, <3>3
  <2> QED
    BY <2>1, <2>2
<1>4. ASSUME NEW w \in Runs, Insert(w) PROVE CountInv'
  <2> DEFINE q == run[w].pair
             row == NewRow(q[2], q[1], run[w].day)
  <2>1. /\ inbox' = inbox \cup {row} /\ run[w].pc = "insert"
        /\ run'[w].pc = "find" /\ \A v \in Runs \ {w} : run'[v] = run[v]
    BY <1>0, <1>4 DEF Insert, Done, RunRecord
  <2> SUFFICES ASSUME NEW p \in Pairs, NEW d \in Days
               PROVE  Cardinality(Sent(p[2], p[1], d)') + Cardinality(Inserting(p, d)')
                        <= Cardinality(Runs)
    BY DEF CountInv
  <2>2. /\ IsFiniteSet(Sent(p[2], p[1], d)) /\ Cardinality(Sent(p[2], p[1], d)) \in Nat
        /\ IsFiniteSet(Inserting(p, d)) /\ Cardinality(Inserting(p, d)) \in Nat
        /\ Cardinality(Runs) \in Nat
    BY <1>0, SentIsFinite, InsertingIsFinite
  <2>3. Cardinality(Sent(p[2], p[1], d)) + Cardinality(Inserting(p, d)) <= Cardinality(Runs)
    BY DEF CountInv
  <2>4. row.to = q[2] /\ row.about = q[1] /\ row.day = run[w].day
    BY DEF NewRow
  <2>5. CASE p = q /\ d = run[w].day
    <3>1. Sent(p[2], p[1], d)' = Sent(p[2], p[1], d) \cup {row}
      BY <2>1, <2>4, <2>5 DEF Sent
    <3>2. /\ Cardinality(Sent(p[2], p[1], d)') \in Nat
          /\ Cardinality(Sent(p[2], p[1], d)') <= Cardinality(Sent(p[2], p[1], d)) + 1
      <4> HIDE DEF row
      <4>1. \/ Cardinality(Sent(p[2], p[1], d) \cup {row}) = Cardinality(Sent(p[2], p[1], d))
            \/ Cardinality(Sent(p[2], p[1], d) \cup {row}) = Cardinality(Sent(p[2], p[1], d)) + 1
        BY <2>2, FS_AddElement
      <4> QED
        BY <2>2, <3>1, <4>1
    <3>3. Inserting(p, d)' = Inserting(p, d) \ {w} /\ w \in Inserting(p, d)
      BY <2>1, <2>5 DEF Inserting
    <3>4. Cardinality(Inserting(p, d)') = Cardinality(Inserting(p, d)) - 1
      BY <2>2, <3>3, FS_RemoveElement
    <3> QED
      BY <2>2, <2>3, <3>2, <3>4
  <2>6. CASE ~(p = q /\ d = run[w].day)
    <3>1. p = <<p[1], p[2]>> /\ q = <<q[1], q[2]>>
      BY <1>0, <2>1 DEF Pairs
    <3>2. Sent(p[2], p[1], d)' = Sent(p[2], p[1], d)
      BY <2>1, <2>4, <2>6, <3>1 DEF Sent
    <3>3. Inserting(p, d)' \in SUBSET Inserting(p, d)
      BY <2>1 DEF Inserting
    <3>4. /\ Cardinality(Inserting(p, d)') <= Cardinality(Inserting(p, d))
          /\ Cardinality(Inserting(p, d)') \in Nat
      BY <2>2, <3>3, FS_Subset, FS_CardinalityType
    <3> QED
      BY <2>2, <2>3, <3>2, <3>4
  <2> QED
    BY <2>5, <2>6
<1>5. ASSUME NEW r \in inbox, MarkRead(r) PROVE CountInv'
  <2> DEFINE s == [r EXCEPT !.read = TRUE]
  <2>1. s.to = r.to /\ s.about = r.about /\ s.day = r.day
    BY <1>0 DEF Row
  <2>2. ASSUME NEW p \in Pairs, NEW d \in Days
        PROVE  /\ Cardinality(Sent(p[2], p[1], d)') <= Cardinality(Sent(p[2], p[1], d))
               /\ Inserting(p, d)' \subseteq Inserting(p, d)
    <3> DEFINE S == Sent(p[2], p[1], d)
    <3>1. IsFiniteSet(S) /\ Cardinality(S) \in Nat
      BY <1>0, SentIsFinite
    <3>2. CASE r \in S
      <4>1. Sent(p[2], p[1], d)' = (S \ {r}) \cup {s}
        BY <1>5, <2>1, <3>2 DEF MarkRead, Sent
      <4>2. IsFiniteSet(S \ {r}) /\ Cardinality(S \ {r}) = Cardinality(S) - 1
        BY <3>1, <3>2, FS_RemoveElement
      <4>3. Cardinality((S \ {r}) \cup {s}) <= Cardinality(S)
        <5> HIDE DEF S, s
        <5>1. \/ Cardinality((S \ {r}) \cup {s}) = Cardinality(S \ {r})
              \/ Cardinality((S \ {r}) \cup {s}) = Cardinality(S \ {r}) + 1
          BY <4>2, FS_AddElement
        <5> QED
          BY <3>1, <4>2, <5>1
      <4> QED
        BY <1>5, <4>1, <4>3 DEF MarkRead, Inserting
    <3>3. CASE r \notin S
      <4>1. Sent(p[2], p[1], d)' = S
        BY <1>5, <2>1, <3>3 DEF MarkRead, Sent
      <4> QED
        BY <1>5, <3>1, <4>1 DEF MarkRead, Inserting
    <3> QED
      BY <3>2, <3>3
  <2> QED
    BY <2>2, CountsShrink
<1>6. ASSUME NEW u \in Users, MarkAllRead(u) PROVE CountInv'
  <2>1. ASSUME NEW p \in Pairs, NEW d \in Days
        PROVE  /\ Cardinality(Sent(p[2], p[1], d)') <= Cardinality(Sent(p[2], p[1], d))
               /\ Inserting(p, d)' \subseteq Inserting(p, d)
    <3> DEFINE S == Sent(p[2], p[1], d)
               f == [r \in S |-> IF r.to = u THEN [r EXCEPT !.read = TRUE] ELSE r]
    <3>1. IsFiniteSet(S)
      BY <1>0, SentIsFinite
    <3>2. \A r \in inbox : LET s == IF r.to = u THEN [r EXCEPT !.read = TRUE] ELSE r
                           IN  s.to = r.to /\ s.about = r.about /\ s.day = r.day
      BY <1>0 DEF Row
    <3>3. inbox' = {IF r.to = u THEN [r EXCEPT !.read = TRUE] ELSE r : r \in inbox}
      BY <1>6 DEF MarkAllRead
    <3>4. Sent(p[2], p[1], d)' = {f[r] : r \in S}
      <4>1. ASSUME NEW s \in Sent(p[2], p[1], d)' PROVE \E r \in S : s = f[r]
        <5>1. s \in inbox' /\ s.to = p[2] /\ s.about = p[1] /\ s.day = d
          BY <4>1 DEF Sent
        <5>2. PICK r \in inbox : s = IF r.to = u THEN [r EXCEPT !.read = TRUE] ELSE r
          BY <3>3, <5>1
        <5>3. r \in S
          BY <3>2, <5>1, <5>2 DEF Sent
        <5> QED
          BY <5>2, <5>3
      <4>2. ASSUME NEW r \in S PROVE f[r] \in Sent(p[2], p[1], d)'
        <5>1. r \in inbox /\ r.to = p[2] /\ r.about = p[1] /\ r.day = d
          BY DEF Sent
        <5> DEFINE s == IF r.to = u THEN [r EXCEPT !.read = TRUE] ELSE r
        <5>2. s.to = r.to /\ s.about = r.about /\ s.day = r.day
          BY <3>2, <5>1
        <5>3. s \in inbox' /\ f[r] = s
          BY <3>3, <5>1
        <5> HIDE DEF s
        <5> QED
          BY <5>1, <5>2, <5>3 DEF Sent
      <4> HIDE DEF f, S
      <4> QED
        BY <4>1, <4>2
    <3>5. f \in Surjection(S, Sent(p[2], p[1], d)')
      <4> HIDE DEF S
      <4> QED
        BY <3>4 DEF Surjection
    <3>6. Cardinality(Sent(p[2], p[1], d)') <= Cardinality(S)
      BY <3>1, <3>5, FS_Surjection
    <3> QED
      BY <1>6, <3>6 DEF MarkAllRead, Inserting
  <2> QED
    BY <2>1, CountsShrink
<1>7. CASE Midnight \/ UNCHANGED vars \/ (\E u \in Users : Register(u))
  BY <1>7 DEF Midnight, Register, vars, CountInv, Sent, Inserting
<1> QED
  BY <1>2, <1>3, <1>4, <1>5, <1>6, <1>7 DEF Next, Work

\* Nobody gets more messages about one birthday on one day than there are
\* runs at once, whatever is read, fails or is started again meanwhile.
THEOREM CopiesAreBounded == Spec => []CopiesBounded
<1>1. Init => CountInv
  <2> SUFFICES ASSUME Init, NEW p \in Pairs, NEW d \in Days
               PROVE  Cardinality(Sent(p[2], p[1], d)) + Cardinality(Inserting(p, d))
                        <= Cardinality(Runs)
    BY DEF CountInv
  <2>1. Sent(p[2], p[1], d) = {}
    BY DEF Init, Sent
  <2> QED
    BY <2>1, FS_EmptySet, InsertingIsFinite
<1>2. TypeInv /\ CountInv => CopiesBounded
  BY SentIsFinite, InsertingIsFinite DEF TypeInv, CountInv, CopiesBounded
<1> QED
  BY <1>1, <1>2, CountNext, TypeAlways, PTL DEF Spec
=============================================================================
