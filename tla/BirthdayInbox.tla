--------------------------- MODULE BirthdayInbox ---------------------------
(***************************************************************************)
(* The birthday messages of one tenant and the in-app inbox they land in.  *)
(* Every ten seconds the scheduler starts a run: it reads the birthdays of *)
(* the next seven days, then the recipients, and for each pair looks for   *)
(* today's message before it inserts one.  Runs overlap, because a run may *)
(* take longer than ten seconds and there may be several workers; nothing  *)
(* but the look-up keeps them from sending twice.  An error is logged and  *)
(* the pair skipped; the next run tries again.                             *)
(*                                                                         *)
(* A day is a number, years have YearLength days, the server's clock is    *)
(* UTC.  Users who left are recipients like the others.  The pairs are     *)
(* worked off in any order.                                                *)
(***************************************************************************)
EXTENDS Naturals, FiniteSets

CONSTANTS
  Users,
  BirthDay,           \* day of the year each user was born, NoDay if unknown
  NoDay,
  Runs,               \* runs that may be under way at once
  YearLength,
  FirstDay, LastDay,  \* the days considered
  MaxFailures         \* bound on errors and crashes

ASSUME ConstantsAssumption ==
  /\ YearLength \in Nat \ {0} /\ NoDay \notin Nat
  /\ BirthDay \in [Users -> 0 .. YearLength - 1 \cup {NoDay}]
  /\ IsFiniteSet(Runs)
  /\ FirstDay \in Nat /\ LastDay \in Nat /\ FirstDay <= LastDay /\ MaxFailures \in Nat

VARIABLES
  today,
  staff,     \* rows of the users table
  inbox,     \* rows of the notifications table
  run,       \* what each run is doing
  failures   \* errors and crashes so far

vars == <<today, staff, inbox, run, failures>>

Days == FirstDay .. LastDay

Window == 7

\* copy tells the rows of one recipient, birthday and day apart.
Row == [to : Users, about : Users, day : Days, copy : Nat \ {0}, high : BOOLEAN, read : BOOLEAN]

Pairs == {p \in Users \X Users : p[1] # p[2]}

NoPair == <<>>

\* about: birthdays read; todo: pairs <<birthday, recipient>> left.
RunRecord ==
  [pc : {"idle", "recipients", "find", "insert"}, day : Days,
   about : SUBSET Users, todo : SUBSET Pairs, pair : Pairs \cup {NoPair}]

Idle == [pc |-> "idle", day |-> FirstDay, about |-> {}, todo |-> {}, pair |-> NoPair]

Init ==
  /\ today = FirstDay
  /\ staff \in SUBSET Users
  /\ inbox = {}
  /\ run = [w \in Runs |-> Idle]
  /\ failures = 0

-----------------------------------------------------------------------------
\* The next birthday: this year's, or next year's once that is over.
NextBirthday(u, day) ==
  LET thisYear == day - (day % YearLength) + BirthDay[u] IN
  IF thisYear < day THEN thisYear + YearLength ELSE thisYear

\* Variant: only this year's birthdays.
UpcomingThisYear(u, day) ==
  /\ BirthDay[u] # NoDay
  /\ day - (day % YearLength) + BirthDay[u] \in day .. day + Window

Upcoming(u, day) == BirthDay[u] # NoDay /\ NextBirthday(u, day) <= day + Window

IsToday(u, day) == NextBirthday(u, day) = day

\* The rows with a recipient and a source id `birthday:about-day`.
Sent(to, about, day) == {r \in inbox : r.to = to /\ r.about = about /\ r.day = day}

-----------------------------------------------------------------------------
(* A run. *)

Start(w) ==
  LET soon == {u \in staff : Upcoming(u, today)} IN
  /\ run[w].pc = "idle" /\ soon # {}
  /\ run' = [run EXCEPT ![w] = [Idle EXCEPT !.pc = "recipients", !.day = today, !.about = soon]]
  /\ UNCHANGED <<today, staff, inbox, failures>>

\* Variant: the birthday person is a recipient too.
RecipientsAndSelf(w) ==
  /\ run[w].pc = "recipients"
  /\ run' = [run EXCEPT ![w].pc = "find", ![w].todo = run[w].about \X staff]
  /\ UNCHANGED <<today, staff, inbox, failures>>

\* Nobody is told about their own birthday.
Recipients(w) ==
  /\ run[w].pc = "recipients"
  /\ run' = [run EXCEPT ![w].pc = "find", ![w].todo = {p \in run[w].about \X staff : p[1] # p[2]}]
  /\ UNCHANGED <<today, staff, inbox, failures>>

\* Variant: a message that was read already is not found.
FindUnread(w, p) ==
  /\ run[w].pc = "find" /\ p \in run[w].todo
  /\ run' = IF \E r \in Sent(p[2], p[1], run[w].day) : ~r.read
              THEN [run EXCEPT ![w].todo = @ \ {p}]
              ELSE [run EXCEPT ![w].pc = "insert", ![w].pair = p]
  /\ UNCHANGED <<today, staff, inbox, failures>>

Find(w, p) ==
  /\ run[w].pc = "find" /\ p \in run[w].todo
  /\ run' = IF Sent(p[2], p[1], run[w].day) # {}
              THEN [run EXCEPT ![w].todo = @ \ {p}]
              ELSE [run EXCEPT ![w].pc = "insert", ![w].pair = p]
  /\ UNCHANGED <<today, staff, inbox, failures>>

Done(w, p) == run' = [run EXCEPT ![w].pc = "find", ![w].todo = @ \ {p}, ![w].pair = NoPair]

NewRow(to, about, day) ==
  [to |-> to, about |-> about, day |-> day, copy |-> Cardinality(Sent(to, about, day)) + 1,
   high |-> IsToday(about, day), read |-> FALSE]

\* Variant: the day of the key is read from the clock again.
InsertOnCurrentDay(w) ==
  LET p == run[w].pair IN
  /\ run[w].pc = "insert"
  /\ inbox' = inbox \cup {[NewRow(p[2], p[1], today) EXCEPT !.high = IsToday(p[1], run[w].day)]}
  /\ Done(w, p)
  /\ UNCHANGED <<today, staff, failures>>

Insert(w) ==
  LET p == run[w].pair IN
  /\ run[w].pc = "insert"
  /\ inbox' = inbox \cup {NewRow(p[2], p[1], run[w].day)}
  /\ Done(w, p)
  /\ UNCHANGED <<today, staff, failures>>

CountFailure == failures < MaxFailures /\ failures' = failures + 1

\* The look-up or the insert throws.
Skip(w, p) ==
  /\ \/ run[w].pc = "find" /\ p \in run[w].todo
     \/ run[w].pc = "insert" /\ p = run[w].pair
  /\ CountFailure
  /\ Done(w, p)
  /\ UNCHANGED <<today, staff, inbox>>

Finish(w) ==
  /\ run[w].pc = "find" /\ run[w].todo = {}
  /\ run' = [run EXCEPT ![w] = Idle]
  /\ UNCHANGED <<today, staff, inbox, failures>>

\* The worker stops, or one of the first two queries throws.
Crash(w) ==
  /\ run[w].pc # "idle"
  /\ CountFailure
  /\ run' = [run EXCEPT ![w] = Idle]
  /\ UNCHANGED <<today, staff, inbox>>

-----------------------------------------------------------------------------
(* Around the runs. *)

MarkRead(r) ==
  /\ r \in inbox /\ ~r.read
  /\ inbox' = (inbox \ {r}) \cup {[r EXCEPT !.read = TRUE]}
  /\ UNCHANGED <<today, staff, run, failures>>

MarkAllRead(u) ==
  /\ \E r \in inbox : r.to = u /\ ~r.read
  /\ inbox' = {IF r.to = u THEN [r EXCEPT !.read = TRUE] ELSE r : r \in inbox}
  /\ UNCHANGED <<today, staff, run, failures>>

\* What the filters of a user's inbox show.
List(u, filter) ==
  {r \in inbox : /\ r.to = u
                 /\ filter = "unread" => ~r.read
                 /\ filter = "high-priority" => r.high}

Register(u) ==
  /\ u \notin staff
  /\ staff' = staff \cup {u}
  /\ UNCHANGED <<today, inbox, run, failures>>

Midnight ==
  /\ today < LastDay
  /\ today' = today + 1
  /\ UNCHANGED <<staff, inbox, run, failures>>

Work(w) ==
  \/ Recipients(w) \/ Insert(w) \/ Finish(w)
  \/ \E p \in Pairs : Find(w, p)

Next ==
  \/ \E w \in Runs : \/ Start(w) \/ Work(w) \/ Crash(w)
                     \/ \E p \in Pairs : Skip(w, p)
  \/ \E r \in inbox : MarkRead(r)
  \/ \E u \in Users : MarkAllRead(u) \/ Register(u)
  \/ Midnight

Spec == Init /\ [][Next]_vars

\* The clock starts runs and a run that was started goes on.
FairSpec == Spec /\ \A w \in Runs : WF_vars(Start(w)) /\ WF_vars(Work(w))

-----------------------------------------------------------------------------
(* The types of the state. *)
TypeOK ==
  /\ today \in Days /\ staff \subseteq Users /\ inbox \subseteq Row
  /\ run \in [Runs -> RunRecord]
  /\ failures \in 0 .. MaxFailures

(* Nobody gets more messages about a birthday on one day than there are    *)
(* runs at once, so a single run never sends twice, however often the      *)
(* clock starts one and whatever the recipient has read meanwhile.         *)
CopiesBounded ==
  \A p \in Pairs, d \in Days : Cardinality(Sent(p[2], p[1], d)) <= Cardinality(Runs)

(* The high-priority filter shows the birthdays of the day the message is  *)
(* for, and nothing else, even when a run goes on past midnight.           *)
HighPriorityIsTheDay ==
  \A u \in Users : \A r \in List(u, "all") :
    r \in List(u, "high-priority") <=> r.day % YearLength = BirthDay[r.about]

(* On every day each user is told of each colleague whose birthday is that *)
(* day or one of the next seven, over the end of the year too, unless the  *)
(* day ends before; errors and crashes only delay it.                      *)
BirthdayIsTold ==
  \A u, about \in Users, d \in Days :
    (\E k \in 0 .. 7 : u # about /\ (d + k) % YearLength = BirthDay[about])
      => (today = d /\ {u, about} \subseteq staff ~> today # d \/ Sent(u, about, d) # {})
=============================================================================
