------------------------- MODULE LeaveNotification -------------------------
(***************************************************************************)
(* The queue of notification jobs and the worker that runs them.  A job    *)
(* announces a stage or decision of one request: the worker reads the      *)
(* request, and, for a stage, who is to act on it next, and tells them one *)
(* by one.  Each await that reads the database is a step and may fail;     *)
(* the queue then retries the whole job, up to MaxAttempts.  A failure to  *)
(* send an e-mail or to store an in-app notification is caught and logged, *)
(* and changes nothing that follows: telling a person is one step, counted *)
(* whether or not the two channels worked.                                 *)
(*                                                                         *)
(* The queue itself is BullMQ.  It gives a waiting job to one worker slot  *)
(* under a lock; a slot that dies or is too slow to renew the lock leaves  *)
(* the job stalled, and the job runs again up to MaxStalls times.          *)
(***************************************************************************)
EXTENDS LeaveRouting, Naturals, FiniteSets

CONSTANTS
  Users, Departments, Requests,
  Jobs,                         \* the jobs that may be added: <<type, request>>
  Workers,                      \* slots of the worker (concurrency: 5)
  Owner, Home,                  \* userId and departmentId of each request
  NoDept, NoJob, NoWorker,
  InitRole, InitDept, InitHrDept,
  MaxAttempts,                  \* attempts: 5
  MaxStalls,                    \* maxStalledCount, 1 by default
  Moves,                        \* the user updates to consider: <<user, role, department>>
  MaxJobs, MaxOrgChanges        \* bounds on jobs added, on organisation changes

ASSUME ConstantsAssumption ==
  /\ Jobs \subseteq JobTypes \X Requests
  /\ IsFiniteSet(Workers)
  /\ NoJob \notin Jobs /\ NoWorker \notin Workers /\ NoDept \notin Departments
  /\ Owner \in [Requests -> Users] /\ Home \in [Requests -> Departments]
  /\ InitRole \in [Users -> Roles]
  /\ InitDept \in [Users -> Departments \cup {NoDept}]
  /\ InitHrDept \in Departments \cup {NoDept}
  /\ MaxAttempts \in Nat \ {0} /\ MaxStalls \in Nat
  /\ Moves \subseteq Users \X Roles \X (Departments \cup {NoDept})
  /\ MaxJobs \in Nat /\ MaxOrgChanges \in Nat

VARIABLES
  role, dept, hrDept,   \* columns of each user; the tenant's hrDepartmentId
  present,              \* requests in the database
  orgChanges,           \* changes of the organisation so far
  job,                  \* each job in the queue
  run,                  \* what each slot is doing
  told,                 \* how often a job told a user
  since                 \* history: who could act on a job since it was added

org  == <<role, dept, hrDept, present, orgChanges>>
vars == <<org, job, run, told, since>>

Readers == {"fetch", "requester", "tenant", "recipients"}

JobRecord ==
  [state : {"none", "waiting", "active", "completed", "failed"},
   lock : Workers \cup {NoWorker}, attempts : 0 .. MaxAttempts, stalls : 0 .. MaxStalls]

\* role and dept: what findRecipients is asked for (NoDept: no department
\* filter); todo: the recipients found and not yet told.
RunRecord ==
  [pc : Readers \cup {"idle", "employee", "reviewers"}, job : Jobs \cup {NoJob},
   role : Roles \cup {"none"}, dept : Departments \cup {NoDept}, todo : SUBSET Users]

\* Who may act on the stage a job announces: the checks of the workflow.
\* They compare departments, and no department equals no department.
MayActOn(j, u) ==
  CASE j[1] = "SUBMITTED"           -> role[u] = "TEAM_LEAD" /\ dept[u] = Home[j[2]]
    [] j[1] = "TEAM_LEAD_COMMENTED" -> role[u] = "DEPT_HEAD" /\ dept[u] = Home[j[2]]
    [] j[1] = "DEPT_APPROVED"       ->
         /\ role[u] = FinalApproverRole(role[Owner[j[2]]])
         /\ role[u] = "HR_ADMIN" => dept[u] = hrDept
    [] OTHER                        -> FALSE

\* Those of them the announcement is for: while the request exists and, for
\* an HR admin, the tenant has an HR department.
Reviewers(j) ==
  {u \in Users : /\ j[2] \in present /\ MayActOn(j, u)
                 /\ role[u] = "HR_ADMIN" => hrDept # NoDept}

\* steady: reviewers at every moment since the job was added; ever: at one of
\* them; moves: changes of the organisation since.
SinceRecord == [steady : SUBSET Users, ever : SUBSET Users, moves : 0 .. MaxOrgChanges]

FromNow(j) == [steady |-> Reviewers(j), ever |-> Reviewers(j), moves |-> 0]

Idle == [pc |-> "idle", job |-> NoJob, role |-> "none", dept |-> NoDept, todo |-> {}]

Init ==
  /\ role = InitRole /\ dept = InitDept /\ hrDept = InitHrDept
  /\ present = Requests /\ orgChanges = 0
  /\ job = [j \in Jobs |-> [state |-> "none", lock |-> NoWorker, attempts |-> 0, stalls |-> 0]]
  /\ run = [w \in Workers |-> Idle]
  /\ told = [j \in Jobs |-> [u \in Users |-> 0]]
  /\ since = [j \in Jobs |-> FromNow(j)]

-----------------------------------------------------------------------------
(* The queue. *)

\* A second add of a job id the queue knows has no effect.
Add(j) ==
  /\ job[j].state = "none"
  /\ Cardinality({i \in Jobs : job[i].state # "none"}) < MaxJobs
  /\ job' = [job EXCEPT ![j].state = "waiting"]
  /\ since' = [since EXCEPT ![j] = FromNow(j)]
  /\ UNCHANGED <<org, run, told>>

Take(w, j) ==
  /\ run[w].pc = "idle" /\ job[j].state = "waiting"
  /\ job' = [job EXCEPT ![j].state = "active", ![j].lock = w]
  /\ run' = [run EXCEPT ![w] = [Idle EXCEPT !.pc = "fetch", !.job = j]]
  /\ UNCHANGED <<org, told, since>>

\* The job record after its handler returned in slot w; the queue ignores a
\* slot that lost the lock.
Returned(w) ==
  LET j == run[w].job IN
  IF job[j].lock = w
    THEN [job EXCEPT ![j].state = "completed", ![j].lock = NoWorker]
    ELSE job

\* Variant: the number of attempts is not limited.
ThrownForever(w) ==
  LET j == run[w].job IN
  IF job[j].lock = w
    THEN [job EXCEPT ![j].lock = NoWorker, ![j].state = "waiting"]
    ELSE job

\* Variant: one attempt too many.
ThrownOnceMore(w) ==
  LET j == run[w].job IN
  IF job[j].lock = w
    THEN [job EXCEPT ![j].attempts = @ + 1, ![j].lock = NoWorker,
                     ![j].state = IF job[j].attempts + 1 <= MaxAttempts
                                    THEN "waiting" ELSE "failed"]
    ELSE job

\* The same after it threw: another attempt, or the failed set.
Thrown(w) ==
  LET j == run[w].job IN
  IF job[j].lock = w
    THEN [job EXCEPT ![j].attempts = @ + 1, ![j].lock = NoWorker,
                     ![j].state = IF job[j].attempts + 1 < MaxAttempts
                                    THEN "waiting" ELSE "failed"]
    ELSE job

\* The lock of an active job expires: its slot died or did not renew it.
Stall(j) ==
  /\ job[j].state = "active"
  /\ job' = IF job[j].stalls < MaxStalls
       THEN [job EXCEPT ![j].state = "waiting", ![j].lock = NoWorker, ![j].stalls = @ + 1]
       ELSE [job EXCEPT ![j].state = "failed", ![j].lock = NoWorker]
  /\ UNCHANGED <<org, run, told, since>>

WorkerDies(w) ==
  /\ run[w].pc # "idle"
  /\ run' = [run EXCEPT ![w] = Idle]
  /\ UNCHANGED <<org, job, told, since>>

-----------------------------------------------------------------------------
(* The handlers (NotifySubmitted, NotifyTeamLeadCommented, ...). *)

At(w, pc) == run[w].pc = pc

Request(w) == run[w].job[2]

Goto(w, r) == run' = [run EXCEPT ![w] = r] /\ UNCHANGED <<org, job, told, since>>

\* The handler returns.
Return(w) == /\ run' = [run EXCEPT ![w] = Idle]
             /\ job' = Returned(w)
             /\ UNCHANGED <<org, told, since>>

\* A query of the handler throws, and so does the handler.
ReadFails(w) ==
  /\ run[w].pc \in Readers
  /\ run' = [run EXCEPT ![w] = Idle]
  /\ job' = Thrown(w)
  /\ UNCHANGED <<org, told, since>>

\* Whom a handler looks up next: it searches for a role in a department.
Search(w, r, d) == [run[w] EXCEPT !.pc = "recipients", !.role = r, !.dept = d]

\* fetchLeaveRequest: a request deleted before the job ran is skipped.
FetchMissing(w) == /\ At(w, "fetch")
                   /\ Request(w) \notin present
                   /\ Return(w)

Fetch(w) ==
  /\ At(w, "fetch")
  /\ Request(w) \in present
  /\ Goto(w, CASE run[w].job[1] = "TEAM_LEAD_COMMENTED" ->
                    Search(w, "DEPT_HEAD", Home[Request(w)])
               [] run[w].job[1] = "DEPT_APPROVED" -> [run[w] EXCEPT !.pc = "requester"]
               [] OTHER -> [run[w] EXCEPT !.pc = "employee"])

\* notifyEmployee; a submission is then announced to the team leads.
NotifyEmployee(w) ==
  LET j == run[w].job
      r == IF j[1] = "SUBMITTED" THEN Search(w, "TEAM_LEAD", Home[j[2]]) ELSE Idle IN
  /\ At(w, "employee")
  /\ told' = [told EXCEPT ![j][Owner[j[2]]] = @ + 1]
  /\ run' = [run EXCEPT ![w] = r]
  /\ job' = IF r = Idle THEN Returned(w) ELSE job
  /\ UNCHANGED <<org, since>>

\* An HR admin's own request goes to the tenant admins.
ReadRequester(w) ==
  /\ At(w, "requester")
  /\ Goto(w, IF role[Owner[Request(w)]] = "HR_ADMIN"
               THEN Search(w, "TENANT_ADMIN", NoDept)
               ELSE [run[w] EXCEPT !.pc = "tenant"])

\* Without an HR department nobody is told.
ReadTenantNone(w) == At(w, "tenant") /\ hrDept = NoDept /\ Return(w)

ReadTenant(w) == /\ At(w, "tenant") /\ hrDept # NoDept
                 /\ Goto(w, Search(w, "HR_ADMIN", hrDept))

\* Variant: the department filter is lost.
RecipientsOfAnyDepartment(w) == {u \in Users : role[u] = run[w].role}

Recipients(w) ==
  {u \in Users : /\ role[u] = run[w].role
                 /\ run[w].dept # NoDept => dept[u] = run[w].dept}

FindNobody(w) == At(w, "recipients") /\ Recipients(w) = {} /\ Return(w)

FindRecipients(w) ==
  /\ At(w, "recipients") /\ Recipients(w) # {}
  /\ Goto(w, [run[w] EXCEPT !.pc = "reviewers", !.todo = Recipients(w)])

Tell(w, u, next) ==
  /\ At(w, "reviewers") /\ u \in run[w].todo
  /\ told' = [told EXCEPT ![run[w].job][u] = @ + 1]
  /\ run' = [run EXCEPT ![w] = IF next = {} THEN Idle ELSE [@ EXCEPT !.todo = next]]
  /\ UNCHANGED <<org, since>>

\* Variant: a recipient who cannot be reached fails the job.
NotifyReviewerOrThrow(w, u) ==
  /\ Tell(w, u, {})
  /\ job' = IF run[w].todo = {u} THEN Returned(w) ELSE Thrown(w)

\* notifyAll, one recipient.
NotifyReviewer(w, u) ==
  LET rest == run[w].todo \ {u} IN
  /\ Tell(w, u, rest)
  /\ job' = IF rest = {} THEN Returned(w) ELSE job

-----------------------------------------------------------------------------
(* The organisation: see LeaveRequestWorkflow. *)

\* Every change is one more move since each job was added.
Reorganise ==
  /\ orgChanges < MaxOrgChanges /\ orgChanges' = orgChanges + 1
  /\ since' = [j \in Jobs |-> [steady |-> since[j].steady \cap Reviewers(j)',
                               ever   |-> since[j].ever \cup Reviewers(j)',
                               moves  |-> since[j].moves + 1]]
  /\ UNCHANGED <<job, run, told>>

ChangeUser(u, x, d) ==
  /\ role' = [role EXCEPT ![u] = x] /\ dept' = [dept EXCEPT ![u] = d]
  /\ UNCHANGED <<hrDept, present>> /\ Reorganise

ChangeHrDepartment(d) ==
  /\ hrDept' = d
  /\ UNCHANGED <<role, dept, present>> /\ Reorganise

RemoveDepartment(d) ==
  /\ present' = {r \in present : Home[r] # d}
  /\ dept' = [u \in Users |-> IF dept[u] = d THEN NoDept ELSE dept[u]]
  /\ hrDept' = IF hrDept = d THEN NoDept ELSE hrDept
  /\ UNCHANGED role /\ Reorganise

RemovePolicy(gone) ==
  /\ present' = present \ gone
  /\ UNCHANGED <<role, dept, hrDept>> /\ Reorganise

-----------------------------------------------------------------------------
Handle(w) ==
  \/ FetchMissing(w) \/ Fetch(w) \/ NotifyEmployee(w)
  \/ ReadRequester(w) \/ ReadTenantNone(w) \/ ReadTenant(w)
  \/ FindNobody(w) \/ FindRecipients(w)
  \/ \E u \in Users : NotifyReviewer(w, u)
  \/ ReadFails(w)

Work(w) == Handle(w) \/ \E j \in Jobs : Take(w, j)

OrgStep ==
  \/ \E m \in Moves : ChangeUser(m[1], m[2], m[3])
  \/ \E d \in Departments \cup {NoDept} : ChangeHrDepartment(d)
  \/ \E d \in Departments : RemoveDepartment(d)
  \/ \E gone \in SUBSET Requests : RemovePolicy(gone)

Next ==
  \/ \E j \in Jobs : Add(j) \/ Stall(j)
  \/ \E w \in Workers : Work(w) \/ WorkerDies(w)
  \/ OrgStep

\* The worker's slots keep polling, and the queue keeps looking for stalled
\* jobs; nobody has to add a job or to change the organisation.
Fairness == /\ \A w \in Workers : WF_vars(Work(w))
            /\ \A j \in Jobs : WF_vars(Stall(j))

Spec == Init /\ [][Next]_vars /\ Fairness

-----------------------------------------------------------------------------
(* Properties. *)

TypeOK ==
  /\ role \in [Users -> Roles]
  /\ dept \in [Users -> Departments \cup {NoDept}]
  /\ hrDept \in Departments \cup {NoDept}
  /\ present \subseteq Requests
  /\ orgChanges \in 0 .. MaxOrgChanges
  /\ job \in [Jobs -> JobRecord]
  /\ run \in [Workers -> RunRecord]
  /\ told \in [Jobs -> [Users -> Nat]]
  /\ since \in [Jobs -> SinceRecord]

\* Retries do not repeat themselves to reviewers: everything that can throw
\* comes before the first of them is told, so only a slot that lost its lock
\* lets a reviewer hear twice.
ReviewersToldOnce ==
  \A j \in Jobs, u \in Users :
    u # Owner[j[2]] => told[j][u] <= 1 + job[j].stalls

\* The search that tells people and the check that lets them act are different
\* code, run at different moments.  Still a job that completes has told
\* everybody who was a reviewer at every moment since it was added, however
\* often the organisation changed meanwhile; and as long as it changed once at
\* most, everybody told was a reviewer at one of those moments, or owns the
\* request.  A reviewer is somebody who may act on a request that exists, but
\* an HR admin only while the tenant has an HR department: without one the job
\* tells nobody, though null equals null for the check, and an HR admin without
\* a department may act untold.
WhoeverMayActIsTold ==
  \A j \in Jobs, u \in Users :
    /\ job[j].state = "completed" /\ u \in since[j].steady => told[j][u] > 0
    /\ told[j][u] > 0 /\ since[j].moves <= 1 => u \in since[j].ever \cup {Owner[j[2]]}

\* A job that was added is completed or given up; no failure, stall or change
\* of the organisation leaves it in the queue for ever.
JobsSettle ==
  \A j \in Jobs :
    job[j].state # "none" ~> job[j].state \in {"completed", "failed"}
=============================================================================
