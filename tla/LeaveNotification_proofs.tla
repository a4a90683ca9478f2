---------------------- MODULE LeaveNotification_proofs ----------------------
(***************************************************************************)
(* Proofs about LeaveNotification for every organisation, every set of     *)
(* jobs, any number of slots, attempts and tolerated stalls.               *)
(***************************************************************************)
EXTENDS LeaveNotification, FiniteSetTheorems, TLAPS

-----------------------------------------------------------------------------
(* Type correctness, with what the attempts and locks of a job may be. *)

\* A job not settled has an attempt left; only an active job is locked.
JobsWellFormed(f) ==
  /\ f \in [Jobs -> JobRecord]
  /\ \A j \in Jobs : /\ f[j].state \in {"none", "waiting", "active"}
                          => f[j].attempts < MaxAttempts
                     /\ f[j].lock # NoWorker => f[j].state = "active"

\* A busy slot has a job.
RunsWellFormed(g) ==
  /\ g \in [Workers -> RunRecord]
  /\ \A w \in Workers : g[w].pc # "idle" => g[w].job \in Jobs

OrgTypeOK ==
  /\ role \in [Users -> Roles]
  /\ dept \in [Users -> Departments \cup {NoDept}]
  /\ hrDept \in Departments \cup {NoDept}
  /\ present \subseteq Requests
  /\ orgChanges \in 0 .. MaxOrgChanges

ToldTypeOK == told \in [Jobs -> [Users -> Nat]]

\* No job saw more changes of the organisation than there were.
SinceTypeOK == /\ since \in [Jobs -> SinceRecord]
               /\ \A j \in Jobs : since[j].moves <= orgChanges

TypeInv == /\ OrgTypeOK /\ ToldTypeOK /\ SinceTypeOK
           /\ JobsWellFormed(job) /\ RunsWellFormed(run)

\* The two parts of a job id.
LEMMA JobParts ==
  ASSUME NEW j \in Jobs
  PROVE  j[1] \in JobTypes /\ j[2] \in Requests
BY ConstantsAssumption

\* The history a job starts with.
LEMMA FromNowType ==
  ASSUME NEW j \in Jobs
  PROVE  FromNow(j) \in SinceRecord /\ FromNow(j).moves = 0
BY ConstantsAssumption DEF FromNow, SinceRecord, Reviewers

LEMMA TypeInit == Init => TypeInv
<1> SUFFICES ASSUME Init PROVE TypeInv
  OBVIOUS
<1>1. SinceTypeOK
  BY FromNowType DEF Init, SinceTypeOK
<1>2. OrgTypeOK /\ ToldTypeOK /\ JobsWellFormed(job) /\ RunsWellFormed(run)
  BY ConstantsAssumption
     DEF Init, OrgTypeOK, ToldTypeOK, JobsWellFormed, RunsWellFormed, JobRecord, RunRecord, Idle
<1> QED
  BY <1>1, <1>2 DEF TypeInv

\* A slot takes up a new record.
LEMMA RunUpdate ==
  ASSUME RunsWellFormed(run), NEW w \in Workers, NEW r \in RunRecord,
         r.pc # "idle" => r.job \in Jobs
  PROVE  RunsWellFormed([run EXCEPT ![w] = r])
BY DEF RunsWellFormed

LEMMA IdleType == Idle \in RunRecord /\ Idle.pc = "idle"
BY DEF Idle, RunRecord

\* What a handler's return or exception does to its job.
LEMMA JobUpdate ==
  ASSUME TypeInv, NEW w \in Workers, run[w].pc # "idle"
  PROVE  JobsWellFormed(Returned(w)) /\ JobsWellFormed(Thrown(w))
<1> DEFINE j == run[w].job
<1>1. j \in Jobs /\ JobsWellFormed(job)
  BY DEF TypeInv, RunsWellFormed
<1>2. job[j] \in JobRecord
  BY <1>1 DEF JobsWellFormed
<1>3. JobsWellFormed(Returned(w))
  <2> DEFINE k == [job[j] EXCEPT !.state = "completed", !.lock = NoWorker]
  <2>1. k \in JobRecord
    BY <1>2 DEF JobRecord
  <2>2. Returned(w) = [job EXCEPT ![j] = k] \/ Returned(w) = job
    BY <1>1 DEF Returned, JobsWellFormed
  <2>3. k.state = "completed" /\ k.lock = NoWorker
    BY <1>2 DEF JobRecord
  <2>4. JobsWellFormed([job EXCEPT ![j] = k])
    BY <1>1, <2>1, <2>3 DEF JobsWellFormed
  <2> QED
    BY <1>1, <2>2, <2>4
<1>4. JobsWellFormed(Thrown(w))
  <2> DEFINE k == [job[j] EXCEPT
                     !.attempts = job[j].attempts + 1, !.lock = NoWorker,
                     !.state = IF job[j].attempts + 1 < MaxAttempts
                                 THEN "waiting" ELSE "failed"]
  <2>1. CASE job[j].lock # w
    BY <1>1, <2>1 DEF Thrown
  <2>2. CASE job[j].lock = w
    <3>1. job[j].attempts < MaxAttempts
      BY <1>1, <2>2, ConstantsAssumption DEF JobsWellFormed
    <3>2. k \in JobRecord
      <4>1. job[j].attempts \in 0 .. MaxAttempts /\ MaxAttempts \in Nat
        BY <1>2, ConstantsAssumption DEF JobRecord
      <4>2. job[j].attempts + 1 \in 0 .. MaxAttempts
        BY <3>1, <4>1
      <4>3. k = [job[j] EXCEPT !.attempts = k.attempts, !.lock = NoWorker, !.state = k.state]
            /\ k.attempts = job[j].attempts + 1 /\ k.state \in {"waiting", "failed"}
        BY <1>2 DEF JobRecord
      <4> QED
        BY <1>2, <4>2, <4>3 DEF JobRecord
    <3>3. /\ k.lock = NoWorker /\ k.attempts = job[j].attempts + 1
          /\ k.state \in {"waiting", "failed"}
          /\ k.state = "waiting" => k.attempts < MaxAttempts
      BY <1>2 DEF JobRecord
    <3>4. JobsWellFormed([job EXCEPT ![j] = k])
      BY <1>1, <3>2, <3>3 DEF JobsWellFormed
    <3>5. Thrown(w) = [job EXCEPT ![j] = k]
      BY <1>1, <2>2 DEF Thrown, JobsWellFormed
    <3> QED
      BY <3>4, <3>5
  <2> QED
    BY <2>1, <2>2
<1> QED
  BY <1>3, <1>4

\* A handler moves on to another query.
LEMMA TypeGoto ==
  ASSUME TypeInv, NEW w \in Workers, NEW r \in RunRecord,
         r.pc # "idle" => r.job \in Jobs, Goto(w, r)
  PROVE  TypeInv'
<1>1. RunsWellFormed([run EXCEPT ![w] = r])
  BY RunUpdate DEF TypeInv
<1>2. RunsWellFormed(run')
  BY <1>1 DEF Goto
<1>3. JobsWellFormed(job') /\ OrgTypeOK' /\ ToldTypeOK' /\ SinceTypeOK'
  BY DEF Goto, TypeInv, org, OrgTypeOK, ToldTypeOK, SinceTypeOK
<1> QED
  BY <1>2, <1>3 DEF TypeInv

\* A handler ends.
LEMMA TypeEnd ==
  ASSUME TypeInv, NEW w \in Workers, run[w].pc # "idle", ToldTypeOK',
         run' = [run EXCEPT ![w] = Idle],
         job' = Returned(w) \/ job' = Thrown(w) \/ job' = job, UNCHANGED <<org, since>>
  PROVE  TypeInv'
<1>1. RunsWellFormed([run EXCEPT ![w] = Idle])
  BY RunUpdate, IdleType DEF TypeInv
<1>2. RunsWellFormed(run')
  BY <1>1
<1>3. JobsWellFormed(job')
  <2>1. JobsWellFormed(Returned(w)) /\ JobsWellFormed(Thrown(w)) /\ JobsWellFormed(job)
    BY JobUpdate DEF TypeInv
  <2> QED
    BY <2>1
<1>4. OrgTypeOK' /\ SinceTypeOK'
  BY DEF TypeInv, org, OrgTypeOK, SinceTypeOK
<1> QED
  BY <1>2, <1>3, <1>4 DEF TypeInv

\* The record of a slot that looks for recipients.
LEMMA SearchType ==
  ASSUME TypeInv, NEW w \in Workers, run[w].pc # "idle",
         NEW x \in Roles, NEW d \in Departments \cup {NoDept}
  PROVE  /\ Search(w, x, d) \in RunRecord
         /\ Search(w, x, d).job \in Jobs
         /\ Search(w, x, d).job = run[w].job
         /\ Search(w, x, d).pc = "recipients"
BY DEF TypeInv, RunsWellFormed, Search, RunRecord, Readers

\* A step of a slot preserves the type invariant.
LEMMA TypeHandle ==
  ASSUME TypeInv, NEW w \in Workers, Handle(w)
  PROVE  TypeInv'
<1> DEFINE j == run[w].job
<1>r. run[w] \in RunRecord /\ RunsWellFormed(run) /\ ToldTypeOK
  BY DEF TypeInv, RunsWellFormed
<1>busy. run[w].pc # "idle" => j \in Jobs /\ j[2] \in Requests
  BY <1>r, JobParts DEF RunsWellFormed
<1>1. ASSUME run[w].pc # "idle", Return(w) PROVE TypeInv'
  BY <1>1, TypeEnd DEF Return, TypeInv, ToldTypeOK
<1>2. CASE FetchMissing(w)
  BY <1>1, <1>2 DEF FetchMissing, At
<1>3. CASE Fetch(w)
  <2>1. run[w].pc # "idle"
    BY <1>3 DEF Fetch, At
  <2>2. /\ [run[w] EXCEPT !.pc = "requester"] \in RunRecord
        /\ [run[w] EXCEPT !.pc = "employee"] \in RunRecord
        /\ [run[w] EXCEPT !.pc = "requester"].job = j
        /\ [run[w] EXCEPT !.pc = "employee"].job = j
    BY <1>r DEF RunRecord, Readers
  <2>3. Home[Request(w)] \in Departments \cup {NoDept}
    BY <2>1, <1>busy, ConstantsAssumption DEF Request
  <2>4. "DEPT_HEAD" \in Roles
    BY DEF Roles
  <2>5. PICK r \in RunRecord : r.job \in Jobs /\ Goto(w, r)
    <3>1. CASE run[w].job[1] = "TEAM_LEAD_COMMENTED"
      <4>1. Goto(w, Search(w, "DEPT_HEAD", Home[Request(w)]))
        BY <1>3, <3>1 DEF Fetch
      <4>2. /\ Search(w, "DEPT_HEAD", Home[Request(w)]) \in RunRecord
            /\ Search(w, "DEPT_HEAD", Home[Request(w)]).job \in Jobs
        BY <2>1, <2>3, <2>4, SearchType
      <4> QED
        BY <4>1, <4>2
    <3>2. CASE run[w].job[1] = "DEPT_APPROVED"
      BY <1>3, <3>2, <2>1, <2>2, <1>busy DEF Fetch
    <3>3. CASE run[w].job[1] \notin {"TEAM_LEAD_COMMENTED", "DEPT_APPROVED"}
      BY <1>3, <3>3, <2>1, <2>2, <1>busy DEF Fetch
    <3> QED
      BY <3>1, <3>2, <3>3
  <2> QED
    BY <2>5, TypeGoto
<1>4. CASE NotifyEmployee(w)
  <2>1. run[w].pc # "idle" /\ j \in Jobs /\ j[2] \in Requests
    BY <1>4, <1>busy DEF NotifyEmployee, At
  <2>2. Owner[j[2]] \in Users /\ Home[j[2]] \in Departments \cup {NoDept}
    BY <2>1, ConstantsAssumption
  <2>3. told' = [told EXCEPT ![j][Owner[j[2]]] = told[j][Owner[j[2]]] + 1]
    BY <1>4 DEF NotifyEmployee
  <2>4. ToldTypeOK'
    BY <1>r, <2>1, <2>2, <2>3 DEF ToldTypeOK
  <2>5. CASE run' = [run EXCEPT ![w] = Idle] /\ job' = Returned(w)
    BY <1>4, <2>1, <2>4, <2>5, TypeEnd DEF NotifyEmployee
  <2> DEFINE s == Search(w, "TEAM_LEAD", Home[j[2]])
  <2>6. s \in RunRecord /\ s.job \in Jobs /\ s.pc = "recipients"
    BY <2>1, <2>2, SearchType DEF Roles
  <2>7. s # Idle
    BY <2>6, IdleType
  <2>8. CASE run' = [run EXCEPT ![w] = s] /\ job' = job
    <3>1. RunsWellFormed([run EXCEPT ![w] = s])
      BY <1>r, <2>6, RunUpdate
    <3>2. RunsWellFormed(run') /\ JobsWellFormed(job') /\ OrgTypeOK' /\ SinceTypeOK'
      BY <1>4, <2>8, <3>1 DEF NotifyEmployee, TypeInv, org, OrgTypeOK, SinceTypeOK
    <3> QED
      BY <2>4, <3>2 DEF TypeInv
  <2> QED
    BY <1>4, <2>5, <2>7, <2>8 DEF NotifyEmployee
<1>5. CASE ReadRequester(w)
  <2>1. run[w].pc # "idle"
    BY <1>5 DEF ReadRequester, At
  <2>2. /\ [run[w] EXCEPT !.pc = "tenant"] \in RunRecord
        /\ [run[w] EXCEPT !.pc = "tenant"].job = j
    BY <1>r DEF RunRecord, Readers
  <2>3. /\ Search(w, "TENANT_ADMIN", NoDept) \in RunRecord
        /\ Search(w, "TENANT_ADMIN", NoDept).job \in Jobs
    BY <2>1, SearchType DEF Roles
  <2>4. PICK r \in RunRecord : r.job \in Jobs /\ Goto(w, r)
    BY <1>5, <2>1, <2>2, <2>3, <1>busy DEF ReadRequester
  <2> QED
    BY <2>4, TypeGoto
<1>6. CASE ReadTenantNone(w)
  BY <1>1, <1>6 DEF ReadTenantNone, At
<1>7. CASE ReadTenant(w)
  <2>1. run[w].pc # "idle" /\ Goto(w, Search(w, "HR_ADMIN", hrDept))
    BY <1>7 DEF ReadTenant, At
  <2>2. hrDept \in Departments \cup {NoDept} /\ "HR_ADMIN" \in Roles
    BY DEF TypeInv, OrgTypeOK, Roles
  <2>3. /\ Search(w, "HR_ADMIN", hrDept) \in RunRecord
        /\ Search(w, "HR_ADMIN", hrDept).job \in Jobs
    BY <2>1, <2>2, SearchType
  <2> QED
    BY <2>1, <2>3, TypeGoto
<1>8. CASE FindNobody(w)
  BY <1>1, <1>8 DEF FindNobody, At
<1>9. CASE FindRecipients(w)
  <2> DEFINE r == [run[w] EXCEPT !.pc = "reviewers", !.todo = Recipients(w)]
  <2>1. run[w].pc # "idle" /\ Goto(w, r)
    BY <1>9 DEF FindRecipients, At
  <2>2. r \in RunRecord /\ r.job = j
    BY <1>r DEF RunRecord, Recipients
  <2> QED
    BY <2>1, <2>2, <1>busy, TypeGoto
<1>10. ASSUME NEW u \in Users, NotifyReviewer(w, u) PROVE TypeInv'
  <2> DEFINE rest == run[w].todo \ {u}
             r == [run[w] EXCEPT !.todo = rest]
  <2>1. run[w].pc = "reviewers" /\ j \in Jobs
    BY <1>10, <1>busy DEF NotifyReviewer, Tell, At
  <2>2. told' = [told EXCEPT ![j][u] = told[j][u] + 1]
    BY <1>10 DEF NotifyReviewer, Tell
  <2>3. ToldTypeOK'
    BY <1>r, <2>1, <2>2 DEF ToldTypeOK
  <2>4. CASE rest = {}
    <3>1. run' = [run EXCEPT ![w] = Idle] /\ job' = Returned(w) /\ UNCHANGED <<org, since>>
      BY <1>10, <2>4 DEF NotifyReviewer, Tell
    <3> QED
      BY <2>1, <2>3, <3>1, TypeEnd
  <2>5. CASE rest # {}
    <3>1. run' = [run EXCEPT ![w] = r] /\ job' = job /\ UNCHANGED <<org, since>>
      BY <1>10, <1>r, <2>5 DEF NotifyReviewer, Tell, RunsWellFormed
    <3>2. r \in RunRecord /\ r.job = j
      BY <1>r DEF RunRecord
    <3>3. RunsWellFormed([run EXCEPT ![w] = r])
      BY <1>r, <2>1, <3>2, RunUpdate
    <3>4. RunsWellFormed(run') /\ JobsWellFormed(job') /\ OrgTypeOK' /\ SinceTypeOK'
      BY <3>1, <3>3 DEF TypeInv, org, OrgTypeOK, SinceTypeOK
    <3> QED
      BY <2>3, <3>4 DEF TypeInv
  <2> QED
    BY <2>4, <2>5
<1>11. CASE ReadFails(w)
  <2>1. run[w].pc # "idle"
    BY <1>11 DEF ReadFails, Readers
  <2> QED
    BY <1>11, <2>1, TypeEnd DEF ReadFails, TypeInv, ToldTypeOK
<1> QED
  BY <1>2, <1>3, <1>4, <1>5, <1>6, <1>7, <1>8, <1>9, <1>10, <1>11 DEF Handle

\* A step of the queue or of the organisation preserves it too.
LEMMA TypeNext ==
  ASSUME TypeInv, [Next]_vars
  PROVE  TypeInv'
<1>1. CASE UNCHANGED vars
  BY <1>1 DEF TypeInv, OrgTypeOK, ToldTypeOK, SinceTypeOK, JobsWellFormed, RunsWellFormed, vars, org
<1>2. ASSUME NEW w \in Workers, Handle(w) PROVE TypeInv'
  BY <1>2, TypeHandle
<1>3. ASSUME NEW j \in Jobs, NEW k \in JobRecord, job' = [job EXCEPT ![j] = k],
             k.state \in {"none", "waiting", "active"} => k.attempts < MaxAttempts,
             k.lock # NoWorker => k.state = "active",
             UNCHANGED org, told' = told, SinceTypeOK', RunsWellFormed(run')
      PROVE  TypeInv'
  <2>1. JobsWellFormed([job EXCEPT ![j] = k])
    BY <1>3 DEF TypeInv, JobsWellFormed
  <2>2. JobsWellFormed(job')
    BY <1>3, <2>1
  <2> QED
    BY <1>3, <2>2 DEF TypeInv, OrgTypeOK, ToldTypeOK, org
<1>4. ASSUME NEW j \in Jobs, Add(j) \/ Stall(j) PROVE TypeInv'
  <2>1. job[j] \in JobRecord /\ job \in [Jobs -> JobRecord]
    BY DEF TypeInv, JobsWellFormed
  <2>2. job[j].state \in {"none", "waiting", "active"} => job[j].attempts < MaxAttempts
    BY DEF TypeInv, JobsWellFormed
  <2>3. RunsWellFormed(run') /\ told' = told /\ UNCHANGED org
    BY <1>4 DEF Add, Stall, TypeInv
  <2>s. SinceTypeOK'
    <3>1. CASE Add(j)
      <4>1. since' = [since EXCEPT ![j] = FromNow(j)] /\ UNCHANGED org
        BY <3>1 DEF Add
      <4>2. SinceTypeOK /\ orgChanges \in Nat
        BY ConstantsAssumption DEF TypeInv, OrgTypeOK
      <4> QED
        BY <4>1, <4>2, FromNowType DEF SinceTypeOK, org
    <3>2. CASE Stall(j)
      BY <3>2 DEF Stall, TypeInv, SinceTypeOK, org
    <3> QED
      BY <1>4, <3>1, <3>2
  <2>4. CASE Add(j)
    <3> DEFINE k == [job[j] EXCEPT !.state = "waiting"]
    <3>1. k \in JobRecord /\ k.state = "waiting" /\ k.attempts = job[j].attempts
          /\ k.lock = job[j].lock
      BY <2>1 DEF JobRecord
    <3>2. job[j].state = "none" /\ job[j].lock = NoWorker
      BY <2>4 DEF Add, TypeInv, JobsWellFormed
    <3>3. job' = [job EXCEPT ![j] = k]
      BY <2>1, <2>4 DEF Add
    <3> QED
      BY <1>3, <2>2, <2>3, <2>s, <3>1, <3>2, <3>3
  <2>5. CASE Stall(j)
    <3> DEFINE a == [job[j] EXCEPT !.state = "waiting", !.lock = NoWorker,
                                   !.stalls = job[j].stalls + 1]
               b == [job[j] EXCEPT !.state = "failed", !.lock = NoWorker]
    <3>1. job[j].stalls < MaxStalls =>
            a \in JobRecord /\ a.lock = NoWorker /\ a.attempts = job[j].attempts
      <4>1. job[j].stalls \in 0 .. MaxStalls /\ MaxStalls \in Nat
        BY <2>1, ConstantsAssumption DEF JobRecord
      <4>2. job[j].stalls < MaxStalls => job[j].stalls + 1 \in 0 .. MaxStalls
        BY <4>1
      <4> QED
        BY <2>1, <4>2 DEF JobRecord
    <3>2. b \in JobRecord /\ b.lock = NoWorker /\ b.state = "failed"
      BY <2>1 DEF JobRecord
    <3>3. /\ job[j].stalls < MaxStalls => job' = [job EXCEPT ![j] = a]
          /\ ~(job[j].stalls < MaxStalls) => job' = [job EXCEPT ![j] = b]
      BY <2>1, <2>5 DEF Stall
    <3>4. job[j].state = "active"
      BY <2>5 DEF Stall
    <3> QED
      BY <1>3, <2>2, <2>3, <2>s, <3>1, <3>2, <3>3, <3>4
  <2> QED
    BY <1>4, <2>4, <2>5
<1>5. ASSUME NEW w \in Workers, NEW j \in Jobs, Take(w, j) PROVE TypeInv'
  <2> DEFINE k == [job[j] EXCEPT !.state = "active", !.lock = w]
             r == [Idle EXCEPT !.pc = "fetch", !.job = j]
  <2>1. job[j] \in JobRecord /\ job \in [Jobs -> JobRecord]
    BY DEF TypeInv, JobsWellFormed
  <2>2. k \in JobRecord /\ k.state = "active" /\ k.attempts = job[j].attempts
    BY <2>1 DEF JobRecord
  <2>3. job[j].state = "waiting" /\ job[j].attempts < MaxAttempts
    BY <1>5 DEF Take, TypeInv, JobsWellFormed
  <2>4. job' = [job EXCEPT ![j] = k]
    BY <1>5, <2>1 DEF Take
  <2>5. r \in RunRecord /\ r.job = j
    BY DEF Idle, RunRecord, Readers
  <2>6. RunsWellFormed([run EXCEPT ![w] = r])
    BY <2>5, RunUpdate DEF TypeInv
  <2>7. RunsWellFormed(run') /\ told' = told /\ UNCHANGED org /\ SinceTypeOK'
    BY <1>5, <2>6 DEF Take, TypeInv, SinceTypeOK, org
  <2> QED
    BY <1>3, <2>2, <2>3, <2>4, <2>7
<1>6. ASSUME NEW w \in Workers, WorkerDies(w) PROVE TypeInv'
  BY <1>6, TypeEnd DEF WorkerDies, TypeInv, ToldTypeOK
<1>7. CASE OrgStep
  <2>0. Reorganise
    BY <1>7 DEF OrgStep, ChangeUser, ChangeHrDepartment, RemoveDepartment, RemovePolicy
  <2>1. OrgTypeOK'
    <3>1. orgChanges' \in 0 .. MaxOrgChanges
      BY <2>0, ConstantsAssumption DEF Reorganise, TypeInv, OrgTypeOK
    <3>2. ASSUME NEW m \in Moves, ChangeUser(m[1], m[2], m[3]) PROVE OrgTypeOK'
      <4>1. m[1] \in Users /\ m[2] \in Roles /\ m[3] \in Departments \cup {NoDept}
        BY ConstantsAssumption
      <4> QED
        BY <3>1, <3>2, <4>1 DEF ChangeUser, TypeInv, OrgTypeOK
    <3>3. ASSUME NEW d \in Departments \cup {NoDept}, ChangeHrDepartment(d) PROVE OrgTypeOK'
      BY <3>1, <3>3 DEF ChangeHrDepartment, TypeInv, OrgTypeOK
    <3>4. ASSUME NEW d \in Departments, RemoveDepartment(d) PROVE OrgTypeOK'
      BY <3>1, <3>4 DEF RemoveDepartment, TypeInv, OrgTypeOK
    <3>5. ASSUME NEW gone \in SUBSET Requests, RemovePolicy(gone) PROVE OrgTypeOK'
      BY <3>1, <3>5 DEF RemovePolicy, TypeInv, OrgTypeOK
    <3> QED
      BY <1>7, <3>2, <3>3, <3>4, <3>5 DEF OrgStep
  <2>2. SinceTypeOK'
    <3>1. orgChanges \in Nat /\ MaxOrgChanges \in Nat /\ orgChanges < MaxOrgChanges
          /\ orgChanges' = orgChanges + 1
      BY <2>0, ConstantsAssumption DEF Reorganise, TypeInv, OrgTypeOK
    <3> SUFFICES ASSUME NEW j \in Jobs
                 PROVE  since'[j] \in SinceRecord /\ since'[j].moves <= orgChanges'
      BY <2>0 DEF SinceTypeOK, Reorganise
    <3>2. /\ since'[j] = [steady |-> since[j].steady \cap Reviewers(j)',
                          ever |-> since[j].ever \cup Reviewers(j)',
                          moves |-> since[j].moves + 1]
          /\ Reviewers(j)' \subseteq Users
      BY <2>0 DEF Reorganise, Reviewers
    <3>3. since[j] \in SinceRecord /\ since[j].moves <= orgChanges
      BY DEF TypeInv, SinceTypeOK
    <3>4. since[j].moves \in Nat /\ since[j].steady \subseteq Users /\ since[j].ever \subseteq Users
      BY <3>3, ConstantsAssumption DEF SinceRecord
    <3>5. since[j].moves + 1 \in 0 .. MaxOrgChanges /\ since[j].moves + 1 <= orgChanges'
      BY <3>1, <3>3, <3>4
    <3> QED
      BY <3>2, <3>4, <3>5 DEF SinceRecord
  <2>3. ToldTypeOK' /\ JobsWellFormed(job') /\ RunsWellFormed(run')
    BY <2>0 DEF Reorganise, TypeInv, ToldTypeOK
  <2> QED
    BY <2>1, <2>2, <2>3 DEF TypeInv
<1> QED
  BY <1>1, <1>2, <1>4, <1>5, <1>6, <1>7 DEF Next, Work

LEMMA TypeInvariant == Spec => []TypeInv
BY TypeInit, TypeNext, PTL DEF Spec

\* Every column, job and slot keeps its type, attempts and stalls their
\* bounds: the queue never runs a job oftener than it is configured to.
THEOREM TypeCorrect == Spec => []TypeOK
<1>1. TypeInv => TypeOK
  BY DEF TypeInv, TypeOK, OrgTypeOK, ToldTypeOK, SinceTypeOK, JobsWellFormed, RunsWellFormed
<1> QED
  BY <1>1, TypeInvariant, PTL

-----------------------------------------------------------------------------
(* Retries do not repeat themselves.  How often a reviewer may still hear   *)
(* of a job is the number of slots that run it and have the reviewer ahead  *)
(* of them, whether or not they still hold the lock, and one more if the    *)
(* job is queued.  Only a stall raises the sum.                             *)

Due(j, u) ==
  {w \in Workers : /\ run[w].pc # "idle" /\ run[w].job = j
                   /\ run[w].pc = "reviewers" => u \in run[w].todo}

Queued(j) == IF job[j].state \in {"none", "waiting"} THEN 1 ELSE 0

RetriesBounded ==
  \A j \in Jobs, u \in Users :
    u # Owner[j[2]]
      => told[j][u] + Cardinality(Due(j, u)) + Queued(j) <= 1 + job[j].stalls

\* How the size of a finite set follows its changes.
LEMMA SizeOfPart ==
  ASSUME NEW S, IsFiniteSet(S), NEW T, T \subseteq S
  PROVE  Cardinality(T) \in Nat /\ Cardinality(S) \in Nat /\ Cardinality(T) <= Cardinality(S)
BY FS_Subset, FS_CardinalityType

LEMMA SizeWithout ==
  ASSUME NEW S, IsFiniteSet(S), NEW x \in S, NEW T, T \subseteq S \ {x}
  PROVE  Cardinality(T) \in Nat /\ Cardinality(S) \in Nat /\ Cardinality(T) + 1 <= Cardinality(S)
<1>1. IsFiniteSet(S \ {x}) /\ Cardinality(S \ {x}) = Cardinality(S) - 1
  BY FS_RemoveElement
<1> QED
  BY <1>1, SizeOfPart, FS_CardinalityType

LEMMA SizeWith ==
  ASSUME NEW S, IsFiniteSet(S), NEW x, NEW T, T \subseteq S \cup {x}
  PROVE  Cardinality(T) \in Nat /\ Cardinality(S) \in Nat /\ Cardinality(T) <= Cardinality(S) + 1
<1>0. IsFiniteSet(S \cup {x}) /\ Cardinality(S) \in Nat
      /\ Cardinality(S \cup {x}) = IF x \in S THEN Cardinality(S) ELSE Cardinality(S) + 1
  BY FS_AddElement, FS_CardinalityType
<1>1. IsFiniteSet(S \cup {x}) /\ Cardinality(S \cup {x}) <= Cardinality(S) + 1
  BY <1>0
<1> QED
  BY <1>1, SizeOfPart, FS_CardinalityType

LEMMA DueFinite ==
  ASSUME NEW j, NEW u
  PROVE  IsFiniteSet(Due(j, u))
BY ConstantsAssumption, FS_Subset DEF Due

\* Ending a handler changes no stalls, and queues only the job it threw for.
LEMMA JobAfter ==
  ASSUME TypeInv, NEW w \in Workers, run[w].pc # "idle", NEW j \in Jobs
  PROVE  /\ Returned(w)[j].stalls = job[j].stalls
         /\ Returned(w)[j].state \in {job[j].state, "completed"}
         /\ Thrown(w)[j].stalls = job[j].stalls
         /\ \/ Thrown(w)[j].state = job[j].state
            \/ run[w].job = j /\ job[j].state = "active"
<1>1. run[w].job \in Jobs /\ job \in [Jobs -> JobRecord]
  BY DEF TypeInv, RunsWellFormed, JobsWellFormed
<1>2. job[run[w].job].lock = w => job[run[w].job].state = "active"
  BY <1>1, ConstantsAssumption DEF TypeInv, JobsWellFormed
<1>3. job[j] \in JobRecord
  BY <1>1
<1>4. CASE run[w].job = j
  BY <1>1, <1>2, <1>3, <1>4 DEF Returned, Thrown, JobRecord
<1>5. CASE run[w].job # j
  BY <1>1, <1>3, <1>5 DEF Returned, Thrown
<1> QED
  BY <1>4, <1>5

LEMMA RetriesInit == Init => RetriesBounded
<1> SUFFICES ASSUME Init, NEW j \in Jobs, NEW u \in Users
             PROVE  told[j][u] + Cardinality(Due(j, u)) + Queued(j) <= 1 + job[j].stalls
  BY DEF RetriesBounded
<1>1. Due(j, u) = {}
  BY DEF Init, Due, Idle
<1>2. Cardinality(Due(j, u)) = 0
  BY <1>1, FS_EmptySet
<1>3. told[j][u] = 0 /\ job[j].state = "none" /\ job[j].stalls = 0
  BY DEF Init
<1> QED
  BY <1>2, <1>3 DEF Queued

LEMMA RetriesNext ==
  ASSUME TypeInv, RetriesBounded, [Next]_vars
  PROVE  RetriesBounded'
<1> SUFFICES ASSUME NEW j \in Jobs, NEW u \in Users, u # Owner[j[2]]
             PROVE  told'[j][u] + Cardinality(Due(j, u)') + Queued(j)' <= 1 + job'[j].stalls
  BY DEF RetriesBounded
<1> DEFINE D == Due(j, u)
           n == Cardinality(Due(j, u))
           m == Cardinality(Due(j, u)')
<1>f. IsFiniteSet(D)
  BY DueFinite
<1>n. n \in Nat /\ told[j][u] \in Nat /\ job[j].stalls \in Nat /\ Queued(j) \in {0, 1}
  BY <1>f, FS_CardinalityType, ConstantsAssumption
     DEF TypeInv, ToldTypeOK, JobsWellFormed, JobRecord, Queued
<1>b. told[j][u] + n + Queued(j) <= 1 + job[j].stalls
  BY DEF RetriesBounded
<1>r. run \in [Workers -> RunRecord] /\ job \in [Jobs -> JobRecord]
      /\ told \in [Jobs -> [Users -> Nat]]
  BY DEF TypeInv, RunsWellFormed, JobsWellFormed, ToldTypeOK
<1> HIDE DEF D, n, m
<1> SUFFICES told'[j][u] + m + Queued(j)' <= 1 + job'[j].stalls
  BY DEF m
\* Four facts of a step decide: nobody new is told, no slot is added, the job
\* is not queued anew and not stalled.
<1>1. ASSUME told'[j][u] = told[j][u], Due(j, u)' \subseteq Due(j, u),
             Queued(j)' <= Queued(j), job'[j].stalls = job[j].stalls, Queued(j)' \in {0, 1}
      PROVE  told'[j][u] + m + Queued(j)' <= 1 + job'[j].stalls
  <2>1. m \in Nat /\ m <= n
    BY <1>1, <1>f, SizeOfPart DEF D, n, m
  <2> QED
    BY <1>1, <1>n, <1>b, <2>1
<1>q. Queued(j)' \in {0, 1}
  BY DEF Queued
<1>2. ASSUME job'[j].state \in {job[j].state, "completed"} PROVE Queued(j)' <= Queued(j)
  BY <1>2 DEF Queued
\* A slot goes to another query, or gives up, before it has told a reviewer.
<1>3. ASSUME NEW w \in Workers, NEW r, run' = [run EXCEPT ![w] = r],
             \/ r.pc = "idle"
             \/ r.job = run[w].job /\ run[w].pc \notin {"idle", "reviewers"}
      PROVE  Due(j, u)' \subseteq Due(j, u)
  BY <1>3, <1>r DEF Due
<1>4. ASSUME NEW w \in Workers, NEW r, Goto(w, r),
             r.job = run[w].job, run[w].pc \notin {"idle", "reviewers"}
      PROVE  told'[j][u] + m + Queued(j)' <= 1 + job'[j].stalls
  BY <1>1, <1>2, <1>3, <1>4, <1>q, <1>n DEF Goto
<1>5. ASSUME NEW w \in Workers, run[w].pc # "idle", told'[j][u] = told[j][u],
             run' = [run EXCEPT ![w] = Idle], job' = Returned(w) \/ job' = job
      PROVE  told'[j][u] + m + Queued(j)' <= 1 + job'[j].stalls
  <2>1. Due(j, u)' \subseteq Due(j, u)
    BY <1>3, <1>5, IdleType
  <2>2. job'[j].stalls = job[j].stalls /\ job'[j].state \in {job[j].state, "completed"}
    BY <1>5, JobAfter
  <2> QED
    BY <1>1, <1>2, <1>5, <1>q, <2>1, <2>2
<1>6. CASE UNCHANGED vars
  BY <1>1, <1>2, <1>6, <1>q DEF vars, Due
<1>7. ASSUME NEW i \in Jobs, Add(i) PROVE told'[j][u] + m + Queued(j)' <= 1 + job'[j].stalls
  <2>1. Due(j, u)' \subseteq Due(j, u) /\ told'[j][u] = told[j][u]
    BY <1>7 DEF Add, Due
  <2>2. job'[j].stalls = job[j].stalls /\ Queued(j)' <= Queued(j)
    BY <1>7, <1>r DEF Add, Queued, JobRecord
  <2> QED
    BY <1>1, <1>q, <2>1, <2>2
<1>8. ASSUME NEW i \in Jobs, Stall(i) PROVE told'[j][u] + m + Queued(j)' <= 1 + job'[j].stalls
  <2>1. Due(j, u)' \subseteq Due(j, u) /\ told'[j][u] = told[j][u]
    BY <1>8 DEF Stall, Due
  <2>2. CASE job'[j].stalls = job[j].stalls /\ Queued(j)' <= Queued(j)
    BY <1>1, <1>q, <2>1, <2>2
  <2>3. CASE job'[j].stalls = job[j].stalls + 1 /\ Queued(j) = 0
    <3>1. m \in Nat /\ m <= n
      BY <2>1, <1>f, SizeOfPart DEF D, n, m
    <3> QED
      BY <1>n, <1>b, <1>q, <2>1, <2>3, <3>1
  <2>4. CASE i = j
    BY <1>8, <1>r, <2>2, <2>3, <2>4 DEF Stall, Queued, JobRecord
  <2>5. CASE i # j
    BY <1>8, <1>r, <2>2, <2>5 DEF Stall, Queued
  <2> QED
    BY <2>4, <2>5
<1>9. ASSUME NEW w \in Workers, NEW i \in Jobs, Take(w, i)
      PROVE  told'[j][u] + m + Queued(j)' <= 1 + job'[j].stalls
  <2>1. told'[j][u] = told[j][u]
    BY <1>9 DEF Take
  <2>2. CASE i = j
    <3>1. Due(j, u)' \subseteq Due(j, u) \cup {w}
      BY <1>9, <1>r DEF Take, Due
    <3>2. m \in Nat /\ m <= n + 1
      BY <3>1, <1>f, SizeWith DEF D, n, m
    <3>3. Queued(j) = 1 /\ Queued(j)' = 0 /\ job'[j].stalls = job[j].stalls
      BY <1>9, <1>r, <2>2 DEF Take, Queued, JobRecord
    <3> QED
      BY <1>n, <1>b, <2>1, <3>2, <3>3
  <2>3. CASE i # j
    <3>1. Due(j, u)' \subseteq Due(j, u)
      BY <1>9, <1>r, <2>3 DEF Take, Due, Idle
    <3>2. job'[j] = job[j]
      BY <1>9, <1>r, <2>3 DEF Take
    <3> QED
      BY <1>1, <1>2, <1>q, <2>1, <3>1, <3>2
  <2> QED
    BY <2>2, <2>3
<1>10. ASSUME NEW w \in Workers, WorkerDies(w)
       PROVE  told'[j][u] + m + Queued(j)' <= 1 + job'[j].stalls
  BY <1>5, <1>10 DEF WorkerDies
<1>11. ASSUME NEW w \in Workers, ReadFails(w)
       PROVE  told'[j][u] + m + Queued(j)' <= 1 + job'[j].stalls
  <2>1. /\ run[w].pc \notin {"idle", "reviewers"} /\ told' = told
        /\ run' = [run EXCEPT ![w] = Idle] /\ job' = Thrown(w)
    BY <1>11 DEF ReadFails, Readers
  <2>2. Due(j, u)' \subseteq Due(j, u)
    BY <1>3, <2>1, IdleType
  <2>3. CASE job'[j].state = job[j].state
    BY <1>1, <1>2, <1>q, <2>1, <2>2, <2>3, JobAfter
  <2>4. CASE run[w].job = j /\ job[j].state = "active"
    <3>1. w \in Due(j, u) /\ Due(j, u)' \subseteq Due(j, u) \ {w}
      BY <1>r, <2>1, <2>2, <2>4, IdleType DEF Due
    <3>2. m \in Nat /\ m + 1 <= n
      BY <3>1, <1>f, SizeWithout DEF D, n, m
    <3>3. job'[j].stalls = job[j].stalls
      BY <2>1, JobAfter
    <3> QED
      BY <1>n, <1>b, <1>q, <2>1, <3>2, <3>3
  <2> QED
    BY <2>1, <2>3, <2>4, JobAfter
<1>12. ASSUME NEW w \in Workers, NotifyEmployee(w)
       PROVE  told'[j][u] + m + Queued(j)' <= 1 + job'[j].stalls
  <2>1. run[w].pc = "employee"
    BY <1>12 DEF NotifyEmployee, At
  <2>2. told'[j][u] = told[j][u]
    BY <1>12, <1>r DEF NotifyEmployee
  <2>3. CASE run' = [run EXCEPT ![w] = Idle] /\ job' = Returned(w)
    BY <1>5, <2>1, <2>2, <2>3
  <2> DEFINE s == Search(w, "TEAM_LEAD", Home[run[w].job[2]])
  <2>4. s.job = run[w].job /\ s # Idle
    BY <1>r, IdleType DEF Search, RunRecord
  <2>5. CASE run' = [run EXCEPT ![w] = s] /\ job' = job
    <3>1. Due(j, u)' \subseteq Due(j, u)
      BY <1>3, <2>1, <2>4, <2>5
    <3> QED
      BY <1>1, <1>2, <1>q, <2>2, <2>5, <3>1
  <2> QED
    BY <1>12, <2>3, <2>4, <2>5 DEF NotifyEmployee
<1>13. ASSUME NEW w \in Workers, NEW v \in Users, NotifyReviewer(w, v)
       PROVE  told'[j][u] + m + Queued(j)' <= 1 + job'[j].stalls
  <2> DEFINE rest == run[w].todo \ {v}
  <2>1. /\ run[w].pc = "reviewers" /\ v \in run[w].todo
        /\ told' = [told EXCEPT ![run[w].job][v] = @ + 1]
        /\ job' = Returned(w) \/ job' = job
        /\ \/ run' = [run EXCEPT ![w] = Idle] /\ rest = {}
           \/ run' = [run EXCEPT ![w] = [@ EXCEPT !.todo = rest]]
    BY <1>13 DEF NotifyReviewer, Tell, At
  <2>2. Due(j, u)' \subseteq Due(j, u)
    <3>1. run[w].pc # "idle" /\ run[w] \in RunRecord
      BY <1>r, <2>1
    <3>2. CASE run' = [run EXCEPT ![w] = Idle]
      BY <1>3, <3>2, IdleType
    <3>3. CASE run' = [run EXCEPT ![w] = [@ EXCEPT !.todo = rest]]
      <4>1. /\ run'[w].pc = "reviewers" /\ run'[w].job = run[w].job /\ run'[w].todo = rest
            /\ \A x \in Workers \ {w} : run'[x] = run[x]
        BY <1>r, <2>1, <3>1, <3>3 DEF RunRecord
      <4> QED
        BY <2>1, <4>1 DEF Due
    <3> QED
      BY <2>1, <3>2, <3>3
  <2>3. job'[j].stalls = job[j].stalls /\ Queued(j)' <= Queued(j)
    BY <1>2, <2>1, JobAfter
  <2>4. CASE run[w].job = j /\ v = u
    <3>1. w \in Due(j, u) /\ Due(j, u)' \subseteq Due(j, u) \ {w}
      BY <1>r, <2>1, <2>2, <2>4, IdleType DEF Due, RunRecord
    <3>2. m \in Nat /\ m + 1 <= n
      BY <3>1, <1>f, SizeWithout DEF D, n, m
    <3>3. told'[j][u] = told[j][u] + 1
      BY <1>r, <2>1, <2>4
    <3> QED
      BY <1>n, <1>b, <1>q, <2>3, <3>2, <3>3
  <2>5. CASE ~(run[w].job = j /\ v = u)
    <3>1. told'[j][u] = told[j][u]
      BY <1>r, <2>1, <2>5
    <3> QED
      BY <1>1, <1>q, <2>2, <2>3, <3>1
  <2> QED
    BY <2>4, <2>5
<1>14. ASSUME NEW w \in Workers, Handle(w)
       PROVE  told'[j][u] + m + Queued(j)' <= 1 + job'[j].stalls
  <2>1. ASSUME run[w].pc # "idle", Return(w)
        PROVE  told'[j][u] + m + Queued(j)' <= 1 + job'[j].stalls
    BY <1>5, <2>1 DEF Return
  <2>2. CASE FetchMissing(w)
    BY <2>1, <2>2 DEF FetchMissing, At
  <2>3. CASE Fetch(w)
    BY <1>4, <1>r, <2>3 DEF Fetch, At, Search, RunRecord
  <2>4. CASE ReadRequester(w)
    BY <1>4, <1>r, <2>4 DEF ReadRequester, At, Search, RunRecord
  <2>5. CASE ReadTenantNone(w)
    BY <2>1, <2>5 DEF ReadTenantNone, At
  <2>6. CASE ReadTenant(w)
    BY <1>4, <1>r, <2>6 DEF ReadTenant, At, Search, RunRecord
  <2>7. CASE FindNobody(w)
    BY <2>1, <2>7 DEF FindNobody, At
  <2>8. CASE FindRecipients(w)
    BY <1>4, <1>r, <2>8 DEF FindRecipients, At, RunRecord
  <2> QED
    BY <1>11, <1>12, <1>13, <1>14, <2>2, <2>3, <2>4, <2>5, <2>6, <2>7, <2>8 DEF Handle
<1>15. CASE OrgStep
  <2>1. UNCHANGED <<job, run, told>>
    BY <1>15 DEF OrgStep, ChangeUser, ChangeHrDepartment, RemoveDepartment, RemovePolicy, Reorganise
  <2>2. Due(j, u)' \subseteq Due(j, u)
    BY <2>1 DEF Due
  <2> QED
    BY <1>1, <1>2, <1>q, <2>1, <2>2
<1> QED
  BY <1>6, <1>7, <1>8, <1>9, <1>10, <1>14, <1>15 DEF Next, Work

\* Retries never repeat a message to a reviewer: everybody but the owner of
\* the request is told at most once, and once more for every lock the queue
\* took away from a slot.
THEOREM RetriesSpareReviewers == Spec => []ReviewersToldOnce
<1>1. Spec => []RetriesBounded
  BY RetriesInit, RetriesNext, TypeInvariant, PTL DEF Spec
<1>2. TypeInv /\ RetriesBounded => ReviewersToldOnce
  <2> SUFFICES ASSUME TypeInv, RetriesBounded, NEW j \in Jobs, NEW u \in Users,
                      u # Owner[j[2]]
               PROVE  told[j][u] <= 1 + job[j].stalls
    BY DEF ReviewersToldOnce
  <2>1. Cardinality(Due(j, u)) \in Nat
    BY DueFinite, FS_CardinalityType
  <2>2. told[j][u] \in Nat /\ job[j].stalls \in Nat /\ Queued(j) \in {0, 1}
    BY ConstantsAssumption DEF TypeInv, ToldTypeOK, JobsWellFormed, JobRecord, Queued
  <2>3. told[j][u] + Cardinality(Due(j, u)) + Queued(j) <= 1 + job[j].stalls
    BY DEF RetriesBounded
  <2> QED
    BY <2>1, <2>2, <2>3
<1> QED
  BY <1>1, <1>2, TypeInvariant, PTL
-----------------------------------------------------------------------------
(* Whom a job tells.  f, g and t are the jobs, the slots and the counts of  *)
(* those told.                                                              *)

\* Who may act on a job's stage, whether or not the request still exists.
Entitled(j) == {u \in Users : MayActOn(j, u) /\ (role[u] = "HR_ADMIN" => hrDept # NoDept)}

\* The users a search finds, and the searches there are.
Matches(k, u) == role[u] = k.role /\ (k.dept # NoDept => dept[u] = k.dept)

StageSearch(k) ==
  \/ k.job[1] = "SUBMITTED" /\ k.role = "TEAM_LEAD" /\ k.dept = Home[k.job[2]]
  \/ k.job[1] = "TEAM_LEAD_COMMENTED" /\ k.role = "DEPT_HEAD" /\ k.dept = Home[k.job[2]]
  \/ k.job[1] = "DEPT_APPROVED" /\ k.role = "TENANT_ADMIN" /\ k.dept = NoDept
  \/ k.job[1] = "DEPT_APPROVED" /\ k.role = "HR_ADMIN" /\ k.dept # NoDept

\* What the search was made from is still so.
AsNow(k) ==
  k.job[1] = "DEPT_APPROVED" =>
    IF role[Owner[k.job[2]]] = "HR_ADMIN"
      THEN k.role = "TENANT_ADMIN"
      ELSE k.role = "HR_ADMIN" /\ k.dept = hrDept

\* What a slot has read so far leads to every steady reviewer and, while the
\* organisation moved at most once, to nobody who never was one.
Early(k) == since[k.job].moves <= 1

FetchedRight(k) ==
  /\ since[k.job].moves = 0 => k.job[2] \in present
  /\ Early(k) => Entitled(k.job) \subseteq since[k.job].ever

TenantRight(k) ==
  /\ k.job[1] = "DEPT_APPROVED"
  /\ \A u \in since[k.job].steady : role[u] = "HR_ADMIN"
  /\ since[k.job].moves = 0 => role[Owner[k.job[2]]] # "HR_ADMIN"
  /\ Early(k) /\ hrDept # NoDept =>
       \A u \in Users \ {Owner[k.job[2]]} :
         role[u] = "HR_ADMIN" /\ dept[u] = hrDept => u \in since[k.job].ever

SearchRight(k) ==
  /\ StageSearch(k)
  /\ since[k.job].moves = 0 => AsNow(k)
  /\ \A u \in since[k.job].steady : Matches(k, u)
  /\ Early(k) =>
       \A u \in Users \ {Owner[k.job[2]]} : Matches(k, u) => u \in since[k.job].ever

Finds(k, t) ==
  /\ k.pc \notin {"idle", "fetch"} => FetchedRight(k)
  /\ k.pc = "employee" => k.job[1] \notin {"TEAM_LEAD_COMMENTED", "DEPT_APPROVED"}
  /\ k.pc = "requester" => k.job[1] = "DEPT_APPROVED"
  /\ k.pc = "tenant" => TenantRight(k)
  /\ k.pc = "recipients" => SearchRight(k)
  /\ k.pc = "reviewers" =>
       /\ \A u \in since[k.job].steady : u \in k.todo \/ t[k.job][u] > 0
       /\ Early(k) => k.todo \subseteq since[k.job].ever \cup {Owner[k.job[2]]}

OnlyConcerned(t) ==
  \A j \in Jobs, u \in Users :
    t[j][u] > 0 /\ since[j].moves <= 1 => u \in since[j].ever \cup {Owner[j[2]]}

Complete(f, t) ==
  \A j \in Jobs, u \in Users : f[j].state = "completed" /\ u \in since[j].steady => t[j][u] > 0

\* Nothing has happened to a job that was not added.
Unstarted(f, g, t) ==
  \A j \in Jobs : f[j].state = "none" =>
    /\ \A w \in Workers : g[w].job = j => g[w].pc = "idle"
    /\ \A u \in Users : t[j][u] = 0

ToldRight(f, g, t) ==
  /\ OnlyConcerned(t) /\ Complete(f, t) /\ Unstarted(f, g, t)
  /\ \A w \in Workers : Finds(g[w], t)

\* The history knows the reviewers of the moment.
SinceRight ==
  \A j \in Jobs : since[j].steady \subseteq Reviewers(j) /\ Reviewers(j) \subseteq since[j].ever

ToldInv == TypeInv /\ SinceRight /\ ToldRight(job, run, told)

\* Counts only grow, and who was told stays told.
Grows(t) == \A j \in Jobs, u \in Users : told[j][u] > 0 => t[j][u] > 0

\* Only the job of a slot is told of.
TellsOf(t, j) == \A i \in Jobs \ {j}, u \in Users : t[i][u] = told[i][u]

\* A slot's step tells the right people if what the slot found, whom it told,
\* and a job it completed are right.
LEMMA SlotStep ==
  ASSUME TypeInv, ToldRight(job, run, told), NEW w \in Workers, run[w].pc # "idle",
         NEW r, NEW t, NEW f, Grows(t), TellsOf(t, run[w].job), OnlyConcerned(t), Finds(r, t),
         r.pc = "idle" \/ r.job = run[w].job,
         \/ f = job \/ f = Thrown(w)
         \/ /\ f = Returned(w)
            /\ \A u \in since[run[w].job].steady : u \in Users => t[run[w].job][u] > 0
  PROVE  ToldRight(f, [run EXCEPT ![w] = r], t)
<1> DEFINE j == run[w].job
           g == [run EXCEPT ![w] = r]
<1>1. j \in Jobs /\ job \in [Jobs -> JobRecord] /\ run \in [Workers -> RunRecord]
  BY DEF TypeInv, RunsWellFormed, JobsWellFormed
<1>o. job[j].state # "none"
  BY <1>1 DEF ToldRight, Unstarted
<1>2. \A i \in Jobs : f[i].state = "completed" =>
        \/ job[i].state = "completed"
        \/ i = j /\ \A u \in since[j].steady : u \in Users => t[j][u] > 0
  <2>1. ASSUME NEW i \in Jobs, f = Thrown(w), f[i].state = "completed"
        PROVE  job[i].state = "completed"
    <3>1. CASE i = j /\ job[j].lock = w
      <4>1. f[i].state \in {"waiting", "failed"}
        BY <1>1, <2>1, <3>1 DEF Thrown, JobRecord
      <4> QED
        BY <2>1, <4>1
    <3>2. CASE ~(i = j /\ job[j].lock = w)
      BY <1>1, <2>1, <3>2 DEF Thrown
    <3> QED
      BY <3>1, <3>2
  <2>2. ASSUME NEW i \in Jobs, i # j PROVE Returned(w)[i] = job[i]
    BY <1>1, <2>2 DEF Returned
  <2> QED
    BY <2>1, <2>2
<1>3. Complete(f, t)
  BY <1>2 DEF ToldRight, Complete, Grows
<1>4. ASSUME NEW v \in Workers PROVE Finds(g[v], t)
  <2>1. CASE v = w
    BY <1>1, <2>1
  <2>2. CASE v # w
    <3>1. g[v] = run[v] /\ Finds(run[v], told)
      BY <1>1, <2>2 DEF ToldRight
    <3>2. run[v].pc # "idle" => run[v].job \in Jobs /\ since[run[v].job].steady \subseteq Users
      BY DEF TypeInv, RunsWellFormed, SinceTypeOK, SinceRecord
    <3> QED
      BY <3>1, <3>2 DEF Finds, Grows
  <2> QED
    BY <2>1, <2>2
<1>5. Unstarted(f, g, t)
  <2>1. ASSUME NEW i \in Jobs, f[i].state = "none" PROVE i # j /\ job[i].state = "none"
    <3>1. f[j].state # "none"
      BY <1>1, <1>o DEF Returned, Thrown, JobRecord
    <3>2. i # j
      BY <2>1, <3>1
    <3>3. f[i] = job[i]
      BY <1>1, <3>2 DEF Returned, Thrown
    <3> QED
      BY <2>1, <3>2, <3>3
  <2>2. \A v \in Workers : g[v] = IF v = w THEN r ELSE run[v]
    BY <1>1
  <2> HIDE DEF g
  <2> QED
    BY <2>1, <2>2 DEF Unstarted, ToldRight, TellsOf
<1> QED
  BY <1>3, <1>4, <1>5 DEF ToldRight

LEMMA IdleFinds == \A t : Finds(Idle, t)
BY DEF Finds, Idle

\* A search made from what the organisation is now finds the reviewers.
LEMMA SearchFinds ==
  ASSUME NEW k, NEW t, k.pc = "recipients", k.job \in Jobs, TypeInv, SinceRight,
         FetchedRight(k), StageSearch(k), AsNow(k)
  PROVE  Finds(k, t)
<1> DEFINE j == k.job
<1>1. j[2] \in Requests /\ Home[j[2]] # NoDept
  BY JobParts, ConstantsAssumption
<1>2. \A u \in Users : Matches(k, u) <=> u \in Entitled(j)
  <2> SUFFICES ASSUME NEW u \in Users PROVE Matches(k, u) <=> u \in Entitled(j)
    OBVIOUS
  <2>1. CASE j[1] # "DEPT_APPROVED"
    BY <1>1, <2>1 DEF StageSearch, Matches, Entitled, MayActOn
  <2>2. CASE j[1] = "DEPT_APPROVED" /\ role[Owner[j[2]]] = "HR_ADMIN"
    BY <2>2 DEF StageSearch, AsNow, Matches, Entitled, MayActOn, FinalApproverRole
  <2>3. CASE j[1] = "DEPT_APPROVED" /\ role[Owner[j[2]]] # "HR_ADMIN"
    BY <2>3 DEF StageSearch, AsNow, Matches, Entitled, MayActOn, FinalApproverRole
  <2> QED
    BY <2>1, <2>2, <2>3
<1>3. since[j].steady \subseteq Entitled(j) /\ Entitled(j) \subseteq Users
  BY DEF SinceRight, Reviewers, Entitled
<1>4. SearchRight(k)
  BY <1>2, <1>3 DEF SearchRight, FetchedRight
<1> QED
  BY <1>4 DEF Finds

\* A step of a slot tells the right people.
LEMMA ToldHandle ==
  ASSUME ToldInv, NEW w \in Workers, Handle(w)
  PROVE  ToldRight(job', run', told')
<1> DEFINE j == run[w].job
<1>r. /\ run[w] \in RunRecord /\ told \in [Jobs -> [Users -> Nat]]
      /\ job \in [Jobs -> JobRecord] /\ run \in [Workers -> RunRecord]
      /\ ToldRight(job, run, told) /\ Finds(run[w], told)
      /\ TypeInv /\ SinceRight
  BY DEF ToldInv, TypeInv, ToldTypeOK, JobsWellFormed, RunsWellFormed, ToldRight
<1>b. run[w].pc # "idle" =>
        /\ j \in Jobs /\ j[1] \in JobTypes /\ j[2] \in Requests /\ Request(w) = j[2]
        /\ Owner[j[2]] \in Users /\ Home[j[2]] \in Departments
        /\ since[j].steady \subseteq Reviewers(j) /\ Reviewers(j) \subseteq since[j].ever
  BY <1>r, JobParts, ConstantsAssumption DEF TypeInv, RunsWellFormed, SinceRight, Request
<1>k. Grows(told) /\ TellsOf(told, j) /\ OnlyConcerned(told)
  BY <1>r DEF Grows, TellsOf, ToldRight
<1>1. ASSUME NEW r, Goto(w, r), run[w].pc # "idle", Finds(r, told), r.job = j
      PROVE  ToldRight(job', run', told')
  <2>1. ToldRight(job, [run EXCEPT ![w] = r], told)
    BY <1>1, <1>r, <1>k, SlotStep
  <2> QED
    BY <1>1, <2>1 DEF Goto
<1>2. ASSUME Return(w), run[w].pc # "idle", since[j].steady = {}
      PROVE  ToldRight(job', run', told')
  <2>1. ToldRight(Returned(w), [run EXCEPT ![w] = Idle], told)
    BY <1>2, <1>r, <1>k, IdleFinds, IdleType, SlotStep
  <2> QED
    BY <1>2, <2>1 DEF Return
\* A search from a slot that has fetched its request.
<1>s. ASSUME NEW x \in Roles, NEW d \in Departments \cup {NoDept},
             run[w].pc # "idle", FetchedRight(run[w])
      PROVE  LET s == Search(w, x, d) IN
               /\ s.job = j /\ s.role = x /\ s.dept = d /\ s.pc = "recipients"
               /\ FetchedRight(s)
  BY <1>r, <1>s DEF Search, RunRecord, FetchedRight, Early
<1>3. CASE FetchMissing(w)
  <2>1. run[w].pc # "idle" /\ j[2] \notin present /\ Return(w)
    BY <1>3, <1>b DEF FetchMissing, At
  <2>2. since[j].steady = {}
    BY <1>b, <2>1 DEF Reviewers
  <2> QED
    BY <1>2, <2>1, <2>2
<1>4. CASE Fetch(w)
  <2>1. run[w].pc # "idle" /\ j[2] \in present /\ j \in Jobs
    BY <1>4, <1>b DEF Fetch, At
  <2>2. FetchedRight(run[w])
    BY <1>b, <2>1 DEF FetchedRight, Entitled, Reviewers
  <2>3. CASE j[1] = "TEAM_LEAD_COMMENTED"
    <3> DEFINE s == Search(w, "DEPT_HEAD", Home[j[2]])
    <3>1. Goto(w, s)
      BY <1>4, <1>b, <2>1, <2>3 DEF Fetch
    <3>2. /\ s.job = j /\ s.role = "DEPT_HEAD" /\ s.dept = Home[j[2]] /\ s.pc = "recipients"
          /\ FetchedRight(s)
      BY <1>b, <1>s, <2>1, <2>2 DEF Roles
    <3>3. StageSearch(s) /\ AsNow(s)
      BY <2>3, <3>2 DEF StageSearch, AsNow
    <3>4. Finds(s, told)
      BY <1>r, <2>1, <3>2, <3>3, SearchFinds
    <3> QED
      BY <1>1, <2>1, <3>1, <3>2, <3>4
  <2>4. ASSUME NEW c \in {"requester", "employee"}, Goto(w, [run[w] EXCEPT !.pc = c]),
               c = "requester" => j[1] = "DEPT_APPROVED",
               c = "employee" => j[1] \notin {"TEAM_LEAD_COMMENTED", "DEPT_APPROVED"}
        PROVE  ToldRight(job', run', told')
    <3> DEFINE r == [run[w] EXCEPT !.pc = c]
    <3>1. r.pc = c /\ r.job = j
      BY <1>r DEF RunRecord
    <3>2. FetchedRight(r)
      BY <2>2, <3>1 DEF FetchedRight, Early
    <3>3. Finds(r, told)
      BY <2>4, <3>1, <3>2 DEF Finds
    <3> QED
      BY <1>1, <2>1, <2>4, <3>1, <3>3
  <2>5. CASE j[1] = "DEPT_APPROVED"
    BY <1>4, <2>4, <2>5 DEF Fetch
  <2>6. CASE j[1] \notin {"TEAM_LEAD_COMMENTED", "DEPT_APPROVED"}
    BY <1>4, <2>4, <2>6 DEF Fetch
  <2> QED
    BY <2>3, <2>5, <2>6
<1>5. CASE NotifyEmployee(w)
  <2> DEFINE o == Owner[j[2]]
             t == [told EXCEPT ![j][o] = @ + 1]
  <2>1. /\ run[w].pc = "employee" /\ j \in Jobs /\ o \in Users /\ told' = t
        /\ j[1] \notin {"TEAM_LEAD_COMMENTED", "DEPT_APPROVED"} /\ FetchedRight(run[w])
    BY <1>5, <1>b, <1>r DEF NotifyEmployee, At, Finds
  <2>2. \A i \in Jobs, u \in Users :
          t[i][u] = IF i = j /\ u = o THEN told[i][u] + 1 ELSE told[i][u]
    BY <1>r, <2>1
  <2> HIDE DEF t
  <2>3. Grows(t) /\ TellsOf(t, j) /\ OnlyConcerned(t)
    BY <1>r, <1>k, <2>2 DEF Grows, TellsOf, OnlyConcerned
  <2>4. CASE j[1] = "SUBMITTED"
    <3> DEFINE s == Search(w, "TEAM_LEAD", Home[j[2]])
    <3>1. /\ s.job = j /\ s.role = "TEAM_LEAD" /\ s.dept = Home[j[2]] /\ s.pc = "recipients"
          /\ FetchedRight(s)
      BY <1>b, <1>s, <2>1 DEF Roles
    <3>2. StageSearch(s) /\ AsNow(s)
      BY <2>4, <3>1 DEF StageSearch, AsNow
    <3>3. Finds(s, t)
      BY <1>r, <2>1, <3>1, <3>2, SearchFinds
    <3>4. s # Idle
      BY <3>1, IdleType
    <3>5. run' = [run EXCEPT ![w] = s] /\ job' = job
      BY <1>5, <2>4, <3>4 DEF NotifyEmployee
    <3>6. ToldRight(job, [run EXCEPT ![w] = s], t)
      BY <1>r, <2>1, <2>3, <3>1, <3>3, SlotStep
    <3> QED
      BY <2>1, <3>5, <3>6
  <2>5. CASE j[1] # "SUBMITTED"
    <3>1. since[j].steady = {}
      BY <1>b, <2>1, <2>5 DEF Reviewers, MayActOn
    <3>2. run' = [run EXCEPT ![w] = Idle] /\ job' = Returned(w)
      BY <1>5, <2>5 DEF NotifyEmployee
    <3>3. ToldRight(Returned(w), [run EXCEPT ![w] = Idle], t)
      BY <1>r, <2>1, <2>3, <3>1, IdleFinds, IdleType, SlotStep
    <3> QED
      BY <2>1, <3>2, <3>3
  <2> QED
    BY <2>4, <2>5
<1>6. CASE ReadRequester(w)
  <2>1. run[w].pc = "requester" /\ j \in Jobs /\ j[1] = "DEPT_APPROVED" /\ FetchedRight(run[w])
    BY <1>6, <1>b, <1>r DEF ReadRequester, At, Finds
  <2>2. CASE role[Owner[j[2]]] = "HR_ADMIN"
    <3> DEFINE s == Search(w, "TENANT_ADMIN", NoDept)
    <3>1. /\ s.job = j /\ s.role = "TENANT_ADMIN" /\ s.dept = NoDept /\ s.pc = "recipients"
          /\ FetchedRight(s)
      BY <1>s, <2>1 DEF Roles
    <3>2. StageSearch(s) /\ AsNow(s)
      BY <2>1, <2>2, <3>1 DEF StageSearch, AsNow
    <3>3. Finds(s, told)
      BY <1>r, <2>1, <3>1, <3>2, SearchFinds
    <3>4. Goto(w, s)
      BY <1>6, <1>b, <2>1, <2>2 DEF ReadRequester
    <3> QED
      BY <1>1, <2>1, <3>1, <3>3, <3>4
  <2>3. CASE role[Owner[j[2]]] # "HR_ADMIN"
    <3> DEFINE r == [run[w] EXCEPT !.pc = "tenant"]
    <3>1. r.pc = "tenant" /\ r.job = j
      BY <1>r DEF RunRecord
    <3>2. FetchedRight(r)
      BY <2>1, <3>1 DEF FetchedRight, Early
    <3>3. \A u \in since[j].steady : role[u] = "HR_ADMIN"
      BY <1>b, <2>1, <2>3 DEF Reviewers, MayActOn, FinalApproverRole
    <3>4. hrDept # NoDept =>
            \A u \in Users : role[u] = "HR_ADMIN" /\ dept[u] = hrDept => u \in Entitled(j)
      BY <2>1, <2>3 DEF Entitled, MayActOn, FinalApproverRole
    <3>5. TenantRight(r)
      BY <2>1, <2>3, <3>1, <3>2, <3>3, <3>4 DEF TenantRight, FetchedRight
    <3>6. Finds(r, told)
      BY <3>1, <3>2, <3>5 DEF Finds
    <3>7. Goto(w, r)
      BY <1>6, <1>b, <2>1, <2>3 DEF ReadRequester
    <3> QED
      BY <1>1, <2>1, <3>1, <3>6, <3>7
  <2> QED
    BY <2>2, <2>3
<1>7. CASE ReadTenantNone(w)
  <2>1. run[w].pc = "tenant" /\ hrDept = NoDept /\ Return(w) /\ TenantRight(run[w])
    BY <1>7, <1>r DEF ReadTenantNone, At, Finds
  <2>2. since[j].steady = {}
    BY <1>b, <2>1 DEF TenantRight, Reviewers
  <2> QED
    BY <1>2, <2>1, <2>2
<1>8. CASE ReadTenant(w)
  <2> DEFINE s == Search(w, "HR_ADMIN", hrDept)
  <2>1. /\ run[w].pc = "tenant" /\ hrDept # NoDept /\ Goto(w, s) /\ j \in Jobs
        /\ TenantRight(run[w]) /\ FetchedRight(run[w])
    BY <1>8, <1>b, <1>r DEF ReadTenant, At, Finds
  <2>2. hrDept \in Departments \cup {NoDept}
    BY <1>r DEF TypeInv, OrgTypeOK
  <2>3. /\ s.job = j /\ s.role = "HR_ADMIN" /\ s.dept = hrDept /\ s.pc = "recipients"
        /\ FetchedRight(s)
    BY <1>s, <2>1, <2>2 DEF Roles
  <2>4. StageSearch(s)
    BY <2>1, <2>3 DEF StageSearch, TenantRight
  <2>5. since[j].moves = 0 => AsNow(s)
    BY <2>1, <2>3 DEF AsNow, TenantRight
  <2>6. \A u \in since[j].steady : Matches(s, u)
    BY <1>b, <2>1, <2>3 DEF Matches, TenantRight, Reviewers, MayActOn
  <2>7. Early(s) => \A u \in Users \ {Owner[j[2]]} : Matches(s, u) => u \in since[j].ever
    BY <2>1, <2>3 DEF Early, Matches, TenantRight
  <2>8. SearchRight(s)
    BY <2>3, <2>4, <2>5, <2>6, <2>7 DEF SearchRight
  <2>9. Finds(s, told)
    BY <2>3, <2>8 DEF Finds
  <2> QED
    BY <1>1, <2>1, <2>3, <2>9
<1>9. CASE FindNobody(w)
  <2>1. run[w].pc = "recipients" /\ Recipients(w) = {} /\ Return(w) /\ SearchRight(run[w])
    BY <1>9, <1>r DEF FindNobody, At, Finds
  <2>2. since[j].steady = {}
    BY <1>b, <2>1 DEF SearchRight, Matches, Recipients, Reviewers
  <2> QED
    BY <1>2, <2>1, <2>2
<1>10. CASE FindRecipients(w)
  <2> DEFINE r == [run[w] EXCEPT !.pc = "reviewers", !.todo = Recipients(w)]
  <2>1. /\ run[w].pc = "recipients" /\ Goto(w, r)
        /\ SearchRight(run[w]) /\ FetchedRight(run[w])
    BY <1>10, <1>r DEF FindRecipients, At, Finds
  <2>2. r.pc = "reviewers" /\ r.job = j /\ r.todo = Recipients(w)
    BY <1>r DEF RunRecord
  <2>3. \A u \in Users : u \in Recipients(w) <=> Matches(run[w], u)
    BY DEF Recipients, Matches
  <2>4. FetchedRight(r) /\ Early(r) = Early(run[w])
    BY <2>1, <2>2 DEF FetchedRight, Early
  <2>5. since[j].steady \subseteq Users /\ Recipients(w) \subseteq Users
    BY <1>b, <2>1 DEF Reviewers, Recipients
  <2>6. Finds(r, told)
    BY <2>1, <2>2, <2>3, <2>4, <2>5 DEF Finds, SearchRight
  <2> QED
    BY <1>1, <2>1, <2>2, <2>6
<1>11. ASSUME NEW u \in Users, NotifyReviewer(w, u) PROVE ToldRight(job', run', told')
  <2> DEFINE rest == run[w].todo \ {u}
             r == [run[w] EXCEPT !.todo = rest]
             t == [told EXCEPT ![j][u] = @ + 1]
  <2>1. /\ run[w].pc = "reviewers" /\ j \in Jobs /\ u \in run[w].todo /\ told' = t
        /\ FetchedRight(run[w])
        /\ \A v \in since[j].steady : v \in run[w].todo \/ told[j][v] > 0
        /\ Early(run[w]) => run[w].todo \subseteq since[j].ever \cup {Owner[j[2]]}
    BY <1>11, <1>b, <1>r DEF NotifyReviewer, Tell, At, Finds
  <2>2. \A i \in Jobs, v \in Users :
          t[i][v] = IF i = j /\ v = u THEN told[i][v] + 1 ELSE told[i][v]
    BY <1>r, <2>1
  <2> HIDE DEF t
  <2>3. Grows(t) /\ TellsOf(t, j)
    BY <1>r, <2>2 DEF Grows, TellsOf
  <2>4. OnlyConcerned(t)
    BY <1>k, <2>1, <2>2 DEF OnlyConcerned, Early
  <2>5. \A v \in since[j].steady : v \in Users => v \in rest \/ t[j][v] > 0
    BY <1>r, <2>1, <2>2
  <2>6. CASE rest = {}
    <3>1. run' = [run EXCEPT ![w] = Idle] /\ job' = Returned(w)
      BY <1>11, <2>6 DEF NotifyReviewer, Tell
    <3>2. ToldRight(Returned(w), [run EXCEPT ![w] = Idle], t)
      BY <1>r, <2>1, <2>3, <2>4, <2>5, <2>6, IdleFinds, IdleType, SlotStep
    <3> QED
      BY <2>1, <3>1, <3>2
  <2>7. CASE rest # {}
    <3>1. run' = [run EXCEPT ![w] = r] /\ job' = job
      BY <1>11, <1>r, <2>7 DEF NotifyReviewer, Tell
    <3>2. r.pc = "reviewers" /\ r.job = j /\ r.todo = rest
      BY <1>r, <2>1 DEF RunRecord
    <3>3. FetchedRight(r) /\ Early(r) = Early(run[w]) /\ since[j].steady \subseteq Users
      BY <1>b, <2>1, <3>2 DEF FetchedRight, Early, Reviewers
    <3>4. Finds(r, t)
      BY <2>1, <2>5, <3>2, <3>3 DEF Finds
    <3>5. ToldRight(job, [run EXCEPT ![w] = r], t)
      BY <1>r, <2>1, <2>3, <2>4, <3>2, <3>4, SlotStep
    <3> QED
      BY <2>1, <3>1, <3>5
  <2> QED
    BY <2>6, <2>7
<1>12. CASE ReadFails(w)
  <2>1. /\ run[w].pc # "idle" /\ run' = [run EXCEPT ![w] = Idle]
        /\ job' = Thrown(w) /\ told' = told
    BY <1>12 DEF ReadFails, Readers
  <2>2. ToldRight(Thrown(w), [run EXCEPT ![w] = Idle], told)
    BY <1>r, <1>k, <2>1, IdleFinds, IdleType, SlotStep
  <2> QED
    BY <2>1, <2>2
<1> QED
  BY <1>3, <1>4, <1>5, <1>6, <1>7, <1>8, <1>9, <1>10, <1>11, <1>12 DEF Handle

\* The queue completes no job by itself, and a slot that takes a job or dies
\* has found nothing.
LEMMA ToldQueue ==
  ASSUME ToldInv,
         \/ \E j \in Jobs : Stall(j)
         \/ \E w \in Workers : WorkerDies(w) \/ \E j \in Jobs : Take(w, j)
  PROVE  ToldRight(job', run', told')
<1>1. /\ ToldRight(job, run, told) /\ told' = told
      /\ job \in [Jobs -> JobRecord] /\ run \in [Workers -> RunRecord]
  BY DEF ToldInv, TypeInv, JobsWellFormed, RunsWellFormed, Stall, WorkerDies, Take
<1>2. \A j \in Jobs : /\ job'[j].state = "completed" => job[j].state = "completed"
                      /\ job'[j].state = "none" => job[j].state = "none"
  <2>1. ASSUME NEW i \in Jobs, Stall(i)
        PROVE  /\ \A j \in Jobs : job'[j].state \in {job[j].state, "waiting", "failed"}
    BY <1>1, <2>1 DEF Stall, JobRecord
  <2>2. ASSUME NEW w \in Workers, NEW i \in Jobs, Take(w, i)
        PROVE  \A j \in Jobs : job'[j].state \in {job[j].state, "active"}
    BY <1>1, <2>2 DEF Take, JobRecord
  <2>3. ASSUME NEW w \in Workers, WorkerDies(w) PROVE job' = job
    BY <2>3 DEF WorkerDies
  <2> QED
    BY <2>1, <2>2, <2>3
<1>3. \A w \in Workers :
        \/ run'[w] = run[w] \/ run'[w].pc = "idle"
        \/ run'[w].pc = "fetch" /\ run'[w].job \in Jobs /\ job'[run'[w].job].state # "none"
  <2>1. ASSUME NEW j \in Jobs, Stall(j) PROVE run' = run
    BY <2>1 DEF Stall
  <2>2. ASSUME NEW v \in Workers, WorkerDies(v) PROVE run' = [run EXCEPT ![v] = Idle] /\ Idle.pc = "idle"
    BY <2>2 DEF WorkerDies, Idle
  <2>3. ASSUME NEW v \in Workers, NEW j \in Jobs, Take(v, j), NEW w \in Workers
        PROVE  \/ run'[w] = run[w]
               \/ run'[w].pc = "fetch" /\ run'[w].job \in Jobs /\ job'[run'[w].job].state # "none"
    <3> DEFINE r == [Idle EXCEPT !.pc = "fetch", !.job = j]
    <3>1. run' = [run EXCEPT ![v] = r] /\ r.pc = "fetch" /\ r.job = j
      BY <2>3 DEF Take, Idle
    <3>2. job'[j].state = "active"
      BY <1>1, <2>3 DEF Take, JobRecord
    <3>3. CASE w = v
      BY <1>1, <3>1, <3>2, <3>3
    <3>4. CASE w # v
      BY <1>1, <3>1, <3>4
    <3> QED
      BY <3>3, <3>4
  <2> QED
    BY <1>1, <2>1, <2>2, <2>3
<1>4. \A w \in Workers : Finds(run'[w], told)
  BY <1>1, <1>3 DEF ToldRight, Finds
<1>5. Unstarted(job', run', told)
  BY <1>1, <1>2, <1>3 DEF ToldRight, Unstarted
<1> QED
  BY <1>1, <1>2, <1>4, <1>5 DEF ToldRight, Complete

\* A job that is added starts a history of its own.
LEMMA ToldAdd ==
  ASSUME ToldInv, NEW j \in Jobs, Add(j)
  PROVE  SinceRight' /\ ToldRight(job, run, told)'
<1>1. /\ TypeInv /\ SinceRight /\ ToldRight(job, run, told)
      /\ job \in [Jobs -> JobRecord] /\ since \in [Jobs -> SinceRecord]
      /\ \A w \in Workers : run[w].pc # "idle" => run[w].job \in Jobs
  BY DEF ToldInv, TypeInv, JobsWellFormed, RunsWellFormed, SinceTypeOK
<1>2. /\ job[j].state = "none" /\ job' = [job EXCEPT ![j].state = "waiting"]
      /\ since' = [since EXCEPT ![j] = FromNow(j)]
      /\ UNCHANGED org /\ run' = run /\ told' = told
  BY DEF Add
<1>3. \A i \in Jobs : i # j => since'[i] = since[i] /\ job'[i] = job[i]
  BY <1>1, <1>2
<1>4. since'[j] = FromNow(j) /\ job'[j].state = "waiting"
  BY <1>1, <1>2 DEF JobRecord
<1>5. \A i \in Jobs : Reviewers(i)' = Reviewers(i)
  BY <1>2 DEF Reviewers, MayActOn, org
<1>6. SinceRight'
  BY <1>1, <1>3, <1>4, <1>5 DEF SinceRight, FromNow
<1>7. \A u \in Users : told[j][u] = 0
  BY <1>1, <1>2 DEF ToldRight, Unstarted
<1>8. OnlyConcerned(told)' /\ Complete(job, told)'
  <2>1. ASSUME NEW i \in Jobs, NEW u \in Users, told[i][u] > 0, since'[i].moves <= 1
        PROVE  u \in since'[i].ever \cup {Owner[i[2]]}
    BY <1>1, <1>3, <1>7, <2>1 DEF ToldRight, OnlyConcerned
  <2>2. ASSUME NEW i \in Jobs, NEW u \in Users, job'[i].state = "completed", u \in since'[i].steady
        PROVE  told[i][u] > 0
    BY <1>1, <1>3, <1>4, <2>2 DEF ToldRight, Complete
  <2> QED
    BY <1>2, <2>1, <2>2 DEF OnlyConcerned, Complete
<1>9. Unstarted(job, run, told)'
  BY <1>1, <1>2, <1>3, <1>4 DEF ToldRight, Unstarted
<1>10. ASSUME NEW w \in Workers PROVE Finds(run[w], told)'
  <2>1. CASE run[w].pc \in {"idle", "fetch"}
    BY <1>2, <2>1 DEF Finds
  <2>2. CASE run[w].pc \notin {"idle", "fetch"}
    <3>1. run[w].job \in Jobs /\ run[w].job # j /\ Finds(run[w], told)
      BY <1>1, <1>2, <2>2 DEF ToldRight, Unstarted
    <3>2. since'[run[w].job] = since[run[w].job]
      BY <1>3, <3>1
    <3> QED
      BY <1>2, <3>1, <3>2
         DEF Finds, FetchedRight, TenantRight, SearchRight, StageSearch, AsNow, Matches,
             Early, Entitled, MayActOn, org
  <2> QED
    BY <2>1, <2>2
<1> QED
  BY <1>2, <1>6, <1>8, <1>9, <1>10 DEF ToldRight

\* How a change of the organisation moves the reviewers.  One user at most
\* gets another role or joins a department; requests only go.
LEMMA OrgFacts ==
  ASSUME TypeInv, OrgStep
  PROVE  /\ Reorganise /\ present' \subseteq present
         /\ \/ \E v \in Users : /\ \A u \in Users \ {v} : role'[u] = role[u] /\ dept'[u] = dept[u]
                                /\ hrDept' = hrDept /\ present' = present
            \/ /\ role' = role /\ dept' = dept /\ present' = present
            \/ /\ role' = role
               /\ \A u \in Users : dept'[u] \in {dept[u], NoDept}
               /\ hrDept' \in {hrDept, NoDept}
<1>1. /\ role \in [Users -> Roles] /\ dept \in [Users -> Departments \cup {NoDept}]
  BY DEF TypeInv, OrgTypeOK
<1>2. ASSUME NEW m \in Moves, ChangeUser(m[1], m[2], m[3])
      PROVE  /\ Reorganise /\ hrDept' = hrDept /\ present' = present /\ m[1] \in Users
             /\ \A u \in Users \ {m[1]} : role'[u] = role[u] /\ dept'[u] = dept[u]
  BY <1>1, <1>2, ConstantsAssumption DEF ChangeUser
<1>3. ASSUME NEW d \in Departments \cup {NoDept}, ChangeHrDepartment(d)
      PROVE  Reorganise /\ role' = role /\ dept' = dept /\ present' = present
  BY <1>3 DEF ChangeHrDepartment
<1>4. ASSUME NEW d \in Departments, RemoveDepartment(d)
      PROVE  /\ Reorganise /\ role' = role /\ present' \subseteq present
             /\ \A u \in Users : dept'[u] \in {dept[u], NoDept}
             /\ hrDept' \in {hrDept, NoDept}
  BY <1>4 DEF RemoveDepartment
<1>5. ASSUME NEW gone \in SUBSET Requests, RemovePolicy(gone)
      PROVE  /\ Reorganise /\ role' = role /\ dept' = dept /\ hrDept' = hrDept
             /\ present' \subseteq present
  BY <1>5 DEF RemovePolicy
<1> QED
  BY <1>2, <1>3, <1>4, <1>5 DEF OrgStep

\* A reviewer before and after a change keeps the role, and the department
\* where it counts.
LEMMA SteadyKeeps ==
  ASSUME TypeInv, OrgStep, NEW j \in Jobs, NEW u \in Reviewers(j), u \in Reviewers(j)'
  PROVE  role'[u] = role[u] /\ (role[u] # "TENANT_ADMIN" => dept'[u] = dept[u])
<1>0. j[2] \in Requests /\ Owner[j[2]] \in Users /\ u \in Users /\ Home[j[2]] # NoDept
  BY JobParts, ConstantsAssumption DEF Reviewers
<1>1. /\ MayActOn(j, u) /\ MayActOn(j, u)'
      /\ role[u] = "HR_ADMIN" => hrDept # NoDept
      /\ role'[u] = "HR_ADMIN" => hrDept' # NoDept
  BY DEF Reviewers
<1>2. CASE j[1] # "DEPT_APPROVED"
  BY <1>1, <1>2 DEF MayActOn
<1>3. CASE j[1] = "DEPT_APPROVED"
  <2>1. /\ role[u] = FinalApproverRole(role[Owner[j[2]]])
        /\ role'[u] = FinalApproverRole(role'[Owner[j[2]]])
        /\ role[u] = "HR_ADMIN" => dept[u] = hrDept
        /\ role'[u] = "HR_ADMIN" => dept'[u] = hrDept'
    BY <1>1, <1>3 DEF MayActOn
  <2>2. u # Owner[j[2]] /\ role[u] \in {"HR_ADMIN", "TENANT_ADMIN"}
        /\ role'[u] \in {"HR_ADMIN", "TENANT_ADMIN"}
    BY <2>1 DEF FinalApproverRole
  <2>3. role'[u] = role[u]
    BY <1>0, <2>1, <2>2, OrgFacts DEF FinalApproverRole
  <2>4. role[u] = "HR_ADMIN" => dept'[u] = dept[u]
    BY <1>0, <1>1, <2>1, <2>3, OrgFacts
  <2> QED
    BY <2>2, <2>3, <2>4
<1> QED
  BY <1>2, <1>3

\* What a slot has read survives a change of the organisation.
LEMMA FindsKept ==
  ASSUME TypeInv, SinceRight, OrgStep, NEW k \in RunRecord, NEW t,
         k.pc # "idle" => k.job \in Jobs, Finds(k, t)
  PROVE  Finds(k, t)'
<1> DEFINE j == k.job
           s == since[j]
           o == Owner[j[2]]
<1>1. CASE k.pc \in {"idle", "fetch"}
  BY <1>1 DEF Finds
<1>2. CASE k.pc \notin {"idle", "fetch"}
  <2>1. /\ j \in Jobs /\ j[2] \in Requests /\ o \in Users /\ FetchedRight(k)
        /\ Home[j[2]] # NoDept
    BY <1>2, JobParts, ConstantsAssumption DEF Finds
  <2>2. /\ since' = [i \in Jobs |-> [steady |-> since[i].steady \cap Reviewers(i)',
                                     ever   |-> since[i].ever \cup Reviewers(i)',
                                     moves  |-> since[i].moves + 1]]
        /\ present' \subseteq present
    BY OrgFacts DEF Reorganise
  <2>3. /\ since'[j].steady = s.steady \cap Reviewers(j)'
        /\ since'[j].ever = s.ever \cup Reviewers(j)'
        /\ since'[j].moves = s.moves + 1
    BY <2>1, <2>2
  <2>4. s.moves \in Nat /\ s.steady \subseteq Reviewers(j) /\ Reviewers(j) \subseteq Users
        /\ Reviewers(j)' \subseteq Users
    BY <2>1, ConstantsAssumption DEF TypeInv, SinceTypeOK, SinceRecord, SinceRight, Reviewers
  <2>5. since'[j].moves # 0 /\ (since'[j].moves <= 1 => s.moves = 0)
    BY <2>3, <2>4
  <2>6. \A u \in since'[j].steady :
          /\ u \in s.steady /\ role'[u] = role[u]
          /\ role[u] # "TENANT_ADMIN" => dept'[u] = dept[u]
    BY <2>1, <2>3, <2>4, SteadyKeeps
  \* A first move: what was found so far is what there was to find.
  <2>7. s.moves = 0 => j[2] \in present /\ Entitled(j) \subseteq s.ever
    BY <2>1 DEF FetchedRight, Early
  <2>8. s.moves = 0 => Entitled(j)' \subseteq since'[j].ever
    <3> SUFFICES ASSUME s.moves = 0, NEW u \in Entitled(j)', u \notin Reviewers(j)'
                 PROVE  u \in s.ever
      BY <2>3
    <3>1. u \in Users /\ j[2] \notin present'
      BY DEF Entitled, Reviewers
    <3>2. /\ role' = role /\ dept'[u] \in {dept[u], NoDept} /\ hrDept' \in {hrDept, NoDept}
      BY <2>7, <3>1, OrgFacts
    <3>3. MayActOn(j, u)' /\ (role'[u] = "HR_ADMIN" => hrDept' # NoDept)
      BY DEF Entitled
    <3>4. MayActOn(j, u)
      BY <2>1, <3>2, <3>3 DEF MayActOn
    <3>5. u \in Entitled(j)
      BY <3>1, <3>2, <3>3, <3>4 DEF Entitled
    <3> QED
      BY <2>7, <3>5
  <2>9. FetchedRight(k)'
    BY <2>3, <2>5, <2>8 DEF FetchedRight, Early
  <2>10. CASE k.pc = "employee"
    BY <2>9, <2>10 DEF Finds
  <2>11. CASE k.pc = "requester"
    BY <2>9, <2>11 DEF Finds
  <2>12. CASE k.pc = "tenant"
    <3>1. /\ j[1] = "DEPT_APPROVED" /\ \A u \in s.steady : role[u] = "HR_ADMIN"
          /\ s.moves = 0 => role[o] # "HR_ADMIN"
      BY <2>12 DEF Finds, TenantRight
    <3>2. ASSUME s.moves = 0, hrDept' # NoDept, NEW u \in Users \ {o},
                 role'[u] = "HR_ADMIN", dept'[u] = hrDept'
          PROVE  u \in since'[j].ever
      <4>1. CASE role[u] = "HR_ADMIN" /\ dept[u] = hrDept /\ hrDept # NoDept
        <5>1. u \in Entitled(j)
          BY <3>1, <3>2, <4>1 DEF Entitled, MayActOn, FinalApproverRole
        <5> QED
          BY <2>3, <2>7, <3>2, <5>1
      <4>2. CASE role'[o] = role[o] /\ present' = present
        <5>1. u \in Reviewers(j)'
          BY <2>7, <3>1, <3>2, <4>2 DEF Reviewers, MayActOn, FinalApproverRole
        <5> QED
          BY <2>3, <5>1
      <4> QED
        BY <2>1, <3>2, <4>1, <4>2, OrgFacts
    <3>3. TenantRight(k)'
      BY <2>3, <2>5, <2>6, <3>1, <3>2 DEF TenantRight, Early
    <3> QED
      BY <2>9, <2>12, <3>3 DEF Finds
  <2>13. CASE k.pc = "recipients"
    <3>1. /\ StageSearch(k) /\ (s.moves = 0 => AsNow(k)) /\ \A u \in s.steady : Matches(k, u)
      BY <2>13 DEF Finds, SearchRight
    <3>2. \A u \in since'[j].steady : Matches(k, u)'
      BY <2>6, <3>1 DEF StageSearch, Matches
    <3>3. ASSUME s.moves = 0, NEW u \in Users \ {o}, Matches(k, u)'
          PROVE  u \in since'[j].ever
      <4>1. CASE Matches(k, u)
        BY <2>3, <2>13, <3>3, <4>1, <2>4 DEF Finds, SearchRight, Early
      <4>2. CASE role'[o] = role[o] /\ present' = present /\ hrDept' = hrDept
        <5>1. u \in Reviewers(j)'
          <6>1. CASE j[1] # "DEPT_APPROVED"
            BY <2>7, <3>1, <3>3, <4>2, <6>1, <2>1 DEF StageSearch, Matches, Reviewers, MayActOn
          <6>2. CASE j[1] = "DEPT_APPROVED"
            BY <2>7, <3>1, <3>3, <4>2, <6>2
               DEF StageSearch, AsNow, Matches, Reviewers, MayActOn, FinalApproverRole
          <6> QED
            BY <6>1, <6>2
        <5> QED
          BY <2>3, <5>1
      <4> QED
        BY <2>1, <3>3, <4>1, <4>2, OrgFacts DEF Matches
    <3>4. SearchRight(k)'
      BY <2>3, <2>5, <3>1, <3>2, <3>3 DEF SearchRight, StageSearch, Early
    <3> QED
      BY <2>9, <2>13, <3>4 DEF Finds
  <2>14. CASE k.pc = "reviewers"
    <3>1. /\ \A u \in s.steady : u \in k.todo \/ t[j][u] > 0
          /\ s.moves <= 1 => k.todo \subseteq s.ever \cup {o}
      BY <2>14 DEF Finds, Early
    <3>2. /\ \A u \in since'[j].steady : u \in k.todo \/ t[j][u] > 0
          /\ since'[j].moves <= 1 => k.todo \subseteq since'[j].ever \cup {o}
      BY <2>3, <2>5, <2>6, <3>1
    <3> QED
      BY <2>9, <2>14, <3>2 DEF Finds, Early
  <2> QED
    BY <1>2, <2>10, <2>11, <2>12, <2>13, <2>14 DEF RunRecord, Readers
<1> QED
  BY <1>1, <1>2

\* A change of the organisation keeps the history right, and what was told.
LEMMA ToldOrg ==
  ASSUME ToldInv, OrgStep
  PROVE  SinceRight' /\ ToldRight(job, run, told)'
<1>1. /\ TypeInv /\ SinceRight /\ ToldRight(job, run, told)
      /\ run \in [Workers -> RunRecord]
      /\ \A w \in Workers : run[w].pc # "idle" => run[w].job \in Jobs
  BY DEF ToldInv, TypeInv, RunsWellFormed
<1>2. /\ since' = [i \in Jobs |-> [steady |-> since[i].steady \cap Reviewers(i)',
                                   ever   |-> since[i].ever \cup Reviewers(i)',
                                   moves  |-> since[i].moves + 1]]
      /\ job' = job /\ run' = run /\ told' = told
  BY <1>1, OrgFacts DEF Reorganise
<1>3. \A i \in Jobs : /\ since'[i].steady = since[i].steady \cap Reviewers(i)'
                      /\ since'[i].ever = since[i].ever \cup Reviewers(i)'
                      /\ since'[i].moves = since[i].moves + 1 /\ since[i].moves \in Nat
  BY <1>1, <1>2, ConstantsAssumption DEF TypeInv, SinceTypeOK, SinceRecord
<1>4. SinceRight'
  BY <1>3 DEF SinceRight
<1>5. \A i \in Jobs : since'[i].moves <= 1 => since[i].moves <= 1
  BY <1>3
<1>6. OnlyConcerned(told)' /\ Complete(job, told)' /\ Unstarted(job, run, told)'
  BY <1>1, <1>2, <1>3, <1>5 DEF ToldRight, OnlyConcerned, Complete, Unstarted
<1>7. ASSUME NEW w \in Workers PROVE Finds(run[w], told)'
  <2>1. Finds(run[w], told) /\ run[w] \in RunRecord /\ (run[w].pc # "idle" => run[w].job \in Jobs)
    BY <1>1 DEF ToldRight
  <2> DEFINE k == run[w]
             t == told
  <2>2. k' = k /\ t' = t
    BY <1>2
  <2> QED
    BY <1>1, <1>2, <2>1, <2>2, FindsKept
<1> QED
  BY <1>4, <1>6, <1>7, <1>2 DEF ToldRight

LEMMA ToldNext == ToldInv /\ [Next]_vars => ToldInv'
<1> SUFFICES ASSUME ToldInv, [Next]_vars PROVE ToldInv'
  OBVIOUS
<1>1. TypeInv'
  BY TypeNext DEF ToldInv
<1>2. CASE OrgStep
  BY <1>1, <1>2, ToldOrg DEF ToldInv
<1>3. CASE UNCHANGED <<org, since>> /\ ToldRight(job', run', told')
  <2>1. SinceRight'
    BY <1>3 DEF ToldInv, SinceRight, Reviewers, MayActOn, org
  <2>2. ToldRight(job, run, told)'
    BY <1>3 DEF org, ToldRight, OnlyConcerned, Complete, Unstarted, Finds, FetchedRight,
                TenantRight, SearchRight, StageSearch, AsNow, Matches, Early, Entitled, MayActOn
  <2> QED
    BY <1>1, <2>1, <2>2 DEF ToldInv
<1>4. ASSUME NEW j \in Jobs, Add(j) PROVE ToldInv'
  BY <1>1, <1>4, ToldAdd DEF ToldInv
<1>5. CASE \/ \E j \in Jobs : Stall(j)
           \/ \E w \in Workers : WorkerDies(w) \/ \E j \in Jobs : Take(w, j)
  <2>1. UNCHANGED <<org, since>>
    BY <1>5 DEF Stall, WorkerDies, Take
  <2> QED
    BY <1>3, <1>5, <2>1, ToldQueue
<1>6. ASSUME NEW w \in Workers, Handle(w) PROVE ToldInv'
  <2>1. UNCHANGED <<org, since>>
    BY <1>6 DEF Handle, FetchMissing, Fetch, NotifyEmployee, ReadRequester, ReadTenantNone,
                ReadTenant, FindNobody, FindRecipients, NotifyReviewer, Tell, ReadFails, Return, Goto
  <2> QED
    BY <1>3, <1>6, <2>1, ToldHandle
<1>7. CASE UNCHANGED vars
  <2>1. UNCHANGED <<org, since>> /\ UNCHANGED <<job, run, told>>
    BY <1>7 DEF vars
  <2>2. ToldRight(job', run', told')
    BY <2>1 DEF ToldInv
  <2> QED
    BY <1>3, <2>1, <2>2
<1> QED
  BY <1>2, <1>4, <1>5, <1>6, <1>7 DEF Next, Work

LEMMA ToldInit == Init => ToldInv
<1> SUFFICES ASSUME Init PROVE ToldInv
  OBVIOUS
<1>1. \A w \in Workers : run[w] = Idle
  BY DEF Init
<1>2. \A j \in Jobs, u \in Users : told[j][u] = 0
  BY DEF Init
<1>3. \A j \in Jobs : job[j].state = "none"
  BY DEF Init
<1>4. SinceRight
  BY DEF Init, SinceRight, FromNow
<1>5. OnlyConcerned(told) /\ Complete(job, told) /\ Unstarted(job, run, told)
  BY <1>1, <1>2, <1>3, IdleType DEF OnlyConcerned, Complete, Unstarted
<1>6. ToldRight(job, run, told)
  BY <1>1, <1>5, IdleFinds DEF ToldRight
<1> QED
  BY <1>4, <1>6, TypeInit DEF ToldInv

\* A completed job has told everyone who was a reviewer of the stage it
\* announces all the time since it was added, however often the organisation
\* changed; and, if it changed once at most, nobody who never was one, but the
\* owner: whatever attempts failed, slots died or locks expired on the way.
THEOREM ReviewersAreTold == Spec => []WhoeverMayActIsTold
<1>1. ToldInv => WhoeverMayActIsTold
  BY DEF ToldInv, ToldRight, OnlyConcerned, Complete, WhoeverMayActIsTold
<1> QED
  BY <1>1, ToldInit, ToldNext, PTL DEF Spec
=============================================================================
