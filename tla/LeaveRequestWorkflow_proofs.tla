--------------------- MODULE LeaveRequestWorkflow_proofs ---------------------
(***************************************************************************)
(* Proofs about LeaveRequestWorkflow, and about what the queries of        *)
(* LeaveVisibility show of it, for every organisation, every number of     *)
(* requests and every number of calls in flight.                           *)
(***************************************************************************)
EXTENDS LeaveVisibility, TLAPS

-----------------------------------------------------------------------------
(* The routing tables. *)

\* Routing puts a request into review, with columns that exist.
LEMMA RoutingType ==
  ASSUME NEW x \in Roles
  PROVE  /\ InitialStatus(x) \in InReview
         /\ InitialStamps(x) \subseteq StampFields
         /\ FinalApproverRole(x) \in {"HR_ADMIN", "TENANT_ADMIN"}
         /\ \A s : RequiredRoleForStage(s, x) \in {"DEPT_HEAD", "HR_ADMIN", "TENANT_ADMIN"}
BY DEF Roles, InitialStatus, InitialStamps, InReview, StampFields,
       FinalApproverRole, RequiredRoleForStage

\* The job of a call is one of the processor's job types.
LEMMA JobType ==
  ASSUME NEW k \in CallRecord, k.req \in Requests, k.op = "submit" => k.seen \in Roles
  PROVE  JobOf(k) \in JobTypes \X Requests
<1>1. InitialStatus(k.seen) \in InReview  \/ k.op # "submit"
  BY RoutingType
<1>2. \A s \in InReview : JobTypeOf(s) \in JobTypes
  BY DEF InReview, JobTypeOf, JobTypes
<1> QED
  BY <1>1, <1>2 DEF JobOf, JobTypes

-----------------------------------------------------------------------------
(* Type correctness. *)

\* What a call's local variables hold at each program counter; JobOf and the
\* writes of a call are only defined for such values.
WellFormed(k) ==
  k.pc # "idle" =>
    /\ k.op \in Ops
    /\ k.actor \in Users
    /\ k.op = "submit" => k.seen \in Roles
    /\ k.op = "submit" => k.pc \in {"write", "enqueue"}
    /\ k.op = "addComment" => k.pc # "enqueue"
    /\ k.op # "submit" \/ k.pc = "enqueue" => k.req \in Requests
    /\ k.op \in {"hrApprove", "reject"} => k.seen \in {"DEPT_HEAD", "HR_ADMIN", "TENANT_ADMIN"}
    /\ k.op = "hrApprove" => k.seen # "DEPT_HEAD"

CallsWellFormed == \A c \in Calls : WellFormed(call[c])

\* A row that exists has an owner; one that does not has no ledger row.
RowsWellFormed ==
  \A r \in Requests : /\ status[r] # "Absent" => owner[r] \in Users
                      /\ status[r] = "Absent" => ledger[r] = "none"

TypeInv == TypeOK /\ CallsWellFormed /\ RowsWellFormed

LEMMA TypeInit == Init => TypeInv
BY ConstantsAssumption
   DEF TokenOf, Init, TypeInv, TypeOK, CallsWellFormed, WellFormed, RowsWellFormed, CallRecord, Idle, StampFields

\* A step that changes nothing but one call's local variables.
LEMMA TypeLocal ==
  ASSUME TypeInv, NEW c \in Calls, NEW k \in CallRecord, WellFormed(k),
         call' = [call EXCEPT ![c] = k], UNCHANGED <<org, tokens, tables, jobs>>
  PROVE  TypeInv'
BY DEF TypeInv, TypeOK, CallsWellFormed, RowsWellFormed, org, tables

\* Entering a handler.
LEMMA TypeStart ==
  ASSUME TypeInv, NEW c \in Calls, NEW u \in Users, Start(c, u)
  PROVE  TypeInv'
<1> USE DEF TypeInv
<1>1. ASSUME NEW op \in Ops, NEW r \in Requests \cup {NoRequest},
             NEW pc \in {"authorize", "write"}, NEW x \in Roles \cup {"none"},
             NEW d \in Departments \cup {NoDept}, Begin(c, u, op, r, pc, x, d),
             op = "submit" => x \in Roles /\ pc = "write",
             op # "submit" => r \in Requests,
             op \in {"hrApprove", "reject"} => x \in {"DEPT_HEAD", "HR_ADMIN", "TENANT_ADMIN"},
             op = "hrApprove" => x # "DEPT_HEAD"
      PROVE  TypeInv'
  BY <1>1, TypeLocal DEF Begin, WellFormed, CallRecord
<1>2. CASE BeginSubmit(c, u)
  BY <1>1, <1>2 DEF BeginSubmit, Ops, TypeOK
<1>3. ASSUME NEW r \in Requests, BeginTeamLeadComment(c, u, r) PROVE TypeInv'
  BY <1>1, <1>3 DEF BeginTeamLeadComment, Ops, Roles
<1>4. ASSUME NEW r \in Requests, BeginDeptApprove(c, u, r) PROVE TypeInv'
  BY <1>1, <1>4 DEF BeginDeptApprove, Ops, Roles
<1>5. ASSUME NEW r \in Requests, BeginHrApprove(c, u, r) PROVE TypeInv'
  <2>1. FinalApproverRole(role[owner[r]]) \in {"HR_ADMIN", "TENANT_ADMIN"}
    BY DEF FinalApproverRole
  <2> QED
    BY <1>1, <1>5, <2>1 DEF BeginHrApprove, Ops, Roles
<1>6. ASSUME NEW r \in Requests, BeginReject(c, u, r) PROVE TypeInv'
  <2>1. RequiredRoleForStage(status[r], role[owner[r]])
          \in {"DEPT_HEAD", "HR_ADMIN", "TENANT_ADMIN"}
    BY DEF RequiredRoleForStage, FinalApproverRole
  <2> QED
    BY <1>1, <1>6, <2>1 DEF BeginReject, Ops, Roles
<1>7. ASSUME NEW r \in Requests, BeginCancel(c, u, r) PROVE TypeInv'
  BY <1>1, <1>7 DEF BeginCancel, Ops
<1>8. ASSUME NEW r \in Requests, BeginAddComment(c, u, r) PROVE TypeInv'
  BY <1>1, <1>8 DEF BeginAddComment, Ops
<1> QED
  BY <1>2, <1>3, <1>4, <1>5, <1>6, <1>7, <1>8 DEF Start

\* Running a handler.
LEMMA TypeProceed ==
  ASSUME TypeInv, NEW c \in Calls, Proceed(c) \/ Crash(c)
  PROVE  TypeInv'
<1> USE DEF TypeInv
<1>c. call[c] \in CallRecord /\ WellFormed(call[c])
  BY DEF TypeOK, CallsWellFormed
<1>1. CASE Authorize(c)
  <2> DEFINE k == [call[c] EXCEPT
                     !.pc = IF role[call[c].actor] = "HR_ADMIN" THEN "scope" ELSE "write",
                     !.seen = role[call[c].actor], !.dept = dept[call[c].actor]]
  <2>1. call[c].pc = "authorize" /\ call[c].actor \in Users /\ call[c].op # "submit"
    BY <1>1, <1>c DEF Authorize, WellFormed
  <2>2. role[call[c].actor] \in Roles /\ dept[call[c].actor] \in Departments \cup {NoDept}
    BY <2>1 DEF TypeOK
  <2>3. call[c].op # "addComment" => role[call[c].actor] = call[c].seen
    BY <1>1 DEF Authorize, PassesActorCheck, RequiredRoles
  <2>4. k \in CallRecord /\ WellFormed(k)
    BY <1>c, <2>1, <2>2, <2>3 DEF CallRecord, WellFormed
  <2>5. call' = [call EXCEPT ![c] = k] /\ UNCHANGED <<org, tokens, tables, jobs>>
    BY <1>1 DEF Authorize, TypeOK
  <2> QED
    BY <2>4, <2>5, TypeLocal
<1>2. CASE HrScope(c)
  <2> DEFINE k == [call[c] EXCEPT !.pc = "write"]
  <2>1. call[c].pc = "scope"
    BY <1>2 DEF HrScope
  <2>2. k \in CallRecord /\ WellFormed(k)
    BY <1>c, <2>1 DEF CallRecord, WellFormed
  <2>3. call' = [call EXCEPT ![c] = k] /\ UNCHANGED <<org, tokens, tables, jobs>>
    BY <1>2 DEF HrScope, TypeOK
  <2> QED
    BY <2>2, <2>3, TypeLocal
<1>3. CASE CreateRequest(c)
  <2>1. PICK r \in Requests :
          /\ status' = [status EXCEPT ![r] = InitialStatus(call[c].seen)]
          /\ owner'  = [owner EXCEPT ![r] = call[c].actor]
          /\ home'   = [home EXCEPT ![r] = call[c].dept]
          /\ stamp'  = [stamp EXCEPT ![r] = [f \in StampFields |->
                IF f \in InitialStamps(call[c].seen) THEN call[c].actor ELSE NoUser]]
          /\ ledger' = [ledger EXCEPT ![r] = "pending"]
          /\ call'   = [call EXCEPT ![c].pc = "enqueue", ![c].req = r]
    BY <1>3 DEF CreateRequest
  <2>2. call[c].op = "submit" /\ call[c].pc = "write" /\ call[c] \in CallRecord
    BY <1>3 DEF CreateRequest, TypeOK
  <2>3. call[c].seen \in Roles /\ call[c].actor \in Users
    BY <2>2, <1>c DEF WellFormed
  <2>4. InitialStatus(call[c].seen) \in Statuses
    BY <2>3, RoutingType DEF Statuses
  <2>5. UNCHANGED <<role, dept, departments, hrDept, orgChanges, tokens, comments, jobs>>
    BY <1>3 DEF CreateRequest, org
  <2>6. TypeOK'
    BY <2>1, <2>2, <2>3, <2>4, <2>5 DEF TypeOK, CallRecord
  <2>7. CallsWellFormed'
    BY <2>1, <2>2, <2>3, <1>c DEF CallsWellFormed, WellFormed, TypeOK, CallRecord
  <2>8. RowsWellFormed'
    BY <2>1, <2>3, <2>4, <2>5 DEF RowsWellFormed, TypeOK, Statuses, InReview, Terminal
  <2> QED
    BY <2>6, <2>7, <2>8
<1>4. ASSUME NEW op \in Ops \ {"submit", "addComment"}, NEW s \in Statuses, NEW f \in StampFields,
             Update(c, op, s, f), ledger' \in {ledger, Confirmed(call[c].req), Released(call[c].req)},
             comments' \in {comments, comments \cup {<<call[c].req, call[c].actor>>}}
      PROVE  TypeInv'
  <2> DEFINE k == [call[c] EXCEPT !.pc = "enqueue"]
  <2>1. call[c].req \in Requests /\ call[c].actor \in Users
    BY <1>4, <1>c DEF Update, WellFormed
  <2>2. ledger' \in [Requests -> {"none", "pending", "confirmed"}]
    BY <1>4, <2>1 DEF Confirmed, Released, TypeOK
  <2>3. stamp' \in [Requests -> [StampFields -> Users \cup {NoUser}]]
    BY <1>4, <2>1 DEF Update, TypeOK
  <2>4. k \in CallRecord /\ WellFormed(k) /\ call' = [call EXCEPT ![c] = k]
    BY <1>4, <1>c, <2>1 DEF Update, WellFormed, CallRecord, TypeOK
  <2>5. TypeOK'
    BY <1>4, <2>1, <2>2, <2>3, <2>4 DEF Update, TypeOK, org
  <2>6. CallsWellFormed'
    BY <2>4 DEF CallsWellFormed, TypeOK
  <2>7. RowsWellFormed'
    BY <1>4, <2>1 DEF Update, RowsWellFormed, Confirmed, Released, Present, Statuses,
                      InReview, Terminal, TypeOK
  <2> QED
    BY <2>5, <2>6, <2>7
<1>5. CASE TeamLeadComment(c) \/ DeptApprove(c)
  BY <1>4, <1>5 DEF TeamLeadComment, DeptApprove, Ops, StampFields, Statuses, InReview
<1>6. CASE HrApprove(c) \/ Reject(c)
  <2>1. StampField(call[c].seen) \in StampFields
    BY DEF StampField, StampFields
  <2> QED
    BY <1>4, <1>6, <2>1 DEF HrApprove, Reject, Ops, Statuses, Terminal
<1>7. CASE Cancel(c)
  <2> DEFINE k == [call[c] EXCEPT !.pc = "enqueue"]
  <2>1. call[c].req \in Requests
    BY <1>7, <1>c DEF Cancel, WellFormed
  <2>2. k \in CallRecord /\ WellFormed(k) /\ call' = [call EXCEPT ![c] = k]
    BY <1>7, <1>c, <2>1 DEF Cancel, WellFormed, CallRecord, TypeOK
  <2>3. TypeOK'
    BY <1>7, <2>1, <2>2 DEF Cancel, Released, Statuses, Terminal, TypeOK, org
  <2>4. CallsWellFormed'
    BY <2>2 DEF CallsWellFormed, TypeOK
  <2>5. RowsWellFormed'
    BY <1>7, <2>1 DEF Cancel, Released, Present, Statuses, InReview, Terminal, RowsWellFormed,
                      TypeOK
  <2> QED
    BY <2>3, <2>4, <2>5
<1>i. Idle \in CallRecord /\ WellFormed(Idle)
  BY DEF Idle, CallRecord, WellFormed
<1>8. CASE AddComment(c)
  <2>1. call[c].req \in Requests /\ call[c].actor \in Users
    BY <1>8, <1>c DEF AddComment, WellFormed
  <2> QED
    BY <1>8, <1>i, <2>1 DEF AddComment, TypeOK, CallsWellFormed, RowsWellFormed, org
<1>9. CASE Enqueue(c)
  <2>1. JobOf(call[c]) \in JobTypes \X Requests
    BY <1>9, <1>c, JobType DEF Enqueue, WellFormed
  <2> QED
    BY <1>9, <1>i, <2>1 DEF Enqueue, TypeOK, CallsWellFormed, RowsWellFormed, org, tables
<1>10. CASE Refuse(c) \/ Crash(c)
  BY <1>10, <1>i, TypeLocal DEF Refuse, Crash
<1> QED
  BY <1>1, <1>2, <1>3, <1>5, <1>6, <1>7, <1>8, <1>9, <1>10 DEF Proceed, Write

\* The organisation around the calls.
LEMMA TypeOrg ==
  ASSUME TypeInv, OrgStep
  PROVE  TypeInv'
<1> USE DEF TypeInv, TypeOK, CallsWellFormed, RowsWellFormed, CountOrgChange, tables
<1>1. ASSUME NEW u \in Users, IssueToken(u) PROVE TypeInv'
  BY <1>1 DEF IssueToken, TokenOf, org
<1>2. ASSUME NEW u \in Users, NEW x \in Roles, NEW d \in Departments \cup {NoDept},
             UpdateUser(u, x, d)
      PROVE  TypeInv'
  BY <1>2 DEF UpdateUser
<1>3. ASSUME NEW d \in Departments, NEW isHr \in BOOLEAN, SetHrDepartment(d, isHr)
      PROVE  TypeInv'
  BY <1>3 DEF SetHrDepartment
<1>4. ASSUME NEW d \in Departments, RemoveDepartment(d) PROVE TypeInv'
  BY <1>4 DEF RemoveDepartment, DeleteRequests, Present, Statuses, InReview, Terminal
<1>5. ASSUME NEW gone \in SUBSET Requests, RemovePolicy(gone) PROVE TypeInv'
  <2>1. /\ status' \in [Requests -> Statuses \cup {"Absent", "Deleted"}]
        /\ ledger' \in [Requests -> {"none", "pending", "confirmed"}]
        /\ comments' \subseteq Requests \X Users
    BY <1>5 DEF RemovePolicy, DeleteRequests
  <2>2. RowsWellFormed'
    BY <1>5 DEF RemovePolicy, DeleteRequests, Present, Statuses, InReview, Terminal
  <2>3. UNCHANGED <<role, dept, departments, hrDept, owner, home, stamp, tokens, jobs, call>>
        /\ orgChanges' \in Nat
    BY <1>5 DEF RemovePolicy, DeleteRequests
  <2> QED
    BY <2>1, <2>2, <2>3
<1> QED
  BY <1>1, <1>2, <1>3, <1>4, <1>5 DEF OrgStep

LEMMA TypeNext == TypeInv /\ [Next]_vars => TypeInv'
<1> SUFFICES ASSUME TypeInv, [Next]_vars PROVE TypeInv'
  OBVIOUS
<1>1. CASE UNCHANGED vars
  BY <1>1 DEF TypeInv, TypeOK, CallsWellFormed, RowsWellFormed, vars, org, tables
<1>2. CASE Next
  BY <1>2, TypeStart, TypeProceed, TypeOrg DEF Next
<1> QED
  BY <1>1, <1>2

\* Every column and every local variable keeps its type, and a call always
\* holds what its next step reads.
THEOREM TypeCorrect == Spec => []TypeOK
<1>1. Spec => []TypeInv
  BY TypeInit, TypeNext, PTL DEF Spec
<1>2. TypeInv => TypeOK
  BY DEF TypeInv
<1> QED
  BY <1>1, <1>2, PTL

-----------------------------------------------------------------------------
(* What no step ever does to a request. *)

\* A request once created exists or is deleted, its stamps stay, and its
\* ledger row moves forward only.
RowAdvances(r) ==
  /\ status[r] # "Absent" =>
       /\ status'[r] # "Absent"
       /\ owner'[r] = owner[r]
       /\ \A f \in StampFields : stamp[r][f] # NoUser => stamp'[r][f] # NoUser
       /\ ledger[r] = "none" => ledger'[r] = "none"
       /\ ledger'[r] = "pending" => ledger[r] = "pending"
  /\ ledger[r] = "confirmed" /\ status'[r] # "Deleted" => ledger'[r] = "confirmed"

\* A request no step touches advances trivially.
LEMMA UntouchedAdvances ==
  ASSUME TypeInv, UNCHANGED <<status, owner, stamp, ledger>>
  PROVE  \A r \in Requests : RowAdvances(r)
BY DEF RowAdvances

LEMMA RowsAdvance ==
  ASSUME TypeInv, [Next]_vars
  PROVE  \A r \in Requests : RowAdvances(r)
<1> USE DEF TypeInv
<1>1. ASSUME NEW c \in Calls, NEW u \in Users, Start(c, u) PROVE \A r \in Requests : RowAdvances(r)
  <2>1. UNCHANGED <<status, owner, stamp, ledger>>
    BY <1>1 DEF Start, BeginSubmit, BeginTeamLeadComment, BeginDeptApprove, BeginHrApprove,
                BeginReject, BeginCancel, BeginAddComment, Begin, tables
  <2> QED
    BY <2>1, UntouchedAdvances
<1>2. ASSUME NEW c \in Calls, Authorize(c) \/ HrScope(c) \/ AddComment(c) \/ Enqueue(c)
                              \/ Refuse(c) \/ Crash(c)
      PROVE  \A r \in Requests : RowAdvances(r)
  BY <1>2, UntouchedAdvances DEF Authorize, HrScope, AddComment, Enqueue, Refuse, Crash, tables
<1>3. ASSUME NEW c \in Calls, CreateRequest(c) PROVE \A r \in Requests : RowAdvances(r)
  BY <1>3 DEF CreateRequest, RowAdvances, TypeOK, RowsWellFormed
<1>4. ASSUME NEW c \in Calls, NEW op \in Ops \ {"submit", "addComment"}, NEW s \in Statuses, NEW f \in StampFields,
             Update(c, op, s, f),
             ledger' \in {ledger, Confirmed(call[c].req), Released(call[c].req)}
      PROVE  \A r \in Requests : RowAdvances(r)
  <2>1. call[c].req \in Requests /\ call[c].actor \in Users
    BY <1>4 DEF Update, TypeOK, CallsWellFormed, WellFormed
  <2>2. \A r \in Requests : \A g \in StampFields : stamp[r][g] # NoUser => stamp'[r][g] # NoUser
    BY <1>4, <2>1, ConstantsAssumption DEF Update, TypeOK
  <2>3. \A r \in Requests : /\ ledger[r] = "none" => ledger'[r] = "none"
                            /\ ledger'[r] = "pending" => ledger[r] = "pending"
                            /\ ledger[r] = "confirmed" => ledger'[r] = "confirmed"
    BY <1>4, <2>1 DEF Confirmed, Released, TypeOK
  <2>4. \A r \in Requests : status[r] # "Absent" => status'[r] # "Absent" /\ owner'[r] = owner[r]
    BY <1>4, <2>1 DEF Update, TypeOK, Statuses, InReview, Terminal
  <2> QED
    BY <2>2, <2>3, <2>4 DEF RowAdvances
<1>5. ASSUME NEW c \in Calls, TeamLeadComment(c) \/ DeptApprove(c) \/ HrApprove(c) \/ Reject(c)
      PROVE  \A r \in Requests : RowAdvances(r)
  <2>1. StampField(call[c].seen) \in StampFields
    BY DEF StampField, StampFields
  <2> QED
    BY <1>4, <1>5, <2>1 DEF TeamLeadComment, DeptApprove, HrApprove, Reject, Ops, StampFields,
                            Statuses, InReview, Terminal
<1>6. ASSUME NEW c \in Calls, Cancel(c) PROVE \A r \in Requests : RowAdvances(r)
  <2>1. call[c].req \in Requests
    BY <1>6 DEF Cancel, TypeOK, CallsWellFormed, WellFormed
  <2> QED
    BY <1>6, <2>1 DEF Cancel, Released, RowAdvances, TypeOK
<1>7. CASE OrgStep
  <2>1. ASSUME NEW gone \in SUBSET Requests, \A r \in gone : Present(r), DeleteRequests(gone)
        PROVE  \A r \in Requests : RowAdvances(r)
    BY <2>1 DEF DeleteRequests, RowAdvances, Present, Statuses, InReview, Terminal, TypeOK,
                RowsWellFormed
  <2> QED
    BY <1>7, <2>1, UntouchedAdvances
       DEF OrgStep, IssueToken, UpdateUser, SetHrDepartment, RemoveDepartment, RemovePolicy, tables
<1>8. CASE UNCHANGED vars
  BY <1>8, UntouchedAdvances DEF vars, tables
<1> QED
  BY <1>1, <1>2, <1>3, <1>5, <1>6, <1>7, <1>8 DEF Next, Proceed, Write

\* A ledger row is never reserved twice and, once deducted, is only removed
\* with its request: for every number of overlapping calls.
THEOREM DeductionsAreKept == Spec => LedgerMovesForward
<1>1. TypeInv /\ [Next]_vars =>
        [\A r \in Requests :
           /\ ledger[r] = "none" /\ status[r] # "Absent" => ledger'[r] = "none"
           /\ ledger[r] = "confirmed" /\ status'[r] # "Deleted"
                => ledger'[r] = "confirmed"]_vars
  BY RowsAdvance DEF RowAdvances
<1>2. Spec => []TypeInv
  BY TypeInit, TypeNext, PTL DEF Spec
<1> QED
  BY <1>1, <1>2, PTL DEF Spec, LedgerMovesForward

-----------------------------------------------------------------------------
(* The chain of approvals, with calls overlapping in every way.  A call that *)
(* read a stage may write after the stage has changed; what saves the chain  *)
(* is that the stamps the stage stood for never go away.                     *)

\* What a call in flight can rely on, whatever other calls did since its read.
Evidence(k) ==
  /\ k.pc # "idle" /\ k.op # "submit" => status[k.req] # "Absent"
  /\ k.pc # "idle" /\ k.op \in {"deptApprove", "hrApprove"} => Stamped(k.req, "teamLead")
  /\ k.pc # "idle" /\ k.op = "hrApprove" => Stamped(k.req, "dept")
  /\ k.pc = "enqueue" =>
       /\ status[k.req] # "Absent"
       /\ k.op = "submit" => \A f \in InitialStamps(k.seen) : Stamped(k.req, f)
       /\ k.op = "teamLeadComment" => Stamped(k.req, "teamLead")
       /\ k.op = "deptApprove" => Stamped(k.req, "dept")
       /\ k.op = "hrApprove" => FinallyStamped(k.req)
       /\ k.op \in {"hrApprove", "reject", "cancel"} => ledger[k.req] # "pending"

JobsExist == \A j \in jobs : status[j[2]] # "Absent"

ChainInv == /\ TypeInv
            /\ StampsComplete /\ DecisionFreesReservation
            /\ DeductionWasApproved /\ JobsFollowCommits /\ JobsExist
            /\ \A c \in Calls : Evidence(call[c])

\* Evidence survives every step of every other call.
LEMMA EvidenceStable ==
  ASSUME ChainInv, \A r \in Requests : RowAdvances(r),
         NEW c \in Calls, call'[c] = call[c]
  PROVE  Evidence(call[c])'
<1> DEFINE k == call[c]
<1>1. k.pc # "idle" => WellFormed(k) /\ (k.op # "submit" \/ k.pc = "enqueue" => k.req \in Requests)
  BY DEF ChainInv, TypeInv, CallsWellFormed, WellFormed
<1>2. Evidence(k)
  BY DEF ChainInv
<1>3. \A x \in Roles : InitialStamps(x) \subseteq StampFields
  BY RoutingType
<1>4. k.pc # "idle" /\ k.op = "submit" => k.seen \in Roles
  BY DEF ChainInv, TypeInv, CallsWellFormed, WellFormed
<1> QED
  BY <1>1, <1>2, <1>3, <1>4 DEF Evidence, RowAdvances, Stamped, FinallyStamped, StampFields,
     ChainInv, DecisionFreesReservation

\* Jobs already in the queue stay justified.
LEMMA JobsStable ==
  ASSUME ChainInv, \A r \in Requests : RowAdvances(r), jobs' = jobs
  PROVE  JobsFollowCommits' /\ JobsExist'
<1>1. \A r \in Requests, t \in JobTypes : <<t, r>> \in jobs => status[r] # "Absent"
  BY DEF ChainInv, JobsExist
<1>2. \A j \in jobs : j[2] \in Requests
  BY DEF ChainInv, TypeInv, TypeOK
<1>3. JobsFollowCommits'
  BY <1>1 DEF ChainInv, JobsFollowCommits, RowAdvances, Stamped, FinallyStamped, StampFields, JobTypes
<1>4. JobsExist'
  BY <1>2 DEF ChainInv, JobsExist, RowAdvances
<1> QED
  BY <1>3, <1>4

\* Nothing about the rows changes when no column does.
LEMMA RowsStable ==
  ASSUME ChainInv, UNCHANGED <<status, stamp, ledger>>
  PROVE  StampsComplete' /\ DecisionFreesReservation' /\ DeductionWasApproved'
BY DEF ChainInv, StampsComplete, DecisionFreesReservation, DeductionWasApproved,
       Stamped, FinallyStamped

\* A new row carries the stamps of the stage it enters at.
LEMMA CreateKeepsChain ==
  ASSUME ChainInv, NEW c \in Calls, CreateRequest(c)
  PROVE  /\ StampsComplete' /\ DecisionFreesReservation' /\ DeductionWasApproved'
         /\ Evidence(call[c])'
<1> DEFINE k == call[c]
<1>1. PICK r \in Requests :
        /\ status[r] = "Absent"
        /\ status' = [status EXCEPT ![r] = InitialStatus(k.seen)]
        /\ stamp'  = [stamp EXCEPT ![r] =
             [f \in StampFields |-> IF f \in InitialStamps(k.seen) THEN k.actor ELSE NoUser]]
        /\ ledger' = [ledger EXCEPT ![r] = "pending"]
        /\ call'   = [call EXCEPT ![c].pc = "enqueue", ![c].req = r]
  BY DEF CreateRequest
<1>2. k.op = "submit" /\ k.pc = "write"
  BY DEF CreateRequest
<1>3. k.seen \in Roles /\ k.actor \in Users /\ k \in CallRecord
  BY <1>2 DEF ChainInv, TypeInv, TypeOK, CallsWellFormed, WellFormed
<1>4. k.actor # NoUser
  BY <1>3, ConstantsAssumption
<1>5. /\ status'[r] = InitialStatus(k.seen) /\ ledger'[r] = "pending"
      /\ \A f \in StampFields : f \in InitialStamps(k.seen) => stamp'[r][f] # NoUser
      /\ \A q \in Requests \ {r} :
           status'[q] = status[q] /\ ledger'[q] = ledger[q] /\ stamp'[q] = stamp[q]
  BY <1>1, <1>4 DEF ChainInv, TypeInv, TypeOK
<1>6. /\ InitialStatus(k.seen) \in InReview
      /\ InitialStatus(k.seen) # "PENDING" => "teamLead" \in InitialStamps(k.seen)
      /\ InitialStatus(k.seen) = "DEPT_APPROVED" => "dept" \in InitialStamps(k.seen)
      /\ InitialStamps(k.seen) \subseteq StampFields
  BY <1>3 DEF InitialStatus, InitialStamps, InReview, StampFields
<1>7. StampsComplete'
  BY <1>5, <1>6 DEF ChainInv, StampsComplete, Stamped, FinallyStamped, InReview, StampFields
<1>8. DecisionFreesReservation' /\ DeductionWasApproved'
  BY <1>5, <1>6 DEF ChainInv, DecisionFreesReservation, DeductionWasApproved, Stamped, FinallyStamped
<1>9. call'[c].pc = "enqueue" /\ call'[c].req = r /\ call'[c].op = "submit" /\ call'[c].seen = k.seen
  BY <1>1, <1>2, <1>3 DEF CallRecord, ChainInv, TypeInv, TypeOK
<1>10. Evidence(call[c])'
  BY <1>5, <1>6, <1>9 DEF Evidence, Stamped, InReview
<1> QED
  BY <1>7, <1>8, <1>10

\* A review command writes a status whose stamps its evidence guarantees.
LEMMA UpdateKeepsChain ==
  ASSUME ChainInv, NEW c \in Calls,
         TeamLeadComment(c) \/ DeptApprove(c) \/ HrApprove(c) \/ Reject(c) \/ Cancel(c)
  PROVE  /\ StampsComplete' /\ DecisionFreesReservation' /\ DeductionWasApproved'
         /\ Evidence(call[c])'
<1> DEFINE k == call[c]
<1>0. /\ k.pc = "write" /\ k \in CallRecord /\ k.actor \in Users /\ k.req \in Requests
      /\ Evidence(k) /\ WellFormed(k) /\ k.op # "submit"
  BY DEF TeamLeadComment, DeptApprove, HrApprove, Reject, Cancel, Update,
         ChainInv, TypeInv, TypeOK, CallsWellFormed, WellFormed
<1> SUFFICES ASSUME NEW r \in Requests, k.req = r
             PROVE  /\ StampsComplete' /\ DecisionFreesReservation' /\ DeductionWasApproved'
                    /\ Evidence(call[c])'
  BY <1>0
<1>1. /\ k.pc = "write" /\ k \in CallRecord /\ k.actor \in Users
      /\ Evidence(k) /\ WellFormed(k) /\ k.op # "submit"
  BY <1>0
<1>2. k.actor # NoUser
  BY <1>1, ConstantsAssumption
<1>3. /\ call' = [call EXCEPT ![c].pc = "enqueue"]
      /\ \A q \in Requests \ {r} :
           status'[q] = status[q] /\ ledger'[q] = ledger[q] /\ stamp'[q] = stamp[q]
  BY <1>1 DEF TeamLeadComment, DeptApprove, HrApprove, Reject, Cancel, Update, Confirmed, Released,
              ChainInv, TypeInv, TypeOK
<1>4. /\ call'[c].pc = "enqueue" /\ call'[c].req = r
      /\ call'[c].op = k.op /\ call'[c].seen = k.seen
  BY <1>1, <1>3 DEF CallRecord, ChainInv, TypeInv, TypeOK
<1>5. /\ StampsComplete /\ DecisionFreesReservation /\ DeductionWasApproved
      /\ status \in [Requests -> Statuses \cup {"Absent", "Deleted"}]
      /\ stamp \in [Requests -> [StampFields -> Users \cup {NoUser}]]
      /\ ledger \in [Requests -> {"none", "pending", "confirmed"}]
      /\ status[r] # "Absent"
  BY <1>1 DEF ChainInv, TypeInv, TypeOK, Evidence
<1> DEFINE RowGood ==
      /\ status'[r] \in {"TEAM_LEAD_COMMENTED", "DEPT_APPROVED", "APPROVED"} => Stamped(r, "teamLead")'
      /\ status'[r] \in {"DEPT_APPROVED", "APPROVED"} => Stamped(r, "dept")'
      /\ status'[r] = "APPROVED" => FinallyStamped(r)'
      /\ status'[r] \notin InReview => ledger'[r] # "pending"
      /\ ledger'[r] = "confirmed"
           => Stamped(r, "teamLead")' /\ Stamped(r, "dept")' /\ FinallyStamped(r)'
<1>6. CASE TeamLeadComment(c)
  <2>1. /\ status'[r] = "TEAM_LEAD_COMMENTED" /\ ledger' = ledger /\ k.op = "teamLeadComment"
        /\ stamp'[r] = [stamp[r] EXCEPT !["teamLead"] = k.actor]
    BY <1>1, <1>5, <1>6 DEF TeamLeadComment, Update
  <2>2. RowGood /\ Stamped(r, "teamLead")'
    BY <1>1, <1>2, <1>5, <2>1 DEF StampFields, Stamped, FinallyStamped, InReview, DeductionWasApproved
  <2>3. Evidence(call[c])'
    BY <1>4, <2>1, <2>2 DEF Evidence
  <2> QED
    BY <1>3, <1>5, <2>2, <2>3
       DEF StampsComplete, DecisionFreesReservation, DeductionWasApproved, Stamped, FinallyStamped
<1>7. CASE DeptApprove(c)
  <2>1. /\ status'[r] = "DEPT_APPROVED" /\ ledger' = ledger /\ k.op = "deptApprove"
        /\ stamp'[r] = [stamp[r] EXCEPT !["dept"] = k.actor]
    BY <1>1, <1>5, <1>7 DEF DeptApprove, Update
  <2>2. Stamped(r, "teamLead")
    BY <1>1, <2>1 DEF Evidence
  <2>3. RowGood /\ Stamped(r, "dept")' /\ Stamped(r, "teamLead")'
    BY <1>1, <1>2, <1>5, <2>1, <2>2
       DEF StampFields, Stamped, FinallyStamped, InReview, DeductionWasApproved
  <2>4. Evidence(call[c])'
    BY <1>4, <2>1, <2>3 DEF Evidence
  <2> QED
    BY <1>3, <1>5, <2>3, <2>4
       DEF StampsComplete, DecisionFreesReservation, DeductionWasApproved, Stamped, FinallyStamped
<1>8. CASE HrApprove(c)
  <2>1. StampField(k.seen) \in {"hr", "tenantAdmin"} /\ k.op = "hrApprove"
    BY <1>1, <1>8 DEF HrApprove, Update, WellFormed, StampField
  <2>2. /\ status'[r] = "APPROVED"
        /\ ledger'[r] = IF ledger[r] = "pending" THEN "confirmed" ELSE ledger[r]
        /\ stamp'[r] = [stamp[r] EXCEPT ![StampField(k.seen)] = k.actor]
    BY <1>1, <1>5, <1>8 DEF HrApprove, Update, Confirmed
  <2>3. Stamped(r, "teamLead") /\ Stamped(r, "dept")
    BY <1>1, <2>1 DEF Evidence
  <2>4. /\ RowGood /\ FinallyStamped(r)' /\ ledger'[r] # "pending"
        /\ Stamped(r, "dept")' /\ Stamped(r, "teamLead")'
    BY <1>1, <1>2, <1>5, <2>1, <2>2, <2>3 DEF StampFields, Stamped, FinallyStamped, InReview
  <2>5. Evidence(call[c])'
    BY <1>4, <2>1, <2>2, <2>4 DEF Evidence
  <2> QED
    BY <1>3, <1>5, <2>4, <2>5
       DEF StampsComplete, DecisionFreesReservation, DeductionWasApproved, Stamped, FinallyStamped
<1>9. CASE Reject(c)
  <2>1. StampField(k.seen) \in StampFields /\ k.op = "reject"
    BY <1>9 DEF Reject, Update, StampField, StampFields
  <2>2. /\ status'[r] = "REJECTED"
        /\ ledger'[r] = IF ledger[r] = "pending" THEN "none" ELSE ledger[r]
        /\ stamp'[r] = [stamp[r] EXCEPT ![StampField(k.seen)] = k.actor]
    BY <1>1, <1>5, <1>9 DEF Reject, Update, Released
  <2>3. RowGood /\ ledger'[r] # "pending"
    BY <1>1, <1>2, <1>5, <2>1, <2>2
       DEF StampFields, Stamped, FinallyStamped, InReview, DeductionWasApproved
  <2>4. Evidence(call[c])'
    BY <1>4, <2>1, <2>2, <2>3 DEF Evidence
  <2> QED
    BY <1>3, <1>5, <2>3, <2>4
       DEF StampsComplete, DecisionFreesReservation, DeductionWasApproved, Stamped, FinallyStamped
<1>10. CASE Cancel(c)
  <2>1. /\ status'[r] = "CANCELLED" /\ stamp' = stamp /\ k.op = "cancel"
        /\ ledger'[r] = IF ledger[r] = "pending" THEN "none" ELSE ledger[r]
    BY <1>1, <1>5, <1>10 DEF Cancel, Released
  <2>2. RowGood /\ ledger'[r] # "pending"
    BY <1>1, <1>5, <2>1 DEF Stamped, FinallyStamped, InReview, DeductionWasApproved
  <2>3. Evidence(call[c])'
    BY <1>4, <2>1, <2>2 DEF Evidence
  <2> QED
    BY <1>3, <1>5, <2>2, <2>3
       DEF StampsComplete, DecisionFreesReservation, DeductionWasApproved, Stamped, FinallyStamped
<1> QED
  BY <1>6, <1>7, <1>8, <1>9, <1>10

\* A call that has just begun relies on what it read in the same step.
LEMMA StartEvidence ==
  ASSUME ChainInv, NEW c \in Calls, NEW u \in Users, Start(c, u)
  PROVE  /\ UNCHANGED <<org, tokens, tables, jobs>>
         /\ Evidence(call[c])'
         /\ \A d \in Calls \ {c} : call'[d] = call[d]
<1>1. ASSUME NEW op \in Ops, NEW r \in Requests \cup {NoRequest}, NEW pc \in {"authorize", "write"},
             NEW x, NEW d, Begin(c, u, op, r, pc, x, d),
             op # "submit" => status[r] # "Absent",
             op \in {"deptApprove", "hrApprove"} => Stamped(r, "teamLead"),
             op = "hrApprove" => Stamped(r, "dept")
      PROVE  /\ UNCHANGED <<org, tokens, tables, jobs>>
             /\ Evidence(call[c])'
             /\ \A e \in Calls \ {c} : call'[e] = call[e]
  <2>1. /\ call'[c] = [pc |-> pc, op |-> op, actor |-> u, req |-> r, seen |-> x, dept |-> d]
        /\ \A e \in Calls \ {c} : call'[e] = call[e]
        /\ UNCHANGED <<org, tokens, tables, jobs>>
    BY <1>1 DEF Begin, ChainInv, TypeInv, TypeOK
  <2>2. UNCHANGED <<status, stamp, ledger>>
    BY <2>1 DEF tables
  <2> QED
    BY <1>1, <2>1, <2>2 DEF Evidence, Stamped
<1>2. CASE BeginSubmit(c, u)
  BY <1>1, <1>2 DEF BeginSubmit, Ops
<1>3. ASSUME NEW r \in Requests,
             \/ BeginTeamLeadComment(c, u, r) \/ BeginReject(c, u, r)
             \/ BeginCancel(c, u, r) \/ BeginAddComment(c, u, r)
      PROVE  /\ UNCHANGED <<org, tokens, tables, jobs>>
             /\ Evidence(call[c])'
             /\ \A e \in Calls \ {c} : call'[e] = call[e]
  BY <1>1, <1>3 DEF BeginTeamLeadComment, BeginReject, BeginCancel, BeginAddComment, Ops,
                    Rejectable, Cancellable, Statuses, InReview, Terminal
<1>4. ASSUME NEW r \in Requests, BeginDeptApprove(c, u, r) \/ BeginHrApprove(c, u, r)
      PROVE  /\ UNCHANGED <<org, tokens, tables, jobs>>
             /\ Evidence(call[c])'
             /\ \A e \in Calls \ {c} : call'[e] = call[e]
  BY <1>1, <1>4 DEF BeginDeptApprove, BeginHrApprove, Ops, ChainInv, StampsComplete
<1> QED
  BY <1>2, <1>3, <1>4 DEF Start

\* Looking up the actor and the tenant leaves the evidence as it was; so does
\* ending a call.
LEMMA LookupEvidence ==
  ASSUME ChainInv, NEW c \in Calls,
         Authorize(c) \/ HrScope(c) \/ Refuse(c) \/ Crash(c) \/ AddComment(c) \/ Enqueue(c)
  PROVE  /\ UNCHANGED <<status, stamp, ledger>>
         /\ Evidence(call[c])'
         /\ \A d \in Calls \ {c} : call'[d] = call[d]
<1>1. /\ UNCHANGED <<status, stamp, ledger>>
      /\ \A d \in Calls \ {c} : call'[d] = call[d]
  BY DEF Authorize, HrScope, Refuse, Crash, AddComment, Enqueue, tables, ChainInv, TypeInv, TypeOK
<1>2. call[c] \in CallRecord /\ Evidence(call[c]) /\ WellFormed(call[c])
  BY DEF ChainInv, TypeInv, TypeOK, CallsWellFormed
<1>3. CASE Authorize(c) \/ HrScope(c)
  <2>1. /\ call'[c].pc \in {"scope", "write"} /\ call[c].pc # "idle"
        /\ call'[c].op = call[c].op /\ call'[c].req = call[c].req
        /\ call[c].op # "submit"
    BY <1>2, <1>3 DEF Authorize, HrScope, CallRecord, WellFormed, ChainInv, TypeInv, TypeOK
  <2> QED
    BY <1>1, <1>2, <2>1 DEF Evidence, Stamped
<1>4. CASE Refuse(c) \/ Crash(c) \/ AddComment(c) \/ Enqueue(c)
  <2>1. call'[c].pc = "idle"
    BY <1>4 DEF Refuse, Crash, AddComment, Enqueue, Idle, ChainInv, TypeInv, TypeOK
  <2> QED
    BY <1>1, <2>1 DEF Evidence
<1> QED
  BY <1>1, <1>3, <1>4

\* The job a call adds announces what its evidence says it wrote.
LEMMA EnqueueJustified ==
  ASSUME ChainInv, NEW c \in Calls, Enqueue(c)
  PROVE  JobsFollowCommits' /\ JobsExist'
<1> DEFINE k == call[c]
<1>1. /\ k.pc = "enqueue" /\ jobs' = jobs \cup {JobOf(k)} /\ UNCHANGED <<status, stamp, ledger>>
      /\ Evidence(k) /\ WellFormed(k)
  BY DEF Enqueue, tables, ChainInv, TypeInv, CallsWellFormed
<1>2. k.req \in Requests /\ k.op \in Ops /\ (k.op = "submit" => k.seen \in Roles)
  BY <1>1 DEF WellFormed
<1>3. JobsExist'
  BY <1>1 DEF JobOf, Evidence, JobsExist, ChainInv
<1>4. PICK t : t = JobOf(k)[1]
  OBVIOUS
<1>5. JobOf(k) = <<t, k.req>>
  BY <1>4 DEF JobOf
<1>6. /\ t = "TEAM_LEAD_COMMENTED" => Stamped(k.req, "teamLead")
      /\ t = "DEPT_APPROVED" => Stamped(k.req, "dept")
      /\ t = "APPROVED" => FinallyStamped(k.req) /\ ledger[k.req] # "pending"
      /\ t = "REJECTED" => ledger[k.req] # "pending"
      /\ t = "CANCELLED" => ledger[k.req] # "pending"
  <2>1. CASE k.op = "submit"
    BY <1>1, <1>2, <1>4, <2>1 DEF JobOf, JobTypeOf, Evidence, InitialStatus, InitialStamps, Roles
  <2>2. CASE k.op # "submit"
    BY <1>1, <1>2, <1>4, <2>2 DEF JobOf, Evidence, Ops, WellFormed
  <2> QED
    BY <2>1, <2>2
<1>7. \A s, r : <<s, r>> \in jobs' => <<s, r>> \in jobs \/ (s = t /\ r = k.req)
  BY <1>1, <1>5
<1>8. JobsFollowCommits'
  BY <1>1, <1>6, <1>7 DEF ChainInv, JobsFollowCommits, Stamped, FinallyStamped
<1> QED
  BY <1>3, <1>8

LEMMA ChainInit == Init => ChainInv
<1> SUFFICES ASSUME Init PROVE ChainInv
  OBVIOUS
<1>1. \A r \in Requests : status[r] = "Absent" /\ ledger[r] = "none"
  BY DEF Init
<1>2. \A c \in Calls : call[c].pc = "idle"
  BY DEF Init, Idle
<1>3. jobs = {}
  BY DEF Init
<1> QED
  BY <1>1, <1>2, <1>3, TypeInit
     DEF ChainInv, StampsComplete, DecisionFreesReservation, DeductionWasApproved,
         JobsFollowCommits, JobsExist, Evidence

\* A deletion takes requests out of review and drops their rows.
LEMMA RemoveKeepsChain ==
  ASSUME ChainInv, NEW gone \in SUBSET Requests, DeleteRequests(gone)
  PROVE  StampsComplete' /\ DecisionFreesReservation' /\ DeductionWasApproved'
BY DEF DeleteRequests, ChainInv, TypeInv, TypeOK, StampsComplete, DecisionFreesReservation,
       DeductionWasApproved, Stamped, FinallyStamped

LEMMA ChainNext == ChainInv /\ [Next]_vars => ChainInv'
<1> SUFFICES ASSUME ChainInv, [Next]_vars PROVE ChainInv'
  OBVIOUS
<1>1. TypeInv'
  BY TypeNext DEF ChainInv
<1>2. \A r \in Requests : RowAdvances(r)
  BY RowsAdvance DEF ChainInv
<1>3. ASSUME NEW c \in Calls, Evidence(call[c])', \A d \in Calls \ {c} : call'[d] = call[d]
      PROVE  \A d \in Calls : Evidence(call[d])'
  BY <1>2, <1>3, EvidenceStable
<1>4. ASSUME NEW c \in Calls, NEW u \in Users, Start(c, u) PROVE ChainInv'
  <2>1. UNCHANGED <<status, stamp, ledger, jobs>>
    BY <1>4, StartEvidence DEF tables
  <2> QED
    BY <1>1, <1>2, <1>3, <1>4, <2>1, StartEvidence, RowsStable, JobsStable DEF ChainInv
<1>5. ASSUME NEW c \in Calls,
             Authorize(c) \/ HrScope(c) \/ Refuse(c) \/ Crash(c) \/ AddComment(c)
      PROVE  ChainInv'
  <2>1. jobs' = jobs
    BY <1>5 DEF Authorize, HrScope, Refuse, Crash, AddComment
  <2> QED
    BY <1>1, <1>2, <1>3, <1>5, <2>1, LookupEvidence, RowsStable, JobsStable DEF ChainInv
<1>6. ASSUME NEW c \in Calls, Enqueue(c) PROVE ChainInv'
  BY <1>1, <1>3, <1>6, LookupEvidence, RowsStable, EnqueueJustified DEF ChainInv
<1>7. ASSUME NEW c \in Calls, CreateRequest(c) PROVE ChainInv'
  <2>1. jobs' = jobs /\ \A d \in Calls \ {c} : call'[d] = call[d]
    BY <1>7 DEF CreateRequest, ChainInv, TypeInv, TypeOK
  <2> QED
    BY <1>1, <1>2, <1>3, <1>7, <2>1, CreateKeepsChain, JobsStable DEF ChainInv
<1>8. ASSUME NEW c \in Calls,
             TeamLeadComment(c) \/ DeptApprove(c) \/ HrApprove(c) \/ Reject(c) \/ Cancel(c)
      PROVE  ChainInv'
  <2>1. jobs' = jobs /\ \A d \in Calls \ {c} : call'[d] = call[d]
    BY <1>8 DEF TeamLeadComment, DeptApprove, HrApprove, Reject, Cancel, Update,
                ChainInv, TypeInv, TypeOK
  <2> QED
    BY <1>1, <1>2, <1>3, <1>8, <2>1, UpdateKeepsChain, JobsStable DEF ChainInv
<1>9. CASE OrgStep \/ UNCHANGED vars
  <2>1. call' = call /\ jobs' = jobs
    BY <1>9 DEF OrgStep, IssueToken, UpdateUser, SetHrDepartment, RemoveDepartment, RemovePolicy,
                vars
  <2>2. StampsComplete' /\ DecisionFreesReservation' /\ DeductionWasApproved'
    <3>1. CASE \E gone \in SUBSET Requests : DeleteRequests(gone)
      BY <3>1, RemoveKeepsChain
    <3>2. CASE UNCHANGED <<status, stamp, ledger>>
      BY <3>2, RowsStable
    <3> QED
      BY <1>9, <3>1, <3>2 DEF OrgStep, IssueToken, UpdateUser, SetHrDepartment,
                              RemoveDepartment, RemovePolicy, vars, tables
  <2>3. \A d \in Calls : Evidence(call[d])'
    BY <1>2, <2>1, EvidenceStable
  <2> QED
    BY <1>1, <1>2, <2>1, <2>2, <2>3, JobsStable DEF ChainInv
<1> QED
  BY <1>4, <1>5, <1>6, <1>7, <1>8, <1>9 DEF Next, Proceed, Write

LEMMA ChainCorrect == Spec => []ChainInv
BY ChainInit, ChainNext, PTL DEF Spec

\* However calls overlap, die or meet a reorganisation, an approved request
\* carries the stamp of every stage.
THEOREM NoStageIsSkipped == Spec => []StampsComplete
<1>1. ChainInv => StampsComplete
  BY DEF ChainInv
<1> QED
  BY <1>1, ChainCorrect, PTL

\* A decided request never keeps days reserved.
THEOREM DecisionsFreeReservations == Spec => []DecisionFreesReservation
<1>1. ChainInv => DecisionFreesReservation
  BY DEF ChainInv
<1> QED
  BY <1>1, ChainCorrect, PTL

\* Days are deducted only for a request that went through all three stages.
THEOREM DeductionsAreApproved == Spec => []DeductionWasApproved
<1>1. ChainInv => DeductionWasApproved
  BY DEF ChainInv
<1> QED
  BY <1>1, ChainCorrect, PTL

\* No notification job announces what was not committed.
THEOREM JobsAnnounceCommits == Spec => []JobsFollowCommits
<1>1. ChainInv => JobsFollowCommits
  BY DEF ChainInv
<1> QED
  BY <1>1, ChainCorrect, PTL

-----------------------------------------------------------------------------
(* Who stamped and who decided, while no user changes role or department    *)
(* and the HR department stays; policies and departments may still go.      *)

OrgSettled == UNCHANGED <<role, dept, hrDept>>

Reviews == {"teamLeadComment", "deptApprove", "hrApprove", "reject"}

\* What the checks a call has passed say about its actor.
Entitled(k) ==
  k.pc # "idle" =>
    /\ k.op = "submit" => k.seen = role[k.actor]
    /\ k.op = "teamLeadComment" => k.seen = "TEAM_LEAD"
    /\ k.op = "deptApprove" => k.seen = "DEPT_HEAD"
    /\ k.op = "hrApprove" => k.seen = FinalApproverRole(role[owner[k.req]])
    /\ k.op = "reject" => k.seen \in {"DEPT_HEAD", FinalApproverRole(role[owner[k.req]])}
    /\ k.op \in Reviews /\ k.pc \in {"scope", "write"} =>
         /\ role[k.actor] = k.seen
         /\ k.seen \in DepartmentRoles => dept[k.actor] = home[k.req]
         /\ k.dept = dept[k.actor]
         /\ k.seen = "HR_ADMIN" /\ k.pc = "write" => k.dept = hrDept

AuthInv == /\ ChainInv
           /\ StampsAreAuthorised /\ OwnersDoNotDecide
           /\ \A c \in Calls : Entitled(call[c])

\* A request keeps its owner and its department.
LEMMA IdentityKept ==
  ASSUME TypeInv, [Next]_vars
  PROVE  \A r \in Requests : status[r] # "Absent" => owner'[r] = owner[r] /\ home'[r] = home[r]
<1>1. \A r \in Requests : status[r] # "Absent" => owner'[r] = owner[r]
  BY RowsAdvance DEF RowAdvances
<1>2. home' = home \/ \E c \in Calls : CreateRequest(c)
  <2>1. ASSUME NEW c \in Calls, NEW u \in Users, Start(c, u) PROVE home' = home
    BY <2>1 DEF Start, BeginSubmit, BeginTeamLeadComment, BeginDeptApprove, BeginHrApprove,
                BeginReject, BeginCancel, BeginAddComment, Begin, tables
  <2>2. ASSUME NEW c \in Calls, Proceed(c) \/ Crash(c) PROVE home' = home \/ CreateRequest(c)
    BY <2>2 DEF Proceed, Authorize, HrScope, Write, TeamLeadComment, DeptApprove, HrApprove,
                Reject, Cancel, AddComment, Update, Enqueue, Refuse, Crash, tables
  <2>3. CASE OrgStep \/ UNCHANGED vars
    BY <2>3 DEF OrgStep, IssueToken, UpdateUser, SetHrDepartment, RemoveDepartment, RemovePolicy,
                DeleteRequests, tables, vars
  <2> QED
    BY <2>1, <2>2, <2>3 DEF Next
<1>3. ASSUME NEW c \in Calls, CreateRequest(c)
      PROVE  \A r \in Requests : status[r] # "Absent" => home'[r] = home[r]
  BY <1>3 DEF CreateRequest, TypeInv, TypeOK
<1> QED
  BY <1>1, <1>2, <1>3

\* A call stays entitled through every step of every other call.
LEMMA EntitledStable ==
  ASSUME AuthInv, [Next]_vars, OrgSettled, NEW c \in Calls, call'[c] = call[c]
  PROVE  Entitled(call[c])'
<1> DEFINE k == call[c]
<1>1. Entitled(k) /\ (k.pc # "idle" /\ k.op # "submit" => k.req \in Requests /\ status[k.req] # "Absent")
  BY DEF AuthInv, ChainInv, Evidence, TypeInv, CallsWellFormed, WellFormed
<1>2. k.pc # "idle" /\ k.op # "submit" => owner'[k.req] = owner[k.req] /\ home'[k.req] = home[k.req]
  BY <1>1, IdentityKept DEF AuthInv, ChainInv
<1> QED
  BY <1>1, <1>2 DEF Entitled, OrgSettled, Reviews

\* A call begins with the role its command asks for.
LEMMA StartEntitled ==
  ASSUME AuthInv, NEW c \in Calls, NEW u \in Users, Start(c, u)
  PROVE  Entitled(call[c])'
<1>1. ASSUME NEW op \in Ops, NEW r, NEW pc, NEW x, NEW d, Begin(c, u, op, r, pc, x, d),
             op # "submit" => pc \notin {"scope", "write"} \/ op \notin Reviews,
             op = "submit" => x = role[u],
             op = "teamLeadComment" => x = "TEAM_LEAD",
             op = "deptApprove" => x = "DEPT_HEAD",
             op = "hrApprove" => x = FinalApproverRole(role[owner[r]]),
             op = "reject" => x \in {"DEPT_HEAD", FinalApproverRole(role[owner[r]])}
      PROVE  Entitled(call[c])'
  <2>1. /\ call'[c] = [pc |-> pc, op |-> op, actor |-> u, req |-> r, seen |-> x, dept |-> d]
        /\ UNCHANGED <<role, dept, hrDept, owner, home>>
    BY <1>1 DEF Begin, AuthInv, ChainInv, TypeInv, TypeOK, org, tables
  <2> QED
    BY <1>1, <2>1 DEF Entitled, Reviews
<1>2. CASE BeginSubmit(c, u)
  BY <1>1, <1>2 DEF BeginSubmit, Ops, Reviews
<1>3. ASSUME NEW r \in Requests, BeginTeamLeadComment(c, u, r) PROVE Entitled(call[c])'
  BY <1>1, <1>3 DEF BeginTeamLeadComment, Ops
<1>4. ASSUME NEW r \in Requests, BeginDeptApprove(c, u, r) PROVE Entitled(call[c])'
  BY <1>1, <1>4 DEF BeginDeptApprove, Ops
<1>5. ASSUME NEW r \in Requests, BeginHrApprove(c, u, r) PROVE Entitled(call[c])'
  BY <1>1, <1>5 DEF BeginHrApprove, Ops
<1>6. ASSUME NEW r \in Requests, BeginReject(c, u, r) PROVE Entitled(call[c])'
  BY <1>1, <1>6 DEF BeginReject, RequiredRoleForStage, Ops
<1>7. ASSUME NEW r \in Requests, BeginCancel(c, u, r) PROVE Entitled(call[c])'
  BY <1>1, <1>7 DEF BeginCancel, Reviews, Ops
<1>8. ASSUME NEW r \in Requests, BeginAddComment(c, u, r) PROVE Entitled(call[c])'
  BY <1>1, <1>8 DEF BeginAddComment, Ops
<1> QED
  BY <1>2, <1>3, <1>4, <1>5, <1>6, <1>7, <1>8 DEF Start

\* The lookups entitle the call to what it will write; ending a call leaves
\* nothing to be entitled to.
LEMMA ProceedEntitled ==
  ASSUME AuthInv, NEW c \in Calls, Proceed(c) \/ Crash(c), OrgSettled,
         \A r \in Requests : status[r] # "Absent" => owner'[r] = owner[r] /\ home'[r] = home[r]
  PROVE  Entitled(call[c])'
<1> DEFINE k == call[c]
<1>1. /\ Entitled(k) /\ WellFormed(k) /\ k \in CallRecord /\ call \in [Calls -> CallRecord]
      /\ k.pc # "idle" /\ k.op # "submit" => k.req \in Requests /\ status[k.req] # "Absent"
  BY DEF AuthInv, ChainInv, TypeInv, TypeOK, CallsWellFormed, Evidence, WellFormed
<1>2. CASE Authorize(c)
  <2>1. /\ k.pc = "authorize" /\ PassesActorCheck(k)
        /\ call'[c] = [k EXCEPT !.pc = IF role[k.actor] = "HR_ADMIN" THEN "scope" ELSE "write",
                                !.seen = role[k.actor], !.dept = dept[k.actor]]
    BY <1>1, <1>2 DEF Authorize
  <2>2. /\ call'[c].pc = (IF role[k.actor] = "HR_ADMIN" THEN "scope" ELSE "write")
        /\ call'[c].seen = role[k.actor] /\ call'[c].dept = dept[k.actor]
        /\ call'[c].op = k.op /\ call'[c].req = k.req /\ call'[c].actor = k.actor
    BY <1>1, <2>1 DEF CallRecord
  <2>3. k.op # "submit" /\ k.req \in Requests /\ owner'[k.req] = owner[k.req] /\ home'[k.req] = home[k.req]
    BY <1>1, <2>1 DEF WellFormed
  <2>4. k.op \in Reviews => role[k.actor] = k.seen
    BY <2>1 DEF PassesActorCheck, RequiredRoles, Reviews
  <2>5. role[k.actor] \in DepartmentRoles => dept[k.actor] = home[k.req]
    BY <2>1 DEF PassesActorCheck
  <2> QED
    BY <1>1, <2>1, <2>2, <2>3, <2>4, <2>5 DEF Entitled, OrgSettled, Reviews
<1>3. CASE HrScope(c)
  <2>1. /\ k.pc = "scope" /\ k.dept = hrDept
        /\ call'[c].pc = "write" /\ call'[c].seen = k.seen /\ call'[c].dept = k.dept
        /\ call'[c].op = k.op /\ call'[c].req = k.req /\ call'[c].actor = k.actor
    BY <1>1, <1>3 DEF HrScope, PassesHrScope, CallRecord
  <2>3. k.op # "submit" /\ k.req \in Requests /\ owner'[k.req] = owner[k.req] /\ home'[k.req] = home[k.req]
    BY <1>1, <2>1 DEF WellFormed
  <2> QED
    BY <1>1, <2>1, <2>3 DEF Entitled, OrgSettled, Reviews
<1>4. CASE CreateRequest(c)
  <2>1. /\ k.op = "submit" /\ k.pc = "write"
        /\ call'[c].pc = "enqueue" /\ call'[c].op = "submit"
        /\ call'[c].seen = k.seen /\ call'[c].actor = k.actor
    BY <1>1, <1>4 DEF CreateRequest, CallRecord
  <2> QED
    BY <1>1, <2>1 DEF Entitled, OrgSettled, Reviews
<1>5. CASE TeamLeadComment(c) \/ DeptApprove(c) \/ HrApprove(c) \/ Reject(c) \/ Cancel(c)
  <2>1. /\ k.pc = "write" /\ call'[c].pc = "enqueue" /\ call'[c].seen = k.seen
        /\ call'[c].op = k.op /\ call'[c].req = k.req /\ call'[c].actor = k.actor
    BY <1>1, <1>5 DEF TeamLeadComment, DeptApprove, HrApprove, Reject, Cancel, Update, CallRecord
  <2>2. k.op # "submit"
    BY <1>5 DEF TeamLeadComment, DeptApprove, HrApprove, Reject, Cancel, Update
  <2>3. k.req \in Requests /\ owner'[k.req] = owner[k.req]
    BY <1>1, <2>1, <2>2
  <2> QED
    BY <1>1, <2>1, <2>2, <2>3 DEF Entitled, OrgSettled
<1>6. CASE AddComment(c) \/ Enqueue(c) \/ Refuse(c) \/ Crash(c)
  <2>1. call'[c].pc = "idle"
    BY <1>1, <1>6 DEF AddComment, Enqueue, Refuse, Crash, Idle
  <2> QED
    BY <2>1 DEF Entitled
<1> QED
  BY <1>2, <1>3, <1>4, <1>5, <1>6 DEF Proceed, Write

\* Stamps that no step touches stay those of entitled users.
LEMMA StampsKept ==
  ASSUME AuthInv, OrgSettled, stamp' = stamp,
         \A r \in Requests : status'[r] # "Absent" =>
           status[r] # "Absent" /\ owner'[r] = owner[r] /\ home'[r] = home[r]
  PROVE  StampsAreAuthorised' /\ OwnersDoNotDecide'
BY DEF AuthInv, OrgSettled, StampsAreAuthorised, OwnersDoNotDecide

\* A new request is stamped by its submitter, where the submitter's role
\* skips a stage.
LEMMA CreateStamps ==
  ASSUME AuthInv, OrgSettled, NEW c \in Calls, CreateRequest(c)
  PROVE  StampsAreAuthorised' /\ OwnersDoNotDecide'
<1> DEFINE k == call[c]
<1>1. PICK r \in Requests :
        /\ status' = [status EXCEPT ![r] = InitialStatus(k.seen)]
        /\ owner'  = [owner EXCEPT ![r] = k.actor]
        /\ home'   = [home EXCEPT ![r] = k.dept]
        /\ stamp'  = [stamp EXCEPT ![r] =
             [f \in StampFields |-> IF f \in InitialStamps(k.seen) THEN k.actor ELSE NoUser]]
  BY DEF CreateRequest
<1>2. k.op = "submit" /\ k.pc = "write"
  BY DEF CreateRequest
<1>3. k.actor \in Users /\ k.actor # NoUser /\ k.seen = role[k.actor]
  BY <1>2, ConstantsAssumption
     DEF AuthInv, ChainInv, TypeInv, CallsWellFormed, WellFormed, Entitled
<1>4. /\ owner'[r] = k.actor
      /\ \A f \in StampFields : stamp'[r][f] = IF f \in InitialStamps(k.seen) THEN k.actor ELSE NoUser
      /\ \A q \in Requests \ {r} : /\ status'[q] = status[q] /\ owner'[q] = owner[q]
                                   /\ home'[q] = home[q] /\ stamp'[q] = stamp[q]
  BY <1>1 DEF AuthInv, ChainInv, TypeInv, TypeOK
<1>5. InitialStamps(k.seen) \subseteq {"teamLead", "dept"}
  BY DEF InitialStamps
<1>6. UNCHANGED <<role, dept, hrDept>>
  BY DEF OrgSettled
<1>7. StampsAreAuthorised'
  BY <1>3, <1>4, <1>5, <1>6 DEF AuthInv, StampsAreAuthorised, StampFields
<1>8. OwnersDoNotDecide'
  BY <1>3, <1>4, <1>6 DEF AuthInv, OwnersDoNotDecide
<1> QED
  BY <1>7, <1>8

\* A review stamps the column of its stage with a user entitled to it.
LEMMA ReviewStamps ==
  ASSUME AuthInv, OrgSettled, NEW c \in Calls,
         TeamLeadComment(c) \/ DeptApprove(c) \/ HrApprove(c) \/ Reject(c)
  PROVE  StampsAreAuthorised' /\ OwnersDoNotDecide'
<1> DEFINE k == call[c]
<1>1. /\ k.pc = "write" /\ k.op \in Reviews /\ k.req \in Requests /\ k.actor \in Users
      /\ k.actor # NoUser /\ Entitled(k) /\ status[k.req] # "Absent"
      /\ k.op \in {"hrApprove", "reject"} => k.seen \in {"DEPT_HEAD", "HR_ADMIN", "TENANT_ADMIN"}
      /\ k.op = "hrApprove" => k.seen # "DEPT_HEAD"
  BY ConstantsAssumption
     DEF TeamLeadComment, DeptApprove, HrApprove, Reject, Update, Reviews, AuthInv, ChainInv,
         TypeInv, CallsWellFormed, WellFormed, Evidence
<1>2. /\ role[k.actor] = k.seen
      /\ k.seen \in DepartmentRoles => dept[k.actor] = home[k.req]
      /\ k.seen = "HR_ADMIN" => dept[k.actor] = hrDept
  BY <1>1 DEF Entitled, Reviews
<1>3. PICK r \in Requests : r = k.req
  BY <1>1
<1> DEFINE f == StampField(k.seen)
<1>4. /\ stamp' = [stamp EXCEPT ![r] = [@ EXCEPT ![f] = k.actor]]
      /\ UNCHANGED <<owner, home>>
      /\ \A q \in Requests : status'[q] # "Absent" => status[q] # "Absent"
  <2>1. k.op = "teamLeadComment" => k.seen = "TEAM_LEAD" /\ f = "teamLead"
    BY <1>1 DEF Entitled, StampField
  <2>2. k.op = "deptApprove" => k.seen = "DEPT_HEAD" /\ f = "dept"
    BY <1>1 DEF Entitled, StampField
  <2>3. status \in [Requests -> Statuses \cup {"Absent", "Deleted"}]
    BY DEF AuthInv, ChainInv, TypeInv, TypeOK
  <2> QED
    BY <1>1, <1>3, <2>1, <2>2, <2>3 DEF TeamLeadComment, DeptApprove, HrApprove, Reject, Update
<1>5. /\ f \in StampFields
      /\ f = "teamLead" => k.seen = "TEAM_LEAD"
      /\ f = "dept" => k.seen = "DEPT_HEAD"
      /\ f = "hr" => k.seen = "HR_ADMIN"
      /\ f = "tenantAdmin" => k.seen = "TENANT_ADMIN"
  BY <1>1 DEF StampField, StampFields, Entitled, Reviews
<1>6. k.seen \in {"HR_ADMIN", "TENANT_ADMIN"} => k.seen = FinalApproverRole(role[owner[r]])
  BY <1>1, <1>3 DEF Entitled, Reviews
<1>7. /\ k.seen = "TENANT_ADMIN" => role[owner[r]] = "HR_ADMIN"
      /\ k.seen \in {"HR_ADMIN", "TENANT_ADMIN"} => k.actor # owner[r]
  BY <1>2, <1>6 DEF FinalApproverRole
<1>8. /\ stamp'[r][f] = k.actor
      /\ \A g \in StampFields \ {f} : stamp'[r][g] = stamp[r][g]
      /\ \A q \in Requests \ {r} : stamp'[q] = stamp[q]
  BY <1>4, <1>5 DEF AuthInv, ChainInv, TypeInv, TypeOK
<1>9. UNCHANGED <<role, dept, hrDept>>
  BY DEF OrgSettled
<1>10. ASSUME NEW q \in Requests, status'[q] # "Absent"
       PROVE  LET by == stamp'[q] IN
              /\ by["teamLead"] \notin {NoUser, owner[q]}
                   => role[by["teamLead"]] = "TEAM_LEAD" /\ dept[by["teamLead"]] = home[q]
              /\ by["dept"] \notin {NoUser, owner[q]}
                   => role[by["dept"]] = "DEPT_HEAD" /\ dept[by["dept"]] = home[q]
              /\ by["hr"] # NoUser => role[by["hr"]] = "HR_ADMIN" /\ dept[by["hr"]] = hrDept
              /\ by["tenantAdmin"] # NoUser => /\ role[by["tenantAdmin"]] = "TENANT_ADMIN"
                                               /\ role[owner[q]] = "HR_ADMIN"
  <2>1. CASE q # r
    BY <1>4, <1>8, <1>10, <2>1 DEF AuthInv, StampsAreAuthorised
  <2>2. CASE q = r
    <3>1. status[r] # "Absent"
      BY <1>1, <1>3
    <3> HIDE DEF f
    <3> QED
      BY <1>2, <1>3, <1>5, <1>7, <1>8, <2>2, <3>1
         DEF AuthInv, StampsAreAuthorised, StampFields, DepartmentRoles
  <2> QED
    BY <2>1, <2>2
<1>11. ASSUME NEW q \in Requests, status'[q] # "Absent", NEW g \in StampFields,
              stamp'[q][g] = owner[q]
       PROVE  g \in InitialStamps(role[owner[q]])
  <2>1. CASE q = r /\ g = f
    BY <1>2, <1>5, <1>7, <1>8, <1>11, <2>1 DEF InitialStamps, StampFields
  <2>2. CASE ~(q = r /\ g = f)
    BY <1>4, <1>8, <1>11, <2>2 DEF AuthInv, OwnersDoNotDecide
  <2> QED
    BY <2>1, <2>2
<1>12. StampsAreAuthorised'
  BY <1>4, <1>9, <1>10 DEF StampsAreAuthorised
<1>13. OwnersDoNotDecide'
  BY <1>4, <1>9, <1>11 DEF OwnersDoNotDecide
<1> QED
  BY <1>12, <1>13

LEMMA AuthInit == Init => AuthInv
<1> SUFFICES ASSUME Init PROVE AuthInv
  OBVIOUS
<1>1. \A r \in Requests : status[r] = "Absent"
  BY DEF Init
<1>2. \A c \in Calls : call[c].pc = "idle"
  BY DEF Init, Idle
<1> QED
  BY <1>1, <1>2, ChainInit DEF AuthInv, StampsAreAuthorised, OwnersDoNotDecide, Entitled

LEMMA AuthNext == AuthInv /\ [Next]_vars /\ OrgSettled => AuthInv'
<1> SUFFICES ASSUME AuthInv, [Next]_vars, OrgSettled PROVE AuthInv'
  OBVIOUS
<1>1. ChainInv'
  BY ChainNext DEF AuthInv
<1>2. \A r \in Requests : status[r] # "Absent" => owner'[r] = owner[r] /\ home'[r] = home[r]
  BY IdentityKept DEF AuthInv, ChainInv
<1>3. ASSUME NEW c \in Calls, Entitled(call[c])', \A d \in Calls \ {c} : call'[d] = call[d]
      PROVE  \A d \in Calls : Entitled(call[d])'
  BY <1>3, EntitledStable
<1>4. ASSUME stamp' = stamp, \A r \in Requests : status'[r] # "Absent" => status[r] # "Absent"
      PROVE  StampsAreAuthorised' /\ OwnersDoNotDecide'
  BY <1>2, <1>4, StampsKept
<1>5. ASSUME NEW c \in Calls, NEW u \in Users, Start(c, u) PROVE AuthInv'
  <2>1. UNCHANGED <<status, stamp>> /\ \A d \in Calls \ {c} : call'[d] = call[d]
    BY <1>5, StartEvidence DEF tables, AuthInv
  <2> QED
    BY <1>1, <1>3, <1>4, <1>5, <2>1, StartEntitled DEF AuthInv
<1>6. ASSUME NEW c \in Calls, Proceed(c) \/ Crash(c) PROVE AuthInv'
  <2>1. \A d \in Calls \ {c} : call'[d] = call[d]
    BY <1>6 DEF Proceed, Authorize, HrScope, Write, CreateRequest, TeamLeadComment, DeptApprove,
                HrApprove, Reject, Cancel, AddComment, Update, Enqueue, Refuse, Crash,
                AuthInv, ChainInv, TypeInv, TypeOK
  <2>2. \A d \in Calls : Entitled(call[d])'
    BY <1>2, <1>3, <1>6, <2>1, ProceedEntitled
  <2>3. CASE CreateRequest(c)
    BY <1>1, <2>2, <2>3, CreateStamps DEF AuthInv
  <2>4. CASE TeamLeadComment(c) \/ DeptApprove(c) \/ HrApprove(c) \/ Reject(c)
    BY <1>1, <2>2, <2>4, ReviewStamps DEF AuthInv
  <2>5. CASE Cancel(c)
    <3>1. /\ stamp' = stamp /\ Present(call[c].req)
          /\ status' = [status EXCEPT ![call[c].req] = "CANCELLED"]
      BY <2>5 DEF Cancel
    <3>2. \A r \in Requests : status'[r] # "Absent" => status[r] # "Absent"
      BY <3>1 DEF Present, Statuses, InReview, Terminal, AuthInv, ChainInv, TypeInv, TypeOK
    <3> QED
      BY <1>1, <1>4, <2>2, <3>1, <3>2 DEF AuthInv
  <2>6. CASE Authorize(c) \/ HrScope(c) \/ AddComment(c) \/ Enqueue(c) \/ Refuse(c) \/ Crash(c)
    <3>1. UNCHANGED <<status, stamp>>
      BY <2>6, LookupEvidence DEF AuthInv
    <3> QED
      BY <1>1, <1>4, <2>2, <3>1 DEF AuthInv
  <2> QED
    BY <1>6, <2>3, <2>4, <2>5, <2>6 DEF Proceed, Write
<1>7. CASE OrgStep \/ UNCHANGED vars
  <2>1. call' = call /\ stamp' = stamp
    BY <1>7 DEF OrgStep, IssueToken, UpdateUser, SetHrDepartment, RemoveDepartment, RemovePolicy,
                DeleteRequests, vars, tables
  <2>2. \A r \in Requests : status'[r] # "Absent" => status[r] # "Absent"
    BY <1>7 DEF OrgStep, IssueToken, UpdateUser, SetHrDepartment, RemoveDepartment, RemovePolicy,
                DeleteRequests, Present, Statuses, InReview, Terminal, vars, tables,
                AuthInv, ChainInv, TypeInv, TypeOK
  <2>3. \A d \in Calls : Entitled(call[d])'
    BY <2>1, EntitledStable
  <2> QED
    BY <1>1, <1>4, <2>1, <2>2, <2>3 DEF AuthInv
<1> QED
  BY <1>5, <1>6, <1>7 DEF Next

LEMMA AuthCorrect == Spec /\ [][OrgSettled]_vars => []AuthInv
<1>1. AuthInv /\ [Next]_vars /\ [OrgSettled]_vars => AuthInv'
  <2> SUFFICES ASSUME AuthInv, [Next]_vars, [OrgSettled]_vars PROVE AuthInv'
    OBVIOUS
  <2>1. OrgSettled
    BY DEF OrgSettled, vars, org
  <2> QED
    BY <2>1, AuthNext
<1> QED
  BY <1>1, AuthInit, PTL DEF Spec

\* While users keep their role and department and HR its department, every
\* stamp is that of a user entitled to the stage, however calls overlap.
THEOREM StampsAreOfEntitledUsers == Spec /\ [][OrgSettled]_vars => []StampsAreAuthorised
<1>1. AuthInv => StampsAreAuthorised
  BY DEF AuthInv
<1> QED
  BY <1>1, AuthCorrect, PTL

\* And nobody decides on a stage of their own request.
THEOREM NobodyDecidesTheirOwn == Spec /\ [][OrgSettled]_vars => []OwnersDoNotDecide
<1>1. AuthInv => OwnersDoNotDecide
  BY DEF AuthInv
<1> QED
  BY <1>1, AuthCorrect, PTL

-----------------------------------------------------------------------------
(* The refinement.  While the calls about requests do not overlap, the      *)
(* handlers implement the atomic lifecycle: for every organisation, however *)
(* often it changes under a running call, and wherever that call dies.  The *)
(* mapping is the identity on status and ledger; a call's write is the      *)
(* abstract step, its other awaits are stutters.                            *)

\* The stages from which a command may start.
From(op) ==
  CASE op = "teamLeadComment" -> {"PENDING"}
    [] op = "deptApprove"     -> {"TEAM_LEAD_COMMENTED"}
    [] op = "hrApprove"       -> {"DEPT_APPROVED"}
    [] op = "reject"          -> Rejectable
    [] op = "cancel"          -> Cancellable
    [] OTHER                  -> Statuses

\* What the only call in flight read has not been overtaken, except by the
\* deletion of the row.
Fresh(k) ==
  k.pc \in {"authorize", "scope", "write"} /\ k.op # "submit"
    => status[k.req] \in From(k.op) \cup {"Deleted"}

AtomicInv == /\ TypeInv
             /\ BalanceMatchesStatus
             /\ \A c \in Calls : Fresh(call[c])

OneCall == \A c, d \in Calls : c = d

\* A write of a command whose stage is still as the call read it is the
\* abstract command, and leaves row and status in agreement.
LEMMA MoveIsAbstract ==
  ASSUME TypeInv, BalanceMatchesStatus, NEW r \in Requests, NEW from, NEW to \in Statuses,
         NEW row, row = Lifecycle!RowFor(to), status[r] \in from,
         status' = [status EXCEPT ![r] = to], ledger' = [ledger EXCEPT ![r] = row]
  PROVE  Lifecycle!Move(r, from, to, row) /\ BalanceMatchesStatus'
BY DEF Lifecycle!Move, BalanceMatchesStatus, Lifecycle!LedgerMatchesStatus, Lifecycle!RowFor,
       TypeInv, TypeOK

\* The rows a status calls for, and where the ledger then is.
LEMMA RowOf ==
  /\ \A s \in InReview : Lifecycle!RowFor(s) = "pending"
  /\ Lifecycle!RowFor("APPROVED") = "confirmed"
  /\ Lifecycle!RowFor("REJECTED") = "none" /\ Lifecycle!RowFor("CANCELLED") = "none"
  /\ Lifecycle!RowFor("Absent") = "none" /\ Lifecycle!RowFor("Deleted") = "none"
BY DEF Lifecycle!RowFor, Lifecycle!InReview, InReview

\* The state in which a command other than submit writes.
LEMMA AtWrite ==
  ASSUME AtomicInv, NEW c \in Calls, call[c].pc = "write", call[c].op # "submit",
         Present(call[c].req)
  PROVE  /\ call[c].req \in Requests
         /\ status[call[c].req] \in From(call[c].op)
         /\ status[call[c].req] \in InReview => ledger[call[c].req] = "pending"
<1>1. call[c].req \in Requests
  BY DEF AtomicInv, TypeInv, CallsWellFormed, WellFormed
<1>2. status[call[c].req] \in From(call[c].op)
  BY DEF AtomicInv, Fresh, Present, Statuses, InReview, Terminal
<1> QED
  BY <1>1, <1>2, RowOf DEF AtomicInv, BalanceMatchesStatus, Lifecycle!LedgerMatchesStatus

\* A step that leaves status and ledger alone is a stutter.
LEMMA Stutter ==
  ASSUME AtomicInv, UNCHANGED <<status, ledger>>
  PROVE  [Lifecycle!Next]_(Lifecycle!vars) /\ BalanceMatchesStatus'
BY DEF Lifecycle!vars, AtomicInv, BalanceMatchesStatus, Lifecycle!LedgerMatchesStatus

LEMMA SubmitIsAbstract ==
  ASSUME AtomicInv, NEW c \in Calls, CreateRequest(c)
  PROVE  Lifecycle!Next /\ BalanceMatchesStatus'
<1>1. InitialStatus(call[c].seen) \in InReview
  BY RoutingType DEF CreateRequest, AtomicInv, TypeInv, CallsWellFormed, WellFormed
<1>2. PICK r \in Requests : /\ status[r] = "Absent"
                            /\ status' = [status EXCEPT ![r] = InitialStatus(call[c].seen)]
                            /\ ledger' = [ledger EXCEPT ![r] = "pending"]
  BY DEF CreateRequest
<1>3. /\ Lifecycle!Move(r, {"Absent"}, InitialStatus(call[c].seen), "pending")
      /\ BalanceMatchesStatus'
  <2>1. Lifecycle!RowFor(InitialStatus(call[c].seen)) = "pending"
    BY <1>1, RowOf
  <2> QED
    BY <1>1, <1>2, <2>1, MoveIsAbstract DEF AtomicInv, Statuses
<1> QED
  BY <1>1, <1>3 DEF Lifecycle!Next, Lifecycle!Submit, Lifecycle!InReview, InReview

LEMMA ReviewIsAbstract ==
  ASSUME AtomicInv, NEW c \in Calls,
         TeamLeadComment(c) \/ DeptApprove(c) \/ HrApprove(c) \/ Reject(c) \/ Cancel(c)
  PROVE  Lifecycle!Next /\ BalanceMatchesStatus'
<1>1. call[c].pc = "write" /\ call[c].op # "submit" /\ Present(call[c].req)
  BY DEF TeamLeadComment, DeptApprove, HrApprove, Reject, Cancel, Update
<1>2. PICK r \in Requests : /\ r = call[c].req /\ status[r] \in From(call[c].op)
                            /\ status[r] \in InReview => ledger[r] = "pending"
  BY <1>1, AtWrite
<1>3. ledger \in [Requests -> {"none", "pending", "confirmed"}] /\ TypeInv /\ BalanceMatchesStatus
  BY DEF AtomicInv, TypeInv, TypeOK
<1>4. CASE TeamLeadComment(c)
  <2>1. /\ status[r] \in {"PENDING"} /\ status' = [status EXCEPT ![r] = "TEAM_LEAD_COMMENTED"]
        /\ ledger' = ledger
    BY <1>2, <1>4 DEF TeamLeadComment, Update, From
  <2>2. ledger' = [ledger EXCEPT ![r] = "pending"]
    BY <1>2, <1>3, <2>1 DEF InReview
  <2>3. Lifecycle!Comment(r) /\ BalanceMatchesStatus'
    <3>1. Lifecycle!RowFor("TEAM_LEAD_COMMENTED") = "pending" /\ "TEAM_LEAD_COMMENTED" \in Statuses
      BY RowOf DEF InReview, Statuses
    <3> QED
      BY <1>2, <1>3, <2>1, <2>2, <3>1, MoveIsAbstract DEF Lifecycle!Comment
  <2> QED
    BY <1>2, <2>3 DEF Lifecycle!Next
<1>5. CASE DeptApprove(c)
  <2>1. /\ status[r] \in {"TEAM_LEAD_COMMENTED"} /\ status' = [status EXCEPT ![r] = "DEPT_APPROVED"]
        /\ ledger' = ledger
    BY <1>2, <1>5 DEF DeptApprove, Update, From
  <2>2. ledger' = [ledger EXCEPT ![r] = "pending"]
    BY <1>2, <1>3, <2>1 DEF InReview
  <2>3. Lifecycle!Endorse(r) /\ BalanceMatchesStatus'
    <3>1. Lifecycle!RowFor("DEPT_APPROVED") = "pending" /\ "DEPT_APPROVED" \in Statuses
      BY RowOf DEF InReview, Statuses
    <3> QED
      BY <1>2, <1>3, <2>1, <2>2, <3>1, MoveIsAbstract DEF Lifecycle!Endorse
  <2> QED
    BY <1>2, <2>3 DEF Lifecycle!Next
<1>6. CASE HrApprove(c)
  <2>1. /\ status[r] \in {"DEPT_APPROVED"} /\ status' = [status EXCEPT ![r] = "APPROVED"]
        /\ ledger' = Confirmed(r)
    BY <1>2, <1>6 DEF HrApprove, Update, From
  <2>2. ledger' = [ledger EXCEPT ![r] = "confirmed"]
    BY <1>2, <1>3, <2>1 DEF InReview, Confirmed
  <2>3. Lifecycle!Approve(r) /\ BalanceMatchesStatus'
    <3>1. Lifecycle!RowFor("APPROVED") = "confirmed" /\ "APPROVED" \in Statuses
      BY RowOf DEF Terminal, Statuses
    <3> QED
      BY <1>2, <1>3, <2>1, <2>2, <3>1, MoveIsAbstract DEF Lifecycle!Approve
  <2> QED
    BY <1>2, <2>3 DEF Lifecycle!Next
<1>7. CASE Reject(c)
  <2>1. /\ status[r] \in {"TEAM_LEAD_COMMENTED", "DEPT_APPROVED"}
        /\ status' = [status EXCEPT ![r] = "REJECTED"] /\ ledger' = Released(r)
    BY <1>2, <1>7 DEF Reject, Update, From, Rejectable
  <2>2. ledger' = [ledger EXCEPT ![r] = "none"]
    BY <1>2, <1>3, <2>1 DEF InReview, Released
  <2>3. Lifecycle!Reject(r) /\ BalanceMatchesStatus'
    <3>1. Lifecycle!RowFor("REJECTED") = "none" /\ "REJECTED" \in Statuses
      BY RowOf DEF Terminal, Statuses
    <3> QED
      BY <1>2, <1>3, <2>1, <2>2, <3>1, MoveIsAbstract DEF Lifecycle!Reject
  <2> QED
    BY <1>2, <2>3 DEF Lifecycle!Next
<1>8. CASE Cancel(c)
  <2>1. /\ status[r] \in InReview
        /\ status' = [status EXCEPT ![r] = "CANCELLED"] /\ ledger' = Released(r)
    BY <1>2, <1>8 DEF Cancel, From, Cancellable, InReview
  <2>2. ledger' = [ledger EXCEPT ![r] = "none"]
    BY <1>2, <1>3, <2>1 DEF Released
  <2>3. Lifecycle!Cancel(r) /\ BalanceMatchesStatus'
    <3>1. Lifecycle!RowFor("CANCELLED") = "none" /\ "CANCELLED" \in Statuses
      BY RowOf DEF Terminal, Statuses
    <3> QED
      BY <1>2, <1>3, <2>1, <2>2, <3>1, MoveIsAbstract DEF Lifecycle!Cancel, Lifecycle!InReview, InReview
  <2> QED
    BY <1>2, <2>3 DEF Lifecycle!Next
<1> QED
  BY <1>4, <1>5, <1>6, <1>7, <1>8

LEMMA RemovalIsAbstract ==
  ASSUME AtomicInv, NEW gone \in SUBSET Requests, \A r \in gone : Present(r),
         DeleteRequests(gone)
  PROVE  Lifecycle!Next /\ BalanceMatchesStatus'
<1>1. /\ status' = [r \in Requests |-> IF r \in gone THEN "Deleted" ELSE status[r]]
      /\ ledger' = [r \in Requests |-> IF r \in gone THEN "none" ELSE ledger[r]]
      /\ \A r \in gone : status[r] \in Statuses
  BY DEF DeleteRequests, Present
<1>2. Lifecycle!Delete(gone)
  BY <1>1 DEF Lifecycle!Delete, Lifecycle!Statuses, Lifecycle!InReview, Lifecycle!Terminal,
              Statuses, InReview, Terminal
<1>3. BalanceMatchesStatus'
  BY <1>1, RowOf DEF AtomicInv, BalanceMatchesStatus, Lifecycle!LedgerMatchesStatus, Lifecycle!RowFor
<1> QED
  BY <1>1, <1>2, <1>3 DEF Lifecycle!Next

\* Every step of the workflow is a step of the lifecycle or a stutter.
LEMMA StepIsAbstract ==
  ASSUME AtomicInv, [Next]_vars
  PROVE  [Lifecycle!Next]_(Lifecycle!vars) /\ BalanceMatchesStatus'
<1>1. ASSUME NEW c \in Calls, NEW u \in Users, Start(c, u)
      PROVE  UNCHANGED <<status, ledger>>
  BY <1>1 DEF Start, BeginSubmit, BeginTeamLeadComment, BeginDeptApprove, BeginHrApprove,
              BeginReject, BeginCancel, BeginAddComment, Begin, tables
<1>2. ASSUME NEW c \in Calls, Authorize(c) \/ HrScope(c) \/ AddComment(c) \/ Enqueue(c)
                              \/ Refuse(c) \/ Crash(c)
      PROVE  UNCHANGED <<status, ledger>>
  BY <1>2 DEF Authorize, HrScope, AddComment, Enqueue, Refuse, Crash, tables
<1>3. CASE OrgStep
  <2>1. CASE \E gone \in SUBSET Requests : (\A r \in gone : Present(r)) /\ DeleteRequests(gone)
    BY <2>1, RemovalIsAbstract
  <2>2. CASE UNCHANGED <<status, ledger>>
    BY <2>2, Stutter
  <2> QED
    BY <1>3, <2>1, <2>2 DEF OrgStep, IssueToken, UpdateUser, SetHrDepartment,
                            RemoveDepartment, RemovePolicy, tables
<1>4. CASE UNCHANGED vars
  BY <1>4, Stutter DEF vars, tables
<1> QED
  BY <1>1, <1>2, <1>3, <1>4, Stutter, SubmitIsAbstract, ReviewIsAbstract DEF Next, Proceed, Write

\* A single call keeps what it read: nothing else moves a request on.
LEMMA FreshNext ==
  ASSUME OneCall, AtomicInv, [Next]_vars, NEW e \in Calls
  PROVE  Fresh(call[e])'
<1> USE DEF AtomicInv, TypeInv
<1>1. ASSUME call'[e] = call[e],
             \A r \in Requests : status'[r] \in {status[r], "Deleted"}
      PROVE  Fresh(call[e])'
  BY <1>1 DEF Fresh, CallsWellFormed, WellFormed
<1>2. ASSUME NEW c \in Calls, NEW u \in Users, Start(c, u) PROVE Fresh(call[e])'
  <2>1. e = c
    BY DEF OneCall
  <2>2. ASSUME NEW op \in Ops, NEW r \in Requests \cup {NoRequest}, NEW pc, NEW x, NEW d,
               Begin(c, u, op, r, pc, x, d), op = "submit" \/ status[r] \in From(op)
        PROVE  Fresh(call[e])'
    <3>1. call'[e] = [pc |-> pc, op |-> op, actor |-> u, req |-> r, seen |-> x, dept |-> d]
          /\ status' = status
      BY <2>1, <2>2 DEF Begin, TypeOK, tables
    <3> QED
      BY <2>2, <3>1 DEF Fresh
  <2>3. CASE BeginSubmit(c, u)
    BY <2>2, <2>3 DEF BeginSubmit, Ops
  <2>4. ASSUME NEW r \in Requests,
               \/ BeginTeamLeadComment(c, u, r) \/ BeginDeptApprove(c, u, r)
               \/ BeginHrApprove(c, u, r) \/ BeginReject(c, u, r)
               \/ BeginCancel(c, u, r) \/ BeginAddComment(c, u, r)
        PROVE  Fresh(call[e])'
    BY <2>2, <2>4 DEF BeginTeamLeadComment, BeginDeptApprove, BeginHrApprove, BeginReject,
                      BeginCancel, BeginAddComment, Ops, From
  <2> QED
    BY <1>2, <2>3, <2>4 DEF Start
<1>3. ASSUME NEW c \in Calls, Authorize(c) \/ HrScope(c) PROVE Fresh(call[e])'
  <2>1. e = c
    BY DEF OneCall
  <2>2. /\ call[e].pc \in {"authorize", "scope"}
        /\ call'[e].op = call[e].op /\ call'[e].req = call[e].req /\ status' = status
    BY <1>3, <2>1 DEF Authorize, HrScope, TypeOK, CallRecord, tables
  <2> QED
    BY <2>2 DEF Fresh
<1>4. ASSUME NEW c \in Calls, Write(c) \/ Enqueue(c) \/ Refuse(c) \/ Crash(c)
      PROVE  Fresh(call[e])'
  <2>1. e = c
    BY DEF OneCall
  <2>2. call'[e].pc \in {"enqueue", "idle"}
    BY <1>4, <2>1 DEF Write, CreateRequest, TeamLeadComment, DeptApprove, HrApprove, Reject,
                      Cancel, AddComment, Update, Enqueue, Refuse, Crash, Idle, TypeOK, CallRecord
  <2> QED
    BY <2>2 DEF Fresh
<1>5. CASE OrgStep
  <2>1. call' = call /\ \A r \in Requests : status'[r] \in {status[r], "Deleted"}
    BY <1>5 DEF OrgStep, IssueToken, UpdateUser, SetHrDepartment, RemoveDepartment, RemovePolicy,
                DeleteRequests, tables
  <2> QED
    BY <1>1, <2>1
<1>6. CASE UNCHANGED vars
  BY <1>1, <1>6 DEF vars, tables
<1> QED
  BY <1>2, <1>3, <1>4, <1>5, <1>6 DEF Next, Proceed

LEMMA AtomicInit == Init => AtomicInv
<1> SUFFICES ASSUME Init PROVE AtomicInv
  OBVIOUS
<1>1. \A c \in Calls : Fresh(call[c])
  BY DEF Init, Idle, Fresh
<1>2. BalanceMatchesStatus
  BY RowOf DEF Init, BalanceMatchesStatus, Lifecycle!LedgerMatchesStatus
<1> QED
  BY <1>1, <1>2, TypeInit DEF AtomicInv

LEMMA AtomicNext == OneCall /\ AtomicInv /\ [Next]_vars => AtomicInv'
BY TypeNext, StepIsAbstract, FreshNext DEF AtomicInv

\* While calls do not overlap, the handlers are the atomic lifecycle.
THEOREM SerialCallsImplementLifecycle ==
  ASSUME OneCall
  PROVE  Spec => ImplementsLifecycle
<1>1. Init => Lifecycle!Init
  BY DEF Init, Lifecycle!Init
<1>2. AtomicInv /\ [Next]_vars => AtomicInv'
  BY AtomicNext
<1>3. AtomicInv /\ [Next]_vars => [Lifecycle!Next]_(Lifecycle!vars)
  BY StepIsAbstract
<1> QED
  BY <1>1, <1>2, <1>3, AtomicInit, PTL DEF Spec, ImplementsLifecycle, Lifecycle!Spec

\* While calls do not overlap, the days held and taken agree with the status
\* of every request.
THEOREM SerialCallsKeepBalance ==
  ASSUME OneCall
  PROVE  Spec => []BalanceMatchesStatus
<1>1. AtomicInv /\ [Next]_vars => AtomicInv'
  BY AtomicNext
<1>2. AtomicInv => BalanceMatchesStatus
  BY DEF AtomicInv
<1> QED
  BY <1>1, <1>2, AtomicInit, PTL DEF Spec

-----------------------------------------------------------------------------
(* The queries: what they answer fits what the commands allow.             *)

\* The statuses a role decides on are the ones the dashboard asks for.
LEMMA StatusesOfRoles ==
  ASSUME NEW t
  PROVE  /\ (IsUnscoped(t) => StatusesFor(t) = InReview)
         /\ (~IsUnscoped(t) /\ t.role = "TEAM_LEAD" => StatusesFor(t) = {"PENDING"})
         /\ (~IsUnscoped(t) /\ t.role = "DEPT_HEAD" => StatusesFor(t) = {"TEAM_LEAD_COMMENTED"})
         /\ (~IsUnscoped(t) /\ t.role = "HR_ADMIN" => StatusesFor(t) = {"DEPT_APPROVED"})
         /\ (~IsUnscoped(t) /\ t.role \notin {"TEAM_LEAD", "DEPT_HEAD", "HR_ADMIN"}
               => StatusesFor(t) = {})
BY DEF StatusesFor

\* Whoever the commands let decide finds the request under every query, with
\* a token that agrees with their row.
THEOREM ReviewersSeeTheirWork == Spec => []ReviewersFindTheirWork
<1>1. TypeOK => ReviewersFindTheirWork
  <2> SUFFICES ASSUME TypeOK, NEW u \in Users, NEW r \in Requests, MayDecide(u, r), NEW t, t = TokenOf(u)
               PROVE  r \in PendingApprovals(t) \cap ListAll(t) \cap ReadableById(u, t)
    BY DEF ReviewersFindTheirWork
  <2>0. t.role = role[u] /\ t.dept = dept[u]
    BY DEF TokenOf
  <2>1. r \in Existing /\ status[r] \in InReview /\ InReview \subseteq Statuses
    BY DEF MayDecide, Existing, Present, InReview, Statuses
  <2>2. t.role \in {"TEAM_LEAD", "DEPT_HEAD", "HR_ADMIN", "TENANT_ADMIN"}
    BY <2>0 DEF MayDecide, FinalApproverRole
  <2>3. CASE t.role \in {"TEAM_LEAD", "DEPT_HEAD"}
    <3>1. /\ ~IsUnscoped(t) /\ t.dept = home[r]
          /\ (t.role = "TEAM_LEAD" => status[r] = "PENDING")
          /\ (t.role = "DEPT_HEAD" => status[r] = "TEAM_LEAD_COMMENTED")
      BY <2>0, <2>3 DEF MayDecide, IsUnscoped, FinalApproverRole
    <3>2. status[r] \in StatusesFor(t) /\ InScope(t, r) /\ StatusFilter(t) = Statuses
      BY <2>3, <3>1, StatusesOfRoles DEF InScope, StatusFilter
    <3> QED
      BY <2>1, <2>3, <3>1, <3>2
         DEF PendingApprovals, ListAll, ReadableById, MayList, ApproverRoles, DepartmentRoles
  <2>4. CASE t.role \in {"HR_ADMIN", "TENANT_ADMIN"}
    <3>1. /\ status[r] = "DEPT_APPROVED"
          /\ (t.role = "HR_ADMIN" => t.dept = hrDept)
      BY <2>0, <2>4 DEF MayDecide
    <3>2. IsUnscoped(t) \/ (t.role = "HR_ADMIN" /\ t.dept = NoDept)
      BY <2>4, <3>1 DEF IsUnscoped
    <3>3. status[r] \in StatusesFor(t) /\ InScope(t, r) /\ status[r] \in StatusFilter(t)
      BY <2>1, <3>1, <3>2, StatusesOfRoles DEF InScope, StatusFilter
    <3> QED
      BY <2>1, <2>4, <3>3 DEF PendingApprovals, ListAll, ReadableById, MayList, ApproverRoles
  <2> QED
    BY <2>2, <2>3, <2>4
<1> QED
  BY <1>1, TypeCorrect, PTL

\* With the token of a department the dashboard is within the list, and what
\* is listed can be opened, whatever has become of the user since.
THEOREM QueriesAgree == Spec => []ViewsAgree
<1>1. TypeOK => ViewsAgree
  <2> SUFFICES ASSUME TypeOK, NEW u \in Users, NEW t \in tokens[u], t.dept # NoDept
               PROVE  /\ PendingApprovals(t) \subseteq ListAll(t)
                      /\ ListAll(t) \subseteq ReadableById(u, t)
    BY DEF ViewsAgree
  <2>1. ASSUME NEW r \in PendingApprovals(t) PROVE r \in ListAll(t)
    <3>1. /\ r \in Existing /\ InScope(t, r) /\ status[r] \in StatusesFor(t)
          /\ status[r] \in Statuses
      BY <2>1 DEF PendingApprovals, Existing, Present, TypeOK
    <3>2. MayList(t)
      BY <3>1, StatusesOfRoles DEF MayList, ApproverRoles, IsUnscoped
    <3>3. status[r] \in StatusFilter(t)
      BY <3>1, StatusesOfRoles DEF StatusFilter
    <3> QED
      BY <3>1, <3>2, <3>3 DEF ListAll
  <2>2. ASSUME NEW r \in ListAll(t) PROVE r \in ReadableById(u, t)
    BY <2>2 DEF ListAll, ReadableById, InScope, IsUnscoped, MayList, ApproverRoles, DepartmentRoles
  <2> QED
    BY <2>1, <2>2
<1> QED
  BY <1>1, TypeCorrect, PTL
-----------------------------------------------------------------------------
(* The approval card. *)

\* What the card relies on.  A pending request carries no stamp of a team
\* lead; a department head's or an HR admin's request never shows a stage
\* its submission skipped; a rejected one carries the team lead's stamp and
\* the department's: nobody rejects before the first, and who rejects after
\* the second either is the department head or follows them.
CardRow(r) ==
  /\ status[r] = "PENDING" => ~Stamped(r, "teamLead")
  /\ status[r] \in {"PENDING", "TEAM_LEAD_COMMENTED"} => role[owner[r]] \notin {"DEPT_HEAD", "HR_ADMIN"}
  /\ status[r] = "REJECTED" => Stamped(r, "teamLead") /\ Stamped(r, "dept")

CardCall(k) ==
  k.pc # "idle" =>
    /\ k.op = "teamLeadComment" => role[owner[k.req]] \notin {"DEPT_HEAD", "HR_ADMIN"}
    /\ k.op = "reject" => Stamped(k.req, "teamLead")
    /\ k.op = "reject" /\ k.seen # "DEPT_HEAD" => Stamped(k.req, "dept")

CardInv == /\ AuthInv
           /\ \A r \in Requests : CardRow(r)
           /\ \A c \in Calls : CardCall(call[c])

\* A card whose row satisfies the invariant is coherent.
LEMMA CardOfRow ==
  ASSUME CardInv
  PROVE  CardsAreCoherent
<1> SUFFICES ASSUME NEW r \in Existing
             PROVE  LET done == {"skipped", "commented", "approved"} IN
                    /\ CurrentStage(r) # "none" => Card(r)[CurrentStage(r)] = "pending"
                    /\ CurrentStage(r) \in {"dept_head", "hr"} => Card(r)["team_lead"] \in done
                    /\ CurrentStage(r) = "hr" => Card(r)["dept_head"] \in done
                    /\ status[r] = "APPROVED" => \A s \in Stages : Card(r)[s] \in done
                    /\ status[r] = "REJECTED" =>
                         /\ Card(r)["team_lead"] \in done
                         /\ Card(r)["dept_head"] = "rejected"
                         /\ Card(r)["hr"] \in {"rejected", "not_reached"}
  BY DEF CardsAreCoherent
<1>1. /\ r \in Requests /\ status[r] \in Statuses /\ CardRow(r) /\ status[r] # "Absent"
      /\ owner[r] \in Users /\ owner[r] # NoUser
  BY ConstantsAssumption DEF Existing, Present, CardInv, Statuses, InReview, Terminal, AuthInv,
     ChainInv, TypeInv, RowsWellFormed
<1>2. /\ Card(r)["team_lead"] = TeamLeadCard(r)
      /\ Card(r)["dept_head"] = DeptHeadCard(r)
      /\ Card(r)["hr"] = HrCard(r)
  BY DEF Card, Stages
<1>3. Stamped(r, "teamLead") => TeamLeadCard(r) \in {"skipped", "commented"}
  BY DEF TeamLeadCard, Stamped, Skipped
<1>4. /\ status[r] \in {"TEAM_LEAD_COMMENTED", "DEPT_APPROVED", "APPROVED"} => Stamped(r, "teamLead")
      /\ status[r] \in {"DEPT_APPROVED", "APPROVED"} => Stamped(r, "dept")
  BY <1>1 DEF CardInv, AuthInv, ChainInv, StampsComplete
<1>5. status[r] \in {"PENDING", "TEAM_LEAD_COMMENTED"} => ~Skipped(r, "dept")
  <2>1. Skipped(r, "dept") => "dept" \in InitialStamps(role[owner[r]])
    BY <1>1 DEF CardInv, AuthInv, OwnersDoNotDecide, Skipped, StampFields
  <2> QED
    BY <1>1, <2>1 DEF CardRow, InitialStamps
<1>6. CASE status[r] = "PENDING"
  <2>1. CurrentStage(r) = "team_lead" /\ TeamLeadCard(r) = "pending"
    BY <1>1, <1>6 DEF CurrentStage, TeamLeadCard, CardRow, Stamped, Skipped
  <2> QED
    BY <1>2, <1>6, <2>1
<1>7. CASE status[r] = "TEAM_LEAD_COMMENTED"
  <2>1. CurrentStage(r) = "dept_head" /\ DeptHeadCard(r) = "pending"
    BY <1>5, <1>7 DEF CurrentStage, DeptHeadCard
  <2> QED
    BY <1>2, <1>3, <1>4, <1>7, <2>1
<1>8. CASE status[r] = "DEPT_APPROVED"
  <2>1. CurrentStage(r) = "hr" /\ DeptHeadCard(r) = "approved" /\ HrCard(r) = "pending"
    BY <1>8 DEF CurrentStage, DeptHeadCard, HrCard
  <2> QED
    BY <1>2, <1>3, <1>4, <1>8, <2>1
<1>9. CASE status[r] = "APPROVED"
  <2>1. CurrentStage(r) = "none" /\ DeptHeadCard(r) = "approved" /\ HrCard(r) = "approved"
    BY <1>9 DEF CurrentStage, DeptHeadCard, HrCard
  <2> QED
    BY <1>2, <1>3, <1>4, <1>9, <2>1 DEF Stages
<1>10. CASE status[r] = "REJECTED"
  <2>1. CurrentStage(r) = "none"
    BY <1>10 DEF CurrentStage
  <2>2. Stamped(r, "dept") => DeptHeadCard(r) = "rejected"
    BY <1>10 DEF DeptHeadCard
  <2>3. HrCard(r) \in {"rejected", "not_reached"}
    BY <1>10 DEF HrCard
  <2> QED
    BY <1>1, <1>2, <1>3, <1>10, <2>1, <2>2, <2>3 DEF CardRow
<1>11. CASE status[r] = "CANCELLED"
  BY <1>11 DEF CurrentStage
<1> QED
  BY <1>1, <1>6, <1>7, <1>8, <1>9, <1>10, <1>11 DEF Statuses, InReview, Terminal

\* What another call did leaves a call's part of the invariant in force.
LEMMA CardCallStable ==
  ASSUME CardInv, [Next]_vars, OrgSettled, NEW c \in Calls, call'[c] = call[c]
  PROVE  CardCall(call[c])'
<1> DEFINE k == call[c]
<1>1. CardCall(k) /\ (k.pc # "idle" /\ k.op # "submit" => k.req \in Requests /\ status[k.req] # "Absent")
  BY DEF CardInv, AuthInv, ChainInv, Evidence, TypeInv, CallsWellFormed, WellFormed
<1>2. k.pc # "idle" /\ k.op # "submit" => RowAdvances(k.req)
  BY <1>1, RowsAdvance DEF CardInv, AuthInv, ChainInv
<1> QED
  BY <1>1, <1>2 DEF CardCall, OrgSettled, RowAdvances, Stamped, StampFields

LEMMA CardStart ==
  ASSUME CardInv, NEW c \in Calls, NEW u \in Users, Start(c, u)
  PROVE  CardCall(call[c])'
<1>1. ASSUME NEW op, NEW r \in Requests \cup {NoRequest}, NEW pc, NEW x, NEW d, Begin(c, u, op, r, pc, x, d),
             op = "teamLeadComment" => role[owner[r]] \notin {"DEPT_HEAD", "HR_ADMIN"},
             op = "reject" => Stamped(r, "teamLead"),
             op = "reject" /\ x # "DEPT_HEAD" => Stamped(r, "dept")
      PROVE  CardCall(call[c])'
  <2>1. /\ call'[c] = [pc |-> pc, op |-> op, actor |-> u, req |-> r, seen |-> x, dept |-> d]
        /\ UNCHANGED <<role, owner, stamp>>
    BY <1>1 DEF Begin, CardInv, AuthInv, ChainInv, TypeInv, TypeOK, org, tables
  <2> QED
    BY <1>1, <2>1 DEF CardCall, Stamped
<1>2. CASE BeginSubmit(c, u)
  BY <1>1, <1>2 DEF BeginSubmit
<1>3. ASSUME NEW r \in Requests, BeginTeamLeadComment(c, u, r) PROVE CardCall(call[c])'
  BY <1>1, <1>3 DEF BeginTeamLeadComment, CardInv, CardRow
<1>4. ASSUME NEW r \in Requests, BeginReject(c, u, r) PROVE CardCall(call[c])'
  <2>1. /\ status[r] \in {"TEAM_LEAD_COMMENTED", "DEPT_APPROVED"}
        /\ status[r] = "TEAM_LEAD_COMMENTED"
             => RequiredRoleForStage(status[r], role[owner[r]]) = "DEPT_HEAD"
    BY <1>4 DEF BeginReject, Rejectable, RequiredRoleForStage
  <2>2. Stamped(r, "teamLead") /\ (status[r] = "DEPT_APPROVED" => Stamped(r, "dept"))
    BY <2>1 DEF CardInv, AuthInv, ChainInv, StampsComplete
  <2> QED
    BY <1>1, <1>4, <2>1, <2>2 DEF BeginReject
<1>5. ASSUME NEW r \in Requests, \/ BeginDeptApprove(c, u, r) \/ BeginHrApprove(c, u, r)
                                 \/ BeginCancel(c, u, r) \/ BeginAddComment(c, u, r)
      PROVE  CardCall(call[c])'
  BY <1>1, <1>5 DEF BeginDeptApprove, BeginHrApprove, BeginCancel, BeginAddComment
<1> QED
  BY <1>2, <1>3, <1>4, <1>5 DEF Start

LEMMA CardProceed ==
  ASSUME CardInv, [Next]_vars, OrgSettled, NEW c \in Calls, Proceed(c) \/ Crash(c)
  PROVE  CardCall(call[c])'
<1> DEFINE k == call[c]
<1>1. /\ CardCall(k) /\ WellFormed(k) /\ k \in CallRecord /\ call \in [Calls -> CallRecord]
      /\ Entitled(k)
  BY DEF CardInv, AuthInv, ChainInv, TypeInv, TypeOK, CallsWellFormed
<1>2. CASE AddComment(c) \/ Enqueue(c) \/ Refuse(c) \/ Crash(c)
  <2>1. call'[c].pc = "idle"
    BY <1>1, <1>2 DEF AddComment, Enqueue, Refuse, Crash, Idle
  <2> QED
    BY <2>1 DEF CardCall
<1>3. CASE CreateRequest(c)
  <2>1. call'[c].op = "submit"
    BY <1>1, <1>3 DEF CreateRequest, CallRecord
  <2> QED
    BY <2>1 DEF CardCall
<1>4. CASE Authorize(c) \/ HrScope(c) \/ TeamLeadComment(c) \/ DeptApprove(c) \/ HrApprove(c)
           \/ Reject(c) \/ Cancel(c)
  <2>1. /\ call'[c].op = k.op /\ call'[c].req = k.req /\ k.pc # "idle" /\ k.op # "submit"
        /\ k.op \in Reviews => call'[c].seen = k.seen
    <3>1. CASE Authorize(c)
      BY <1>1, <3>1 DEF Authorize, PassesActorCheck, RequiredRoles, CallRecord, WellFormed, Reviews
    <3>2. CASE HrScope(c)
      BY <1>1, <3>2 DEF HrScope, CallRecord, WellFormed
    <3>3. CASE TeamLeadComment(c) \/ DeptApprove(c) \/ HrApprove(c) \/ Reject(c) \/ Cancel(c)
      BY <1>1, <3>3 DEF TeamLeadComment, DeptApprove, HrApprove, Reject, Cancel, Update, CallRecord
    <3> QED
      BY <1>4, <3>1, <3>2, <3>3
  <2>2. k.req \in Requests /\ status[k.req] # "Absent"
    BY <1>1, <2>1 DEF WellFormed, CardInv, AuthInv, ChainInv, Evidence
  <2>3. RowAdvances(k.req)
    BY <2>2, RowsAdvance DEF CardInv, AuthInv, ChainInv
  <2> QED
    BY <1>1, <2>1, <2>2, <2>3
       DEF CardCall, OrgSettled, RowAdvances, Stamped, StampFields, Reviews
<1> QED
  BY <1>2, <1>3, <1>4 DEF Proceed, Write

\* A row whose status no step writes keeps its part of the invariant.
LEMMA CardRowKept ==
  ASSUME CardInv, [Next]_vars, OrgSettled, NEW r \in Requests,
         status'[r] = status[r] \/ status'[r] \notin {"PENDING", "TEAM_LEAD_COMMENTED", "REJECTED"},
         stamp'[r] = stamp[r]
  PROVE  CardRow(r)'
<1>1. status[r] # "Absent" => owner'[r] = owner[r]
  BY RowsAdvance DEF RowAdvances, CardInv, AuthInv, ChainInv
<1> QED
  BY <1>1 DEF CardInv, CardRow, OrgSettled, Stamped

LEMMA CardRows ==
  ASSUME CardInv, [Next]_vars, OrgSettled
  PROVE  \A r \in Requests : CardRow(r)'
<1>1. /\ status \in [Requests -> Statuses \cup {"Absent", "Deleted"}]
      /\ owner \in [Requests -> Users \cup {NoUser}]
      /\ stamp \in [Requests -> [StampFields -> Users \cup {NoUser}]]
      /\ UNCHANGED role
  BY DEF CardInv, AuthInv, ChainInv, TypeInv, TypeOK, OrgSettled
<1>2. ASSUME NEW c \in Calls, NEW u \in Users, Start(c, u) PROVE \A r \in Requests : CardRow(r)'
  BY <1>2, StartEvidence, CardRowKept DEF tables, CardInv, AuthInv
<1>3. ASSUME NEW c \in Calls, Authorize(c) \/ HrScope(c) \/ AddComment(c) \/ Enqueue(c)
                              \/ Refuse(c) \/ Crash(c)
      PROVE  \A r \in Requests : CardRow(r)'
  BY <1>3, LookupEvidence, CardRowKept DEF CardInv, AuthInv
<1>4. ASSUME NEW c \in Calls, CreateRequest(c), NEW q \in Requests PROVE CardRow(q)'
  <2> DEFINE k == call[c]
  <2>1. PICK r \in Requests :
          /\ status' = [status EXCEPT ![r] = InitialStatus(k.seen)]
          /\ owner'  = [owner EXCEPT ![r] = k.actor]
          /\ stamp'  = [stamp EXCEPT ![r] =
               [f \in StampFields |-> IF f \in InitialStamps(k.seen) THEN k.actor ELSE NoUser]]
    BY <1>4 DEF CreateRequest
  <2>2. k.seen = role[k.actor] /\ k.seen \in Roles
    BY <1>4 DEF CreateRequest, CardInv, AuthInv, ChainInv, TypeInv, CallsWellFormed, WellFormed, Entitled
  <2>3. CASE q = r
    <3>1. /\ status'[r] = InitialStatus(k.seen) /\ owner'[r] = k.actor
          /\ stamp'[r]["teamLead"] = IF "teamLead" \in InitialStamps(k.seen) THEN k.actor ELSE NoUser
      BY <1>1, <2>1 DEF StampFields
    <3>2. /\ InitialStatus(k.seen) # "REJECTED"
          /\ InitialStatus(k.seen) = "PENDING" => "teamLead" \notin InitialStamps(k.seen)
          /\ InitialStatus(k.seen) \in {"PENDING", "TEAM_LEAD_COMMENTED"}
               => k.seen \notin {"DEPT_HEAD", "HR_ADMIN"}
      BY <2>2 DEF InitialStatus, InitialStamps, Roles
    <3> QED
      BY <1>1, <2>2, <2>3, <3>1, <3>2 DEF CardRow, Stamped
  <2>4. CASE q # r
    BY <1>1, <2>1, <2>4, CardRowKept
  <2> QED
    BY <2>3, <2>4
<1>5. ASSUME NEW c \in Calls, NEW q \in Requests,
             TeamLeadComment(c) \/ DeptApprove(c) \/ HrApprove(c) \/ Reject(c) \/ Cancel(c)
      PROVE  CardRow(q)'
  <2> DEFINE k == call[c]
  <2>1. /\ k.pc = "write" /\ k.req \in Requests /\ k.actor \in Users /\ k.actor # NoUser
        /\ CardCall(k) /\ WellFormed(k) /\ owner' = owner
    BY <1>5, ConstantsAssumption
       DEF TeamLeadComment, DeptApprove, HrApprove, Reject, Cancel, Update, CardInv, AuthInv,
           ChainInv, TypeInv, CallsWellFormed, WellFormed
  <2>2. \A r \in Requests \ {k.req} : status'[r] = status[r] /\ stamp'[r] = stamp[r]
    BY <1>1, <1>5, <2>1 DEF TeamLeadComment, DeptApprove, HrApprove, Reject, Cancel, Update
  <2>3. CASE q # k.req
    BY <2>2, <2>3, CardRowKept
  <2>4. CASE q = k.req /\ TeamLeadComment(c)
    BY <1>1, <2>1, <2>4 DEF TeamLeadComment, Update, CardRow, CardCall
  <2>5. CASE q = k.req /\ (DeptApprove(c) \/ HrApprove(c) \/ Cancel(c))
    BY <1>1, <2>1, <2>5 DEF DeptApprove, HrApprove, Cancel, Update, CardRow
  <2>6. CASE q = k.req /\ Reject(c)
    <3>1. /\ k.op = "reject" /\ k.seen \in {"DEPT_HEAD", "HR_ADMIN", "TENANT_ADMIN"}
          /\ status'[q] = "REJECTED"
          /\ stamp'[q] = [stamp[q] EXCEPT ![StampField(k.seen)] = k.actor]
      BY <1>1, <2>1, <2>6 DEF Reject, Update, WellFormed
    <3>2. StampField(k.seen) = CASE k.seen = "DEPT_HEAD" -> "dept" [] k.seen = "HR_ADMIN" -> "hr"
                                 [] k.seen = "TENANT_ADMIN" -> "tenantAdmin"
      BY <3>1 DEF StampField
    <3>3. Stamped(q, "teamLead") /\ (k.seen # "DEPT_HEAD" => Stamped(q, "dept"))
      BY <2>1, <2>6, <3>1 DEF CardCall
    <3>4. Stamped(q, "teamLead")' /\ Stamped(q, "dept")'
      <4>1. CASE k.seen = "DEPT_HEAD"
        BY <1>1, <2>1, <3>1, <3>2, <3>3, <4>1 DEF Stamped, StampFields
      <4>2. CASE k.seen = "HR_ADMIN"
        BY <1>1, <2>1, <3>1, <3>2, <3>3, <4>2 DEF Stamped, StampFields
      <4>3. CASE k.seen = "TENANT_ADMIN"
        BY <1>1, <2>1, <3>1, <3>2, <3>3, <4>3 DEF Stamped, StampFields
      <4> QED
        BY <3>1, <4>1, <4>2, <4>3
    <3> QED
      BY <3>1, <3>4 DEF CardRow
  <2> QED
    BY <1>5, <2>3, <2>4, <2>5, <2>6
<1>6. CASE OrgStep \/ UNCHANGED vars
  <2>1. stamp' = stamp /\ \A r \in Requests : status'[r] \in {status[r], "Deleted"}
    BY <1>1, <1>6 DEF OrgStep, IssueToken, UpdateUser, SetHrDepartment, RemoveDepartment,
                      RemovePolicy, DeleteRequests, vars, tables
  <2> QED
    BY <2>1, CardRowKept
<1> QED
  BY <1>2, <1>3, <1>4, <1>5, <1>6 DEF Next, Proceed, Write

LEMMA CardNext == CardInv /\ [Next]_vars /\ OrgSettled => CardInv'
<1> SUFFICES ASSUME CardInv, [Next]_vars, OrgSettled PROVE CardInv'
  OBVIOUS
<1>1. AuthInv'
  BY AuthNext DEF CardInv
<1>2. ASSUME NEW c \in Calls PROVE CardCall(call[c])'
  <2>1. CASE call'[c] = call[c]
    BY <2>1, CardCallStable
  <2>2. CASE call'[c] # call[c]
    <3>1. (\E u \in Users : Start(c, u)) \/ Proceed(c) \/ Crash(c)
      <4>1. ASSUME NEW d \in Calls, NEW u \in Users, Start(d, u) PROVE \A e \in Calls \ {d} : call'[e] = call[e]
        BY <4>1, StartEvidence DEF CardInv, AuthInv
      <4>2. ASSUME NEW d \in Calls, Proceed(d) \/ Crash(d) PROVE \A e \in Calls \ {d} : call'[e] = call[e]
        BY <4>2 DEF Proceed, Authorize, HrScope, Write, CreateRequest, TeamLeadComment, DeptApprove,
                    HrApprove, Reject, Cancel, AddComment, Update, Enqueue, Refuse, Crash,
                    CardInv, AuthInv, ChainInv, TypeInv, TypeOK
      <4>3. OrgStep \/ UNCHANGED vars => call' = call
        BY DEF OrgStep, IssueToken, UpdateUser, SetHrDepartment, RemoveDepartment, RemovePolicy, vars
      <4> QED
        BY <2>2, <4>1, <4>2, <4>3 DEF Next
    <3> QED
      BY <3>1, CardStart, CardProceed
  <2> QED
    BY <2>1, <2>2
<1> QED
  BY <1>1, <1>2, CardRows DEF CardInv

\* While users keep their role, the card of every request fits its status,
\* however late writers overtook each other.
THEOREM CardsFitStatus == Spec /\ [][OrgSettled]_vars => []CardsAreCoherent
<1>1. Init => CardInv
  BY AuthInit DEF Init, CardInv, CardRow, CardCall, Idle
<1>2. CardInv /\ [Next]_vars /\ [OrgSettled]_vars => CardInv'
  <2> SUFFICES ASSUME CardInv, [Next]_vars, [OrgSettled]_vars PROVE CardInv'
    OBVIOUS
  <2>1. OrgSettled
    BY DEF OrgSettled, vars, org
  <2> QED
    BY <2>1, CardNext
<1> QED
  BY <1>1, <1>2, CardOfRow, PTL DEF Spec
=============================================================================
