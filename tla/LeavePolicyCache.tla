------------------------- MODULE LeavePolicyCache -------------------------
(***************************************************************************)
(* The leave policies of a tenant and the Redis cache its queries read     *)
(* through.  A query looks its key up, reads the database on a miss, and   *)
(* stores what it read for 300 seconds.  The commands update, toggle and   *)
(* remove start with the query for one policy, so they too may be answered *)
(* from the cache; of all commands only create deletes a key, the list of  *)
(* all policies.  RedisService swallows the errors of Redis: a failed get  *)
(* is a miss, a failed set or delete does nothing.                         *)
(*                                                                         *)
(* A call is one HTTP request and pc the await it resumes from.  A query   *)
(* of the database with its includes is one step.  A list is the set of    *)
(* its rows; the columns kept are isActive and the linked departments.     *)
(***************************************************************************)
EXTENDS Naturals, FiniteSets

CONSTANTS
  Policies, Departments, Calls,
  InitDepartments,                \* the departments there are initially
  NoDept,                         \* a user without a department
  Askers,                         \* the departments of the users who ask
  Miss,                           \* no entry under a key
  RedisFails, CallsFail,          \* may Redis fail, may a call die half-way
  Bodies,                         \* the request bodies to consider: <<fields
                                  \* set, isActive, departmentIds>>
  MaxChanges                      \* bound on commands and department changes

ASSUME ConstantsAssumption ==
  /\ InitDepartments \subseteq Departments
  /\ NoDept \notin Departments /\ Askers \subseteq Departments \cup {NoDept}
  /\ RedisFails \in BOOLEAN /\ CallsFail \in BOOLEAN
  /\ Bodies \subseteq (SUBSET {"active", "depts"}) \X BOOLEAN \X (SUBSET Departments)
  /\ MaxChanges \in Nat

VARIABLES
  department,  \* each department: not created, present, or removed
  policy,      \* each policy: the same, isActive, and its departments
  cache,       \* the rows under each key of Redis, or Miss
  call,        \* what each call is doing
  changes,     \* commands and department changes so far
  raced        \* policies whose creation met a list being read, or whose
               \* key was not deleted (history)

vars == <<department, policy, cache, call, changes, raced>>

States == {"none", "present", "removed"}

Row == [id : Policies, active : BOOLEAN, depts : SUBSET Departments]

AllKey == <<"all", NoDept>>

Keys == {AllKey} \cup ({"user"} \X (Departments \cup {NoDept})) \cup ({"one"} \X Policies)

Queries == {"list", "offer", "get"}

Ops == Queries \cup {"create", "update", "toggle", "remove"}

\* view: the rows read; sets, active, depts: the fields of the request body.
CallRecord ==
  {r \in [pc : {"idle", "lookup", "query", "store", "validate", "resolve", "write", "invalidate"},
          op : Ops, arg : Policies \cup Departments \cup {NoDept}, view : SUBSET Row,
          sets : SUBSET {"active", "depts"}, active : BOOLEAN, depts : SUBSET Departments] :
     /\ r.op = "list" => r.arg = NoDept
     /\ r.op = "offer" => r.arg \in Departments \cup {NoDept}
     /\ r.op \notin {"list", "offer"} => r.arg \in Policies
     /\ r.pc \in {"resolve", "invalidate"} => r.op = "create"}

Idle ==
  [pc |-> "idle", op |-> "list", arg |-> NoDept, view |-> {},
   sets |-> {}, active |-> FALSE, depts |-> {}]

\* The policies there are at first are active, and for the departments there are.
Init ==
  /\ department = [d \in Departments |-> IF d \in InitDepartments THEN "present" ELSE "none"]
  /\ \E seeded \in SUBSET Policies :
       policy = [p \in Policies |->
         IF p \in seeded
           THEN [state |-> "present", active |-> TRUE, depts |-> InitDepartments]
           ELSE [state |-> "none", active |-> FALSE, depts |-> {}]]
  /\ cache = [k \in Keys |-> Miss]
  /\ call = [c \in Calls |-> Idle]
  /\ changes = 0 /\ raced = {}

Existing == {d \in Departments : department[d] = "present"}

Present == {p \in Policies : policy[p].state = "present"}

Rows == {[id |-> p, active |-> policy[p].active, depts |-> policy[p].depts] : p \in Present}

\* A policy without links applies to everybody.
Applies(r, d) == r.active /\ (r.depts = {} \/ d \in r.depts)

\* What a query is about: all policies, those for a department, or one.
Kind(op) == IF op = "list" THEN "all" ELSE IF op = "offer" THEN "user" ELSE "one"

\* What the database answers.
View(kind, arg) ==
  {r \in Rows : \/ kind = "all"
                \/ kind = "user" /\ Applies(r, arg)
                \/ kind = "one" /\ r.id = arg}

\* Variant: the key of a user's list leaves the department out.
KeyOfEverybody(op, arg) == <<Kind(op), IF op = "offer" THEN NoDept ELSE arg>>

KeyOf(op, arg) == <<Kind(op), arg>>

KeyOfCall(c) == KeyOf(call[c].op, call[c].arg)

-----------------------------------------------------------------------------
(* Requests arriving. *)

Start(c, op, arg) ==
  /\ call[c].pc = "idle"
  /\ call' = [call EXCEPT ![c] = [Idle EXCEPT !.pc = "lookup", !.op = op, !.arg = arg]]
  /\ UNCHANGED <<department, policy, cache, raced>>

BeginList(c) == Start(c, "list", NoDept) /\ UNCHANGED changes

\* The department is the one in the caller's token.
BeginOffer(c, d) ==
  /\ d # NoDept => department[d] # "none"
  /\ Start(c, "offer", d)
  /\ UNCHANGED changes

BeginGet(c, p) ==
  /\ policy[p].state # "none"
  /\ Start(c, "get", p)
  /\ UNCHANGED changes

Change == changes < MaxChanges /\ changes' = changes + 1

BeginToggle(c, p) == policy[p].state # "none" /\ Start(c, "toggle", p) /\ Change

BeginRemove(c, p) == policy[p].state # "none" /\ Start(c, "remove", p) /\ Change

\* A body may name departments that were removed.
BeginWithBody(c, op, pc, p, body) ==
  /\ call[c].pc = "idle"
  /\ \A d \in body[3] : department[d] # "none"
  /\ call' = [call EXCEPT ![c] =
       [pc |-> pc, op |-> op, arg |-> p, view |-> {},
        sets |-> body[1], active |-> body[2], depts |-> body[3]]]
  /\ Change
  /\ UNCHANGED <<department, policy, cache, raced>>

BeginUpdate(c, p, body) ==
  /\ policy[p].state # "none"
  /\ BeginWithBody(c, "update", "lookup", p, body)

\* p is the id the insert will generate.
BeginCreate(c, p, body) ==
  /\ policy[p].state = "none"
  /\ \A b \in Calls : call[b].op = "create" => call[b].arg # p
  /\ body[1] = {"active", "depts"}
  /\ BeginWithBody(c, "create", "validate", p, body)

-----------------------------------------------------------------------------
(* The read-through queries. *)

\* The call once its query is answered with rows: a command goes on.
Answered(c, rows) ==
  IF call[c].op \in Queries
    THEN Idle
    ELSE [call[c] EXCEPT !.pc = IF call[c].op = "update" THEN "validate" ELSE "write",
                         !.view = IF call[c].op = "toggle" THEN rows ELSE {}]

Hit(c) ==
  /\ call[c].pc = "lookup" /\ cache[KeyOfCall(c)] # Miss
  /\ call' = [call EXCEPT ![c] = Answered(c, cache[KeyOfCall(c)])]
  /\ UNCHANGED <<department, policy, cache, changes, raced>>

Missed(c) ==
  /\ call[c].pc = "lookup" /\ (cache[KeyOfCall(c)] = Miss \/ RedisFails)
  /\ call' = [call EXCEPT ![c].pc = "query"]
  /\ UNCHANGED <<department, policy, cache, changes, raced>>

\* A policy that is not there is a 404, which is not cached.
Query(c) ==
  LET rows == View(Kind(call[c].op), call[c].arg) IN
  /\ call[c].pc = "query"
  /\ call' = [call EXCEPT ![c] =
       IF call[c].op \notin {"list", "offer"} /\ rows = {}
         THEN Idle
         ELSE [call[c] EXCEPT !.pc = "store", !.view = rows]]
  /\ UNCHANGED <<department, policy, cache, changes, raced>>

Store(c) ==
  /\ call[c].pc = "store"
  /\ \/ cache' = [cache EXCEPT ![KeyOfCall(c)] = call[c].view]
     \/ RedisFails /\ UNCHANGED cache
  /\ call' = [call EXCEPT ![c] = Answered(c, call[c].view)]
  /\ UNCHANGED <<department, policy, changes, raced>>

\* Variant: lists are stored without a time to live.
ExpireOne(k) ==
  /\ cache[k] # Miss /\ k[1] = "one"
  /\ cache' = [cache EXCEPT ![k] = Miss]
  /\ UNCHANGED <<department, policy, call, changes, raced>>

Expire(k) ==
  /\ cache[k] # Miss
  /\ cache' = [cache EXCEPT ![k] = Miss]
  /\ UNCHANGED <<department, policy, call, changes, raced>>

-----------------------------------------------------------------------------
(* The commands. *)

\* Unknown departments are refused; an empty list is not looked up.
Validate(c) ==
  /\ call[c].pc = "validate"
  /\ call' = [call EXCEPT ![c] =
       IF ~ call[c].depts \subseteq Existing
         THEN Idle
         ELSE [call[c] EXCEPT !.pc =
                 IF call[c].op = "create" /\ call[c].depts = {} THEN "resolve" ELSE "write"]]
  /\ UNCHANGED <<department, policy, cache, changes, raced>>

\* A creation without departments is for those there are now.
Resolve(c) ==
  /\ call[c].pc = "resolve"
  /\ call' = [call EXCEPT ![c].pc = "write", ![c].depts = Existing]
  /\ UNCHANGED <<department, policy, cache, changes, raced>>

\* The row to change is still there, and so are the departments to link.
Accepted(c) ==
  /\ call[c].depts \subseteq Existing
  /\ call[c].op # "create" => policy[call[c].arg].state = "present"

WriteRefused(c) ==
  /\ call[c].pc = "write" /\ ~Accepted(c)
  /\ call' = [call EXCEPT ![c] = Idle]
  /\ UNCHANGED <<department, policy, cache, changes, raced>>

Insert(c) ==
  LET p == call[c].arg IN
  /\ call[c].pc = "write" /\ call[c].op = "create" /\ Accepted(c)
  /\ policy' = [policy EXCEPT ![p] =
       [state |-> "present", active |-> call[c].active, depts |-> call[c].depts]]
  /\ raced' = IF \E b \in Calls : call[b].pc = "store" /\ call[b].op = "list"
                THEN raced \cup {p} ELSE raced
  /\ call' = [call EXCEPT ![c].pc = "invalidate"]
  /\ UNCHANGED <<department, cache, changes>>

\* Variant: the key of the new policy is deleted, not the list's.
InvalidateOne(c) ==
  /\ call[c].pc = "invalidate"
  /\ \/ cache' = [cache EXCEPT ![<<"one", call[c].arg>>] = Miss] /\ UNCHANGED raced
     \/ RedisFails /\ raced' = raced \cup {call[c].arg} /\ UNCHANGED cache
  /\ call' = [call EXCEPT ![c] = Idle]
  /\ UNCHANGED <<department, policy, changes>>

Invalidate(c) ==
  /\ call[c].pc = "invalidate"
  /\ \/ cache' = [cache EXCEPT ![AllKey] = Miss] /\ UNCHANGED raced
     \/ RedisFails /\ raced' = raced \cup {call[c].arg} /\ UNCHANGED cache
  /\ call' = [call EXCEPT ![c] = Idle]
  /\ UNCHANGED <<department, policy, changes>>

Update(c) ==
  LET p == call[c].arg IN
  /\ call[c].pc = "write" /\ call[c].op = "update" /\ Accepted(c)
  /\ policy' = [policy EXCEPT
       ![p].active = IF "active" \in call[c].sets THEN call[c].active ELSE @,
       ![p].depts  = IF "depts" \in call[c].sets THEN call[c].depts ELSE @]
  /\ call' = [call EXCEPT ![c] = Idle]
  /\ UNCHANGED <<department, cache, changes, raced>>

\* The opposite of what the query answered.
Toggle(c) ==
  LET p == call[c].arg IN
  /\ call[c].pc = "write" /\ call[c].op = "toggle" /\ Accepted(c)
  /\ policy' = [policy EXCEPT ![p].active = \A r \in call[c].view : ~r.active]
  /\ call' = [call EXCEPT ![c] = Idle]
  /\ UNCHANGED <<department, cache, changes, raced>>

Remove(c) ==
  /\ call[c].pc = "write" /\ call[c].op = "remove" /\ Accepted(c)
  /\ policy' = [policy EXCEPT ![call[c].arg].state = "removed", ![call[c].arg].depts = {}]
  /\ call' = [call EXCEPT ![c] = Idle]
  /\ UNCHANGED <<department, cache, changes, raced>>

Crash(c) ==
  /\ CallsFail /\ call[c].pc # "idle"
  /\ raced' = IF call[c].pc = "invalidate" THEN raced \cup {call[c].arg} ELSE raced
  /\ call' = [call EXCEPT ![c] = Idle]
  /\ UNCHANGED <<department, policy, cache, changes>>

-----------------------------------------------------------------------------
(* Departments come and go. *)

CreateDepartment(d) ==
  /\ department[d] = "none"
  /\ department' = [department EXCEPT ![d] = "present"]
  /\ Change
  /\ UNCHANGED <<policy, cache, call, raced>>

\* Variant: the links to a removed department stay.
RemoveDepartmentOnly(d) ==
  /\ department[d] = "present"
  /\ department' = [department EXCEPT ![d] = "removed"]
  /\ Change
  /\ UNCHANGED <<policy, cache, call, raced>>

\* The links to a removed department go with it.
RemoveDepartment(d) ==
  /\ department[d] = "present"
  /\ department' = [department EXCEPT ![d] = "removed"]
  /\ policy' = [p \in Policies |-> [policy[p] EXCEPT !.depts = @ \ {d}]]
  /\ Change
  /\ UNCHANGED <<cache, call, raced>>

-----------------------------------------------------------------------------
Begin(c) ==
  \/ BeginList(c)
  \/ \E d \in Askers : BeginOffer(c, d)
  \/ \E p \in Policies :
       \/ BeginGet(c, p) \/ BeginToggle(c, p) \/ BeginRemove(c, p)
       \/ \E body \in Bodies : BeginCreate(c, p, body) \/ BeginUpdate(c, p, body)

Proceed(c) ==
  \/ Hit(c) \/ Missed(c) \/ Query(c) \/ Store(c)
  \/ Validate(c) \/ Resolve(c) \/ WriteRefused(c)
  \/ Insert(c) \/ Invalidate(c) \/ Update(c) \/ Toggle(c) \/ Remove(c)

Next ==
  \/ \E c \in Calls : Begin(c) \/ Proceed(c) \/ Crash(c)
  \/ \E k \in Keys : Expire(k)
  \/ \E d \in Departments : CreateDepartment(d) \/ RemoveDepartment(d)

Spec == Init /\ [][Next]_vars

\* A call goes on and an entry expires; nobody is assumed to ask or change.
FairSpec ==
  /\ Spec
  /\ \A c \in Calls : WF_vars(Proceed(c))
  /\ \A k \in Keys : WF_vars(Expire(k))

-----------------------------------------------------------------------------
(* The types of the state.  A link refers to a department that is there    *)
(* (foreign key, leave_policy_departments), however validation, resolution *)
(* and insert interleave with the removal of departments.                  *)
TypeOK ==
  /\ department \in [Departments -> States]
  /\ policy \in [Policies -> [state : States, active : BOOLEAN, depts : SUBSET Departments]]
  /\ cache \in [Keys -> {Miss} \cup SUBSET Row]
  /\ call \in [Calls -> CallRecord]
  /\ changes \in 0 .. MaxChanges
  /\ raced \subseteq Policies
  /\ \A p \in Policies : policy[p].depts \subseteq Existing

(* A user's cached list ("my-policies") only offers active policies that   *)
(* apply to the department the list is for, whoever filled it.             *)
OffersApply ==
  \A d \in Departments \cup {NoDept} :
    cache[<<"user", d>>] # Miss => \A r \in cache[<<"user", d>>] : Applies(r, d)

(* Once its creation is answered, a policy is in the cached list of all    *)
(* policies, unless Redis or the call failed before the key was deleted or *)
(* somebody was between reading and storing the list when it was inserted. *)
CreatedIsListed ==
  \A p \in Present \ raced :
    \/ cache[AllKey] = Miss
    \/ \E r \in cache[AllKey] : r.id = p
    \/ \E c \in Calls : call[c].pc = "invalidate" /\ call[c].arg = p

(* Once the changes stop, every entry of the cache agrees with the         *)
(* database for good, although no command but create deletes a key.        *)
Converges == <>[](\A k \in Keys : cache[k] \in {Miss, View(k[1], k[2])})
=============================================================================
