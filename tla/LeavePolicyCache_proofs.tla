----------------------- MODULE LeavePolicyCache_proofs -----------------------
(***************************************************************************)
(* Theorems about the leave policies and their cache, for every number of  *)
(* policies, departments and calls, whether or not Redis and calls fail.   *)
(* Most steps only move a call to its next await: QuietSteps collects what *)
(* the invariants need of them, so that the proofs treat one by one only   *)
(* the steps that write a table or a key.                                  *)
(***************************************************************************)
EXTENDS LeavePolicyCache, TLAPS

(* The key of a call's query is one of the keys of the cache.              *)
LEMMA KeysOfCalls ==
  ASSUME TypeOK, NEW c \in Calls
  PROVE  KeyOfCall(c) \in Keys
<1>1. call[c] \in CallRecord
  BY DEF TypeOK
<1>2. CASE call[c].op \in {"list", "offer"}
  BY <1>1, <1>2 DEF CallRecord, KeyOfCall, KeyOf, Kind, Keys, AllKey
<1>3. CASE call[c].op \notin {"list", "offer"}
  BY <1>1, <1>3 DEF CallRecord, KeyOfCall, KeyOf, Kind, Keys, AllKey
<1> QED BY <1>2, <1>3

(* What the database answers is a set of rows.                             *)
LEMMA ViewsAreRows ==
  ASSUME TypeOK, NEW kind, NEW arg
  PROVE  View(kind, arg) \in SUBSET Row
<1>1. Rows \subseteq Row
  BY DEF TypeOK, Rows, Row, Present
<1> QED BY <1>1 DEF View

(* A call whose query was answered has finished or goes on as the command  *)
(* it is.                                                                  *)
LEMMA AnsweredCalls ==
  ASSUME TypeOK, NEW c \in Calls, NEW rows \in SUBSET Row
  PROVE  /\ Answered(c, rows) \in CallRecord
         /\ Answered(c, rows).pc \in {"idle", "validate", "write"}
         /\ Answered(c, rows).pc # "idle" => Answered(c, rows).op = call[c].op
<1>1. call[c] \in CallRecord
  BY DEF TypeOK
<1>2. CASE call[c].op \in Queries
  BY <1>2 DEF Answered, Idle, CallRecord, Queries, Ops
<1>3. CASE call[c].op \notin Queries
  BY <1>1, <1>3 DEF Answered, CallRecord, Queries, Ops
<1> QED BY <1>2, <1>3

(* A step that moves only call c: it stores nothing, so a call that comes  *)
(* to its store has just read the database, and it is not the end of a     *)
(* creation.                                                               *)
Quiet(c) ==
  /\ \E r \in CallRecord :
       /\ call' = [call EXCEPT ![c] = r]
       /\ r.pc = "store" =>
            /\ r.op = call[c].op /\ r.arg = call[c].arg
            /\ r.view = View(Kind(call[c].op), call[c].arg)
  /\ call[c].pc # "invalidate"
  /\ changes' \in 0 .. MaxChanges
  /\ UNCHANGED <<department, policy, cache, raced>>

(* Requests arriving move only their call.                                 *)
LEMMA ArrivalsAreQuiet ==
  ASSUME TypeOK, NEW c \in Calls, Begin(c)
  PROVE  Quiet(c)
<1>1. changes' \in 0 .. MaxChanges
  BY ConstantsAssumption
     DEF TypeOK, Begin, BeginList, BeginOffer, BeginGet, BeginToggle, BeginRemove,
         BeginCreate, BeginUpdate, BeginWithBody, Change
<1>2. ASSUME NEW op \in Ops, NEW arg \in Policies \cup Departments \cup {NoDept},
             op = "list" => arg = NoDept,
             op = "offer" => arg \in Departments \cup {NoDept},
             op \notin {"list", "offer"} => arg \in Policies,
             Start(c, op, arg)
      PROVE  Quiet(c)
  <2> DEFINE r == [Idle EXCEPT !.pc = "lookup", !.op = op, !.arg = arg]
  <2>1. r \in CallRecord /\ r.pc = "lookup"
    BY <1>2 DEF Idle, CallRecord, Ops, Queries
  <2>2. call' = [call EXCEPT ![c] = r]
    BY <1>2 DEF Start
  <2> HIDE DEF r
  <2> QED BY <1>1, <1>2, <2>1, <2>2 DEF Quiet, Start
<1>3. ASSUME NEW op \in {"create", "update"}, NEW pc \in {"lookup", "validate"},
             NEW p \in Policies, NEW body \in Bodies, BeginWithBody(c, op, pc, p, body)
      PROVE  Quiet(c)
  <2> DEFINE r == [pc |-> pc, op |-> op, arg |-> p, view |-> {},
                   sets |-> body[1], active |-> body[2], depts |-> body[3]]
  <2>1. r \in CallRecord /\ r.pc # "store"
    BY ConstantsAssumption DEF CallRecord, Ops, Queries
  <2>2. call' = [call EXCEPT ![c] = r]
    BY <1>3 DEF BeginWithBody
  <2> HIDE DEF r
  <2> QED BY <1>1, <1>3, <2>1, <2>2 DEF Quiet, BeginWithBody
<1>4. CASE BeginList(c)
  BY <1>2, <1>4 DEF BeginList, Ops, Queries
<1>5. CASE \E d \in Askers : BeginOffer(c, d)
  BY <1>2, <1>5, ConstantsAssumption DEF BeginOffer, Ops, Queries
<1>6. CASE \E p \in Policies : BeginGet(c, p) \/ BeginToggle(c, p) \/ BeginRemove(c, p)
  BY <1>2, <1>6 DEF BeginGet, BeginToggle, BeginRemove, Ops, Queries
<1>7. CASE \E p \in Policies, body \in Bodies : BeginCreate(c, p, body) \/ BeginUpdate(c, p, body)
  BY <1>3, <1>7 DEF BeginCreate, BeginUpdate
<1> QED BY <1>4, <1>5, <1>6, <1>7 DEF Begin

(* So do the steps of a call that write neither a table nor a key.         *)
LEMMA InnerStepsAreQuiet ==
  ASSUME TypeOK, NEW c \in Calls,
         Hit(c) \/ Missed(c) \/ Query(c) \/ Validate(c) \/ Resolve(c) \/ WriteRefused(c)
  PROVE  Quiet(c)
<1>1. /\ call[c] \in CallRecord /\ changes' \in 0 .. MaxChanges
      /\ UNCHANGED <<department, policy, cache, raced>> /\ call[c].pc # "invalidate"
  BY DEF TypeOK, Hit, Missed, Query, Validate, Resolve, WriteRefused
<1>2. Idle \in CallRecord /\ Idle.pc # "store"
  BY DEF Idle, CallRecord, Ops, Queries
<1>3. CASE Hit(c)
  <2>1. cache[KeyOfCall(c)] \in SUBSET Row
    BY <1>3, KeysOfCalls DEF Hit, TypeOK
  <2>2. Answered(c, cache[KeyOfCall(c)]) \in CallRecord
        /\ Answered(c, cache[KeyOfCall(c)]).pc # "store"
    BY <2>1, AnsweredCalls
  <2> QED BY <1>1, <1>3, <2>2 DEF Hit, Quiet
<1>4. CASE Missed(c)
  <2>1. [call[c] EXCEPT !.pc = "query"] \in CallRecord
    BY <1>1 DEF CallRecord, Ops, Queries
  <2>2. call' = [call EXCEPT ![c] = [call[c] EXCEPT !.pc = "query"]]
    BY <1>4 DEF Missed
  <2>3. [call[c] EXCEPT !.pc = "query"].pc = "query"
    BY <1>1 DEF CallRecord
  <2> QED BY <1>1, <2>1, <2>2, <2>3 DEF Quiet
<1>5. CASE Query(c)
  <2> DEFINE r == [call[c] EXCEPT !.pc = "store", !.view = View(Kind(call[c].op), call[c].arg)]
  <2>1. r \in CallRecord /\ r.op = call[c].op /\ r.arg = call[c].arg
        /\ r.view = View(Kind(call[c].op), call[c].arg)
    BY <1>1, ViewsAreRows DEF CallRecord, Ops, Queries
  <2>2. call' = [call EXCEPT ![c] = r] \/ call' = [call EXCEPT ![c] = Idle]
    BY <1>5 DEF Query
  <2> HIDE DEF r
  <2> QED BY <1>1, <1>2, <2>1, <2>2 DEF Quiet
<1>6. CASE Validate(c)
  <2> DEFINE r(pc) == [call[c] EXCEPT !.pc = pc]
  <2>1. \A pc \in {"resolve", "write"} :
          (pc = "resolve" => call[c].op = "create") => r(pc) \in CallRecord /\ r(pc).pc = pc
    BY <1>1 DEF CallRecord, Ops, Queries
  <2>2. \/ call' = [call EXCEPT ![c] = Idle]
        \/ call' = [call EXCEPT ![c] = r("write")]
        \/ call' = [call EXCEPT ![c] = r("resolve")] /\ call[c].op = "create"
    BY <1>6 DEF Validate
  <2> HIDE DEF r
  <2> QED BY <1>1, <1>2, <2>1, <2>2 DEF Quiet
<1>7. CASE Resolve(c)
  <2> DEFINE r == [call[c] EXCEPT !.pc = "write", !.depts = Existing]
  <2>1. r \in CallRecord /\ r.pc = "write"
    BY <1>1 DEF CallRecord, Ops, Queries, Existing
  <2>2. call' = [call EXCEPT ![c] = r]
    BY <1>7 DEF Resolve
  <2> HIDE DEF r
  <2> QED BY <1>1, <2>1, <2>2 DEF Quiet
<1>8. CASE WriteRefused(c)
  BY <1>1, <1>2, <1>8 DEF WriteRefused, Quiet
<1> QED BY <1>3, <1>4, <1>5, <1>6, <1>7, <1>8

(* A call that ends is idle, which is no store.                            *)
LEMMA EndedCalls == Idle \in CallRecord /\ Idle.pc = "idle"
  BY DEF Idle, CallRecord, Ops, Queries

-----------------------------------------------------------------------------
(* Every step keeps the types of the state and the links to departments    *)
(* that are there.                                                         *)
LEMMA TypeStep ==
  ASSUME TypeOK, [Next]_vars
  PROVE  TypeOK'
<1>1. ASSUME NEW c \in Calls, Quiet(c)
      PROVE  TypeOK'
  BY <1>1 DEF Quiet, TypeOK, Existing
<1>2. ASSUME NEW c \in Calls, Store(c)
      PROVE  TypeOK'
  <2>1. call[c] \in CallRecord /\ call[c].view \in SUBSET Row
    BY DEF TypeOK, CallRecord
  <2>2. call' \in [Calls -> CallRecord]
    BY <1>2, <2>1, AnsweredCalls DEF Store, TypeOK
  <2>3. cache' \in [Keys -> {Miss} \cup SUBSET Row]
    BY <1>2, <2>1, KeysOfCalls DEF Store, TypeOK
  <2> QED BY <1>2, <2>2, <2>3 DEF Store, TypeOK, Existing
<1>3. ASSUME NEW c \in Calls, Insert(c)
      PROVE  TypeOK'
  <2>1. call[c] \in CallRecord /\ call[c].op = "create" /\ call[c].depts \subseteq Existing
    BY <1>3 DEF TypeOK, Insert, Accepted
  <2>2. call[c].arg \in Policies /\ call[c].active \in BOOLEAN
        /\ call[c].depts \in SUBSET Departments
    BY <2>1 DEF CallRecord
  <2>3. [call[c] EXCEPT !.pc = "invalidate"] \in CallRecord
    BY <2>1 DEF CallRecord, Ops, Queries
  <2>4. call' \in [Calls -> CallRecord]
    BY <1>3, <2>3 DEF Insert, TypeOK
  <2>5. /\ policy' \in [Policies -> [state : States, active : BOOLEAN, depts : SUBSET Departments]]
        /\ \A p \in Policies : policy'[p].depts \subseteq Existing
    BY <1>3, <2>1, <2>2 DEF Insert, TypeOK, States
  <2> QED BY <1>3, <2>2, <2>4, <2>5 DEF Insert, TypeOK, Existing
<1>4. ASSUME NEW c \in Calls, Invalidate(c)
      PROVE  TypeOK'
  <2>1. call[c] \in CallRecord /\ call[c].arg \in Policies
    BY <1>4 DEF TypeOK, Invalidate, CallRecord
  <2>2. call' \in [Calls -> CallRecord]
    BY <1>4, EndedCalls DEF Invalidate, TypeOK
  <2> QED BY <1>4, <2>1, <2>2 DEF Invalidate, TypeOK, Existing, Keys
<1>5. ASSUME NEW c \in Calls, Update(c) \/ Toggle(c) \/ Remove(c)
      PROVE  TypeOK'
  <2>1. /\ call[c] \in CallRecord /\ call[c].arg \in Policies
        /\ call[c].active \in BOOLEAN /\ call[c].depts \in SUBSET Departments
        /\ call[c].depts \subseteq Existing
    BY <1>5 DEF TypeOK, Update, Toggle, Remove, Accepted, CallRecord
  <2>2. call' \in [Calls -> CallRecord]
    BY <1>5, EndedCalls DEF Update, Toggle, Remove, TypeOK
  <2>3. /\ policy' \in [Policies -> [state : States, active : BOOLEAN, depts : SUBSET Departments]]
        /\ \A p \in Policies : policy'[p].depts \subseteq Existing
    <3>1. CASE Update(c)
      BY <2>1, <3>1, SMTT(60) DEF Update, TypeOK
    <3>2. CASE Toggle(c)
      BY <2>1, <3>2 DEF Toggle, TypeOK
    <3>3. CASE Remove(c)
      BY <2>1, <3>3 DEF Remove, TypeOK, States
    <3> QED BY <1>5, <3>1, <3>2, <3>3
  <2> QED BY <1>5, <2>2, <2>3 DEF Update, Toggle, Remove, TypeOK, Existing
<1>6. ASSUME NEW c \in Calls, Crash(c)
      PROVE  TypeOK'
  <2>1. call[c] \in CallRecord /\ (call[c].pc = "invalidate" => call[c].arg \in Policies)
    BY DEF TypeOK, CallRecord
  <2>2. call' \in [Calls -> CallRecord]
    BY <1>6, EndedCalls DEF Crash, TypeOK
  <2> QED BY <1>6, <2>1, <2>2 DEF Crash, TypeOK, Existing
<1>7. ASSUME NEW k \in Keys, Expire(k)
      PROVE  TypeOK'
  BY <1>7 DEF Expire, TypeOK, Existing
<1>8. ASSUME NEW d \in Departments, CreateDepartment(d)
      PROVE  TypeOK'
  BY <1>8, ConstantsAssumption DEF CreateDepartment, Change, TypeOK, Existing, States
<1>9. ASSUME NEW d \in Departments, RemoveDepartment(d)
      PROVE  TypeOK'
  <2>1. /\ policy' \in [Policies -> [state : States, active : BOOLEAN, depts : SUBSET Departments]]
        /\ \A p \in Policies : policy'[p].depts \subseteq Existing \ {d}
    BY <1>9 DEF RemoveDepartment, TypeOK
  <2>2. department' \in [Departments -> States] /\ Existing' = Existing \ {d}
    BY <1>9 DEF RemoveDepartment, TypeOK, Existing, States
  <2> QED BY <1>9, <2>1, <2>2, ConstantsAssumption DEF RemoveDepartment, Change, TypeOK
<1>10. CASE UNCHANGED vars
  BY <1>10 DEF vars, TypeOK, Existing
<1> QED
  BY <1>1, <1>2, <1>3, <1>4, <1>5, <1>6, <1>7, <1>8, <1>9, <1>10,
     ArrivalsAreQuiet, InnerStepsAreQuiet DEF Next, Proceed

(* The initial state has its types.                                        *)
LEMMA TypeInit == Init => TypeOK
<1> SUFFICES ASSUME Init PROVE TypeOK
  OBVIOUS
<1>1. PICK seeded \in SUBSET Policies :
        policy = [p \in Policies |->
          IF p \in seeded
            THEN [state |-> "present", active |-> TRUE, depts |-> InitDepartments]
            ELSE [state |-> "none", active |-> FALSE, depts |-> {}]]
  BY DEF Init
<1>2. Existing = InitDepartments
  BY ConstantsAssumption DEF Init, Existing
<1>3. /\ policy \in [Policies -> [state : States, active : BOOLEAN, depts : SUBSET Departments]]
      /\ \A p \in Policies : policy[p].depts \subseteq Existing
  BY <1>1, <1>2, ConstantsAssumption DEF States
<1>4. call \in [Calls -> CallRecord]
  BY EndedCalls DEF Init
<1> QED BY <1>3, <1>4, ConstantsAssumption DEF Init, TypeOK, States

(* The state keeps its types, and no policy links to a department that is  *)
(* not there, for any number of policies, departments and calls.           *)
THEOREM TypeCorrect == Spec => []TypeOK
<1>1. TypeOK /\ [Next]_vars => TypeOK'
  BY TypeStep
<1> QED BY TypeInit, <1>1, PTL DEF Spec

-----------------------------------------------------------------------------
(* What every step but a store does to keys and to calls about to store:   *)
(* it deletes keys, and only a query of the database makes a call store.   *)
Deletes ==
  /\ \A k \in Keys : cache'[k] \in {cache[k], Miss}
  /\ \A c \in Calls : call'[c].pc = "store" =>
       \/ call'[c] = call[c]
       \/ call'[c].op = call[c].op /\ call'[c].arg = call[c].arg
          /\ call'[c].view = View(Kind(call[c].op), call[c].arg)

(* Quiet steps are among them.                                             *)
LEMMA QuietStepsDelete ==
  ASSUME TypeOK, NEW c \in Calls, Quiet(c)
  PROVE  Deletes
  BY DEF Quiet, Deletes, TypeOK

(* And so are all the others but a store.                                  *)
LEMMA OtherStepsDelete ==
  ASSUME TypeOK, [Next]_vars
  PROVE  Deletes \/ \E c \in Calls : Store(c)
<1>1. ASSUME NEW c \in Calls, Insert(c) PROVE Deletes
  <2>1. call[c] \in CallRecord
    BY DEF TypeOK
  <2>2. [call[c] EXCEPT !.pc = "invalidate"].pc = "invalidate"
    BY <2>1 DEF CallRecord
  <2>3. call' = [call EXCEPT ![c] = [call[c] EXCEPT !.pc = "invalidate"]]
    BY <1>1 DEF Insert
  <2> QED BY <1>1, <2>2, <2>3 DEF Insert, Deletes, TypeOK
<1>2. ASSUME NEW c \in Calls, Invalidate(c) PROVE Deletes
  BY <1>2, EndedCalls DEF Invalidate, Deletes, TypeOK
<1>3. ASSUME NEW c \in Calls, Update(c) \/ Toggle(c) \/ Remove(c) \/ Crash(c) PROVE Deletes
  BY <1>3, EndedCalls DEF Update, Toggle, Remove, Crash, Deletes, TypeOK
<1>4. ASSUME NEW k \in Keys, Expire(k) PROVE Deletes
  BY <1>4 DEF Expire, Deletes, TypeOK
<1>5. ASSUME NEW d \in Departments, CreateDepartment(d) \/ RemoveDepartment(d) PROVE Deletes
  BY <1>5 DEF CreateDepartment, RemoveDepartment, Deletes
<1>6. CASE UNCHANGED vars
  BY <1>6 DEF vars, Deletes
<1> QED
  BY <1>1, <1>2, <1>3, <1>4, <1>5, <1>6,
     ArrivalsAreQuiet, InnerStepsAreQuiet, QuietStepsDelete DEF Next, Proceed

(* What a call is about to store is fit for the user it is for.            *)
StoresApply ==
  \A c \in Calls : call[c].pc = "store" /\ call[c].op = "offer" =>
    \A r \in call[c].view : Applies(r, call[c].arg)

(* Both, the stored lists and those about to be, survive every step.       *)
LEMMA OffersStep ==
  ASSUME TypeOK, OffersApply, StoresApply, [Next]_vars
  PROVE  OffersApply' /\ StoresApply'
<1>1. \A c \in Calls : call[c].op = "offer" =>
        \A r \in View(Kind(call[c].op), call[c].arg) : Applies(r, call[c].arg)
  BY DEF Kind, View
<1>2. CASE Deletes
  <2>1. StoresApply'
    BY <1>1, <1>2 DEF Deletes, StoresApply, Applies
  <2>2. \A d \in Departments \cup {NoDept} : <<"user", d>> \in Keys
    BY DEF Keys
  <2>3. OffersApply'
    BY <1>2, <2>2 DEF Deletes, OffersApply, Applies
  <2> QED BY <2>1, <2>3
<1>3. ASSUME NEW c \in Calls, Store(c)
      PROVE  OffersApply' /\ StoresApply'
  <2>1. call[c] \in CallRecord /\ call[c].view \in SUBSET Row
    BY DEF TypeOK, CallRecord
  <2>2. \A b \in Calls : call'[b].pc = "store" => call'[b] = call[b]
    BY <1>3, <2>1, AnsweredCalls DEF Store, TypeOK
  <2>3. StoresApply'
    BY <2>2 DEF StoresApply, Applies
  <2>4. ASSUME NEW d \in Departments \cup {NoDept}, cache'[<<"user", d>>] # Miss,
               NEW r \in cache'[<<"user", d>>]
        PROVE  Applies(r, d)
    <3>1. CASE cache'[<<"user", d>>] = cache[<<"user", d>>]
      BY <2>4, <3>1 DEF OffersApply
    <3>2. CASE cache'[<<"user", d>>] # cache[<<"user", d>>]
      <4>1. KeyOfCall(c) = <<"user", d>> /\ cache'[<<"user", d>>] = call[c].view
        BY <1>3, <3>2 DEF Store, TypeOK, Keys
      <4>2. call[c].op = "offer" /\ call[c].arg = d
        BY <4>1 DEF KeyOfCall, KeyOf, Kind
      <4> QED BY <1>3, <2>4, <4>1, <4>2 DEF Store, StoresApply
    <3> QED BY <3>1, <3>2
  <2> QED BY <2>3, <2>4 DEF OffersApply, Applies
<1> QED BY <1>2, <1>3, OtherStepsDelete

(* However many users ask and whatever commands run meanwhile, a user's    *)
(* cached list only offers active policies for the list's department.      *)
THEOREM OffersAreApplicable == Spec => []OffersApply
<1>1. Init => OffersApply /\ StoresApply
  BY EndedCalls DEF Init, OffersApply, StoresApply, Keys
<1>2. TypeOK /\ OffersApply /\ StoresApply /\ [Next]_vars => OffersApply' /\ StoresApply'
  BY OffersStep
<1> QED BY <1>1, <1>2, TypeCorrect, PTL DEF Spec

-----------------------------------------------------------------------------
(* A list about to be stored has every policy of the database but those    *)
(* inserted since it was read.                                             *)
StoresList ==
  \A c \in Calls : call[c].pc = "store" /\ call[c].op = "list" =>
    \A p \in Present \ raced : \E r \in call[c].view : r.id = p

(* The list of all policies that the database answers has them all.        *)
LEMMA FreshLists ==
  ASSUME NEW c \in Calls, call[c].op = "list", NEW p \in Present
  PROVE  \E r \in View(Kind(call[c].op), call[c].arg) : r.id = p
<1> DEFINE r == [id |-> p, active |-> policy[p].active, depts |-> policy[p].depts]
<1>1. r \in Rows /\ r.id = p
  BY DEF Rows
<1>2. View(Kind(call[c].op), call[c].arg) = Rows
  BY DEF View, Kind
<1> QED BY <1>1, <1>2

(* The stored list and those about to be stay complete: a new policy meets *)
(* either no list about to be stored, and then its creation is still to    *)
(* delete the key, or it is remembered in raced.                           *)
LEMMA ListingStep ==
  ASSUME TypeOK, CreatedIsListed, StoresList, [Next]_vars
  PROVE  CreatedIsListed' /\ StoresList'
<1>0. AllKey \in Keys /\ call \in [Calls -> CallRecord] /\ cache \in [Keys -> {Miss} \cup SUBSET Row]
  BY DEF Keys, TypeOK
<1>1. ASSUME NEW c \in Calls, Quiet(c)
      PROVE  CreatedIsListed' /\ StoresList'
  <2>1. Present' = Present /\ raced' = raced /\ cache' = cache
    BY <1>1 DEF Quiet, Present
  <2>2. \A b \in Calls : call[b].pc = "invalidate" => call'[b] = call[b]
    BY <1>1 DEF Quiet, TypeOK
  <2>3. CreatedIsListed'
    BY <2>1, <2>2 DEF CreatedIsListed
  <2>4. ASSUME NEW b \in Calls, call'[b].pc = "store", call'[b].op = "list",
               NEW p \in Present \ raced
        PROVE  \E r \in call'[b].view : r.id = p
    <3>1. CASE call'[b] = call[b]
      BY <2>4, <3>1 DEF StoresList
    <3>2. CASE call[b].op = "list" /\ call'[b].view = View(Kind(call[b].op), call[b].arg)
      BY <2>4, <3>2, FreshLists
    <3> QED BY <1>1, <2>4, <3>1, <3>2, QuietStepsDelete DEF Deletes
  <2> QED BY <2>1, <2>3, <2>4 DEF StoresList
<1>2. ASSUME NEW c \in Calls, Store(c)
      PROVE  CreatedIsListed' /\ StoresList'
  <2>1. Present' = Present /\ raced' = raced
    BY <1>2 DEF Store, Present
  <2>2. call[c].view \in SUBSET Row /\ call[c].pc = "store"
    BY <1>2 DEF Store, TypeOK, CallRecord
  <2>3. \A b \in Calls : /\ call'[b].pc = "store" => call'[b] = call[b]
                         /\ call[b].pc = "invalidate" => call'[b] = call[b]
    BY <1>2, <2>2, AnsweredCalls DEF Store, TypeOK
  <2>4. StoresList'
    BY <2>1, <2>3 DEF StoresList
  <2>5. CASE cache'[AllKey] = cache[AllKey]
    BY <2>1, <2>3, <2>4, <2>5 DEF CreatedIsListed
  <2>6. CASE cache'[AllKey] # cache[AllKey]
    <3>1. KeyOfCall(c) = AllKey /\ cache'[AllKey] = call[c].view
      BY <1>0, <1>2, <2>6 DEF Store, TypeOK
    <3>2. call[c].op = "list"
      BY <3>1 DEF KeyOfCall, KeyOf, Kind, AllKey
    <3> QED BY <2>1, <2>2, <2>4, <3>1, <3>2 DEF StoresList, CreatedIsListed
  <2> QED BY <2>5, <2>6
<1>3. ASSUME NEW c \in Calls, Insert(c)
      PROVE  CreatedIsListed' /\ StoresList'
  <2>1. call[c] \in CallRecord /\ call[c].arg \in Policies /\ call[c].pc = "write"
    BY <1>3 DEF TypeOK, Insert, CallRecord
  <2>2. [call[c] EXCEPT !.pc = "invalidate"].pc = "invalidate"
        /\ [call[c] EXCEPT !.pc = "invalidate"].arg = call[c].arg
    BY <2>1 DEF CallRecord
  <2>3. call' = [call EXCEPT ![c] = [call[c] EXCEPT !.pc = "invalidate"]]
    BY <1>3 DEF Insert
  <2>4. call'[c].pc = "invalidate" /\ call'[c].arg = call[c].arg
    BY <2>2, <2>3 DEF TypeOK
  <2>5. \A b \in Calls : b # c => call'[b] = call[b]
    BY <2>3 DEF TypeOK
  <2>6. Present' \subseteq Present \cup {call[c].arg}
    BY <1>3 DEF Insert, Present, TypeOK
  <2>7. raced \subseteq raced' /\ cache' = cache
    BY <1>3 DEF Insert
  <2>8. CreatedIsListed'
    BY <2>1, <2>4, <2>5, <2>6, <2>7 DEF CreatedIsListed
  <2>9. ASSUME NEW b \in Calls, call'[b].pc = "store", call'[b].op = "list",
               NEW p \in Present' \ raced'
        PROVE  \E r \in call'[b].view : r.id = p
    <3>1. b # c /\ call[b].pc = "store" /\ call[b].op = "list"
      BY <2>4, <2>5, <2>9
    <3>2. call[c].arg \in raced'
      BY <1>3, <3>1 DEF Insert
    <3> QED BY <2>5, <2>6, <2>7, <2>9, <3>1, <3>2 DEF StoresList
  <2> QED BY <2>8, <2>9 DEF StoresList
<1>4. ASSUME NEW c \in Calls, Invalidate(c)
      PROVE  CreatedIsListed' /\ StoresList'
  <2>1. Present' = Present /\ raced \subseteq raced'
    BY <1>4 DEF Invalidate, Present
  <2>0. call' = [call EXCEPT ![c] = Idle]
    BY <1>4 DEF Invalidate
  <2>2. \A b \in Calls : call'[b] = call[b] \/ (b = c /\ call'[b] = Idle)
    BY <1>0, <2>0
  <2>3. StoresList'
    BY <2>1, <2>2, EndedCalls DEF StoresList
  <2>4. cache'[AllKey] = Miss \/ (cache' = cache /\ call[c].arg \in raced')
    BY <1>0, <1>4 DEF Invalidate
  <2> QED BY <2>1, <2>2, <2>3, <2>4 DEF CreatedIsListed
<1>5. ASSUME NEW c \in Calls, Update(c) \/ Toggle(c) \/ Remove(c)
      PROVE  CreatedIsListed' /\ StoresList'
  <2>1. Present' \subseteq Present /\ raced' = raced /\ cache' = cache
    BY <1>5 DEF Update, Toggle, Remove, Accepted, Present, TypeOK
  <2>0. call' = [call EXCEPT ![c] = Idle] /\ call[c].pc = "write"
    BY <1>5 DEF Update, Toggle, Remove
  <2>2. \A b \in Calls : call'[b] = call[b] \/ (call[b].pc = "write" /\ call'[b] = Idle)
    BY <1>0, <2>0
  <2> QED BY <2>1, <2>2, EndedCalls DEF CreatedIsListed, StoresList
<1>6. ASSUME NEW c \in Calls, Crash(c)
      PROVE  CreatedIsListed' /\ StoresList'
  <2>1. Present' = Present /\ raced \subseteq raced' /\ cache' = cache
    BY <1>6 DEF Crash, Present
  <2>0. call' = [call EXCEPT ![c] = Idle]
    BY <1>6 DEF Crash
  <2>2. \A b \in Calls : call'[b] = call[b] \/ (b = c /\ call'[b] = Idle)
    BY <1>0, <2>0
  <2>3. call[c].pc = "invalidate" => call[c].arg \in raced'
    BY <1>6 DEF Crash
  <2> QED BY <2>1, <2>2, <2>3, EndedCalls DEF CreatedIsListed, StoresList
<1>7. ASSUME NEW k \in Keys, Expire(k)
      PROVE  CreatedIsListed' /\ StoresList'
  <2>1. Present' = Present /\ raced' = raced /\ call' = call
        /\ cache'[AllKey] \in {cache[AllKey], Miss}
    BY <1>0, <1>7 DEF Expire, Present, TypeOK
  <2> QED BY <2>1 DEF CreatedIsListed, StoresList
<1>8. ASSUME NEW d \in Departments, CreateDepartment(d) \/ RemoveDepartment(d)
      PROVE  CreatedIsListed' /\ StoresList'
  <2>1. Present' = Present /\ raced' = raced /\ call' = call /\ cache' = cache
    BY <1>8 DEF CreateDepartment, RemoveDepartment, Present, TypeOK
  <2> QED BY <2>1 DEF CreatedIsListed, StoresList
<1>9. CASE UNCHANGED vars
  BY <1>9 DEF vars, CreatedIsListed, StoresList, Present
<1> QED
  BY <1>1, <1>2, <1>3, <1>4, <1>5, <1>6, <1>7, <1>8, <1>9,
     ArrivalsAreQuiet, InnerStepsAreQuiet DEF Next, Proceed

(* For any number of calls, a policy whose creation was answered is in the *)
(* cached list of all policies, unless the delete of the key failed or a   *)
(* list was between its read and its store when the policy was inserted.   *)
THEOREM CreationsAreListed == Spec => []CreatedIsListed
<1>1. Init => CreatedIsListed /\ StoresList
  BY EndedCalls DEF Init, CreatedIsListed, StoresList, Keys
<1>2. TypeOK /\ CreatedIsListed /\ StoresList /\ [Next]_vars
        => CreatedIsListed' /\ StoresList'
  BY ListingStep
<1> QED BY <1>1, <1>2, TypeCorrect, PTL DEF Spec
=============================================================================
