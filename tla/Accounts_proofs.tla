--------------------------- MODULE Accounts_proofs ---------------------------
(***************************************************************************)
(* Proofs about Accounts for any number of companies, users, tokens, links *)
(* and overlapping calls.                                                  *)
(***************************************************************************)
EXTENDS Accounts, TLAPS

-----------------------------------------------------------------------------
(* The types of the calls. *)

\* Rows keep their company when they are removed; whoever holds an access
\* token was inserted.
Known ==
  \A u \in Users : /\ user[u].state # "none" => user[u].tenant \in Tenants
                   /\ access[u] # {} => user[u].state # "none"

TypeInv == TypeOK /\ Known

CallsTyped == call \in [Calls -> CallRecord]

LEMMA IdleTyped == Idle \in CallRecord
BY ConstantsAssumption DEF Idle, CallRecord

\* The records of the calls that arrive.
LEMMA ArriveTyped ==
  ASSUME TypeInv, NEW c \in Calls, Arrive(c)
  PROVE  CallsTyped'
<1>1. ASSUME NEW k \in CallRecord, Begin(c, k) PROVE CallsTyped'
  BY <1>1 DEF Begin, CallsTyped, TypeInv, TypeOK
<1>2. /\ user \in [Users -> UserRow] /\ holder \in [Tokens -> {None} \cup Users]
      /\ None \notin Tokens
      /\ \A u \in Users : Exists(u) => user[u].tenant \in Tenants
      /\ \A u \in Users : access[u] # {} => user[u].tenant \in Tenants
  BY ConstantsAssumption DEF TypeInv, TypeOK, Known
<1>3. ASSUME NEW u \in Users,
             BeginLogin(c, u) \/ BeginChange(c, u) \/ BeginForgot(c, u)
             \/ \E l \in {None} \cup Links : BeginReset(c, u, l)
      PROVE  CallsTyped'
  <2>1. [Idle EXCEPT !.op = "login", !.pc = "mint", !.user = u, !.role = user[u].role] \in CallRecord
    BY <1>2 DEF Idle, CallRecord, UserRow
  <2>2. [Idle EXCEPT !.op = "change", !.pc = "write", !.user = u] \in CallRecord
    BY DEF Idle, CallRecord
  <2>3. [Idle EXCEPT !.op = "forgot", !.pc = "write", !.user = u] \in CallRecord
    BY DEF Idle, CallRecord
  <2>4. \A l \in {None} \cup Links :
          [Idle EXCEPT !.op = "reset", !.pc = "write", !.user = u, !.link = l] \in CallRecord
    BY DEF Idle, CallRecord
  <2> QED
    BY <1>1, <1>3, <2>1, <2>2, <2>3, <2>4 DEF BeginLogin, BeginChange, BeginForgot, BeginReset
<1>4. ASSUME NEW t \in Tokens, BeginLogout(c, t) \/ BeginRefresh(c, t) PROVE CallsTyped'
  <2>1. /\ [Idle EXCEPT !.op = "logout", !.pc = "delete", !.token = t] \in CallRecord
        /\ [Idle EXCEPT !.op = "refresh", !.pc = "row", !.token = t] \in CallRecord
    BY DEF Idle, CallRecord
  <2> QED
    BY <1>1, <1>4, <2>1 DEF BeginLogout, BeginRefresh
<1>5. ASSUME NEW n \in Names, NEW e \in Emails, BeginCompany(c, n, e) PROVE CallsTyped'
  <2>1. [Idle EXCEPT !.op = "company", !.pc = "email", !.to = n, !.email = e,
                     !.role = "admin"] \in CallRecord
    BY DEF Idle, CallRecord, Roles
  <2> QED
    BY <1>1, <1>5, <2>1 DEF BeginCompany
<1>6. ASSUME NEW a \in Users, NEW e \in Emails, NEW r \in Roles, BeginJoin(c, a, e, r)
      PROVE  CallsTyped'
  <2>1. user[a].tenant \in Tenants
    BY <1>2, <1>6 DEF BeginJoin, MayAdminister
  <2>2. [Idle EXCEPT !.op = "join", !.pc = "email", !.tenant = user[a].tenant,
                     !.email = e, !.role = r] \in CallRecord
    BY <2>1 DEF Idle, CallRecord
  <2> QED
    BY <1>1, <1>6, <2>2 DEF BeginJoin
<1>7. ASSUME NEW a \in Users, NEW u \in Users, NEW e \in {None} \cup Emails,
             NEW r \in {None} \cup Roles, BeginUpdate(c, a, u, e, r) \/ BeginRemove(c, a, u)
      PROVE  CallsTyped'
  <2>1. /\ [Idle EXCEPT !.op = "update", !.pc = "write", !.user = u,
                        !.email = e, !.role = r] \in CallRecord
        /\ [Idle EXCEPT !.op = "remove", !.pc = "write", !.user = u] \in CallRecord
    BY DEF Idle, CallRecord
  <2> QED
    BY <1>1, <1>7, <2>1 DEF BeginUpdate, BeginRemove
<1>8. ASSUME NEW a \in Users, NEW n \in Names, NEW to \in Names,
             BeginFound(c, a, n) \/ BeginRename(c, a, n, to)
      PROVE  CallsTyped'
  <2>1. /\ [Idle EXCEPT !.op = "found", !.pc = "create", !.to = n] \in CallRecord
        /\ [Idle EXCEPT !.op = "rename", !.pc = "write", !.where = n, !.to = to] \in CallRecord
    BY DEF Idle, CallRecord
  <2> QED
    BY <1>1, <1>8, <2>1 DEF BeginFound, BeginRename
<1>9. ASSUME NEW a \in Users, NEW w \in Tenants, BeginDissolve(c, a, w) PROVE CallsTyped'
  <2>1. [Idle EXCEPT !.op = "dissolve", !.pc = "write", !.tenant = w] \in CallRecord
    BY DEF Idle, CallRecord
  <2> QED
    BY <1>1, <1>9, <2>1 DEF BeginDissolve
<1> QED
  BY <1>3, <1>4, <1>5, <1>6, <1>7, <1>8, <1>9 DEF Arrive

\* The records of the calls that go on.
LEMMA ProceedTyped ==
  ASSUME TypeInv, NEW c \in Calls, Proceed(c) \/ Fail(c)
  PROVE  CallsTyped'
<1> DEFINE k == call[c]
<1>1. /\ k \in CallRecord /\ call \in [Calls -> CallRecord]
      /\ user \in [Users -> UserRow] /\ holder \in [Tokens -> {None} \cup Users]
  BY DEF TypeInv, TypeOK
<1>2. ASSUME NEW x \in CallRecord, call' = [call EXCEPT ![c] = x] PROVE CallsTyped'
  BY <1>1, <1>2 DEF CallsTyped
<1>3. ASSUME End(c) PROVE CallsTyped'
  BY <1>2, <1>3, IdleTyped DEF End
<1>4. ASSUME FindRow(c) PROVE CallsTyped'
  <2>1. CASE holder[k.token] = None
    BY <1>2, <1>4, <2>1, IdleTyped DEF FindRow
  <2>2. CASE holder[k.token] # None
    <3>1. k.op = "refresh" /\ k.token \in Tokens /\ holder[k.token] \in Users
      BY <1>1, <1>4, <2>2, ConstantsAssumption DEF FindRow, CallRecord
    <3>2. \A pc \in {"drop", "owner"} : [k EXCEPT !.pc = pc, !.user = holder[k.token]] \in CallRecord
      BY <1>1, <3>1 DEF CallRecord
    <3>3. \E pc \in {"drop", "owner"} :
            call' = [call EXCEPT ![c] = [k EXCEPT !.pc = pc, !.user = holder[k.token]]]
      BY <1>1, <1>4, <2>2 DEF FindRow
    <3> QED
      BY <1>2, <3>2, <3>3
  <2> QED
    BY <2>1, <2>2
<1>5. ASSUME FindOwner(c) PROVE CallsTyped'
  <2>1. CASE ~Exists(k.user)
    BY <1>2, <1>5, <2>1, IdleTyped DEF FindOwner
  <2>2. CASE Exists(k.user)
    <3>1. k.op = "refresh" /\ k.token \in Tokens /\ k.user \in Users
      BY <1>1, <1>5 DEF FindOwner, CallRecord
    <3>2. user[k.user].role \in Roles
      BY <1>1, <3>1 DEF UserRow
    <3>3. \A r \in Roles : [k EXCEPT !.pc = "delete", !.role = r] \in CallRecord
      BY <1>1, <3>1 DEF CallRecord
    <3>4. call' = [call EXCEPT ![c] = [k EXCEPT !.pc = "delete", !.role = user[k.user].role]]
      BY <1>1, <1>5, <2>2 DEF FindOwner
    <3> QED
      BY <1>2, <3>2, <3>3, <3>4
  <2> QED
    BY <2>1, <2>2
<1>6. ASSUME Delete(c), ~End(c) PROVE CallsTyped'
  <2>1. k.op = "refresh" /\ k.pc = "delete" /\ call' = [call EXCEPT ![c] = [k EXCEPT !.pc = "mark"]]
    BY <1>1, <1>6 DEF Delete, Goto
  <2>2. [k EXCEPT !.pc = "mark"] \in CallRecord
    BY <1>1, <2>1 DEF CallRecord
  <2> QED
    BY <1>2, <2>1, <2>2
<1>7. ASSUME Mark(c) PROVE CallsTyped'
  <2>1. k.op = "refresh" /\ k.pc = "mark" /\ call' = [call EXCEPT ![c] = [k EXCEPT !.pc = "mint"]]
    BY <1>1, <1>7 DEF Mark, Goto, CallRecord
  <2>2. [k EXCEPT !.pc = "mint"] \in CallRecord
    BY <1>1, <2>1 DEF CallRecord
  <2> QED
    BY <1>2, <2>1, <2>2
<1>8. ASSUME FindEmail(c), ~End(c) PROVE CallsTyped'
  <2>1. k.op \in {"join", "company"} /\ call' = [call EXCEPT ![c] = [k EXCEPT !.pc = "create"]]
    BY <1>1, <1>8 DEF FindEmail, Goto, CallRecord
  <2>2. [k EXCEPT !.pc = "create"] \in CallRecord
    BY <1>1, <2>1 DEF CallRecord
  <2> QED
    BY <1>2, <2>1, <2>2
<1>9. ASSUME Company(c) PROVE CallsTyped'
  <2>1. PICK u \in Users : call' = [call EXCEPT ![c] = [k EXCEPT !.pc = "mint", !.user = u]]
    BY <1>1, <1>9 DEF Company, NewUser, Next1
  <2>2. [k EXCEPT !.pc = "mint", !.user = u] \in CallRecord
    BY <1>1, <1>9 DEF Company, CallRecord
  <2> QED
    BY <1>2, <2>1, <2>2
<1> QED
  BY <1>3, <1>4, <1>5, <1>6, <1>7, <1>8, <1>9
     DEF Proceed, Fail, Refuse, Mint, Reset, Change, Forgot, Join, Found, Rename, Update, Remove,
         Dissolve

-----------------------------------------------------------------------------
(* The types of the tables, and what refers to what. *)

RowsTyped ==
  /\ tenant \in [Tenants -> TenantRow] /\ user \in [Users -> UserRow]
  /\ holder \in [Tokens -> {None} \cup Users] /\ root \in [Tokens -> Tokens]
  /\ access \in [Users -> SUBSET Roles] /\ started \in 0 .. MaxStarted
  /\ blacklist \cup expired \cup issued \subseteq Tokens
  /\ mailed \cup spent \subseteq Links

References ==
  /\ \A u \in Users :
       Exists(u) => user[u].tenant \in Tenants /\ tenant[user[u].tenant].state = "present"
  /\ \A t \in Tokens : holder[t] # None => Exists(holder[t])

Rows == RowsTyped /\ References /\ Known

LEMMA TypeParts == TypeInv <=> Rows /\ CallsTyped
BY DEF TypeInv, TypeOK, Rows, RowsTyped, References, CallsTyped

\* What the steps that only move a call, a mark or an access token leave alone.
Quiet ==
  /\ UNCHANGED <<tenant, user, root, mailed, issued, spent>>
  /\ \A t \in Tokens : holder'[t] \in {holder[t], None}
  /\ \A u \in Users : access'[u] \subseteq access[u]

LEMMA QuietKeepsRows ==
  ASSUME Rows, RowsTyped', Quiet
  PROVE  Rows'
BY DEF Rows, References, Known, Quiet, Exists

\* Steps that change one existing user, keeping the company and the row.
LEMMA EditKeepsRows ==
  ASSUME Rows, NEW u \in Users, NEW x \in UserRow, Exists(u),
         user' = [user EXCEPT ![u] = x], x.tenant = user[u].tenant,
         x.state \in {"active", "offboarded"},
         UNCHANGED <<tenant, holder, access>>, RowsTyped'
  PROVE  Rows'
<1>1. /\ \A v \in Users : /\ Exists(v)' <=> Exists(v)
                         /\ user'[v].tenant = user[v].tenant
                         /\ (user'[v].state = "none") <=> (user[v].state = "none")
  BY DEF Exists, Rows, RowsTyped, UserRow
<1>2. \A t \in Tokens : holder[t] # None => holder[t] \in Users
  BY DEF Rows, RowsTyped
<1>3. /\ \A v \in Users :
            Exists(v)' => user'[v].tenant \in Tenants /\ tenant'[user'[v].tenant].state = "present"
      /\ \A t \in Tokens : holder'[t] # None => user'[holder'[t]].state \in {"active", "offboarded"}
      /\ Known'
  BY <1>1, <1>2 DEF Rows, References, Known, Exists
<1> QED
  BY <1>3 DEF Rows, References, Exists

LEMMA CallRows ==
  ASSUME TypeInv, NEW c \in Calls,
         \/ Arrive(c) \/ FindRow(c) \/ FindOwner(c) \/ Delete(c) \/ Mark(c) \/ FindEmail(c)
         \/ Refuse(c) \/ Fail(c)
  PROVE  Rows'
<1>1. Rows /\ call[c] \in CallRecord
  BY TypeParts DEF CallsTyped
<1>2. CASE Arrive(c)
  <2>1. /\ UNCHANGED <<tables, blacklist, access>>
        /\ started < MaxStarted /\ started' = started + 1
    BY <1>2 DEF Arrive, BeginLogin, BeginChange, BeginForgot, BeginReset, BeginLogout, BeginRefresh,
                BeginCompany, BeginJoin, BeginUpdate, BeginRemove, BeginFound, BeginRename,
                BeginDissolve, Begin
  <2>2. RowsTyped'
    BY <1>1, <2>1, ConstantsAssumption DEF Rows, RowsTyped, tables
  <2> QED
    BY <1>1, <2>1, <2>2, QuietKeepsRows DEF Quiet, tables
<1>3. CASE FindRow(c) \/ FindOwner(c) \/ FindEmail(c) \/ Refuse(c) \/ Fail(c)
  <2>1. UNCHANGED <<tables, blacklist, access, started>>
    BY <1>3 DEF FindRow, FindOwner, FindEmail, Refuse, Fail
  <2>2. RowsTyped'
    BY <1>1, <2>1 DEF Rows, RowsTyped, tables
  <2> QED
    BY <1>1, <2>1, <2>2, QuietKeepsRows DEF Quiet, tables
<1>4. CASE Mark(c)
  <2>1. /\ UNCHANGED <<tables, access, started>>
        /\ blacklist' \in {blacklist, blacklist \cup {call[c].token}}
        /\ call[c].token \in Tokens
    BY <1>1, <1>4 DEF Mark, CallRecord
  <2>2. RowsTyped'
    BY <1>1, <2>1 DEF Rows, RowsTyped, tables
  <2> QED
    BY <1>1, <2>1, <2>2, QuietKeepsRows DEF Quiet, tables
<1>5. CASE Delete(c)
  <2>1. /\ UNCHANGED <<tenant, user, blacklist, access, started, root, mailed, issued, spent>>
        /\ holder' = [holder EXCEPT ![call[c].token] = None]
        /\ expired' \subseteq expired
    BY <1>5 DEF Delete
  <2>2. RowsTyped'
    BY <1>1, <2>1 DEF Rows, RowsTyped
  <2> QED
    BY <1>1, <2>1, <2>2, QuietKeepsRows DEF Quiet, Rows, RowsTyped
<1> QED
  BY <1>2, <1>3, <1>4, <1>5

LEMMA MintRows ==
  ASSUME TypeInv, NEW c \in Calls, Mint(c)
  PROVE  Rows'
<1> DEFINE u == call[c].user
<1>1. Rows /\ call[c] \in CallRecord
  BY TypeParts DEF CallsTyped
<1>2. /\ u \in Users /\ Exists(u) /\ call[c].role \in Roles
      /\ call[c].op = "refresh" => call[c].token \in Tokens
  BY <1>1 DEF Mint, CallRecord
<1>3. PICK t \in Tokens :
        /\ holder' = [holder EXCEPT ![t] = u]
        /\ root' = [root EXCEPT ![t] = IF call[c].op = "refresh" THEN root[call[c].token] ELSE t]
        /\ issued' = issued \cup {t}
  BY DEF Mint, Next1
<1>4. /\ access' = [access EXCEPT ![u] = @ \cup {call[c].role}]
      /\ UNCHANGED <<tenant, user, expired, blacklist, started, mailed, spent>>
  BY DEF Mint
<1>5. RowsTyped'
  <2>1. root' \in [Tokens -> Tokens] /\ holder' \in [Tokens -> {None} \cup Users]
    BY <1>1, <1>2, <1>3 DEF Rows, RowsTyped
  <2>2. access' \in [Users -> SUBSET Roles]
    BY <1>1, <1>2, <1>4 DEF Rows, RowsTyped
  <2> QED
    BY <1>1, <1>3, <1>4, <2>1, <2>2 DEF Rows, RowsTyped
<1>6. References'
  BY <1>1, <1>2, <1>3, <1>4 DEF Rows, RowsTyped, References, Exists
<1>7. Known'
  BY <1>1, <1>2, <1>4 DEF Rows, RowsTyped, Known, Exists
<1> QED
  BY <1>5, <1>6, <1>7 DEF Rows

\* The writes that change one user.
LEMMA EditRows ==
  ASSUME TypeInv, NEW c \in Calls,
         Reset(c) \/ Change(c) \/ Forgot(c) \/ Update(c) \/ Remove(c)
  PROVE  Rows'
<1> DEFINE k == call[c]
           u == k.user
<1>1. Rows /\ k \in CallRecord
  BY TypeParts DEF CallsTyped
<1>2. u \in Users /\ Exists(u) /\ user[u] \in UserRow
      /\ user[u].state \in {"active", "offboarded"}
  BY <1>1 DEF Reset, Change, Forgot, Update, Remove, CallRecord, Rows, RowsTyped, Exists
<1>3. UNCHANGED <<tenant, holder, expired, blacklist, access, started, root, issued>>
  BY DEF Reset, Change, Forgot, Update, Remove
<1>4. mailed' \cup spent' \subseteq Links
  BY <1>1 DEF Reset, Change, Forgot, Update, Remove, Next1, Rows, RowsTyped, CallRecord
<1>5. ASSUME NEW x \in UserRow, user' = [user EXCEPT ![u] = x],
             x.tenant = user[u].tenant, x.state \in {"active", "offboarded"}
      PROVE  Rows'
  <2>1. RowsTyped'
    BY <1>1, <1>2, <1>3, <1>4, <1>5 DEF Rows, RowsTyped
  <2> QED
    BY <1>1, <1>2, <1>3, <1>5, <2>1, EditKeepsRows
<1>6. CASE Reset(c) \/ Change(c) \/ Forgot(c)
  <2>1. PICK l \in {None} \cup Links : user' = [user EXCEPT ![u] = [user[u] EXCEPT !.link = l]]
    BY <1>1, <1>2, <1>6 DEF Reset, Change, Forgot, Next1, Rows, RowsTyped
  <2>2. [user[u] EXCEPT !.link = l] \in UserRow
    BY <1>2 DEF UserRow
  <2> QED
    BY <1>2, <1>5, <2>1, <2>2 DEF UserRow
<1>7. CASE Update(c)
  <2>1. PICK e \in {None} \cup Emails, r \in Roles :
          user' = [user EXCEPT ![u] = [user[u] EXCEPT !.email = e, !.role = r]]
    <3> DEFINE e == IF k.email = None THEN user[u].email ELSE k.email
               r == IF k.role = None THEN user[u].role ELSE k.role
    <3>1. e \in {None} \cup Emails /\ r \in Roles
      BY <1>1, <1>2 DEF CallRecord, UserRow
    <3>2. user' = [user EXCEPT ![u] = [user[u] EXCEPT !.email = e, !.role = r]]
      BY <1>1, <1>2, <1>7 DEF Update, Rows, RowsTyped
    <3> QED
      BY <3>1, <3>2
  <2>2. [user[u] EXCEPT !.email = e, !.role = r] \in UserRow
    BY <1>2 DEF UserRow
  <2> QED
    BY <1>2, <1>5, <2>1, <2>2 DEF UserRow
<1>8. CASE Remove(c)
  <2>1. user' = [user EXCEPT ![u] = [user[u] EXCEPT !.state = "offboarded"]]
    BY <1>1, <1>2, <1>8 DEF Remove, Rows, RowsTyped
  <2>2. [user[u] EXCEPT !.state = "offboarded"] \in UserRow
    BY <1>2 DEF UserRow
  <2> QED
    BY <1>2, <1>5, <2>1, <2>2 DEF UserRow
<1> QED
  BY <1>6, <1>7, <1>8

\* The inserts of companies and users.
LEMMA InsertRows ==
  ASSUME TypeInv, NEW c \in Calls, Join(c) \/ Company(c) \/ Found(c) \/ Rename(c)
  PROVE  Rows'
<1> DEFINE k == call[c]
<1>1. Rows /\ k \in CallRecord
  BY TypeParts DEF CallsTyped
<1>2. /\ UNCHANGED <<holder, expired, blacklist, access, started, root, mailed, issued, spent>>
      /\ k.op \in {"join", "company"} => k.email \in Emails
      /\ k.op = "join" => k.role \in Roles /\ k.tenant \in Tenants
      /\ k.op \in {"company", "found", "rename"} => k.to \in Names
  BY <1>1 DEF Join, Company, Found, Rename, CallRecord
<1>3. ASSUME NEW x \in Tenants, NEW u \in Users, NEW r \in Roles, user[u].state = "none",
             user' = [user EXCEPT ![u] = NewRow(x, k.email, r)], k.email \in Emails,
             tenant'[x].state = "present", tenant' \in [Tenants -> TenantRow],
             \A w \in Tenants \ {x} : tenant'[w] = tenant[w]
      PROVE  Rows'
  <2>1. NewRow(x, k.email, r) \in UserRow
    BY <1>3 DEF NewRow, UserRow
  <2>2. RowsTyped'
    BY <1>1, <1>2, <1>3, <2>1 DEF Rows, RowsTyped
  <2>3. /\ \A v \in Users \ {u} : user'[v] = user[v]
        /\ user'[u].tenant = x /\ user'[u].state = "active"
    BY <1>1, <1>3 DEF Rows, RowsTyped, NewRow
  <2>4. References'
    BY <1>1, <1>2, <1>3, <2>3 DEF Rows, References, Exists
  <2> QED
    BY <1>1, <1>2, <1>3, <2>2, <2>3, <2>4 DEF Rows, Known
<1>4. ASSUME NEW x \in Tenants, tenant' \in [Tenants -> TenantRow], user' = user,
             tenant'[x].state = "present", \A w \in Tenants \ {x} : tenant'[w] = tenant[w]
      PROVE  Rows'
  <2>1. RowsTyped'
    BY <1>1, <1>2, <1>4 DEF Rows, RowsTyped
  <2> QED
    BY <1>1, <1>2, <1>4, <2>1 DEF Rows, References, Known, Exists
<1>5. CASE Join(c)
  <2>1. PICK u \in NewUser : user' = [user EXCEPT ![u] = NewRow(k.tenant, k.email, k.role)]
    BY <1>5 DEF Join
  <2>2. u \in Users /\ user[u].state = "none"
    BY DEF NewUser, Next1
  <2> QED
    BY <1>1, <1>2, <1>3, <1>5, <2>1, <2>2 DEF Join, Rows, RowsTyped
<1>6. CASE Company(c)
  <2>1. PICK w \in NewTenant, u \in NewUser :
          /\ tenant' = [tenant EXCEPT ![w] = [state |-> "present", name |-> k.to]]
          /\ user' = [user EXCEPT ![u] = NewRow(w, k.email, "admin")]
    BY <1>6 DEF Company
  <2>2. u \in Users /\ user[u].state = "none" /\ w \in Tenants /\ "admin" \in Roles
    BY DEF NewUser, NewTenant, Next1, Roles
  <2>3. tenant' \in [Tenants -> TenantRow] /\ tenant'[w].state = "present"
    BY <1>1, <1>2, <1>6, <2>1, <2>2 DEF Company, TenantRow, Rows, RowsTyped
  <2>4. \A v \in Tenants \ {w} : tenant'[v] = tenant[v]
    BY <1>1, <2>1 DEF Rows, RowsTyped
  <2> QED
    BY <1>2, <1>3, <1>6, <2>1, <2>2, <2>3, <2>4 DEF Company
<1>7. CASE Found(c) \/ Rename(c)
  <2>1. PICK w \in Tenants : tenant' = [tenant EXCEPT ![w] = [state |-> "present", name |-> k.to]]
    <3>1. CASE Found(c)
      BY <3>1 DEF Found, NewTenant, Next1
    <3>2. CASE Rename(c)
      <4>1. PICK w \in Tenants : /\ tenant[w].state = "present"
                                 /\ tenant' = [tenant EXCEPT ![w].name = k.to]
        BY <3>2 DEF Rename
      <4>2. tenant[w] \in TenantRow
        BY <1>1 DEF Rows, RowsTyped
      <4>3. [tenant[w] EXCEPT !.name = k.to] = [state |-> "present", name |-> k.to]
        BY <4>1, <4>2 DEF TenantRow
      <4> QED
        BY <1>1, <4>1, <4>3 DEF Rows, RowsTyped
    <3> QED
      BY <1>7, <3>1, <3>2
  <2>2. tenant' \in [Tenants -> TenantRow] /\ tenant'[w].state = "present" /\ user' = user
    BY <1>1, <1>2, <1>7, <2>1 DEF Found, Rename, TenantRow, Rows, RowsTyped
  <2>3. \A v \in Tenants \ {w} : tenant'[v] = tenant[v]
    BY <1>1, <2>1 DEF Rows, RowsTyped
  <2> QED
    BY <1>4, <2>2, <2>3
<1> QED
  BY <1>5, <1>6, <1>7

\* A deletion takes users and tokens along.
LEMMA DeletionRows ==
  ASSUME Rows, NEW gone \in SUBSET Tenants, DeleteTenants(gone),
         UNCHANGED <<blacklist, access, started, root, mailed, issued, spent>>
  PROVE  Rows'
<1>1. /\ \A w \in Tenants : tenant'[w] =
           IF w \in gone THEN [tenant[w] EXCEPT !.state = "removed"] ELSE tenant[w]
      /\ \A u \in Users : user'[u] =
           IF u \in Members(gone) THEN [user[u] EXCEPT !.state = "removed", !.link = None]
           ELSE user[u]
      /\ \A t \in Tokens : holder'[t] = IF holder[t] \in Members(gone) THEN None ELSE holder[t]
      /\ tenant \in [Tenants -> TenantRow] /\ user \in [Users -> UserRow]
  BY DEF DeleteTenants, Rows, RowsTyped
<1>2. /\ \A w \in Tenants : /\ tenant'[w] \in TenantRow
                           /\ (w \notin gone => tenant'[w] = tenant[w])
      /\ \A u \in Users : /\ user'[u] \in UserRow /\ user'[u].tenant = user[u].tenant
                         /\ (u \in Members(gone) => user'[u].state = "removed")
                         /\ (u \notin Members(gone) => user'[u] = user[u])
  <2>1. \A x \in TenantRow : [x EXCEPT !.state = "removed"] \in TenantRow
    BY DEF TenantRow
  <2>2. \A x \in UserRow : /\ [x EXCEPT !.state = "removed", !.link = None] \in UserRow
                          /\ [x EXCEPT !.state = "removed", !.link = None].tenant = x.tenant
                          /\ [x EXCEPT !.state = "removed", !.link = None].state = "removed"
    BY DEF UserRow
  <2>3. ASSUME NEW w \in Tenants
        PROVE  /\ tenant'[w] \in TenantRow
               /\ (w \notin gone => tenant'[w] = tenant[w])
    <3>1. tenant[w] \in TenantRow
      BY <1>1
    <3> QED
      BY <1>1, <2>1, <3>1
  <2>4. ASSUME NEW u \in Users
        PROVE  /\ user'[u] \in UserRow /\ user'[u].tenant = user[u].tenant
               /\ (u \in Members(gone) => user'[u].state = "removed")
               /\ (u \notin Members(gone) => user'[u] = user[u])
    <3>1. user[u] \in UserRow
      BY <1>1
    <3>2. user'[u] = IF u \in Members(gone) THEN [user[u] EXCEPT !.state = "removed", !.link = None]
                     ELSE user[u]
      BY <1>1
    <3> QED
      BY <2>2, <3>1, <3>2
  <2> QED
    BY <2>3, <2>4
<1>3. RowsTyped'
  <2>1. /\ tenant' = [w \in Tenants |-> tenant'[w]] /\ user' = [u \in Users |-> user'[u]]
        /\ holder' = [t \in Tokens |-> holder'[t]] /\ expired' \subseteq expired
    BY DEF DeleteTenants
  <2>2. /\ tenant' \in [Tenants -> TenantRow] /\ user' \in [Users -> UserRow]
        /\ holder' \in [Tokens -> {None} \cup Users]
    BY <1>1, <1>2, <2>1 DEF Rows, RowsTyped
  <2> QED
    BY <2>1, <2>2 DEF Rows, RowsTyped
<1>4. \A u \in Users : /\ Exists(u)' <=> (Exists(u) /\ u \notin Members(gone))
                     /\ (user'[u].state = "none") <=> (user[u].state = "none")
  BY <1>2 DEF Exists, Members
<1>5. \A u \in Users : Exists(u)' =>
        user'[u].tenant \in Tenants /\ tenant'[user'[u].tenant].state = "present"
  <2> SUFFICES ASSUME NEW u \in Users, Exists(u)'
               PROVE  user'[u].tenant \in Tenants /\ tenant'[user'[u].tenant].state = "present"
    OBVIOUS
  <2>1. Exists(u) /\ u \notin Members(gone) /\ user'[u] = user[u]
    BY <1>2, <1>4 DEF Exists
  <2>2. user[u].tenant \in Tenants /\ tenant[user[u].tenant].state = "present"
        /\ user[u].tenant \notin gone
    BY <2>1 DEF Rows, References, Members
  <2> QED
    BY <1>2, <2>1, <2>2
<1>6. \A t \in Tokens : holder'[t] # None => user'[holder'[t]].state \in {"active", "offboarded"}
  <2> SUFFICES ASSUME NEW t \in Tokens, holder'[t] # None
               PROVE  user'[holder'[t]].state \in {"active", "offboarded"}
    OBVIOUS
  <2>1. holder'[t] = holder[t] /\ holder[t] \in Users /\ Exists(holder[t])
        /\ holder[t] \notin Members(gone)
    BY <1>1 DEF Rows, RowsTyped, References
  <2> QED
    BY <1>2, <2>1 DEF Exists
<1>7. References'
  BY <1>5, <1>6 DEF References, Exists
<1>8. Known'
  BY <1>2, <1>4 DEF Rows, Known
<1> QED
  BY <1>3, <1>7, <1>8 DEF Rows

LEMMA TypeInit == Init => TypeInv
<1> SUFFICES ASSUME Init PROVE TypeInv
  OBVIOUS
<1>1. CallsTyped
  BY IdleTyped DEF Init, CallsTyped
<1>2. /\ [state |-> "none", name |-> None] \in TenantRow
      /\ [state |-> "none", email |-> None, tenant |-> None, role |-> "staff",
          link |-> None] \in UserRow
      /\ 0 \in 0 .. MaxStarted
  BY ConstantsAssumption DEF TenantRow, UserRow, Roles
<1>3. RowsTyped
  BY <1>2 DEF Init, RowsTyped
<1>4. References /\ Known
  BY DEF Init, References, Known, Exists
<1> QED
  BY <1>1, <1>3, <1>4, TypeParts DEF Rows

LEMMA TypeNext == TypeInv /\ [Next]_vars => TypeInv'
<1> SUFFICES ASSUME TypeInv, [Next]_vars PROVE TypeInv'
  OBVIOUS
<1>1. Rows /\ CallsTyped
  BY TypeParts
<1>2. ASSUME NEW c \in Calls, Arrive(c) \/ Proceed(c) \/ Fail(c) PROVE TypeInv'
  <2>1. CallsTyped'
    BY <1>2, ArriveTyped, ProceedTyped
  <2>2. ASSUME Dissolve(c) PROVE Rows'
    <3>1. call[c].tenant \in Tenants
      BY <1>1, <2>2 DEF Dissolve, CallsTyped, CallRecord
    <3> QED
      BY <1>1, <2>2, <3>1, DeletionRows DEF Dissolve
  <2>3. Rows'
    BY <1>2, <2>2, CallRows, MintRows, EditRows, InsertRows DEF Proceed
  <2> QED
    BY <2>1, <2>3, TypeParts, PTL
<1>3. ASSUME NEW t \in Tokens, ExpireToken(t) \/ ForgetMark(t) PROVE TypeInv'
  <2>1. RowsTyped' /\ Quiet /\ call' = call
    BY <1>1, <1>3 DEF ExpireToken, ForgetMark, Rows, RowsTyped, Quiet, tables
  <2>2. Rows' /\ call' = call
    BY <1>1, <2>1, QuietKeepsRows
  <2>3. CallsTyped'
    BY <1>1, <2>2 DEF CallsTyped
  <2> QED
    BY <2>2, <2>3, TypeParts, PTL
<1>4. ASSUME NEW u \in Users, NEW r \in Roles, ExpireAccess(u, r) PROVE TypeInv'
  <2>1. RowsTyped' /\ Quiet /\ CallsTyped'
    BY <1>1, <1>4 DEF ExpireAccess, Rows, RowsTyped, Quiet, tables, CallsTyped
  <2>2. Rows'
    BY <1>1, <2>1, QuietKeepsRows
  <2> QED
    BY <2>1, <2>2, TypeParts, PTL
<1>5. ASSUME NEW a \in Users, DissolveAll(a) PROVE TypeInv'
  <2>1. Rows'
    BY <1>1, <1>5, DeletionRows DEF DissolveAll
  <2>2. CallsTyped'
    BY <1>1, <1>5 DEF DissolveAll, CallsTyped
  <2> QED
    BY <2>1, <2>2, TypeParts, PTL
<1>6. CASE UNCHANGED vars
  BY <1>6 DEF vars, TypeInv, TypeOK, Known, Exists
<1> QED
  BY <1>2, <1>3, <1>4, <1>5, <1>6 DEF Next

\* However deletions interleave with logins and registrations, users belong
\* to a company that is there and refresh tokens to a user that is there.
THEOREM TypeCorrect == Spec => []TypeOK
<1>1. TypeInv => TypeOK
  BY DEF TypeInv
<1> QED
  BY <1>1, TypeInit, TypeNext, PTL DEF Spec

LEMMA TypeAlways == Spec => []TypeInv
BY TypeInit, TypeNext, PTL DEF Spec

-----------------------------------------------------------------------------
(* The unique columns. *)

LEMMA UniqueNext == TypeInv /\ OneAccountPerEmail /\ [Next]_vars => OneAccountPerEmail'
<1> SUFFICES ASSUME TypeInv, OneAccountPerEmail, [Next]_vars PROVE OneAccountPerEmail'
  OBVIOUS
<1>1. /\ tenant \in [Tenants -> TenantRow] /\ user \in [Users -> UserRow]
      /\ call \in [Calls -> CallRecord]
  BY DEF TypeInv, TypeOK
<1>2. ASSUME \A u \in Users : /\ Exists(u)' => Exists(u)
                            /\ (Exists(u)' => user'[u].email = user[u].email),
             \A w \in Tenants : tenant'[w].state = "present"
               => tenant[w].state = "present" /\ tenant'[w].name = tenant[w].name
      PROVE  OneAccountPerEmail'
  BY <1>2 DEF OneAccountPerEmail, Exists
<1>3. ASSUME NEW c \in Calls, Arrive(c) PROVE OneAccountPerEmail'
  <2>1. UNCHANGED <<tenant, user>>
    BY <1>3 DEF Arrive, BeginLogin, BeginChange, BeginForgot, BeginReset, BeginLogout, BeginRefresh,
                BeginCompany, BeginJoin, BeginUpdate, BeginRemove, BeginFound, BeginRename,
                BeginDissolve, Begin, tables
  <2> QED
    BY <1>2, <2>1 DEF Exists
<1>4. ASSUME NEW c \in Calls,
             \/ FindRow(c) \/ FindOwner(c) \/ Delete(c) \/ Mark(c) \/ Mint(c)
             \/ FindEmail(c) \/ Refuse(c) \/ Fail(c)
      PROVE  OneAccountPerEmail'
  <2>1. UNCHANGED <<tenant, user>>
    BY <1>4 DEF FindRow, FindOwner, Delete, Mark, Mint, FindEmail, Refuse, Fail, tables
  <2> QED
    BY <1>2, <2>1 DEF Exists
<1>5. ASSUME NEW c \in Calls, Reset(c) \/ Change(c) \/ Forgot(c) \/ Remove(c)
      PROVE  OneAccountPerEmail'
  <2>1. call[c].user \in Users /\ Exists(call[c].user) /\ tenant' = tenant
    BY <1>1, <1>5 DEF Reset, Change, Forgot, Remove, CallRecord
  <2>2. \A u \in Users : /\ Exists(u)' => Exists(u)
                       /\ (Exists(u)' => user'[u].email = user[u].email)
    <3>1. CASE Reset(c) \/ Change(c) \/ Forgot(c)
      <4>1. PICK l : user' = [user EXCEPT ![call[c].user].link = l]
        BY <3>1 DEF Reset, Change, Forgot
      <4> QED
        BY <1>1, <2>1, <4>1 DEF Exists, UserRow
    <3>2. CASE Remove(c)
      BY <1>1, <2>1, <3>2 DEF Remove, Exists, UserRow
    <3> QED
      BY <1>5, <3>1, <3>2
  <2> QED
    BY <1>2, <2>1, <2>2
<1>6. ASSUME NEW u \in Users, NEW e, NEW x \in UserRow, ~EmailTaken(e) \/ (Exists(u) /\ e = user[u].email),
             x.email = e, user' = [user EXCEPT ![u] = x]
      PROVE  \A v, w \in Users : Exists(v)' /\ Exists(w)' /\ user'[v].email = user'[w].email => v = w
  BY <1>1, <1>6 DEF OneAccountPerEmail, EmailTaken, Exists
<1>7. ASSUME NEW w \in Tenants, NEW n, NEW x \in TenantRow, ~NameTaken(n) \/ n = tenant[w].name,
             x.name = n, tenant' = [tenant EXCEPT ![w] = x],
             tenant[w].state = "present" \/ ~NameTaken(n)
      PROVE  \A v, z \in Tenants :
               tenant'[v].state = "present" /\ tenant'[z].state = "present"
                 /\ tenant'[v].name = tenant'[z].name => v = z
  BY <1>1, <1>7 DEF OneAccountPerEmail, NameTaken
<1>8. ASSUME NEW c \in Calls, Update(c) PROVE OneAccountPerEmail'
  <2> DEFINE u == call[c].user
             e == IF call[c].email = None THEN user[u].email ELSE call[c].email
             r == IF call[c].role = None THEN user[u].role ELSE call[c].role
             x == [user[u] EXCEPT !.email = e, !.role = r]
  <2>1. /\ u \in Users /\ Exists(u) /\ tenant' = tenant /\ user[u] \in UserRow
        /\ call[c] \in CallRecord
    BY <1>1, <1>8 DEF Update, CallRecord
  <2>2. e \in {None} \cup Emails /\ r \in Roles
    BY <2>1 DEF CallRecord, UserRow
  <2>3. x \in UserRow /\ x.email = e
    BY <2>1, <2>2 DEF UserRow
  <2>4. user' = [user EXCEPT ![u] = x] /\ (e = user[u].email \/ ~EmailTaken(e))
    BY <1>1, <1>8, <2>1 DEF Update
  <2> HIDE DEF u, e, r, x
  <2> QED
    BY <1>6, <2>1, <2>3, <2>4 DEF OneAccountPerEmail
<1>9. ASSUME NEW c \in Calls, Join(c) PROVE OneAccountPerEmail'
  <2>1. PICK u \in NewUser : user' =
          [user EXCEPT ![u] = NewRow(call[c].tenant, call[c].email, call[c].role)]
    BY <1>9 DEF Join
  <2>2. NewRow(call[c].tenant, call[c].email, call[c].role) \in UserRow
    BY <1>1, <1>9 DEF Join, NewRow, UserRow, CallRecord
  <2>3. u \in Users /\ ~EmailTaken(call[c].email) /\ tenant' = tenant
    BY <1>9 DEF Join, NewUser, Next1
  <2>4. NewRow(call[c].tenant, call[c].email, call[c].role).email = call[c].email
    BY DEF NewRow
  <2> QED
    BY <1>6, <2>1, <2>2, <2>3, <2>4 DEF OneAccountPerEmail
<1>10. ASSUME NEW c \in Calls, Company(c) PROVE OneAccountPerEmail'
  <2>1. PICK w \in NewTenant, u \in NewUser :
          /\ tenant' = [tenant EXCEPT ![w] = [state |-> "present", name |-> call[c].to]]
          /\ user' = [user EXCEPT ![u] = NewRow(w, call[c].email, "admin")]
    BY <1>10 DEF Company
  <2>2. /\ u \in Users /\ ~EmailTaken(call[c].email)
        /\ w \in Tenants /\ ~NameTaken(call[c].to)
    BY <1>10 DEF Company, NewUser, NewTenant, Next1
  <2>3. /\ NewRow(w, call[c].email, "admin") \in UserRow
        /\ NewRow(w, call[c].email, "admin").email = call[c].email
        /\ [state |-> "present", name |-> call[c].to] \in TenantRow
    BY <1>1, <1>10, <2>2 DEF Company, NewRow, UserRow, TenantRow, CallRecord, Roles
  <2> QED
    BY <1>6, <1>7, <2>1, <2>2, <2>3 DEF OneAccountPerEmail
<1>11. ASSUME NEW c \in Calls, Found(c) \/ Rename(c) PROVE OneAccountPerEmail'
  <2> DEFINE x == [state |-> "present", name |-> call[c].to]
  <2>1. PICK w \in Tenants :
          /\ tenant' = [tenant EXCEPT ![w] = x]
          /\ ~NameTaken(call[c].to)
             \/ (call[c].to = tenant[w].name /\ tenant[w].state = "present")
    <3>1. CASE Found(c)
      BY <3>1 DEF Found, NewTenant, Next1
    <3>2. CASE Rename(c)
      <4>1. PICK w \in Tenants : /\ tenant[w].state = "present" /\ tenant[w].name = call[c].where
                                 /\ tenant' = [tenant EXCEPT ![w].name = call[c].to]
        BY <3>2 DEF Rename
      <4>2. tenant[w] \in TenantRow
        BY <1>1
      <4>3. [tenant[w] EXCEPT !.name = call[c].to] = x
        BY <4>1, <4>2 DEF TenantRow
      <4>4. tenant' = [tenant EXCEPT ![w] = [tenant[w] EXCEPT !.name = call[c].to]]
        BY <1>1, <4>1
      <4> QED
        BY <3>2, <4>1, <4>3, <4>4 DEF Rename
    <3> QED
      BY <1>11, <3>1, <3>2
  <2>2. call[c].to \in Names /\ user' = user
    BY <1>1, <1>11 DEF Found, Rename, CallRecord
  <2>3. x \in TenantRow /\ x.name = call[c].to
    BY <2>2 DEF TenantRow
  <2> HIDE DEF x
  <2> QED
    BY <1>7, <2>1, <2>2, <2>3 DEF OneAccountPerEmail, Exists
<1>12. ASSUME NEW gone \in SUBSET Tenants, DeleteTenants(gone) PROVE OneAccountPerEmail'
  <2>1. \A w \in Tenants : tenant'[w].state = "present"
          => tenant[w].state = "present" /\ tenant'[w].name = tenant[w].name
    BY <1>1, <1>12 DEF DeleteTenants, TenantRow
  <2>2. \A u \in Users : /\ Exists(u)' => Exists(u)
                       /\ (Exists(u)' => user'[u].email = user[u].email)
    BY <1>1, <1>12 DEF DeleteTenants, UserRow, Exists
  <2> QED
    BY <1>2, <2>1, <2>2
<1>13. ASSUME NEW c \in Calls, Dissolve(c) PROVE OneAccountPerEmail'
  <2>1. call[c].tenant \in Tenants
    BY <1>1, <1>13 DEF Dissolve, CallRecord
  <2> QED
    BY <1>12, <1>13, <2>1 DEF Dissolve
<1>14. CASE \/ \E t \in Tokens : ExpireToken(t) \/ ForgetMark(t)
            \/ \E u \in Users, r \in Roles : ExpireAccess(u, r)
            \/ UNCHANGED vars
  <2>1. UNCHANGED <<tenant, user>>
    BY <1>14 DEF ExpireToken, ForgetMark, ExpireAccess, tables, vars
  <2> QED
    BY <1>2, <2>1 DEF Exists
<1> QED
  BY <1>3, <1>4, <1>5, <1>8, <1>9, <1>10, <1>11, <1>12, <1>13, <1>14
     DEF Next, Proceed, DissolveAll

\* An e-mail identifies a user and a name a company.
THEOREM AccountsAreUnique == Spec => []OneAccountPerEmail
<1>1. Init => OneAccountPerEmail
  BY DEF Init, OneAccountPerEmail, Exists
<1> QED
  BY <1>1, UniqueNext, TypeAlways, PTL DEF Spec

-----------------------------------------------------------------------------
(* How a call goes on: it keeps what it is about or ends. *)

Continues(k, next) ==
  \/ next.op = "none"
  \/ /\ next.op = k.op /\ next.op # "reset"
     /\ next.token = k.token
     /\ (next.pc = "mark" => k.pc = "delete")
     /\ (next.pc = "mint" /\ k.op = "refresh" => k.pc = "mark")

LEMMA CallMoves ==
  ASSUME TypeInv, NEW c \in Calls, Proceed(c) \/ Fail(c)
  PROVE  /\ \A d \in Calls \ {c} : call'[d] = call[d]
         /\ Continues(call[c], call'[c])
<1>1. call \in [Calls -> CallRecord] /\ call[c] \in CallRecord
  BY DEF TypeInv, TypeOK
<1>2. ASSUME End(c) PROVE call'[c].op = "none" /\ \A d \in Calls \ {c} : call'[d] = call[d]
  BY <1>1, <1>2 DEF End, Idle
<1>3. CASE FindRow(c) \/ FindOwner(c)
  <2>1. call[c].op = "refresh"
    BY <1>1, <1>3 DEF FindRow, FindOwner, CallRecord
  <2>2. CASE FindRow(c)
    BY <1>1, <2>1, <2>2 DEF FindRow, Continues, Idle, CallRecord
  <2>3. CASE FindOwner(c)
    BY <1>1, <2>1, <2>3 DEF FindOwner, Continues, Idle, CallRecord
  <2> QED
    BY <1>3, <2>2, <2>3
<1>4. CASE Delete(c)
  BY <1>1, <1>2, <1>4 DEF Delete, Goto, Continues, CallRecord
<1>5. CASE Mark(c)
  BY <1>1, <1>5 DEF Mark, Goto, Continues, CallRecord
<1>6. CASE FindEmail(c)
  BY <1>1, <1>2, <1>6 DEF FindEmail, Goto, Continues, CallRecord
<1>7. CASE Company(c)
  <2>1. PICK u : call' = [call EXCEPT ![c].pc = "mint", ![c].user = u]
    BY <1>7 DEF Company
  <2> QED
    BY <1>1, <1>7, <2>1 DEF Company, Continues, CallRecord
<1> QED
  BY <1>2, <1>3, <1>4, <1>5, <1>6, <1>7
     DEF Proceed, Fail, Refuse, Mint, Reset, Change, Forgot, Join, Found, Rename, Update, Remove,
         Dissolve, Continues

\* A request that arrives changes nothing; a refresh or a reset knows its
\* token or link.
Arrives(c) ==
  /\ UNCHANGED <<tables, blacklist, access>>
  /\ \A d \in Calls \ {c} : call'[d] = call[d]
  /\ call[c].pc = "idle" /\ call'[c].pc # "mark"
  /\ (call'[c].op = "refresh" => call'[c].token \in issued /\ call'[c].pc = "row")
  /\ (call'[c].op = "reset" => /\ call'[c].user \in Users
                              /\ call'[c].link \in {None, user[call'[c].user].link})

LEMMA CallArrives ==
  ASSUME TypeInv, NEW c \in Calls, Arrive(c)
  PROVE  Arrives(c)
<1>1. call \in [Calls -> CallRecord]
  BY DEF TypeInv, TypeOK
<1> DEFINE Same == /\ UNCHANGED <<tables, blacklist, access>> /\ call[c].pc = "idle"
                   /\ \A d \in Calls \ {c} : call'[d] = call[d]
           Other == Same /\ call'[c].pc # "mark" /\ call'[c].op \notin {"refresh", "reset"}
<1>2. ASSUME Other PROVE Arrives(c)
  BY <1>2 DEF Arrives
<1>3. ASSUME NEW u \in Users, BeginLogin(c, u) \/ BeginChange(c, u) \/ BeginForgot(c, u)
      PROVE  Other
  <2>1. CASE BeginLogin(c, u)
    BY <1>1, <2>1 DEF BeginLogin, Begin, Idle
  <2>2. CASE BeginChange(c, u)
    BY <1>1, <2>2 DEF BeginChange, Begin, Idle
  <2>3. CASE BeginForgot(c, u)
    BY <1>1, <2>3 DEF BeginForgot, Begin, Idle
  <2> QED
    BY <1>3, <2>1, <2>2, <2>3
<1>4. CASE \E u \in Users, l \in {None} \cup Links : BeginReset(c, u, l)
  <2>1. PICK u \in Users, l \in {None} \cup Links : BeginReset(c, u, l)
    BY <1>4
  <2>2. /\ Same /\ call'[c].op = "reset" /\ call'[c].pc = "write" /\ call'[c].user = u
        /\ call'[c].link \in {None, user[u].link}
    BY <1>1, <2>1 DEF BeginReset, Begin, Idle
  <2> QED
    BY <2>1, <2>2 DEF Arrives
<1>5. CASE \E t \in Tokens : BeginLogout(c, t) \/ BeginRefresh(c, t)
  <2>1. PICK t \in Tokens : BeginLogout(c, t) \/ BeginRefresh(c, t)
    BY <1>5
  <2>2. CASE BeginLogout(c, t)
    <3>1. Same /\ call'[c].op = "logout" /\ call'[c].pc = "delete"
      BY <1>1, <2>2 DEF BeginLogout, Begin, Idle
    <3> QED
      BY <3>1 DEF Arrives
  <2>3. CASE BeginRefresh(c, t)
    <3>1. /\ Same /\ call'[c].op = "refresh" /\ call'[c].pc = "row"
          /\ call'[c].token = t /\ t \in issued
      BY <1>1, <2>3 DEF BeginRefresh, Begin, Idle
    <3> QED
      BY <3>1 DEF Arrives
  <2> QED
    BY <2>1, <2>2, <2>3
<1>6. ASSUME NEW n \in Names, NEW e \in Emails, BeginCompany(c, n, e) PROVE Other
  BY <1>1, <1>6 DEF BeginCompany, Begin, Idle
<1>7. ASSUME NEW a \in Users, NEW e \in Emails, NEW r \in Roles, BeginJoin(c, a, e, r) PROVE Other
  BY <1>1, <1>7 DEF BeginJoin, Begin, Idle
<1>8. ASSUME NEW a \in Users, NEW u \in Users, NEW e \in {None} \cup Emails,
             NEW r \in {None} \cup Roles, BeginUpdate(c, a, u, e, r) PROVE Other
  BY <1>1, <1>8 DEF BeginUpdate, Begin, Idle
<1>9. ASSUME NEW a \in Users, NEW u \in Users, BeginRemove(c, a, u) PROVE Other
  BY <1>1, <1>9 DEF BeginRemove, Begin, Idle
<1>10. ASSUME NEW a \in Users, NEW n \in Names, BeginFound(c, a, n) PROVE Other
  BY <1>1, <1>10 DEF BeginFound, Begin, Idle
<1>11. ASSUME NEW a \in Users, NEW n \in Names, NEW to \in Names, BeginRename(c, a, n, to) PROVE Other
  BY <1>1, <1>11 DEF BeginRename, Begin, Idle
<1>12. ASSUME NEW a \in Users, NEW w \in Tenants, BeginDissolve(c, a, w) PROVE Other
  BY <1>1, <1>12 DEF BeginDissolve, Begin, Idle
<1> QED
  BY <1>2, <1>3, <1>4, <1>5, <1>6, <1>7, <1>8, <1>9, <1>10, <1>11, <1>12 DEF Arrive

-----------------------------------------------------------------------------
(* Reset links.  A link is only ever with one user, and a call that found  *)
(* somebody by it knows who that is.                                       *)

LinkInv ==
  /\ SpentLinksAreDead
  /\ spent \subseteq mailed
  /\ \A u \in Users : user[u].link # None => user[u].link \in mailed
  /\ \A u, v \in Users : user[u].link # None /\ user[u].link = user[v].link => u = v
  /\ \A c \in Calls : call[c].op = "reset" /\ call[c].link # None =>
       /\ call[c].link \in mailed
       /\ \A v \in Users : user[v].link = call[c].link => v = call[c].user

\* Calls that reset a password are the old ones, or just found their user.
ResetsKept ==
  \A d \in Calls : call'[d].op = "reset" /\ call'[d].link # None =>
    \/ call'[d] = call[d]
    \/ \E u \in Users : call'[d].user = u /\ call'[d].link = user[u].link

LEMMA LinksKept ==
  ASSUME TypeInv, LinkInv, UNCHANGED <<mailed, spent>>, ResetsKept,
         \A u \in Users : user'[u].link \in {user[u].link, None}
  PROVE  LinkInv'
<1>1. None \notin mailed
  BY ConstantsAssumption DEF TypeInv, TypeOK
<1>2. SpentLinksAreDead' /\ (spent \subseteq mailed)'
  BY <1>1 DEF LinkInv, SpentLinksAreDead
<1>3. /\ \A u \in Users : user'[u].link # None => user'[u].link \in mailed'
      /\ \A u, v \in Users : user'[u].link # None /\ user'[u].link = user'[v].link => u = v
  BY <1>1 DEF LinkInv
<1>4. \A d \in Calls : call'[d].op = "reset" /\ call'[d].link # None =>
        /\ call'[d].link \in mailed'
        /\ \A v \in Users : user'[v].link = call'[d].link => v = call'[d].user
  BY <1>1 DEF LinkInv, ResetsKept
<1> QED
  BY <1>2, <1>3, <1>4 DEF LinkInv

LEMMA LinkNext == TypeInv /\ LinkInv /\ [Next]_vars => LinkInv'
<1> SUFFICES ASSUME TypeInv, LinkInv, [Next]_vars PROVE LinkInv'
  OBVIOUS
<1>1. /\ user \in [Users -> UserRow] /\ call \in [Calls -> CallRecord] /\ None \notin mailed
      /\ None \notin Links
  BY ConstantsAssumption DEF TypeInv, TypeOK
<1>2. ASSUME NEW c \in Calls, Arrive(c) PROVE LinkInv'
  <2>1. ResetsKept
    BY <1>2, CallArrives DEF Arrives, ResetsKept
  <2>2. UNCHANGED <<user, mailed, spent>>
    BY <1>2, CallArrives DEF Arrives, tables
  <2> QED
    BY <2>1, <2>2, LinksKept
<1>3. ASSUME NEW c \in Calls, Proceed(c) \/ Fail(c) PROVE ResetsKept
  BY <1>3, CallMoves DEF Continues, ResetsKept
<1>4. ASSUME NEW c \in Calls,
             \/ FindRow(c) \/ FindOwner(c) \/ Delete(c) \/ Mark(c) \/ Mint(c)
             \/ FindEmail(c) \/ Found(c) \/ Rename(c) \/ Refuse(c) \/ Fail(c)
      PROVE  LinkInv'
  <2>1. UNCHANGED <<user, mailed, spent>>
    BY <1>4 DEF FindRow, FindOwner, Delete, Mark, Mint, FindEmail, Found, Rename, Refuse, Fail, tables
  <2> QED
    BY <1>3, <1>4, <2>1, LinksKept DEF Proceed
<1>5. ASSUME NEW c \in Calls,
             Change(c) \/ Update(c) \/ Remove(c) \/ Join(c) \/ Company(c)
      PROVE  LinkInv'
  <2>1. UNCHANGED <<mailed, spent>>
    BY <1>5 DEF Change, Update, Remove, Join, Company
  <2>2. \A u \in Users : user'[u].link \in {user[u].link, None}
    <3>1. CASE Change(c)
      BY <1>1, <3>1 DEF Change, UserRow
    <3>2. CASE Update(c)
      <4>1. PICK e, r : user' = [user EXCEPT ![call[c].user].email = e, ![call[c].user].role = r]
        BY <3>2 DEF Update
      <4> QED
        BY <1>1, <4>1 DEF UserRow
    <3>3. CASE Remove(c)
      BY <1>1, <3>3 DEF Remove, UserRow
    <3>4. CASE Join(c)
      BY <1>1, <3>4 DEF Join, NewRow, NewUser, Next1
    <3>5. CASE Company(c)
      BY <1>1, <3>5 DEF Company, NewRow, NewUser, Next1
    <3> QED
      BY <1>5, <3>1, <3>2, <3>3, <3>4, <3>5
  <2> QED
    BY <1>3, <1>5, <2>1, <2>2, LinksKept DEF Proceed
<1>6. ASSUME NEW gone \in SUBSET Tenants, DeleteTenants(gone) 
      PROVE  \A u \in Users : user'[u].link \in {user[u].link, None}
  BY <1>1, <1>6 DEF DeleteTenants, UserRow
<1>7. ASSUME NEW c \in Calls, Dissolve(c) PROVE LinkInv'
  <2>1. {call[c].tenant} \in SUBSET Tenants
    BY <1>1, <1>7 DEF Dissolve, CallRecord
  <2> QED
    BY <1>3, <1>6, <1>7, <2>1, LinksKept DEF Proceed, Dissolve
<1>8. ASSUME NEW c \in Calls, Reset(c) PROVE LinkInv'
  <2> DEFINE l == call[c].link
             u == call[c].user
  <2>1. /\ u \in Users /\ mailed' = mailed /\ spent' = spent \cup ({l} \ {None})
        /\ user' = [user EXCEPT ![u].link = None]
        /\ l # None => l \in mailed /\ \A v \in Users : user[v].link = l => v = u
    BY <1>1, <1>8 DEF Reset, LinkInv, CallRecord
  <2>2. user'[u].link = None /\ \A v \in Users \ {u} : user'[v] = user[v]
    BY <1>1, <2>1 DEF UserRow
  <2>3. ResetsKept /\ \A d \in Calls : call'[d].op = "reset" => call'[d] = call[d]
    BY <1>3, <1>8, CallMoves DEF Proceed, Continues
  <2>4. SpentLinksAreDead' /\ (spent \subseteq mailed)'
    BY <1>1, <2>1, <2>2 DEF LinkInv, SpentLinksAreDead
  <2>5. /\ \A v \in Users : user'[v].link # None => user'[v].link \in mailed'
        /\ \A v, w \in Users : user'[v].link # None /\ user'[v].link = user'[w].link => v = w
    BY <2>1, <2>2 DEF LinkInv
  <2>6. \A d \in Calls : call'[d].op = "reset" /\ call'[d].link # None =>
          /\ call'[d].link \in mailed'
          /\ \A v \in Users : user'[v].link = call'[d].link => v = call'[d].user
    BY <1>1, <2>1, <2>2, <2>3 DEF LinkInv
  <2> QED
    BY <2>4, <2>5, <2>6 DEF LinkInv
<1>9. ASSUME NEW c \in Calls, Forgot(c) PROVE LinkInv'
  <2> DEFINE u == call[c].user
  <2>1. PICK l \in Links : /\ l \notin mailed /\ user' = [user EXCEPT ![u].link = l]
                           /\ mailed' = mailed \cup {l}
    BY <1>9 DEF Forgot, Next1
  <2>2. u \in Users /\ spent' = spent
    BY <1>1, <1>9 DEF Forgot, CallRecord
  <2>3. user'[u].link = l /\ \A v \in Users \ {u} : user'[v] = user[v]
    BY <1>1, <2>1, <2>2 DEF UserRow
  <2>4. \A d \in Calls : call'[d].op = "reset" => call'[d] = call[d]
    BY <1>9, CallMoves DEF Proceed, Continues
  <2>5. SpentLinksAreDead' /\ (spent \subseteq mailed)'
    BY <2>1, <2>2, <2>3 DEF LinkInv, SpentLinksAreDead
  <2>6. /\ \A v \in Users : user'[v].link # None => user'[v].link \in mailed'
        /\ \A v, w \in Users : user'[v].link # None /\ user'[v].link = user'[w].link => v = w
    BY <2>1, <2>2, <2>3 DEF LinkInv
  <2>7. \A d \in Calls : call'[d].op = "reset" /\ call'[d].link # None =>
          /\ call'[d].link \in mailed'
          /\ \A v \in Users : user'[v].link = call'[d].link => v = call'[d].user
    BY <1>1, <2>1, <2>2, <2>3, <2>4 DEF LinkInv
  <2> QED
    BY <2>5, <2>6, <2>7 DEF LinkInv
<1>10. ASSUME NEW a \in Users, DissolveAll(a) PROVE LinkInv'
  <2>1. ResetsKept
    BY <1>10 DEF DissolveAll, ResetsKept
  <2> QED
    BY <1>6, <1>10, <2>1, LinksKept DEF DissolveAll
<1>11. CASE \/ \E t \in Tokens : ExpireToken(t) \/ ForgetMark(t)
            \/ \E u \in Users, r \in Roles : ExpireAccess(u, r)
            \/ UNCHANGED vars
  <2>1. UNCHANGED <<user, mailed, spent, call>>
    BY <1>11 DEF ExpireToken, ForgetMark, ExpireAccess, tables, vars
  <2> QED
    BY <2>1, LinksKept DEF ResetsKept
<1> QED
  BY <1>2, <1>4, <1>5, <1>7, <1>8, <1>9, <1>10, <1>11 DEF Next, Proceed

\* A link that a password was reset with stays nobody's, however resets, with
\* and without a link, and requests for links overlap.
THEOREM SpentLinksStayDead == Spec => []SpentLinksAreDead
<1>1. Init => LinkInv
  BY DEF Init, Idle, LinkInv, SpentLinksAreDead
<1>2. LinkInv => SpentLinksAreDead
  BY DEF LinkInv
<1> QED
  BY <1>1, <1>2, LinkNext, TypeAlways, PTL DEF Spec

-----------------------------------------------------------------------------
(* Sessions.  A session has one row or one call that renews it, never two  *)
(* of them; what is not issued yet belongs to no session.                  *)

Renews(c) == call[c].op = "refresh" /\ call[c].pc \in {"mark", "mint"}

SessionInv ==
  /\ \A t \in Tokens : holder[t] # None => t \in issued
  /\ \A t \in issued : root[t] \in issued
  /\ \A c \in Calls : call[c].op = "refresh" => call[c].token \in issued
  /\ \A s, t \in Tokens : holder[s] # None /\ holder[t] # None /\ root[s] = root[t] => s = t
  /\ \A c \in Calls, t \in Tokens :
       Renews(c) /\ root[t] = root[call[c].token] => holder[t] = None
  /\ \A c, d \in Calls :
       Renews(c) /\ Renews(d) /\ root[call[c].token] = root[call[d].token] => c = d

\* Steps under which every renewal goes on or ends, and rows only go.
RenewalsKept ==
  \A d \in Calls : /\ (Renews(d)' => Renews(d) /\ call'[d].token = call[d].token)
                   /\ (call'[d].op = "refresh" => call'[d].token \in issued)

LEMMA SessionsKept ==
  ASSUME SessionInv, UNCHANGED <<root, issued>>, RenewalsKept,
         \A t \in Tokens : holder'[t] \in {holder[t], None}
  PROVE  SessionInv'
<1>1. /\ \A t \in Tokens : holder'[t] # None => t \in issued'
      /\ \A t \in issued' : root'[t] \in issued'
      /\ \A c \in Calls : call'[c].op = "refresh" => call'[c].token \in issued'
      /\ \A s, t \in Tokens : holder'[s] # None /\ holder'[t] # None /\ root'[s] = root'[t] => s = t
  BY DEF SessionInv, RenewalsKept
<1>2. ASSUME NEW c \in Calls, Renews(c)'
      PROVE  /\ \A t \in Tokens : root'[t] = root'[call'[c].token] => holder'[t] = None
             /\ \A d \in Calls :
                  Renews(d)' /\ root'[call'[c].token] = root'[call'[d].token] => c = d
  BY <1>2 DEF SessionInv, RenewalsKept
<1>3. /\ \A c \in Calls, t \in Tokens :
            Renews(c)' /\ root'[t] = root'[call'[c].token] => holder'[t] = None
      /\ \A c, d \in Calls :
            Renews(c)' /\ Renews(d)' /\ root'[call'[c].token] = root'[call'[d].token] => c = d
  BY <1>2
<1> QED
  BY <1>1, <1>3 DEF SessionInv

\* What a moving call does to the renewals: a call that is not at the end of
\* a refresh takes no part in them.
LEMMA CallRenewals ==
  ASSUME TypeInv, SessionInv, NEW c \in Calls, Proceed(c) \/ Fail(c)
  PROVE  /\ \A d \in Calls \ {c} : (Renews(d)' <=> Renews(d)) /\ call'[d].token = call[d].token
         /\ (call[c].pc \notin {"delete", "mark", "mint"} \/ call[c].op # "refresh" \/ call'[c].op = "none"
              => ~Renews(c)')
         /\ (call[c].pc # "delete" => RenewalsKept)
         /\ (call'[c].op = "none" => RenewalsKept)
<1>1. \A d \in Calls \ {c} : (Renews(d)' <=> Renews(d)) /\ call'[d].token = call[d].token
  BY CallMoves DEF Renews
<1>2. call[c].pc \notin {"delete", "mark", "mint"} \/ call[c].op # "refresh" \/ call'[c].op = "none"
        => ~Renews(c)'
  BY CallMoves DEF Continues, Renews
<1>3. \A d \in Calls : call'[d].op = "refresh" => call'[d].token \in issued
  BY CallMoves DEF Continues, SessionInv
<1>4. call[c].pc # "delete" => (Renews(c)' => Renews(c) /\ call'[c].token = call[c].token)
  BY CallMoves DEF Continues, Renews
<1> QED
  BY <1>1, <1>2, <1>3, <1>4 DEF RenewalsKept

-----------------------------------------------------------------------------
(* The steps of the abstract specification. *)

\* Nothing of the sessions changes.
LEMMA SessionsRest ==
  ASSUME UNCHANGED <<holder, root, issued>>,
         \A d \in Calls : /\ (Renews(d)' <=> Renews(d))
                         /\ (Renews(d) => call'[d].token = call[d].token)
  PROVE  UNCHANGED Sessions!vars
<1>1. Valid' = Valid
  BY DEF Valid
<1>2. Renewing' = Renewing
  BY DEF Renewing, Renews
<1> QED
  BY <1>1, <1>2 DEF Sessions!vars

\* Rows go, and their sessions with them, because a session has one row.
LEMMA SessionsClose ==
  ASSUME SessionInv, root \in [Tokens -> Tokens], UNCHANGED <<root, issued>>,
         \A t \in Tokens : holder'[t] \in {holder[t], None},
         \A d \in Calls : /\ (Renews(d)' <=> Renews(d))
                         /\ (Renews(d) => call'[d].token = call[d].token)
  PROVE  Sessions!Next
<1> DEFINE ended == {f \in Tokens : \E t \in Tokens : holder[t] # None /\ holder'[t] = None /\ root[t] = f}
<1>1. \A f \in Tokens : Valid'[f] = IF f \in ended THEN {} ELSE Valid[f]
  <2>1. ASSUME NEW f \in Tokens, f \in ended PROVE Valid'[f] = {}
    BY <2>1 DEF Valid, SessionInv
  <2>2. ASSUME NEW f \in Tokens, f \notin ended PROVE Valid'[f] = Valid[f]
    BY <2>2 DEF Valid
  <2> QED
    BY <2>1, <2>2
<1>2. Valid' = [f \in Tokens |-> IF f \in ended THEN {} ELSE Valid[f]]
  <2>1. Valid' = [f \in Tokens |-> Valid'[f]]
    BY DEF Valid
  <2> QED
    BY <1>1, <2>1
<1>3. Renewing' = Renewing
  BY DEF Renewing, Renews
<1>4. ended \in SUBSET Tokens
  OBVIOUS
<1> HIDE DEF ended
<1>5. Sessions!Close(ended)
  BY <1>2, <1>3 DEF Sessions!Close
<1> QED
  BY <1>4, <1>5 DEF Sessions!Next

\* A renewal is given up.
LEMMA SessionAbandoned ==
  ASSUME SessionInv, NEW c \in Calls, Renews(c), ~Renews(c)', root[call[c].token] \in Tokens,
         UNCHANGED <<holder, root, issued>>,
         \A d \in Calls \ {c} : (Renews(d)' <=> Renews(d)) /\ call'[d].token = call[d].token
  PROVE  Sessions!Next
<1> DEFINE f == root[call[c].token]
<1>1. Valid' = Valid
  BY DEF Valid
<1>2. \A x : x \in Renewing <=> \E d \in Calls : Renews(d) /\ x = root[call[d].token]
  BY DEF Renewing, Renews
<1>3. \A x : x \in Renewing' <=> \E d \in Calls : Renews(d)' /\ x = root'[call'[d].token]
  BY DEF Renewing, Renews
<1>4. \A d \in Calls : Renews(d) /\ root[call[d].token] = f => d = c
  BY DEF SessionInv
<1>5. Renewing' = Renewing \ {f} /\ f \in Renewing
  BY <1>2, <1>3, <1>4
<1>6. Sessions!AbandonRenewal(f)
  BY <1>1, <1>5 DEF Sessions!AbandonRenewal
<1> QED
  BY <1>6 DEF Sessions!Next

\* The old token is consumed.
LEMMA SessionConsumed ==
  ASSUME TypeInv, SessionInv, NEW c \in Calls, Delete(c), ~End(c)
  PROVE  SessionInv' /\ Sessions!Next
<1> DEFINE t == call[c].token
           f == root[t]
<1>1. /\ call \in [Calls -> CallRecord] /\ holder \in [Tokens -> {None} \cup Users]
      /\ root \in [Tokens -> Tokens] /\ call[c] \in CallRecord
  BY DEF TypeInv, TypeOK
<1>2. /\ call[c].op = "refresh" /\ call[c].pc = "delete" /\ holder[t] # None
      /\ call' = [call EXCEPT ![c].pc = "mark"] /\ holder' = [holder EXCEPT ![t] = None]
      /\ UNCHANGED <<root, issued>>
  BY <1>1 DEF Delete, Goto
<1>3. t \in Tokens /\ t \in issued /\ f \in Tokens
  BY <1>1, <1>2 DEF CallRecord, SessionInv
<1>4. /\ ~Renews(c) /\ Renews(c)' /\ call'[c].token = t /\ call'[c].op = "refresh"
      /\ \A d \in Calls \ {c} : call'[d] = call[d]
  BY <1>1, <1>2 DEF Renews, CallRecord
<1>5. \A d \in Calls \ {c} : (Renews(d)' <=> Renews(d)) /\ call'[d].token = call[d].token
  BY <1>4 DEF Renews
<1>6. \A d \in Calls : Renews(d) => root[call[d].token] # f
  BY <1>2, <1>3 DEF SessionInv
<1>7. /\ holder'[t] = None /\ \A s \in Tokens \ {t} : holder'[s] = holder[s]
      /\ \A s \in Tokens : holder[s] # None /\ root[s] = f => s = t
  BY <1>1, <1>2, <1>3 DEF SessionInv
<1>8. SessionInv'
  <2>1. /\ \A s \in Tokens : holder'[s] # None => s \in issued'
        /\ \A s \in issued' : root'[s] \in issued'
        /\ \A d \in Calls : call'[d].op = "refresh" => call'[d].token \in issued'
        /\ \A s, u \in Tokens : holder'[s] # None /\ holder'[u] # None /\ root'[s] = root'[u] => s = u
    BY <1>2, <1>3, <1>4, <1>7 DEF SessionInv
  <2>2. \A d \in Calls, s \in Tokens :
          Renews(d)' /\ root'[s] = root'[call'[d].token] => holder'[s] = None
    BY <1>2, <1>4, <1>5, <1>7 DEF SessionInv
  <2>3. \A d, e \in Calls :
          Renews(d)' /\ Renews(e)' /\ root'[call'[d].token] = root'[call'[e].token] => d = e
    BY <1>2, <1>4, <1>5, <1>6 DEF SessionInv
  <2> QED
    BY <2>1, <2>2, <2>3 DEF SessionInv
<1>9. Valid[f] # {} /\ Valid' = [Valid EXCEPT ![f] = {}]
  <2>1. t \in Valid[f]
    BY <1>2, <1>3 DEF Valid
  <2>2. \A g \in Tokens : Valid'[g] = IF g = f THEN {} ELSE Valid[g]
    BY <1>2, <1>3, <1>7 DEF Valid
  <2>3. Valid' = [g \in Tokens |-> Valid'[g]] /\ Valid = [g \in Tokens |-> Valid[g]]
    BY DEF Valid
  <2> QED
    BY <1>3, <2>1, <2>2, <2>3
<1>10. f \notin Renewing /\ Renewing' = Renewing \cup {f}
  <2>1. \A x : x \in Renewing <=> \E d \in Calls : Renews(d) /\ x = root[call[d].token]
    BY DEF Renewing, Renews
  <2>2. \A x : x \in Renewing' <=> \E d \in Calls : Renews(d)' /\ x = root'[call'[d].token]
    BY DEF Renewing, Renews
  <2> QED
    BY <1>2, <1>4, <1>5, <1>6, <2>1, <2>2
<1>11. Sessions!BeginRenewal(f)
  BY <1>2, <1>9, <1>10 DEF Sessions!BeginRenewal
<1> QED
  BY <1>3, <1>8, <1>11 DEF Sessions!Next

\* A new token is handed out, in a new session or in the renewed one.
LEMMA SessionIssued ==
  ASSUME TypeInv, SessionInv, NEW c \in Calls, Mint(c)
  PROVE  SessionInv' /\ Sessions!Next
<1> DEFINE old == call[c].token
<1>1. /\ call \in [Calls -> CallRecord] /\ holder \in [Tokens -> {None} \cup Users]
      /\ root \in [Tokens -> Tokens] /\ call[c] \in CallRecord /\ None \notin Users
      /\ issued \subseteq Tokens
  BY ConstantsAssumption DEF TypeInv, TypeOK
<1>2. PICK t \in Tokens :
        /\ t \notin issued
        /\ holder' = [holder EXCEPT ![t] = call[c].user]
        /\ root' = [root EXCEPT ![t] = IF call[c].op = "refresh" THEN root[old] ELSE t]
        /\ issued' = issued \cup {t}
  BY DEF Mint, Next1
<1> DEFINE f == IF call[c].op = "refresh" THEN root[old] ELSE t
<1>3. /\ call[c].user \in Users /\ call[c].user # None /\ call[c].pc = "mint"
      /\ call[c].op = "refresh" => old \in Tokens /\ old \in issued /\ root[old] \in issued
  BY <1>1 DEF Mint, CallRecord, SessionInv
<1>4. f \in Tokens
  BY <1>1, <1>3
<1>5. /\ ~Renews(c)' /\ call'[c].op = "none" /\ \A d \in Calls \ {c} : call'[d] = call[d]
      /\ \A d \in Calls \ {c} : (Renews(d)' <=> Renews(d)) /\ call'[d].token = call[d].token
  BY <1>1 DEF Mint, End, Idle, Renews
<1>6. /\ holder'[t] # None /\ root'[t] = f /\ holder[t] = None
      /\ \A s \in Tokens \ {t} : holder'[s] = holder[s] /\ root'[s] = root[s]
  BY <1>1, <1>2, <1>3 DEF SessionInv
<1>7. /\ \A s \in Tokens : holder[s] # None => root[s] # f
      /\ \A d \in Calls \ {c} : Renews(d) => root[call[d].token] # f
  <2>1. CASE call[c].op = "refresh"
    BY <1>3, <2>1 DEF SessionInv, Renews
  <2>2. CASE call[c].op # "refresh"
    BY <1>1, <1>2, <2>2 DEF SessionInv, Renews
  <2> QED
    BY <2>1, <2>2
<1>8. \A d \in Calls : call[d].op = "refresh" => /\ call[d].token \in issued /\ call[d].token # t
                                              /\ call[d].token \in Tokens
  BY <1>1, <1>2 DEF SessionInv
<1> HIDE DEF f
<1>9. SessionInv'
  <2>1. \A s \in Tokens : holder'[s] # None => s \in issued'
    BY <1>2, <1>6 DEF SessionInv
  <2>2. \A s \in issued' : root'[s] \in issued'
    BY <1>1, <1>2, <1>3, <1>6 DEF SessionInv, f
  <2>3. \A d \in Calls : call'[d].op = "refresh" => call'[d].token \in issued'
    BY <1>2, <1>5, <1>8
  <2>4. \A s, u \in Tokens : holder'[s] # None /\ holder'[u] # None /\ root'[s] = root'[u] => s = u
    BY <1>6, <1>7 DEF SessionInv
  <2>5. \A d \in Calls, s \in Tokens :
          Renews(d)' /\ root'[s] = root'[call'[d].token] => holder'[s] = None
    BY <1>5, <1>6, <1>7, <1>8 DEF SessionInv, Renews
  <2>6. \A d, e \in Calls :
          Renews(d)' /\ Renews(e)' /\ root'[call'[d].token] = root'[call'[e].token] => d = e
    BY <1>5, <1>6, <1>8 DEF SessionInv, Renews
  <2> QED
    BY <2>1, <2>2, <2>3, <2>4, <2>5, <2>6 DEF SessionInv
<1>10. Valid' = [Valid EXCEPT ![f] = {t}]
  <2>1. \A g \in Tokens : Valid'[g] = IF g = f THEN {t} ELSE Valid[g]
    <3>1. Valid'[f] = {t}
      BY <1>4, <1>6, <1>7 DEF Valid
    <3>2. ASSUME NEW g \in Tokens, g # f PROVE Valid'[g] = Valid[g]
      BY <1>6, <3>2 DEF Valid
    <3> QED
      BY <3>1, <3>2
  <2>2. Valid' = [g \in Tokens |-> Valid'[g]] /\ Valid = [g \in Tokens |-> Valid[g]]
    BY DEF Valid
  <2> QED
    BY <1>4, <2>1, <2>2
<1>11. Sessions!Issue(f, t)
  BY <1>2, <1>10 DEF Sessions!Issue
<1>12. /\ \A x : x \in Renewing <=> \E d \in Calls : Renews(d) /\ x = root[call[d].token]
       /\ \A x : x \in Renewing' <=> \E d \in Calls : Renews(d)' /\ x = root'[call'[d].token]
  BY DEF Renewing, Renews
<1>13. \A d \in Calls \ {c} : Renews(d) => root'[call'[d].token] = root[call[d].token]
  BY <1>5, <1>6, <1>8 DEF Renews
<1>14. CASE call[c].op = "refresh"
  <2>1. Renews(c) /\ f = root[old]
    BY <1>3, <1>14 DEF Renews, f
  <2>2. f \in Renewing /\ Renewing' = Renewing \ {f}
    <3>1. f \in Renewing
      BY <1>12, <2>1
    <3>2. ASSUME NEW x, x \in Renewing' PROVE x \in Renewing /\ x # f
      BY <1>5, <1>7, <1>12, <1>13, <3>2
    <3>3. ASSUME NEW x, x \in Renewing, x # f PROVE x \in Renewing'
      BY <1>5, <1>12, <1>13, <2>1, <3>3
    <3> QED
      BY <3>1, <3>2, <3>3
  <2>3. Sessions!FinishRenewal(f, t)
    BY <1>11, <2>2 DEF Sessions!FinishRenewal
  <2> QED
    BY <1>4, <1>9, <2>3 DEF Sessions!Next
<1>15. CASE call[c].op # "refresh"
  <2>1. ~Renews(c) /\ f = t
    BY <1>15 DEF Renews, f
  <2>2. Renewing' = Renewing
    <3>1. ASSUME NEW x, x \in Renewing' PROVE x \in Renewing
      BY <1>5, <1>12, <1>13, <3>1
    <3>2. ASSUME NEW x, x \in Renewing PROVE x \in Renewing'
      BY <1>5, <1>12, <1>13, <2>1, <3>2
    <3> QED
      BY <3>1, <3>2
  <2>3. Sessions!Open(t)
    BY <1>11, <2>1, <2>2 DEF Sessions!Open
  <2> QED
    BY <1>9, <2>3 DEF Sessions!Next
<1> QED
  BY <1>14, <1>15

LEMMA SessionStep ==
  ASSUME TypeInv, SessionInv, [Next]_vars
  PROVE  SessionInv' /\ [Sessions!Next]_(Sessions!vars)
<1>1. /\ call \in [Calls -> CallRecord] /\ root \in [Tokens -> Tokens]
      /\ holder \in [Tokens -> {None} \cup Users]
  BY DEF TypeInv, TypeOK
<1> DEFINE Alike == \A d \in Calls : /\ (Renews(d)' <=> Renews(d))
                                   /\ (Renews(d) => call'[d].token = call[d].token)
<1>2. ASSUME UNCHANGED <<holder, root, issued>>, RenewalsKept, Alike
      PROVE  SessionInv' /\ [Sessions!Next]_(Sessions!vars)
  BY <1>2, SessionsKept, SessionsRest
<1>3. ASSUME UNCHANGED <<root, issued>>, RenewalsKept, Alike,
             \A t \in Tokens : holder'[t] \in {holder[t], None}
      PROVE  SessionInv' /\ [Sessions!Next]_(Sessions!vars)
  BY <1>1, <1>3, SessionsKept, SessionsClose
<1>4. ASSUME NEW c \in Calls, Arrive(c) PROVE SessionInv' /\ [Sessions!Next]_(Sessions!vars)
  <2>1. /\ UNCHANGED <<holder, root, issued>> /\ ~Renews(c) /\ ~Renews(c)'
        /\ \A d \in Calls \ {c} : call'[d] = call[d]
        /\ (call'[c].op = "refresh" => call'[c].token \in issued)
    BY <1>4, CallArrives DEF Arrives, Renews, tables
  <2>2. RenewalsKept /\ Alike
    BY <2>1 DEF RenewalsKept, Renews, SessionInv
  <2> QED
    BY <1>2, <2>1, <2>2
<1>5. ASSUME NEW c \in Calls, FindRow(c) \/ FindOwner(c) \/ Mark(c)
      PROVE  SessionInv' /\ [Sessions!Next]_(Sessions!vars)
  <2>1. UNCHANGED <<holder, root, issued>> /\ Proceed(c) /\ call[c].pc # "delete"
    BY <1>5 DEF FindRow, FindOwner, Mark, tables, Proceed
  <2>2. (Renews(c)' <=> Renews(c)) /\ (Renews(c) => call'[c].token = call[c].token)
    <3>1. CASE Mark(c)
      BY <1>1, <3>1 DEF Mark, Goto, Renews, CallRecord
    <3>2. CASE FindRow(c) \/ FindOwner(c)
      <4>1. call[c].pc \in {"row", "owner"}
        BY <3>2 DEF FindRow, FindOwner
      <4> QED
        BY <2>1, <4>1, CallRenewals DEF Renews
    <3> QED
      BY <1>5, <3>1, <3>2
  <2>3. RenewalsKept /\ Alike
    BY <2>1, <2>2, CallRenewals
  <2> QED
    BY <1>2, <2>1, <2>3
<1>6. ASSUME NEW c \in Calls,
             \/ Reset(c) \/ Change(c) \/ Forgot(c) \/ FindEmail(c) \/ Join(c) \/ Company(c)
             \/ Found(c) \/ Rename(c) \/ Update(c) \/ Remove(c)
      PROVE  SessionInv' /\ [Sessions!Next]_(Sessions!vars)
  <2>1. UNCHANGED <<holder, root, issued>> /\ Proceed(c) /\ call[c].pc \in {"write", "email", "create"}
    BY <1>6 DEF Reset, Change, Forgot, FindEmail, Join, Company, Found, Rename, Update, Remove,
                tables, Proceed
  <2>2. RenewalsKept /\ Alike
    BY <2>1, CallRenewals DEF Renews
  <2> QED
    BY <1>2, <2>1, <2>2
<1>7. ASSUME NEW c \in Calls, Delete(c) PROVE SessionInv' /\ [Sessions!Next]_(Sessions!vars)
  <2>1. CASE ~End(c)
    BY <1>7, <2>1, SessionConsumed
  <2>2. CASE End(c)
    <3>1. Proceed(c) /\ call'[c].op = "none" /\ ~Renews(c) /\ UNCHANGED <<root, issued>>
      BY <1>1, <1>7, <2>2 DEF Delete, End, Idle, Renews, Proceed
    <3>2. RenewalsKept /\ Alike
      BY <3>1, CallRenewals
    <3>3. \A t \in Tokens : holder'[t] \in {holder[t], None}
      BY <1>1, <1>7 DEF Delete
    <3> QED
      BY <1>3, <3>1, <3>2, <3>3
  <2> QED
    BY <2>1, <2>2
<1>8. ASSUME NEW c \in Calls, Refuse(c) \/ Fail(c) PROVE SessionInv' /\ [Sessions!Next]_(Sessions!vars)
  <2>1. /\ UNCHANGED <<holder, root, issued>> /\ (Proceed(c) \/ Fail(c)) /\ call'[c].op = "none"
    BY <1>1, <1>8 DEF Refuse, Fail, End, Idle, tables, Proceed
  <2>2. /\ RenewalsKept /\ ~Renews(c)'
        /\ \A d \in Calls \ {c} : (Renews(d)' <=> Renews(d)) /\ call'[d].token = call[d].token
    BY <2>1, CallRenewals
  <2>3. CASE Renews(c)
    <3>1. root[call[c].token] \in Tokens
      BY <1>1, <2>3 DEF Renews, CallRecord
    <3>2. SessionInv'
      BY <2>1, <2>2, SessionsKept
    <3> QED
      BY <2>1, <2>2, <2>3, <3>1, <3>2, SessionAbandoned
  <2>4. CASE ~Renews(c)
    BY <1>2, <2>1, <2>2, <2>4
  <2> QED
    BY <2>3, <2>4
<1>9. ASSUME NEW c \in Calls, Dissolve(c) PROVE SessionInv' /\ [Sessions!Next]_(Sessions!vars)
  <2>1. Proceed(c) /\ call[c].pc = "write" /\ UNCHANGED <<root, issued>>
    BY <1>9 DEF Dissolve, Proceed
  <2>2. RenewalsKept /\ Alike
    BY <2>1, CallRenewals DEF Renews
  <2>3. \A t \in Tokens : holder'[t] \in {holder[t], None}
    BY <1>9 DEF Dissolve, DeleteTenants
  <2> QED
    BY <1>3, <2>1, <2>2, <2>3
<1>10. CASE \/ \E t \in Tokens : ExpireToken(t) \/ ForgetMark(t)
            \/ \E u \in Users, r \in Roles : ExpireAccess(u, r)
            \/ UNCHANGED vars
  <2>1. UNCHANGED <<holder, root, issued, call>>
    BY <1>10 DEF ExpireToken, ForgetMark, ExpireAccess, tables, vars
  <2>2. RenewalsKept /\ Alike
    BY <2>1 DEF RenewalsKept, Renews, SessionInv
  <2> QED
    BY <1>2, <2>1, <2>2
<1>11. ASSUME NEW a \in Users, DissolveAll(a) PROVE SessionInv' /\ [Sessions!Next]_(Sessions!vars)
  <2>1. UNCHANGED <<root, issued, call>>
    BY <1>11 DEF DissolveAll
  <2>2. RenewalsKept /\ Alike
    BY <2>1 DEF RenewalsKept, Renews, SessionInv
  <2>3. \A t \in Tokens : holder'[t] \in {holder[t], None}
    BY <1>11 DEF DissolveAll, DeleteTenants
  <2> QED
    BY <1>3, <2>1, <2>2, <2>3
<1> QED
  BY <1>4, <1>5, <1>6, <1>7, <1>8, <1>9, <1>10, <1>11, SessionIssued DEF Next, Proceed

\* A refresh token is exchanged at most once and a session never has two
\* valid tokens: the tables and calls implement RefreshSessions.
THEOREM TokensImplementSessions == Spec => SessionsImplemented
<1>1. Init => SessionInv
  BY ConstantsAssumption DEF Init, Idle, SessionInv, Renews
<1>2. Init => Sessions!Init
  BY DEF Init, Idle, Sessions!Init, Valid, Renewing
<1> QED
  BY <1>1, <1>2, SessionStep, TypeAlways, PTL DEF Spec, SessionsImplemented, Sessions!Spec

\* A session never has two valid tokens, and none while it is renewed.
THEOREM OneValidToken == Spec => []Sessions!OneTokenPerSession
<1>1. Init => SessionInv
  BY ConstantsAssumption DEF Init, Idle, SessionInv, Renews
<1>2. SessionInv => Sessions!OneTokenPerSession
  BY DEF SessionInv, Renews, Sessions!OneTokenPerSession, Valid, Renewing
<1> QED
  BY <1>1, <1>2, SessionStep, TypeAlways, PTL DEF Spec
=============================================================================
