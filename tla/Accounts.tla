------------------------------ MODULE Accounts ------------------------------
(***************************************************************************)
(* Companies, their users, and the credentials of the users: access tokens *)
(* (signed, never stored, valid for 15 minutes), refresh tokens (rows,     *)
(* consumed when they are used, with a Redis blacklist of the tokens used  *)
(* in the last 300 seconds) and the links of the password reset e-mails.   *)
(*                                                                         *)
(* A call is one HTTP request; its first query is its first step and pc    *)
(* the await it resumes from.  Generated ids are numbers, taken in order.  *)
(* A password is only known to match or not.  Of the columns those are     *)
(* kept that a handler decides upon, of the roles whether they may use the *)
(* routes of HR_ADMIN and TENANT_ADMIN.  Departments are in                *)
(* LeaveRequestWorkflow.  RedisService swallows errors: a failed get is a  *)
(* miss, a failed set does nothing.                                        *)
(***************************************************************************)
EXTENDS Naturals

CONSTANTS
  Users, Tenants, Tokens, Links,  \* ids, sets of numbers
  Emails, Names,                  \* of users and of companies
  Calls, None,
  RedisFails, CallsFail,          \* may Redis fail, may a call die half-way
  MaxStarted                      \* bound on calls

ASSUME ConstantsAssumption ==
  /\ Users \cup Tenants \cup Tokens \cup Links \subseteq Nat
  /\ None \notin Nat \cup Emails \cup Names
  /\ RedisFails \in BOOLEAN /\ CallsFail \in BOOLEAN /\ MaxStarted \in Nat

VARIABLES
  tenant,     \* each company: its state and its name
  user,       \* each user: state, e-mail, company, role and reset link
  holder,     \* the user of each stored refresh token, None without a row
  expired,    \* stored refresh tokens past their seven days
  blacklist,  \* the tokens in Redis
  access,     \* roles in the access tokens of each user still accepted
  call,       \* what each call is doing
  started,    \* calls so far
  root,       \* first token of the session of each token (history)
  mailed,     \* reset links generated so far
  issued,     \* refresh tokens stored so far (history)
  spent       \* reset links a password was reset with (history)

vars == <<tenant, user, holder, expired, blacklist, access, call, started,
          root, mailed, issued, spent>>

Roles == {"admin", "staff"}

TenantRow == [state : {"none", "present", "removed"}, name : {None} \cup Names]

UserRow ==
  [state : {"none", "active", "offboarded", "removed"}, email : {None} \cup Emails,
   tenant : {None} \cup Tenants, role : Roles, link : {None} \cup Links]

\* where and to: the name a company is looked up by, and its new one.
CallRecord ==
  {r \in [op : {"none", "login", "logout", "refresh", "change", "forgot", "reset", "company",
                "join", "update", "remove", "found", "rename", "dissolve"},
          pc : {"idle", "row", "owner", "drop", "delete", "mark", "mint", "email", "create",
                "write"},
          token : {None} \cup Tokens, user : {None} \cup Users, tenant : {None} \cup Tenants,
          role : {None} \cup Roles, email : {None} \cup Emails, link : {None} \cup Links,
          where : {None} \cup Names, to : {None} \cup Names] :
     /\ r.op \in {"logout", "refresh"} => r.token \in Tokens
     /\ \/ r.op \in {"login", "change", "forgot", "reset", "update", "remove"}
        \/ r.op = "refresh" /\ r.pc # "row"
        \/ r.pc = "mint"
        => r.user \in Users
     /\ \/ r.op \in {"login", "company", "join"}
        \/ r.op = "refresh" /\ r.pc \in {"delete", "mark", "mint"}
        => r.role \in Roles
     /\ r.op \in {"join", "dissolve"} => r.tenant \in Tenants
     /\ r.op \in {"join", "company"} => r.email \in Emails
     /\ r.op \in {"company", "found", "rename"} => r.to \in Names
     /\ r.pc \in {"row", "owner", "drop", "mark"} => r.op = "refresh"
     /\ r.pc = "delete" => r.op \in {"logout", "refresh"}
     /\ r.pc = "mint" => r.op \in {"login", "refresh", "company"}
     /\ r.pc = "email" => r.op \in {"join", "company"}}

Idle ==
  [op |-> "none", pc |-> "idle", token |-> None, user |-> None, tenant |-> None,
   role |-> None, email |-> None, link |-> None, where |-> None, to |-> None]

\* An empty database.
Init ==
  /\ tenant = [w \in Tenants |-> [state |-> "none", name |-> None]]
  /\ user = [u \in Users |->
       [state |-> "none", email |-> None, tenant |-> None, role |-> "staff", link |-> None]]
  /\ holder = [t \in Tokens |-> None] /\ root = [t \in Tokens |-> t]
  /\ access = [u \in Users |-> {}]
  /\ call = [c \in Calls |-> Idle] /\ started = 0
  /\ expired = {} /\ blacklist = {} /\ mailed = {} /\ issued = {} /\ spent = {}

Exists(u) == user[u].state \in {"active", "offboarded"}

\* The unique columns.
EmailTaken(e) == \E u \in Users : Exists(u) /\ user[u].email = e

NameTaken(n) == \E w \in Tenants : tenant[w].state = "present" /\ tenant[w].name = n

\* The ids a database or uuid() may generate next.
Next1(used, ids) == {x \in ids \ used : \A y \in ids \ used : x <= y}

NewUser == Next1({u \in Users : user[u].state # "none"}, Users)

NewTenant == Next1({w \in Tenants : tenant[w].state # "none"}, Tenants)

\* The guards of a route for administrators look at the token alone.
MayAdminister(u) == "admin" \in access[u]

tables == <<tenant, user, holder, expired, root, mailed, issued, spent>>

-----------------------------------------------------------------------------
(* Requests arriving: the first query of each handler.  One that is        *)
(* refused here changes nothing.                                           *)

Begin(c, r) ==
  /\ call[c].pc = "idle" /\ started < MaxStarted
  /\ call' = [call EXCEPT ![c] = r]
  /\ started' = started + 1
  /\ UNCHANGED <<tables, blacklist, access>>

\* Whoever is found by the e-mail and whose password matches.
BeginLogin(c, u) ==
  /\ Exists(u)
  /\ Begin(c, [Idle EXCEPT !.op = "login", !.pc = "mint", !.user = u, !.role = user[u].role])

BeginLogout(c, t) ==
  /\ holder[t] # None
  /\ Begin(c, [Idle EXCEPT !.op = "logout", !.pc = "delete", !.token = t])

BeginRefresh(c, t) ==
  /\ t \in issued
  /\ t \notin blacklist \/ RedisFails
  /\ Begin(c, [Idle EXCEPT !.op = "refresh", !.pc = "row", !.token = t])

\* Any access token, and the old password.
BeginChange(c, u) ==
  /\ access[u] # {} /\ Exists(u)
  /\ Begin(c, [Idle EXCEPT !.op = "change", !.pc = "write", !.user = u])

BeginForgot(c, u) ==
  /\ Exists(u)
  /\ Begin(c, [Idle EXCEPT !.op = "forgot", !.pc = "write", !.user = u])

\* A request may lack the link, and any user is found then.
BeginReset(c, u, l) ==
  /\ Exists(u) /\ (l = None \/ user[u].link = l)
  /\ Begin(c, [Idle EXCEPT !.op = "reset", !.pc = "write", !.user = u, !.link = l])

\* A company registers, with its first administrator.
BeginCompany(c, n, e) ==
  /\ ~NameTaken(n)
  /\ Begin(c, [Idle EXCEPT !.op = "company", !.pc = "email", !.to = n, !.email = e,
                           !.role = "admin"])

\* The company is the one in the token of administrator a; the age of the
\* new user is checked before the next query.
BeginJoin(c, a, e, r) ==
  /\ MayAdminister(a) /\ tenant[user[a].tenant].state = "present"
  /\ Begin(c, [Idle EXCEPT !.op = "join", !.pc = "email", !.tenant = user[a].tenant,
                           !.email = e, !.role = r])

\* None leaves a column alone.  A department is looked up before the write.
BeginUpdate(c, a, u, e, r) ==
  /\ MayAdminister(a) /\ user[u].state = "active" /\ user[u].tenant = user[a].tenant
  /\ Begin(c, [Idle EXCEPT !.op = "update", !.pc = "write", !.user = u,
                           !.email = e, !.role = r])

\* Whoever is found first by the given names.
BeginRemove(c, a, u) ==
  /\ MayAdminister(a) /\ user[u].state = "active" /\ user[u].tenant = user[a].tenant
  /\ Begin(c, [Idle EXCEPT !.op = "remove", !.pc = "write", !.user = u])

BeginFound(c, a, n) ==
  /\ MayAdminister(a) /\ ~NameTaken(n)
  /\ Begin(c, [Idle EXCEPT !.op = "found", !.pc = "create", !.to = n])

BeginRename(c, a, n, to) ==
  /\ MayAdminister(a) /\ NameTaken(n)
  /\ Begin(c, [Idle EXCEPT !.op = "rename", !.pc = "write", !.where = n, !.to = to])

\* The row is deleted by the id found.
BeginDissolve(c, a, w) ==
  /\ MayAdminister(a) /\ tenant[w].state = "present"
  /\ Begin(c, [Idle EXCEPT !.op = "dissolve", !.pc = "write", !.tenant = w])

-----------------------------------------------------------------------------
(* Sessions. *)

Goto(c, pc) == call' = [call EXCEPT ![c].pc = pc]

End(c) == call' = [call EXCEPT ![c] = Idle]

FindRow(c) ==
  LET t == call[c].token IN
  /\ call[c].pc = "row"
  /\ call' = [call EXCEPT ![c] =
       IF holder[t] = None THEN Idle
       ELSE [@ EXCEPT !.pc = IF t \in expired THEN "drop" ELSE "owner", !.user = holder[t]]]
  /\ UNCHANGED <<tables, blacklist, access, started>>

FindOwner(c) ==
  LET u == call[c].user IN
  /\ call[c].pc = "owner"
  /\ call' = [call EXCEPT ![c] =
       IF ~Exists(u) THEN Idle ELSE [@ EXCEPT !.pc = "delete", !.role = user[u].role]]
  /\ UNCHANGED <<tables, blacklist, access, started>>

\* Variant: a token that is gone already is no error.
DeleteMany(c) ==
  /\ call[c].pc \in {"drop", "delete"}
  /\ holder' = [holder EXCEPT ![call[c].token] = None]
  /\ expired' = expired \ {call[c].token}
  /\ IF call[c].op = "refresh" /\ call[c].pc = "delete" THEN Goto(c, "mark") ELSE End(c)
  /\ UNCHANGED <<tenant, user, blacklist, access, started, root, mailed, issued, spent>>

\* A token that is gone already is an error.
Delete(c) ==
  LET t == call[c].token IN
  /\ call[c].pc \in {"drop", "delete"}
  /\ holder' = [holder EXCEPT ![t] = None]
  /\ expired' = expired \ {t}
  /\ IF holder[t] # None /\ call[c].op = "refresh" /\ call[c].pc = "delete"
       THEN Goto(c, "mark") ELSE End(c)
  /\ UNCHANGED <<tenant, user, blacklist, access, started, root, mailed, issued, spent>>

Mark(c) ==
  /\ call[c].pc = "mark"
  /\ \/ blacklist' = blacklist \cup {call[c].token}
     \/ RedisFails /\ UNCHANGED blacklist
  /\ Goto(c, "mint")
  /\ UNCHANGED <<tables, access, started>>

\* Both tokens carry what the call read of the user.
Mint(c) ==
  LET u == call[c].user IN
  /\ call[c].pc = "mint" /\ Exists(u)
  /\ \E t \in Next1(issued, Tokens) :
       /\ holder' = [holder EXCEPT ![t] = u]
       /\ root' = [root EXCEPT ![t] = IF call[c].op = "refresh" THEN root[call[c].token] ELSE t]
       /\ issued' = issued \cup {t}
  /\ access' = [access EXCEPT ![u] = @ \cup {call[c].role}]
  /\ End(c)
  /\ UNCHANGED <<tenant, user, expired, blacklist, started, mailed, spent>>

ExpireToken(t) ==
  /\ holder[t] # None
  /\ expired' = expired \cup {t}
  /\ UNCHANGED <<tenant, user, holder, blacklist, access, call, started, root, mailed, issued, spent>>

ForgetMark(t) ==
  /\ t \in blacklist
  /\ blacklist' = blacklist \ {t}
  /\ UNCHANGED <<tables, access, call, started>>

ExpireAccess(u, r) ==
  /\ r \in access[u]
  /\ access' = [access EXCEPT ![u] = @ \ {r}]
  /\ UNCHANGED <<tables, blacklist, call, started>>

-----------------------------------------------------------------------------
(* Passwords. *)

\* Variant: the link stays valid.
ResetOnly(c) ==
  /\ call[c].pc = "write" /\ call[c].op = "reset" /\ Exists(call[c].user)
  /\ spent' = spent \cup ({call[c].link} \ {None})
  /\ End(c)
  /\ UNCHANGED <<tenant, user, holder, expired, blacklist, access, started, root, mailed, issued>>

Reset(c) ==
  /\ call[c].pc = "write" /\ call[c].op = "reset" /\ Exists(call[c].user)
  /\ user' = [user EXCEPT ![call[c].user].link = None]
  /\ spent' = spent \cup ({call[c].link} \ {None})
  /\ End(c)
  /\ UNCHANGED <<tenant, holder, expired, blacklist, access, started, root, mailed, issued>>

Change(c) ==
  /\ call[c].pc = "write" /\ call[c].op = "change" /\ Exists(call[c].user)
  /\ user' = [user EXCEPT ![call[c].user].link = None]
  /\ End(c)
  /\ UNCHANGED <<tenant, holder, expired, blacklist, access, started, root, mailed, issued, spent>>

Forgot(c) ==
  /\ call[c].pc = "write" /\ call[c].op = "forgot" /\ Exists(call[c].user)
  /\ \E l \in Next1(mailed, Links) :
       /\ user' = [user EXCEPT ![call[c].user].link = l]
       /\ mailed' = mailed \cup {l}
  /\ End(c)
  /\ UNCHANGED <<tenant, holder, expired, blacklist, access, started, root, issued, spent>>

-----------------------------------------------------------------------------
(* Companies and their users. *)

\* Joining looks for the e-mail in the company, registering a company anywhere.
FindEmail(c) ==
  /\ call[c].pc = "email"
  /\ IF \E u \in Users : /\ Exists(u) /\ user[u].email = call[c].email
                         /\ call[c].op = "join" => user[u].tenant = call[c].tenant
       THEN End(c) ELSE Goto(c, "create")
  /\ UNCHANGED <<tables, blacklist, access, started>>

NewRow(w, e, r) ==
  [state |-> "active", email |-> e, tenant |-> w, role |-> r, link |-> None]

Join(c) ==
  LET w == call[c].tenant IN
  /\ call[c].pc = "create" /\ call[c].op = "join"
  /\ tenant[w].state = "present" /\ ~EmailTaken(call[c].email)
  /\ \E u \in NewUser : user' = [user EXCEPT ![u] = NewRow(w, call[c].email, call[c].role)]
  /\ End(c)
  /\ UNCHANGED <<tenant, holder, expired, blacklist, access, started, root, mailed, issued, spent>>

\* Variant: no unique index on the e-mail.
CompanyUnchecked(c) ==
  /\ call[c].pc = "create" /\ call[c].op = "company" /\ ~NameTaken(call[c].to)
  /\ \E w \in NewTenant, u \in NewUser :
       /\ tenant' = [tenant EXCEPT ![w] = [state |-> "present", name |-> call[c].to]]
       /\ user' = [user EXCEPT ![u] = NewRow(w, call[c].email, "admin")]
       /\ call' = [call EXCEPT ![c].pc = "mint", ![c].user = u]
  /\ UNCHANGED <<holder, expired, blacklist, access, started, root, mailed, issued, spent>>

\* One statement inserts the company and its administrator.
Company(c) ==
  /\ call[c].pc = "create" /\ call[c].op = "company"
  /\ ~NameTaken(call[c].to) /\ ~EmailTaken(call[c].email)
  /\ \E w \in NewTenant, u \in NewUser :
       /\ tenant' = [tenant EXCEPT ![w] = [state |-> "present", name |-> call[c].to]]
       /\ user' = [user EXCEPT ![u] = NewRow(w, call[c].email, "admin")]
       /\ call' = [call EXCEPT ![c].pc = "mint", ![c].user = u]
  /\ UNCHANGED <<holder, expired, blacklist, access, started, root, mailed, issued, spent>>

Found(c) ==
  /\ call[c].pc = "create" /\ call[c].op = "found" /\ ~NameTaken(call[c].to)
  /\ \E w \in NewTenant :
       tenant' = [tenant EXCEPT ![w] = [state |-> "present", name |-> call[c].to]]
  /\ End(c)
  /\ UNCHANGED <<user, holder, expired, blacklist, access, started, root, mailed, issued, spent>>

\* Whichever company bears the name when the row is updated.
Rename(c) ==
  /\ call[c].pc = "write" /\ call[c].op = "rename"
  /\ call[c].to = call[c].where \/ ~NameTaken(call[c].to)
  /\ \E w \in Tenants :
       /\ tenant[w].state = "present" /\ tenant[w].name = call[c].where
       /\ tenant' = [tenant EXCEPT ![w].name = call[c].to]
  /\ End(c)
  /\ UNCHANGED <<user, holder, expired, blacklist, access, started, root, mailed, issued, spent>>

Update(c) ==
  LET u == call[c].user IN
  LET e == IF call[c].email = None THEN user[u].email ELSE call[c].email IN
  /\ call[c].pc = "write" /\ call[c].op = "update" /\ Exists(u)
  /\ e = user[u].email \/ ~EmailTaken(e)
  /\ user' = [user EXCEPT ![u].email = e,
                          ![u].role = IF call[c].role = None THEN @ ELSE call[c].role]
  /\ End(c)
  /\ UNCHANGED <<tenant, holder, expired, blacklist, access, started, root, mailed, issued, spent>>

\* offboardedAt is set; the tokens of the user stay.
Remove(c) ==
  /\ call[c].pc = "write" /\ call[c].op = "remove" /\ Exists(call[c].user)
  /\ user' = [user EXCEPT ![call[c].user].state = "offboarded"]
  /\ End(c)
  /\ UNCHANGED <<tenant, holder, expired, blacklist, access, started, root, mailed, issued, spent>>

Members(gone) == {u \in Users : Exists(u) /\ user[u].tenant \in gone}

\* Variant: the deletion does not reach the refresh tokens.
DeleteUsersOnly(gone) ==
  /\ tenant' = [w \in Tenants |->
       IF w \in gone THEN [tenant[w] EXCEPT !.state = "removed"] ELSE tenant[w]]
  /\ user' = [u \in Users |->
       IF u \in Members(gone) THEN [user[u] EXCEPT !.state = "removed", !.link = None]
       ELSE user[u]]
  /\ UNCHANGED <<holder, expired>>

\* The deletion of companies reaches their users and the tokens of these.
DeleteTenants(gone) ==
  /\ tenant' = [w \in Tenants |->
       IF w \in gone THEN [tenant[w] EXCEPT !.state = "removed"] ELSE tenant[w]]
  /\ user' = [u \in Users |->
       IF u \in Members(gone) THEN [user[u] EXCEPT !.state = "removed", !.link = None]
       ELSE user[u]]
  /\ holder' = [t \in Tokens |-> IF holder[t] \in Members(gone) THEN None ELSE holder[t]]
  /\ expired' = {t \in expired : holder[t] \notin Members(gone)}

Dissolve(c) ==
  /\ call[c].pc = "write" /\ call[c].op = "dissolve"
  /\ tenant[call[c].tenant].state = "present"
  /\ DeleteTenants({call[c].tenant})
  /\ End(c)
  /\ UNCHANGED <<blacklist, access, started, root, mailed, issued, spent>>

DissolveAll(a) ==
  /\ MayAdminister(a)
  /\ DeleteTenants({w \in Tenants : tenant[w].state = "present"})
  /\ UNCHANGED <<blacklist, access, call, started, root, mailed, issued, spent>>

-----------------------------------------------------------------------------
\* Why the write of a call is refused: its row is gone, or a foreign key or a
\* unique column would be violated.
Refused(k) ==
  \/ k.user # None /\ ~Exists(k.user)
  \/ k.tenant # None /\ tenant[k.tenant].state # "present"
  \/ k.op = "rename" /\ ~NameTaken(k.where)
  \/ k.to # None /\ k.to # k.where /\ NameTaken(k.to)
  \/ k.email # None /\ EmailTaken(k.email) /\ ~(k.user # None /\ user[k.user].email = k.email)

Refuse(c) ==
  /\ \/ call[c].pc \in {"create", "write"} /\ Refused(call[c])
     \/ call[c].pc = "mint" /\ ~Exists(call[c].user)
  /\ End(c)
  /\ UNCHANGED <<tables, blacklist, access, started>>

\* A query fails or the process stops.
Fail(c) ==
  /\ CallsFail /\ call[c].pc # "idle"
  /\ End(c)
  /\ UNCHANGED <<tables, blacklist, access, started>>

Arrive(c) ==
  \/ \E u \in Users : BeginLogin(c, u) \/ BeginChange(c, u) \/ BeginForgot(c, u)
  \/ \E u \in Users, l \in {None} \cup Links : BeginReset(c, u, l)
  \/ \E t \in Tokens : BeginLogout(c, t) \/ BeginRefresh(c, t)
  \/ \E n \in Names, e \in Emails : BeginCompany(c, n, e)
  \/ \E a \in Users :
       \/ \E e \in Emails, r \in Roles : BeginJoin(c, a, e, r)
       \/ \E u \in Users, e \in {None} \cup Emails, r \in {None} \cup Roles : BeginUpdate(c, a, u, e, r)
       \/ \E u \in Users : BeginRemove(c, a, u)
       \/ \E n \in Names : BeginFound(c, a, n) \/ (\E to \in Names : BeginRename(c, a, n, to))
       \/ \E w \in Tenants : BeginDissolve(c, a, w)

Proceed(c) ==
  \/ FindRow(c) \/ FindOwner(c) \/ Delete(c) \/ Mark(c) \/ Mint(c)
  \/ Reset(c) \/ Change(c) \/ Forgot(c)
  \/ FindEmail(c) \/ Join(c) \/ Company(c) \/ Found(c) \/ Rename(c)
  \/ Update(c) \/ Remove(c) \/ Dissolve(c) \/ Refuse(c)

Next ==
  \/ \E c \in Calls : Arrive(c) \/ Proceed(c) \/ Fail(c)
  \/ \E t \in Tokens : ExpireToken(t) \/ ForgetMark(t)
  \/ \E u \in Users, r \in Roles : ExpireAccess(u, r)
  \/ \E a \in Users : DissolveAll(a)

Spec == Init /\ [][Next]_vars

-----------------------------------------------------------------------------
(* The types of the state.  However deletions interleave with logins and   *)
(* registrations, users belong to a company that is there, and stored      *)
(* refresh tokens to a user that is there.                                 *)
TypeOK ==
  /\ tenant \in [Tenants -> TenantRow] /\ user \in [Users -> UserRow]
  /\ holder \in [Tokens -> {None} \cup Users] /\ root \in [Tokens -> Tokens]
  /\ access \in [Users -> SUBSET Roles] /\ call \in [Calls -> CallRecord]
  /\ started \in 0 .. MaxStarted
  /\ blacklist \cup expired \cup issued \subseteq Tokens
  /\ mailed \cup spent \subseteq Links
  /\ \A u \in Users : Exists(u) => user[u].tenant \in Tenants /\ tenant[user[u].tenant].state = "present"
  /\ \A t \in Tokens : holder[t] # None => Exists(holder[t])

(* An e-mail identifies a user and a name a company, however registrations *)
(* and updates that both found them free overlap.                          *)
OneAccountPerEmail ==
  /\ \A u, v \in Users : Exists(u) /\ Exists(v) /\ user[u].email = user[v].email => u = v
  /\ \A v, w \in Tenants :
       tenant[v].state = "present" /\ tenant[w].state = "present" /\ tenant[v].name = tenant[w].name
         => v = w

(* A link that a password was reset with is no user's any more, whatever   *)
(* resets and requests for other links overlap: no request that arrives    *)
(* afterwards finds anybody by it.  (Two that looked it up before either   *)
(* cleared it both set a password: the link itself is not one-time.)       *)
SpentLinksAreDead == \A u \in Users : user[u].link \notin spent

(* The sessions as users understand them.  A session's valid tokens are    *)
(* its rows; it is being renewed between the delete and the insert.        *)
Valid == [f \in Tokens |-> {t \in Tokens : holder[t] # None /\ root[t] = f}]

Renewing ==
  {root[call[c].token] : c \in {d \in Calls : call[d].op = "refresh" /\ call[d].pc \in {"mark", "mint"}}}

Sessions == INSTANCE RefreshSessions WITH
  Tokens <- Tokens, valid <- Valid, renewing <- Renewing, issued <- issued

(* A refresh token is exchanged at most once and a session never has two   *)
(* valid tokens, however refreshes, logouts, expiries, removals and        *)
(* crashes overlap.                                                        *)
SessionsImplemented == Sessions!Spec
=============================================================================
