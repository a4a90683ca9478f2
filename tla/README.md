# Verification of the leave-management backend

TLA+ models, model-checking runs and machine-checked proofs for the API and the
worker of this repository: requests for leave, their approval chain, the balance
they draw on, the notifications they cause, the pages that show them, and the
accounts behind them. Line numbers below are those of the files under `src/`.

## 1. The system

Two processes share a MySQL database and Redis. The **API** (NestJS, CQRS: one
handler per command) serves HTTP calls; the **worker** runs cron jobs and the
BullMQ queue `leave-requests`. Node runs one thing at a time, but every `await`
lets other calls in, and several API processes may run.

| component | state it keeps | operations | speaks to |
| --- | --- | --- | --- |
| leave request commands (`modules/leave-request/cqrs/handlers`) | `leave_requests` rows: status and approver columns; comments | submit, team-lead comment, department approval, HR approval, reject, cancel, add comment | routing, authorisation, balance, queue |
| routing and review authorisation (`services/leave-approval-routing`, `leave-review-authorization`, `guards/roles.guard`) | none (reads users, tenant, the token) | where a request enters the chain, who may act | users, tenant |
| request queries | none | list, get, pending approvals, approval card | the access token, requests, users, tenant |
| leave balance (`services/leave-balance`, `modules/leave-balance`) | `leave_balance_ledger` rows; no stored balance | reserve, confirm, release, show | requests, scheduler |
| accrual scheduler (`apps/worker/src/leave-accrual.scheduler.ts`) | none of its own | monthly, yearly, year-end carry-over, development seed | ledger, policies |
| notification pipeline (queue, processor, dispatcher, `notify-*` handlers) | jobs in Redis; `notifications` rows | add, run, retry, tell | users, mail |
| authentication (`modules/auth`) | refresh tokens (stored as they are), reset token and password of a user; JWTs outside | login, refresh, logout, change/forgot/reset password, registration | users, mail |
| users, departments, tenant | role, department, `offboardedAt`; departments; `hrDepartmentId` | update, remove, restore | everything above |
| leave policies (`modules/LeaveTypeConfiguration`) | policies, their departments; a Redis cache of the lists | create, update, toggle, remove, list | cache |
| birthdays, in-app inbox (`modules/birthday`, `modules/leave-notification/in-app-notification`) | `notifications` rows | send the day's messages, list, mark one or all as read | users |
| dashboard, calendar, holidays (`modules/dashboard`, `modules/calendar`) | none | counts, conflicts, absences, trend; leave and holidays of a month | requests, users, departments |
| audit, mail, health, sentry tunnel | mostly none | one insert and a query, one e-mail, forwarding | |

What is hard in it:

* **Every command reads, awaits, then writes by id.** The status is checked on a
  row read before the authorisation queries; the transaction does not check it
  again. Two calls on one request interleave freely.
* **The balance is a sum** that readers compute without a lock, and they do not
  all sum the same rows.
* **The queue is filled after the commit**, in another store, and jobs are
  retried as a whole.
* **The organisation changes meanwhile**: roles, departments and the HR pointer
  are read when needed, the token's role was read long before, and removing a
  department or a policy deletes requests under running calls.
* **Lists are cached for five minutes**, and commands that change policies read
  through the same cache.
* **Tokens outlive what they were made from**: a call mints them for a user it
  read awaits ago, two calls may use one token at once, and queries take role and
  department from a token whose user may have moved.
* **A cron job may overlap itself**: it looks for what it did before it does it.

`PROJECT.json` lists every hazard at its line, with the properties that would
notice it going wrong.

What makes each component correct, in one sentence each: a request goes through
its stages in order, each decided by somebody entitled who is not its owner;
a decision is final; the ledger agrees with the decision; a balance is never
overdrawn, nor carried above its maximum by an accrual; everyone who has to act is told, once, and no
job stays in the queue; a refresh token is exchanged once, and nobody is found by a
reset link that was used; a policy list never
outlives a change by more than its time to live; whoever has to act finds the
request in every list; queries that count the same thing give the same number; a
birthday is told to every colleague and not again by the next run.

## 2. The modules

| module | models |
| --- | --- |
| `LeaveRouting` | the tables of the approval chain, as operators of a status and a role; shared by the others |
| `LeaveLifecycle` | abstract: what the commands promise, each a single atomic step on (status, ledger row) |
| `LeaveRequestWorkflow` | the commands as they run: calls with a program counter, the organisation around them, the queue they fill |
| `LeaveRequestWorkflow_proofs` | theorems about `LeaveRequestWorkflow` and `LeaveVisibility`; without overlapping calls it implements `LeaveLifecycle` |
| `LeaveVisibility` | what the request queries and the approval card show, as operators on the state of the workflow and the access token they come with |
| `LeaveBalance` | the ledger of one employee under one policy: reservations, scheduler jobs, removals, the balance page, the calendar |
| `LeaveBalance_proofs` | theorems about `LeaveBalance`, and about sums over a finite set |
| `LeaveNotification` | the queue, the worker's slots, the handlers' lookups and recipients |
| `LeaveNotification_proofs` | theorems about `LeaveNotification` |
| `LeavePolicyCache` | leave policies, the Redis cache their queries read through, and departments coming and going |
| `LeavePolicyCache_proofs` | theorems about `LeavePolicyCache` |
| `LeaveDashboards` | the cards and charts that count requests; requests move as in `LeaveLifecycle`, with dates |
| `LeaveDashboards_proofs` | theorems about `LeaveLifecycle` and `LeaveDashboards` |
| `GhanaHolidays` | the public holidays of a month |
| `GhanaHolidays_proofs` | the holidays are right in every year |
| `BirthdayInbox` | the birthday runs of one tenant and the inbox they write to |
| `BirthdayInbox_proofs` | theorems about `BirthdayInbox` |
| `RefreshSessions` | abstract: what refresh tokens promise |
| `Accounts` | companies, users and their credentials: every route of authentication, users and tenant that changes them |
| `Accounts_proofs` | theorems about `Accounts`; it implements `RefreshSessions` |
| `MC*` | the small organisations, policies and job sets for TLC |

`LeaveRequestWorkflow` and `LeaveBalance` look at the same ledger from two
sides. The first keeps one row per request and nothing of its amount, and asks
whether row and status agree. The second keeps amounts and dates and lets a row
be confirmed or released whenever it is pending, which includes what the first
shows the commands to do. `LeaveNotification` likewise takes the jobs that the
workflow adds, in any order. All three share `LeaveRouting`, and
`LeaveNotification` compares who is told with who passes the workflow's checks. `LeaveVisibility`
extends the workflow, so that the lists are compared with the checks in every
state that interleaved calls and reorganisations reach. `LeaveDashboards` extends
`LeaveLifecycle` instead: counting needs dates and months, not the calls.

### LeaveRequestWorkflow

A *call* is one HTTP request in flight. Its program counter names the await it
will resume from:

```
idle --Begin*--> authorize --Authorize--> (scope --HrScope-->) write --write--> enqueue --Enqueue--> idle
```

`Begin*` is the roles guard, the handler's first reads and its status check;
`submit` and `cancel` have no authorisation query and go to `write`. `Authorize`
reads the actor, `HrScope` the tenant (only for an HR admin). `write` is the
handler's transaction, one step because it holds the request's row lock from its
first update; it includes the ledger update the handler makes in it. `Enqueue`
adds the notification job. A call refused at its first step changes nothing and
is left out; `Refuse` ends one refused later, `Crash` ends one anywhere.

| variable | column |
| --- | --- |
| `status`, `owner`, `home`, `stamp` | `leave_requests.status`, `userId`, `departmentId`, the four approver columns (a stamp's date is written with it) |
| `ledger` | the request's `leave_balance_ledger` row: none, `isPending`, confirmed |
| `comments` | `leave_request_comments`, as <<request, author>> |
| `jobs` | job ids ever added to the queue |
| `role`, `dept`, `departments`, `hrDept` | users, departments, `tenant.hrDepartmentId` |
| `tokens` | role and department inside the access tokens issued to a user (a token outlives a change of either; that it expires only forbids more) |

Not distinguished: the policy, date and balance checks of `submit` (they refuse
without effect; `LeaveBalance` has the last one), the text of comments,
`Department.isActive` (no handler clears it), a second tenant (every query
filters by tenant). A deleted request keeps its last column values, which
nothing reads.

### LeaveBalance

Credits and expiries count from the day they are written, so `credited` and
`expired` are their sums; `row` is the deduction of each request with its length
and first day. `Usable` is the sum `reserve` and every job compute. A reservation
is a sum (`BeginReserve`) and an insert (`FinishReserve`): both are in one
transaction, but the sum takes no lock. A scheduler job is a sum (`BeginAccrual`,
`BeginDevSeed`, `BeginCarryOver`) and one or two inserts (`InsertCredit`,
`InsertExpiry`), and may fail after any of them. The balance page is three sums,
awaited one after the other (`ReadAccrued`, `ReadUsed`, `ReadPending`). A removed
department takes the requests made in it and their rows with it, confirmed ones
included (`RemoveDepartment`); a removed policy takes all (`RemovePolicy`). Amounts
are natural numbers (half days); jobs run on any day, so the cron expressions are
not modelled. The policy row does not change, and the employee is never deleted
(only the removal of the whole company does that). The command handlers of
`modules/leave-balance`, which no other module sends, have the same bodies as the
service.

Three things are history and decide nothing: `overlapped` remembers whether a
request was ever checked while another of the employee was undecided or still to
come; a job's `back` the days that a removed department gave back since its sum;
the page's `most` what could be reserved at its first query, with the days given
back before the second.

### LeaveNotification

A job waits, is taken by a slot under a lock, and its handler runs through its
queries (`fetch`, `requester`, `tenant`, `recipients`) and then tells people one
by one. Only queries throw: the dispatcher catches failures of both channels, so
`told` counts attempts to tell a person. BullMQ is external and modelled from
its options: `attempts`, the lock, and one tolerated stall. A slot that lost its
lock goes on, and its result is ignored.

`MayActOn` is the check of the workflow as the code makes it, in which no
department equals no department. `since` is a history variable: for each job, who
was a reviewer of its stage all the time since it was added, who was one at some
moment, and how often the organisation changed.

### LeavePolicyCache

A call is one HTTP request again. A query goes

```
idle --Begin*--> lookup --Hit--> idle
                 lookup --Missed--> query --Query--> store --Store--> idle
```

and update, toggle and remove start with the query for one policy and go on to
`validate` or `write`. A creation goes through `validate`, `resolve` (only when
no department is named: it becomes the list of those there are), `write` and
`invalidate`, the only step of these handlers that deletes a key. `cache` maps each
key to the rows stored under it; `Expire` may come at any time, so that nothing
is assumed about how 300 seconds relate to the length of a call. A write whose
row is gone or whose department is gone fails as the database makes it fail. The
removal of a department deletes its links (`onDelete: Cascade`). `raced` is a
history variable; it decides nothing.

Left out: the columns nobody filters by, `carryOverLimit` (its check refuses
without effect), the number of employees shown beside a policy, and the HR
pointer, which `LeaveRequestWorkflow` has. A query and its includes are one step,
though Prisma may send two statements. The requests that a removal of a policy
deletes are in the other modules (`RemovePolicy`).

### Accounts

A call is one HTTP request; its first query is the step that starts it, and `pc`
the await it resumes from. A refresh is the longest:

```
idle --BeginRefresh--> row --FindRow--> owner --FindOwner--> delete --Delete--> mark --Mark--> mint --Mint--> idle
```

(an expired row goes to `drop` and ends). Login starts at `mint`; a logout deletes
its token; the others are one look-up and one write, with a second look-up for
registrations. `Delete` fails for a token that is gone, as Prisma's `delete` does,
and that decides who wins when two calls use one token. The unique indexes on
e-mails and company names are guards of the writes (`Refused` is their error).
`blacklist` is Redis, whose errors the service swallows (`RedisFails`), and whose
keys may expire at any time. Companies are deleted with their users and tokens.

A reset looks its user up by a field of the body that nothing validates: a
request without it finds any user (`BeginReset` with no link).

A password only matches or does not; signatures, the age of new users and the
columns nobody decides upon are left out. `root`, `issued` and `spent` are
history variables.

### BirthdayInbox

A run reads the birthdays of seven days (`Start`), then the recipients
(`Recipients`), and for each pair looks for the day's message (`Find`) before it
inserts one (`Insert`). Errors and crashes are bounded by `MaxFailures`. The pairs
are worked off in any order. A row's `copy` only tells equal rows apart.

### LeaveVisibility, LeaveDashboards, GhanaHolidays

Queries change nothing, so they are operators named for their handler or card:
`ListAll`, `PendingApprovals`, `Card`, `Calendar`, `Conflicts`, ... Those of
`LeaveVisibility` take the access token the query comes with, any the user was ever
issued. Only the stats card is made of steps (`StartReport`, `CountPending`,
`CountApproved`), because its counts are separate queries with writes between
them; `report` keeps the sets they counted, and what was written since the first.
Dates are days, and whether a request begins at midnight or later (`late`):
`submit` stores what it is sent, and the conflict scan, alone of the queries,
compares it with midnights. Server and stored dates are taken to be in one time
zone. `GhanaHolidays` walks through the months of years; its state is the page
being shown.

## 3. What is checked

All properties are defined at the end of their module, each with the code
behaviour it is about.

| run | question | bounds |
| --- | --- | --- |
| `overlapping_calls` | do two calls that interleave at every await leave only stamps of people entitled to them, nobody deciding on their own request, every stage announced, and a card that makes sense? | 6 users (an employee, two team leads in two departments, head, HR admin, tenant admin), 1 request, 2 calls, fixed organisation, no failing call |
| `reorganisation` | when calls overlap, die half-way and the organisation changes: is no stage skipped, no decided request left with a reservation, no deduction unapproved, no row revived, no job ahead of its commit? do reviewers with a token that agrees with their row find their work, and do the queries agree for every token? | 2 users, 1 request, 2 calls (symmetric), 1 organisation change; any user may get any role, so two users play all parts |
| `one_call_at_a_time` | without overlap, do the handlers implement `LeaveLifecycle`, and does the balance agree with the status? | 4 users, 1 request, 1 call that may die, 1 organisation change |
| `balance_bounds` | does an accrual end above the maximum only by days given back while it ran, are requests made one after the other covered, and does the balance page, whatever comes between its sums, show no more than could be reserved when it began? | 2 requests of 0 to 2 half days, 3 days, 3 job runs or page views, 12 policies (3 accruals, 4 carry-overs; rate 2, maximum 3, limit 2), departments and the policy removed at any time |
| `notifications` | do retries spare the reviewers, does every job settle, and are all told who may act throughout, and nobody who never might, when the organisation changes before, after or between the reads of a job? | 1 job out of 4 (two kinds of stage, an employee's and an HR admin's request), 2 slots, 2 attempts, 1 stall, 1 organisation change |
| `policies` | do links stay valid, do the lists offered fit the department, is a new policy listed, and does the cache agree with the database in the end? | 2 calls, 1 policy (there from the start or created), 2 departments, users of one department asking, 2 commands or department changes, Redis and calls may fail |
| `accounts` | is a refresh token exchanged once, do e-mails and names stay unique, are spent reset links dead, and do rows keep their parents, when any two routes overlap, die, and Redis fails? | 2 users, 2 companies, 2 e-mails, 2 names, 3 tokens, 2 links, 2 calls at a time, 4 in all; an empty database |
| `inbox` | is every birthday told, at most once per overlapping run, and flagged on its day, over the end of a year? | 2 users, 2 overlapping runs, 31 December and 1 January, birthdays on 1 and 8 January, 1 failure |
| `dashboards` | do the queries that count absences, conflicts and approvals agree with one another? | 2 users and 4 colleagues in 2 departments, 2 requests of 3 spans (one over a weekend, one over a month and begun late in the day), 3 days, 1 organisation change |
| `holidays` | are Good Friday, Holy Saturday, Easter Monday and Farmers' Day on the right dates and shown in the right month? | every month of 400 years, a whole period of the Gregorian calendar; the reference is the ecclesiastical full moon |

One request is enough in the workflow because calls about different requests
share nothing but the organisation, which changes by itself. Two calls are
enough for the step properties, as one call's stale read and another's write is
what breaks them; the theorems below cover any number. Two scheduler runs more
than the first (three in all) reach a cut credit, a year end, and an accrual
after it; the rate does not divide the maximum, so that a credit is cut. Two
attempts show one retry and the giving up. Commands on different policies meet
only in the lists, so one policy is enough, and two calls make every race of a
read with a write. Four calls about accounts are a registration, a second one (or
a login), and two that use what these made: every pair of routes meets, though
not every history of five. Two days at the end of a year have both the turn of
the year and a run that goes on past midnight. A department of five with one
person away is just at the limit of a fifth, and two people away are above.

**Fairness.** `FairSpec` assumes weak fairness of each call's own steps: Node
resumes a handler whose await is done. Nobody is assumed to send a request or to
decide. In `LeaveNotification` the slots keep polling and the queue keeps
looking for stalled jobs (weak fairness of `Work` and `Stall`); adding jobs,
failing, dying and reorganising are never assumed. In `LeavePolicyCache` a call
goes on and an entry expires, because every `set` has a time to live. In `BirthdayInbox` the clock starts runs and a
run that was started goes on; the day may still end before, so the promise ends
with it. `Accounts`, `LeaveDashboards` and `GhanaHolidays` state no fairness.

**Refinement.** `one_call_at_a_time` checks `LeaveRequestWorkflow` against
`LeaveLifecycle` (status and ledger row, through the mapping `Lifecycle`), and
`accounts` checks `Accounts` against `RefreshSessions` (the rows of a session are
its valid tokens; it is being renewed between the delete and the insert).

**Deadlock** is checked in the workflow, the policies and the inbox; elsewhere it
is not, because a bounded calendar, an empty queue and the bound on calls are
proper ends.

### Disagreements with the documentation

| run | what happens | what the repository says |
| --- | --- | --- |
| `decision_overwritten` | approval and cancellation overlap: APPROVED with nothing deducted, or CANCELLED with the deduction kept | `audit-action.enum.ts:12-13` "deducted on HR approval", "restored on rejection/cancel" |
| `carry_over_doubled` | a Limited year end leaves twice the carried days | `create-leave-policy.dto.ts:61` "Max days that can be carried over" |

Also met, all of them behaviours of the models, and not given runs of their own.

Requests and routing:

* a call that read the request before its rejection writes its own status over
  it (`rejection.e2e-spec.ts:155` "should stop the workflow immediately after
  rejection"; the same race as `decision_overwritten`);
* two team leads may both comment on a stage (`routing.e2e-spec.ts:74` "any one of
  them may act — but only once");
* a reviewer who was moved may decide, by the user row the commands read, requests
  that the pending list does not show, by the token it reads
  (`pending-approvals.controller.ts:25-27` "requests awaiting my review"); hence
  `ReviewersFindTheirWork` asks for a token that agrees with the row;
* `rejection.e2e-spec.ts:121` expects a tenant admin to be able to reject an
  employee's request at DEPT_APPROVED, which the handler leaves to HR;
* `submit` never stores `isHalfDay`; `waitingPeriodDays` is never enforced;
* the list of a reviewer without a department is that of the whole tenant
  ("dept-scoped for non-HR roles"); the calendar decides on scope by the role alone,
  the lists by role and department;
* the card of a request that HR rejects after the department approved names the
  department as the stage that rejected it (`CardsAreCoherent` says so);
* `ConflictDetectionService.detect` is registered and never called, so nobody is
  warned; conflicts count requests, and who holds two for a day counts twice;
* leave that begins during a day is an absence of that day on every card, but the
  scan, which looks at midnight, misses it (`tenant-conflict-scan.service.ts:6-7`
  "departments currently breaching the 20% off-at-once threshold"); hence "by
  midnight" in `ConflictsCountPeople`.

Balance and jobs:

* an approved leave of a later date does not lower what may be reserved
  (`get-my-leave-balances.handler.ts:44` "still consume balance now", against
  `leave-balance.service.ts:22`);
* leave approved between the second and the third sum of the balance page is in
  neither (`get-my-leave-balances.handler.ts:43-44` "still consume balance now",
  `:56` "not yet HR-approved"); hence `ShownWasSpendable` looks back to the first sum;
* a removed department deletes the deductions of leave already taken, and a balance
  that was filled up after it is then above the maximum
  (`create-leave-policy.dto.ts:48` "Maximum leave balance an employee can hold in
  days"); hence the days given back in `CreditsKeepToTheMaximum`;
* `runMonthlyAccruals` is scheduled every six months; a OneTime policy is credited
  by nothing but the development seed;
* the birthday job runs every ten seconds (its daily expression is commented out),
  and overlapping runs send a message twice although the look-up "prevents
  duplicates"; somebody born on 29 February is listed on 1 March in a common year.

Notifications:

* when the HR department is removed nobody is told of the HR stage, and an HR admin
  left without a department may approve it, null being null
  (`notify-dept-approved.handler.ts:91-94` "no one is notified and the request will
  stall"); `WhoeverMayActIsTold` does not count that HR admin as a reviewer;
* `NotifySubmitted` confirms to the employee before its look-ups, so a retry
  confirms again; a failed e-mail is only logged and not retried; five slots may
  run the jobs of one request in another order; users who left are still
  recipients.

Policies: the second toggle within 300 seconds inverts the cached value and
changes nothing (`audit-action.enum.ts:20` "isActive flipped"); removing the last
department of a policy makes it apply to everybody, and a policy created for all
departments leaves out later ones (`create-leave-policy.dto.ts:86` says "means ALL
departments").

Accounts: the handler of `restore-user` is registered in no module, so
`POST /auth/:id/restore` always fails; `users.controller.ts:119` constructs
`RemoveUserCommand` with an e-mail where the id belongs; login and refresh do not look
at `offboardedAt`; two overlapping resets with one link both set a password
(`password-reset.template.ts:19` "one-time token. Once used it will no longer be
valid"), so that `SpentLinksAreDead` speaks of later ones; a link requested between the read and the write of a reset is
wiped by it, and a reset without a link finds a user all the same; the tenant routes ask for a role and
act on the company named, or on all of them.

## 4. What is proved

`LeaveRequestWorkflow_proofs` proves for every set of users, departments,
requests and calls, every initial organisation, with or without failing calls,
and without a bound on reorganisations:

| theorem | property |
| --- | --- |
| `TypeCorrect` | `TypeOK` |
| `NoStageIsSkipped` | `StampsComplete` |
| `DecisionsFreeReservations` | `DecisionFreesReservation` |
| `DeductionsAreApproved` | `DeductionWasApproved` |
| `DeductionsAreKept` | `LedgerMovesForward` |
| `JobsAnnounceCommits` | `JobsFollowCommits` |

They assume only `ConstantsAssumption`. The properties are not inductive alone:
a call that is past its status check will write whatever the row has become, so
the invariant must say what is still true of the row then. The strengthening
(`ChainInv`) says, for each call in flight, that the request it is about carries
the stamps of the stage the call read (stamps are never erased), that the
request exists or was deleted, and, for a call about to enqueue, that its stamp
is there and the reservation is gone. `RowsAdvance` states what no step ever
does to a row, so the evidence of every other call survives a step by one lemma
(`EvidenceStable`). Each property then follows from the invariant, with one step
per action; the temporal step is last.

Two more hold while the organisation stays as it is (`[][OrgSettled]_vars`: no
user changes role or department and the HR pointer stays; departments and
policies may still be removed, tokens still carry old roles from the start):

| theorem | property |
| --- | --- |
| `StampsAreOfEntitledUsers` | `StampsAreAuthorised` |
| `NobodyDecidesTheirOwn` | `OwnersDoNotDecide` |

Without that hypothesis both are false, and meant to be: a stamp does not go away
when its author changes department. The invariant (`AuthInv`) adds to `ChainInv`
what the checks a call has passed say about its actor (`Entitled`): the role its
stage asks for, and past the look-ups the department as well. It survives the
steps of other calls because a request keeps its owner and its department
(`IdentityKept`).

With `OneCall` (any two members of `Calls` are equal) it proves

| theorem | property |
| --- | --- |
| `SerialCallsImplementLifecycle` | `ImplementsLifecycle` |
| `SerialCallsKeepBalance` | `BalanceMatchesStatus` |

The invariant (`AtomicInv`) says that what the call read is `Fresh`: the status
is still the one its command starts from, or the row was deleted, in which case
the transaction is refused. With two calls `Fresh` fails, and that is what
`decision_overwritten` shows. `LeaveDashboards_proofs` shows what is gained: with
atomic commands the ledger agrees with the status (`LedgerAgrees`) and a decision
is final (`DecisionsAreFinal`).

About the queries (`LeaveVisibility`) it proves, for every organisation and every
interleaving,

| theorem | property |
| --- | --- |
| `ReviewersSeeTheirWork` | `ReviewersFindTheirWork` |
| `QueriesAgree` | `ViewsAgree` |

Both follow from the workflow's type invariant: the argument is about filters,
state by state. The first supposes a token that says of the reviewer what the row
says, because the commands read the row and the queries the token: a reviewer's
stage then determines the statuses the pending list and the full list ask for, and
whoever passes the department check of the handlers passes that of the lists, also
where departments and the HR pointer have become null. The second compares the
queries with one another, and holds for any token of a department, however old.

A third, `CardsFitStatus` (`CardsAreCoherent`), is about the interleavings again
and assumes `OrgSettled`: the card reads roles of today beside stamps of then.
It extends `AuthInv` (`CardInv`) by what a late writer leaves alone: a request at a
stage that the role of its owner skips never waits for that stage, nobody is
about to comment on one, and a rejection always finds, or leaves, the stamp of a
stage the card can name.

`LeaveNotification_proofs` proves, for every set of jobs, users and slots and
every number of attempts and stalls, `TypeCorrect` (`TypeOK`) and
`RetriesSpareReviewers` (`ReviewersToldOnce`). The type invariant needs to know
that a waiting or active job has an attempt left, that only an active job is
locked and that a busy slot has a job. For the second theorem
(`RetriesBounded`), count for a reviewer and a job the times the reviewer was
told, the slots that run the job and still have the reviewer ahead of them,
whether they hold the lock or not, and one more if the job is queued: the sum
never exceeds one plus the locks taken away. Taking a job moves the one from the
queue to a slot, an exception moves it back, telling moves it to the reviewer's
count, and only a stall puts the job back in the queue without ending its slot.
It is essential that nothing throws once the first reviewer is told.

`ReviewersAreTold` proves `WhoeverMayActIsTold` for any number of changes of the
organisation. The invariant (`ToldInv`) follows what a slot has found out (`Finds`)
against the history of its job: who was a reviewer at every moment matches what the
slot is going to search for, and once it has its list of recipients is on it or was
told already, perhaps by an earlier attempt. As long as the organisation changed once at most, everybody on the list was
a reviewer at some moment; after two changes the list may mix a role of before with
a department of after, which is why the property stops there. A slot that lost its
lock keeps telling people, so the counts only grow, and completeness is about the
counts and not about one slot.

`LeavePolicyCache_proofs` proves, for every number of policies, departments and
calls, from `ConstantsAssumption` alone,

| theorem | property |
| --- | --- |
| `TypeCorrect` | `TypeOK` (with the links' foreign key) |
| `OffersAreApplicable` | `OffersApply` |
| `CreationsAreListed` | `CreatedIsListed` |

A cached list is only as good as what a call read before storing it, so both
invariants are strengthened by the same statement about calls about to store
(`StoresApply`, `StoresList`). Most steps move only their call (`Quiet`) and are
treated once. For the last theorem, an insertion either meets a list about to be
stored, and is remembered in `raced`, or every such list already has the policy.

`Accounts_proofs` proves, for any number of companies, users, tokens, links and
overlapping calls, from `ConstantsAssumption` alone,

| theorem | property |
| --- | --- |
| `TypeCorrect` | `TypeOK` (with the foreign keys) |
| `AccountsAreUnique` | `OneAccountPerEmail` |
| `SpentLinksStayDead` | `SpentLinksAreDead` |
| `TokensImplementSessions` | `SessionsImplemented` |
| `OneValidToken` | `RefreshSessions!OneTokenPerSession` of the mapped state (a user with two logins has two sessions) |

The type invariant needs `Known`: whoever holds an access token was inserted, and a
row keeps its company. `LinkInv` adds that links are generated once, that no two
users have the same one, and that a call about to reset holds a link of nobody
but its user; then clearing the user's link removes every copy of the one that
was spent. `SessionInv` says that a session has at most one row or one call that
renews it, never both: the call between `Delete` and `Mint` is the only holder of
its session, because the delete of a row that is gone fails. Every step then
opens, closes, begins, finishes or abandons a session, or stutters.

`BirthdayInbox_proofs` proves, for any number of users, overlapping runs, days and
failures and any length of the year,

| theorem | property |
| --- | --- |
| `TypeCorrect` | `TypeOK` |
| `PriorityIsTheDay` | `HighPriorityIsTheDay` |
| `CopiesAreBounded` | `CopiesBounded` |

The second needs the lemma that the next birthday is today exactly if it is this
year's and its day has come, and that runs only know users with a birthday. For
the third (`CountInv`), the messages of a recipient about a birthday on a day and the
runs that looked for it in vain and have not inserted yet are together never
more than the runs: a run joins the second group only while there is no message
at all, an insertion moves one from the second to the first, and marking as read
merges or keeps rows.

`LeaveBalance_proofs` proves, for any number of requests, days, policies and job
runs, from `ConstantsAssumption` alone unless stated,

| theorem | property |
| --- | --- |
| `TypeCorrect` | `TypeOK` (no job credits or expires a negative number) |
| `PageWasSpendable` | `ShownWasSpendable` |
| `SettledRequestsAreNotOverdrawn` | `SettledRequestsAreCovered`, however many jobs overlap |
| `AccrualKeepsToTheMaximum` | `CreditsKeepToTheMaximum`, with `OneJob` (any two members of `Workers` are equal) |

Two jobs that overlap do exceed the maximum, both having summed before either
inserts, hence `OneJob`: in production one cron job credits a policy of a given
kind, at most twice a year, and the year end starts five minutes after it; the
development seed, every thirty seconds, may overlap itself.
A balance is a sum over a finite set (`IsFiniteSet(Requests)` is assumed for it), a fold of the
community modules, and what a fold computes would be proved by induction. It is
proved by a least counterexample instead: among the subsets on which two sums
disagree (or no sum exists) one is minimal, because strict inclusion is well
founded on the subsets of a finite set, and taking its chosen element away gives a
smaller one (`LeastSet`, `SumsAgree`, `SumsExist`). `SumWithout` and `SumSmaller` are
what the rest needs; a balance is then written as a function of the ledger and the
day (`Balance(c, e, f, t)`), so that a step's effect on it is a lemma without primes.
`CapInv` says that a job about to insert still has room for what it inserts: it
saw a balance with room, and apart from what a removed department gives back, which
`back` adds up, the balance only falls meanwhile. `PageInv` says that between the
first two sums of the page what the second would leave stays within `most`, and
after the second that the difference of the two is: requests and jobs move the
credits and the balance together or lower the balance, and the second sum takes off
at least every day the balance is without. `CovInv` says that
while no two requests were open together, the one that is open has its days in
the balance, until they are deducted on the day the leave begins.

`LeaveDashboards_proofs` proves, for any organisation, calendar and length of a month,
(finitely many users and requests are assumed, as the tables have)

| theorem | property |
| --- | --- |
| `DashboardsTypeCorrect` | `DashboardsTypeOK` |
| `CardsAgreeOnAbsences` | `AbsencesAgree` |
| `UpcomingAnnounces` | `AbsencesAreAnnounced` |
| `ConflictsAreRight` | `ConflictsCountPeople` |
| `CardCounts` | `CardCountsOnce` |

That the requests follow the lifecycle (`RequestsMove`) gives their part of the
type invariant; the rest needs in addition that a request begins before it ends.
Months are quotients, so `DivBounds` and `QuotientsInOrder` are all the arithmetic there is.
`ConflictsAreRight` has two halves: where no one has two approved requests for a day,
requests and people are as many (`AsManyPeople`, a bijection), so the scan is right
although it counts requests; and a request it counted is on one of the cards of
absences, which bounds what it can have counted (`AwayIsShown`).
For the last theorem the invariant (`Counted`) says what each count that was taken
found of the requests that were not written since the first: these still have the
status and the date they were counted for, whatever was written to the others.

`GhanaHolidays_proofs` proves `FeastsAreRight` (`MovableFeastsAreRight`) for any range of
years, and the fact behind it, `EasterIsRight`, for every year from the year 1 on; the
run has only the four centuries of one weekday cycle, and the lunar corrections go on
changing after them. The computation is taken apart into the days to the full moon
(`Moon`), from there to a Sunday (`Wait`) and the last correction. `Moon` is the same as what
the epact gives, because the two ways to count the solar and lunar corrections agree
for every century (`LunarCorrection`); 22 March plus both is a Sunday because the weekday
formula is the day number modulo 7 (`WaitEndsOnSunday`); and the last correction takes a
week off exactly where the church's two exceptions move a moon from a Sunday to the
Saturday before it (`Correction`, `PaschalMoonIs`).

Only model-checked: liveness (`StageIsAnnounced`, `JobsSettle`, `Converges`,
`BirthdayIsTold`), which this prover does not do. Every other property of a passing
run is the statement of a theorem.

## 5. Not modelled

* The audit log: no other module writes to it; one insert and a query.
* Mail (templates and one SMTP call; whether a person is told is in
  `LeaveNotification`), the sentry tunnel and the health endpoints: no state.
* `restore-user`: see above, it never runs. The files `auth.service.ts`,
  `users.service.ts` and `leave-policy.service.ts` are commented out as a whole.
* In authentication and users: the passwords themselves, the list and search of
  users; in notifications the counters of the stats route; in the calendar the
  birthdays; in departments the descriptive columns. `Department.isActive` is never
  written.

What could be added: a composition of the scheduler's jobs with requests of several
employees, and one of the workflow with the amounts of the ledger.
