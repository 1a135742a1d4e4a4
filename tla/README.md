# consulting-pm: models, checks and proofs

TLA+ models of the services of this repository, model-checked with TLC and, where a
property matters for every number of requests and rows, proved with TLAPS.

## The system

Seven FastAPI services behind a gateway, each with its own PostgreSQL database; Redis for
rate limiting, event streams and Celery.

| Component | State | Operations | What makes it correct |
|---|---|---|---|
| request sessions (`database.py` of each service) | one open transaction per request | SELECT, assign, commit, close | nothing is written by a request that fails; a commit writes what it changed |
| timelog | `time_entries`, `time_entry_approvals` | create, update, delete, start/stop timer, submit, approve, reject | statuses follow the workflow; the audit trail explains the status |
| billing | `invoices`, `invoice_line_items`, the counters in each process | create, add item, send, pay, void | totals are those of the items, every invoice gets a number of its own, bills are frozen once sent |
| overdue task (Celery) | the invoices its SELECT found; broker queues | beat, select, commit | marks exactly the sent invoices past due, and does run |
| resources | `allocations`, `leave_requests` | create/update/delete allocation, request/approve/reject leave | no user above 100 % on any day; a leave is decided once |
| auth | tokens by family, reset tokens, users, tenants, roles | login, refresh, logout, reset, CRUD | a refresh token works once; a revoked family stays revoked |
| events (`shared/events`) | stream, pending list | publish, read, handle, ack, reclaim | every event is eventually handled |
| gateway | sliding windows in Redis | check, proxy | at most `limit` requests per window |
| request context (middleware, dependencies) | `request.state`, tenant context variable | set, read, clear | a handler sees the caller's own tenant, user and roles |
| projects, attachments | projects, tasks, attachment records, MinIO objects | CRUD, upload in two steps | a confirmed record has its object |
| notifications | notifications, preferences | list, read, delete, get-or-create | one preferences row per user |

Services do not call each other's write paths: a service's state is changed by its own
handlers and tasks only. What is hard is therefore inside each service: handlers are
coroutines of several processes (two uvicorn workers, two replicas) that read a row, check
it, and commit later, with no version column, no row lock and no condition in the UPDATE.
`PROJECT.json` lists the hazards with their lines.

## Modules

| Module | Models | Read it for |
|---|---|---|
| `UnitOfWork` | SQLAlchemy's commit (external) | `Column`: a changed column is written, any other keeps what is committed by then |
| `Timelog` | `services/timelog/app/routers/timelog.py` | all writing handlers, commit and rollback |
| `ApprovalWorkflow` | the workflow the repository's README promises | the abstract specification of `Timelog` |
| `Billing` | `services/billing/app/routers/billing.py`, `tasks/invoice_tasks.py` | invoice handlers, numbering, restarts, the overdue task |
| `OverdueSchedule` | `tasks/celery_app.py` and how the workers are started | the liveness of the overdue task |
| `Resources` | `services/resources/app/routers/resources.py` | allocations with the 100 % guard, leave requests |
| `AuthSessions` | `auth/app/services/auth_service.py`, `repositories/token_repo.py`, `routers/auth.py` | token families, rotation, replay, reset, second factor |
| `Directory` | `auth/app/services/tenant_service.py`, `user_service.py`, routers tenants, users, roles | registration, users and roles under the constraints of the migration |
| `EventBus` | `shared/events/publisher.py`, `consumer.py` | streams, pending entries, acknowledgement, reclaim, faults |
| `RateLimiter` | `gateway/app/rate_limit.py` | the sliding window in Redis, time and expiry |
| `RequestPath` | `gateway/app/main.py`, `proxy.py`, `shared/core/middleware`, `dependencies.py` | gateway, middleware and handler composed, with timeouts |
| `Projects` | `projects/app/repositories/project_repo.py`, routers clients, projects, tasks | five tables with foreign keys; task completion |
| `Attachments` | `projects/app/routers/attachments.py`, `storage.py` | upload in two steps over a table and a bucket |
| `Notifications` | `notifications/app/routers/notifications.py`, `preferences.py` | read flags, get-or-create preferences |
| `MCTimelog`, `MCBilling`, `MCResources`, `MCEventBus` | – | constants, bounds and parts of one module for TLC |
| `MCAuth` | `AuthSessions` and `Directory` side by side | the same |
| `MCGateway` | `RateLimiter` and `RequestPath` side by side | the same |
| `MCContent` | `Projects`, `Attachments` and `Notifications` side by side | the same |
| `TimelogProofs`, `BillingProofs`, `ResourcesProofs`, `AuthProofs`, `EventBusProofs`, `GatewayProofs`, `ContentProofs` | – | theorems about the modules of the run of that name |
| `Induction` | – | induction over the naturals and facts about finite sums, for the proofs |

### How state and actions correspond to the code

A handler that changes a row is two actions. The first (`SubmitEntry`, `AddLineItem`, …)
is the handler up to `await session.commit()`: its guard is the conjunction of the
dependency checks, the SELECT and the early `raise`s, and it leaves in `txn[s]` the row as
read (`seen`) and as assigned (`row`). `Commit(s)` is the commit: the UPDATE goes by primary
key and covers the columns with `row # seen`; INSERTs become visible with it. A request
that raises changes nothing and has no action; one that fails after its checks, is
cancelled or dies with its process is `Rollback(s)`. PostgreSQL runs at READ COMMITTED,
each statement with its own snapshot: `add_line_item` reads the invoice and, in a second
statement (`lazy="selectin"`), its items, so `AddLineItem` and `LoadItems` are separate.
`create_entry` reads nothing before its INSERT and is one action.

`Sessions` is the set of requests that may be in flight at the same time. One session is a
service whose requests never overlap; two are enough for every race between a read and a
commit, because a commit depends on one read only.

Who is calling comes from `Contexts`: tenant, user and roles as the dependencies return
them. `RequestPath` is about how they would get there: which headers the gateway sets, what
the middleware makes of them and where the handlers look.

What differs from module to module:

* `Resources`: `update_allocation` reads its row and runs the guard as a second statement
  (`CheckUpdate`) before it assigns and commits. Without an end date the guard compares a Date
  column with the string "9999-12-31", which asyncpg refuses to encode: such a request fails.
  `CreateBodies` and `UpdateBodies` are what clients send. `moved`, a variable of `MCResources`,
  remembers the allocations that were given later days the guard has not looked at.
* `Billing`: `InvoiceLineItem` maps a column `created_at` that the migration does not create.
  `ItemsLoad` says whether the table has it. On the migrated schema it is `FALSE`: an invoice can
  be created and after that nobody can read it, so nothing else happens. `TRUE` is the schema of
  the models. That the answer to a POST fails although the row is stored is no state of the
  service; `NumberingNext` has clients look for their invoices in the list instead.
* `AuthSessions`: a request reads, then writes (and holds its row locks), then commits; tokens
  are the identities of their hashes. `StoreLogin` and `HandOut` say what the surroundings do
  with a login's row and with a raw reset token. As deployed both are `FALSE`, and then nothing
  can be rotated or reset; `TRUE` is the service as the tests run it, with one session, and as a
  caller that mails the token would. Login asks for no second factor.
* `Directory`: `create_user` is modelled although no router calls it, to have more than one
  user; deletions of tenants and users are soft, and the unique constraints count those rows;
  the PATCH handlers of users and tenants flush and never commit (`UpdateUser`).
* `EventBus`: no service constructs `EventConsumer` or `EventPublisher`, so event types and
  handlers are arbitrary. All processes of a group read under one consumer name. A fault is a
  crash, a handler that raises, a reply of Redis that is lost or a group that start-up fails to
  create (`StartFails`), without which reading is refused until a restart (`ReadRefused`);
  `MaxFaults` is their budget.
* `RateLimiter`: milliseconds; a check reads its clock and executes its pipeline later, so that
  others may come between. Redis expires keys by its own clock. A pipeline may raise, before or
  after Redis has run it (`Fail`, and `LimitFails` of `RequestPath`).
* `RequestPath`: a client of the gateway may send identity headers of its own. They go out beside
  those of the token, and the service reads one of the two (`Proxy`). A service may never answer
  (no fairness), the gateway gives up after its timeout; Redis may never answer either, and the
  limiter has no timeout.
* `Projects`: the five repositories have one shape, so `db` is a function of the kind of row.
  `MappersConfigure` says whether SQLAlchemy accepts `models/project.py`: as it stands it does
  not (run `projects_mappers`), and with it no request is served; the other properties are
  those of the handlers once it does. One tenant: no lookup finds the rows of others, and the
  same goes for `Notifications`.
* `Attachments`: record and object live in two systems. The presigned PUT is used any number of
  times until it expires; a request may die between its steps. A confirmation with the checksum
  that is already there writes nothing (`Column`).
* `Notifications`: nothing in the repository creates notifications; `Deliver` stands for it.
  PUT and PATCH of preferences are the same. Quiet hours arrive as text, for a Time column,
  and `in_app_enabled` may be null, which the table refuses.

Abstractions: identifiers are model values; descriptions, notes and other columns that no
handler reads are left out; in `update_entry` `duration` stands for every field of the
PATCH; `deleted_at` is a flag; timestamps are ticks; money is integer cents, quantities and
tax rates integer ten-thousandths, and `HalfEven` is `Decimal.quantize`. `paid_at` is
left out. Invoices are never soft-deleted by any handler, so `Billing` has no such column.
An entry in `ItemIds` stands for one posting of a line item with its body. Definitions named
`X_Something` are plausible slips of `X` that the properties are tried against; no
specification uses them.

## Runs

Services share no tables, so the modules of one run are explored side by side and not in each
other's states: an extra variable of the MC module (`part`, or `atOnce`) is chosen in the
initial state, never changes, and says what a behaviour is about. The same variable separates
behaviours in which requests take turns from those in which they overlap. A property named
`Serial…` is about the first kind: most of what these services promise holds only there, and
what is left of it under overlap is what the other properties say.

`TypeOK` of `Resources`, `RateLimiter` and `RequestPath` is proved and no property of a run; the
other type invariants are both.

Passing:

| Run | Parts and bounds | Shows |
|---|---|---|
| `timelog` | one entry, an owner, a manager, a manager of another tenant, a caller without user; two sessions: in turn with a clock of three instants, or overlapping at two, at the second with the requests that change the status | the trail explains the status, starts with a submission and is sorted by its stamps up to the requests in flight, under every overlap; in turn, the service implements `ApprovalWorkflow` |
| `billing` | in turn: one invoice, three items with rounding ties, two rates, three days; overlapping: two sessions in two processes with restarts and the task, two invoices' keys, three items, one rate | a subtotal is always a sum of distinct items of the invoice; overdue means past due; in turn, totals match items, columns add up to a cent, paid means paid in full |
| `billing_numbering` | three invoices, two processes that restart | whoever keeps posting gets the invoices |
| `resources` | in turn: three allocations on three days, bodies with a percentage, an end date or both; overlapping: two sessions, periods that start on the first day, end dates that move; leaves: two requests, four callers | but for allocations moved to days that the guard has not seen: in turn, nobody is above 100 % on any day; overlapping, the excess is bounded by the number of sessions. A decision on a leave is a manager's and visible in its tenant |
| `auth` | in turn: four tokens, two passwords, one secret; overlapping: three tokens, no new password; directory: two tenants, users, three roles, one slug that a second registration wants too | spent tokens stay dead and reset tokens are used at most once per overlapping request; in turn, a login has one live token and a dead family stays dead; a tenant keeps its system roles |
| `events` | one stream and two processes with two faults, or two streams and one process; groups that are not created | at most one handling, nothing skipped silently, order with one process; without faults everything is handled and acknowledged |
| `gateway` | limiter in turn (a window of 4 ms, seven instants, address and tenant), limiter with two checks (ten instants, one address), path (two requests, two tenants) | the limiter decides by its window; delayed checks add a bounded number of busy milliseconds; tenants and correlation ids do not mix; the gateway answers although a service hangs |
| `content` | tasks: three tasks of a project, two sessions; tables: one row of each of the five tables; files: an attachment with two contents; inbox: two notifications, two users, three instants; preferences: two users | subtasks form a forest; a task that turns to done is stamped; no stale PATCH takes back a deletion or a completion; nothing is stranded by a half-done deletion; confirmed files exist; notifications only advance |

Violated (each is a finding of `PROJECT.json`, with the text it contradicts):

| Run | Counterexample |
|---|---|
| `timelog_transitions` | two submissions overlap; the first commits and the entry is approved; the second commits and the entry is submitted again |
| `overdue_schedule` | beat publishes to `celery`; the workers consume `billing` and `notifications`; an invoice stays `sent` |
| `auth_login` | login answers with a token whose row is rolled back with its session |
| `projects_mappers` | the first request fails while SQLAlchemy configures the mappers |

### Deviations seen while modelling

The other places where the modules, which follow the code, disagree with the repository's
README or with a message of the code. They have no run of their own; the actions named here
show the step.

| Code | What it does | What is said |
|---|---|---|
| `timelog.py:149`, `StopTimer` | rewrites the minutes of a submitted or approved entry | "Only draft entries can be edited" (`timelog.py:99`) |
| `timelog.py:118`, `DeleteEntry` | deletes, and `UpdateEntry` edits, an entry that was submitted after the draft check | "Only draft entries can be deleted" (`timelog.py:117`) |
| `models/billing.py:88`, `ItemsLoad` | maps `created_at`, which `0001_initial.py:74` of billing does not create: on the migrated schema every read of an existing invoice fails | the lifecycle (README:149) |
| `billing.py:113`, `CreateInvoice` | answers 500 although the row is stored: `InvoiceResponse` reads `line_items`, which are not loaded | `status_code=201` (`billing.py:97`) |
| `models/billing.py:42`, `NumberTaken` | names the constraint `uq_invoices_number`; the migration calls it `uq_invoice_number` | one name for one constraint |
| `billing.py:164`, `Position` | gives two items that are added at once one `sort_order` | `sort_order=len(inv.line_items)`, the next position |
| `billing.py:212`, `RecordPayment` | makes a draft `paid`, and pays void invoices | the lifecycle (README:149) |
| `billing.py:156`, `AddLineItem` | adds an item to an invoice that was sent after the draft check | "Can only add items to draft invoices" (`billing.py:157`) |
| `invoice_tasks.py:36`, `OverdueCommit` | sets `overdue` over a payment or a void committed since its SELECT | "marks `sent` invoices past their `due_date`" (README:150) |
| `resources.py:48`, `:131` | overlapping creates, and a PATCH of `end_date` alone (`moved`), exceed 100 % | "If the total would exceed 100%, returns `409 Conflict`" (README:161) |
| `resources.py:217`, `ApproveLeave` | decides a decided request again | `pending → approved \| rejected \| cancelled` (README:162) |
| `auth/routers/auth.py:93` | drops the only copy of the reset token | "a reset link has been sent" (`auth.py:94`) |
| `auth_service.py:73`, `:120` | a rotation that overlaps survives `revoke_family`; two overlapping resets both succeed | "invalidated immediately" (README:112), "single-use tokens" (README:115) |
| `auth.py:124`, `MfaEnable` | replaces a confirmed secret at once | "store temporarily; confirmed on /mfa/verify" |
| `user_service.py:54`, `tenants.py:56` | PATCH answers with a change that is rolled back | README:316, :333 |
| `roles.py:82`, `DeleteRole` | ends in a 500 if somebody has the role: the foreign key of `user_roles` refuses it | nothing but system roles is refused (`roles.py:81`) |
| `consumer.py:42`, `StartFails` | logs at debug level that a group "already exists" whatever went wrong; without the group, NOGROUP stops the reading of all streams until a restart | "Stream consumer group already exists" (`consumer.py:43`) |
| `consumer.py:83`, `Reclaim` | discards what XAUTOCLAIM returns: after a fault a message stays pending for ever | "Stale messages … are reclaimed" (README:519) |
| `rate_limit.py:19`, `Counted` | counts milliseconds, not requests | a member per request (README:542), 429 beyond the limit (README:546) |
| `proxy.py:24`, `Proxy` | forwards `/api/{service}` to services that do not mount it: 404 | "the stripped, enriched request" (README:104) |
| `dependencies.py:9`, `Dispatch` | nobody reads `X-User-ID`: 401 | "trusts headers, sets ContextVar" (README:530) |
| `proxy.py:26`, `Proxy` | forwards `X-Tenant-ID` and `X-User-ID` as the client sent them | "the stripped, enriched request" (README:104) |
| `rate_limit.py:22`, `LimitFails` | without Redis, every request ends in a 500, or waits for it: the client has no timeout | 429 beyond the limit (README:546) |
| `correlation.py:14`, `Raise` | a 500 of the gateway has no correlation id | "propagates it to all upstreams and the response" (README:103), "Ensures every request has an X-Correlation-ID header, propagated in responses" (`correlation.py:9`) |
| `attachments.py:45`, `InitiateUpload` | the record is there before the upload | "before writing the attachment record" (README:125) |
| `attachments.py:77`, `Confirm` | stores the checksum that the client claims | "verified at rest" (README:557) |
| `preferences.py:28`, `Unique` | one of two overlapping first accesses ends in a 500 | "created with defaults on first access" (README:175) |
| `schemas/notification.py:26`, `Complete` | quiet hours are text, which the Time column refuses | quiet hours (README:174) |

### Bounds

`MaxClock`, `MaxDay`: enough for a timer to run for zero, one and more minutes, and for an
invoice to pass its due date and a year to end. `EndTimes` has a time before the start and one
that exceeds `Int4Max`, which stands for 2^31 - 1. `MaxCount` limits the numbers a process
draws, as rolled back requests could otherwise raise it for ever; in `billing_numbering` it is
never reached. Two sessions are enough for every race between a read and a commit, because a
commit depends on one read only. `TokenIds`: a login and two rotations, and another login.
`MaxTime` of the limiter is two windows, so that members leave the window and keys expire; the
milliseconds of admitted requests are a set, so that any number of requests share one.
`MaxPublished` is one more than a batch and two more than `MaxLen`, so that entries are read
in two batches and are trimmed unread. Each `Fits` of an MC module names the bounds of its
parts. Deadlock is not checked where the model really stops: keys, tokens or milliseconds are
used up, or every request is answered; in `billing`, `billing_numbering` and `events` it is.

### Fairness

* `billing_numbering`: a request that is being served ends (`WF` of commit or constraint
  error: the event loop and PostgreSQL finish what they started), a client posts again after
  a failure (this is the client's promise: the property is about retrying), and from some
  point on processes no longer restart.
* `overdue_schedule`: beat fires every day, and a worker takes messages of the queues it
  consumes.
* `events`: the loop of each process goes on (`WF` of `Step(p)`: it is restarted when it is
  down, and Redis answers). Publishers are not fair. The two liveness properties are stated
  of behaviours without faults, `EventsAreHandled` also without trimming: after a fault they
  do not hold.
* `gateway`: the gateway goes on with a request (`WF` of `Forward(r)`: what its event loop does
  by itself, the timeout of its HTTP client included). Services, clients and Redis are not fair,
  and the limiter waits for Redis.

## Proofs

Every invariant and every action property of the passing runs, and the refinement of
`ApprovalWorkflow`, is a theorem: what a run shows of a small instance holds for every set of
rows, people, processes and sessions. A theorem is named after its property, with `Always`
at the end (`TypeCorrectness` is `Timelog`'s `TypeOK`). Each is
proved from an inductive invariant that TLC has checked on the run before; the invariant's
initial, step and consequence lemmas are next to the theorem, with one step per action. The
type invariants that no run lists are `ResourcesTypeOKAlways`, `LimiterTypeOKAlways` and
`PathTypeOKAlways`.

| Module | Inductive invariant | What it adds to the properties, and why they need it |
|---|---|---|
| `TimelogProofs` | `IInv` | An open request assigns the status exactly if it adds a record, its entry exists in the caller's tenant, and a decision was taken on an entry that had a trail (`TxnInv`): a stale commit must not part the status from its record |
| | `OrderInv` | Records committed after one with an earlier stamp and transactions still open with such a stamp are together fewer than the sessions (`OvertakingInv`): whoever overtakes was in flight when the record was committed |
| | `MCInv` | In turn, an open request holds the row as it still is, so that a commit is one step of the workflow (`SerialInv`) |
| `BillingProofs` | `IInv` | The key of an invoice being created is nobody else's, the items a request read are still there, the subtotal it writes is theirs and its own items', and no handler assigns `overdue` (`OpenInv`); due dates never change, so what the task found stays past due (`FoundInv`) |
| | `MCInv` | In turn, an open request has all the items and the row as it is, its totals are those of the items it will leave, and it calls only a covered invoice paid (`SerialTxn`); when the task commits, no request is open |
| `ResourcesProofs` | `IInv` | A decision about to be written has a manager of the tenant, and what it read of an earlier decision was not taken back since (`RelyLeave`), although the UPDATE writes by column |
| | `MCInv` | Allocations can be weighed so that no weight is below what its row has or an approved change is about to give it, and the weights sum to 100 for each request that can be in flight (`WeightInv`): the guard of one more request adds at most 100. An allocation outside of `moved` ends no later than when it was read (`EndsInv`) |
| `AuthProofs` | `AuthInv`, `ResetBoundInv`, `SerialInv` | Tokens named by open requests exist, and the token that another replaced is there and revoked (`LineageInv`); the uses of a reset token plus the requests that may still use it are within the bound; in turn, no family has two live tokens |
| | `DirInv` | The role that an open request changes or deletes is, or was, one that may be changed (`DirRequestsInv`), so that none of the seeded ones is lost; keys about to be written are or were there |
| `EventBusProofs` | `BusInv` | What is in hand or done was delivered, to one process only (`DeliveredInv`); ids in a batch increase; the head is done exactly when its acknowledgement is due (`ProgressInv`) |
| | `AloneInv` | What the only process has in hand comes after everything it has handled |
| `GatewayProofs` | `PathInv` | A context has a tenant from the middleware's entry to its `finally`, that of the headers; an id is drawn once and taken over |
| | `LimiterInv`, `WindowInv` | As long as the sorted set has the busy milliseconds of a window, the limit bounds them; once it has lost some, the window is over and what is still to come was in flight then |
| | `TurnsInv` | With one check at a time, what a set has lost is outside the window of the check in flight |
| `ContentProofs` | `FilesInv` | Who is about to delete a record has removed the object, who is about to confirm has seen it, or it was removed since (`FileRequestInv`, `DeletionInv`) |
| | `InboxInv` | What an open request is about to write |
| | `ProjectsInv` | An UPDATE writes columns of its request only, no parent among them, and clears no stamp (`Patch`); a new row's key is nobody's, so that a new task is above none |

`Induction` makes up for two gaps: the library states induction for an operator, and there it
is stated for a set (`SetInduction`); and `SumFunctionOnSet` is a fold in an unknown order, for
which it proves existence and uniqueness of the fold and then the type of a sum, adding and
removing an element, congruence and bounds. `BillingProofs` uses it to type the money,
`ResourcesProofs` for the loads, `EventBusProofs` for the order of batches.

Assumptions, all of constants and named in the modules that declare them: contexts and bodies
are well typed, placeholders (`None`, `NoUser`) are no members, prices and periods are
positive, a sorted set lives for its window (`Ttl >= Window`), there are permissions, and what
is counted is finite (`Sessions`, `ItemIds`, `AllocIds`, requests).
The three `Serial…` theorems of `BillingProofs`, `SerialWorkflowAlways` and
`AloneInOrderAlways` are about the MC module's specification, because it says what taking turns
is; they hold for every value of its constants. The theorems about capacity in `ResourcesProofs`
and `SerialDecidesByTheWindowAlways` are about `PartsSpec` and `TurnsSpec`, which are the MC
modules' parts and turns without their bounds: any bodies, dates and tenants, any addresses, and
a clock that runs as long as it likes. Those of
`AuthProofs` about tokens are about `TokensSpec`, which is `AuthSessions` without the bounds of
`MCAuth` and with its turns; `RunsAreTokens` proves that the run's behaviours are among them.

What the 100 % guard does not promise is in the two properties and in no hypothesis: it looks at
the days of the new period when the request names a percentage, and a PATCH with an end date
alone skips it. An allocation that such a PATCH has moved to later days is in `moved` and out of
the sum; so is, when requests overlap, one whose end date moved while others passed the guard.

Only model-checked: liveness (`RetriesSucceed`, `EventsAreHandled`, `PendingIsResolved`,
`RequestsAreAnswered`), which needs `ENABLED` and is beyond the prover, and the four
counterexamples.

## Not modelled

Billing rates (stored and listed; nothing reads them), read-only endpoints, schemas and
configuration, health checks, logging; the Redis cache, `JWTAuthMiddleware` and the pagination
helpers, which no service uses; running the migrations, Helm and Kubernetes, beyond constraints
and worker queues; and features the repository's README describes without code (PDF, bulk
submission, invoice generation, reports, event publishing by the services, e-mail).

## Plan

Every safety property of the runs is proved. What could still be added:

1. Proofs: a bound on the load that counts moved allocations too, for which no tight one is known.
2. Model: one of several tenants in `Projects` and `Notifications`.
