------------------------------- MODULE Timelog -------------------------------
(***************************************************************************)
(* The timelog service: time entries, their timer and their approval       *)
(* workflow (src/services/timelog/app/routers/timelog.py).                 *)
(*                                                                         *)
(* A handler that changes an entry is two steps: it reads the committed    *)
(* row, checks it and assigns to its own copy (UpdateEntry, SubmitEntry,   *)
(* ...), and later `await session.commit()` writes the changed columns     *)
(* (Commit).  Between the two the event loop, the other worker and the     *)
(* other replica run other requests.  A request that raises, is cancelled  *)
(* or loses its process leaves nothing behind (Rollback): get_session      *)
(* closes the session, which rolls it back.                                *)
(***************************************************************************)
EXTENDS Integers, Sequences, FiniteSets, UnitOfWork

CONSTANTS
    EntryIds,        \* primary keys uuid4 may draw
    Tenants,
    Users,
    NoUser,          \* request.state carries no user_id
    Contexts,        \* who may be calling: tenant, user and roles of a request
    Sessions,        \* requests that may be in flight at the same time
    Durations,       \* duration_minutes a valid body may carry
    EndTimes,        \* ended_at a stop-timer body may carry
    TicksPerMinute,  \* clock resolution; the code divides seconds by 60
    Int4Max,         \* largest value of the INTEGER column duration_minutes
    MaxClock         \* bound of the model: the clock stops here

Roles == {"tenant_admin", "project_manager", "consultant", "client_viewer"}
Managers == {"tenant_admin", "project_manager"}
Statuses == {"draft", "submitted", "approved", "rejected"}

ASSUME ContextsAssumption ==
    Contexts \subseteq [tenant : Tenants, user : Users \cup {NoUser}, roles : SUBSET Roles]
ASSUME NoUserAssumption == NoUser \notin Users
ASSUME SessionsAssumption == IsFiniteSet(Sessions)
ASSUME BoundsAssumption ==
    /\ TicksPerMinute \in Nat \ {0}
    /\ Int4Max \in Nat \ {0}
    /\ MaxClock \in Nat
    /\ EndTimes \subseteq Nat
    /\ Durations \subseteq 1 .. Int4Max

\* A NULL timestamp; the clock starts at 0.
NoTime == -1
Times == Nat \cup {NoTime}

\* The columns the handlers read or write.  date, description, is_billable and
\* task_id only ever change together with duration_minutes' guard in
\* update_entry, so duration stands for all of them there.
Row == [tenant : Tenants, user : Users, status : Statuses, started : Times,
        ended : Times, duration : 1 .. Int4Max, deleted : BOOLEAN]

\* A primary key no row has yet.
Unused == [status |-> "unused"]

Approval == [tenant : Tenants, actor : Users, action : Statuses, at : Nat]

\* The handlers that move the status and add an audit record with it.
StatusOps == {"submit", "approve", "reject"}
Ops == StatusOps \cup {"update", "delete", "start", "stop"}

\* An open request: the row as read, the row as assigned, and the time its
\* transaction began (what PostgreSQL's now() returns inside it).
Txn == [op : Ops, ctx : Contexts, entry : EntryIds, seen : Row, row : Row, at : Nat]
Idle == [op |-> "idle"]

VARIABLES
    entries,    \* table time_entries, by primary key
    approvals,  \* table time_entry_approvals, per entry in commit order
    txn,        \* what each session has open
    clock

vars == <<entries, approvals, txn, clock>>

TypeOK ==
    /\ entries \in [EntryIds -> Row \cup {Unused}]
    /\ approvals \in [EntryIds -> Seq(Approval)]
    /\ txn \in [Sessions -> Txn \cup {Idle}]
    /\ clock \in Nat

Init ==
    /\ entries = [e \in EntryIds |-> Unused]
    /\ approvals = [e \in EntryIds |-> <<>>]
    /\ txn = [s \in Sessions |-> Idle]
    /\ clock = 0

-----------------------------------------------------------------------------
(* Reading *)

\* get_current_user_id: a request without a user is refused.
Authenticated(ctx) == ctx.user # NoUser

IsManager(ctx) == ctx.roles \cap Managers # {}

\* _get_entry: the row of the caller's tenant, unless it is soft-deleted.
GetEntry(ctx, e) ==
    /\ entries[e] # Unused
    /\ entries[e].tenant = ctx.tenant
    /\ ~entries[e].deleted

\* Plausible slip: created_at is set in Python, by the clock of whoever serves the request,
\* and one replica's clock is fast.
Open_LocalClock(s, op, ctx, e, row) ==
    /\ txn[s] = Idle
    /\ txn' = [txn EXCEPT ![s] = [op |-> op, ctx |-> ctx, entry |-> e,
                                  seen |-> entries[e], row |-> row,
                                  at |-> IF s = CHOOSE r \in Sessions : TRUE
                                         THEN clock + 1 ELSE clock]]
    /\ UNCHANGED <<entries, approvals, clock>>

\* The handler has read entries[e] and leaves `row` for the commit to write.  Its
\* transaction begins with that SELECT.
Open(s, op, ctx, e, row) ==
    /\ txn[s] = Idle
    /\ txn' = [txn EXCEPT ![s] = [op |-> op, ctx |-> ctx, entry |-> e,
                                  seen |-> entries[e], row |-> row, at |-> clock]]
    /\ UNCHANGED <<entries, approvals, clock>>

-----------------------------------------------------------------------------
(* Handlers *)

\* POST /time-entries reads nothing before its INSERT, so it is one step.  The
\* body's duration is validated by the schema (0 < duration_minutes <= 1440).
CreateEntry(ctx, e, duration) ==
    /\ Authenticated(ctx)
    /\ entries[e] = Unused
    /\ entries' = [entries EXCEPT ![e] =
            [tenant |-> ctx.tenant, user |-> ctx.user, status |-> "draft",
             started |-> NoTime, ended |-> NoTime, duration |-> duration,
             deleted |-> FALSE]]
    /\ UNCHANGED <<approvals, txn, clock>>

\* PATCH /time-entries/{id}
UpdateEntry(s, ctx, e, duration) ==
    /\ Authenticated(ctx)
    /\ GetEntry(ctx, e)
    /\ entries[e].user = ctx.user
    /\ entries[e].status = "draft"
    /\ Open(s, "update", ctx, e, [entries[e] EXCEPT !.duration = duration])

\* DELETE /time-entries/{id}: a soft delete.
DeleteEntry(s, ctx, e) ==
    /\ Authenticated(ctx)
    /\ GetEntry(ctx, e)
    /\ entries[e].user = ctx.user
    /\ entries[e].status = "draft"
    /\ Open(s, "delete", ctx, e, [entries[e] EXCEPT !.deleted = TRUE])

\* POST .../start-timer: neither the owner nor the status is checked.
StartTimer(s, ctx, e) ==
    /\ GetEntry(ctx, e)
    /\ entries[e].started = NoTime
    /\ Open(s, "start", ctx, e, [entries[e] EXCEPT !.started = clock])

\* Plausible slip: a timer stopped within its first minute counts for nothing.
Minutes_NoFloor(from, to) ==
    LET m == (to - from) \div TicksPerMinute
    IN  IF m > 0 THEN m ELSE 0

\* max(1, int(delta.total_seconds() / 60)); a negative delta gives 1.
Minutes(from, to) ==
    LET m == (to - from) \div TicksPerMinute
    IN  IF m > 1 THEN m ELSE 1

\* POST .../stop-timer, `ended` being body.ended_at or datetime.now(UTC): may be
\* repeated, on an entry of any status and any owner.  A duration beyond INTEGER
\* makes the UPDATE fail, and the request with it.
StopTimer(s, ctx, e, ended) ==
    /\ GetEntry(ctx, e)
    /\ entries[e].started # NoTime
    /\ ended \in EndTimes \cup {clock}
    /\ Minutes(entries[e].started, ended) <= Int4Max
    /\ Open(s, "stop", ctx, e,
            [entries[e] EXCEPT !.ended = ended,
                               !.duration = Minutes(entries[e].started, ended)])

\* POST .../submit: the owner is not checked.
SubmitEntry(s, ctx, e) ==
    /\ Authenticated(ctx)
    /\ GetEntry(ctx, e)
    /\ entries[e].status = "draft"
    /\ Open(s, "submit", ctx, e, [entries[e] EXCEPT !.status = "submitted"])

\* Plausible slip: approve forgets the status check.
ApproveEntry_AnyStatus(s, ctx, e) ==
    /\ IsManager(ctx)
    /\ Authenticated(ctx)
    /\ GetEntry(ctx, e)
    /\ Open(s, "approve", ctx, e, [entries[e] EXCEPT !.status = "approved"])

\* POST .../approve
ApproveEntry(s, ctx, e) ==
    /\ IsManager(ctx)
    /\ Authenticated(ctx)
    /\ GetEntry(ctx, e)
    /\ entries[e].status = "submitted"
    /\ Open(s, "approve", ctx, e, [entries[e] EXCEPT !.status = "approved"])

\* POST .../reject
RejectEntry(s, ctx, e) ==
    /\ IsManager(ctx)
    /\ Authenticated(ctx)
    /\ GetEntry(ctx, e)
    /\ entries[e].status = "submitted"
    /\ Open(s, "reject", ctx, e, [entries[e] EXCEPT !.status = "rejected"])

-----------------------------------------------------------------------------
(* The end of a request *)

\* Plausible slip: the handler saves the whole object it holds.
Flush_WholeRow(seen, assigned, committed) == assigned

\* The UPDATE of session.commit(): changed columns only, wherever the row is by
\* now.  tenant_id and user_id are never assigned.
Flush(seen, assigned, committed) ==
    [tenant   |-> committed.tenant,
     user     |-> committed.user,
     status   |-> Column(seen.status, assigned.status, committed.status),
     started  |-> Column(seen.started, assigned.started, committed.started),
     ended    |-> Column(seen.ended, assigned.ended, committed.ended),
     duration |-> Column(seen.duration, assigned.duration, committed.duration),
     deleted  |-> Column(seen.deleted, assigned.deleted, committed.deleted)]

\* The TimeEntryApproval added by submit, approve and reject: its created_at is
\* the server default now(), the start of the transaction.
ApprovalOf(t) ==
    [tenant |-> t.ctx.tenant, actor |-> t.ctx.user, action |-> t.row.status, at |-> t.at]

\* Plausible slip: only decisions are recorded, not submissions.
Recorded_DecisionsOnly(t) == IF t.op \in {"approve", "reject"} THEN <<ApprovalOf(t)>> ELSE <<>>

\* The rows session.add() put into the unit of work.
Recorded(t) == IF t.op \in StatusOps THEN <<ApprovalOf(t)>> ELSE <<>>

\* await session.commit(): UPDATE and INSERT become visible together.
Commit(s) ==
    /\ txn[s] # Idle
    /\ entries' = [entries EXCEPT ![txn[s].entry] = Flush(txn[s].seen, txn[s].row, @)]
    /\ approvals' = [approvals EXCEPT ![txn[s].entry] = @ \o Recorded(txn[s])]
    /\ txn' = [txn EXCEPT ![s] = Idle]
    /\ UNCHANGED clock

\* The request fails, is cancelled or dies with its process.
Rollback(s) ==
    /\ txn[s] # Idle
    /\ txn' = [txn EXCEPT ![s] = Idle]
    /\ UNCHANGED <<entries, approvals, clock>>

Tick ==
    /\ clock < MaxClock
    /\ clock' = clock + 1
    /\ UNCHANGED <<entries, approvals, txn>>

Request(s, ctx, e) ==
    \/ \E d \in Durations : UpdateEntry(s, ctx, e, d)
    \/ DeleteEntry(s, ctx, e)
    \/ StartTimer(s, ctx, e)
    \/ \E t \in EndTimes \cup {clock} : StopTimer(s, ctx, e, t)
    \/ SubmitEntry(s, ctx, e)
    \/ ApproveEntry(s, ctx, e)
    \/ RejectEntry(s, ctx, e)

Next ==
    \/ \E ctx \in Contexts, e \in EntryIds, d \in Durations : CreateEntry(ctx, e, d)
    \/ \E s \in Sessions, ctx \in Contexts, e \in EntryIds : Request(s, ctx, e)
    \/ \E s \in Sessions : Commit(s) \/ Rollback(s)
    \/ Tick

Spec == Init /\ [][Next]_vars

-----------------------------------------------------------------------------
(* Properties that hold however many requests overlap *)

\* The audit trail accounts for the status: an entry without records is a draft,
\* and otherwise its status is the action of the record committed last.  It is
\* what makes "every submit / approve / reject action creates a
\* TimeEntryApproval record" (README) usable, and it has to survive any overlap of
\* edits, timers, submissions and decisions on stale reads.
TrailExplainsStatus ==
    \A e \in EntryIds : entries[e] # Unused =>
        IF approvals[e] = <<>> THEN entries[e].status = "draft"
        ELSE entries[e].status = approvals[e][Len(approvals[e])].action

\* No decision without a submission: the first record of every trail is the
\* submission, whatever was approved or rejected concurrently afterwards.
TrailStartsWithSubmission ==
    \A e \in EntryIds : approvals[e] # <<>> => approvals[e][1].action = "submitted"

\* Every record of an entry's trail carries the entry's own tenant, although the
\* record takes it from the request and the UPDATE goes by primary key alone.
TrailStaysInTenant ==
    \A e \in EntryIds : \A i \in 1 .. Len(approvals[e]) :
        entries[e] # Unused /\ approvals[e][i].tenant = entries[e].tenant

\* Records that were committed after record i of an entry's trail and stamped before it.
Overtaken(e, i) ==
    {j \in i + 1 .. Len(approvals[e]) : approvals[e][j].at < approvals[e][i].at}

\* How far created_at, the start of a transaction, is from the order of the commits: no
\* record of a trail is overtaken by more stamps than there were other requests in flight.
\* Requests that take turns are stamped in order, and with more of them whoever sorts a
\* trail by created_at looks for the last decision among the last few records only.
TrailDisorderIsBounded ==
    \A e \in EntryIds : \A i \in 1 .. Len(approvals[e]) :
        Cardinality(Overtaken(e, i)) < Cardinality(Sessions)

-----------------------------------------------------------------------------
(* Properties of requests that do not overlap *)

\* The workflow the README promises, with a soft-deleted entry as withdrawn.
Workflow == INSTANCE ApprovalWorkflow WITH
    phase <- [e \in EntryIds |->
                IF entries[e] = Unused THEN "unused"
                ELSE IF entries[e].deleted THEN "withdrawn" ELSE entries[e].status],
    trail <- [e \in EntryIds |-> [i \in 1 .. Len(approvals[e]) |-> approvals[e][i].action]]

\* The service implements the promised workflow: every step is one of its arrows,
\* with its record, or leaves phase and trail alone.
WorkflowStep == [Workflow!Next]_Workflow!awVars

-----------------------------------------------------------------------------
(* What the README promises of every request, and overlapping ones break *)

\* A status only ever moves along an arrow of "draft -> submitted -> approved |
\* rejected": submit, approve and reject each validate the status they read.
TransitionsAreValidated ==
    [][\A e \in EntryIds :
          (entries[e] # Unused /\ entries'[e].status # entries[e].status)
              => <<entries[e].status, entries'[e].status>> \in
                     {<<"draft", "submitted">>, <<"submitted", "approved">>,
                      <<"submitted", "rejected">>}]_vars

=============================================================================
