------------------------------ MODULE Resources ------------------------------
(***************************************************************************)
(* The resources service: allocations of people to projects with the 100 % *)
(* guard, and leave requests                                               *)
(* (src/services/resources/app/routers/resources.py).                      *)
(*                                                                         *)
(* As in Timelog, a handler works on a copy of what it read and Commit     *)
(* writes the changed columns.  update_allocation reads its row and, in a  *)
(* second statement, the allocations it must not exceed.                   *)
(***************************************************************************)
EXTENDS Integers, FiniteSets, Functions, UnitOfWork

CONSTANTS
    AllocIds, LeaveIds,   \* primary keys uuid4 may draw
    Tenants, Users,
    Contexts,             \* who may be calling: tenant, user and roles of a request
    Sessions,             \* requests that may be in flight at the same time
    Days,                 \* the dates that occur
    CreateBodies,         \* AllocationCreate bodies clients send
    UpdateBodies          \* AllocationUpdate bodies clients send

Roles == {"tenant_admin", "project_manager", "consultant", "client_viewer"}

\* No end_date; a field that a PATCH body leaves out.
None == -1

Body == [user : Users, pct : 0 .. 100, start : Days, end : Days \cup {None}]
Patch == [pct : 0 .. 100 \cup {None}, end : Days \cup {None}]

ASSUME FinitenessAssumption == IsFiniteSet(AllocIds) /\ IsFiniteSet(Sessions)
ASSUME DaysAssumption == Days \subseteq Nat
ASSUME ContextsAssumption ==
    Contexts \subseteq [tenant : Tenants, user : Users, roles : SUBSET Roles]
ASSUME BodiesAssumption == CreateBodies \subseteq Body /\ UpdateBodies \subseteq Patch

AllocRow == [tenant : Tenants, user : Users, pct : 0 .. 100, start : Days,
             end : Days \cup {None}, deleted : BOOLEAN]
LeaveRow == [tenant : Tenants, user : Users, approver : Users \cup {None},
             status : {"pending", "approved", "rejected"}]
Unused == [unused |-> TRUE]

AllocTxn == [op : {"create", "check", "checked", "update", "delete"}, id : AllocIds,
             seen : AllocRow, row : AllocRow]
LeaveTxn == [op : {"leave"}, id : LeaveIds, seen : LeaveRow, row : LeaveRow]
Idle == [op |-> "idle"]

VARIABLES
    allocs,  \* table allocations, by primary key
    leaves,  \* table leave_requests, without the columns that nobody reads
    txn      \* what each session has open

vars == <<allocs, leaves, txn>>

TypeOK ==
    /\ allocs \in [AllocIds -> AllocRow \cup {Unused}]
    /\ leaves \in [LeaveIds -> LeaveRow \cup {Unused}]
    /\ txn \in [Sessions -> AllocTxn \cup LeaveTxn \cup {Idle}]

Init ==
    /\ allocs = [a \in AllocIds |-> Unused]
    /\ leaves = [l \in LeaveIds |-> Unused]
    /\ txn = [s \in Sessions |-> Idle]

-----------------------------------------------------------------------------
(* Reading *)

IsManager(ctx) == ctx.roles \cap {"tenant_admin", "project_manager"} # {}

\* The SELECT of get, update and delete.
FindAlloc(ctx, a) ==
    allocs[a] # Unused /\ allocs[a].tenant = ctx.tenant /\ ~allocs[a].deleted

\* GET /allocations?user_id_filter=u
ListAllocations(ctx, u) == {a \in AllocIds : FindAlloc(ctx, a) /\ allocs[a].user = u}

\* GET /leave-requests: a manager sees the tenant's, anyone else their own.
ListLeaves(ctx) ==
    {l \in LeaveIds : /\ leaves[l] # Unused /\ leaves[l].tenant = ctx.tenant
                      /\ IsManager(ctx) \/ leaves[l].user = ctx.user}

\* Plausible slip: leave requests are found by primary key alone.
FindLeave_AnyTenant(ctx, l) == leaves[l] # Unused

FindLeave(ctx, l) == leaves[l] # Unused /\ leaves[l].tenant = ctx.tenant

\* The percentages of a set of allocations.
Total(S) == SumFunctionOnSet([a \in AllocIds |-> IF allocs[a] = Unused THEN 0 ELSE allocs[a].pct], S)

\* Plausible slip: only allocations that start within the new range are counted.
Overlapping_StartsWithin(tenant, row, exclude) ==
    {a \in AllocIds \ exclude :
        /\ allocs[a] # Unused
        /\ allocs[a].user = row.user /\ allocs[a].tenant = tenant /\ ~allocs[a].deleted
        /\ allocs[a].start >= row.start
        /\ allocs[a].start <= row.end}

\* The WHERE of _check_over_allocation.
Overlapping(tenant, row, exclude) ==
    {a \in AllocIds \ exclude :
        /\ allocs[a] # Unused
        /\ allocs[a].user = row.user /\ allocs[a].tenant = tenant /\ ~allocs[a].deleted
        /\ allocs[a].end = None \/ allocs[a].end >= row.start
        /\ allocs[a].start <= row.end}

\* Plausible slip: the new percentage is not part of the sum.
CheckOverAllocation_OthersOnly(tenant, row, exclude) ==
    /\ row.end # None
    /\ Total(Overlapping(tenant, row, exclude)) <= 100

\* _check_over_allocation does not raise.  Without an end date it compares a Date
\* column with the string "9999-12-31", which asyncpg refuses to encode: the
\* request fails.
CheckOverAllocation(tenant, row, exclude) ==
    /\ row.end # None
    /\ Total(Overlapping(tenant, row, exclude)) + row.pct <= 100

Open(s, op, id, seen, row) ==
    /\ txn[s] = Idle
    /\ txn' = [txn EXCEPT ![s] = [op |-> op, id |-> id, seen |-> seen, row |-> row]]
    /\ UNCHANGED <<allocs, leaves>>

-----------------------------------------------------------------------------
(* Handlers *)

\* POST /allocations
CreateAllocation(s, ctx, a, body) ==
    LET row == [tenant |-> ctx.tenant, user |-> body.user, pct |-> body.pct,
                start |-> body.start, end |-> body.end, deleted |-> FALSE]
    IN  /\ IsManager(ctx)
        /\ allocs[a] = Unused
        /\ \A r \in Sessions : txn[r] # Idle => txn[r].id # a
        /\ CheckOverAllocation(ctx.tenant, row, {})
        /\ Open(s, "create", a, row, row)

\* body.model_dump(exclude_none=True)
Given(value, old) == IF value = None THEN old ELSE value

\* PATCH /allocations/{id}: the row is read, and without a percentage in the body
\* nothing else is looked at.
UpdateAllocation(s, ctx, a, body) ==
    /\ IsManager(ctx)
    /\ FindAlloc(ctx, a)
    /\ Open(s, IF body.pct = None THEN "update" ELSE "check", a, allocs[a],
            [allocs[a] EXCEPT !.pct = Given(body.pct, @), !.end = Given(body.end, @)])

\* ... its second statement, from the start date that was read to the new end.
CheckUpdate(s) ==
    /\ txn[s].op = "check"
    /\ CheckOverAllocation(txn[s].row.tenant, txn[s].row, {txn[s].id})
    /\ txn' = [txn EXCEPT ![s].op = "checked"]
    /\ UNCHANGED <<allocs, leaves>>

\* DELETE /allocations/{id}: a soft delete.
DeleteAllocation(s, ctx, a) ==
    /\ IsManager(ctx)
    /\ FindAlloc(ctx, a)
    /\ Open(s, "delete", a, allocs[a], [allocs[a] EXCEPT !.deleted = TRUE])

\* POST /leave-requests: for the caller, whatever the dates; one step, as nothing is
\* read before the INSERT.
CreateLeave(ctx, l) ==
    /\ leaves[l] = Unused
    /\ leaves' = [leaves EXCEPT ![l] = [tenant |-> ctx.tenant, user |-> ctx.user,
                                        approver |-> None, status |-> "pending"]]
    /\ UNCHANGED <<allocs, txn>>

\* POST .../approve: the status is not looked at.
ApproveLeave(s, ctx, l) ==
    /\ IsManager(ctx)
    /\ FindLeave(ctx, l)
    /\ Open(s, "leave", l, leaves[l],
            [leaves[l] EXCEPT !.status = "approved", !.approver = ctx.user])

\* POST .../reject: likewise.
RejectLeave(s, ctx, l) ==
    /\ IsManager(ctx)
    /\ FindLeave(ctx, l)
    /\ Open(s, "leave", l, leaves[l],
            [leaves[l] EXCEPT !.status = "rejected", !.approver = ctx.user])

-----------------------------------------------------------------------------
(* The end of a request *)

\* The changed columns of any row.
Flush(seen, assigned, committed) ==
    [c \in DOMAIN committed |-> Column(seen[c], assigned[c], committed[c])]

\* await session.commit()
Commit(s) ==
    LET t == txn[s]
    IN  /\ \/ /\ t.op = "create"
              /\ allocs' = [allocs EXCEPT ![t.id] = t.row]
              /\ UNCHANGED leaves
           \/ /\ t.op \in {"checked", "update", "delete"}
              /\ allocs' = [allocs EXCEPT ![t.id] = Flush(t.seen, t.row, @)]
              /\ UNCHANGED leaves
           \/ /\ t.op = "leave"
              /\ leaves' = [leaves EXCEPT ![t.id] = Flush(t.seen, t.row, @)]
              /\ UNCHANGED allocs
        /\ txn' = [txn EXCEPT ![s] = Idle]

\* The request fails (a conflict in its second statement too) or is cancelled.
Rollback(s) ==
    /\ txn[s] # Idle
    /\ txn' = [txn EXCEPT ![s] = Idle]
    /\ UNCHANGED <<allocs, leaves>>

Request(s, ctx) ==
    \/ \E a \in AllocIds :
        \/ \E b \in CreateBodies : CreateAllocation(s, ctx, a, b)
        \/ \E b \in UpdateBodies : UpdateAllocation(s, ctx, a, b)
        \/ DeleteAllocation(s, ctx, a)
    \/ \E l \in LeaveIds : ApproveLeave(s, ctx, l) \/ RejectLeave(s, ctx, l)

Next ==
    \/ \E ctx \in Contexts, l \in LeaveIds : CreateLeave(ctx, l)
    \/ \E s \in Sessions, ctx \in Contexts : Request(s, ctx)
    \/ \E s \in Sessions : CheckUpdate(s) \/ Commit(s) \/ Rollback(s)

Spec == Init /\ [][Next]_vars

-----------------------------------------------------------------------------
(* Properties *)

\* What a manager's list of a user's allocations adds up to on one day, without those in
\* `except`.
Load(ctx, u, day, except) ==
    Total({a \in ListAllocations(ctx, u) \ except :
              allocs[a].start <= day /\ (allocs[a].end = None \/ allocs[a].end >= day)})

\* Whoever decided on a leave request, however requests overlap, is a manager of
\* its tenant: the decision is visible to its author and to the person on leave.
DecisionIsVisible ==
    \A l \in LeaveIds :
        (leaves[l] # Unused /\ leaves[l].status # "pending") =>
            /\ \E ctx \in Contexts : /\ ctx.user = leaves[l].approver
                                     /\ IsManager(ctx) /\ l \in ListLeaves(ctx)
            /\ \A ctx \in Contexts : (/\ ctx.user = leaves[l].user
                                      /\ ctx.tenant = leaves[l].tenant) => l \in ListLeaves(ctx)

=============================================================================
