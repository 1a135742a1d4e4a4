---------------------------- MODULE MCResources ----------------------------
(* Resources on small instances.  `part` says what a behaviour is about:     *)
(* allocations with one request at a time, allocations with two, or leave    *)
(* requests.  `moved` remembers which allocations have got days the guard    *)
(* has not looked at.                                                        *)
EXTENDS Resources, TLC

CONSTANTS t1, t2, u1, u2, u3

VARIABLES part, moved

mcVars == <<vars, part, moved>>

Caller(t, u, r) == [tenant |-> t, user |-> u, roles |-> {r}]

\* Two managers, a consultant, and a manager of another tenant.
MCContexts == {Caller(t1, u1, "tenant_admin"), Caller(t1, u2, "project_manager"),
               Caller(t1, u3, "consultant"), Caller(t2, u3, "tenant_admin")}

\* A whole period, its halves, and dates the wrong way round.
MCCreateBodies ==
    {[user |-> u1, pct |-> 60, start |-> 1, end |-> 3],
     [user |-> u1, pct |-> 40, start |-> 1, end |-> 1],
     [user |-> u1, pct |-> 50, start |-> 2, end |-> 3],
     [user |-> u1, pct |-> 100, start |-> 3, end |-> 1]}

\* A percentage, an end date, or both.
MCUpdateBodies == {[pct |-> 100, end |-> None], [pct |-> 30, end |-> 3], [pct |-> 0, end |-> 1],
                   [pct |-> None, end |-> 3]}

\* Keys and sessions are interchangeable.
MCSymmetry == Permutations(AllocIds) \cup Permutations(Sessions)

MCInit ==
    /\ Init
    /\ part \in {"serial", "overlap", "leaves"}
    /\ moved = {}

Later(new, old) == old # None /\ (new = None \/ new > old)

\* The allocations that a commit gives a later end date, and those whose guard has run.
Extended == {a \in AllocIds : allocs[a] # Unused /\ Later(allocs'[a].end, allocs[a].end)}
Guarded == {txn[s].id : s \in {s \in Sessions : txn[s].op = "checked"}}

\* A PATCH without a percentage skips the guard; one with a percentage has looked at all the
\* days it commits only if nothing else has moved them meanwhile.
Unlooked == IF part = "serial" THEN Extended \ Guarded ELSE Extended

InPart ==
    \A s \in Sessions : txn[s] # Idle =>
        /\ (txn[s].op = "leave") = (part = "leaves")
        /\ part = "serial" => \A r \in Sessions \ {s} : txn[r] = Idle

PartsNext ==
    /\ Next
    /\ UNCHANGED part
    /\ part # "leaves" => UNCHANGED leaves
    /\ moved' = moved \cup Unlooked
    /\ InPart'

PartsSpec == MCInit /\ [][PartsNext]_mcVars

\* Bounds: allocations of one tenant; when requests overlap, of periods that start on the
\* first day, at more than 0 %.
Fits ==
    \A s \in Sessions : (txn[s] # Idle /\ part # "leaves") =>
        /\ txn[s].row.tenant = t1
        /\ part = "overlap" => txn[s].row.start = 1 /\ txn[s].row.pct > 0

MCSpec == MCInit /\ [][PartsNext /\ Fits']_mcVars

\* "If the total would exceed 100%, returns 409 Conflict" (README): one after the other,
\* creates and PATCHes keep everybody at 100 % or below on every day, whatever dates they
\* move, except for an allocation that a PATCH without a percentage has moved to later days:
\* the guard's query finds what can collide on any day.
SerialNeverOverallocated ==
    part = "serial" => \A ctx \in Contexts, u \in Users, d \in Days : Load(ctx, u, d, moved) <= 100

\* Overlapping requests can pass the guard together, but each of them only once: however
\* they overlap, the excess is limited by how many are in flight, except for an allocation
\* that has been moved to later days.
ExcessIsBounded ==
    \A ctx \in Contexts, u \in Users, d \in Days :
        Load(ctx, u, d, moved) <= 100 * Cardinality(Sessions)

=============================================================================
