------------------------------ MODULE MCTimelog ------------------------------
(* Timelog on small instances: who calls is an owner, a manager, a consultant  *)
(* of another tenant and a request without user, as TLC constants.  Behaviours *)
(* in which requests come one after the other and behaviours in which they     *)
(* overlap are told apart by `atOnce`, so that one run can state what holds of *)
(* each.                                                                       *)
EXTENDS Timelog

CONSTANTS t1, t2, u1, u2

VARIABLE atOnce    \* how many requests may be open at the same time

mcVars == <<vars, atOnce>>

Caller(t, u, rs) == [tenant |-> t, user |-> u, roles |-> rs]

\* The owner, a manager of the same tenant, a request without user, and a
\* manager of another tenant.
MCContexts == {Caller(t1, u1, {"consultant"}), Caller(t1, u2, {"project_manager"}),
               Caller(t1, NoUser, {}), Caller(t2, u2, {"tenant_admin"})}

MCInit == Init /\ atOnce \in 1 .. Cardinality(Sessions)

\* Bound: when requests overlap, the clock moves once, and then only submissions and decisions
\* on an entry without timer are open.
Fits ==
    \/ atOnce = 1 \/ clock = 0
    \/ /\ clock = 1
       /\ \A s \in Sessions : txn[s] # Idle =>
             txn[s].op \in StatusOps /\ txn[s].row.started = NoTime

MCNext ==
    /\ Next
    /\ UNCHANGED atOnce
    /\ Cardinality({s \in Sessions : txn'[s] # Idle}) <= atOnce
    /\ Fits'

MCSpec == MCInit /\ [][MCNext]_mcVars

-----------------------------------------------------------------------------
(* Properties of requests that do not overlap *)

\* One after the other, the handlers implement ApprovalWorkflow: every commit is one of its
\* arrows with its record, and everything else leaves phase and trail alone.
SerialWorkflow == Workflow!Init /\ [][atOnce = 1 => WorkflowStep]_mcVars

=============================================================================
