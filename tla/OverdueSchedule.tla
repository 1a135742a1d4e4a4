--------------------------- MODULE OverdueSchedule ---------------------------
(***************************************************************************)
(* How the overdue task is meant to get started: Celery beat publishes     *)
(* check_overdue_invoices once a day, and a Celery worker consumes it      *)
(* (src/services/billing/app/tasks/celery_app.py).  The app configures no  *)
(* route and no default queue, so beat publishes to Celery's own default;  *)
(* the workers are started with --queues (src/docker-compose.yml).  Celery *)
(* and its Redis broker are external.  Billing has what the task does to   *)
(* the table; here it is one step.                                         *)
(***************************************************************************)
EXTENDS Naturals

CONSTANTS
    Invoices,      \* sent invoices past their due date, to begin with
    Queues,        \* lists in the broker
    BeatQueue,     \* where a task without a route goes
    WorkerQueues,  \* what the started workers consume
    QueueCap       \* bound of the model: longer queues look the same

VARIABLES status, queued

vars == <<status, queued>>

Init ==
    /\ status = [i \in Invoices |-> "sent"]
    /\ queued = [q \in Queues |-> 0]

\* crontab(hour=8, minute=0)
Beat ==
    /\ queued' = [queued EXCEPT ![BeatQueue] = IF @ < QueueCap THEN @ + 1 ELSE @]
    /\ UNCHANGED status

\* check_overdue_invoices, run by a worker for a message it takes.
Work(q) ==
    /\ queued[q] > 0
    /\ queued' = [queued EXCEPT ![q] = @ - 1]
    /\ status' = [i \in Invoices |-> IF status[i] = "sent" THEN "overdue" ELSE status[i]]

\* An administrator records a payment.
Pay(i) ==
    /\ status' = [status EXCEPT ![i] = "paid"]
    /\ UNCHANGED queued

Next ==
    \/ Beat
    \/ \E q \in WorkerQueues : Work(q)
    \/ \E i \in Invoices : Pay(i)

\* Beat fires every day and a worker takes what is in its queues; nobody has to pay.
Spec ==
    /\ Init /\ [][Next]_vars
    /\ WF_vars(Beat)
    /\ \A q \in WorkerQueues : WF_vars(Work(q))

\* "a Celery beat task runs daily at 08:00 UTC and marks `sent` invoices past their
\* `due_date` as `overdue`" (README): no such invoice stays sent.
NoInvoiceStaysSent == \A i \in Invoices : (status[i] = "sent") ~> (status[i] # "sent")

=============================================================================
