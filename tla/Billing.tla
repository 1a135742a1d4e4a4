------------------------------- MODULE Billing -------------------------------
(***************************************************************************)
(* The billing service: invoices, their line items and totals, payments,   *)
(* invoice numbers and the overdue task                                    *)
(* (src/services/billing/app/routers/billing.py, tasks/invoice_tasks.py).  *)
(*                                                                         *)
(* As in Timelog, a handler reads the committed row and assigns to a copy, *)
(* and Commit writes the changed columns.  Invoice numbers come from a     *)
(* dictionary in the memory of each uvicorn process, so every process      *)
(* counts by itself and forgets when it restarts; only the UNIQUE          *)
(* constraint of the table is shared.  Money is in cents, quantities and   *)
(* tax rates in units of 1/10000 (NUMERIC(10,4) and NUMERIC(5,4)).         *)
(***************************************************************************)
EXTENDS Integers, FiniteSets, Functions, UnitOfWork

CONSTANTS
    InvoiceIds, ItemIds,  \* primary keys uuid4 may draw
    Quantity, UnitPrice,  \* the body each line item is posted with
    Tenants,
    Contexts,             \* who may be calling: tenant and roles of a request
    Processes,            \* uvicorn workers, of all replicas
    Sessions,             \* requests that may be in flight at the same time
    ProcessOf,            \* the process that serves each of them
    TaxRates, DueDates, Payments,  \* what request bodies may carry
    ItemsLoad,            \* whether the table has every column InvoiceLineItem maps: the
                          \* migrations do not create its created_at
    DaysPerYear,
    MaxDay,               \* bounds of the model: the calendar stops here, and a
    MaxCount              \* process numbers no more invoices than this

Roles == {"tenant_admin", "project_manager", "consultant", "client_viewer"}
Statuses == {"draft", "sent", "partially_paid", "paid", "overdue", "void"}

ASSUME ContextsAssumption == Contexts \subseteq [tenant : Tenants, roles : SUBSET Roles]
ASSUME ItemsAssumption ==
    /\ IsFiniteSet(ItemIds)
    /\ Quantity \in [ItemIds -> Nat \ {0}]
    /\ UnitPrice \in [ItemIds -> Nat \ {0}]
ASSUME ProcessAssumption == ProcessOf \in [Sessions -> Processes]
ASSUME BodiesAssumption ==
    /\ TaxRates \subseteq Int
    /\ DueDates \subseteq Int
    /\ Payments \subseteq Nat \ {0}
ASSUME SchemaAssumption == ItemsLoad \in BOOLEAN
ASSUME CalendarAssumption == DaysPerYear \in Nat \ {0} /\ MaxDay \in Nat
ASSUME CountAssumption == MaxCount \in Nat

\* paid_amount before any payment; a payment is positive.
NoPayment == -1

Years == 0 .. MaxDay \div DaysPerYear
Numbers == Years \X (Nat \ {0})

Row == [tenant : Tenants, number : Numbers, status : Statuses, due : Int,
        taxRate : Int, subtotal : Int, tax : Int, total : Int,
        paid : Nat \cup {NoPayment}]

\* A primary key no invoice has yet.
Unused == [status |-> "unused"]

\* An open request.  `found` are the line items it read, `new` the one it adds.
Txn == [op : {"create", "load", "add", "send", "pay", "void"}, inv : InvoiceIds,
        seen : Row, row : Row, found : SUBSET ItemIds, new : SUBSET ItemIds]
Idle == [op |-> "idle"]

VARIABLES
    invoices,   \* table invoices, by primary key
    items,      \* table invoice_line_items: the items of each invoice
    sortOrder,  \* its column sort_order
    counter,    \* _invoice_counter of each process, by tenant and year
    txn,        \* what each session has open
    overdue,    \* the overdue task: whether it runs, and what its SELECT found
    today

vars == <<invoices, items, sortOrder, counter, txn, overdue, today>>
tables == <<invoices, items, sortOrder>>

TypeOK ==
    /\ invoices \in [InvoiceIds -> Row \cup {Unused}]
    /\ items \in [InvoiceIds -> SUBSET ItemIds]
    /\ sortOrder \in [ItemIds -> Nat]
    /\ counter \in [Processes -> [Tenants \X Years -> Nat]]
    /\ txn \in [Sessions -> Txn \cup {Idle}]
    /\ overdue \in [running : BOOLEAN, found : SUBSET InvoiceIds]
    /\ today \in 0 .. MaxDay

NoCount == [k \in Tenants \X Years |-> 0]
NotRunning == [running |-> FALSE, found |-> {}]

Init ==
    /\ invoices = [i \in InvoiceIds |-> Unused]
    /\ items = [i \in InvoiceIds |-> {}]
    /\ sortOrder = [k \in ItemIds |-> 0]
    /\ counter = [p \in Processes |-> NoCount]
    /\ txn = [s \in Sessions |-> Idle]
    /\ overdue = NotRunning
    /\ today = 0

-----------------------------------------------------------------------------
(* Arithmetic *)

Unit == 10000

\* Decimal.quantize(Decimal("0.01")): n/d to a whole number of cents, ties to even
\* (the default rounding of the decimal context).
HalfEven(n, d) ==
    LET q == n \div d
        r == n % d
    IN  IF 2 * r > d \/ (2 * r = d /\ q % 2 = 1) THEN q + 1 ELSE q

\* (body.quantity * body.unit_price).quantize(...)
Amount(k) == HalfEven(Quantity[k] * UnitPrice[k], Unit)

Sum(S) == SumFunctionOnSet([k \in ItemIds |-> Amount(k)], S)

\* discount_amount: the column's default; no handler assigns it.
Discount == 0

TaxOf(subtotal, rate) == HalfEven(subtotal * rate, Unit)

\* Plausible slip: the total leaves out the tax.
TotalOf_NoTax(subtotal, rate) == subtotal - Discount

\* The total is rounded from the exact tax, not from tax_amount.
TotalOf(subtotal, rate) ==
    HalfEven(subtotal * Unit + subtotal * rate - Discount * Unit, Unit)

\* Plausible slip: the new item is in the session and in the list, and counts twice.
Recalculate_NewItemTwice(row, found, new) ==
    LET s == Sum(found \cup new) + Sum(new)
    IN  [row EXCEPT !.subtotal = s, !.tax = TaxOf(s, row.taxRate),
                    !.total = TotalOf(s, row.taxRate)]

\* Plausible slip: the totals are computed before the item joins the list.
Recalculate_BeforeAppend(row, found, new) ==
    LET s == Sum(found)
    IN  [row EXCEPT !.subtotal = s, !.tax = TaxOf(s, row.taxRate),
                    !.total = TotalOf(s, row.taxRate)]

\* _recalculate_totals, over the items read and the one just appended.
Recalculate(row, found, new) ==
    LET s == Sum(found \cup new)
    IN  [row EXCEPT !.subtotal = s, !.tax = TaxOf(s, row.taxRate),
                    !.total = TotalOf(s, row.taxRate)]

-----------------------------------------------------------------------------
(* Reading *)

IsAdmin(ctx) == "tenant_admin" \in ctx.roles
IsManager(ctx) == ctx.roles \cap {"tenant_admin", "project_manager"} # {}

\* The SELECT of every invoice handler.  deleted_at is NULL in every row: no
\* handler sets it.  A row that is found brings its line items (lazy="selectin"), and
\* their SELECT names every mapped column: if the table lacks one, the request fails.
FindInvoice(ctx, i) ==
    /\ invoices[i] # Unused
    /\ invoices[i].tenant = ctx.tenant
    /\ ItemsLoad

\* Session s has read invoice i and left `row` to be written.
Open(s, op, i, seen, row, new) ==
    /\ txn[s] = Idle
    /\ txn' = [txn EXCEPT ![s] = [op |-> op, inv |-> i, seen |-> seen, row |-> row,
                                  found |-> {}, new |-> new]]

\* Drawn ids are new: neither stored nor held by an open request.
FreshInvoice(i) ==
    /\ invoices[i] = Unused
    /\ \A s \in Sessions : txn[s] # Idle => txn[s].inv # i
FreshItem(k) ==
    /\ \A i \in InvoiceIds : k \notin items[i]
    /\ \A s \in Sessions : txn[s] # Idle => k \notin txn[s].new

-----------------------------------------------------------------------------
(* Handlers *)

Year == today \div DaysPerYear

\* Plausible slip: the count starts at 1 and is never advanced.
CreateInvoice_NeverAdvances(s, ctx, i, rate, due) ==
    LET key == <<ctx.tenant, Year>>
        n   == IF counter[ProcessOf[s]][key] = 0 THEN 1 ELSE counter[ProcessOf[s]][key]
        row == [tenant |-> ctx.tenant, number |-> <<Year, n>>, status |-> "draft",
                due |-> due, taxRate |-> rate, subtotal |-> 0, tax |-> 0,
                total |-> 0, paid |-> NoPayment]
    IN  /\ IsManager(ctx)
        /\ n <= MaxCount
        /\ FreshInvoice(i)
        /\ Open(s, "create", i, row, row, {})
        /\ counter' = [counter EXCEPT ![ProcessOf[s]][key] = n]
        /\ UNCHANGED <<tables, overdue, today>>

\* POST /invoices: _next_invoice_number advances the count of this process, whether
\* or not the INSERT succeeds later.  (The response is built after the commit from
\* line_items nobody has loaded, which fails: the caller is answered 500 although the
\* invoice is stored.)
CreateInvoice(s, ctx, i, rate, due) ==
    LET key == <<ctx.tenant, Year>>
        n   == counter[ProcessOf[s]][key] + 1
        row == [tenant |-> ctx.tenant, number |-> <<Year, n>>, status |-> "draft",
                due |-> due, taxRate |-> rate, subtotal |-> 0, tax |-> 0,
                total |-> 0, paid |-> NoPayment]
    IN  /\ IsManager(ctx)
        /\ n <= MaxCount
        /\ FreshInvoice(i)
        /\ Open(s, "create", i, row, row, {})
        /\ counter' = [counter EXCEPT ![ProcessOf[s]][key] = n]
        /\ UNCHANGED <<tables, overdue, today>>

\* POST .../add-line-item: the invoice row is read; no role is needed.
AddLineItem(s, ctx, i, k) ==
    /\ FindInvoice(ctx, i)
    /\ invoices[i].status = "draft"
    /\ FreshItem(k)
    /\ Open(s, "load", i, invoices[i], invoices[i], {k})
    /\ UNCHANGED <<tables, counter, overdue, today>>

\* lazy="selectin" reads the line items in a second statement, with a snapshot of
\* its own; then the totals are recalculated.
LoadItems(s) ==
    /\ txn[s].op = "load"
    /\ LET t == txn[s]
           found == items[t.inv]
       IN  txn' = [txn EXCEPT ![s] = [t EXCEPT !.op = "add", !.found = found,
                                               !.row = Recalculate(t.row, found, t.new)]]
    /\ UNCHANGED <<tables, counter, overdue, today>>

\* POST .../send
SendInvoice(s, ctx, i) ==
    /\ IsManager(ctx)
    /\ FindInvoice(ctx, i)
    /\ invoices[i].status = "draft"
    /\ Open(s, "send", i, invoices[i], [invoices[i] EXCEPT !.status = "sent"], {})
    /\ UNCHANGED <<tables, counter, overdue, today>>

\* Plausible slip: any payment settles the invoice.
Settled_AnyPayment(amount, total) == "paid"

\* Plausible slip: a status no other code knows.
Settled_Partial(amount, total) == IF amount >= total THEN "paid" ELSE "partial"

\* "paid" if body.paid_amount >= inv.total_amount else "partially_paid"
Settled(amount, total) == IF amount >= total THEN "paid" ELSE "partially_paid"

\* POST .../record-payment: the status is not looked at, and the amount replaces
\* what was paid before.
RecordPayment(s, ctx, i, amount) ==
    /\ IsAdmin(ctx)
    /\ FindInvoice(ctx, i)
    /\ Open(s, "pay", i, invoices[i],
            [invoices[i] EXCEPT !.paid = amount,
                                !.status = Settled(amount, invoices[i].total)], {})
    /\ UNCHANGED <<tables, counter, overdue, today>>

\* POST .../void: from any status.
VoidInvoice(s, ctx, i) ==
    /\ IsAdmin(ctx)
    /\ FindInvoice(ctx, i)
    /\ Open(s, "void", i, invoices[i], [invoices[i] EXCEPT !.status = "void"], {})
    /\ UNCHANGED <<tables, counter, overdue, today>>

-----------------------------------------------------------------------------
(* The end of a request *)

\* The UPDATE of session.commit(); tenant, number, due date and rate are never
\* assigned after the INSERT.
Flush(seen, assigned, committed) ==
    [committed EXCEPT
        !.status   = Column(seen.status, assigned.status, committed.status),
        !.subtotal = Column(seen.subtotal, assigned.subtotal, committed.subtotal),
        !.tax      = Column(seen.tax, assigned.tax, committed.tax),
        !.total    = Column(seen.total, assigned.total, committed.total),
        !.paid     = Column(seen.paid, assigned.paid, committed.paid)]

\* UNIQUE (tenant_id, invoice_number) of the table invoices.
NumberTaken(row) ==
    \E i \in InvoiceIds :
        invoices[i] # Unused /\ invoices[i].tenant = row.tenant /\ invoices[i].number = row.number

InsertInvoice(s) ==
    /\ txn[s].op = "create"
    /\ ~NumberTaken(txn[s].row)
    /\ invoices' = [invoices EXCEPT ![txn[s].inv] = txn[s].row]
    /\ UNCHANGED <<items, sortOrder>>

\* sort_order=len(inv.line_items)
Position(found) == Cardinality(found)

UpdateInvoice(s) ==
    LET t == txn[s]
    IN  /\ t.op \in {"add", "send", "pay", "void"}
        /\ invoices' = [invoices EXCEPT ![t.inv] = Flush(t.seen, t.row, @)]
        /\ items' = [items EXCEPT ![t.inv] = @ \cup t.new]
        /\ sortOrder' = [k \in ItemIds |->
                            IF k \in t.new THEN Position(t.found) ELSE sortOrder[k]]

\* await session.commit()
Commit(s) ==
    /\ InsertInvoice(s) \/ UpdateInvoice(s)
    /\ txn' = [txn EXCEPT ![s] = Idle]
    /\ UNCHANGED <<counter, overdue, today>>

\* The INSERT meets the constraint: IntegrityError, 500, nothing written.
DuplicateNumber(s) ==
    /\ txn[s].op = "create"
    /\ NumberTaken(txn[s].row)
    /\ txn' = [txn EXCEPT ![s] = Idle]
    /\ UNCHANGED <<tables, counter, overdue, today>>

\* Any other failure of a request; the counter is not given back.
Rollback(s) ==
    /\ txn[s] # Idle
    /\ txn' = [txn EXCEPT ![s] = Idle]
    /\ UNCHANGED <<tables, counter, overdue, today>>

\* A process dies and comes back: its requests are rolled back, its counts lost.
Restart(p) ==
    /\ counter' = [counter EXCEPT ![p] = NoCount]
    /\ txn' = [s \in Sessions |-> IF ProcessOf[s] = p THEN Idle ELSE txn[s]]
    /\ UNCHANGED <<tables, overdue, today>>

-----------------------------------------------------------------------------
(* The overdue task (a Celery worker, with a session of its own) *)

\* Plausible slip: an invoice is overdue on its due date.
PastDue_OnTheDay(i) == invoices[i].status = "sent" /\ invoices[i].due <= today

\* Invoice.status == "sent", Invoice.due_date < today
PastDue(i) == invoices[i].status = "sent" /\ invoices[i].due < today

\* The SELECT over all tenants, with the line items of what it finds.
OverdueSelect ==
    LET found == {i \in InvoiceIds : invoices[i] # Unused /\ PastDue(i)}
    IN  /\ ~overdue.running
        /\ found # {} => ItemsLoad
        /\ overdue' = [running |-> TRUE, found |-> found]
        /\ UNCHANGED <<tables, counter, txn, today>>

\* One UPDATE per invoice found, in one transaction: SET status = 'overdue' by
\* primary key, whatever the status is by now.
OverdueCommit ==
    /\ overdue.running
    /\ invoices' = [i \in InvoiceIds |-> IF i \in overdue.found
                                         THEN [invoices[i] EXCEPT !.status = "overdue"]
                                         ELSE invoices[i]]
    /\ overdue' = NotRunning
    /\ UNCHANGED <<items, sortOrder, counter, txn, today>>

OverdueFail ==
    /\ overdue.running
    /\ overdue' = NotRunning
    /\ UNCHANGED <<tables, counter, txn, today>>

NextDay ==
    /\ today < MaxDay
    /\ today' = today + 1
    /\ UNCHANGED <<tables, counter, txn, overdue>>

-----------------------------------------------------------------------------

Post(s, ctx, i) == \E rate \in TaxRates, due \in DueDates : CreateInvoice(s, ctx, i, rate, due)

Request(s, ctx, i) ==
    \/ Post(s, ctx, i)
    \/ \E k \in ItemIds : AddLineItem(s, ctx, i, k)
    \/ SendInvoice(s, ctx, i)
    \/ \E a \in Payments : RecordPayment(s, ctx, i, a)
    \/ VoidInvoice(s, ctx, i)

Finish(s) == LoadItems(s) \/ Commit(s) \/ DuplicateNumber(s)

Next ==
    \/ \E s \in Sessions, ctx \in Contexts, i \in InvoiceIds : Request(s, ctx, i)
    \/ \E s \in Sessions : Finish(s) \/ Rollback(s)
    \/ \E p \in Processes : Restart(p)
    \/ OverdueSelect \/ OverdueCommit \/ OverdueFail
    \/ NextDay

Spec == Init /\ [][Next]_vars

\* Clients that post until they see every invoice they want in GET /invoices (the answer
\* to a POST does not tell them), processes that restart now and then but not for ever,
\* requests that are served to their end.  (No step of a request looks like a Restart:
\* while a POST is open its count is not zero.)
NumberingNext ==
    \/ \E s \in Sessions, ctx \in Contexts, i \in InvoiceIds : Post(s, ctx, i)
    \/ \E s \in Sessions : Commit(s) \/ DuplicateNumber(s)
    \/ \E p \in Processes : Restart(p)

NumberingFairness ==
    /\ \A s \in Sessions :
        /\ WF_vars(Commit(s) \/ DuplicateNumber(s))
        /\ WF_vars(\E ctx \in Contexts, i \in InvoiceIds : Post(s, ctx, i))
    /\ <>[][\A p \in Processes : ~Restart(p)]_vars

-----------------------------------------------------------------------------
(* Properties that hold however many requests, processes and tasks overlap *)

\* A subtotal is always the sum of some of the invoice's items: a lost update may
\* drop items from the bill, but nothing is billed twice or without an item.
SubtotalIsOfItems ==
    \A i \in InvoiceIds : invoices[i] # Unused =>
        \E S \in SUBSET items[i] : invoices[i].subtotal = Sum(S)

\* An overdue invoice is past its due date, however late the task writes.
OverdueIsPastDue ==
    \A i \in InvoiceIds : (invoices[i] # Unused /\ invoices[i].status = "overdue")
                              => invoices[i].due < today

-----------------------------------------------------------------------------
(* Properties of requests that do not overlap *)

\* The stored subtotal, tax and total are those of all the invoice's items.
TotalsMatchItems ==
    \A i \in InvoiceIds : invoices[i] # Unused =>
        LET inv == invoices[i] IN
        /\ inv.subtotal = Sum(items[i])
        /\ inv.tax = TaxOf(inv.subtotal, inv.taxRate)
        /\ inv.total = TotalOf(inv.subtotal, inv.taxRate)

\* The printed columns add up to the total within one cent (tax_amount and
\* total_amount are rounded separately, so not always exactly).
ColumnsAddUpToACent ==
    \A i \in InvoiceIds : invoices[i] # Unused =>
        LET inv == invoices[i]
        IN  inv.total - (inv.subtotal + inv.tax - Discount) \in -1 .. 1

\* An invoice called paid has been paid in full.
PaidCoversTotal ==
    \A i \in InvoiceIds : (invoices[i] # Unused /\ invoices[i].status = "paid")
                              => invoices[i].paid >= invoices[i].total

-----------------------------------------------------------------------------
(* Liveness *)

\* Every invoice a client keeps asking for gets created: the numbers that clash
\* run out, because a failed attempt still advances the counter.
RetriesSucceed == <>(\A i \in InvoiceIds : invoices[i] # Unused)

=============================================================================
