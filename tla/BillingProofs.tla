---------------------------- MODULE BillingProofs ----------------------------
(***************************************************************************)
(* Proofs about the billing service, for every set of invoices, items,     *)
(* tenants, processes and callers: what holds of any number of overlapping *)
(* requests, restarts and runs of the overdue task, and what holds of them *)
(* one after the other.                                                    *)
(*                                                                         *)
(* Money is typed by where it comes from; that it is a number follows from *)
(* the lemmas about sums in Induction.                                     *)
(***************************************************************************)
EXTENDS MCBilling, Induction

\* The amounts an invoice can show: nothing, or what _recalculate_totals computes.
Subtotals == {0} \cup {Sum(S) : S \in SUBSET ItemIds}
Taxes == {0} \cup {TaxOf(b[1], b[2]) : b \in Subtotals \X TaxRates}
Totals == {0} \cup {TotalOf(b[1], b[2]) : b \in Subtotals \X TaxRates}

BillRow == [tenant : Tenants, number : Numbers, status : Statuses, due : Int,
            taxRate : TaxRates, subtotal : Subtotals, tax : Taxes, total : Totals,
            paid : Nat \cup {NoPayment}]

Ops == {"create", "load", "add", "send", "pay", "void"}
BillTxn == [op : Ops, inv : InvoiceIds, seen : BillRow, row : BillRow,
            found : SUBSET ItemIds, new : SUBSET ItemIds]

\* The type of the state.
ShapeInv ==
    /\ invoices \in [InvoiceIds -> BillRow \cup {Unused}]
    /\ items \in [InvoiceIds -> SUBSET ItemIds]
    /\ counter \in [Processes -> [Tenants \X Years -> Nat]]
    /\ txn \in [Sessions -> BillTxn \cup {Idle}]
    /\ overdue \in [running : BOOLEAN, found : SUBSET InvoiceIds]
    /\ today \in 0 .. MaxDay

\* What an open request may rely on when it commits: no other request holds the key
\* of an invoice it creates; an invoice it changes exists, with at least the items
\* it read; the subtotal it writes is that of these items and its own; and it never
\* sets a status to overdue.
OpenInv(s) ==
    LET t == txn[s] IN
    /\ t.found \subseteq items[t.inv]
    /\ t.row.status # t.seen.status => t.row.status # "overdue"
    /\ t.op = "create" =>
        /\ invoices[t.inv] = Unused
        /\ t.row.status = "draft" /\ t.row.subtotal = 0
        /\ \A r \in Sessions \ {s} : txn[r] # Idle => txn[r].inv # t.inv
    /\ t.op # "create" => invoices[t.inv] # Unused
    /\ \/ t.row.subtotal = t.seen.subtotal
       \/ t.op = "add" /\ t.row.subtotal = Sum(t.found \cup t.new)

TxnInv == \A s \in Sessions : txn[s] # Idle => OpenInv(s)

\* What the overdue task found is past due when it writes, whatever has happened to
\* the status since.
FoundInv ==
    \A i \in overdue.found : invoices[i] # Unused /\ invoices[i].due < today

IInv ==
    /\ ShapeInv
    /\ TxnInv
    /\ FoundInv
    /\ SubtotalIsOfItems
    /\ OverdueIsPastDue

-----------------------------------------------------------------------------
\* A row is never the placeholder: the placeholder has one column.
LEMMA UnusedIsNoRow == Unused \notin BillRow
BY DEF BillRow, Unused, Statuses

\* An idle session has no open request.
LEMMA IdleIsNoTxn == Idle \notin BillTxn
BY DEF BillTxn, Idle, Ops

\* The subtotal of no items.
LEMMA SumOfNone == Sum({}) = 0
BY SumOfNothing DEF Sum

\* A date within the calendar lies in one of its years.
LEMMA YearType ==
    ASSUME today \in 0 .. MaxDay
    PROVE  Year \in Years
<1> DEFINE d == DaysPerYear
           q == today \div d
           m == MaxDay \div d
<1>1. d \in Nat \ {0} /\ MaxDay \in Nat /\ today \in Nat /\ today <= MaxDay
  BY CalendarAssumption
<1>2. q \in Nat /\ q * d <= today
  BY <1>1
<1>3. m \in Nat /\ MaxDay < (m + 1) * d
  BY <1>1
<1> HIDE DEF q, m, d
<1>4. ASSUME q >= m + 1 PROVE FALSE
  <2>1. q * d >= (m + 1) * d
    BY <1>1, <1>2, <1>3, <1>4
  <2> QED BY <2>1, <1>1, <1>2, <1>3
<1>5. q \in 0 .. m
  BY <1>2, <1>3, <1>4
<1> QED BY <1>5 DEF q, m, d, Year, Years

\* An empty database satisfies the invariant.
LEMMA InitIInv == Init => IInv
<1> SUFFICES ASSUME Init PROVE IInv
  OBVIOUS
<1>1. ShapeInv
  <2>1. counter \in [Processes -> [Tenants \X Years -> Nat]]
    BY DEF Init, NoCount
  <2>2. overdue \in [running : BOOLEAN, found : SUBSET InvoiceIds]
    BY DEF Init, NotRunning
  <2>3. today \in 0 .. MaxDay
    BY CalendarAssumption DEF Init
  <2>4. /\ invoices \in [InvoiceIds -> BillRow \cup {Unused}]
        /\ items \in [InvoiceIds -> SUBSET ItemIds]
        /\ txn \in [Sessions -> BillTxn \cup {Idle}]
    BY DEF Init
  <2> QED BY <2>1, <2>2, <2>3, <2>4 DEF ShapeInv
<1>2. TxnInv /\ FoundInv
  BY DEF Init, TxnInv, FoundInv, NotRunning
<1>3. SubtotalIsOfItems /\ OverdueIsPastDue
  BY DEF Init, SubtotalIsOfItems, OverdueIsPastDue
<1> QED BY <1>1, <1>2, <1>3 DEF IInv

\* The columns a commit leaves alone, and those it writes.
LEMMA FlushRow ==
    ASSUME NEW a \in BillRow, NEW b \in BillRow, NEW c \in BillRow
    PROVE  /\ Flush(a, b, c) \in BillRow
           /\ Flush(a, b, c).tenant = c.tenant
           /\ Flush(a, b, c).number = c.number
           /\ Flush(a, b, c).due = c.due
           /\ Flush(a, b, c).status = Column(a.status, b.status, c.status)
           /\ Flush(a, b, c).subtotal = Column(a.subtotal, b.subtotal, c.subtotal)
<1> DEFINE F(st, su, ta, to, pa) ==
              [c EXCEPT !.status = st, !.subtotal = su, !.tax = ta, !.total = to, !.paid = pa]
<1>1. ASSUME NEW st \in Statuses, NEW su \in Subtotals, NEW ta \in Taxes, NEW to \in Totals,
             NEW pa \in Nat \cup {NoPayment}
      PROVE  /\ F(st, su, ta, to, pa) \in BillRow
             /\ F(st, su, ta, to, pa).tenant = c.tenant
             /\ F(st, su, ta, to, pa).number = c.number
             /\ F(st, su, ta, to, pa).due = c.due
             /\ F(st, su, ta, to, pa).status = st
             /\ F(st, su, ta, to, pa).subtotal = su
  BY DEF BillRow
<1> HIDE DEF F
<1> DEFINE st == Column(a.status, b.status, c.status)
           su == Column(a.subtotal, b.subtotal, c.subtotal)
           ta == Column(a.tax, b.tax, c.tax)
           to == Column(a.total, b.total, c.total)
           pa == Column(a.paid, b.paid, c.paid)
<1>2. /\ st \in Statuses /\ su \in Subtotals /\ ta \in Taxes /\ to \in Totals
      /\ pa \in Nat \cup {NoPayment}
  BY DEF BillRow, Column
<1>3. Flush(a, b, c) = F(st, su, ta, to, pa)
  BY Zenon DEF Flush, F
<1> HIDE DEF st, su, ta, to, pa
<1>4. /\ Flush(a, b, c) \in BillRow
      /\ Flush(a, b, c).tenant = c.tenant
      /\ Flush(a, b, c).number = c.number
      /\ Flush(a, b, c).due = c.due
      /\ Flush(a, b, c).status = st
      /\ Flush(a, b, c).subtotal = su
  BY <1>1, <1>2, <1>3
<1> QED BY <1>4 DEF st, su

\* While the tables and the task stand still, only the requests' own part of the
\* invariant can be disturbed.
LEMMA TablesStand ==
    ASSUME IInv, UNCHANGED <<tables, overdue, today>>,
           counter' \in [Processes -> [Tenants \X Years -> Nat]],
           txn' \in [Sessions -> BillTxn \cup {Idle}], TxnInv'
    PROVE  IInv'
<1>1. invoices' = invoices /\ items' = items /\ overdue' = overdue /\ today' = today
  BY DEF tables
<1>2. ShapeInv' /\ FoundInv'
  BY <1>1 DEF IInv, ShapeInv, FoundInv
<1>3. (SubtotalIsOfItems /\ OverdueIsPastDue)'
  BY <1>1 DEF IInv, SubtotalIsOfItems, OverdueIsPastDue
<1> QED BY <1>2, <1>3 DEF IInv

\* Requests that end without writing keep the invariant: there are fewer of them.
LEMMA CloseIInv ==
    ASSUME IInv, UNCHANGED <<tables, overdue, today>>,
           counter' \in [Processes -> [Tenants \X Years -> Nat]],
           txn' \in [Sessions -> BillTxn \cup {Idle}],
           \A s \in Sessions : txn'[s] = Idle \/ txn'[s] = txn[s]
    PROVE  IInv'
<1>1. invoices' = invoices /\ items' = items
  BY DEF tables
<1>2. TxnInv'
  <2> SUFFICES ASSUME NEW s \in Sessions, txn'[s] # Idle
               PROVE  OpenInv(s)'
    BY DEF TxnInv
  <2>1. txn'[s] = txn[s] /\ OpenInv(s)
    BY DEF IInv, TxnInv
  <2> QED BY <2>1, <1>1 DEF OpenInv
<1> QED BY <1>2, TablesStand

\* A handler that opens a request on rows as OpenInv wants them keeps the invariant.
LEMMA OpenIInv ==
    ASSUME IInv, NEW s \in Sessions, NEW op \in Ops, NEW i \in InvoiceIds,
           NEW seen \in BillRow, NEW row \in BillRow, NEW new \in SUBSET ItemIds,
           Open(s, op, i, seen, row, new), UNCHANGED <<tables, overdue, today>>,
           counter' \in [Processes -> [Tenants \X Years -> Nat]],
           row.status # seen.status => row.status # "overdue",
           row.subtotal = seen.subtotal,
           op = "create" => FreshInvoice(i) /\ row.status = "draft" /\ row.subtotal = 0,
           op # "create" => invoices[i] # Unused
    PROVE  IInv'
<1> DEFINE t == [op |-> op, inv |-> i, seen |-> seen, row |-> row, found |-> {},
                 new |-> new]
<1>1. txn[s] = Idle /\ txn' = [txn EXCEPT ![s] = t]
  BY DEF Open
<1>2. t \in BillTxn
  BY DEF BillTxn
<1>3. /\ t.op = op /\ t.inv = i /\ t.seen = seen /\ t.row = row /\ t.found = {}
      /\ t # Idle
  BY <1>2, IdleIsNoTxn
<1> HIDE DEF t
<1>4. invoices' = invoices /\ items' = items
  BY DEF tables
<1>5. txn' \in [Sessions -> BillTxn \cup {Idle}]
  BY <1>1, <1>2 DEF IInv, ShapeInv
<1>6. txn'[s] = t /\ \A r \in Sessions \ {s} : txn'[r] = txn[r]
  BY <1>1 DEF IInv, ShapeInv
<1>7. TxnInv'
  <2> SUFFICES ASSUME NEW r \in Sessions, txn'[r] # Idle
               PROVE  OpenInv(r)'
    BY DEF TxnInv
  <2>1. CASE r = s
    BY <2>1, <1>3, <1>4, <1>6 DEF OpenInv, FreshInvoice
  <2>2. CASE r # s
    <3>1. txn'[r] = txn[r] /\ OpenInv(r)
      BY <2>2, <1>6 DEF IInv, TxnInv
    <3>2. txn[r].op = "create" => txn[r].inv # i
      BY <3>1, <1>6, <2>2 DEF OpenInv, FreshInvoice
    <3> QED BY <2>2, <3>1, <3>2, <1>3, <1>4, <1>6 DEF OpenInv
  <2> QED BY <2>1, <2>2
<1> QED BY <1>5, <1>7, TablesStand

\* A rate and a due date of a request, a tenant of a caller.
LEMMA BodyTypes ==
    /\ \A due \in DueDates : due \in Int
    /\ \A a \in Payments : a \in Nat
    /\ \A ctx \in Contexts : ctx.tenant \in Tenants
BY BodiesAssumption, ContextsAssumption

\* create_invoice: the number is well typed, and the key is nobody's.
LEMMA CreateIInv ==
    ASSUME IInv, NEW s \in Sessions, NEW ctx \in Contexts, NEW i \in InvoiceIds,
           NEW rate \in TaxRates, NEW due \in DueDates,
           CreateInvoice(s, ctx, i, rate, due)
    PROVE  IInv'
<1> DEFINE p == ProcessOf[s]
           key == <<ctx.tenant, Year>>
           n == counter[p][key] + 1
           row == [tenant |-> ctx.tenant, number |-> <<Year, n>>, status |-> "draft",
                   due |-> due, taxRate |-> rate, subtotal |-> 0, tax |-> 0,
                   total |-> 0, paid |-> NoPayment]
<1>1. p \in Processes
  BY ProcessAssumption
<1>2. Year \in Years
  BY YearType DEF IInv, ShapeInv
<1>3. key \in Tenants \X Years
  BY <1>2, BodyTypes
<1>4. n \in Nat \ {0}
  BY <1>1, <1>3 DEF IInv, ShapeInv
<1>5. /\ counter' = [counter EXCEPT ![p][key] = n]
      /\ Open(s, "create", i, row, row, {}) /\ FreshInvoice(i)
      /\ UNCHANGED <<tables, overdue, today>>
  BY DEF CreateInvoice
<1>6. row \in BillRow
  BY <1>2, <1>4, BodyTypes DEF BillRow, Numbers, Statuses, Subtotals, Taxes, Totals
<1>7. row.status = "draft" /\ row.subtotal = 0
  OBVIOUS
<1> HIDE DEF p, key, n, row
<1>8. counter' \in [Processes -> [Tenants \X Years -> Nat]]
  BY <1>1, <1>3, <1>4, <1>5 DEF IInv, ShapeInv
<1>9. "create" \in Ops /\ {} \in SUBSET ItemIds
  BY DEF Ops
<1> QED BY <1>5, <1>6, <1>7, <1>8, <1>9, OpenIInv

\* The handlers that change an invoice: what they assign is a row, and not the
\* status overdue.
LEMMA ChangeIInv ==
    ASSUME IInv, NEW s \in Sessions, NEW op \in Ops \ {"create"}, NEW ctx \in Contexts,
           NEW i \in InvoiceIds, NEW row \in BillRow, NEW new \in SUBSET ItemIds,
           FindInvoice(ctx, i), Open(s, op, i, invoices[i], row, new),
           UNCHANGED <<tables, counter, overdue, today>>,
           row.status # invoices[i].status => row.status # "overdue",
           row.subtotal = invoices[i].subtotal
    PROVE  IInv'
<1>1. invoices[i] \in BillRow /\ invoices[i] # Unused
  BY DEF FindInvoice, IInv, ShapeInv
<1>2. counter' \in [Processes -> [Tenants \X Years -> Nat]]
  BY DEF IInv, ShapeInv
<1> QED BY <1>1, <1>2, OpenIInv

\* Every handler up to its commit: one step per handler.
LEMMA RequestIInv ==
    ASSUME IInv, NEW s \in Sessions, NEW ctx \in Contexts, NEW i \in InvoiceIds,
           Request(s, ctx, i)
    PROVE  IInv'
<1>0. FindInvoice(ctx, i) => invoices[i] \in BillRow
  BY DEF FindInvoice, IInv, ShapeInv
<1>1. ASSUME Post(s, ctx, i) PROVE IInv'
  BY <1>1, CreateIInv DEF Post
<1>2. ASSUME NEW k \in ItemIds, AddLineItem(s, ctx, i, k) PROVE IInv'
  BY <1>0, <1>2, ChangeIInv DEF AddLineItem, Ops
<1>3. ASSUME SendInvoice(s, ctx, i) PROVE IInv'
  <2> DEFINE row == [invoices[i] EXCEPT !.status = "sent"]
  <2>1. /\ FindInvoice(ctx, i) /\ Open(s, "send", i, invoices[i], row, {})
        /\ UNCHANGED <<tables, counter, overdue, today>>
    BY <1>3 DEF SendInvoice
  <2>2. row \in BillRow /\ row.status = "sent" /\ row.subtotal = invoices[i].subtotal
    BY <1>0, <2>1 DEF BillRow, Statuses
  <2> HIDE DEF row
  <2> QED BY <2>1, <2>2, ChangeIInv DEF Ops
<1>4. ASSUME NEW a \in Payments, RecordPayment(s, ctx, i, a) PROVE IInv'
  <2> DEFINE st == Settled(a, invoices[i].total)
             row == [invoices[i] EXCEPT !.paid = a, !.status = st]
  <2>1. /\ FindInvoice(ctx, i) /\ Open(s, "pay", i, invoices[i], row, {})
        /\ UNCHANGED <<tables, counter, overdue, today>>
    BY <1>4 DEF RecordPayment
  <2>2. st \in {"paid", "partially_paid"}
    BY DEF Settled
  <2> HIDE DEF st
  <2>3. row \in BillRow /\ row.status = st /\ row.subtotal = invoices[i].subtotal
    BY <1>0, <2>1, <2>2, BodyTypes DEF BillRow, Statuses
  <2> HIDE DEF row
  <2> QED BY <2>1, <2>2, <2>3, ChangeIInv DEF Ops
<1>5. ASSUME VoidInvoice(s, ctx, i) PROVE IInv'
  <2> DEFINE row == [invoices[i] EXCEPT !.status = "void"]
  <2>1. /\ FindInvoice(ctx, i) /\ Open(s, "void", i, invoices[i], row, {})
        /\ UNCHANGED <<tables, counter, overdue, today>>
    BY <1>5 DEF VoidInvoice
  <2>2. row \in BillRow /\ row.status = "void" /\ row.subtotal = invoices[i].subtotal
    BY <1>0, <2>1 DEF BillRow, Statuses
  <2> HIDE DEF row
  <2>3. "void" \in Ops \ {"create"} /\ {} \in SUBSET ItemIds /\ "void" # "overdue"
    BY DEF Ops
  <2> QED BY <2>1, <2>2, <2>3, ChangeIInv
<1> QED BY <1>1, <1>2, <1>3, <1>4, <1>5 DEF Request

-----------------------------------------------------------------------------
\* What is computed from a subtotal is among the amounts an invoice can show.
LEMMA AmountTypes ==
    ASSUME NEW a \in Subtotals, NEW r \in TaxRates
    PROVE  TaxOf(a, r) \in Taxes /\ TotalOf(a, r) \in Totals
<1> DEFINE b == <<a, r>>
<1>1. b \in Subtotals \X TaxRates /\ b[1] = a /\ b[2] = r
  OBVIOUS
<1> HIDE DEF b
<1>2. TaxOf(b[1], b[2]) \in Taxes
  BY <1>1 DEF Taxes
<1>3. TotalOf(b[1], b[2]) \in Totals
  BY <1>1 DEF Totals
<1> QED BY <1>1, <1>2, <1>3

\* The second read of add_line_item and the new totals.
LEMMA LoadIInv ==
    ASSUME IInv, NEW s \in Sessions, LoadItems(s)
    PROVE  IInv'
<1> DEFINE t == txn[s]
           f == items[t.inv]
           row == Recalculate(t.row, f, t.new)
           u == [t EXCEPT !.op = "add", !.found = f, !.row = row]
<1>1. t.op = "load" /\ txn' = [txn EXCEPT ![s] = u] /\ UNCHANGED <<tables, counter, overdue, today>>
  BY DEF LoadItems
<1>2. t # Idle
  BY <1>1 DEF Idle
<1>3. t \in BillTxn /\ OpenInv(s)
  BY <1>2 DEF IInv, ShapeInv, TxnInv
<1>4. f \in SUBSET ItemIds /\ t.new \in SUBSET ItemIds /\ t.row \in BillRow
  BY <1>3 DEF BillTxn, IInv, ShapeInv
<1>5. /\ row \in BillRow /\ row.status = t.row.status
      /\ row.subtotal = Sum(f \cup t.new)
  <2> DEFINE q == Sum(f \cup t.new)
             x == TaxOf(q, t.row.taxRate)
             w == TotalOf(q, t.row.taxRate)
  <2>1. q \in Subtotals
    BY <1>4 DEF Subtotals
  <2>2. t.row.taxRate \in TaxRates
    BY <1>4 DEF BillRow
  <2>3. x \in Taxes /\ w \in Totals
    BY <2>1, <2>2, AmountTypes
  <2>4. row = [t.row EXCEPT !.subtotal = q, !.tax = x, !.total = w]
    BY DEF Recalculate
  <2> HIDE DEF q, x, w, row
  <2>5. /\ row \in BillRow /\ row.status = t.row.status
        /\ row.subtotal = q
    BY <1>4, <2>1, <2>3, <2>4 DEF BillRow
  <2> QED BY <2>5 DEF q
<1> HIDE DEF f, row
<1>6. /\ u \in BillTxn /\ u.op = "add" /\ u.inv = t.inv /\ u.seen = t.seen /\ u.row = row
      /\ u.found = f /\ u.new = t.new
  BY <1>3, <1>4, <1>5 DEF BillTxn, Ops
<1>7. u # Idle
  BY <1>6, IdleIsNoTxn
<1> HIDE DEF u
<1>8. invoices' = invoices /\ items' = items /\ counter' = counter
  BY <1>1 DEF tables
<1>9. txn'[s] = u /\ \A r \in Sessions \ {s} : txn'[r] = txn[r]
  BY <1>1 DEF IInv, ShapeInv
<1>10. txn' \in [Sessions -> BillTxn \cup {Idle}]
  BY <1>1, <1>6 DEF IInv, ShapeInv
<1>11. TxnInv'
  <2> SUFFICES ASSUME NEW r \in Sessions, txn'[r] # Idle
               PROVE  OpenInv(r)'
    BY DEF TxnInv
  <2>1. CASE r = s
    <3>1. txn'[s] = u /\ t.op = "load"
      BY <1>1, <1>9
    <3>2. /\ t.row.status # t.seen.status => t.row.status # "overdue"
          /\ invoices[t.inv] # Unused
      BY <1>3, <3>1 DEF OpenInv
    <3>3. u.found = items'[u.inv] /\ invoices'[u.inv] # Unused
      BY <1>6, <1>8, <3>2 DEF f
    <3>4. /\ u.row.status # u.seen.status => u.row.status # "overdue"
          /\ u.row.subtotal = Sum(u.found \cup u.new)
      BY <1>5, <1>6, <3>2
    <3> QED BY <1>6, <2>1, <3>1, <3>3, <3>4 DEF OpenInv
  <2>2. CASE r # s
    <3>1. txn'[r] = txn[r] /\ OpenInv(r)
      BY <2>2, <1>9 DEF IInv, TxnInv
    <3> QED BY <2>2, <3>1, <1>2, <1>6, <1>8, <1>9 DEF OpenInv
  <2> QED BY <2>1, <2>2
<1>12. counter' \in [Processes -> [Tenants \X Years -> Nat]]
  BY <1>8 DEF IInv, ShapeInv
<1> QED BY <1>1, <1>10, <1>11, <1>12, TablesStand

\* session.commit() of a new invoice.  Its number is free and its key is nobody's.
LEMMA InsertIInv ==
    ASSUME IInv, NEW s \in Sessions, InsertInvoice(s),
           txn' = [txn EXCEPT ![s] = Idle], UNCHANGED <<counter, overdue, today>>
    PROVE  IInv'
<1> DEFINE i == txn[s].inv
           row == txn[s].row
<1>1. /\ txn[s].op = "create"
      /\ invoices' = [invoices EXCEPT ![i] = row] /\ items' = items
  BY DEF InsertInvoice
<1>2. txn[s] # Idle
  BY <1>1 DEF Idle
<1>3. txn[s] \in BillTxn /\ OpenInv(s)
  BY <1>2 DEF IInv, ShapeInv, TxnInv
<1>4. i \in InvoiceIds /\ row \in BillRow
  BY <1>3 DEF BillTxn
<1>5. /\ invoices[i] = Unused /\ row.status = "draft" /\ row.subtotal = 0
      /\ \A r \in Sessions \ {s} : txn[r] # Idle => txn[r].inv # i
  BY <1>1, <1>3 DEF OpenInv
<1>6. row # Unused
  BY <1>4, UnusedIsNoRow
<1> HIDE DEF i, row
<1>7. /\ invoices'[i] = row
      /\ \A j \in InvoiceIds \ {i} : invoices'[j] = invoices[j]
  BY <1>1, <1>4 DEF IInv, ShapeInv
<1>8. txn'[s] = Idle /\ \A r \in Sessions \ {s} : txn'[r] = txn[r]
  BY DEF IInv, ShapeInv
<1>9. ShapeInv'
  BY <1>1, <1>4 DEF IInv, ShapeInv
<1>10. TxnInv'
  <2> SUFFICES ASSUME NEW r \in Sessions, txn'[r] # Idle
               PROVE  OpenInv(r)'
    BY DEF TxnInv
  <2>1. r # s /\ txn'[r] = txn[r] /\ txn[r] \in BillTxn /\ OpenInv(r)
    BY <1>8 DEF IInv, TxnInv, ShapeInv
  <2>2. invoices'[txn[r].inv] = invoices[txn[r].inv]
    BY <2>1, <1>5, <1>7 DEF BillTxn
  <2>3. \A q \in Sessions : txn'[q] # Idle => txn'[q] = txn[q]
    BY <1>8
  <2> QED BY <2>1, <2>2, <2>3, <1>1 DEF OpenInv
<1>11. FoundInv'
  BY <1>5, <1>7 DEF IInv, ShapeInv, FoundInv
<1>12. SubtotalIsOfItems'
  BY <1>1, <1>5, <1>7, SumOfNone DEF IInv, SubtotalIsOfItems
<1>13. OverdueIsPastDue'
  BY <1>5, <1>7 DEF IInv, OverdueIsPastDue
<1> QED BY <1>9, <1>10, <1>11, <1>12, <1>13 DEF IInv

\* session.commit() of a change, against whatever has been committed since the read:
\* the items it counted are still there, and overdue is not what it writes.
LEMMA UpdateIInv ==
    ASSUME IInv, NEW s \in Sessions, UpdateInvoice(s),
           txn' = [txn EXCEPT ![s] = Idle], UNCHANGED <<counter, overdue, today>>
    PROVE  IInv'
<1> DEFINE t == txn[s]
           i == t.inv
           row == Flush(t.seen, t.row, invoices[i])
<1>1. /\ t.op \in {"add", "send", "pay", "void"}
      /\ invoices' = [invoices EXCEPT ![i] = row]
      /\ items' = [items EXCEPT ![i] = @ \cup t.new]
  BY DEF UpdateInvoice
<1>2. t # Idle
  BY <1>1 DEF Idle
<1>3. t \in BillTxn /\ OpenInv(s)
  BY <1>2 DEF IInv, ShapeInv, TxnInv
<1>4. /\ i \in InvoiceIds /\ t.seen \in BillRow /\ t.row \in BillRow
      /\ t.new \in SUBSET ItemIds
  BY <1>3 DEF BillTxn
<1>5. /\ invoices[i] # Unused
      /\ t.found \subseteq items[i]
      /\ t.row.status # t.seen.status => t.row.status # "overdue"
      /\ \/ t.row.subtotal = t.seen.subtotal
         \/ t.row.subtotal = Sum(t.found \cup t.new)
  BY <1>1, <1>3 DEF OpenInv
<1>6. invoices[i] \in BillRow
  BY <1>4, <1>5 DEF IInv, ShapeInv
<1>7. /\ row \in BillRow
      /\ row.tenant = invoices[i].tenant /\ row.number = invoices[i].number
      /\ row.due = invoices[i].due
      /\ row.status = Column(t.seen.status, t.row.status, invoices[i].status)
      /\ row.subtotal = Column(t.seen.subtotal, t.row.subtotal, invoices[i].subtotal)
  BY <1>4, <1>6, FlushRow
<1>8. row # Unused
  BY <1>7, UnusedIsNoRow
<1> HIDE DEF row, i, t
<1>9. /\ invoices'[i] = row
      /\ \A j \in InvoiceIds \ {i} : invoices'[j] = invoices[j]
      /\ items'[i] = items[i] \cup t.new
      /\ \A j \in InvoiceIds \ {i} : items'[j] = items[j]
  BY <1>1, <1>4 DEF IInv, ShapeInv
<1>10. txn'[s] = Idle /\ \A r \in Sessions \ {s} : txn'[r] = txn[r]
  BY DEF IInv, ShapeInv
<1>11. ShapeInv'
  BY <1>1, <1>4, <1>7 DEF IInv, ShapeInv
<1>12. \A j \in InvoiceIds :
          /\ (invoices'[j] = Unused) <=> (invoices[j] = Unused)
          /\ items[j] \subseteq items'[j]
          /\ invoices[j] # Unused => /\ invoices'[j].tenant = invoices[j].tenant
                                     /\ invoices'[j].number = invoices[j].number
                                     /\ invoices'[j].due = invoices[j].due
  BY <1>5, <1>7, <1>8, <1>9
<1>13. TxnInv'
  <2> SUFFICES ASSUME NEW r \in Sessions, txn'[r] # Idle
               PROVE  OpenInv(r)'
    BY DEF TxnInv
  <2>1. r # s /\ txn'[r] = txn[r] /\ txn[r] \in BillTxn /\ OpenInv(r)
    BY <1>10 DEF IInv, TxnInv, ShapeInv
  <2>2. txn[r].inv \in InvoiceIds
    BY <2>1 DEF BillTxn
  <2>3. \A q \in Sessions : txn'[q] # Idle => txn'[q] = txn[q]
    BY <1>10
  <2> QED BY <2>1, <2>2, <2>3, <1>12 DEF OpenInv
<1>14. FoundInv'
  <2>1. overdue.found \subseteq InvoiceIds
    BY DEF IInv, ShapeInv
  <2> QED BY <2>1, <1>12 DEF IInv, FoundInv
<1>15. SubtotalIsOfItems'
  <2> SUFFICES ASSUME NEW j \in InvoiceIds, invoices'[j] # Unused
               PROVE  \E S \in SUBSET items'[j] : invoices'[j].subtotal = Sum(S)
    BY DEF SubtotalIsOfItems
  <2>1. PICK S \in SUBSET items[j] : invoices[j].subtotal = Sum(S)
    BY <1>12 DEF IInv, SubtotalIsOfItems
  <2>2. S \in SUBSET items'[j]
    BY <1>12
  <2>3. CASE invoices'[j].subtotal = invoices[j].subtotal
    BY <2>1, <2>2, <2>3
  <2>4. CASE invoices'[j].subtotal # invoices[j].subtotal
    <3>1. j = i /\ invoices'[j].subtotal = Sum(t.found \cup t.new)
      BY <2>4, <1>5, <1>7, <1>9 DEF Column
    <3>2. t.found \cup t.new \in SUBSET items'[j]
      BY <3>1, <1>5, <1>9
    <3> QED BY <3>1, <3>2
  <2> QED BY <2>3, <2>4
<1>16. OverdueIsPastDue'
  <2> SUFFICES ASSUME NEW j \in InvoiceIds, invoices'[j] # Unused,
                      invoices'[j].status = "overdue"
               PROVE  invoices'[j].due < today'
    BY DEF OverdueIsPastDue
  <2>1. invoices[j] # Unused /\ invoices'[j].due = invoices[j].due
    BY <1>12
  <2>2. invoices[j].status = "overdue"
    BY <1>5, <1>7, <1>9 DEF Column
  <2> QED BY <2>1, <2>2 DEF IInv, OverdueIsPastDue
<1> QED BY <1>11, <1>13, <1>14, <1>15, <1>16 DEF IInv

-----------------------------------------------------------------------------
\* The overdue task and the calendar: requests are not disturbed as long as keys,
\* items and due dates stay.
LEMMA OverdueSelectIInv == ASSUME IInv, OverdueSelect PROVE IInv'
<1>1. invoices' = invoices /\ items' = items /\ counter' = counter /\ txn' = txn /\ today' = today
  BY DEF OverdueSelect, tables
<1>2. /\ overdue' = [running |-> TRUE, found |-> overdue'.found]
      /\ overdue'.found = {i \in InvoiceIds : invoices[i] # Unused /\ PastDue(i)}
  BY DEF OverdueSelect
<1>3. overdue' \in [running : BOOLEAN, found : SUBSET InvoiceIds]
  <2>1. overdue'.found \in SUBSET InvoiceIds
    BY <1>2
  <2>2. \A F \in SUBSET InvoiceIds :
          [running |-> TRUE, found |-> F] \in [running : BOOLEAN, found : SUBSET InvoiceIds]
    OBVIOUS
  <2> QED BY <1>2, <2>1, <2>2, Zenon
<1>4. ShapeInv'
  BY <1>1, <1>3 DEF IInv, ShapeInv
<1>5. TxnInv'
  BY <1>1 DEF IInv, TxnInv, OpenInv
<1>6. FoundInv'
  BY <1>1, <1>2 DEF FoundInv, PastDue
<1>7. (SubtotalIsOfItems /\ OverdueIsPastDue)'
  BY <1>1 DEF IInv, SubtotalIsOfItems, OverdueIsPastDue
<1> QED BY <1>4, <1>5, <1>6, <1>7 DEF IInv

\* The task's commit changes a status and nothing else.
LEMMA OverdueCommitIInv == ASSUME IInv, OverdueCommit PROVE IInv'
<1>1. /\ items' = items /\ counter' = counter /\ txn' = txn /\ today' = today
      /\ overdue' = NotRunning
      /\ invoices' = [i \in InvoiceIds |-> IF i \in overdue.found
                                            THEN [invoices[i] EXCEPT !.status = "overdue"]
                                            ELSE invoices[i]]
  BY DEF OverdueCommit
<1>2. overdue' \in [running : BOOLEAN, found : SUBSET InvoiceIds] /\ overdue'.found = {}
  BY <1>1 DEF NotRunning
<1>3. ASSUME NEW i \in overdue.found
      PROVE  i \in InvoiceIds /\ invoices[i] \in BillRow /\ invoices[i].due < today
  <2>1. i \in InvoiceIds
    BY DEF IInv, ShapeInv
  <2> QED BY <2>1 DEF IInv, ShapeInv, FoundInv
<1>4. ASSUME NEW r \in BillRow
      PROVE  LET u == [r EXCEPT !.status = "overdue"]
             IN  /\ u \in BillRow /\ u.tenant = r.tenant /\ u.number = r.number
                 /\ u.due = r.due /\ u.subtotal = r.subtotal /\ u.status = "overdue"
  BY DEF BillRow, Statuses
<1>5. \A i \in InvoiceIds : i \in overdue.found =>
          /\ invoices'[i] \in BillRow
          /\ invoices'[i].tenant = invoices[i].tenant
          /\ invoices'[i].number = invoices[i].number
          /\ invoices'[i].due = invoices[i].due
          /\ invoices'[i].subtotal = invoices[i].subtotal
          /\ invoices'[i].due < today
  BY <1>1, <1>3, <1>4
<1>6. \A i \in InvoiceIds : i \notin overdue.found => invoices'[i] = invoices[i]
  BY <1>1
<1>7. \A i \in InvoiceIds :
          /\ (invoices'[i] = Unused) <=> (invoices[i] = Unused)
          /\ invoices[i] # Unused => /\ invoices'[i].tenant = invoices[i].tenant
                                     /\ invoices'[i].number = invoices[i].number
                                     /\ invoices'[i].subtotal = invoices[i].subtotal
  BY <1>3, <1>5, <1>6, UnusedIsNoRow
<1>8. ShapeInv'
  <2>1. \A i \in InvoiceIds : invoices'[i] \in BillRow \cup {Unused}
    BY <1>5, <1>6 DEF IInv, ShapeInv
  <2>2. invoices' = [i \in InvoiceIds |-> invoices'[i]]
    BY <1>1
  <2>3. invoices' \in [InvoiceIds -> BillRow \cup {Unused}]
    BY <2>1, <2>2
  <2> QED BY <2>3, <1>1, <1>2 DEF IInv, ShapeInv
<1>9. TxnInv'
  <2> SUFFICES ASSUME NEW r \in Sessions, txn[r] # Idle
               PROVE  OpenInv(r)'
    BY <1>1 DEF TxnInv
  <2>1. txn[r] \in BillTxn /\ OpenInv(r)
    BY DEF IInv, TxnInv, ShapeInv
  <2>2. txn[r].inv \in InvoiceIds
    BY <2>1 DEF BillTxn
  <2> QED BY <2>1, <2>2, <1>1, <1>7 DEF OpenInv
<1>10. FoundInv'
  BY <1>2 DEF FoundInv
<1>11. SubtotalIsOfItems'
  BY <1>1, <1>7 DEF IInv, SubtotalIsOfItems
<1>12. OverdueIsPastDue'
  BY <1>1, <1>5, <1>6 DEF IInv, OverdueIsPastDue
<1> QED BY <1>8, <1>9, <1>10, <1>11, <1>12 DEF IInv

\* A run of the task that fails forgets what it found.
LEMMA OverdueFailIInv == ASSUME IInv, OverdueFail PROVE IInv'
<1>1. /\ invoices' = invoices /\ items' = items /\ counter' = counter /\ txn' = txn
      /\ today' = today /\ overdue' = NotRunning
  BY DEF OverdueFail, tables
<1>2. overdue' \in [running : BOOLEAN, found : SUBSET InvoiceIds] /\ overdue'.found = {}
  BY <1>1 DEF NotRunning
<1>3. ShapeInv' /\ FoundInv'
  BY <1>1, <1>2 DEF IInv, ShapeInv, FoundInv
<1>4. TxnInv'
  BY <1>1 DEF IInv, TxnInv, OpenInv
<1>5. (SubtotalIsOfItems /\ OverdueIsPastDue)'
  BY <1>1 DEF IInv, SubtotalIsOfItems, OverdueIsPastDue
<1> QED BY <1>3, <1>4, <1>5 DEF IInv

\* Time only makes due dates lie further in the past.
LEMMA NextDayIInv == ASSUME IInv, NextDay PROVE IInv'
<1>1. /\ invoices' = invoices /\ items' = items /\ counter' = counter /\ txn' = txn
      /\ overdue' = overdue /\ today' = today + 1
  BY DEF NextDay, tables
<1>2. today \in Int /\ today' \in 0 .. MaxDay
  BY <1>1, CalendarAssumption DEF NextDay, IInv, ShapeInv
<1>3. \A i \in InvoiceIds : invoices[i] # Unused => invoices[i].due \in Int
  BY DEF IInv, ShapeInv, BillRow
<1>4. ShapeInv'
  BY <1>1, <1>2 DEF IInv, ShapeInv
<1>5. TxnInv'
  BY <1>1 DEF IInv, TxnInv, OpenInv
<1>6. FoundInv'
  <2>1. overdue.found \subseteq InvoiceIds
    BY DEF IInv, ShapeInv
  <2> QED BY <2>1, <1>1, <1>2, <1>3 DEF IInv, FoundInv
<1>7. SubtotalIsOfItems'
  BY <1>1 DEF IInv, SubtotalIsOfItems
<1>8. OverdueIsPastDue'
  BY <1>1, <1>2, <1>3 DEF IInv, OverdueIsPastDue
<1> QED BY <1>4, <1>5, <1>6, <1>7, <1>8 DEF IInv

-----------------------------------------------------------------------------
\* Every step keeps the invariant.
LEMMA NextIInv == IInv /\ [Next]_vars => IInv'
<1> SUFFICES ASSUME IInv, [Next]_vars PROVE IInv'
  OBVIOUS
<1>1. ASSUME NEW s \in Sessions, NEW ctx \in Contexts, NEW i \in InvoiceIds,
             Request(s, ctx, i)
      PROVE  IInv'
  BY <1>1, RequestIInv
<1>2. ASSUME NEW s \in Sessions, Commit(s) PROVE IInv'
  BY <1>2, InsertIInv, UpdateIInv DEF Commit
<1>3. ASSUME NEW s \in Sessions, DuplicateNumber(s) \/ Rollback(s) PROVE IInv'
  <2>1. txn' = [txn EXCEPT ![s] = Idle] /\ UNCHANGED <<tables, counter, overdue, today>>
    BY <1>3 DEF DuplicateNumber, Rollback
  <2>2. /\ txn' \in [Sessions -> BillTxn \cup {Idle}]
        /\ \A r \in Sessions : txn'[r] = Idle \/ txn'[r] = txn[r]
        /\ counter' \in [Processes -> [Tenants \X Years -> Nat]]
    BY <2>1 DEF IInv, ShapeInv
  <2> QED BY <2>1, <2>2, CloseIInv
<1>4. ASSUME NEW p \in Processes, Restart(p) PROVE IInv'
  <2>1. /\ txn' = [s \in Sessions |-> IF ProcessOf[s] = p THEN Idle ELSE txn[s]]
        /\ counter' = [counter EXCEPT ![p] = NoCount]
        /\ UNCHANGED <<tables, overdue, today>>
    BY <1>4 DEF Restart
  <2>2. counter' \in [Processes -> [Tenants \X Years -> Nat]]
    BY <2>1 DEF IInv, ShapeInv, NoCount
  <2>3. /\ txn' \in [Sessions -> BillTxn \cup {Idle}]
        /\ \A r \in Sessions : txn'[r] = Idle \/ txn'[r] = txn[r]
    BY <2>1 DEF IInv, ShapeInv
  <2> QED BY <2>1, <2>2, <2>3, CloseIInv
<1>5. ASSUME UNCHANGED vars PROVE IInv'
  <2>1. /\ UNCHANGED <<tables, overdue, today>> /\ txn' = txn /\ counter' = counter
    BY <1>5 DEF vars, tables
  <2>2. /\ txn' \in [Sessions -> BillTxn \cup {Idle}]
        /\ counter' \in [Processes -> [Tenants \X Years -> Nat]]
    BY <2>1 DEF IInv, ShapeInv
  <2> QED BY <2>1, <2>2, CloseIInv
<1> QED
  BY <1>1, <1>2, <1>3, <1>4, <1>5, LoadIInv, OverdueSelectIInv, OverdueCommitIInv,
     OverdueFailIInv, NextDayIInv
  DEF Next, Finish

\* The invariant holds in every reachable state.
LEMMA Invariance == Spec => []IInv
BY InitIInv, NextIInv, PTL DEF Spec

\* Whatever overlaps with add_line_item, a subtotal is that of some of the invoice's
\* own items: nothing is billed twice or without an item.
THEOREM SubtotalIsOfItemsAlways == Spec => []SubtotalIsOfItems
<1>1. IInv => SubtotalIsOfItems
  BY DEF IInv
<1> QED BY <1>1, Invariance, PTL

\* An invoice called overdue is past its due date, however long the task takes from
\* its SELECT to its commit and whatever is committed meanwhile.
THEOREM OverdueIsPastDueAlways == Spec => []OverdueIsPastDue
<1>1. IInv => OverdueIsPastDue
  BY DEF IInv
<1> QED BY <1>1, Invariance, PTL
-----------------------------------------------------------------------------
(* Money is a number *)

\* Rounding gives a whole number.
LEMMA HalfEvenType ==
    ASSUME NEW n \in Int
    PROVE  HalfEven(n, Unit) \in Int
BY DEF HalfEven, Unit

\* A product of whole numbers.
LEMMA ProductType == \A m, n \in Int : m * n \in Int
OBVIOUS

\* An invoice's subtotal, tax and total are whole numbers of cents, whatever items and rates
\* _recalculate_totals works on.
LEMMA MoneyType ==
    /\ \A S \in SUBSET ItemIds : Sum(S) \in Int
    /\ \A b \in Int, rate \in Int : TaxOf(b, rate) \in Int /\ TotalOf(b, rate) \in Int
<1>1. ASSUME NEW k \in ItemIds PROVE Amount(k) \in Int
  <2>1. Quantity[k] * UnitPrice[k] \in Int
    BY ItemsAssumption
  <2> QED BY <2>1, HalfEvenType DEF Amount
<1>2. ASSUME NEW S \in SUBSET ItemIds PROVE Sum(S) \in Int
  <2> DEFINE f == [k \in ItemIds |-> Amount(k)]
  <2>1. \A k \in S : f[k] \in Int
    BY <1>1
  <2>2. 0 \in Int /\ (\A m, n \in Int : m + n \in Int) /\ IsFiniteSet(S)
    BY ItemsAssumption, FS_Subset
  <2> HIDE DEF f
  <2>3. SumFunctionOnSet(f, S) \in Int
    BY <2>1, <2>2, SumType
  <2> QED BY <2>3 DEF Sum, f
<1>3. ASSUME NEW b \in Int, NEW rate \in Int PROVE TaxOf(b, rate) \in Int /\ TotalOf(b, rate) \in Int
  <2>1. b * rate \in Int
    BY ProductType
  <2>2. b * Unit + b * rate - Discount * Unit \in Int
    BY <2>1 DEF Unit, Discount
  <2> QED BY <2>1, <2>2, HalfEvenType DEF TaxOf, TotalOf
<1> QED BY <1>2, <1>3

\* So a bill has the columns that the table declares.
LEMMA BillRowIsRow ==
    /\ Subtotals \subseteq Int /\ Taxes \subseteq Int /\ Totals \subseteq Int
    /\ BillRow \subseteq Row
<1>1. Subtotals \subseteq Int
  BY MoneyType DEF Subtotals
<1>2. TaxRates \subseteq Int
  BY BodiesAssumption
<1>3. \A b \in Subtotals \X TaxRates : b[1] \in Int /\ b[2] \in Int
  BY <1>1, <1>2
<1>4. \A b \in Subtotals \X TaxRates : TaxOf(b[1], b[2]) \in Int /\ TotalOf(b[1], b[2]) \in Int
  BY <1>3, MoneyType
<1>5. Taxes \subseteq Int /\ Totals \subseteq Int
  BY <1>4 DEF Taxes, Totals
<1> QED BY <1>1, <1>2, <1>5 DEF BillRow, Row

\* The positions of the items: an open request has read finitely many of them.
LEMMA NextPositions ==
    ASSUME IInv, sortOrder \in [ItemIds -> Nat], [Next]_vars
    PROVE  sortOrder' \in [ItemIds -> Nat]
<1>1. CASE sortOrder' = sortOrder
  BY <1>1
<1>2. ASSUME NEW s \in Sessions, UpdateInvoice(s) PROVE sortOrder' \in [ItemIds -> Nat]
  <2>1. txn[s] # Idle
    BY <1>2 DEF UpdateInvoice, Idle
  <2>2. txn[s].found \in SUBSET ItemIds
    BY <2>1 DEF IInv, ShapeInv, BillTxn
  <2>3. Position(txn[s].found) \in Nat
    <3>1. IsFiniteSet(txn[s].found)
      BY <2>2, ItemsAssumption, FS_Subset
    <3> QED BY <3>1, FS_CardinalityType DEF Position
  <2>4. sortOrder' = [k \in ItemIds |-> IF k \in txn[s].new THEN Position(txn[s].found)
                                                            ELSE sortOrder[k]]
    BY <1>2 DEF UpdateInvoice
  <2> QED BY <2>3, <2>4
<1>3. ASSUME NEW s \in Sessions, NEW ctx \in Contexts, NEW i \in InvoiceIds, Request(s, ctx, i)
      PROVE  sortOrder' = sortOrder
  BY <1>3 DEF Request, Post, CreateInvoice, AddLineItem, SendInvoice, RecordPayment, VoidInvoice, tables
<1>4. ASSUME NEW s \in Sessions, LoadItems(s) \/ InsertInvoice(s) \/ DuplicateNumber(s) \/ Rollback(s)
      PROVE  sortOrder' = sortOrder
  BY <1>4 DEF LoadItems, InsertInvoice, DuplicateNumber, Rollback, tables
<1>5. ASSUME NEW p \in Processes, Restart(p) PROVE sortOrder' = sortOrder
  BY <1>5 DEF Restart, tables
<1>6. ASSUME OverdueSelect \/ OverdueCommit \/ OverdueFail \/ NextDay PROVE sortOrder' = sortOrder
  BY <1>6 DEF OverdueSelect, OverdueCommit, OverdueFail, NextDay, tables
<1>7. ASSUME UNCHANGED vars PROVE sortOrder' = sortOrder
  BY <1>7 DEF vars
<1> QED BY <1>1, <1>2, <1>3, <1>4, <1>5, <1>6, <1>7 DEF Next, Finish, Commit

\* The tables, the counters and everything in flight keep their types: amounts stay whole
\* cents, numbers positive, and statuses those the code knows.
THEOREM BillingTypeOKAlways == Spec => []TypeOK
<1> DEFINE Typed == IInv /\ sortOrder \in [ItemIds -> Nat]
<1>1. Init => Typed
  BY InitIInv DEF Init
<1>2. Typed /\ [Next]_vars => Typed'
  BY NextIInv, NextPositions
<1>3. Typed => TypeOK
  <2> SUFFICES ASSUME Typed PROVE TypeOK
    OBVIOUS
  <2>1. BillTxn \subseteq Txn
    BY BillRowIsRow DEF BillTxn, Txn, Ops
  <2>2. invoices \in [InvoiceIds -> Row \cup {Unused}]
    BY BillRowIsRow DEF IInv, ShapeInv
  <2>3. txn \in [Sessions -> Txn \cup {Idle}]
    BY <2>1 DEF IInv, ShapeInv
  <2> QED BY <2>2, <2>3 DEF TypeOK, IInv, ShapeInv
<1> QED BY <1>1, <1>2, <1>3, PTL DEF Spec

-----------------------------------------------------------------------------
(* Requests and the overdue task one after the other *)

\* The totals of a row are those of a set of items.
Bills(row, S) ==
    /\ row.subtotal = Sum(S)
    /\ row.tax = TaxOf(row.subtotal, row.taxRate)
    /\ row.total = TotalOf(row.subtotal, row.taxRate)

\* What has been paid covers an invoice that is called paid.
Covered(row) == row.status = "paid" => row.paid >= row.total

\* An open request whose invoice nobody else touches.
SerialTxn(s) ==
    LET t == txn[s] IN
    /\ t.op = "create" => items[t.inv] = {} /\ Bills(t.row, {}) /\ Covered(t.row)
    /\ t.op # "create" =>
        /\ invoices[t.inv] = t.seen
        /\ t.row.taxRate = t.seen.taxRate
        /\ Covered(t.row)
    /\ t.op = "load" => t.row = t.seen /\ t.seen.status = "draft"
    /\ t.op = "add" => t.found = items[t.inv] /\ Bills(t.row, t.found \cup t.new)
    /\ t.op \in {"send", "pay", "void"} => t.new = {} /\ Bills(t.row, items[t.inv])

SerialInv ==
    /\ \A s \in Sessions : txn[s] # Idle => SerialTxn(s)
    /\ \A i \in InvoiceIds : IF invoices[i] = Unused THEN items[i] = {}
                             ELSE Bills(invoices[i], items[i]) /\ Covered(invoices[i])

MCInv ==
    /\ IInv
    /\ atOnce \in {1, 3}
    /\ Running <= atOnce
    /\ atOnce = 1 => SerialInv

\* When one thing runs at a time, an open request is the only one, and the task does not run.
LEMMA AtMostOne ==
    ASSUME Running <= 1, NEW s \in Sessions, txn[s] # Idle
    PROVE  ~(overdue.running = TRUE) /\ \A r \in Sessions \ {s} : txn[r] = Idle
<1> DEFINE S == {r \in Sessions : txn[r] # Idle}
<1>1. IsFiniteSet(S) /\ s \in S
  BY SessionsAssumption, FS_Subset
<1>2. Cardinality(S) \in Nat /\ Cardinality(S) # 0
  BY <1>1, FS_CardinalityType, FS_EmptySet
<1>3. Cardinality(S) = 1 /\ ~(overdue.running = TRUE)
  BY <1>2 DEF Running
<1>4. PICK r : S = {r}
  BY <1>1, <1>3, FS_Singleton
<1> QED BY <1>1, <1>3, <1>4

\* Nothing is billed for no items.
LEMMA BillsNothing ==
    ASSUME NEW row \in BillRow, row.subtotal = 0, row.tax = 0, row.total = 0
    PROVE  Bills(row, {})
<1>1. row.taxRate \in Int
  BY BodiesAssumption DEF BillRow
<1>2. HalfEven(0, Unit) = 0
  BY DEF HalfEven, Unit
<1>3. 0 * row.taxRate = 0 /\ 0 * Unit + 0 * row.taxRate - Discount * Unit = 0
  BY <1>1 DEF Unit, Discount
<1> QED BY <1>2, <1>3, SumOfNone DEF Bills, TaxOf, TotalOf

\* _recalculate_totals.
LEMMA RecalculateBills ==
    ASSUME NEW row \in BillRow, NEW found \in SUBSET ItemIds, NEW new \in SUBSET ItemIds
    PROVE  LET r == Recalculate(row, found, new)
           IN  /\ Bills(r, found \cup new)
               /\ r.status = row.status /\ r.taxRate = row.taxRate
BY DEF Recalculate, Bills, BillRow

\* The rows an uncontended commit leaves behind are those that were assigned.
LEMMA FlushOwn ==
    ASSUME NEW a \in BillRow, NEW b \in BillRow, b.taxRate = a.taxRate
    PROVE  LET r == Flush(a, b, a)
           IN  /\ r.subtotal = b.subtotal /\ r.tax = b.tax /\ r.total = b.total
               /\ r.taxRate = b.taxRate /\ r.status = b.status /\ r.paid = b.paid
BY DEF Flush, Column, BillRow

\* While the tables stand, requests that stay open or open well keep the invariant.
LEMMA SerialTables ==
    ASSUME SerialInv, UNCHANGED tables,
           \A s \in Sessions : txn'[s] # Idle => txn'[s] = txn[s] \/ SerialTxn(s)'
    PROVE  SerialInv'
<1>1. invoices' = invoices /\ items' = items
  BY DEF tables
<1>2. ASSUME NEW s \in Sessions, txn'[s] # Idle PROVE SerialTxn(s)'
  <2>1. CASE txn'[s] = txn[s]
    <3>1. SerialTxn(s)
      BY <1>2, <2>1 DEF SerialInv
    <3> QED BY <3>1, <2>1, <1>1 DEF SerialTxn
  <2> QED BY <1>2, <2>1
<1> QED BY <1>1, <1>2 DEF SerialInv

\* A handler that opens a request as SerialTxn wants it.
LEMMA SerialOpens ==
    ASSUME IInv, SerialInv, NEW s \in Sessions, NEW op \in Ops \ {"add"},
           NEW i \in InvoiceIds, NEW seen \in BillRow, NEW row \in BillRow,
           NEW new \in SUBSET ItemIds,
           Open(s, op, i, seen, row, new), UNCHANGED tables,
           op = "create" => items[i] = {} /\ Bills(row, {}),
           op # "create" => invoices[i] = seen /\ row.taxRate = seen.taxRate,
           Covered(row),
           op = "load" => row = seen /\ seen.status = "draft",
           op \in {"send", "pay", "void"} => new = {} /\ Bills(row, items[i])
    PROVE  SerialInv'
<1> DEFINE t == [op |-> op, inv |-> i, seen |-> seen, row |-> row, found |-> {},
                 new |-> new]
<1>1. txn'[s] = t /\ \A r \in Sessions \ {s} : txn'[r] = txn[r]
  BY DEF Open, IInv, ShapeInv
<1>2. t.op = op /\ t.inv = i /\ t.seen = seen /\ t.row = row /\ t.found = {} /\ t.new = new
  OBVIOUS
<1> HIDE DEF t
<1>3. invoices' = invoices /\ items' = items
  BY DEF tables
<1>4. SerialTxn(s)'
  BY <1>1, <1>2, <1>3 DEF SerialTxn
<1> QED BY <1>1, <1>4, SerialTables

\* Every handler up to its commit, when it reads what nobody is changing.
LEMMA RequestSerial ==
    ASSUME IInv, SerialInv, NEW s \in Sessions, NEW ctx \in Contexts, NEW i \in InvoiceIds,
           Request(s, ctx, i)
    PROVE  SerialInv'
<1> DEFINE inv == invoices[i]
<1>0. FindInvoice(ctx, i) => inv \in BillRow /\ Bills(inv, items[i]) /\ Covered(inv)
  BY DEF FindInvoice, IInv, ShapeInv, SerialInv
<1>00. Ops \ {"add"} = {"create", "load", "send", "pay", "void"}
  BY DEF Ops
<1> HIDE DEF inv
<1>1. ASSUME NEW rate \in TaxRates, NEW due \in DueDates, CreateInvoice(s, ctx, i, rate, due)
      PROVE  SerialInv'
  <2> DEFINE key == <<ctx.tenant, Year>>
             n == counter[ProcessOf[s]][key] + 1
             row == [tenant |-> ctx.tenant, number |-> <<Year, n>>, status |-> "draft",
                     due |-> due, taxRate |-> rate, subtotal |-> 0, tax |-> 0,
                     total |-> 0, paid |-> NoPayment]
  <2>1. /\ Open(s, "create", i, row, row, {}) /\ FreshInvoice(i)
        /\ UNCHANGED tables
    BY <1>1 DEF CreateInvoice
  <2>2. Year \in Years
    BY YearType DEF IInv, ShapeInv
  <2>3. ProcessOf[s] \in Processes /\ key \in Tenants \X Years
    BY ProcessAssumption, BodyTypes, <2>2
  <2>4. n \in Nat \ {0}
    BY <2>3 DEF IInv, ShapeInv
  <2>5. row \in BillRow
    BY <2>2, <2>4, BodyTypes DEF BillRow, Numbers, Statuses, Subtotals, Taxes, Totals
  <2>6. row.status = "draft" /\ row.subtotal = 0 /\ row.tax = 0 /\ row.total = 0
    OBVIOUS
  <2> HIDE DEF row, n, key
  <2>7. items[i] = {}
    BY <2>1 DEF FreshInvoice, SerialInv
  <2>8. Bills(row, {}) /\ Covered(row)
    BY <2>5, <2>6, BillsNothing DEF Covered
  <2>9. "create" \in Ops \ {"add"} /\ {} \in SUBSET ItemIds
    BY <1>00
  <2> QED BY <2>1, <2>5, <2>7, <2>8, <2>9, SerialOpens
<1>2. ASSUME NEW k \in ItemIds, AddLineItem(s, ctx, i, k) PROVE SerialInv'
  <2>1. /\ FindInvoice(ctx, i) /\ inv.status = "draft"
        /\ Open(s, "load", i, inv, inv, {k}) /\ UNCHANGED tables
    BY <1>2 DEF AddLineItem, inv
  <2>2. "load" \in Ops \ {"add"} /\ {k} \in SUBSET ItemIds
    BY <1>00
  <2>3. inv = invoices[i]
    BY DEF inv
  <2> QED BY <1>0, <2>1, <2>2, <2>3, SerialOpens
<1>3. ASSUME NEW op \in {"send", "pay", "void"}, NEW row \in BillRow,
             FindInvoice(ctx, i), Open(s, op, i, inv, row, {}), UNCHANGED tables,
             row.subtotal = inv.subtotal, row.tax = inv.tax, row.total = inv.total,
             row.taxRate = inv.taxRate, Covered(row)
      PROVE  SerialInv'
  <2>1. Bills(row, items[i])
    BY <1>0, <1>3 DEF Bills
  <2>2. op \in Ops \ {"add"} /\ op # "create" /\ op # "load" /\ {} \in SUBSET ItemIds
    BY <1>00
  <2>3. inv = invoices[i] /\ inv \in BillRow
    BY <1>0, <1>3 DEF inv
  <2> QED BY <1>3, <2>1, <2>2, <2>3, SerialOpens
<1>4. ASSUME SendInvoice(s, ctx, i) PROVE SerialInv'
  <2> DEFINE row == [inv EXCEPT !.status = "sent"]
  <2>1. FindInvoice(ctx, i) /\ Open(s, "send", i, inv, row, {}) /\ UNCHANGED tables
    BY <1>4 DEF SendInvoice, inv
  <2>2. /\ row \in BillRow /\ row.status = "sent" /\ row.subtotal = inv.subtotal
        /\ row.tax = inv.tax /\ row.total = inv.total /\ row.taxRate = inv.taxRate
    BY <1>0, <2>1 DEF BillRow, Statuses
  <2> HIDE DEF row
  <2>3. Covered(row)
    BY <2>2 DEF Covered
  <2> QED BY <1>3, <2>1, <2>2, <2>3
<1>5. ASSUME NEW a \in Payments, RecordPayment(s, ctx, i, a) PROVE SerialInv'
  <2> DEFINE st == Settled(a, inv.total)
             row == [inv EXCEPT !.paid = a, !.status = st]
  <2>1. FindInvoice(ctx, i) /\ Open(s, "pay", i, inv, row, {}) /\ UNCHANGED tables
    BY <1>5 DEF RecordPayment, inv
  <2>2. st \in {"paid", "partially_paid"} /\ (st = "paid" => a >= inv.total)
    BY DEF Settled
  <2> HIDE DEF st
  <2>3. /\ row \in BillRow /\ row.status = st /\ row.paid = a /\ row.subtotal = inv.subtotal
        /\ row.tax = inv.tax /\ row.total = inv.total /\ row.taxRate = inv.taxRate
    BY <1>0, <2>1, <2>2, BodyTypes DEF BillRow, Statuses
  <2> HIDE DEF row
  <2>4. Covered(row)
    BY <2>2, <2>3 DEF Covered
  <2> QED BY <1>3, <2>1, <2>3, <2>4
<1>6. ASSUME VoidInvoice(s, ctx, i) PROVE SerialInv'
  <2> DEFINE row == [inv EXCEPT !.status = "void"]
  <2>1. FindInvoice(ctx, i) /\ Open(s, "void", i, inv, row, {}) /\ UNCHANGED tables
    BY <1>6 DEF VoidInvoice, inv
  <2>2. /\ row \in BillRow /\ row.status = "void" /\ row.subtotal = inv.subtotal
        /\ row.tax = inv.tax /\ row.total = inv.total /\ row.taxRate = inv.taxRate
    BY <1>0, <2>1 DEF BillRow, Statuses
  <2> HIDE DEF row
  <2>3. Covered(row)
    BY <2>2 DEF Covered
  <2> QED BY <1>3, <2>1, <2>2, <2>3
<1> QED BY <1>1, <1>2, <1>4, <1>5, <1>6 DEF Request, Post
\* The second read of add_line_item finds all the items, and the new totals are of all of them.
LEMMA LoadSerial ==
    ASSUME IInv, SerialInv, NEW s \in Sessions, LoadItems(s)
    PROVE  SerialInv'
<1> DEFINE t == txn[s]
           f == items[t.inv]
           row == Recalculate(t.row, f, t.new)
           u == [t EXCEPT !.op = "add", !.found = f, !.row = row]
<1>1. t.op = "load" /\ txn' = [txn EXCEPT ![s] = u] /\ UNCHANGED tables
  BY DEF LoadItems
<1>2. t # Idle
  BY <1>1 DEF Idle
<1>3. t \in BillTxn /\ SerialTxn(s)
  BY <1>2 DEF IInv, ShapeInv, SerialInv
<1>4. /\ invoices[t.inv] = t.seen /\ t.row = t.seen /\ t.row.status = "draft"
      /\ t.row \in BillRow /\ f \in SUBSET ItemIds /\ t.new \in SUBSET ItemIds
  BY <1>1, <1>3 DEF SerialTxn, BillTxn, IInv, ShapeInv
<1>5. Bills(row, f \cup t.new) /\ row.status = "draft" /\ row.taxRate = t.row.taxRate
  BY <1>4, RecalculateBills
<1> HIDE DEF row, f
<1>6. /\ u.op = "add" /\ u.inv = t.inv /\ u.seen = t.seen /\ u.row = row
      /\ u.found = f /\ u.new = t.new
  BY <1>3 DEF BillTxn
<1>7. txn'[s] = u /\ \A r \in Sessions \ {s} : txn'[r] = txn[r]
  BY <1>1 DEF IInv, ShapeInv
<1> HIDE DEF u
<1>8. invoices' = invoices /\ items' = items
  BY <1>1 DEF tables
<1>9. SerialTxn(s)'
  BY <1>4, <1>5, <1>6, <1>7, <1>8 DEF SerialTxn, Covered, f
<1> QED BY <1>1, <1>7, <1>9, SerialTables

\* A commit writes what was assigned: its own row is the only one that changes, and nobody
\* else is in the middle of anything.
LEMMA CommitSerial ==
    ASSUME IInv, SerialInv, Running <= 1, NEW s \in Sessions, Commit(s)
    PROVE  SerialInv'
<1> DEFINE t == txn[s]
           i == t.inv
<1>1. t.op \in {"create", "add", "send", "pay", "void"} /\ txn' = [txn EXCEPT ![s] = Idle]
  BY DEF Commit, InsertInvoice, UpdateInvoice
<1>2. t # Idle
  BY <1>1 DEF Idle
<1>3. t \in BillTxn /\ SerialTxn(s) /\ OpenInv(s)
  BY <1>2 DEF IInv, ShapeInv, TxnInv, SerialInv
<1>4. i \in InvoiceIds /\ t.seen \in BillRow /\ t.row \in BillRow /\ t.new \in SUBSET ItemIds
  BY <1>3 DEF BillTxn
<1>5. \A r \in Sessions : txn'[r] = Idle
  <2>1. \A r \in Sessions \ {s} : txn[r] = Idle
    BY <1>2, AtMostOne
  <2> QED BY <2>1, <1>1 DEF IInv, ShapeInv
<1> DEFINE Stored ==
      /\ \A j \in InvoiceIds \ {i} : invoices'[j] = invoices[j] /\ items'[j] = items[j]
      /\ invoices'[i] \in BillRow
      /\ Bills(invoices'[i], items'[i]) /\ Covered(invoices'[i])
<1>6. ASSUME InsertInvoice(s) PROVE Stored
  <2>1. t.op = "create" /\ invoices' = [invoices EXCEPT ![i] = t.row] /\ items' = items
    BY <1>6 DEF InsertInvoice
  <2>2. items[i] = {} /\ Bills(t.row, {}) /\ Covered(t.row)
    BY <2>1, <1>3 DEF SerialTxn
  <2>3. /\ invoices'[i] = t.row
        /\ \A j \in InvoiceIds \ {i} : invoices'[j] = invoices[j]
    BY <2>1, <1>4 DEF IInv, ShapeInv
  <2> QED BY <2>1, <2>2, <2>3, <1>4
<1>7. ASSUME UpdateInvoice(s) PROVE Stored
  <2> DEFINE row == Flush(t.seen, t.row, invoices[i])
  <2>1. /\ t.op \in {"add", "send", "pay", "void"}
        /\ invoices' = [invoices EXCEPT ![i] = row]
        /\ items' = [items EXCEPT ![i] = @ \cup t.new]
    BY <1>7 DEF UpdateInvoice
  <2>2. invoices[i] = t.seen /\ t.row.taxRate = t.seen.taxRate /\ Covered(t.row)
    BY <2>1, <1>3 DEF SerialTxn
  <2>3. Bills(t.row, items[i] \cup t.new)
    <3>1. CASE t.op = "add"
      BY <3>1, <1>3 DEF SerialTxn
    <3>2. CASE t.op \in {"send", "pay", "void"}
      <4>1. t.new = {} /\ Bills(t.row, items[i])
        BY <3>2, <1>3 DEF SerialTxn
      <4>2. items[i] \cup t.new = items[i]
        BY <4>1
      <4> QED BY <4>1, <4>2
    <3> QED BY <2>1, <3>1, <3>2
  <2>4. /\ row.subtotal = t.row.subtotal /\ row.tax = t.row.tax /\ row.total = t.row.total
        /\ row.taxRate = t.row.taxRate /\ row.status = t.row.status
        /\ row.paid = t.row.paid
    BY <2>2, <1>4, FlushOwn
  <2>5. row \in BillRow
    BY <2>2, <1>4, FlushRow
  <2> HIDE DEF row
  <2>6. /\ invoices'[i] = row /\ items'[i] = items[i] \cup t.new
        /\ \A j \in InvoiceIds \ {i} : invoices'[j] = invoices[j] /\ items'[j] = items[j]
    BY <2>1, <1>4 DEF IInv, ShapeInv
  <2>7. Bills(row, items[i] \cup t.new) /\ Covered(row)
    BY <2>2, <2>3, <2>4 DEF Bills, Covered
  <2> QED BY <2>5, <2>6, <2>7
<1>8. Stored
  BY <1>6, <1>7 DEF Commit
<1>9. ASSUME NEW j \in InvoiceIds
      PROVE  IF invoices'[j] = Unused THEN items'[j] = {}
             ELSE Bills(invoices'[j], items'[j]) /\ Covered(invoices'[j])
  <2>1. CASE j = i
    BY <2>1, <1>8, UnusedIsNoRow
  <2>2. CASE j # i
    BY <2>2, <1>8 DEF SerialInv
  <2> QED BY <2>1, <2>2
<1> QED BY <1>5, <1>9 DEF SerialInv

\* The overdue task changes statuses only, while no request is open.
LEMMA OverdueSerial ==
    ASSUME IInv, SerialInv, Running <= 1, OverdueCommit
    PROVE  SerialInv'
<1>1. /\ overdue.running = TRUE
      /\ invoices' = [i \in InvoiceIds |-> IF i \in overdue.found
                                           THEN [invoices[i] EXCEPT !.status = "overdue"]
                                           ELSE invoices[i]]
      /\ items' = items /\ txn' = txn
  BY DEF OverdueCommit, IInv, ShapeInv
<1>2. \A s \in Sessions : txn[s] = Idle
  BY <1>1, AtMostOne
<1>3. ASSUME NEW i \in InvoiceIds
      PROVE  IF invoices'[i] = Unused THEN items'[i] = {}
             ELSE Bills(invoices'[i], items'[i]) /\ Covered(invoices'[i])
  <2>1. CASE i \in overdue.found
    <3>1. invoices[i] \in BillRow /\ invoices[i] # Unused
      BY <2>1 DEF IInv, ShapeInv, FoundInv
    <3>2. Bills(invoices[i], items[i])
      BY <3>1 DEF SerialInv
    <3>3. invoices'[i] = [invoices[i] EXCEPT !.status = "overdue"]
      BY <1>1, <2>1
    <3>4. /\ invoices'[i].status = "overdue"
          /\ invoices'[i].subtotal = invoices[i].subtotal
          /\ invoices'[i].tax = invoices[i].tax
          /\ invoices'[i].total = invoices[i].total
          /\ invoices'[i].taxRate = invoices[i].taxRate
          /\ invoices'[i] \in BillRow
      BY <3>1, <3>3 DEF BillRow, Statuses
    <3>5. invoices'[i] # Unused
      BY <3>4, UnusedIsNoRow
    <3> QED BY <3>2, <3>4, <3>5, <1>1 DEF Bills, Covered
  <2>2. CASE i \notin overdue.found
    BY <2>2, <1>1 DEF SerialInv
  <2> QED BY <2>1, <2>2
<1> QED BY <1>1, <1>2, <1>3 DEF SerialInv

\* Every step keeps the invariant.
LEMMA NextMCInv == MCInv /\ [MCNext]_mcVars => MCInv'
<1> SUFFICES ASSUME MCInv, [MCNext]_mcVars PROVE MCInv'
  OBVIOUS
<1>1. IInv /\ [Next]_vars /\ atOnce' = atOnce
  BY DEF MCInv, MCNext, mcVars
<1>2. IInv'
  BY <1>1, NextIInv
<1>3. Running' <= atOnce'
  <2>1. CASE MCNext
    BY <2>1, <1>1 DEF MCNext
  <2>2. CASE UNCHANGED mcVars
    BY <2>2 DEF mcVars, vars, Running, MCInv
  <2> QED BY <2>1, <2>2
<1>4. ASSUME atOnce = 1 PROVE SerialInv'
  <2>1. IInv /\ SerialInv /\ Running <= 1
    BY <1>4 DEF MCInv
  <2>2. ASSUME UNCHANGED tables, \A s \in Sessions : txn'[s] = txn[s] \/ txn'[s] = Idle
        PROVE  SerialInv'
    BY <2>1, <2>2, SerialTables
  <2>3. ASSUME NEW s \in Sessions, NEW ctx \in Contexts, NEW i \in InvoiceIds, Request(s, ctx, i)
        PROVE  SerialInv'
    BY <2>1, <2>3, RequestSerial
  <2>4. ASSUME NEW s \in Sessions, DuplicateNumber(s) \/ Rollback(s) PROVE SerialInv'
    <3>1. UNCHANGED tables /\ txn' = [txn EXCEPT ![s] = Idle]
      BY <2>4 DEF DuplicateNumber, Rollback
    <3>2. \A r \in Sessions : txn'[r] = txn[r] \/ txn'[r] = Idle
      BY <3>1 DEF IInv, ShapeInv, MCInv
    <3> QED BY <2>2, <3>1, <3>2
  <2>5. ASSUME NEW p \in Processes, Restart(p) PROVE SerialInv'
    BY <2>2, <2>5 DEF Restart
  <2>6. ASSUME OverdueSelect \/ OverdueFail \/ NextDay PROVE SerialInv'
    <3>1. UNCHANGED tables /\ txn' = txn
      BY <2>6 DEF OverdueSelect, OverdueFail, NextDay
    <3> QED BY <2>2, <3>1
  <2>7. ASSUME UNCHANGED vars PROVE SerialInv'
    <3>1. UNCHANGED tables /\ txn' = txn
      BY <2>7 DEF vars, tables
    <3> QED BY <2>2, <3>1
  <2> QED
    BY <1>1, <2>1, <2>3, <2>4, <2>5, <2>6, <2>7, LoadSerial, CommitSerial, OverdueSerial
    DEF Next, Finish
<1> QED BY <1>1, <1>2, <1>3, <1>4 DEF MCInv

\* An empty database, with nothing running.
LEMMA InitMCInv == MCInit => MCInv
<1> SUFFICES ASSUME MCInit PROVE MCInv
  OBVIOUS
<1>1. Init /\ atOnce \in {1, 3}
  BY DEF MCInit
<1>2. IInv
  BY <1>1, InitIInv
<1>3. {s \in Sessions : txn[s] # Idle} = {} /\ overdue.running = FALSE
  BY <1>1 DEF Init, NotRunning
<1>4. Running = 0
  <2>1. Cardinality({}) = 0
    BY FS_EmptySet
  <2> QED BY <1>3, <2>1 DEF Running
<1>5. SerialInv
  BY <1>1 DEF Init, SerialInv
<1> QED BY <1>1, <1>2, <1>4, <1>5 DEF MCInv

\* The invariant holds in every reachable state.
LEMMA MCInvariance == MCSpec => []MCInv
BY InitMCInv, NextMCInv, PTL DEF MCSpec

\* One request after the other, the stored subtotal, tax and total are those of all the
\* invoice's items (add_line_item, _recalculate_totals), whatever sends, payments, voids,
\* rollbacks, restarts and runs of the overdue task come between.
THEOREM SerialTotalsMatchItemsAlways == MCSpec => []SerialTotalsMatchItems
<1>1. MCInv => SerialTotalsMatchItems
  BY DEF MCInv, SerialInv, Bills, SerialTotalsMatchItems, TotalsMatchItems
<1> QED BY <1>1, MCInvariance, PTL

\* One request after the other, a paid invoice is covered: record_payment compares with the
\* total of the day, and only a draft's total changes afterwards.
THEOREM SerialPaidCoversTotalAlways == MCSpec => []SerialPaidCoversTotal
<1>1. MCInv => SerialPaidCoversTotal
  BY DEF MCInv, SerialInv, Covered, SerialPaidCoversTotal, PaidCoversTotal
<1> QED BY <1>1, MCInvariance, PTL

\* Rounding a tax with its subtotal or without it: at most a cent apart.
LEMMA RoundedApart ==
    ASSUME NEW b \in Int, NEW x \in Int
    PROVE  HalfEven(b * Unit + x, Unit) - (b + HalfEven(x, Unit)) \in -1 .. 1
<1>1. (b * 10000 + x) \div 10000 = b + x \div 10000
  OBVIOUS
<1>2. (b * 10000 + x) % 10000 = x % 10000
  OBVIOUS
<1> DEFINE q == x \div 10000
<1>3. q \in Int
  OBVIOUS
<1>4. HalfEven(x, Unit) \in {q, q + 1}
  BY DEF HalfEven, Unit
<1>5. HalfEven(b * Unit + x, Unit) \in {b + q, b + q + 1}
  BY <1>1 DEF HalfEven, Unit
<1> HIDE DEF q
<1> QED BY <1>3, <1>4, <1>5

\* One request after the other, tax and total, which _recalculate_totals rounds apart, differ
\* from adding up by a cent at most.
THEOREM SerialColumnsAddUpToACentAlways == MCSpec => []SerialColumnsAddUpToACent
<1>1. ASSUME MCInv, atOnce = 1, NEW i \in InvoiceIds, invoices[i] # Unused
      PROVE  invoices[i].total - (invoices[i].subtotal + invoices[i].tax - Discount) \in -1 .. 1
  <2> DEFINE inv == invoices[i]
             b == inv.subtotal
             x == b * inv.taxRate
  <2>1. inv \in BillRow /\ Bills(inv, items[i])
    BY <1>1 DEF MCInv, IInv, ShapeInv, SerialInv
  <2>2. b \in Int /\ inv.taxRate \in Int
    BY <2>1, BillRowIsRow DEF Row
  <2>3. x \in Int
    BY <2>2, ProductType
  <2>4. inv.tax = HalfEven(x, Unit) /\ inv.total = HalfEven(b * Unit + x - Discount * Unit, Unit)
    BY <2>1 DEF Bills, TaxOf, TotalOf
  <2> HIDE DEF x, b, inv
  <2>5. b * Unit + x - Discount * Unit = b * Unit + x
    BY <2>2, <2>3 DEF Unit, Discount
  <2>6. inv.total - (b + inv.tax) \in -1 .. 1
    BY <2>2, <2>3, <2>4, <2>5, RoundedApart
  <2>7. inv.tax \in Int
    BY <2>3, <2>4, HalfEvenType
  <2> QED BY <2>2, <2>6, <2>7 DEF b, inv, Discount
<1>2. MCInv => SerialColumnsAddUpToACent
  BY <1>1 DEF SerialColumnsAddUpToACent, ColumnsAddUpToACent
<1> QED BY <1>2, MCInvariance, PTL

=============================================================================
