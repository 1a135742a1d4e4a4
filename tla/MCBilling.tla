------------------------------ MODULE MCBilling ------------------------------
(* Billing on small instances.  As in MCTimelog, `atOnce` tells behaviours in  *)
(* which requests and the overdue task take turns from those in which they     *)
(* overlap.                                                                    *)
EXTENDS Billing

CONSTANTS t1, k1, k2, k3, p1, p2, s1, s2

ASSUME SessionsAssumption == IsFiniteSet(Sessions)

VARIABLE atOnce    \* how many requests and runs of the overdue task may be open together

mcVars == <<vars, atOnce>>

MCAdmin == {[tenant |-> t1, roles |-> {"tenant_admin"}]}

\* An administrator, and a manager who may create and send but not void.
MCContexts == MCAdmin \cup {[tenant |-> t1, roles |-> {"project_manager"}]}

\* One and a half hours at 0.03 (4.5 cents, a tie that goes to 4), one hour at
\* 0.25 (its 10% tax is a tie) and a sliver that rounds to nothing.
MCQuantity == [k \in ItemIds |-> IF k = k1 THEN 15000 ELSE IF k = k2 THEN 10000 ELSE 1]
MCUnitPrice == [k \in ItemIds |-> IF k = k1 THEN 3 ELSE 25]

MCTwoProcesses == [s \in Sessions |-> IF s = s1 THEN p1 ELSE p2]

MCInit == Init /\ atOnce \in {1, 3}

Running == Cardinality({s \in Sessions : txn[s] # Idle}) + (IF overdue.running THEN 1 ELSE 0)

\* Bounds.  When requests do not overlap: one process, one invoice, three days, numbers up
\* to MaxCount.
\* When they do: one tax rate, one amount, two days, one number per process.
Fits ==
    IF atOnce = 1
    THEN /\ txn[s2] = Idle
         /\ Cardinality({i \in InvoiceIds : invoices[i] # Unused}) <= 1
    ELSE /\ today <= 1
         /\ \A p \in Processes : \A k \in DOMAIN counter[p] : counter[p][k] <= 1
         /\ \A s \in Sessions : txn[s] # Idle => txn[s].row.taxRate = 1000 /\ txn[s].row.paid <= 4

MCNext ==
    /\ Next
    /\ UNCHANGED atOnce
    /\ Running' <= atOnce
    /\ Fits'

\* Only invoices are created, two requests at a time.
MCNumberingInit == Init /\ atOnce = 2
MCNumberingSpec ==
    /\ MCNumberingInit
    /\ [][NumberingNext /\ UNCHANGED atOnce]_mcVars
    /\ NumberingFairness

MCSpec == MCInit /\ [][MCNext]_mcVars

-----------------------------------------------------------------------------
(* Properties of requests and tasks that do not overlap *)

\* One after the other, add_line_item leaves subtotal, tax and total of all the items.
SerialTotalsMatchItems == atOnce = 1 => TotalsMatchItems

\* One after the other, the columns that _recalculate_totals rounds apart add up to a cent.
SerialColumnsAddUpToACent == atOnce = 1 => ColumnsAddUpToACent

\* One after the other, record_payment calls an invoice paid only if its total, which only
\* a draft's items change, is covered.
SerialPaidCoversTotal == atOnce = 1 => PaidCoversTotal

=============================================================================
