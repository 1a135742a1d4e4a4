\* Requests and the overdue task, one after the other or up to three at a time.
CONSTANTS
    InvoiceIds = {i1, i2}
    ItemIds = {k1, k2, k3}
    Quantity <- MCQuantity
    UnitPrice <- MCUnitPrice
    Tenants = {t1}
    Contexts <- MCContexts
    Processes = {p1, p2}
    Sessions = {s1, s2}
    ProcessOf <- MCTwoProcesses
    TaxRates = {0, 1000}
    DueDates = {0}
    Payments = {4, 40}
    ItemsLoad = TRUE
    DaysPerYear = 2
    MaxDay = 2
    MaxCount = 2
    t1 = t1
    k1 = k1
    k2 = k2
    k3 = k3
    p1 = p1
    p2 = p2
    s1 = s1
    s2 = s2
SPECIFICATION MCSpec
INVARIANTS
    TypeOK
    SubtotalIsOfItems
    OverdueIsPastDue
    SerialTotalsMatchItems
    SerialColumnsAddUpToACent
    SerialPaidCoversTotal
