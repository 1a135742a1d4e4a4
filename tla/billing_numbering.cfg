\* Clients retry until their invoices exist; two processes, restarts.
CONSTANTS
    InvoiceIds = {i1, i2, i3}
    ItemIds = {k1}
    Quantity <- MCQuantity
    UnitPrice <- MCUnitPrice
    Tenants = {t1}
    Contexts <- MCAdmin
    Processes = {p1, p2}
    Sessions = {s1, s2}
    ProcessOf <- MCTwoProcesses
    TaxRates = {1000}
    DueDates = {0}
    Payments = {4}
    ItemsLoad = TRUE
    DaysPerYear = 2
    MaxDay = 0
    MaxCount = 9
    t1 = t1
    k1 = k1
    k2 = k2
    k3 = k3
    p1 = p1
    p2 = p2
    s1 = s1
    s2 = s2
SPECIFICATION MCNumberingSpec
PROPERTIES RetriesSucceed
