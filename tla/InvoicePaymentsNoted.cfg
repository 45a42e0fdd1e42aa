CONSTANTS
    i1 = i1
    i2 = i2
    Invoice = {i1}
    Entry = {x1, x2}
    Request = {r1, r2}
    Total <- MCTotal
    Created <- MCCreated
    Rank <- MCRank
    Late = {i1}
    Day = {1, 2}
    NoDay = NoDay
    DaysOverdue <- MCDaysOverdue
    InvoiceDay <- MCInvoiceDay
    EntryDay <- MCEntryDay
    DateOf <- MCDateOf
    ReportDate <- MCReportDate
    Reversal = {"REFUNDED"}
    NewEntries <- MCNoted
    Amount = {2}
    Redirect = {NoInvoice}
    Written <- MCNothing
    NoInvoice = NoInvoice
    NoEntry = NoEntry
    Idle = Idle
SPECIFICATION PaymentsSpec
INVARIANTS NeverBeyond ReportsAgree DashboardsAgree
SYMMETRY Symmetry
CHECK_DEADLOCK TRUE
