CONSTANTS
    x = x
    y = y
    Quotation = {q}
    Item = {x, y}
    Request = {r1, r2}
    SellingPrice = 3
    NewQuotations <- MCNewQuotations
    Edits <- MCEdits
    QuotationPatches <- MCPatches
    MaxConversions = 2
    NoLine = NoLine
    NoPrice = NoPrice
    Idle = Idle
SPECIFICATION QuotationsSpec
INVARIANTS ConvertedOnce InvoicedAsIssued
PROPERTY IssuedIsFrozen
SYMMETRY Symmetry
CHECK_DEADLOCK FALSE
