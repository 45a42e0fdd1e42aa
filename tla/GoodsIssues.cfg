CONSTANTS
    Gin = {g1, g2}
    PlainGin = {g2}
    Request = {r1, r2}
    clerk = clerk
    manager = manager
    User = {clerk, manager}
    Approver = {manager}
    NoUser = NoUser
    i1 = i1
    Invoice = {i1}
    NoInvoice = NoInvoice
    NoNote = NoNote
    Idle = Idle
    p = p
    q = q
    service = service
    store = store
    org = org
    Product = {p, q, service}
    Stockable = {p, q}
    Warehouse = {store}
    Location = {}
    NoLocation = NoLocation
    OrganizationOf <- MCOrganizationOf
    WarehouseOf <- MCWarehouseOf
    MaxQuantity = 2
    InvoiceLines <- MCInvoiceLines
    EditedLines <- MCEditedLines
    NewNotes <- MCNewNotes
    PatchedUser = {}
    PatchedWarehouse = {}
    Restocks <- MCRestocks
    Blocks <- MCBlocks
SPECIFICATION Spec
INVARIANTS  FourEyes ReportedHasLeft
PROPERTY IssuedWithinInvoice
SYMMETRY Symmetry
CHECK_DEADLOCK FALSE
