CONSTANTS
    Invoice = {i1}
    Request = {r1, r2}
    i1 = i1
    p = p
    service = service
    main = main
    branch = branch
    org = org
    Product = {p, service}
    Stockable = {p}
    Warehouse = {main, branch}
    Location = {}
    NoLocation = NoLocation
    NoWarehouse = NoWarehouse
    Idle = Idle
    OrganizationOf <- MCOrganizationOf
    WarehouseOf <- MCWarehouseOf
    MaxQuantity = 1
    Line <- MCLine
    MaxLines = 1
    DefaultWarehouse <- MCDefaultWarehouse
    NewInvoices <- MCNewInvoices
    FormStatus = {"UNPAID", "CANCELLED"}
    WrittenWarehouse = {branch}
    Restocks <- MCRestocks
    Blocks <- MCBlocks
SPECIFICATION Spec
INVARIANTS TypeOK GoodsOutAsFlagged CancelledHoldsNothing
SYMMETRY Symmetry
CHECK_DEADLOCK FALSE
