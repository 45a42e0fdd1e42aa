CONSTANTS
    Order = {o1}
    Receipt = {c1, c2}
    Request = {r1, r2}
    o1 = o1
    p = p
    q = q
    x = x
    main = main
    org = org
    Product = {p, q, x}
    Warehouse = {main}
    Location = {}
    NoLocation = NoLocation
    OrganizationOf <- MCOrganizationOf
    WarehouseOf <- MCWarehouseOf
    MaxQuantity = 4
    Line <- MCLine
    MaxLines = 2
    NewOrders <- MCNewOrders
    NewReceipts <- MCNewReceipts
    Blocks <- MCBlocks
    Idle = Idle
SPECIFICATION Spec
INVARIANTS NeverAhead ReceivedHasArrived WithinOrder StatusTells
PROPERTY ClosedForGood
SYMMETRY Symmetry
CHECK_DEADLOCK FALSE
