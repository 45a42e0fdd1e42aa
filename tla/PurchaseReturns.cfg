CONSTANTS
    Return = {d1, d2}
    Order = {o1}
    NoOrder = NoOrder
    Request = {r1, r2}
    o1 = o1
    p = p
    main = main
    shelf = shelf
    org = org
    Product = {p}
    Warehouse = {main}
    Location = {shelf}
    NoLocation = NoLocation
    OrganizationOf <- MCOrganizationOf
    WarehouseOf <- MCWarehouseOf
    MaxQuantity = 2
    Line <- MCLine
    MaxLines = 2
    NewReturns <- MCNewReturns
    Ordered <- MCOrdered
    Blocks <- MCBlocks
    Idle = Idle
SPECIFICATION Spec
INVARIANTS TypeOK LeftAsCompleted ReturnedWasReceived
SYMMETRY Symmetry
CHECK_DEADLOCK TRUE
