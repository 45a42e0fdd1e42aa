CONSTANTS
    Document = {d1, d2}
    Request = {r1, r2}
    p = p
    main = main
    branch = branch
    foreign = foreign
    orgA = orgA
    orgB = orgB
    Product = {p}
    Warehouse = {main, branch, foreign}
    Location = {}
    NoLocation = NoLocation
    NoWarehouse = NoWarehouse
    NoHead = NoHead
    Idle = Idle
    OrganizationOf <- MCOrganizationOf
    WarehouseOf <- MCWarehouseOf
    MaxQuantity = 2
    Lines <- MCLines
    NewHeads <- MCNewHeads
    PatchedWarehouse = {branch}
    Blocks <- MCBlocks
SPECIFICATION Spec
INVARIANTS CompletedIsPosted PostedOnceUncontended DocumentsExplainStock
SYMMETRY Symmetry
CHECK_DEADLOCK FALSE
