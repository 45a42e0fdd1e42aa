CONSTANTS
    Worker = {w1, w2}
    NoWorker = NoWorker
    p = p
    main = main
    branch = branch
    foreign = foreign
    orgA = orgA
    orgB = orgB
    Product = {p}
    Warehouse = {main, branch, foreign}
    Location = {}
    NoLocation = NoLocation
    OrganizationOf <- MCOrganizationOf
    WarehouseOf <- MCWarehouseOf
    MaxQuantity = 2
    Blocks <- MCBlocks
SPECIFICATION FairSpec
INVARIANTS TypeOK Reconciled NonNegative
PROPERTIES SerialCommits EveryBlockEnds
CHECK_DEADLOCK TRUE
