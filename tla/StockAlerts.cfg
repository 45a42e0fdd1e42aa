CONSTANTS
    here = here
    there = there
    product = product
    front = front
    back = back
    far = far
    Site = {here, there}
    Place = {here, there}
    Shelf = {front, back, far}
    Article = {product}
    SiteOf <- MCSiteOf
    FirstShelf <- MCFirstShelf
    ProductOf <- MCProductOf
    Levels <- MCLevels
    NewAlert <- MCNewAlert
    AlertPatches <- MCAlertPatches
    Alert = {x1, x2}
    Worker = {w1, w2}
    Quantity = {1}
    MaxMoves = 2
    MaxEdits = 2
    NoWork = NoWork
    NoCopy = NoCopy
    NoAlert = NoAlert
SPECIFICATION AlertsSpec
INVARIANTS  LedgerTells ReorderEndsShortage
SYMMETRY Symmetry
CHECK_DEADLOCK TRUE
