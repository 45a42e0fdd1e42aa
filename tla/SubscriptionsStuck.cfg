CONSTANTS
    orgA = orgA
    orgB = orgB
    Subscription = {s}
    Organization = {orgA, orgB}
    OwnerOf <- MCOwnerOf
    Request = {r1}
    Days <- MCDays
    FirstDay <- MCFirstDay
    NewRows <- MCNewRows
    Patches <- MCPatches
    ClientNumbers <- MCNoNumbers
    MaxBilled = 1
    MaxInvoices = 1
    ForecastMonths = 3
    Idle = Idle
SPECIFICATION FairSubscriptions
PROPERTIES NothingStaysDue
