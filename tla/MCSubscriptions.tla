-------------------------- MODULE MCSubscriptions --------------------------
(***************************************************************************)
(* The turn of a year: a quarterly subscription, or an empty weekly one,   *)
(* whose first period is due on the last day of December, and a second     *)
(* organization that numbers its invoices, too.  A client may take the     *)
(* second number of the old year for itself.                               *)
(***************************************************************************)
EXTENDS RevenueForecast, TLC

CONSTANTS orgA, orgB

On(year, month, day) == [year |-> year, month |-> month, day |-> day]

MCOwnerOf == [s \in Subscription |-> orgA]
MCFirstDay == On(2023, 12, 31)
MCDays == {MCFirstDay, On(2024, 1, 31)}

New(cycle, items, auto) ==
    [status |-> "ACTIVE", active |-> TRUE, auto |-> auto, cycle |-> cycle,
     start |-> MCFirstDay, next |-> MCFirstDay, items |-> items]

MCNewRows == {New("QUARTERLY", TRUE, TRUE), New("WEEKLY", FALSE, TRUE)}
MCPatches == {[cycle |-> "MONTHLY", start |-> On(2024, 1, 31)]}
MCClientNumbers == {[year |-> 2023, number |-> 2]}
MCNoNumbers == {}
=============================================================================
