--------------------------- MODULE MCStockAlerts ---------------------------
(***************************************************************************)
(* One product in two warehouses: here, on the shelves front and back, of  *)
(* which front has the lower id, and there, on the shelf far.  The product *)
(* is given a reorder level of one or a maximum of one.  A client changes  *)
(* the kind of alerts or moves them there.                                 *)
(***************************************************************************)
EXTENDS StockReports, TLC

CONSTANTS here, there, product, front, back, far

MCSiteOf == [s \in Shelf |-> IF s = far THEN there ELSE here]
MCFirstShelf == [s \in Site |-> IF s = there THEN far ELSE front]
MCProductOf == [s \in Site |-> product]
MCLevels == {[reorder |-> 1, maximum |-> 0], [reorder |-> 0, maximum |-> 1]}
MCNewAlert ==
    {[site |-> here, kind |-> "LOW_STOCK", level |-> 0, threshold |-> 0, active |-> TRUE]}
MCAlertPatches == {[kind |-> "OVERSTOCK"], [site |-> there]}

Symmetry == Permutations(Worker) \cup Permutations(Alert)
=============================================================================
