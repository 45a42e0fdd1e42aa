---------------------------- MODULE StockReports ----------------------------
(***************************************************************************)
(* What the stock reports tell of the tables of StockAlerts: the ledger    *)
(* with its running balance, reconciliation, the dashboard, statistics and *)
(* reorder recommendations.  They see committed rows only; a report is     *)
(* taken to read all it needs at one moment.                               *)
(***************************************************************************)
EXTENDS StockAlerts, Functions

(* StockLedgerSelector.list: the places of the movements of shelves, which *)
(* are ordered by created_at.                                              *)
Movements(shelves) ==
    {n \in DOMAIN moves : moves[n].by = NoWork /\ moves[n].shelf \in shelves}

(* aggregate(Sum("quantity")) *)
SumOver(places) == SumFunctionOnSet([n \in DOMAIN moves |-> moves[n].quantity], places)
Incoming == {n \in DOMAIN moves : moves[n].quantity > 0}
Outgoing == {n \in DOMAIN moves : moves[n].quantity < 0}

(* StockLedgerSelector.summary, warehouse_summary *)
Summary(shelves) ==
    LET in == SumOver(Movements(shelves) \cap Incoming)
        out == SumOver(Movements(shelves) \cap Outgoing)
    IN  [total_in |-> in, total_out |-> -out, net |-> in + out]

(* StockLedgerSelector.running_balance, after each movement *)
RunningBalance(shelves) ==
    [n \in Movements(shelves) |-> SumOver(Movements(shelves) \cap (1..n))]

(* InventoryReconciliationService.reconcile_item: is_balanced *)
Balanced(shelf) == SumOver(Movements({shelf})) = units[shelf]
Discrepancies(shelves) == {s \in shelves : ~Balanced(s)}

(* InventoryAnalyticsSelector.get_top_products: units_moved *)
ShelvesOf(p) == {s \in Shelf : ProductOf[SiteOf[s]] = p}
UnitsMoved(p) == -SumOver(Movements(ShelvesOf(p)) \cap Outgoing)

(* get_dashboard_summary: total_units, products out_of_stock and low_stock *)
TotalUnits(shelves) == SumFunctionOnSet(units, shelves)
OnHand(p) == TotalUnits(ShelvesOf(p))
WithStatus(status) == {p \in Article : StatusOf(levels[p], OnHand(p)) = status}

(* Mutant: without a maximum, the reorder level is enough. *)
UpToReorder(l) == IF l.maximum > 0 THEN l.maximum ELSE l.reorder

(* get_reorder_recommendations for an organization: how much to order. *)
UpTo(l) == IF l.maximum > 0 THEN l.maximum ELSE 2 * l.reorder
Recommended ==
    [p \in {q \in WithStatus("OUT_OF_STOCK") \cup WithStatus("LOW_STOCK") : levels[q].reorder > 0}
        |-> Max({0, UpTo(levels[p]) - OnHand(p)})]
-----------------------------------------------------------------------------
(* The ledger explains the stock: neither a shelf nor all of them were     *)
(* ever below zero when movements are listed by created_at, though         *)
(* receipts write theirs before they lock the row; what was received less  *)
(* what was issued is what is there, so nothing is to be reconciled, and   *)
(* the dashboard, the top products and the ledger agree.                   *)
LedgerTells ==
    /\ Discrepancies(Shelf) = {}
    /\ \A shelves \in {{s} : s \in Shelf} \cup {Shelf} :
        /\ \A n \in Movements(shelves) : RunningBalance(shelves)[n] >= 0
        /\ Summary(shelves).net = TotalUnits(shelves)
    /\ SumFunction([p \in Article |-> UnitsMoved(p)]) = Summary(Shelf).total_out

(* Whoever orders what is recommended is no longer short: each product     *)
(* that has alerts for its shortage and a reorder level gets a             *)
(* recommendation that ends it without overstocking, unless its maximum is *)
(* not above its reorder level.                                            *)
ReorderEndsShortage ==
    \A p \in Article :
        LET l == levels[p] IN
        /\ p \in DOMAIN Recommended => OnHand(p) <= l.reorder
        /\ OnHand(p) <= l.reorder /\ l.reorder > 0 => p \in DOMAIN Recommended
        /\ p \in DOMAIN Recommended /\ (l.maximum > 0 => l.maximum > l.reorder) =>
              StatusOf(l, OnHand(p) + Recommended[p]) = "NORMAL"
=============================================================================
