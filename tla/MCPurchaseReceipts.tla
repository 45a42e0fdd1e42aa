------------------------- MODULE MCPurchaseReceipts -------------------------
(***************************************************************************)
(* One order, of two units of p and one of q or of p on two lines, and two *)
(* receipts against it: one unit of p, both products in full, one with a   *)
(* product that is not on the order, or p twice and more than was ordered. *)
(***************************************************************************)
EXTENDS PurchaseReceipts, TLC

CONSTANTS p, q, x, main, o1, org

MCOrganizationOf == [e \in {p, q, x, main, o1} |-> org]
MCWarehouseOf == [l \in {} |-> main]

MCLine == {<<p, 1>>, <<p, 2>>, <<q, 1>>, <<x, 1>>}
MCNewOrders == { << <<p, 2>>, <<q, 1>> >>, << <<p, 1>>, <<p, 1>> >> }

Against(lines) == [order |-> o1, warehouse |-> main, lines |-> lines]

MCNewReceipts ==
    { Against(<< <<p, 1>> >>), Against(<< <<p, 2>>, <<q, 1>> >>),
      Against(<< <<q, 1>>, <<x, 1>> >>), Against(<< <<p, 1>>, <<p, 2>> >>) }

MCBlocks == {Posting(row) : row \in MCNewReceipts}

Symmetry == Permutations(Receipt) \cup Permutations(Request)
=============================================================================
