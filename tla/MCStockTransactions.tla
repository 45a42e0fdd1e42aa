------------------------- MODULE MCStockTransactions ------------------------
(***************************************************************************)
(* One product, two warehouses of its organization and one of another      *)
(* organization.  The blocks are every single call with a small quantity,  *)
(* both transfers, a two-line stock count, a two-line goods issue, a       *)
(* receipt whose second line names the foreign warehouse, and calls whose  *)
(* arguments StockService refuses.                                         *)
(***************************************************************************)
EXTENDS StockTransactions, TLC

CONSTANTS p, main, branch, foreign, orgA, orgB

MCOrganizationOf == [x \in {p, main, branch} |-> orgA] @@ (foreign :> orgB)
MCWarehouseOf == [l \in {} |-> main]

At(warehouse) == <<p, warehouse, NoLocation>>

Do(op, warehouse, n) ==
    [op |-> op, cell |-> At(warehouse), quantity |-> n, allow_negative |-> FALSE]

SingleCalls ==
    {<<Do(op, wh, n)>> : op \in {"receive", "issue"}, wh \in {main, branch}, n \in {1, 2}}
    \cup {<<Do("adjust", main, n)>> : n \in {0, 1}}

Documents ==
    { TransferBlock(p, main, NoLocation, branch, NoLocation, 1),
      TransferBlock(p, branch, NoLocation, main, NoLocation, 1),
      <<Do("adjust", main, 1), Do("adjust", branch, 0)>>,
      <<Do("receive", main, 1), Do("receive", foreign, 1)>> }

Refused == { <<Do("issue", main, 0)>>, <<Do("adjust", branch, -1)>> }

MCBlocks == SingleCalls \cup Documents \cup Refused
=============================================================================
