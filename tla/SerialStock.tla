----------------------------- MODULE SerialStock ----------------------------
(***************************************************************************)
(* The stock tables as if every block ran alone: StockService's calls,     *)
(* each on the balance the call before it left, all of them or none.       *)
(* StockTransactions is shown to behave like this although its blocks      *)
(* interleave statement by statement; modules that need stock operations   *)
(* as one step (InventoryDocuments) take them from here.                   *)
(***************************************************************************)
EXTENDS StockCalls, SequencesExt

CONSTANT Blocks   \* the sequences of calls the program runs in a transaction

ASSUME BlocksAssumption == Blocks \subseteq Seq(Call)

VARIABLES rows, quantity, ledger

stock == <<rows, quantity, ledger>>

(* The balances a call can leave when it finds `balance`: none if it raises. *)
(* An adjust to zero that finds no InventoryItem returns without locking     *)
(* anything, so a receipt that commits before its block does survives it.    *)
Outcomes(call, balance) ==
    LET k == call.cell
        delta == MovementQuantity(call, balance[k])
    IN  IF /\ Acceptable(call)
           /\ ~Insufficient(call, balance[k])
           /\ Fits(delta) /\ Fits(balance[k] + delta)
        THEN {[balance EXCEPT ![k] = @ + delta]}
               \cup (IF call.op = "adjust" /\ call.quantity = 0 THEN {balance} ELSE {})
        ELSE {}

BlockOutcomes(block, balance) ==
    FoldLeft(LAMBDA reached, call : UNION {Outcomes(call, b) : b \in reached},
             {balance}, block)

(* The cells whose InventoryItem a block writes; an adjust may find nothing to do. *)
CellsOf(block) == {block[i].cell : i \in DOMAIN block}
WrittenBy(block) == {block[i].cell : i \in {j \in DOMAIN block : block[j].op # "adjust"}}

StockInit ==
    /\ rows = {}
    /\ quantity = [k \in Key |-> 0]
    /\ ledger = [k \in Key |-> 0]

(* The transaction of `block` commits. *)
Run(block) ==
    /\ quantity' \in BlockOutcomes(block, quantity)
    /\ ledger' = [k \in Key |-> ledger[k] + (quantity'[k] - quantity[k])]
    /\ \E items \in SUBSET CellsOf(block) : rows' = rows \cup WrittenBy(block) \cup items
    /\ \A k \in Key : quantity'[k] # quantity[k] => k \in rows'

StockNext == \E block \in Blocks : Run(block)

StockSpec == StockInit /\ [][StockNext]_stock
=============================================================================
