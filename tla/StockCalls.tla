----------------------------- MODULE StockCalls -----------------------------
(***************************************************************************)
(* The vocabulary of StockService (inventory/services.py): the stock cells *)
(* it keeps balances for, the calls it accepts and what each call asks of  *)
(* a balance.  One call is one receive, issue or adjust; a transfer is an  *)
(* issue followed by a receive inside one database transaction, and        *)
(* completing a document is one call per document line inside one          *)
(* transaction.  Such a sequence of calls is called a block.               *)
(***************************************************************************)
EXTENDS Integers, Sequences

CONSTANTS
    Product, Warehouse, Location,   \* rows of the tables of these names
    NoLocation,       \* location=None: the balance of a warehouse as a whole
    OrganizationOf,   \* the organization of a product or a warehouse
    WarehouseOf,      \* the warehouse a location belongs to
    MaxQuantity       \* the largest value of DecimalField(max_digits=15)

ASSUME LocationsAssumption ==
    /\ NoLocation \notin Location
    /\ WarehouseOf \in [Location -> Warehouse]

ASSUME MaxQuantityAssumption == MaxQuantity \in Nat \ {0}

-----------------------------------------------------------------------------
(* The cell a call names: a product, a warehouse and a location or none. *)
Cell == Product \X Warehouse \X (Location \cup {NoLocation})

(* _validate_stock_context: product, warehouse and location belong together. *)
ValidContext(product, warehouse, location) ==
    /\ OrganizationOf[product] = OrganizationOf[warehouse]
    /\ location # NoLocation => WarehouseOf[location] = warehouse

(* The cells that may have an InventoryItem: the key of its unique constraints. *)
Key == {c \in Cell : ValidContext(c[1], c[2], c[3])}

Operation == {"receive", "issue", "adjust"}

(* The quantity of an adjust is the counted quantity the balance is set to. *)
Call == [op: Operation, cell: Cell, quantity: Int, allow_negative: BOOLEAN]

(* The checks made on the arguments alone, before any statement is executed. *)
Acceptable(call) ==
    /\ call.op = "adjust" => call.quantity >= 0
    /\ call.op # "adjust" => call.quantity > 0
    /\ call.cell \in Key

(* What a call adds to a balance it reads as `current`: the movement's quantity. *)
MovementQuantity(call, current) ==
    CASE call.op = "receive" -> call.quantity
      [] call.op = "issue"   -> -call.quantity
      [] call.op = "adjust"  -> call.quantity - current

(* InsufficientStockError *)
Insufficient(call, current) ==
    call.op = "issue" /\ ~call.allow_negative /\ current < call.quantity

(* The column holds 15 digits: the database refuses a larger value. *)
Fits(n) == n \in (-MaxQuantity)..MaxQuantity

(* StockService.transfer: the two calls of a transfer between two warehouses. *)
TransferBlock(product, from, from_location, to, to_location, n) ==
    << [op |-> "issue",   cell |-> <<product, from, from_location>>,
        quantity |-> n, allow_negative |-> FALSE],
       [op |-> "receive", cell |-> <<product, to, to_location>>,
        quantity |-> n, allow_negative |-> FALSE] >>
=============================================================================
