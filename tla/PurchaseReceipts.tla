-------------------------- MODULE PurchaseReceipts --------------------------
(****************************************************************************)
(* Purchase orders (PurchaseService behind the REST and web handlers) and   *)
(* the receipts against them: complete_grn for a GRN with a purchase_order. *)
(*                                                                          *)
(* complete_grn locks nothing when it checks: it compares each line with    *)
(* what remains, then for each line reads the order's line, adds and writes *)
(* it back, reads all lines for the status, and posts the stock, in one     *)
(* READ COMMITTED transaction next to others: Check, Read and Write for     *)
(* each line, Settle and Complete.  No handler creates a receipt with an    *)
(* order yet; the service does.                                             *)
(****************************************************************************)
EXTENDS SerialStock

CONSTANTS
    Order,         \* ids of purchase orders
    Receipt,       \* ids of goods received notes
    Request,       \* the requests that can be in progress at once
    Line,          \* <<product, quantity>>, of an order or of a receipt
    MaxLines,      \* bound: the most lines of either
    NewOrders,     \* the lines of the orders clients create
    NewReceipts,   \* the receipts created against orders
    Idle

OrderStatus == {"DRAFT", "SUBMITTED", "APPROVED", "PARTIAL_RECEIPT", "RECEIVED",
                "CLOSED", "CANCELLED"}

(* complete_grn and cancel_grn treat DRAFT, PENDING and APPROVED alike. *)
ReceiptStatus == {"OPEN", "COMPLETED", "CANCELLED"}
Absent == {"unborn", "deleted"}

Lines == BoundedSeq(Line, MaxLines)
Row == [order: Order, warehouse: Warehouse, lines: Lines]

Position == 1..MaxLines
Amounts == [Position -> Nat]
None == [n \in Position |-> 0]

(* The two rows a handler can work on, as it loaded them.  A completion has *)
(* `locked` the order lines it wrote; `seen` is what it read or wrote of    *)
(* them, `taken` what it counted, `next` the line of the receipt it is at.  *)
OrderCopy == [on: {"order"}, order: Order, status: OrderStatus]
ReceiptCopy ==
    [on: {"receipt"}, receipt: Receipt, order: Order, status: ReceiptStatus, row: Row,
     phase: {"loaded", "counting", "read", "counted"}, next: 1..(MaxLines + 1),
     locked: SUBSET Position, seen: Amounts, taken: Amounts]

ASSUME LinesAssumption ==
    MaxLines \in Nat \ {0} /\ Line \subseteq Product \X (Nat \ {0})

ASSUME NewAssumption ==
    /\ NewOrders \subseteq Lines /\ NewReceipts \subseteq Row
    /\ Idle \notin OrderCopy \cup ReceiptCopy

VARIABLES
    status,     \* PurchaseOrder.status, or why there is no row
    ordered,    \* the lines of an order
    received,   \* received_quantity of each
    grn,        \* the status of a receipt, or why there is no row
    head,       \* the order, the warehouse and the lines of a receipt
    arrived,    \* what completed receipts brought into stock, per order line
    request,    \* the copy a request works on, Idle between requests
    contended   \* the orders two requests have worked for at once

order == <<status, ordered, received>>
receipt == <<grn, head>>
vars == <<rows, quantity, ledger, status, ordered, received, grn, head, arrived,
          request, contended>>

-----------------------------------------------------------------------------
(* po.items.filter(product=item.product).first() *)
IsLineFor(lines, item, n) ==
    /\ n \in DOMAIN lines
    /\ lines[n][1] = item[1]
    /\ \A m \in 1..(n - 1) : lines[m][1] # item[1]

(* all(pi.received_quantity >= pi.quantity for pi in po.items.all()) *)
AllReceived(lines, got) == \A n \in DOMAIN lines : got[n] >= lines[n][2]

(* for item in grn.items.all(): StockService.receive(...) *)
Posting(row) ==
    [k \in DOMAIN row.lines |->
        [op |-> "receive", cell |-> <<row.lines[k][1], row.warehouse, NoLocation>>,
         quantity |-> row.lines[k][2], allow_negative |-> FALSE]]

Works(r, kind) == request[r] # Idle /\ request[r].on = kind
OrderOf(r) == request[r].order
Note(r) == request[r].row
LinesOf(r) == ordered[OrderOf(r)]
Item(r) == Note(r).lines[request[r].next]

(* A completion at this phase. *)
At(r, phase) == Works(r, "receipt") /\ request[r].phase = phase

(* An UPDATE holds the row of an order line until the transaction ends. *)
Holds(s, o, n) == Works(s, "receipt") /\ OrderOf(s) = o /\ n \in request[s].locked

Becomes(r, copy) == request' = [request EXCEPT ![r] = copy]

(* The response is sent. *)
Done(r) == Becomes(r, Idle)

Contend(o) ==
    contended' = contended \cup
        {x \in {o} : \E s \in Request : request[s] # Idle /\ OrderOf(s) = x}

-----------------------------------------------------------------------------
Init ==
    /\ StockInit
    /\ status = [o \in Order |-> "unborn"]
    /\ ordered = [o \in Order |-> <<>>]
    /\ received = [o \in Order |-> None]
    /\ grn = [c \in Receipt |-> "unborn"]
    /\ head \in [Receipt -> NewReceipts]
    /\ arrived = [o \in Order |-> None]
    /\ request = [r \in Request |-> Idle]
    /\ contended = {}

(* create_purchase_order *)
PlaceOrder(o, lines) ==
    /\ status' = [status EXCEPT ![o] = "DRAFT"]
    /\ ordered' = [ordered EXCEPT ![o] = lines]

(* purchase_order_create and the REST create, which takes empty orders, too. *)
CreateOrder(o) ==
    /\ status[o] = "unborn"
    /\ \E lines \in NewOrders : PlaceOrder(o, lines)
    /\ UNCHANGED <<stock, received, receipt, arrived, request, contended>>

(* create_grn, whatever the status of the order. *)
CreateReceipt(c) ==
    /\ grn[c] = "unborn"
    /\ status[head[c].order] \notin Absent
    /\ \A k \in DOMAIN head[c].lines :
          OrganizationOf[head[c].lines[k][1]] = OrganizationOf[head[c].warehouse]
    /\ grn' = [grn EXCEPT ![c] = "OPEN"]
    /\ UNCHANGED <<stock, order, head, arrived, request, contended>>

(* get_object(), get_object_or_404() *)
LoadOrder(r) ==
    /\ request[r] = Idle
    /\ \E o \in Order :
        /\ status[o] \notin Absent
        /\ Becomes(r, [on |-> "order", order |-> o, status |-> status[o]])
        /\ Contend(o)
    /\ UNCHANGED <<stock, order, receipt, arrived>>

LoadReceipt(r) ==
    /\ request[r] = Idle
    /\ \E c \in Receipt :
        /\ grn[c] \notin Absent
        /\ Becomes(r,
              [on |-> "receipt", receipt |-> c, order |-> head[c].order, status |-> grn[c],
               row |-> head[c], phase |-> "loaded", next |-> 1, locked |-> {},
               seen |-> None, taken |-> None])
        /\ Contend(head[c].order)
    /\ UNCHANGED <<stock, order, receipt, arrived>>

(* po.save(update_fields=["status"]) *)
SaveOrder(r, may, new) ==
    /\ Works(r, "order")
    /\ request[r].status \in may
    /\ status[OrderOf(r)] \notin Absent
    /\ status' = [status EXCEPT ![OrderOf(r)] = new]
    /\ Done(r)
    /\ UNCHANGED <<stock, ordered, received, receipt, arrived, contended>>

Submit(r) == SaveOrder(r, {"DRAFT"}, "SUBMITTED")

(* Mutant: only closed and cancelled orders are refused. *)
ApproveAgain(r) == SaveOrder(r, OrderStatus \ {"CLOSED", "CANCELLED"}, "APPROVED")

Approve(r) == SaveOrder(r, {"DRAFT", "SUBMITTED"}, "APPROVED")

Cancel(r) == SaveOrder(r, OrderStatus \ {"RECEIVED", "CLOSED"}, "CANCELLED")
Close(r) == SaveOrder(r, OrderStatus \ {"CANCELLED"}, "CLOSED")

(* PATCH of an order: serializer.save() writes the status of the copy back, *)
(* and inserts a row that is gone, without its lines.                       *)
PatchOrder(r) ==
    /\ Works(r, "order")
    /\ status' = [status EXCEPT ![OrderOf(r)] = request[r].status]
    /\ Done(r)
    /\ UNCHANGED <<stock, ordered, received, receipt, arrived, contended>>

(* DELETE of an order; its receipts protect it. *)
DestroyOrder(r) ==
    /\ Works(r, "order")
    /\ \A c \in Receipt : grn[c] \notin Absent => head[c].order # OrderOf(r)
    /\ status' = [status EXCEPT ![OrderOf(r)] = "deleted"]
    /\ ordered' = [ordered EXCEPT ![OrderOf(r)] = <<>>]
    /\ received' = [received EXCEPT ![OrderOf(r)] = None]
    /\ arrived' = [arrived EXCEPT ![OrderOf(r)] = None]
    /\ Done(r)
    /\ UNCHANGED <<stock, receipt, contended>>

(* Mutant: what was received before is not subtracted. *)
CheckAgainstOrder(r) ==
    /\ At(r, "loaded")
    /\ request[r].status = "OPEN"
    /\ status[OrderOf(r)] \in {"APPROVED", "PARTIAL_RECEIPT"}
    /\ \A k \in DOMAIN Note(r).lines, n \in DOMAIN LinesOf(r) :
          IsLineFor(LinesOf(r), Note(r).lines[k], n) =>
              Note(r).lines[k][2] <= LinesOf(r)[n][2]
    /\ Becomes(r, [request[r] EXCEPT !.phase = "counting"])
    /\ UNCHANGED <<stock, order, receipt, arrived, contended>>

(* Mutant: goods are received whatever the status of the order. *)
CheckAnyStatus(r) ==
    /\ At(r, "loaded")
    /\ request[r].status = "OPEN"
    /\ \A k \in DOMAIN Note(r).lines, n \in DOMAIN LinesOf(r) :
          IsLineFor(LinesOf(r), Note(r).lines[k], n) =>
              Note(r).lines[k][2] <= LinesOf(r)[n][2] - received[OrderOf(r)][n]
    /\ Becomes(r, [request[r] EXCEPT !.phase = "counting"])
    /\ UNCHANGED <<stock, order, receipt, arrived, contended>>

(* The checks of complete_grn, of the receipt as loaded and of the order as *)
(* it is.  Items of products that are not on the order are not checked.     *)
Check(r) ==
    /\ At(r, "loaded")
    /\ request[r].status = "OPEN"
    /\ status[OrderOf(r)] \in {"APPROVED", "PARTIAL_RECEIPT"}
    /\ \A k \in DOMAIN Note(r).lines, n \in DOMAIN LinesOf(r) :
          IsLineFor(LinesOf(r), Note(r).lines[k], n) =>
              Note(r).lines[k][2] <= LinesOf(r)[n][2] - received[OrderOf(r)][n]
    /\ Becomes(r, [request[r] EXCEPT !.phase = "counting"])
    /\ UNCHANGED <<stock, order, receipt, arrived, contended>>

(* received_quantity of the order's lines as the transaction of r sees it. *)
Written(r) ==
    [n \in Position |-> IF n \in request[r].locked THEN request[r].seen[n]
                        ELSE received[OrderOf(r)][n]]

(* Mutant: the order's lines are fetched once for all items. *)
ReadCommitted(r) ==
    /\ At(r, "counting") /\ request[r].next \in DOMAIN Note(r).lines
    /\ \E n \in DOMAIN LinesOf(r) :
        /\ IsLineFor(LinesOf(r), Item(r), n)
        /\ Becomes(r, [request[r] EXCEPT !.phase = "read",
                                         !.seen[n] = received[OrderOf(r)][n]])
    /\ UNCHANGED <<stock, order, receipt, arrived, contended>>

(* The order's line for the next item is read, as this transaction sees it. *)
Read(r) ==
    /\ At(r, "counting") /\ request[r].next \in DOMAIN Note(r).lines
    /\ \E n \in DOMAIN LinesOf(r) :
        /\ IsLineFor(LinesOf(r), Item(r), n)
        /\ Becomes(r, [request[r] EXCEPT !.phase = "read", !.seen[n] = Written(r)[n]])
    /\ UNCHANGED <<stock, order, receipt, arrived, contended>>

(* if po_item: the order has no line for the item. *)
PassOver(r) ==
    /\ At(r, "counting") /\ request[r].next \in DOMAIN Note(r).lines
    /\ \A n \in DOMAIN LinesOf(r) : ~IsLineFor(LinesOf(r), Item(r), n)
    /\ Becomes(r, [request[r] EXCEPT !.next = @ + 1])
    /\ UNCHANGED <<stock, order, receipt, arrived, contended>>

(* received_quantity += item.quantity; po_item.save(): waits for the row. *)
Write(r) ==
    /\ At(r, "read")
    /\ \E n \in DOMAIN LinesOf(r) :
        /\ IsLineFor(LinesOf(r), Item(r), n)
        /\ \A s \in Request \ {r} : ~Holds(s, OrderOf(r), n)
        /\ Becomes(r, [request[r] EXCEPT
              !.phase = "counting", !.next = @ + 1, !.locked = @ \cup {n},
              !.seen[n] = @ + Item(r)[2], !.taken[n] = @ + Item(r)[2]])
    /\ UNCHANGED <<stock, order, receipt, arrived, contended>>

(* All lines of the order are read for its status. *)
Settle(r) ==
    /\ At(r, "counting") /\ request[r].next \notin DOMAIN Note(r).lines
    /\ Becomes(r, [request[r] EXCEPT !.phase = "counted", !.seen = Written(r)])
    /\ UNCHANGED <<stock, order, receipt, arrived, contended>>

(* Mutant: the quantities are written in a transaction of their own. *)
FailAfterCount(r) ==
    /\ request[r] # Idle
    /\ received' = IF At(r, "counted") THEN [received EXCEPT ![OrderOf(r)] = Written(r)]
                   ELSE received
    /\ Done(r)
    /\ UNCHANGED <<stock, status, ordered, receipt, arrived, contended>>

(* The status of the order, the stock, the status of the receipt, and the  *)
(* commit; save(update_fields) raises when the receipt is gone.            *)
Complete(r) ==
    LET o == OrderOf(r) IN
    /\ At(r, "counted")
    /\ grn[request[r].receipt] \notin Absent
    /\ received' = [received EXCEPT ![o] = Written(r)]
    /\ status' = [status EXCEPT ![o] =
          IF AllReceived(LinesOf(r), request[r].seen) THEN "RECEIVED" ELSE "PARTIAL_RECEIPT"]
    /\ Run(Posting(Note(r)))
    /\ arrived' = [arrived EXCEPT ![o] = [n \in Position |-> @[n] + request[r].taken[n]]]
    /\ grn' = [grn EXCEPT ![request[r].receipt] = "COMPLETED"]
    /\ Done(r)
    /\ UNCHANGED <<ordered, head, contended>>

(* cancel_grn *)
CancelReceipt(r) ==
    /\ At(r, "loaded")
    /\ request[r].status # "COMPLETED"
    /\ grn[request[r].receipt] \notin Absent
    /\ grn' = [grn EXCEPT ![request[r].receipt] = "CANCELLED"]
    /\ Done(r)
    /\ UNCHANGED <<stock, order, head, arrived, contended>>

(* DELETE of a receipt, whatever its status: received_quantity stays. *)
DestroyReceipt(r) ==
    /\ At(r, "loaded")
    /\ grn' = [grn EXCEPT ![request[r].receipt] = "deleted"]
    /\ Done(r)
    /\ UNCHANGED <<stock, order, head, arrived, contended>>

(* PATCH of a receipt writes the status of the copy back, and inserts a row *)
(* that is gone, without its lines but with its order.                      *)
PatchReceipt(r) ==
    LET c == request[r].receipt IN
    /\ At(r, "loaded")
    /\ status[OrderOf(r)] \notin Absent
    /\ grn' = [grn EXCEPT ![c] = request[r].status]
    /\ head' = [head EXCEPT ![c].lines = IF grn[c] = "deleted" THEN <<>> ELSE @]
    /\ Done(r)
    /\ UNCHANGED <<stock, order, arrived, contended>>

(* A check refuses, StockService raises and the transaction is rolled back, *)
(* a deadlock victim, or the process dies.                                  *)
Fail(r) ==
    /\ request[r] # Idle
    /\ Done(r)
    /\ UNCHANGED <<stock, order, receipt, arrived, contended>>

HandleOrder(r) ==
    \/ Submit(r) \/ Approve(r) \/ Cancel(r) \/ Close(r) \/ PatchOrder(r) \/ DestroyOrder(r)

HandleReceipt(r) ==
    \/ Check(r) \/ Read(r) \/ PassOver(r) \/ Write(r) \/ Settle(r) \/ Complete(r)
    \/ CancelReceipt(r) \/ PatchReceipt(r) \/ DestroyReceipt(r)

Next ==
    \/ \E o \in Order : CreateOrder(o)
    \/ \E c \in Receipt : CreateReceipt(c)
    \/ \E r \in Request :
          LoadOrder(r) \/ LoadReceipt(r) \/ HandleOrder(r) \/ HandleReceipt(r) \/ Fail(r)

Spec == Init /\ [][Next]_vars
-----------------------------------------------------------------------------
OrdersTypeOK ==
    /\ status \in [Order -> OrderStatus \cup Absent]
    /\ ordered \in [Order -> Lines]
    /\ received \in [Order -> Amounts]
    /\ arrived \in [Order -> Amounts]
    /\ grn \in [Receipt -> ReceiptStatus \cup Absent]
    /\ head \in [Receipt -> Row]
    /\ request \in [Request -> OrderCopy \cup ReceiptCopy \cup {Idle}]
    /\ contended \subseteq Order

(* The orders that no two requests ever worked for at once. *)
Orderly == Order \ contended

(* received_quantity never claims more than receipts brought into stock,   *)
(* although it is read, added to and written back without a lock: requests *)
(* that overlap can lose a receipt, never invent one.                      *)
NeverAhead ==
    \A o \in Order : \A n \in DOMAIN ordered[o] : received[o][n] <= arrived[o][n]

(* received_quantity is what completed receipts brought into stock: counted *)
(* and posted together, each receipt once for each of its lines, whichever  *)
(* of them fail and whatever happens to receipts and order afterwards.      *)
ReceivedHasArrived == \A o \in Orderly : received[o] = arrived[o]

(* "Only {remaining} units remain on the purchase order": an order line    *)
(* never gets more than was ordered, as long as no receipt of the order    *)
(* names a product twice (complete_grn checks line by line).               *)
OneLineEach(c) ==
    \A j, k \in DOMAIN head[c].lines : head[c].lines[j][1] = head[c].lines[k][1] => j = k

Plain(o) == \A c \in Receipt : head[c].order = o => OneLineEach(c)

WithinOrder ==
    \A o \in Orderly : Plain(o) =>
        \A n \in DOMAIN ordered[o] : received[o][n] <= ordered[o][n][2]

(* The status of an order tells how far it has been received. *)
StatusTells ==
    \A o \in Orderly :
        /\ status[o] = "RECEIVED" => AllReceived(ordered[o], received[o])
        /\ status[o] = "PARTIAL_RECEIPT" => ~AllReceived(ordered[o], received[o])
        /\ status[o] \in {"DRAFT", "SUBMITTED", "APPROVED"} =>
              received[o] = None

(* A closed or cancelled order stays so and receives nothing more. *)
ClosedForGood ==
    [][\A o \in Order \ contended' : status[o] \in {"CLOSED", "CANCELLED"} =>
          /\ status'[o] \in {status[o], "deleted"}
          /\ status'[o] = status[o] => received'[o] = received[o]]_vars
-----------------------------------------------------------------------------
(* The invariants the proofs rest on. *)

(* Copies are of rows that exist or existed, and of one order. *)
CopiesBelong ==
    /\ \A o \in Order : status[o] = "unborn" => received[o] = None /\ arrived[o] = None
    /\ \A c \in Receipt : grn[c] # "unborn" => status[head[c].order] # "unborn"
    /\ \A r \in Request : request[r] # Idle => status[OrderOf(r)] # "unborn"
    /\ \A r \in Request : Works(r, "receipt") =>
          /\ grn[request[r].receipt] # "unborn"
          /\ head[request[r].receipt].order = OrderOf(r)
          /\ request[r].phase = "loaded" => request[r].next = 1 /\ request[r].locked = {}
          /\ request[r].phase = "read" => request[r].next \in DOMAIN Note(r).lines

(* What a completion read or wrote is not more than arrived and will arrive. *)
SeenHasArrived ==
    \A r \in Request : Works(r, "receipt") =>
        \A n \in DOMAIN LinesOf(r) :
            request[r].seen[n] <= arrived[OrderOf(r)][n] + request[r].taken[n]

(* The only request that works for an order has its rows as they still are. *)
CopiesAreCurrent ==
    \A r \in Request : request[r] # Idle /\ OrderOf(r) \notin contended =>
        /\ \A s \in Request : request[s] # Idle /\ OrderOf(s) = OrderOf(r) => s = r
        /\ Works(r, "order") => status[OrderOf(r)] = request[r].status
        /\ Works(r, "receipt") =>
              /\ grn[request[r].receipt] = request[r].status
              /\ head[request[r].receipt] = Note(r)
              /\ request[r].phase # "loaded" =>
                    status[OrderOf(r)] \in {"APPROVED", "PARTIAL_RECEIPT"}

(* The order lines the completion of r has read. *)
HasRead(r, n) ==
    \/ n \in request[r].locked \/ request[r].phase = "counted"
    \/ request[r].phase = "read" /\ IsLineFor(LinesOf(r), Item(r), n)

(* It has counted on what was received. *)
CountsAreCurrent ==
    \A r \in Request : Works(r, "receipt") /\ OrderOf(r) \notin contended =>
        \A n \in Position :
            /\ n \notin request[r].locked => request[r].taken[n] = 0
            /\ HasRead(r, n) =>
                  request[r].seen[n] = received[OrderOf(r)][n] + request[r].taken[n]

(* What it has counted and what it will count fits the order. *)
CountsFit ==
    \A o \in Orderly : Plain(o) =>
        \A r \in Request : Works(r, "receipt") /\ OrderOf(r) = o =>
            \A n \in DOMAIN ordered[o] :
                /\ received[o][n] + request[r].taken[n] <= ordered[o][n][2]
                /\ request[r].phase # "loaded" =>
                      \A k \in DOMAIN Note(r).lines :
                          k >= request[r].next /\ IsLineFor(ordered[o], Note(r).lines[k], n) =>
                              /\ n \notin request[r].locked
                              /\ Note(r).lines[k][2] <= ordered[o][n][2] - received[o][n]
=============================================================================
