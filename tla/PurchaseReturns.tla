--------------------------- MODULE PurchaseReturns ---------------------------
(***************************************************************************)
(* Goods that go back to their supplier (PurchaseReturnService), next to   *)
(* the receipts that raise what an order received and to other movements   *)
(* of the same stock.  No handler calls the service yet; its callers hand  *)
(* it a document they have loaded, as those of GoodsIssueService do.       *)
(*                                                                         *)
(* complete() validates the return against its order first, with nothing   *)
(* locked, and then locks the balances, issues the lines and saves the     *)
(* status in one transaction: Validate and Complete.  Each user holding    *)
(* purchase_return.approve is taken to meet drafts of others: approve()    *)
(* refuses an author.                                                      *)
(***************************************************************************)
EXTENDS SerialStock

CONSTANTS
    Return,      \* ids of purchase returns
    Order,       \* ids of purchase orders
    NoOrder,     \* purchase_order=None
    Request,     \* the callers that can hold a return at once
    Line,        \* <<product, quantity>>: the items callers add
    MaxLines,    \* bound: the most items of a return
    NewReturns,  \* the documents callers create
    Ordered,     \* how many units an order may receive of each product
    Idle

Status == {"unborn", "DRAFT", "PENDING", "APPROVED", "COMPLETED", "CANCELLED"}
Row == [order: Order \cup {NoOrder}, warehouse: Warehouse]
Copy == [return: Return, status: Status, validated: BOOLEAN]

ASSUME ReturnsAssumption ==
    /\ MaxLines \in Nat \ {0} /\ Line \subseteq Product \X Int
    /\ IsFiniteSet(Return)
    /\ NewReturns \subseteq Row /\ Ordered \in [Order -> [Product -> Nat]]
    /\ NoOrder \notin Order /\ Idle \notin Copy

VARIABLES
    status,     \* PurchaseReturnDocument.status
    head,       \* its order and warehouse
    items,      \* its lines
    received,   \* received_quantity of an order's line for a product
    left,       \* the lines completions of a return took out of stock
    request,    \* what a caller holds, Idle between calls
    contended   \* the returns another caller meant to take from as well

documents == <<status, head, items>>
vars == <<rows, quantity, ledger, documents, received, left, request, contended>>

-----------------------------------------------------------------------------
Total(lines, p) ==
    FoldLeft(LAMBDA sum, line : IF line[1] = p THEN sum + line[2] ELSE sum, 0, lines)

(* get_returned_quantity: completed returns of this order, by their items. *)
Returned(o, p) ==
    MapThenSumSet(LAMBDA d : Total(items[d], p),
                  {d \in Return : head[d].order = o /\ status[d] = "COMPLETED"})

(* Mutant: what was returned before is not subtracted. *)
AllReceived(o, p) == received[o][p]

(* max(0, received - returned) *)
Returnable(o, p) ==
    IF received[o][p] > Returned(o, p) THEN received[o][p] - Returned(o, p) ELSE 0

(* validate_against_purchase_order: a line needs a line of the order. *)
WithinReceived(d) ==
    head[d].order # NoOrder =>
        \A n \in DOMAIN items[d] :
            /\ Ordered[head[d].order][items[d][n][1]] > 0
            /\ items[d][n][2] <= Returnable(head[d].order, items[d][n][1])

(* validate *)
Valid(d) ==
    /\ items[d] # <<>>
    /\ \A n \in DOMAIN items[d] :
        /\ items[d][n][2] > 0
        /\ \A m \in 1..(n - 1) : items[d][m][1] # items[d][n][1]
    /\ WithinReceived(d)

(* get_balance: over all locations of the warehouse. *)
Balance(p, wh) ==
    MapThenSumSet(LAMBDA k : quantity[k], {k \in Key : k[1] = p /\ k[2] = wh})

(* check_stock_availability *)
InStock(d) ==
    \A n \in DOMAIN items[d] : items[d][n][2] <= Balance(items[d][n][1], head[d].warehouse)

(* check_stock_availability_locked: the balance without a location. *)
OnShelf(d) ==
    \A n \in DOMAIN items[d] :
        items[d][n][2] <= quantity[<<items[d][n][1], head[d].warehouse, NoLocation>>]

(* for item in purchase_return.items: StockService.issue(...) *)
Posting(d) ==
    [n \in DOMAIN items[d] |->
        [op |-> "issue", cell |-> <<items[d][n][1], head[d].warehouse, NoLocation>>,
         quantity |-> items[d][n][2], allow_negative |-> FALSE]]

(* The returns that take from what d takes from. *)
Rival(d, e) == d = e \/ (head[d].order = head[e].order /\ head[d].order # NoOrder)
Holding(r) == request[r].return
Done(r) == request' = [request EXCEPT ![r] = Idle]

-----------------------------------------------------------------------------
Init ==
    /\ StockInit
    /\ status = [d \in Return |-> "unborn"]
    /\ head \in [Return -> NewReturns]
    /\ items = [d \in Return |-> <<>>]
    /\ received = [o \in Order |-> [p \in Product |-> 0]]
    /\ left = [d \in Return |-> <<>>]
    /\ request = [r \in Request |-> Idle]
    /\ contended = {}

(* create; supplier, warehouse and order are of the organization. *)
Create(d) ==
    /\ status[d] = "unborn"
    /\ status' = [status EXCEPT ![d] = "DRAFT"]
    /\ UNCHANGED <<stock, head, items, received, left, request, contended>>

(* PurchaseReceipts: a unit of an order arrives in one of the warehouses. *)
Receive(o, p) ==
    /\ received[o][p] < Ordered[o][p]
    /\ \E wh \in {head[d].warehouse : d \in Return} :
          Run(<<[op |-> "receive", cell |-> <<p, wh, NoLocation>>, quantity |-> 1,
                 allow_negative |-> FALSE]>>)
    /\ received' = [received EXCEPT ![o][p] = @ + 1]
    /\ UNCHANGED <<documents, left, request, contended>>

(* Stock moves for other reasons. *)
Move ==
    /\ StockNext
    /\ UNCHANGED <<documents, received, left, request, contended>>

(* A caller loads a return. *)
Load(r) ==
    /\ request[r] = Idle
    /\ \E d \in Return :
        /\ status[d] # "unborn"
        /\ request' = [request EXCEPT ![r] =
              [return |-> d, status |-> status[d], validated |-> FALSE]]
        /\ contended' = contended \cup
              UNION {{d, Holding(s)} : s \in {t \in Request \ {r} :
                        request[t] # Idle /\ Rival(d, Holding(t))}}
    /\ UNCHANGED <<stock, documents, received, left>>

(* Mutant: the status is not looked at. *)
AddAnytime(r) ==
    \E line \in Line :
        /\ request[r] # Idle
        /\ OrganizationOf[line[1]] = OrganizationOf[head[Holding(r)].warehouse]
        /\ Len(items[Holding(r)]) < MaxLines
        /\ items' = [items EXCEPT ![Holding(r)] = Append(@, line)]
        /\ Done(r)
        /\ UNCHANGED <<stock, status, head, received, left, contended>>

(* add_item; neither the product nor the quantity is checked here. *)
AddItem(r) ==
    \E line \in Line :
        /\ request[r] # Idle /\ request[r].status = "DRAFT"
        /\ OrganizationOf[line[1]] = OrganizationOf[head[Holding(r)].warehouse]
        /\ Len(items[Holding(r)]) < MaxLines
        /\ items' = [items EXCEPT ![Holding(r)] = Append(@, line)]
        /\ Done(r)
        /\ UNCHANGED <<stock, status, head, received, left, contended>>

(* save(update_fields=["status", ...]), whatever the row says by now. *)
SaveStatus(r, new) ==
    /\ status' = [status EXCEPT ![Holding(r)] = new]
    /\ Done(r)
    /\ UNCHANGED <<stock, head, items, received, left, contended>>

(* Mutant: the status that purchase orders use. *)
SubmitLikeAnOrder(r) ==
    /\ request[r] # Idle /\ request[r].status = "DRAFT"
    /\ Valid(Holding(r))
    /\ SaveStatus(r, "SUBMITTED")

Submit(r) ==
    /\ request[r] # Idle /\ request[r].status = "DRAFT"
    /\ Valid(Holding(r))
    /\ SaveStatus(r, "PENDING")

Approve(r) ==
    /\ request[r] # Idle /\ request[r].status \in {"DRAFT", "PENDING"}
    /\ Valid(Holding(r)) /\ InStock(Holding(r))
    /\ SaveStatus(r, "APPROVED")

Cancel(r) ==
    /\ request[r] # Idle /\ request[r].status # "COMPLETED"
    /\ SaveStatus(r, "CANCELLED")

(* complete: the status of the copy, and the order as it is now. *)
Validate(r) ==
    /\ request[r] # Idle /\ request[r].status = "APPROVED" /\ ~request[r].validated
    /\ Valid(Holding(r))
    /\ request' = [request EXCEPT ![r].validated = TRUE]
    /\ UNCHANGED <<stock, documents, received, left, contended>>

(* complete: the rows are locked, checked and issued until the commit. *)
Complete(r) ==
    LET d == Holding(r) IN
    /\ request[r] # Idle /\ request[r].validated
    /\ OnShelf(d)
    /\ Run(Posting(d))
    /\ left' = [left EXCEPT ![d] = @ \o items[d]]
    /\ status' = [status EXCEPT ![d] = "COMPLETED"]
    /\ Done(r)
    /\ UNCHANGED <<head, items, received, contended>>

(* A check refuses, a balance is short, a deadlock or crash rolls back. *)
Fail(r) ==
    /\ request[r] # Idle
    /\ Done(r)
    /\ UNCHANGED <<stock, documents, received, left, contended>>

Handle(r) ==
    \/ AddItem(r) \/ Submit(r) \/ Approve(r) \/ Cancel(r)
    \/ Validate(r) \/ Complete(r) \/ Fail(r)

Next ==
    \/ \E d \in Return : Create(d)
    \/ \E o \in Order, p \in Product : Receive(o, p)
    \/ Move
    \/ \E r \in Request : Load(r) \/ Handle(r)

Spec == Init /\ [][Next]_vars
-----------------------------------------------------------------------------
TypeOK ==
    /\ status \in [Return -> Status]
    /\ head \in [Return -> Row]
    /\ items \in [Return -> BoundedSeq(Line, MaxLines)]
    /\ received \in [Order -> [Product -> Nat]]
    /\ left \in [Return -> Seq(Line)]
    /\ request \in [Request -> Copy \cup {Idle}]
    /\ contended \subseteq Return

(* The returns whose rows no two callers held at once, nor those of another *)
(* return of the same order.                                                *)
Orderly == Return \ contended

(* What left the stock for a return is what the completed return says, once *)
(* and in full, and nothing if it is not completed, whatever else moved and *)
(* whichever calls failed before.                                           *)
LeftAsCompleted ==
    \A d \in Orderly : left[d] = IF status[d] = "COMPLETED" THEN items[d] ELSE <<>>

(* What the proofs rest on: a caller that is alone with its return holds it *)
(* as it is, and has not validated anything but an approved one.            *)
CopiesAreCurrent ==
    \A r \in Request : request[r] # Idle =>
        /\ request[r].status # "unborn"
        /\ request[r].validated => request[r].status = "APPROVED"
        /\ Holding(r) \notin contended =>
              /\ request[r].status = status[Holding(r)]
              /\ \A s \in Request : request[s] # Idle /\ Holding(s) = Holding(r) => s = r

(* "Returnable quantity is {remaining}": all returns of an order together  *)
(* never take more out of stock than the order brought in.                 *)
ReturnedWasReceived ==
    \A o \in Order :
        LET returns == {d \in Return : head[d].order = o} IN
        returns \cap contended = {} =>
            \A p \in Product : MapThenSumSet(LAMBDA d : Total(left[d], p), returns) <= received[o][p]
=============================================================================
