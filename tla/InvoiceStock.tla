---------------------------- MODULE InvoiceStock ----------------------------
(***************************************************************************)
(* What invoices do to stock: InvoiceCompletionService behind the REST     *)
(* handlers, and the other writers of the same row: payments, which keep   *)
(* their own lifecycle in the one status column, the web form, mark-paid,  *)
(* PATCH and DELETE.                                                       *)
(*                                                                         *)
(* A handler loads the invoice with its items and decides on that copy.    *)
(* complete() is two steps, as it reads movements and balances without a   *)
(* lock before it locks the first InventoryItem.  How much was paid is     *)
(* left open: a payment may find any of the four statuses it can write.    *)
(***************************************************************************)
EXTENDS SerialStock

CONSTANTS
    Invoice,           \* ids of invoices
    Request,           \* the requests that can be in progress at once
    Line,              \* the contents of an item: <<product, quantity>>
    MaxLines,          \* bound: the most items an invoice has
    Stockable,         \* the products with is_stockable
    DefaultWarehouse,  \* an invoice's organization's first active warehouse
    NewInvoices,       \* the invoices clients create
    FormStatus,        \* the statuses clients choose in forms and PATCHes
    WrittenWarehouse,  \* the warehouses clients write by PATCH
    Restocks,          \* what the rest of the program posts meanwhile
    NoWarehouse, Idle

(* STATUS_CHOICES: what forms and serializers accept. *)
Choice == {"DRAFT", "UNPAID", "PARTIAL", "PAID", "OVERDUE", "CANCELLED"}
Status == Choice \cup {"COMPLETED"}
Absent == {"unborn", "deleted"}

Lines == BoundedSeq(Line, MaxLines)
Place == Warehouse \cup {NoWarehouse}

Row == [status: Status, flag: BOOLEAN, warehouse: Place, lines: Lines]

(* The invoice a request has loaded, and whether complete() has passed its *)
(* checks.                                                                 *)
Copy == [invoice: Invoice, row: Row, prepared: BOOLEAN]

ASSUME LinesAssumption ==
    /\ MaxLines \in Nat \ {0}
    /\ Line \subseteq Product \X (Nat \ {0}) /\ Stockable \subseteq Product

ASSUME InvoicesAssumption ==
    /\ NoWarehouse \notin Warehouse
    /\ DefaultWarehouse \in [Invoice -> Place]
    /\ NewInvoices \subseteq {new \in Row : new.status \in Choice}
    /\ FormStatus \subseteq Choice /\ WrittenWarehouse \subseteq Place
    /\ Idle \notin Copy

ASSUME RestocksAssumption == Restocks \subseteq Blocks

VARIABLES
    status,     \* Invoice.status, or why there is no row
    flag,       \* inventory_updated
    warehouse,
    lines,      \* the items
    moves,      \* the postings whose movements refer to an invoice, in order
    request,    \* the copy a request works on, Idle between requests
    contended,  \* the invoices two requests have worked on at once
    patched     \* those whose status, flag or warehouse a client wrote itself

row == <<status, flag, warehouse, lines>>
vars == <<rows, quantity, ledger, status, flag, warehouse, lines, moves, request,
          contended, patched>>

-----------------------------------------------------------------------------
Exists(i) == status[i] \notin Absent

(* The items of stockable products. *)
Goods(items) ==
    FoldLeft(LAMBDA goods, line : IF line[1] \in Stockable THEN Append(goods, line) ELSE goods,
             <<>>, items)

(* for item in stockable_items: StockService.issue(...), or receive(...) *)
Posting(op, place, goods) ==
    [n \in DOMAIN goods |->
        [op |-> op, cell |-> <<goods[n][1], place, NoLocation>>,
         quantity |-> goods[n][2], allow_negative |-> FALSE]]

(* The movements a posting leaves: SALE when goods are issued, and their return. *)
Movement(type, place, goods) == [type |-> type, warehouse |-> place, goods |-> goods]
Record(i, type, place, goods) ==
    moves' = IF goods = <<>> THEN moves
             ELSE [moves EXCEPT ![i] = Append(@, Movement(type, place, goods))]

HasSale(i) == \E n \in 1..Len(moves[i]) : moves[i][n].type = "SALE"

(* StockService.get_balance(): the sum over the warehouse's locations. *)
Balance(product, place) ==
    MapThenSumSet(LAMBDA c : quantity[c], {c \in Key : c[1] = product /\ c[2] = place})

Working(r) == request[r] # Idle /\ ~request[r].prepared
Of(r) == request[r].invoice
Loaded(r) == request[r].row

(* The response is sent. *)
Done(r) == request' = [request EXCEPT ![r] = Idle]

-----------------------------------------------------------------------------
Init ==
    /\ StockInit
    /\ status = [i \in Invoice |-> "unborn"]
    /\ flag = [i \in Invoice |-> FALSE]
    /\ warehouse = [i \in Invoice |-> NoWarehouse]
    /\ lines = [i \in Invoice |-> <<>>]
    /\ moves = [i \in Invoice |-> <<>>]
    /\ request = [r \in Request |-> Idle]
    /\ contended = {}
    /\ patched = {}

(* The web form, the REST handler, a duplicated invoice. *)
Create(i) ==
    /\ status[i] = "unborn"
    /\ \E new \in NewInvoices :
        /\ status' = [status EXCEPT ![i] = new.status]
        /\ flag' = [flag EXCEPT ![i] = new.flag]
        /\ warehouse' = [warehouse EXCEPT ![i] = new.warehouse]
        /\ lines' = [lines EXCEPT ![i] = new.lines]
        /\ patched' = patched \cup {j \in {i} : new.flag}
    /\ UNCHANGED <<stock, moves, request, contended>>

(* get_object(), get_object_or_404(), payment.invoice *)
Load(r) ==
    /\ request[r] = Idle
    /\ \E i \in Invoice :
        /\ Exists(i)
        /\ request' = [request EXCEPT ![r] =
              [invoice |-> i, prepared |-> FALSE,
               row |-> [status |-> status[i], flag |-> flag[i],
                        warehouse |-> warehouse[i], lines |-> lines[i]]]]
        /\ contended' = contended \cup
              {j \in {i} : \E s \in Request : request[s] # Idle /\ Of(s) = j}
    /\ UNCHANGED <<stock, row, moves, patched>>

(* save(): every column of the copy; a row that is gone is inserted again. *)
Save(r, new) ==
    /\ status' = [status EXCEPT ![Of(r)] = new.status]
    /\ flag' = [flag EXCEPT ![Of(r)] = new.flag]
    /\ warehouse' = [warehouse EXCEPT ![Of(r)] = new.warehouse]

(* Mutant: only the flag tells whether stock was issued before. *)
PrepareByFlag(r) ==
    LET copy == Loaded(r)
        goods == Goods(copy.lines)
        place == IF goods # <<>> /\ copy.warehouse = NoWarehouse
                 THEN DefaultWarehouse[Of(r)] ELSE copy.warehouse
    IN  /\ Working(r)
        /\ copy.status \notin {"COMPLETED", "CANCELLED"}
        /\ goods # <<>> => /\ place # NoWarehouse
                           /\ OrganizationOf[place] = OrganizationOf[Of(r)]
        /\ ~copy.flag
        /\ \A n \in DOMAIN goods : Balance(goods[n][1], place) >= goods[n][2]
        /\ request' = [request EXCEPT ![r].prepared = TRUE, ![r].row.warehouse = place]
        /\ UNCHANGED <<stock, row, moves, contended, patched>>

(* complete() up to its first lock. *)
Prepare(r) ==
    LET copy == Loaded(r)
        goods == Goods(copy.lines)
        place == IF goods # <<>> /\ copy.warehouse = NoWarehouse
                 THEN DefaultWarehouse[Of(r)] ELSE copy.warehouse
    IN  /\ Working(r)
        /\ copy.status \notin {"COMPLETED", "CANCELLED"}
        /\ goods # <<>> => /\ place # NoWarehouse
                           /\ OrganizationOf[place] = OrganizationOf[Of(r)]
        /\ ~HasSale(Of(r)) /\ ~copy.flag
        /\ \A n \in DOMAIN goods : Balance(goods[n][1], place) >= goods[n][2]
        /\ request' = [request EXCEPT ![r].prepared = TRUE, ![r].row.warehouse = place]
        /\ UNCHANGED <<stock, row, moves, contended, patched>>

(* Mutant: the status "COMPLETE". *)
IssueMisspelt(r) ==
    LET copy == Loaded(r)
        goods == Goods(copy.lines)
    IN  /\ request[r] # Idle /\ request[r].prepared /\ Exists(Of(r))
        /\ Run(Posting("issue", copy.warehouse, goods))
        /\ Record(Of(r), "SALE", copy.warehouse, goods)
        /\ Save(r, [copy EXCEPT !.status = "COMPLETE", !.flag = TRUE])
        /\ Done(r)
        /\ UNCHANGED <<lines, contended, patched>>

(* ... and from there to its commit; save(update_fields) raises when the   *)
(* row is gone.                                                            *)
Issue(r) ==
    LET copy == Loaded(r)
        goods == Goods(copy.lines)
    IN  /\ request[r] # Idle /\ request[r].prepared /\ Exists(Of(r))
        /\ Run(Posting("issue", copy.warehouse, goods))
        /\ Record(Of(r), "SALE", copy.warehouse, goods)
        /\ Save(r, [copy EXCEPT !.status = "COMPLETED", !.flag = TRUE])
        /\ Done(r)
        /\ UNCHANGED <<lines, contended, patched>>

(* Mutant: only a COMPLETED invoice gives its goods back. *)
CancelCompleted(r) ==
    LET copy == Loaded(r)
        goods == Goods(copy.lines)
        returns == copy.status = "COMPLETED" /\ copy.flag /\ copy.warehouse # NoWarehouse
    IN  /\ Working(r) /\ Exists(Of(r))
        /\ copy.status # "CANCELLED"
        /\ IF returns
           THEN /\ Run(Posting("receive", copy.warehouse, goods))
                /\ Record(Of(r), "RETURN", copy.warehouse, goods)
           ELSE UNCHANGED <<stock, moves>>
        /\ status' = [status EXCEPT ![Of(r)] = "CANCELLED"]
        /\ flag' = [flag EXCEPT ![Of(r)] = copy.flag /\ ~returns]
        /\ Done(r)
        /\ UNCHANGED <<warehouse, lines, contended, patched>>

(* cancel(); it writes the flag of its copy in any case. *)
Cancel(r) ==
    LET copy == Loaded(r)
        goods == Goods(copy.lines)
        returns == copy.flag /\ copy.warehouse # NoWarehouse
    IN  /\ Working(r) /\ Exists(Of(r))
        /\ copy.status # "CANCELLED"
        /\ IF returns
           THEN /\ Run(Posting("receive", copy.warehouse, goods))
                /\ Record(Of(r), "RETURN", copy.warehouse, goods)
           ELSE UNCHANGED <<stock, moves>>
        /\ status' = [status EXCEPT ![Of(r)] = "CANCELLED"]
        /\ flag' = [flag EXCEPT ![Of(r)] = copy.flag /\ ~returns]
        /\ Done(r)
        /\ UNCHANGED <<warehouse, lines, contended, patched>>

(* What a client sends to invoice_update: a status, the items it changed    *)
(* and removed, by their place, and the items it added, at most one here.   *)
Form == [status: FormStatus, changed: UNION {[shown -> Line] : shown \in SUBSET (1..MaxLines)},
         removed: SUBSET (1..MaxLines), added: BoundedSeq(Line, 1)]

FitsItems(form, items) ==
    /\ form.removed \cup DOMAIN form.changed \subseteq DOMAIN items
    /\ form.removed \cap DOMAIN form.changed = {}
    /\ \A n \in DOMAIN form.changed : form.changed[n] # items[n]

(* Django's formset.save(commit=False) returns the items the client changed *)
(* and added, not those it left as they were.                               *)
SavedItems(form) ==
    LET order == SetToSortSeq(DOMAIN form.changed, LAMBDA a, b : a < b)
    IN  [n \in DOMAIN order |-> form.changed[order[n]]] \o form.added

(* update_invoice(): every item that is not among those is deleted.  The    *)
(* form has written its status into the copy before, so that only the flag  *)
(* is left to tell that the invoice was completed.                          *)
Edit(r, form) ==
    /\ Working(r) /\ ~Loaded(r).flag
    /\ FitsItems(form, Loaded(r).lines)
    /\ SavedItems(form) \in Lines \ {<<>>}
    /\ Save(r, [Loaded(r) EXCEPT !.status = form.status])
    /\ lines' = [lines EXCEPT ![Of(r)] = SavedItems(form)]
    /\ Done(r)
    /\ UNCHANGED <<stock, moves, contended, patched>>

(* invoice_mark_paid() *)
MarkPaid(r) ==
    /\ Working(r)
    /\ Save(r, [Loaded(r) EXCEPT !.status = "PAID"])
    /\ Done(r)
    /\ UNCHANGED <<stock, lines, moves, contended, patched>>

(* update_status() after a payment, a reversal or a note. *)
UpdateStatus(r) ==
    /\ Working(r) /\ Exists(Of(r))
    /\ \E new \in {"UNPAID", "PARTIAL", "PAID", "OVERDUE"} \ {Loaded(r).status} :
        /\ new = "OVERDUE" => Loaded(r).status \notin {"DRAFT", "CANCELLED"}
        /\ status' = [status EXCEPT ![Of(r)] = new]
    /\ Done(r)
    /\ UNCHANGED <<stock, flag, warehouse, lines, moves, contended, patched>>

(* PUT and PATCH: no column is protected, the items are not written. *)
Patched(copy) ==
    {copy} \cup [status: FormStatus, flag: BOOLEAN,
                warehouse: WrittenWarehouse \cup {copy.warehouse}, lines: {copy.lines}]

Patch(r) ==
    /\ Working(r)
    /\ \E new \in Patched(Loaded(r)) :
        /\ Save(r, new)
        /\ patched' = patched \cup {i \in {Of(r)} : new # Loaded(r)}
    /\ Done(r)
    /\ UNCHANGED <<stock, lines, moves, contended>>

(* delete(), whatever the status; the movements stay. *)
Delete(r) ==
    LET i == Of(r) IN
    /\ Working(r)
    /\ status' = [status EXCEPT ![i] = "deleted"]
    /\ flag' = [flag EXCEPT ![i] = FALSE]
    /\ warehouse' = [warehouse EXCEPT ![i] = NoWarehouse]
    /\ lines' = [lines EXCEPT ![i] = <<>>]
    /\ Done(r)
    /\ UNCHANGED <<stock, moves, contended, patched>>

(* A check refuses, StockService raises and the transaction is rolled back, *)
(* nothing is to be written, or the process dies.                           *)
Fail(r) ==
    /\ request[r] # Idle
    /\ Done(r)
    /\ UNCHANGED <<stock, row, moves, contended, patched>>

(* Other callers of StockService. *)
Restock ==
    /\ \E b \in Restocks : Run(b)
    /\ UNCHANGED <<row, moves, request, contended, patched>>

Handle(r) ==
    \/ Load(r) \/ Prepare(r) \/ Issue(r) \/ Cancel(r)
    \/ (\E form \in Form : Edit(r, form)) \/ MarkPaid(r) \/ UpdateStatus(r)
    \/ Patch(r) \/ Delete(r) \/ Fail(r)

Next ==
    \/ \E i \in Invoice : Create(i)
    \/ \E r \in Request : Handle(r)
    \/ Restock

Spec == Init /\ [][Next]_vars
-----------------------------------------------------------------------------
TypeOK ==
    /\ rows \subseteq Key
    /\ quantity \in [Key -> Int]
    /\ ledger \in [Key -> Int]
    /\ status \in [Invoice -> Status \cup Absent]
    /\ flag \in [Invoice -> BOOLEAN]
    /\ warehouse \in [Invoice -> Place]
    /\ lines \in [Invoice -> Lines]
    /\ \A i \in Invoice : moves[i] \in
          Seq([type: {"SALE", "RETURN"}, warehouse: Place, goods: Lines])
    /\ request \in [Request -> Copy \cup {Idle}]
    /\ contended \subseteq Invoice
    /\ patched \subseteq Invoice

(* The invoices each writer found as it had loaded them, and whose status, *)
(* flag and warehouse only the program wrote.                              *)
Orderly == {i \in Invoice \ (contended \cup patched) : Exists(i)}

(* What the movements of an invoice say when its goods are out, or not. *)
GoodsOut(i) ==
    LET goods == Goods(lines[i])
    IN  moves[i] = IF goods = <<>> THEN <<>>
                   ELSE <<Movement("SALE", warehouse[i], goods)>>

NothingOut(i) ==
    \/ moves[i] = <<>>
    \/ /\ Len(moves[i]) = 2
       /\ moves[i][1].type = "SALE"
       /\ moves[i][2] = [moves[i][1] EXCEPT !.type = "RETURN"]

(* inventory_updated tells the truth: while it is set, exactly the invoice's *)
(* present lines have left its present warehouse, once; while it is not,     *)
(* nothing is out: never sold, or sold once and returned line by line to     *)
(* where it came from.  Payments, edits and cancellations in any order do    *)
(* not change that.                                                          *)
GoodsOutAsFlagged ==
    \A i \in Orderly : IF flag[i] THEN GoodsOut(i) ELSE NothingOut(i)

(* A CANCELLED invoice holds no goods, whatever its status was when it was *)
(* cancelled: a payment may have replaced COMPLETED in the meantime.       *)
CancelledHoldsNothing ==
    \A i \in Orderly : status[i] = "CANCELLED" => NothingOut(i)

-----------------------------------------------------------------------------
(* The invariants the proofs rest on. *)

(* The only request that works on an invoice has it as it still is; while   *)
(* it is between the checks of complete() and the issue, what those found   *)
(* is still so.                                                             *)
CopyIsCurrent(r) ==
    LET i == Of(r) IN
    /\ status[i] = Loaded(r).status
    /\ flag[i] = Loaded(r).flag
    /\ lines[i] = Loaded(r).lines
    /\ ~request[r].prepared => warehouse[i] = Loaded(r).warehouse
    /\ request[r].prepared =>
          /\ ~flag[i] /\ ~HasSale(i)
          /\ Goods(lines[i]) # <<>> => Loaded(r).warehouse \in Warehouse

CopiesAreCurrent ==
    \A r \in Request : request[r] # Idle /\ Of(r) \notin contended =>
        /\ CopyIsCurrent(r)
        /\ \A s \in Request : request[s] # Idle /\ Of(s) = Of(r) => s = r
=============================================================================
