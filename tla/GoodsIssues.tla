---------------------------- MODULE GoodsIssues -----------------------------
(***************************************************************************)
(* Goods issue notes: GoodsIssueService (inventory/document_services.py)   *)
(* behind the goods-issues handlers (inventory/api_views.py), next to the  *)
(* older /gin/ handlers, which work on the same rows through               *)
(* InventoryDocumentService and ask neither for a permission nor for what  *)
(* remains of the invoice.                                                 *)
(*                                                                         *)
(* As in InventoryDocuments a handler loads a copy of the row and decides  *)
(* on it later.  GoodsIssueService.complete is two steps here: validate()  *)
(* reads what other notes have issued for the invoice without a lock; only *)
(* then are the InventoryItem rows locked, the lines issued and COMPLETED  *)
(* written.                                                                *)
(***************************************************************************)
EXTENDS SerialStock, DocumentLifecycle

CONSTANTS
    Gin,            \* ids of goods issue notes
    PlainGin,       \* those clients use the /gin/ handlers for, too
    Invoice, NoInvoice,
    InvoiceLines,   \* its items when it is made, as <<product, number>> pairs
    EditedLines,    \* what an edit may leave of them
    Stockable,      \* the products with is_stockable
    User, NoUser,
    Approver,       \* the users with the permission gin.approve
    Request,        \* the requests that can be in progress at once
    NewNotes,       \* the notes clients create
    PatchedUser, PatchedWarehouse,  \* what clients change columns of a note to
    Restocks,       \* what the rest of the program posts meanwhile
    NoNote, Idle

(* What a note says beside its status and who approved it. *)
Note == [invoice: Invoice \cup {NoInvoice}, warehouse: Warehouse,
         creator: User \cup {NoUser}, lines: Seq(Product \X Int)]

(* The row a request has loaded, and whether complete() is past validate(). *)
Copy == [gin: Gin, status: Status, note: Note, approver: User \cup {NoUser},
         validated: BOOLEAN]

ASSUME NotesAssumption ==
    /\ \A n \in NewNotes : n \in Note /\ n.lines # <<>>
    /\ InvoiceLines \in [Invoice -> Seq(Product \X (Nat \ {0}))]
    /\ EditedLines \subseteq Seq(Product \X (Nat \ {0})) \ {<<>>}

ASSUME UsersAssumption ==
    /\ Approver \subseteq User /\ NoUser \notin User
    /\ PlainGin \subseteq Gin
    /\ PatchedUser \subseteq User /\ PatchedWarehouse \subseteq Warehouse

ASSUME NothingAssumption ==
    NoInvoice \notin Invoice /\ NoNote \notin Note /\ Idle \notin Copy

ASSUME RestocksAssumption == Restocks \subseteq Blocks

VARIABLES
    status,     \* GoodsIssueNote.status
    note,       \* the rest of a row and its items
    approver,   \* approved_by
    posted,     \* how often a note was issued: 0, 1, or 2 for more than once
    request,    \* the copy a request works on
    contended,  \* the invoices two requests have worked for at once
    bypassed,   \* the notes a /gin/ handler has changed
    items,      \* the items of an invoice
    cut         \* the invoices whose last edit left less than was issued

vars == <<rows, quantity, ledger, status, note, approver, posted, request,
          contended, bypassed, items, cut>>

-----------------------------------------------------------------------------
Exists(g) == status[g] \notin Absent

(* get_invoice_fulfillment(): a dictionary by product, so that of several  *)
(* items with one product the last counts.                                 *)
LineFor(i, p) == {n \in DOMAIN items[i] : items[i][n][1] = p}
OnInvoice(i, p) == p \in Stockable /\ LineFor(i, p) # {}
Invoiced(i, p) == items[i][Max(LineFor(i, p))][2]

QuantityOf(lines, p) ==
    MapThenSumSet(LAMBDA n : lines[n][2], {n \in DOMAIN lines : lines[n][1] = p})

CompletedFor(i) == {g \in Gin : status[g] = "COMPLETED" /\ note[g].invoice = i}

Issued(i, p) ==
    MapThenSumSet(LAMBDA g : QuantityOf(note[g].lines, p), CompletedFor(i))

(* Mutant: what other notes issued is not deducted. *)
RemainingOfAll(i, p) == Invoiced(i, p)

Remaining(i, p) == Max({0, Invoiced(i, p) - Issued(i, p)})

(* GoodsIssueService.validate() and validate_against_invoice(), line by line. *)
Valid(n) ==
    /\ n.lines # <<>>
    /\ n.invoice # NoInvoice => OrganizationOf[n.invoice] = OrganizationOf[n.warehouse]
    /\ \A a \in DOMAIN n.lines :
        LET product == n.lines[a][1] IN
        /\ n.lines[a][2] > 0
        /\ product \in Stockable
        /\ OrganizationOf[product] = OrganizationOf[n.warehouse]
        /\ \A b \in DOMAIN n.lines : n.lines[b][1] = product => a = b
        /\ n.invoice # NoInvoice =>
              /\ OnInvoice(n.invoice, product)
              /\ n.lines[a][2] <= Remaining(n.invoice, product)

(* StockService.get_balance(): the sum over the warehouse's locations. *)
Balance(p, wh) == MapThenSumSet(LAMBDA c : quantity[c],
                                {c \in Key : c[1] = p /\ c[2] = wh})

(* check_stock_availability() *)
InStock(n) ==
    \A a \in DOMAIN n.lines : Balance(n.lines[a][1], n.warehouse) >= n.lines[a][2]

(* check_stock_availability_locked(): the row issue() will take from. *)
OnShelf(n) ==
    \A a \in DOMAIN n.lines :
        quantity[<<n.lines[a][1], n.warehouse, NoLocation>>] >= n.lines[a][2]

(* for item in gin.items...: StockService.issue(...) *)
Posting(n) ==
    [a \in DOMAIN n.lines |->
        [op |-> "issue", cell |-> <<n.lines[a][1], n.warehouse, NoLocation>>,
         quantity |-> n.lines[a][2], allow_negative |-> FALSE]]

(* The response is sent. *)
Done(r) == request' = [request EXCEPT ![r] = Idle]

Working(r) == request[r] # Idle

(* The copy's columns and the items as they are now: GoodsIssueService asks *)
(* for the items again in each of its methods.                              *)
NoteOf(r) == [request[r].note EXCEPT !.lines = note[request[r].gin].lines]

-----------------------------------------------------------------------------
Init ==
    /\ StockInit
    /\ status = [g \in Gin |-> "unborn"]
    /\ note = [g \in Gin |-> NoNote]
    /\ approver = [g \in Gin |-> NoUser]
    /\ posted = [g \in Gin |-> 0]
    /\ request = [r \in Request |-> Idle]
    /\ contended = {}
    /\ bypassed = {}
    /\ items = InvoiceLines
    /\ cut = {}

Insert(g, n) ==
    /\ status[g] = "unborn"
    /\ status' = [status EXCEPT ![g] = "DRAFT"]
    /\ note' = [note EXCEPT ![g] = n]
    /\ UNCHANGED <<stock, approver, posted, request, contended, bypassed, items, cut>>

(* create_from_invoice() validates what it has just written. *)
CreateFromInvoice(g) ==
    \E n \in NewNotes : n.invoice # NoInvoice /\ Valid(n) /\ Insert(g, n)

(* create_gin() of the /gin/ handler: no invoice, only the organizations agree. *)
Create(g) ==
    \E n \in NewNotes :
        /\ g \in PlainGin /\ n.invoice = NoInvoice
        /\ \A a \in DOMAIN n.lines :
              OrganizationOf[n.lines[a][1]] = OrganizationOf[n.warehouse]
        /\ Insert(g, n)

(* get_object_or_404() *)
Load(r) ==
    /\ ~Working(r)
    /\ \E g \in Gin :
        /\ Exists(g)
        /\ request' = [request EXCEPT ![r] =
              [gin |-> g, status |-> status[g], note |-> note[g],
               approver |-> approver[g], validated |-> FALSE]]
        /\ contended' = contended \cup
              {i \in {note[g].invoice} \ {NoInvoice} :
                  \E s \in Request : Working(s) /\ request[s].note.invoice = i}
    /\ UNCHANGED <<stock, status, note, approver, posted, bypassed, items, cut>>

(* save(update_fields=["status", ...]); it raises when the row is gone. *)
SaveStatus(r, new) ==
    /\ Exists(request[r].gin)
    /\ status' = [status EXCEPT ![request[r].gin] = new]

Submit(r) ==
    /\ Working(r)
    /\ request[r].status = "DRAFT"
    /\ Valid(NoteOf(r))
    /\ SaveStatus(r, "PENDING")
    /\ Done(r)
    /\ UNCHANGED <<stock, note, approver, posted, contended, bypassed, items, cut>>

(* Mutant: the author may approve. *)
ApproveOwn(r, u) ==
    /\ Working(r)
    /\ request[r].status = "PENDING"
    /\ u \in Approver
    /\ Valid(NoteOf(r)) /\ InStock(NoteOf(r))
    /\ SaveStatus(r, "APPROVED")
    /\ approver' = [approver EXCEPT ![request[r].gin] = u]
    /\ Done(r)
    /\ UNCHANGED <<stock, note, posted, contended, bypassed, items, cut>>

(* The approver has the permission and is not the author. *)
Approve(r, u) ==
    /\ Working(r)
    /\ request[r].status = "PENDING"
    /\ u \in Approver
    /\ u # NoteOf(r).creator
    /\ Valid(NoteOf(r)) /\ InStock(NoteOf(r))
    /\ SaveStatus(r, "APPROVED")
    /\ approver' = [approver EXCEPT ![request[r].gin] = u]
    /\ Done(r)
    /\ UNCHANGED <<stock, note, posted, contended, bypassed, items, cut>>

(* Mutant: what was validated when the note was approved is trusted. *)
ValidateStatusOnly(r, u) ==
    /\ Working(r)
    /\ request[r].status = "APPROVED"
    /\ u \in Approver
    /\ request' = [request EXCEPT ![r].validated = TRUE]
    /\ UNCHANGED <<stock, status, note, approver, posted, contended, bypassed,
                   items, cut>>

(* complete() up to the first lock: the copy's status, the permission and  *)
(* what remains of the invoice.                                            *)
Validate(r, u) ==
    /\ Working(r)
    /\ request[r].status = "APPROVED"
    /\ u \in Approver
    /\ Valid(NoteOf(r))
    /\ request' = [request EXCEPT ![r].validated = TRUE]
    /\ UNCHANGED <<stock, status, note, approver, posted, contended, bypassed,
                   items, cut>>

PostOnce(g) == posted' = [posted EXCEPT ![g] = IF @ < 2 THEN @ + 1 ELSE 2]

(* ... and from there to its commit. *)
Complete(r) ==
    /\ Working(r) /\ request[r].validated
    /\ OnShelf(NoteOf(r))
    /\ Run(Posting(NoteOf(r)))
    /\ SaveStatus(r, "COMPLETED")
    /\ PostOnce(request[r].gin)
    /\ Done(r)
    /\ UNCHANGED <<note, approver, contended, bypassed, items, cut>>

PlainlyHandled(r) ==
    Working(r) /\ ~request[r].validated /\ request[r].gin \in PlainGin

(* submit, approve and cancel of the /gin/ handlers; any member may approve, *)
(* also the author.                                                          *)
PlainChange(r) ==
    /\ PlainlyHandled(r)
    /\ \/ /\ MaySubmit(request[r].status)
          /\ SaveStatus(r, "PENDING") /\ approver' = approver
       \/ /\ MayApprove(request[r].status)
          /\ SaveStatus(r, "APPROVED")
          /\ \E u \in User : approver' = [approver EXCEPT ![request[r].gin] = u]
       \/ /\ MayCancel(request[r].status)
          /\ SaveStatus(r, "CANCELLED") /\ approver' = approver
    /\ bypassed' = bypassed \cup {request[r].gin}
    /\ Done(r)
    /\ UNCHANGED <<stock, note, posted, contended, items, cut>>

(* complete_gin() of the /gin/ handler, which loaded the items with the row. *)
PlainComplete(r) ==
    /\ PlainlyHandled(r)
    /\ MayComplete(request[r].status)
    /\ Run(Posting(request[r].note))
    /\ SaveStatus(r, "COMPLETED")
    /\ PostOnce(request[r].gin)
    /\ bypassed' = bypassed \cup {request[r].gin}
    /\ Done(r)
    /\ UNCHANGED <<note, approver, contended, items, cut>>

(* PATCH of the /gin/ handler saves every column of its copy, with another *)
(* store, author or approver if the client says so; a row that is gone is  *)
(* inserted again, without its items.                                      *)
PlainPatch(r) ==
    LET g == request[r].gin
        old == request[r].note IN
    /\ PlainlyHandled(r)
    /\ \E wh \in PatchedWarehouse \cup {old.warehouse},
          author \in PatchedUser \cup {old.creator},
          u \in PatchedUser \cup {request[r].approver} :
        /\ note' = [note EXCEPT ![g] = [NoteOf(r) EXCEPT !.warehouse = wh,
                                                        !.creator = author]]
        /\ approver' = [approver EXCEPT ![g] = u]
    /\ status' = [status EXCEPT ![g] = request[r].status]
    /\ bypassed' = bypassed \cup {g}
    /\ Done(r)
    /\ UNCHANGED <<stock, posted, contended, items, cut>>

(* DELETE of the /gin/ handler, whatever the status. *)
PlainDestroy(r) ==
    LET g == request[r].gin IN
    /\ PlainlyHandled(r)
    /\ status' = [status EXCEPT ![g] = "deleted"]
    /\ note' = [note EXCEPT ![g].lines = <<>>]
    /\ approver' = [approver EXCEPT ![g] = NoUser]
    /\ bypassed' = bypassed \cup {g}
    /\ Done(r)
    /\ UNCHANGED <<stock, posted, contended, items, cut>>

(* The service refuses, a line is short and the transaction is rolled back, *)
(* or the process dies.                                                     *)
Fail(r) ==
    /\ Working(r)
    /\ Done(r)
    /\ UNCHANGED <<stock, status, note, approver, posted, contended, bypassed,
                   items, cut>>

(* Other callers of StockService. *)
Restock ==
    /\ \E b \in Restocks : Run(b)
    /\ UNCHANGED <<status, note, approver, posted, request, contended, bypassed,
                   items, cut>>

(* update_invoice() asks for items and for positive quantities, and refuses *)
(* an invoice that was itself completed, but not one that notes were issued *)
(* for.  Of the old items only those stay that the client changes.          *)
EditInvoice(i) ==
    /\ \E new \in EditedLines : items' = [items EXCEPT ![i] = new]
    /\ cut' = IF \E p \in Product : OnInvoice(i, p)' /\ Issued(i, p) > Invoiced(i, p)'
              THEN cut \cup {i} ELSE cut \ {i}
    /\ contended' = contended \cup
          {j \in {i} : \E s \in Request : /\ Working(s) /\ request[s].validated
                                        /\ request[s].note.invoice = i}
    /\ UNCHANGED <<stock, status, note, approver, posted, request, bypassed>>

Handle(r) ==
    \/ Load(r) \/ Submit(r) \/ (\E u \in User : Approve(r, u) \/ Validate(r, u))
    \/ Complete(r) \/ PlainChange(r) \/ PlainComplete(r)
    \/ PlainPatch(r) \/ PlainDestroy(r) \/ Fail(r)

Next ==
    \/ \E g \in Gin : CreateFromInvoice(g) \/ Create(g)
    \/ \E r \in Request : Handle(r)
    \/ \E i \in Invoice : EditInvoice(i)
    \/ Restock

Spec == Init /\ [][Next]_vars
-----------------------------------------------------------------------------
(* The notes of an invoice were all handled by GoodsIssueService. *)
ByTheService(i) == \A g \in bypassed : note[g].invoice # i

(* Whatever leaves for an invoice is on it and stays within what it        *)
(* invoices at that moment, over any number of partial notes and of edits  *)
(* of the invoice, drafted, approved, made and completed in any order, as  *)
(* long as no two requests work for it at once, no edit falls between a    *)
(* validate() and its commit and no /gin/ handler was used.                *)
IssuedWithinInvoice ==
    [][\A i \in Invoice \ contended' : ByTheService(i)' =>
          \A p \in Product : Issued(i, p)' > Issued(i, p) =>
              OnInvoice(i, p)' /\ Issued(i, p)' <= Invoiced(i, p)']_vars

(* fulfillment_status: it compares sums over all products. *)
FulfillmentStatus(i) ==
    LET products == {p \in Product : OnInvoice(i, p)}
        issued == MapThenSumSet(LAMBDA p : Issued(i, p), products)
        invoiced == MapThenSumSet(LAMBDA p : Invoiced(i, p), products)
    IN  CASE products = {} -> "NOT_APPLICABLE"
          [] products # {} /\ issued = 0 -> "UNFULFILLED"
          [] products # {} /\ issued \in 1..(invoiced - 1) -> "PARTIALLY_FULFILLED"
          [] OTHER -> "FULFILLED"

(* FULFILLED means that every product left, whatever was issued and edited *)
(* before, unless the last edit took back what had already left: then the  *)
(* surplus of one product hides that another is missing.                   *)
FulfilledIsComplete ==
    \A i \in Invoice \ (contended \cup cut) :
        ByTheService(i) /\ FulfillmentStatus(i) = "FULFILLED" =>
            \A p \in Product : OnInvoice(i, p) => Issued(i, p) = Invoiced(i, p)

(* Goods leave by GoodsIssueService only after somebody with the permission *)
(* who did not write the note approved it, whichever requests overlap.      *)
FourEyes ==
    \A g \in Gin \ bypassed : status[g] \in {"APPROVED", "COMPLETED"} =>
        approver[g] \in Approver \ {note[g].creator}

(* Of an invoice no two requests worked for at once the fulfilment report  *)
(* counts the notes whose goods left, and they left once, by whichever     *)
(* route a note came; it only forgets those that left by a note the /gin/  *)
(* handler deleted afterwards.                                             *)
ReportedHasLeft ==
    \A g \in Gin : status[g] # "unborn" /\ note[g].invoice \in Invoice \ contended =>
        \/ posted[g] = IF status[g] = "COMPLETED" THEN 1 ELSE 0
        \/ posted[g] = 1 /\ status[g] = "deleted" /\ g \in bypassed

-----------------------------------------------------------------------------
(* The invariants the proofs rest on. *)

(* A copy of a note that only the service handled has the row's author, and *)
(* says APPROVED or COMPLETED only if somebody else did approve the note.   *)
ApprovedByAnother(g) == approver[g] \in Approver \ {note[g].creator}

CopiesAreApproved ==
    \A r \in Request : Working(r) /\ request[r].gin \notin bypassed =>
        /\ request[r].note.creator = note[request[r].gin].creator
        /\ request[r].status \in {"APPROVED", "COMPLETED"}
              => ApprovedByAnother(request[r].gin)

(* The only request that works for an invoice has its note as it still is. *)
WorksFor(r, i) == Working(r) /\ request[r].note.invoice = i

CopiesAreCurrent ==
    \A i \in Invoice \ contended : \A r \in Request : WorksFor(r, i) =>
        /\ status[request[r].gin] = request[r].status
        /\ \A s \in Request : WorksFor(s, i) => s = r
=============================================================================
