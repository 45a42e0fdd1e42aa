------------------------- MODULE InventoryDocuments -------------------------
(***************************************************************************)
(* The four stock documents (InventoryDocumentService) behind their REST   *)
(* handlers (api/inventory/views.py).                                      *)
(*                                                                         *)
(* A handler works in two database steps with nothing held in between:     *)
(* get_object() reads the document row with its items, and the service     *)
(* then decides on that copy, posts the items it was loaded with, and      *)
(* writes.  A status is written with save(update_fields),                  *)
(* which overwrites whatever the row holds by then; PATCH saves the whole  *)
(* copy.  Completion posts every line and the status in one transaction,   *)
(* whose stock part is a block of SerialStock.  The purchase order a GRN   *)
(* may carry is left out: no handler creates a GRN with one.               *)
(***************************************************************************)
EXTENDS SerialStock, DocumentLifecycle

CONSTANTS
    Document,         \* ids of documents; an id is never used again
    Request,          \* the requests that can be in progress at once
    Lines,            \* the item lists clients send: <<product, number>> pairs
    NewHeads,         \* the heads of the documents clients create
    PatchedWarehouse, \* the warehouses clients change a document's warehouse to
    NoHead, NoWarehouse, Idle

Kind == {"GRN", "GIN", "TRF", "ADJ"}

(* What a document row says of the stock it is about; `to` is a transfer's *)
(* destination_warehouse.                                                  *)
Heading ==
    {h \in [kind: Kind, warehouse: Warehouse, to: Warehouse \cup {NoWarehouse}] :
        h.kind = "TRF" <=> h.to # NoWarehouse}

ASSUME LinesAssumption == Lines \subseteq Seq(Product \X Int) \ {<<>>}

ASSUME HeadsAssumption ==
    /\ NoWarehouse \notin Warehouse
    /\ NewHeads \subseteq Heading /\ NoHead \notin Heading
    /\ PatchedWarehouse \subseteq Warehouse

VARIABLES
    status,     \* the status of a document, or why it has no row
    head,       \* the rest of its row
    lines,      \* its item rows
    posted,     \* how often its lines were posted: 0, 1, or 2 for more than once
    request,    \* the copy of a row a request works on, Idle between requests
    contended   \* the documents two requests have worked on at once

documents == <<status, head, lines, posted>>
vars == <<rows, quantity, ledger, status, head, lines, posted, request, contended>>

-----------------------------------------------------------------------------
(* What a request keeps of get_object(). *)
Loaded == [document: Document, status: Status, head: Heading,
           lines: Lines \cup {<<>>}]

ASSUME IdleAssumption == Idle \notin Loaded

(* StockService calls of one line; documents never name a location. *)
LineCalls(h, line) ==
    LET at(warehouse) == <<line[1], warehouse, NoLocation>>
        call(op) == [op |-> op, cell |-> at(h.warehouse), quantity |-> line[2],
                     allow_negative |-> FALSE]
    IN  CASE h.kind = "GRN" -> <<call("receive")>>
          [] h.kind = "GIN" -> <<call("issue")>>
          [] h.kind = "ADJ" -> <<call("adjust")>>
          [] h.kind = "TRF" -> TransferBlock(line[1], h.warehouse, NoLocation,
                                             h.to, NoLocation, line[2])

(* for item in document.items.all(): ... *)
Posting(h, items) == FlattenSeq([i \in DOMAIN items |-> LineCalls(h, items[i])])

(* StockService.transfer refuses one warehouse on both sides. *)
DistinctWarehouses(h) == h.kind = "TRF" => h.warehouse # h.to

(* The blocks documents can post are among those the stock service runs. *)
Postings == {Posting(h, items) : h \in Heading, items \in Lines \cup {<<>>}}

ASSUME PostingsAssumption == Postings \subseteq Blocks

(* What a PATCH can make of a row it loaded. *)
Patched(h) ==
    {h} \cup {[h EXCEPT !.warehouse = wh] : wh \in PatchedWarehouse}
        \cup {[h EXCEPT !.to = wh] : wh \in IF h.kind = "TRF" THEN PatchedWarehouse ELSE {}}

HasRow(d) == status[d] \notin Absent

WorksOn(r, d) == request[r] # Idle /\ request[r].document = d

(* The response is sent. *)
Done(r) == request' = [request EXCEPT ![r] = Idle]

-----------------------------------------------------------------------------
Init ==
    /\ StockInit
    /\ status = [d \in Document |-> "unborn"]
    /\ head = [d \in Document |-> NoHead]
    /\ lines = [d \in Document |-> <<>>]
    /\ posted = [d \in Document |-> 0]
    /\ request = [r \in Request |-> Idle]
    /\ contended = {}

(* What create_transfer asks for, and the other three of their one warehouse. *)
OfOneOrganization(h, items) ==
    /\ h.to # NoWarehouse => OrganizationOf[h.to] = OrganizationOf[h.warehouse]
    /\ \A i \in DOMAIN items : OrganizationOf[items[i][1]] = OrganizationOf[h.warehouse]

(* create_grn, create_gin, create_transfer, create_adjustment: the document *)
(* and its lines in one transaction.                                        *)
Create(d) ==
    /\ status[d] = "unborn"
    /\ \E h \in NewHeads, items \in Lines :
        /\ OfOneOrganization(h, items)
        /\ head' = [head EXCEPT ![d] = h]
        /\ lines' = [lines EXCEPT ![d] = items]
    /\ status' = [status EXCEPT ![d] = "DRAFT"]
    /\ UNCHANGED <<stock, posted, request, contended>>

(* get_object() of any of the handlers, outside any transaction; the       *)
(* selectors prefetch the items with the row.                              *)
Load(r) ==
    /\ request[r] = Idle
    /\ \E d \in Document :
        /\ HasRow(d)
        /\ request' = [request EXCEPT ![r] =
              [document |-> d, status |-> status[d], head |-> head[d], lines |-> lines[d]]]
        /\ contended' = contended \cup {e \in {d} : \E s \in Request : WorksOn(s, e)}
    /\ UNCHANGED <<stock, documents>>

(* save(update_fields=["status", ...]); it raises when the row is gone. *)
SaveStatus(r, may, new) ==
    LET d == request[r].document IN
    /\ request[r] # Idle
    /\ may
    /\ HasRow(d)
    /\ status' = [status EXCEPT ![d] = new]
    /\ Done(r)

Submit(r) ==
    /\ SaveStatus(r, MaySubmit(request[r].status), "PENDING")
    /\ UNCHANGED <<stock, head, lines, posted, contended>>

Approve(r) ==
    /\ SaveStatus(r, MayApprove(request[r].status), "APPROVED")
    /\ UNCHANGED <<stock, head, lines, posted, contended>>

Cancel(r) ==
    /\ SaveStatus(r, MayCancel(request[r].status), "CANCELLED")
    /\ UNCHANGED <<stock, head, lines, posted, contended>>

(* Mutant: only the first line is posted. *)
CompleteFirstLine(r) ==
    LET d == request[r].document IN
    /\ SaveStatus(r, MayComplete(request[r].status), "COMPLETED")
    /\ request[r].lines # <<>> => DistinctWarehouses(request[r].head)
    /\ Run(Posting(request[r].head, SubSeq(request[r].lines, 1, 1)))
    /\ posted' = [posted EXCEPT ![d] = IF @ < 2 THEN @ + 1 ELSE 2]
    /\ UNCHANGED <<head, lines, contended>>

(* The lines and the warehouses are those of the copy. *)
Complete(r) ==
    LET d == request[r].document IN
    /\ SaveStatus(r, MayComplete(request[r].status), "COMPLETED")
    /\ request[r].lines # <<>> => DistinctWarehouses(request[r].head)
    /\ Run(Posting(request[r].head, request[r].lines))
    /\ posted' = [posted EXCEPT ![d] = IF @ < 2 THEN @ + 1 ELSE 2]
    /\ UNCHANGED <<head, lines, contended>>

(* PATCH: serializer.save() writes every column of the copy, the status it  *)
(* was loaded with included; a row that is gone is inserted again, without  *)
(* its lines.  Neither the status nor the organization of the new warehouse *)
(* is looked at.                                                            *)
Patch(r) ==
    LET d == request[r].document IN
    /\ request[r] # Idle
    /\ head' \in {[head EXCEPT ![d] = h] : h \in Patched(request[r].head)}
    /\ status' = [status EXCEPT ![d] = request[r].status]
    /\ Done(r)
    /\ UNCHANGED <<stock, lines, posted, contended>>

(* DELETE, whatever the status; the lines go with the row, movements stay. *)
Destroy(r) ==
    LET d == request[r].document IN
    /\ request[r] # Idle
    /\ status' = [status EXCEPT ![d] = "deleted"]
    /\ head' = [head EXCEPT ![d] = NoHead]
    /\ lines' = [lines EXCEPT ![d] = <<>>]
    /\ Done(r)
    /\ UNCHANGED <<stock, posted, contended>>

(* Mutant: the status is saved before the lines are posted, by itself. *)
FailAfterSave(r) ==
    /\ SaveStatus(r, MayComplete(request[r].status), "COMPLETED")
    /\ UNCHANGED <<stock, head, lines, posted, contended>>

(* The service refuses, StockService raises and the transaction is rolled  *)
(* back, the row to save is gone, or the process dies.                     *)
Fail(r) ==
    /\ request[r] # Idle
    /\ Done(r)
    /\ UNCHANGED <<stock, documents, contended>>

Handle(r) ==
    \/ Submit(r) \/ Approve(r) \/ Complete(r) \/ Cancel(r)
    \/ Patch(r) \/ Destroy(r) \/ Fail(r)

Next ==
    \/ \E d \in Document : Create(d)
    \/ \E r \in Request : Load(r) \/ Handle(r)

Spec == Init /\ [][Next]_vars
-----------------------------------------------------------------------------
DocumentTypeOK ==
    /\ status \in [Document -> Status \cup Absent]
    /\ head \in [Document -> Heading \cup {NoHead}]
    /\ \A d \in Document : HasRow(d) => head[d] \in Heading
    /\ lines \in [Document -> Lines \cup {<<>>}]
    /\ posted \in [Document -> 0..2]
    /\ request \in [Request -> Loaded \cup {Idle}]
    /\ contended \subseteq Document

(* What the lines of a completed document add to a product, all warehouses *)
(* together: a transfer adds nothing.                                      *)
Adds(d, product) ==
    LET total == FoldLeft(LAMBDA n, line : IF line[1] = product THEN n + line[2] ELSE n,
                          0, lines[d])
    IN  CASE head[d].kind = "GRN" -> total
          [] head[d].kind = "GIN" -> -total
          [] OTHER -> 0

(* The documents that still say how stock moved: those posted are COMPLETED, *)
(* have been so once, and have the lines they were posted with; a counted   *)
(* quantity replaces what the documents before it did.                      *)
AllTold ==
    \A d \in Document : posted[d] > 0 =>
        /\ posted[d] = 1 /\ status[d] = "COMPLETED"
        /\ lines[d] # <<>> /\ head[d].kind # "ADJ"

(* The COMPLETED documents explain the stock: what is there of a product is *)
(* what its receipts brought less what its issues took, each with all of    *)
(* its lines or none, and a transfer loses nothing, although requests       *)
(* overlap, run short after the first line, fail, find the row changed      *)
(* under them, and may move a completed document to another warehouse       *)
(* (transaction.atomic around complete_grn and its three sisters).          *)
DocumentsExplainStock ==
    AllTold => \A x \in Product :
        MapThenSumSet(LAMBDA k : quantity[k], {k \in Key : k[1] = x})
          = MapThenSumSet(LAMBDA d : Adds(d, x), {d \in Document : status[d] = "COMPLETED"})

(* A document that says COMPLETED has been posted, although any request    *)
(* may write back the status of an old copy.                               *)
CompletedIsPosted == \A d \in Document : status[d] = "COMPLETED" => posted[d] > 0

(* A document nobody worked on at the same time as another request is      *)
(* posted at most once, and once it has moved stock it stays COMPLETED     *)
(* until it is deleted: it is neither cancelled nor opened again with its  *)
(* movements in the ledger.                                                *)
PostedOnceUncontended ==
    \A d \in Document \ contended :
        /\ posted[d] <= 1
        /\ posted[d] > 0 => status[d] \in {"COMPLETED", "deleted"}

-----------------------------------------------------------------------------
(* The invariants the proofs rest on. *)

(* A copy that says COMPLETED was read from a document already posted. *)
CopiesArePosted ==
    \A r \in Request : request[r] # Idle /\ request[r].status = "COMPLETED"
                            => posted[request[r].document] > 0

(* The only request that works on a document has the row as it still is. *)
CopiesAreCurrent ==
    \A r \in Request : request[r] # Idle /\ request[r].document \notin contended
        => /\ status[request[r].document] = request[r].status
           /\ \A s \in Request : WorksOn(s, request[r].document) => s = r
=============================================================================
