----------------------------- MODULE Quotations -----------------------------
(***************************************************************************)
(* Quotations from the draft to the invoice: the web form and the REST     *)
(* routes that create, edit, issue, send, approve, reject, convert and     *)
(* delete them.                                                            *)
(*                                                                         *)
(* A handler loads the quotation, and the REST routes its items with it,   *)
(* before the service opens its transaction; every service decides on this *)
(* copy and saves all of its columns, those it did not mean to change      *)
(* included.  Only drafts may be edited; sending, approving and rejecting  *)
(* ask for no status at all, whatever became of the quotation.             *)
(***************************************************************************)
EXTENDS RowCopies, Integers, Sequences, FiniteSets, Functions

CONSTANTS
    Quotation,         \* ids of quotations
    Item,              \* the rows of QuotationItem a quotation can have
    SellingPrice,      \* Product.selling_price of the products on the lines
    NewQuotations,     \* what clients create: [row, lines]
    Edits,             \* what they post with the edit form: [vat, discount, lines]
    QuotationPatches,  \* the columns they write by PATCH, with their values
    MaxConversions,    \* bound: conversions of one quotation
    NoLine, NoPrice

QuotationStatus == {"DRAFT", "SENT", "APPROVED", "REJECTED", "EXPIRED", "CONVERTED"}

(* A product's line or a free one; vat is a rate in percent. *)
Line == [qty: Int, price: Int, discount: Int, product: BOOLEAN]
Lines == [Item -> Line \cup {NoLine}]

(* What a client posts may leave the price out. *)
PostedLine == [qty: Int, price: Int \cup {NoPrice}, discount: Int, product: BOOLEAN]
PostedLines == [Item -> PostedLine \cup {NoLine}]

QuotationRow == [status: QuotationStatus \cup Absent, vat: Int, discount: Int, total: Int]

(* What becomes of a line on the invoice. *)
InvoiceLine == [qty: Int, price: Int, total: Int]
Invoice == [total: Int, vat: Int, lines: [Item -> InvoiceLine \cup {NoLine}]]

NoLines == [x \in Item |-> NoLine]
NoQuotation == [status |-> "unborn", vat |-> 0, discount |-> 0, total |-> 0]
Gone == [NoQuotation EXCEPT !.status = "deleted"]

QuotationCopy == [on: Quotation, row: QuotationRow, lines: Lines]

ASSUME QuotationsAssumption ==
    /\ IsFiniteSet(Item) /\ SellingPrice \in Int
    /\ NoLine \notin Line \cup PostedLine /\ NoPrice \notin Int /\ Idle \notin QuotationCopy
    /\ \A new \in NewQuotations :
          /\ new.row \in QuotationRow /\ new.row.status \in QuotationStatus
          /\ new.lines \in PostedLines
    /\ \A edit \in Edits : edit.vat \in Int /\ edit.discount \in Int /\ edit.lines \in PostedLines
    /\ \A patch \in QuotationPatches :
          /\ DOMAIN patch \subseteq {"status", "vat", "discount", "total"}
          /\ \A column \in DOMAIN patch :
                patch[column] \in IF column = "status" THEN QuotationStatus ELSE Int
    /\ MaxConversions \in Nat

VARIABLES
    quotation,   \* the rows of Quotation
    line,        \* the items of each
    invoice,     \* the invoices made of each, in order
    finalized,   \* those QuotationFinalizationService issued
    reopened     \* those whose CONVERTED was overwritten
quotationsVars == <<quotation, line, invoice, request, contended, finalized, reopened>>

-----------------------------------------------------------------------------
(* QuotationItem.save, and calculate_totals. *)
LineTotal(l) == IF l = NoLine THEN 0 ELSE l.qty * l.price - l.discount

Subtotal(lines) == SumFunction([x \in Item |-> LineTotal(lines[x])])

TotalOf(lines, vat, discount) ==
    Subtotal(lines) + (Subtotal(lines) * vat) \div 100 - discount

(* InvoiceItem.save: no discount, and the product's price where the line   *)
(* has none, which comes too late for the total.                           *)
Invoiced(l) ==
    IF l = NoLine THEN NoLine
    ELSE [qty |-> l.qty, total |-> l.qty * l.price,
          price |-> IF l.price = 0 /\ l.product THEN SellingPrice ELSE l.price]

InvoiceLines(lines) == [x \in Item |-> Invoiced(lines[x])]

QuotationExists(q) == quotation[q].status \notin Absent

(* The items a service finds: those of a REST handler came with the copy. *)
ItemsOf(r) == {request[r].lines, line[Of(r)]}

(* save(): every column of the copy; a row that is gone is inserted again. *)
SaveQuotation(q, row) ==
    /\ quotation' = [quotation EXCEPT ![q] = row]
    /\ reopened' = reopened \cup
          {p \in {q} : quotation[p].status = "CONVERTED" /\ row.status # "CONVERTED"}

-----------------------------------------------------------------------------
QuotationsInit ==
    /\ quotation = [q \in Quotation |-> NoQuotation]
    /\ line = [q \in Quotation |-> NoLines]
    /\ invoice = [q \in Quotation |-> <<>>]
    /\ request = [r \in Request |-> Idle]
    /\ contended = {} /\ finalized = {} /\ reopened = {}

InsertQuotation(q, row, lines, total) ==
    /\ quotation[q].status = "unborn"
    /\ quotation' = [quotation EXCEPT ![q] = [row EXCEPT !.total = total]]
    /\ line' = [line EXCEPT ![q] = lines]
    /\ UNCHANGED <<invoice, request, contended, finalized, reopened>>

WithPrice(l, price) == [l EXCEPT !.price = IF @ = NoPrice THEN price ELSE @]

(* QuotationItemForm.clean: a product's line without a price gets the      *)
(* product's.                                                              *)
Cleaned(lines) ==
    [x \in Item |-> IF lines[x] = NoLine THEN NoLine
                    ELSE WithPrice(lines[x], IF lines[x].product THEN SellingPrice ELSE 0)]

(* quotation_create: the form has a status field. *)
CreateByForm(q) ==
    \E new \in NewQuotations :
        InsertQuotation(q, new.row, Cleaned(new.lines),
               TotalOf(Cleaned(new.lines), new.row.vat, new.row.discount))

(* The REST route computes the total with the discounts of the lines and   *)
(* stores the lines without them, and without their products.              *)
Received(lines) ==
    [x \in Item |-> IF lines[x] = NoLine THEN NoLine ELSE WithPrice(lines[x], 0)]

Stored(lines) ==
    [x \in Item |-> IF lines[x] = NoLine THEN NoLine
                    ELSE [lines[x] EXCEPT !.discount = 0, !.product = FALSE]]

CreateByApi(q) ==
    \E new \in NewQuotations :
        InsertQuotation(q, new.row, Stored(Received(new.lines)),
               TotalOf(Received(new.lines), new.row.vat, new.row.discount))

(* get_object(), get_object_or_404() *)
LoadQuotation(r) ==
    /\ request[r] = Idle
    /\ \E q \in Quotation :
        /\ QuotationExists(q)
        /\ request' = [request EXCEPT ![r] =
              [on |-> q, row |-> quotation[q], lines |-> line[q]]]
        /\ contended' = contended \cup {p \in {q} : \E s \in Request : Working(s) /\ Of(s) = p}
    /\ UNCHANGED <<quotation, line, invoice, finalized, reopened>>

Issuable(lines) ==
    /\ \E x \in Item : lines[x] # NoLine
    /\ \A x \in Item : lines[x] # NoLine => lines[x].qty > 0 /\ lines[x].price >= 0

(* Mutant: the total is taken as it is. *)
FinalizeAsIs(r) ==
    /\ Working(r) /\ Loaded(r).status = "DRAFT"
    /\ \E lines \in ItemsOf(r) :
        /\ Issuable(lines)
        /\ SaveQuotation(Of(r), [Loaded(r) EXCEPT !.status = "SENT"])
    /\ finalized' = finalized \cup {Of(r)}
    /\ Done(r)
    /\ UNCHANGED <<line, invoice, contended>>

(* QuotationFinalizationService.finalize, by the issue routes and by       *)
(* quotation_send of a draft.                                              *)
Finalize(r) ==
    /\ Working(r) /\ Loaded(r).status = "DRAFT"
    /\ \E lines \in ItemsOf(r) :
        /\ Issuable(lines)
        /\ SaveQuotation(Of(r), [Loaded(r) EXCEPT !.status = "SENT",
                !.total = TotalOf(lines, Loaded(r).vat, Loaded(r).discount)])
    /\ finalized' = finalized \cup {Of(r)}
    /\ Done(r)
    /\ UNCHANGED <<line, invoice, contended>>

(* quotation_send of anything else; save(update_fields) needs the row. *)
SendAgain(r) ==
    /\ Working(r) /\ Loaded(r).status # "DRAFT" /\ QuotationExists(Of(r))
    /\ SaveQuotation(Of(r), [quotation[Of(r)] EXCEPT !.status = "SENT"])
    /\ Done(r)
    /\ UNCHANGED <<line, invoice, contended, finalized>>

(* approve, reject *)
Answer(r) ==
    /\ Working(r)
    /\ \E answer \in {"APPROVED", "REJECTED"} :
          SaveQuotation(Of(r), [Loaded(r) EXCEPT !.status = answer])
    /\ Done(r)
    /\ UNCHANGED <<line, invoice, contended, finalized>>

(* Mutant: only what was refused cannot be converted. *)
ConvertAgain(r) ==
    /\ Working(r) /\ Loaded(r).status \notin {"REJECTED", "EXPIRED"}
    /\ Len(invoice[Of(r)]) < MaxConversions
    /\ \E lines \in ItemsOf(r) :
          invoice' = [invoice EXCEPT ![Of(r)] = Append(@,
              [total |-> Loaded(r).total, vat |-> Loaded(r).vat, lines |-> InvoiceLines(lines)])]
    /\ SaveQuotation(Of(r), [Loaded(r) EXCEPT !.status = "CONVERTED"])
    /\ Done(r)
    /\ UNCHANGED <<line, contended, finalized>>

(* convert_to_invoice: a draft is converted as well as an approved one. *)
Convert(r) ==
    /\ Working(r) /\ Loaded(r).status \notin {"REJECTED", "EXPIRED", "CONVERTED"}
    /\ Len(invoice[Of(r)]) < MaxConversions
    /\ \E lines \in ItemsOf(r) :
          invoice' = [invoice EXCEPT ![Of(r)] = Append(@,
              [total |-> Loaded(r).total, vat |-> Loaded(r).vat, lines |-> InvoiceLines(lines)])]
    /\ SaveQuotation(Of(r), [Loaded(r) EXCEPT !.status = "CONVERTED"])
    /\ Done(r)
    /\ UNCHANGED <<line, contended, finalized>>

(* formset.save(commit=False) returns the items the client changed or added. *)
Returned(old, new) == [x \in Item |-> IF new[x] = old[x] THEN NoLine ELSE new[x]]

(* Mutant: the status is not asked for. *)
UpdateAny(r) ==
    /\ Working(r)
    /\ \E edit \in Edits :
        LET items == Returned(request[r].lines, Cleaned(edit.lines)) IN
        /\ SaveQuotation(Of(r),
               [Loaded(r) EXCEPT !.vat = edit.vat, !.discount = edit.discount,
                                 !.total = TotalOf(items, edit.vat, edit.discount)])
        /\ line' = [line EXCEPT ![Of(r)] = items]
    /\ Done(r)
    /\ UNCHANGED <<invoice, contended, finalized>>

(* quotation_update of a form that keeps the status; with another one      *)
(* QuotationService.update refuses.  All other items are deleted.          *)
Update(r) ==
    /\ Working(r) /\ Loaded(r).status = "DRAFT"
    /\ \E edit \in Edits :
        LET items == Returned(request[r].lines, Cleaned(edit.lines)) IN
        /\ SaveQuotation(Of(r),
               [Loaded(r) EXCEPT !.vat = edit.vat, !.discount = edit.discount,
                                 !.total = TotalOf(items, edit.vat, edit.discount)])
        /\ line' = [line EXCEPT ![Of(r)] = items]
    /\ Done(r)
    /\ UNCHANGED <<invoice, contended, finalized>>

(* QuotationViewSet.update: any columns of a draft; items are refused. *)
PatchQuotation(r) ==
    /\ Working(r) /\ Loaded(r).status = "DRAFT"
    /\ \E patch \in QuotationPatches : SaveQuotation(Of(r), Patched(Loaded(r), patch))
    /\ Done(r)
    /\ UNCHANGED <<line, invoice, contended, finalized>>

(* quotation_delete, QuotationViewSet.destroy *)
Delete(r) ==
    /\ Working(r) /\ Loaded(r).status = "DRAFT"
    /\ SaveQuotation(Of(r), Gone)
    /\ line' = [line EXCEPT ![Of(r)] = NoLines]
    /\ Done(r)
    /\ UNCHANGED <<invoice, contended, finalized>>

(* A check refuses, invoice_no is taken, the process dies. *)
End(r) ==
    /\ Working(r)
    /\ Done(r)
    /\ UNCHANGED <<quotation, line, invoice, contended, finalized, reopened>>

Issue(r) == Finalize(r) \/ SendAgain(r) \/ Answer(r) \/ Convert(r)
Change(r) == Update(r) \/ PatchQuotation(r) \/ Delete(r)

QuotationsNext ==
    \/ \E q \in Quotation : CreateByForm(q) \/ CreateByApi(q)
    \/ \E r \in Request : LoadQuotation(r) \/ Issue(r) \/ Change(r) \/ End(r)

QuotationsSpec == QuotationsInit /\ [][QuotationsNext]_quotationsVars
-----------------------------------------------------------------------------
(* One quotation, one invoice: a quotation one request at a time works on  *)
(* is converted once at most, and says CONVERTED from then on, as long as  *)
(* nobody sends, approves or rejects it after its conversion.              *)
ConvertedOnce ==
    \A q \in Quotation \ (contended \cup reopened) :
        /\ Len(invoice[q]) <= 1
        /\ Len(invoice[q]) = 1 => quotation[q].status = "CONVERTED"

(* QuotationFinalizationService, "locks business data": what a quotation   *)
(* offers is the same from the moment it is no draft any more, and it      *)
(* never is one again, nor deleted, if requests work on it one at a time.  *)
IssuedIsFrozen ==
    [][\A q \in Quotation \ contended' :
          quotation[q].status \in QuotationStatus \ {"DRAFT"} =>
              /\ quotation'[q].status \in QuotationStatus \ {"DRAFT"}
              /\ quotation'[q] = [quotation[q] EXCEPT !.status = quotation'[q].status]
              /\ line'[q] = line[q]]_quotationsVars

(* An issued quotation, in whatever way its draft was created, edited and  *)
(* patched, offers the sum of its lines, and each invoice made of it bills *)
(* that total, for the same goods.                                         *)
InvoicedAsIssued ==
    \A q \in finalized \ contended :
        LET row == quotation[q] IN
        /\ row.total = TotalOf(line[q], row.vat, row.discount)
        /\ \A n \in DOMAIN invoice[q] :
              invoice[q][n] = [total |-> row.total, vat |-> row.vat,
                               lines |-> InvoiceLines(line[q])]
=============================================================================
