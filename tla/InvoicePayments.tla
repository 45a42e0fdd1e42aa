-------------------------- MODULE InvoicePayments --------------------------
(****************************************************************************)
(* What a customer owes: payments, their allocations over several invoices, *)
(* credit and debit notes, and Invoice.status as update_status derives it.  *)
(*                                                                          *)
(* A service is one READ COMMITTED transaction: it reads the balance, then  *)
(* inserts or saves its row, then recomputes the status of each invoice it  *)
(* knows of, on a copy it may have loaded long before.  The web handlers    *)
(* that edit and delete payments commit their row first and recompute       *)
(* afterwards; some REST handlers do not recompute at all.                  *)
(****************************************************************************)
EXTENDS Integers, FiniteSets, Functions

CONSTANTS
    Invoice,     \* the invoices of one customer
    Entry,       \* ids of payments, of the older invoices.Payment, and of notes
    Request,     \* the requests that can be in progress at once
    Total,       \* Invoice.total_due
    Created,     \* the status the invoice was created with
    Rank,        \* the order of due_date, id
    Late,        \* the invoices whose due_date has passed
    Reversal,    \* what the web handlers make of a payment: REVERSED, REFUNDED
    NewEntries,  \* the payments and notes clients ask for
    Amount,      \* the amounts clients write over that of a payment
    Redirect,    \* the invoices, or none, they move a payment to by PATCH
    Written,     \* <<invoice, status>>: what other handlers write
    NoInvoice, NoEntry, Idle

Status == {"DRAFT", "UNPAID", "PARTIAL", "PAID", "OVERDUE", "CANCELLED", "COMPLETED"}

(* The tables a row can be in, and its status there, or why there is none. *)
(* invoices.Payment ("legacy") has no status column: COMPLETED stands in.  *)
Kind == {"payment", "legacy", "credit", "debit"}
Undone == {"REVERSED", "REFUNDED", "CANCELLED"}
Absent == {"unborn", "deleted"}
EntryStatus == {"COMPLETED", "ISSUED"} \cup Undone \cup Absent

(* A payment's share of an invoice is what its PaymentAllocations give it. *)
Row == [kind: Kind, status: EntryStatus, invoice: Invoice \cup {NoInvoice}, amount: Int,
        share: [Invoice -> Nat]]
NoShare == [i \in Invoice |-> 0]
NoRow == [kind |-> "payment", status |-> "unborn", invoice |-> NoInvoice, amount |-> 0,
          share |-> NoShare]
Gone == [NoRow EXCEPT !.status = "deleted"]

(* The row a request has loaded or will insert, the invoices it has `seen` *)
(* when it loaded them, those it still has `todo`, what it has decided to  *)
(* write next and what it `wrote` in its transaction.                      *)
Blank == "-"
Copy == [on: Entry \cup {NoEntry}, row: Row, select: SUBSET Invoice,
         stage: {"loaded", "checked", "open", "saved"}, alone: BOOLEAN,
         seen: [Invoice -> Status \cup {Blank}], todo: SUBSET Invoice,
         decided: (Invoice \X Status) \cup {<<>>},
         told: SUBSET Invoice, wrote: [Invoice -> Status \cup {Blank}]]

ASSUME InvoicesAssumption ==
    /\ Total \in [Invoice -> Nat] /\ Created \in [Invoice -> Status]
    /\ Rank \in [Invoice -> Nat] /\ Late \subseteq Invoice
    /\ \A i, j \in Invoice : Rank[i] = Rank[j] => i = j
    /\ IsFiniteSet(Invoice) /\ IsFiniteSet(Entry)
    /\ Written \subseteq Invoice \X Status /\ Amount \subseteq Int
    /\ Reversal \subseteq {"REVERSED", "REFUNDED"}
    /\ Redirect \subseteq Invoice \cup {NoInvoice}
    /\ NoInvoice \notin Invoice /\ NoEntry \notin Entry /\ Idle \notin Copy

(* [row, select]: a payment with select = {} is for row.invoice or for none, *)
(* otherwise for the selected invoices, by due date.                         *)
ASSUME EntriesAssumption ==
    \A new \in NewEntries :
        /\ new.row \in Row /\ new.row.share = NoShare /\ new.select \subseteq Invoice
        /\ new.row.status = IF new.row.kind \in {"payment", "legacy"}
                            THEN "COMPLETED" ELSE "ISSUED"
        /\ new.row.kind = "payment" \/ new.row.invoice # NoInvoice
        /\ new.select # {} => new.row.kind = "payment" /\ new.row.invoice = NoInvoice

VARIABLES
    status,     \* Invoice.status
    entry,      \* the rows
    request,    \* what a request works on, Idle between requests
    unsettled   \* the invoices whose status nothing has recomputed yet, alone,
                \* since their money or their status changed in another way
paymentsVars == <<status, entry, request, unsettled>>

-----------------------------------------------------------------------------
AtLeastZero(n) == IF n > 0 THEN n ELSE 0
AtMost(m, n) == IF m < n THEN m ELSE n

Exists(row) == row.status \notin Absent
Counts(row) == row.status \notin Absent \cup Undone

(* What a row is to an invoice: directly, by its allocations, as a note. *)
Worth(row, i) ==
    IF Counts(row) THEN (IF row.invoice = i THEN row.amount ELSE 0) + row.share[i] ELSE 0

SumOf(rows, kinds, i) ==
    SumFunction([x \in Entry |-> IF rows[x].kind \in kinds THEN Worth(rows[x], i) ELSE 0])

(* total_paid, total_credit_notes, total_debit_notes, effective_total_due, *)
(* balance_due.                                                            *)
Paid(rows, i) == SumOf(rows, {"payment", "legacy"}, i)
Credited(rows, i) == SumOf(rows, {"credit"}, i)
Debited(rows, i) == SumOf(rows, {"debit"}, i)
EffectiveDue(rows, i) == AtLeastZero(Total[i] + Debited(rows, i) - Credited(rows, i))
Balance(rows, i) == AtLeastZero(EffectiveDue(rows, i) - Paid(rows, i))

(* update_status, on a copy of the invoice with the status `old`. *)
Derived(rows, i, old) ==
    IF Paid(rows, i) <= 0
    THEN IF i \in Late /\ old \notin {"DRAFT", "CANCELLED"} THEN "OVERDUE" ELSE "UNPAID"
    ELSE IF Paid(rows, i) < EffectiveDue(rows, i) THEN "PARTIAL" ELSE "PAID"

(* receive_payment: total_due less total_paid. *)
Remaining(i) == Total[i] - Paid(entry, i)

At(r, stage) == request[r] # Idle /\ request[r].stage = stage
IsNew(r) == request[r].on = NoEntry
OfKind(r, kinds) == request[r].row.kind \in kinds

(* What the transaction of r sees. *)
View(r) == IF At(r, "open") THEN [entry EXCEPT ![request[r].on] = request[r].row] ELSE entry
StatusFor(r, i) == IF request[r].wrote[i] = Blank THEN status[i] ELSE request[r].wrote[i]

(* A transaction that saved a row holds it until it ends. *)
FreeEntry(r) == \A s \in Request \ {r} : At(s, "open") => request[s].on # request[r].on
FreeInvoice(r, i) == \A s \in Request \ {r} : At(s, "open") => request[s].wrote[i] = Blank

(* receipt_number and the numbers of notes are computed from committed rows *)
(* and unique: while another new row is uncommitted, an INSERT waits, and   *)
(* fails when that row commits.                                             *)
FreeNumber(r) ==
    \A s \in Request \ {r} : At(s, "open") /\ entry[request[s].on].status = "unborn" =>
        request[s].row.kind # request[r].row.kind

(* The invoices a row, and a request, has to do with: as it loaded them, as *)
(* its payment has them now, and those it tells.                            *)
InvoicesOf(row) == {i \in Invoice : row.invoice = i \/ row.share[i] > 0}
Sphere(copy) ==
    InvoicesOf(copy.row) \cup copy.select \cup copy.todo \cup copy.told
        \cup UNION {InvoicesOf(entry[x]) : x \in {copy.on} \ {NoEntry}}

Meets(s, on, invoices) ==
    request[s] # Idle /\ (request[s].on \in on \/ Sphere(request[s]) \cap invoices # {})

(* r works on these rows from now on; a request it meets is not alone. *)
Enter(r, copy, on, invoices) ==
    request' = [s \in Request |->
        IF s = r THEN copy
        ELSE IF Meets(s, on, invoices) THEN [request[s] EXCEPT !.alone = FALSE]
        ELSE request[s]]

Becomes(r, copy) == request' = [request EXCEPT ![r] = copy]

(* The response is sent. *)
Done(r) == Becomes(r, Idle)

(* Whatever a request does that is not alone leaves its invoices unsettled. *)
Unless(r, settled) ==
    unsettled' = IF request[r].alone THEN settled
                 ELSE settled \cup unsettled \cup Sphere(request[r])

-----------------------------------------------------------------------------
PaymentsInit ==
    /\ status = Created
    /\ entry = [x \in Entry |-> NoRow]
    /\ request = [r \in Request |-> Idle]
    /\ unsettled = {i \in Invoice : Created[i] # "UNPAID"}

Fetched(invoices) == [i \in Invoice |-> IF i \in invoices THEN status[i] ELSE Blank]

BeginRequest(r, on, row, select) ==
    LET invoices == InvoicesOf(row) \cup select
        ids == {x \in Entry : x = on}
    IN  /\ request[r] = Idle
        /\ Enter(r, [on |-> on, row |-> row, select |-> select, stage |-> "loaded",
                     alone |-> \A s \in Request : ~Meets(s, ids, invoices),
                     seen |-> Fetched(InvoicesOf(row)), todo |-> {}, decided |-> <<>>,
                     told |-> {}, wrote |-> [i \in Invoice |-> Blank]], ids, invoices)
        /\ UNCHANGED <<status, entry, unsettled>>

LoadKind(r, kinds) ==
    \E x \in Entry :
        Exists(entry[x]) /\ entry[x].kind \in kinds /\ BeginRequest(r, x, entry[x], {})

(* _get_payment_by_pk finds payments of both tables; so do the REST routes *)
(* and the older handlers, each in its own.                                *)
LoadPayment(r) == LoadKind(r, {"payment", "legacy"})

(* credit_note_cancel, debit_note_cancel *)
LoadCreditNote(r) == LoadKind(r, {"credit"})
LoadDebitNote(r) == LoadKind(r, {"debit"})

(* The form or serializer of a new row, with the invoices it loads. *)
Ask(r, asked) == \E new \in asked : BeginRequest(r, NoEntry, new.row, new.select)
Wanted(kind) == {new \in NewEntries : new.row.kind = kind}

(* receive_payment, the handler, and PaymentViewSet.create *)
AskPayment(r) == Ask(r, {new \in Wanted("payment") : new.select = {}})

(* multi_invoice_payment *)
AskSeveral(r) == Ask(r, {new \in Wanted("payment") : new.select # {}})

(* payment_create *)
AskLegacy(r) == Ask(r, Wanted("legacy"))

(* The invoices CreditNoteForm and DebitNoteForm offer. *)
Creditable == {i \in Invoice : status[i] \notin {"PAID", "CANCELLED"}}
Debitable == {i \in Invoice : status[i] # "CANCELLED"}

(* credit_note_create, debit_note_create *)
AskCreditNote(r) == Ask(r, {new \in Wanted("credit") : new.row.invoice \in Creditable})
AskDebitNote(r) == Ask(r, {new \in Wanted("debit") : new.row.invoice \in Debitable})

Passes(r) ==
    /\ At(r, "loaded") /\ IsNew(r) /\ request[r].select = {}
    /\ Becomes(r, [request[r] EXCEPT !.stage = "checked"])
    /\ UNCHANGED <<status, entry, unsettled>>

(* Mutant: the whole total may be paid again. *)
CheckTotal(r) ==
    /\ Passes(r) /\ OfKind(r, {"payment"})
    /\ LET row == request[r].row IN
       row.invoice # NoInvoice => Total[row.invoice] > 0 /\ row.amount <= Total[row.invoice]

(* receive_payment, the service: InvoiceAlreadyPaid, PaymentExceedsBalance. *)
CheckPayment(r) ==
    /\ Passes(r) /\ OfKind(r, {"payment"})
    /\ LET row == request[r].row IN
       row.invoice # NoInvoice =>
            Remaining(row.invoice) > 0 /\ row.amount <= Remaining(row.invoice)

(* issue_credit_note *)
CheckCreditNote(r) ==
    /\ Passes(r) /\ OfKind(r, {"credit"})
    /\ LET row == request[r].row IN
       row.amount > 0 /\ row.amount <= EffectiveDue(entry, row.invoice)

(* issue_debit_note *)
CheckDebitNote(r) ==
    /\ Passes(r) /\ OfKind(r, {"debit"})
    /\ request[r].row.amount > 0

(* The invoices allocate_multi_invoice_payment pays, and what each gets: the *)
(* balances are paid in the order of due dates until nothing is left.        *)
Open(r) ==
    {i \in request[r].select :
        status[i] \notin {"PAID", "CANCELLED", "DRAFT"} /\ Balance(entry, i) > 0}

(* Mutant: every invoice gets its whole balance. *)
SharesInFull(r) ==
    [i \in Invoice |-> IF i \in Open(r)
                       THEN AtMost(Balance(entry, i), AtLeastZero(request[r].row.amount)) ELSE 0]

Shares(r) ==
    LET owed == [i \in Invoice |-> IF i \in Open(r) THEN Balance(entry, i) ELSE 0]
        before(i) == SumFunctionOnSet(owed, {j \in Invoice : Rank[j] < Rank[i]})
    IN  [i \in Invoice |->
            AtMost(owed[i], AtLeastZero(request[r].row.amount - before(i)))]

(* allocate_multi_invoice_payment reads the invoices itself.  A payment that *)
(* reaches one invoice only becomes a direct payment, with its checks.       *)
Allocate(r) ==
    LET shares == Shares(r)
        paid == {i \in Invoice : shares[i] > 0}
    IN  /\ At(r, "loaded") /\ IsNew(r) /\ request[r].select # {}
        /\ \/ /\ Cardinality(paid) # 1
              /\ Becomes(r, [request[r] EXCEPT !.stage = "checked", !.seen = Fetched(paid),
                                               !.row.share = shares])
           \/ \E i \in Invoice :
              /\ paid = {i}
              /\ Remaining(i) > 0 /\ request[r].row.amount <= Remaining(i)
              /\ Becomes(r, [request[r] EXCEPT !.stage = "checked", !.seen = Fetched(paid),
                                               !.row.invoice = i])
        /\ UNCHANGED <<status, entry, unsettled>>

(* objects.create(): the row, and then update_status of its invoices. *)
Insert(r) ==
    \E x \in Entry :
        /\ At(r, "checked") /\ IsNew(r) /\ entry[x].status = "unborn"
        /\ \A s \in Request : At(s, "open") => request[s].on # x
        /\ FreeNumber(r)
        /\ Becomes(r, [request[r] EXCEPT !.stage = "open", !.on = x,
                                         !.todo = InvoicesOf(request[r].row)])
        /\ UNCHANGED <<status, entry, unsettled>>

InsertPayment(r) == Insert(r) /\ OfKind(r, {"payment"})
InsertCreditNote(r) == Insert(r) /\ OfKind(r, {"credit"})
InsertDebitNote(r) == Insert(r) /\ OfKind(r, {"debit"})

(* payment_create commits the payment; the post_save signal recomputes.  Its *)
(* form validates before the payment gets its invoice, so that Payment.clean *)
(* passes.                                                                   *)
InsertLegacy(r) ==
    \E x \in Entry :
        /\ At(r, "loaded") /\ IsNew(r) /\ entry[x].status = "unborn"
        /\ \A s \in Request : At(s, "open") => request[s].on # x
        /\ OfKind(r, {"legacy"})
        /\ entry' = [entry EXCEPT ![x] = request[r].row]
        /\ Becomes(r, [request[r] EXCEPT !.stage = "saved", !.on = x,
                                         !.todo = InvoicesOf(request[r].row)])
        /\ Unless(r, unsettled \cup InvoicesOf(request[r].row))
        /\ UNCHANGED status

(* save() writes all columns of the copy, and inserts a row that is gone;  *)
(* the allocations are rows of their own.                                  *)
Saved(r, row) ==
    [row EXCEPT !.share = IF Exists(entry[request[r].on])
                          THEN entry[request[r].on].share ELSE NoShare]

(* A service saves its copy with another status and recomputes; the copies *)
(* of the invoices are those `seen`, or are fetched on the way.            *)
SaveAs(r, new, todo, seen) ==
    /\ At(r, "loaded") /\ ~IsNew(r) /\ FreeEntry(r)
    /\ Becomes(r, [request[r] EXCEPT
          !.stage = "open", !.row = Saved(r, [request[r].row EXCEPT !.status = new]),
          !.todo = todo, !.seen = seen])
    /\ UNCHANGED <<status, entry>>

(* Mutant: the allocations of the payment are forgotten. *)
UndoDirect(r, new) ==
    /\ At(r, "loaded") /\ ~IsNew(r) /\ OfKind(r, {"payment"})
    /\ SaveAs(r, new, {i \in Invoice : request[r].row.invoice = i}, request[r].seen)
    /\ UNCHANGED unsettled

(* reverse_payment and refund_payment, whatever the status.  The handler   *)
(* found the payment by uuid, with its invoices, or by id.                 *)
Undo(r, new) ==
    /\ At(r, "loaded") /\ ~IsNew(r) /\ OfKind(r, {"payment"})
    /\ \E seen \in {request[r].seen, Fetched({})} :
          SaveAs(r, new, InvoicesOf(request[r].row), seen)
    /\ UNCHANGED unsettled

(* payment_reverse, payment_refund *)
ReversePayment(r) == "REVERSED" \in Reversal /\ Undo(r, "REVERSED")
RefundPayment(r) == "REFUNDED" \in Reversal /\ Undo(r, "REFUNDED")

(* PaymentAPIService.reverse recomputes the payment's own invoice only. *)
ReverseByApi(r) ==
    LET own == {i \in Invoice : request[r].row.invoice = i} IN
    /\ At(r, "loaded") /\ ~IsNew(r) /\ OfKind(r, {"payment"})
    /\ request[r].row.status # "REVERSED"
    /\ SaveAs(r, "REVERSED", own, request[r].seen)
    /\ unsettled' = unsettled \cup (InvoicesOf(request[r].row) \ own)

CancelNote(r, kind) ==
    /\ At(r, "loaded") /\ ~IsNew(r) /\ OfKind(r, {kind})
    /\ request[r].row.status # "CANCELLED"
    /\ SaveAs(r, "CANCELLED", InvoicesOf(request[r].row), Fetched({}))
    /\ UNCHANGED unsettled

(* cancel_credit_note, cancel_debit_note *)
CancelCreditNote(r) == CancelNote(r, "credit")
CancelDebitNote(r) == CancelNote(r, "debit")

(* Payment.clean: the legacy payments of an invoice, with this one edited, *)
(* do not exceed its total.  Payments of the newer kind have no clean().   *)
OtherLegacy(r) ==
    SumOf([entry EXCEPT ![request[r].on] = NoRow], {"legacy"}, request[r].row.invoice)

(* payment_update: the form is valid. *)
Validate(r) ==
    /\ At(r, "loaded") /\ ~IsNew(r) /\ OfKind(r, {"payment", "legacy"})
    /\ \E amount \in Amount :
        /\ OfKind(r, {"legacy"}) => OtherLegacy(r) + amount <= Total[request[r].row.invoice]
        /\ Becomes(r, [request[r] EXCEPT !.stage = "checked", !.row.amount = amount])
    /\ UNCHANGED <<status, entry, unsettled>>

(* Mutant: the form decides what is saved, a status included. *)
EditRevives(r) ==
    LET own == {i \in Invoice : request[r].row.invoice = i} IN
    /\ At(r, "checked") /\ ~IsNew(r) /\ FreeEntry(r)
    /\ entry' = [entry EXCEPT ![request[r].on] =
                    Saved(r, [request[r].row EXCEPT !.status = "COMPLETED"])]
    /\ Becomes(r, [request[r] EXCEPT !.stage = "saved", !.todo = own, !.seen = Fetched({})])
    /\ Unless(r, unsettled \cup own)
    /\ UNCHANGED status

(* payment_update commits the form and then recomputes the invoice. *)
Edit(r) ==
    LET own == {i \in Invoice : request[r].row.invoice = i} IN
    /\ At(r, "checked") /\ ~IsNew(r) /\ FreeEntry(r)
    /\ entry' = [entry EXCEPT ![request[r].on] = Saved(r, request[r].row)]
    /\ Becomes(r, [request[r] EXCEPT !.stage = "saved", !.todo = own, !.seen = Fetched({})])
    /\ Unless(r, unsettled \cup own)
    /\ UNCHANGED status

(* payment_delete, with the allocations; only the payment's own invoice is *)
(* recomputed.                                                             *)
Delete(r) ==
    LET own == {i \in Invoice : request[r].row.invoice = i} IN
    /\ At(r, "loaded") /\ ~IsNew(r) /\ OfKind(r, {"payment", "legacy"}) /\ FreeEntry(r)
    /\ entry' = [entry EXCEPT ![request[r].on] = Gone]
    /\ Becomes(r, [request[r] EXCEPT !.stage = "saved", !.todo = own])
    /\ Unless(r, unsettled \cup InvoicesOf(request[r].row))
    /\ UNCHANGED status

(* DELETE of a payment: nothing is recomputed. *)
Destroy(r) ==
    /\ At(r, "loaded") /\ ~IsNew(r) /\ OfKind(r, {"payment"}) /\ FreeEntry(r)
    /\ entry' = [entry EXCEPT ![request[r].on] = Gone]
    /\ Done(r)
    /\ Unless(r, unsettled \cup InvoicesOf(request[r].row))
    /\ UNCHANGED status

(* PATCH of a payment: another amount, another invoice, nothing recomputed. *)
Patch(r) ==
    /\ At(r, "loaded") /\ ~IsNew(r) /\ OfKind(r, {"payment"}) /\ FreeEntry(r)
    /\ \E amount \in Amount \cup {request[r].row.amount}, i \in Redirect \cup {request[r].row.invoice} :
        LET row == [request[r].row EXCEPT !.amount = amount, !.invoice = i]
            invoices == InvoicesOf(request[r].row) \cup InvoicesOf(row)
        IN  /\ entry' = [entry EXCEPT ![request[r].on] = Saved(r, row)]
            /\ Enter(r, Idle, {request[r].on}, invoices)
            /\ Unless(r, unsettled \cup invoices)
    /\ UNCHANGED status

(* One of its invoices is settled: the next, until there is none. *)
Told(r, i) ==
    [request[r] EXCEPT !.todo = @ \ {i}, !.told = @ \cup {i}, !.seen[i] = Blank,
                       !.decided = <<>>]

(* update_status on the next invoice: what the transaction sees now decides, *)
(* and is written if the copy has another status.  receive_payment goes by   *)
(* due date, reversals as the database returns the allocations; the order    *)
(* is left open.                                                             *)
Recompute(r) ==
    /\ request[r] # Idle /\ request[r].decided = <<>>
    /\ \E i \in request[r].todo :
        LET old == IF request[r].seen[i] = Blank THEN StatusFor(r, i) ELSE request[r].seen[i]
            new == Derived(View(r), i, old)
        IN  /\ IF new # old
               THEN /\ Becomes(r, [request[r] EXCEPT !.decided = <<i, new>>])
                    /\ UNCHANGED unsettled
               ELSE /\ Becomes(r, Told(r, i))
                    /\ IF At(r, "saved") THEN Unless(r, unsettled \ {i}) ELSE UNCHANGED unsettled
            /\ UNCHANGED <<status, entry>>

(* save(update_fields=["status"]): waits for the invoice's row. *)
Store(r) ==
    /\ request[r] # Idle /\ request[r].decided # <<>>
    /\ LET i == request[r].decided[1]
           new == request[r].decided[2] IN
        /\ FreeInvoice(r, i)
        /\ \/ /\ At(r, "open")
              /\ Becomes(r, [Told(r, i) EXCEPT !.wrote[i] = new])
              /\ UNCHANGED <<status, unsettled>>
           \/ /\ At(r, "saved")
              /\ status' = [status EXCEPT ![i] = new]
              /\ Becomes(r, Told(r, i))
              /\ Unless(r, unsettled \ {i})
        /\ UNCHANGED entry

(* The end of a transaction. *)
CommitRequest(r) ==
    /\ At(r, "open") /\ request[r].todo = {}
    /\ entry' = View(r)
    /\ status' = [i \in Invoice |-> StatusFor(r, i)]
    /\ Unless(r, unsettled \ request[r].told)
    /\ Done(r)

(* A check refuses, a number or a row is taken, the process dies, or there *)
(* is nothing left to do: what was committed stays.                        *)
End(r) ==
    /\ request[r] # Idle
    /\ Done(r)
    /\ UNCHANGED <<status, entry, unsettled>>

(* The handlers of InvoiceStock write the same column: mark-paid, complete, *)
(* cancel, PATCH.                                                           *)
Overwrite(i) ==
    /\ \A s \in Request : At(s, "open") => request[s].wrote[i] = Blank
    /\ \E new \in Written : i = new[1] /\ status' = [status EXCEPT ![i] = new[2]]
    /\ request' = [s \in Request |-> IF Meets(s, {}, {i})
                                     THEN [request[s] EXCEPT !.alone = FALSE] ELSE request[s]]
    /\ unsettled' = unsettled \cup {i}
    /\ UNCHANGED entry

ReceivePayment(r) ==
    \/ AskPayment(r) \/ AskSeveral(r) \/ CheckPayment(r) \/ Allocate(r) \/ InsertPayment(r)
    \/ AskLegacy(r) \/ InsertLegacy(r)

IssueNote(r) ==
    \/ AskCreditNote(r) \/ CheckCreditNote(r) \/ InsertCreditNote(r)
    \/ AskDebitNote(r) \/ CheckDebitNote(r) \/ InsertDebitNote(r)

ChangePayment(r) ==
    \/ LoadPayment(r) \/ ReversePayment(r) \/ RefundPayment(r) \/ ReverseByApi(r)
    \/ Validate(r) \/ Edit(r) \/ Delete(r) \/ Destroy(r) \/ Patch(r)

ChangeNote(r) ==
    LoadCreditNote(r) \/ LoadDebitNote(r) \/ CancelCreditNote(r) \/ CancelDebitNote(r)

Finish(r) == Recompute(r) \/ Store(r) \/ CommitRequest(r) \/ End(r)

PaymentsNext ==
    \/ \E r \in Request :
          ReceivePayment(r) \/ IssueNote(r) \/ ChangePayment(r) \/ ChangeNote(r) \/ Finish(r)
    \/ \E i \in Invoice : Overwrite(i)

PaymentsSpec == PaymentsInit /\ [][PaymentsNext]_paymentsVars
-----------------------------------------------------------------------------
(* README.md of the repository, "auto-update invoice balances": the status   *)
(* of an invoice tells how much of what is due after its notes is paid,      *)
(* whichever payments, allocations and notes were recorded, edited, reversed *)
(* or cancelled in which order, and however many requests failed half way,   *)
(* as soon as one request that met no other has recomputed it.               *)
StatusFits ==
    \A i \in Invoice \ unsettled :
        /\ status[i] = "PAID" <=> Paid(entry, i) > 0 /\ Balance(entry, i) = 0
        /\ status[i] = "PARTIAL" <=> Paid(entry, i) > 0 /\ Balance(entry, i) > 0
        /\ status[i] \in {"UNPAID", "OVERDUE"} <=> Paid(entry, i) <= 0
        /\ status[i] = "OVERDUE" => i \in Late

(* A service about to commit a new row, that met no other request. *)
Adding(r) ==
    At(r, "open") /\ request[r].alone /\ entry[request[r].on].status = "unborn"

(* PaymentExceedsBalance and the limit of credit notes: what a service     *)
(* accepts never makes the payments of an invoice exceed its total, or its *)
(* debit notes on top, nor its credit notes both, whatever was paid,       *)
(* edited, reversed and credited before.                                   *)
NeverBeyond ==
    \A r \in Request : Adding(r) =>
        \A i \in InvoicesOf(request[r].row) :
            /\ OfKind(r, {"payment"}) =>
                  \/ Paid(View(r), i) <= Total[i]
                  \/ Paid(View(r), i) <= EffectiveDue(View(r), i)
            /\ OfKind(r, {"credit"}) => Credited(View(r), i) <= Total[i] + Debited(View(r), i)

(* allocate_multi_invoice_payment gives no more than was paid, leaves nothing *)
(* of it as long as one of the selected invoices is owed money, and pays      *)
(* none before those due earlier are paid in full.                            *)
Payable(r) == {i \in request[r].select : status[i] \notin {"PAID", "CANCELLED", "DRAFT"}}

OldestFirst ==
    \A r \in Request : Adding(r) /\ request[r].select # {} =>
        LET row == request[r].row
            given == SumFunction([i \in Invoice |-> Worth(row, i)])
        IN  /\ given <= AtLeastZero(row.amount)
            /\ \A i \in Payable(r) : Balance(View(r), i) > 0 =>
                  /\ given = AtLeastZero(row.amount)
                  /\ \A j \in Invoice : Rank[j] > Rank[i] => Worth(row, j) = 0

(* A payment that was reversed or refunded, a note that was cancelled, never *)
(* counts again, unless a request that met another one saves its old copy.   *)
UndoneStaysUndone ==
    [][\A x \in Entry : entry[x].status \in Undone /\ Counts(entry'[x]) =>
          \E r \in Request : request[r] # Idle /\ request[r].on = x /\ ~request[r].alone]_paymentsVars
=============================================================================
