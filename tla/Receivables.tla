----------------------------- MODULE Receivables -----------------------------
(***************************************************************************)
(* The reports on what a customer owes, each computed from the tables of   *)
(* InvoicePayments in its own way: the statement adds up rows, the aging   *)
(* report and the payment center add up balances by status, the dashboard  *)
(* adds up totals by status.                                               *)
(***************************************************************************)
EXTENDS InvoicePayments, SequencesExt

CONSTANTS
    Day,          \* bound: the days of the reports, 1..n
    InvoiceDay,   \* Invoice.invoice_date
    EntryDay,     \* the date of a row, by its kind
    DaysOverdue,  \* how long an invoice's due_date has passed, 0 if it has not
    NoDay         \* start_date=None, end_date=None

ASSUME DaysAssumption ==
    /\ Day \subseteq Nat /\ NoDay \notin Nat
    /\ InvoiceDay \in [Invoice -> Day] /\ EntryDay \in [Kind -> Day]
    /\ DaysOverdue \in [Invoice -> Nat] /\ Late = {i \in Invoice : DaysOverdue[i] > 0}

SumOfTotals(invoices) == SumFunctionOnSet(Total, invoices)
SumOfBalances(invoices) ==
    SumFunctionOnSet([i \in Invoice |-> Balance(entry, i)], invoices)

-----------------------------------------------------------------------------
(* StatementService.generate_statement: what it lists of the customer.  A  *)
(* payment counts with its amount, whatever it is allocated to; an older   *)
(* payment is found by its invoice.                                        *)
Events ==
    {[type |-> "invoice", of |-> i, day |-> InvoiceDay[i], debit |-> Total[i], credit |-> 0] :
        i \in {j \in Invoice : status[j] # "CANCELLED"}}
    \cup
    {[type |-> entry[x].kind, of |-> x, day |-> EntryDay[entry[x].kind],
      debit |-> IF entry[x].kind = "debit" THEN entry[x].amount ELSE 0,
      credit |-> IF entry[x].kind = "debit" THEN 0 ELSE entry[x].amount] :
        x \in {y \in Entry : Counts(entry[y])}}

(* The events of a day may come in any order: references are not modelled. *)
Chronological ==
    CHOOSE listed \in [1..Cardinality(Events) -> Events] :
        /\ IsInjective(listed)
        /\ \A j, k \in DOMAIN listed : j < k => listed[j].day <= listed[k].day

(* Mutant: what happened on the first day is counted as opening balance. *)
ListedLate(acc, event, from, to) ==
    LET amount == event.debit - event.credit IN
    CASE from # NoDay /\ event.day <= from -> [acc EXCEPT !.opening = @ + amount]
      [] to # NoDay /\ event.day > to -> acc
      [] OTHER -> [acc EXCEPT !.running = amount + (IF acc.empty THEN acc.opening ELSE @),
                              !.empty = FALSE]

(* One turn of the loop over the sorted events. *)
Listed(acc, event, from, to) ==
    LET amount == event.debit - event.credit IN
    CASE from # NoDay /\ event.day < from -> [acc EXCEPT !.opening = @ + amount]
      [] to # NoDay /\ event.day > to -> acc
      [] OTHER -> [acc EXCEPT !.running = amount + (IF acc.empty THEN acc.opening ELSE @),
                              !.empty = FALSE]

CustomerStatement(from, to) ==
    LET end == FoldLeft(LAMBDA acc, event : Listed(acc, event, from, to),
                        [opening |-> 0, running |-> 0, empty |-> TRUE], Chronological)
    IN  [opening |-> end.opening, closing |-> IF end.empty THEN end.opening ELSE end.running]

(* AgingService.get_aging_summary *)
Unpaid == {i \in Invoice : status[i] \notin {"PAID", "CANCELLED", "DRAFT"} /\ Balance(entry, i) > 0}

Aged(from, to) ==
    SumOfBalances({i \in Unpaid : DaysOverdue[i] >= from /\ DaysOverdue[i] <= to})

Aging ==
    LET longest == SumFunction(DaysOverdue) IN
    [current |-> Aged(0, 30), thirty |-> Aged(31, 60), sixty |-> Aged(61, 90),
     ninety |-> Aged(91, longest)]

AgingTotal == Aging.current + Aging.thirty + Aging.sixty + Aging.ninety

(* PaymentSelectors.get_payment_center_stats: outstanding_balance, overdue_total *)
Outstanding ==
    SumOfBalances({i \in Invoice : status[i] \notin {"PAID", "CANCELLED", "DRAFT"}})
OverdueTotal == SumOfBalances({i \in Invoice : status[i] = "OVERDUE"})

(* PaymentSelectors.get_payments_for_timeline: payments of the newer kind, *)
(* with their whole amount or with what they allocate, undone ones too.    *)
Timeline(i) ==
    {[of |-> x, via |-> "invoice", amount |-> entry[x].amount, status |-> entry[x].status] :
        x \in {y \in Entry : entry[y].kind = "payment" /\ entry[y].invoice = i}}
    \cup
    {[of |-> x, via |-> "allocation", amount |-> entry[x].share[i], status |-> entry[x].status] :
        x \in {y \in Entry : entry[y].share[i] > 0}}

(* DashboardService.get_invoice_kpi, get_outstanding_receivables: totals, not *)
(* balances, of the invoices with these statuses.                             *)
Receivable == {i \in Invoice : status[i] \in {"UNPAID", "PARTIAL", "OVERDUE"}}
OutstandingTotals == SumOfTotals(Receivable)

-----------------------------------------------------------------------------
(* Reports see what is committed.  They are looked at while no request is  *)
(* in progress: any request may die and leave the tables as they are, so   *)
(* that this is every content the tables can have.                         *)
Quiet == \A r \in Request : request[r] = Idle

(* What payments brought beyond the invoices they are for, and beyond what *)
(* an invoice asked for after its notes; or credit notes beyond the rest.  *)
Unapplied ==
    SumFunction([x \in Entry |->
        IF Counts(entry[x]) /\ entry[x].kind \in {"payment", "legacy"}
        THEN entry[x].amount - SumFunction([i \in Invoice |-> Worth(entry[x], i)]) ELSE 0])

Surplus ==
    SumFunction([i \in Invoice |->
        AtLeastZero(Paid(entry, i) - EffectiveDue(entry, i))
            + AtLeastZero(Credited(entry, i) - Total[i] - Debited(entry, i))])

Debits == SumFunction([i \in Invoice |-> Debited(entry, i)])
Credits == SumFunction([i \in Invoice |-> Credited(entry, i)])

(* No form and no service asks that payments be of more than nothing. *)
NoneNegative == \A x \in Entry : entry[x].amount >= 0

(* The reports tell one story, once every invoice's status was recomputed: *)
(* a statement goes on where the one of the days before it ended, ends at  *)
(* what the aging report shows less what the customer has paid beyond it,  *)
(* the payment center shows the same and no more than that as overdue; the *)
(* completed payments of an invoice's timeline are what it was paid; and   *)
(* what the dashboard shows as owed is less than the aging report by debit *)
(* notes only, unless somebody recorded a payment of less than nothing.    *)
ReportsAgree ==
    Quiet /\ unsettled = {} =>
        /\ \A d \in Day :
            LET before == CustomerStatement(NoDay, d)
                after == CustomerStatement(d + 1, NoDay)
            IN  /\ after.opening = before.closing
                /\ after.closing = AgingTotal - Unapplied - Surplus
        /\ Outstanding = AgingTotal
        /\ OverdueTotal <= SumOfBalances({i \in Late : Paid(entry, i) <= 0})
        /\ \A i \in Invoice :
              LET completed == {e \in Timeline(i) : e.status = "COMPLETED"}
              IN  SumFunction([e \in completed |-> e.amount]) = SumOf(entry, {"payment"}, i)
        /\ NoneNegative => AgingTotal <= OutstandingTotals + Debits
=============================================================================
