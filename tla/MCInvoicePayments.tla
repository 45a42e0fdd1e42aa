------------------------- MODULE MCInvoicePayments -------------------------
(***************************************************************************)
(* Invoice i1 over 2, a draft, due first and overdue; invoice i2 over 1.   *)
(* Payments of it, of a part and across both invoices, and notes on i1.    *)
(* Dashboards are looked at on the day of the payments and in              *)
(* March and May of the next year.                                         *)
(***************************************************************************)
EXTENDS PaymentDashboards, TLC

CONSTANTS i1, i2

MCTotal == [i \in Invoice |-> IF i = i1 THEN 2 ELSE 1]
MCCreated == [i \in Invoice |-> IF i = i1 THEN "DRAFT" ELSE "UNPAID"]
MCDaysOverdue == [i \in Invoice |-> IF i = i1 THEN 31 ELSE 0]
MCInvoiceDay == [i \in Invoice |-> 1]
MCEntryDay == [k \in Kind |-> IF k \in {"credit", "legacy"} THEN 1 ELSE 2]
On22(month, day) == [year |-> 2022, month |-> month, day |-> day]
On23(month, day) == [year |-> 2023, month |-> month, day |-> day]
MCDateOf == [d \in Day |-> IF d = 1 THEN On22(11, 30) ELSE On22(12, 31)]
MCReportDate == {On22(12, 31), On23(3, 15), On23(5, 31)}
MCRank == [i \in Invoice |-> IF i = i1 THEN 1 ELSE 2]

Asked(kind, invoice, amount) ==
    [kind |-> kind, status |-> IF kind \in {"payment", "legacy"} THEN "COMPLETED" ELSE "ISSUED",
     invoice |-> invoice, amount |-> amount, share |-> NoShare]

On(kind, amount) == [row |-> Asked(kind, i1, amount), select |-> {}]

MCAllocated ==
    { On("credit", 1), On("legacy", 1),
      [row |-> Asked("payment", NoInvoice, 2), select |-> {i1, i2}] }

MCNoted == { On("payment", 2), On("legacy", 1), On("credit", 1), On("debit", 1) }

MCWritten == {<<i1, "CANCELLED">>}
MCNothing == {}

Symmetry == Permutations(Entry) \cup Permutations(Request)
=============================================================================
