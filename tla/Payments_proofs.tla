-------------------------- MODULE Payments_proofs ---------------------------
(***************************************************************************)
(* Proofs about InvoicePayments, and about the reports over its tables,    *)
(* Receivables and PaymentDashboards, for any invoices, payments, notes    *)
(* and requests.                                                           *)
(*                                                                         *)
(* Payments: what a request that met no other has loaded, decided and been *)
(* allowed is still so when it writes and commits; hence the status of a   *)
(* settled invoice fits its money, payments never exceed what is due,      *)
(* allocations pay the oldest invoices first, and what was undone stays    *)
(* undone.                                                                 *)
(*                                                                         *)
(* Reports: since every row stays in its table (KindsInv) and settled      *)
(* invoices have the status that fits, the statement of a customer, the    *)
(* aging reports, the payment center and the dashboards add up the same    *)
(* amounts, each less what it leaves out.                                  *)
(***************************************************************************)
EXTENDS PaymentDashboards, SumTheorems, TLAPS

(* InvoicePayments: the types. *)
Typed ==
    /\ status \in [Invoice -> Status]
    /\ entry \in [Entry -> Row]
    /\ request \in [Request -> Copy \cup {Idle}]
    /\ unsettled \subseteq Invoice

Busy(r) == request[r] # Idle

(* A request that is not idle holds a copy. *)
LEMMA BusyCopy ==
    ASSUME Typed, NEW r \in Request, Busy(r)
    PROVE  request[r] \in Copy
  BY DEF Typed, Busy

(* A copy that does not fit its type is no copy, and Idle is none. *)
LEMMA CopyFields ==
    ASSUME NEW c \in Copy
    PROVE  /\ c # Idle
           /\ c = [on |-> c.on, row |-> c.row, select |-> c.select, stage |-> c.stage,
                   alone |-> c.alone, seen |-> c.seen, todo |-> c.todo, decided |-> c.decided,
                   told |-> c.told, wrote |-> c.wrote]
           /\ c.on \in Entry \cup {NoEntry} /\ c.row \in Row /\ c.select \in SUBSET Invoice
           /\ c.stage \in {"loaded", "checked", "open", "saved"} /\ c.alone \in BOOLEAN
           /\ c.seen \in [Invoice -> Status \cup {Blank}] /\ c.todo \in SUBSET Invoice
           /\ c.decided \in (Invoice \X Status) \cup {<<>>}
           /\ c.told \in SUBSET Invoice /\ c.wrote \in [Invoice -> Status \cup {Blank}]
  BY InvoicesAssumption DEF Copy

(* The columns of a row. *)
LEMMA RowFields ==
    ASSUME NEW row \in Row
    PROVE  /\ row.kind \in Kind /\ row.status \in EntryStatus
           /\ row.invoice \in Invoice \cup {NoInvoice} /\ row.amount \in Int
           /\ row.share \in [Invoice -> Nat]
           /\ row = [kind |-> row.kind, status |-> row.status, invoice |-> row.invoice,
                     amount |-> row.amount, share |-> row.share]
  BY DEF Row

(* What an id without a row stands for is a row. *)
LEMMA NoRowTyped == NoRow \in Row /\ Gone \in Row /\ NoShare \in [Invoice -> Nat]
  BY DEF NoRow, Gone, Row, NoShare, Kind, EntryStatus, Absent

LEMMA SavedTyped ==
    ASSUME Typed, NEW r \in Request, Busy(r), request[r].on \in Entry, NEW row \in Row
    PROVE  Saved(r, row) \in Row
  <1>1. entry[request[r].on].share \in [Invoice -> Nat]
    BY RowFields DEF Typed
  <1>2. NoShare \in [Invoice -> Nat]
    BY NoRowTyped
  <1> QED
    BY <1>1, <1>2 DEF Saved, Row

LEMMA InitTyped == PaymentsInit => Typed
  BY NoRowTyped, InvoicesAssumption DEF PaymentsInit, Typed

LEMMA FetchedTyped ==
    ASSUME Typed, NEW S
    PROVE  Fetched(S) \in [Invoice -> Status \cup {Blank}]
  BY DEF Typed, Fetched

(* Entering with a copy of its type, everybody's stays one. *)
LEMMA EnterTyped ==
    ASSUME Typed, NEW r \in Request, NEW copy \in Copy \cup {Idle}, NEW on, NEW invoices,
           Enter(r, copy, on, invoices)
    PROVE  request' \in [Request -> Copy \cup {Idle}]
  <1>1. \A s \in Request : Meets(s, on, invoices) =>
            [request[s] EXCEPT !.alone = FALSE] \in Copy
    <2> SUFFICES ASSUME NEW s \in Request, Meets(s, on, invoices)
                 PROVE  [request[s] EXCEPT !.alone = FALSE] \in Copy
      OBVIOUS
    <2>1. request[s] \in Copy
      BY DEF Meets, Typed
    <2> QED
      BY <2>1 DEF Copy
  <1> QED
    BY <1>1 DEF Enter, Typed

(* What a row has to do with are invoices. *)
LEMMA InvoicesOfRow == ASSUME NEW row PROVE InvoicesOf(row) \in SUBSET Invoice
  BY DEF InvoicesOf

LEMMA BeginTyped ==
    ASSUME Typed, NEW r \in Request, NEW on \in Entry \cup {NoEntry}, NEW row \in Row,
           NEW select \in SUBSET Invoice, BeginRequest(r, on, row, select)
    PROVE  Typed'
  <1> DEFINE ids == {x \in Entry : x = on}
             invoices == InvoicesOf(row) \cup select
             free == \A s \in Request : ~Meets(s, ids, invoices)
             copy == [on |-> on, row |-> row, select |-> select, stage |-> "loaded",
                      alone |-> free,
                      seen |-> Fetched(InvoicesOf(row)), todo |-> {}, decided |-> <<>>,
                      told |-> {}, wrote |-> [i \in Invoice |-> Blank]]
  <1>1. Enter(r, copy, ids, invoices) /\ UNCHANGED <<status, entry, unsettled>>
    BY DEF BeginRequest
  <1>2. copy \in Copy
    <2>1. free \in BOOLEAN
      OBVIOUS
    <2>2. Fetched(InvoicesOf(row)) \in [Invoice -> Status \cup {Blank}]
      BY FetchedTyped
    <2>3. [i \in Invoice |-> Blank] \in [Invoice -> Status \cup {Blank}]
      OBVIOUS
    <2> HIDE DEF free
    <2> QED
      BY <2>1, <2>2, <2>3 DEF Copy
  <1> HIDE DEF copy, ids, invoices
  <1>3. request' \in [Request -> Copy \cup {Idle}]
    BY <1>1, <1>2, EnterTyped
  <1> QED
    BY <1>1, <1>3 DEF Typed

LEMMA AskTyped ==
    ASSUME Typed, NEW r \in Request, NEW asked \in SUBSET NewEntries, Ask(r, asked)
    PROVE  Typed'
  <1>1. PICK new \in asked : BeginRequest(r, NoEntry, new.row, new.select)
    BY DEF Ask
  <1>2. new.row \in Row /\ new.select \in SUBSET Invoice
    BY EntriesAssumption
  <1> QED
    BY <1>1, <1>2, BeginTyped

LEMMA LoadTyped ==
    ASSUME Typed, NEW r \in Request, NEW kinds, LoadKind(r, kinds)
    PROVE  Typed'
  <1>1. PICK x \in Entry : BeginRequest(r, x, entry[x], {})
    BY DEF LoadKind
  <1>2. entry[x] \in Row /\ {} \in SUBSET Invoice
    BY DEF Typed
  <1> QED
    BY <1>1, <1>2, BeginTyped

LEMMA BecomesTyped ==
    ASSUME Typed, NEW r \in Request, NEW copy \in Copy \cup {Idle}, Becomes(r, copy)
    PROVE  request' \in [Request -> Copy \cup {Idle}]
  BY DEF Becomes, Typed

-----------------------------------------------------------------------------
(* Sums of money. *)

Amounts(table, kinds, i) ==
    [x \in Entry |-> IF table[x].kind \in kinds THEN Worth(table[x], i) ELSE 0]

(* What a row is worth to an invoice. *)
LEMMA WorthInteger ==
    ASSUME NEW row \in Row, NEW i \in Invoice
    PROVE  Worth(row, i) \in Int
  <1>1. row.amount \in Int /\ row.share[i] \in Nat
    BY RowFields
  <1> QED
    BY <1>1 DEF Worth

(* The sums of the money are sums over the finitely many entries. *)
LEMMA SumIsOverEntries ==
    ASSUME NEW table \in [Entry -> Row], NEW kinds, NEW i \in Invoice
    PROVE  /\ SumOf(table, kinds, i) = SumFunctionOnSet(Amounts(table, kinds, i), Entry)
           /\ IntegersOn(Amounts(table, kinds, i), Entry)
           /\ SumOf(table, kinds, i) \in Int
  <1>1. SumOf(table, kinds, i) = SumFunctionOnSet(Amounts(table, kinds, i), Entry)
    BY DEF SumOf, Amounts, SumFunction
  <1>2. \A x \in Entry : Amounts(table, kinds, i)[x] \in Int
    BY WorthInteger DEF Amounts
  <1>3. IntegersOn(Amounts(table, kinds, i), Entry)
    BY <1>2, InvoicesAssumption DEF IntegersOn
  <1> QED
    BY <1>1, <1>3, SumInteger

(* What is paid, credited and debited can be any integer, what is due *)
(* cannot be negative.                                                *)
LEMMA MoneyTyped ==
    ASSUME NEW table \in [Entry -> Row], NEW i \in Invoice
    PROVE  /\ Paid(table, i) \in Int /\ Credited(table, i) \in Int /\ Debited(table, i) \in Int
           /\ EffectiveDue(table, i) \in Nat /\ Balance(table, i) \in Nat /\ Total[i] \in Nat
  <1>1. Paid(table, i) \in Int /\ Credited(table, i) \in Int /\ Debited(table, i) \in Int
    BY SumIsOverEntries DEF Paid, Credited, Debited
  <1>2. Total[i] \in Nat
    BY InvoicesAssumption
  <1>3. EffectiveDue(table, i) \in Nat
    BY <1>1, <1>2 DEF EffectiveDue, AtLeastZero
  <1> QED
    BY <1>1, <1>2, <1>3 DEF Balance, AtLeastZero

(* A row that is worth nothing to an invoice changes none of its sums. *)
LEMMA SumSameRows ==
    ASSUME NEW a \in [Entry -> Row], NEW b \in [Entry -> Row], NEW kinds, NEW i \in Invoice,
           \A x \in Entry : a[x] = b[x] \/ (Worth(a[x], i) = 0 /\ Worth(b[x], i) = 0)
    PROVE  SumOf(a, kinds, i) = SumOf(b, kinds, i)
  <1>1. Amounts(a, kinds, i) = Amounts(b, kinds, i)
    BY DEF Amounts
  <1> QED
    BY <1>1, SumIsOverEntries

(* Nor does it change what is due and paid. *)
LEMMA MoneySame ==
    ASSUME NEW a \in [Entry -> Row], NEW b \in [Entry -> Row], NEW i \in Invoice,
           \A x \in Entry : a[x] = b[x] \/ (Worth(a[x], i) = 0 /\ Worth(b[x], i) = 0)
    PROVE  /\ Paid(a, i) = Paid(b, i) /\ Credited(a, i) = Credited(b, i)
           /\ Debited(a, i) = Debited(b, i) /\ EffectiveDue(a, i) = EffectiveDue(b, i)
           /\ Balance(a, i) = Balance(b, i)
  <1>1. \A kinds : SumOf(a, kinds, i) = SumOf(b, kinds, i)
    BY SumSameRows
  <1> QED
    BY <1>1 DEF Paid, Credited, Debited, EffectiveDue, Balance

(* A row more adds what it is worth. *)
LEMMA SumWithRow ==
    ASSUME NEW a \in [Entry -> Row], NEW b \in [Entry -> Row], NEW x \in Entry, NEW kinds,
           NEW i \in Invoice, Worth(a[x], i) = 0, \A y \in Entry \ {x} : b[y] = a[y]
    PROVE  /\ b[x].kind \in kinds => SumOf(b, kinds, i) = SumOf(a, kinds, i) + Worth(b[x], i)
           /\ b[x].kind \notin kinds => SumOf(b, kinds, i) = SumOf(a, kinds, i)
  <1> DEFINE f == Amounts(a, kinds, i)
             g == Amounts(b, kinds, i)
  <1>2. /\ IntegersOn(f, Entry) /\ g[x] \in Int
        /\ SumOf(a, kinds, i) = SumFunctionOnSet(f, Entry) /\ SumOf(a, kinds, i) \in Int
        /\ SumOf(b, kinds, i) = SumFunctionOnSet(g, Entry)
    BY SumIsOverEntries DEF IntegersOn
  <1>3. \A y \in Entry \ {x} : f[y] = g[y]
    BY DEF Amounts
  <1>4. f[x] = 0 /\ g[x] = IF b[x].kind \in kinds THEN Worth(b[x], i) ELSE 0
    BY DEF Amounts
  <1>5. SumFunctionOnSet(g, Entry) = SumFunctionOnSet(f, Entry) + (g[x] - f[x])
    <2> HIDE DEF f, g
    <2> QED
      BY <1>2, <1>3, SumChanged
  <1> HIDE DEF f, g
  <1>6. SumOf(b, kinds, i) = SumOf(a, kinds, i) + g[x]
    BY <1>2, <1>4, <1>5
  <1> QED
    BY <1>2, <1>4, <1>6

-----------------------------------------------------------------------------
(* What each invoice is owed when a payment is spread, and what those due *)
(* before it are.                                                         *)
Owed(r) == [i \in Invoice |-> IF i \in Open(r) THEN Balance(entry, i) ELSE 0]
DueBefore(i) == {j \in Invoice : Rank[j] < Rank[i]}

(* What is owed are natural numbers, also together. *)
LEMMA OwedTyped ==
    ASSUME Typed, NEW r \in Request
    PROVE  /\ Owed(r) \in [Invoice -> Nat] /\ IntegersOn(Owed(r), Invoice)
           /\ \A S \in SUBSET Invoice : SumFunctionOnSet(Owed(r), S) \in Nat
  <1>1. \A i \in Invoice : Balance(entry, i) \in Nat
    BY MoneyTyped DEF Typed
  <1>2. Owed(r) \in [Invoice -> Nat]
    BY <1>1 DEF Owed
  <1>3. IntegersOn(Owed(r), Invoice)
    BY <1>2, InvoicesAssumption DEF IntegersOn
  <1>4. ASSUME NEW S \in SUBSET Invoice
        PROVE  SumFunctionOnSet(Owed(r), S) \in Nat
    <2>1. IsFiniteSet(S) /\ \A x \in S : Owed(r)[x] \in Nat
      BY <1>2, InvoicesAssumption, FS_Subset
    <2> QED
      BY <2>1, SumNatural
  <1> QED
    BY <1>2, <1>3, <1>4

(* The share of an invoice, in these terms. *)
LEMMA SharesAre ==
    ASSUME Typed, NEW r \in Request, Busy(r)
    PROVE  /\ Shares(r) \in [Invoice -> Nat]
           /\ \A i \in Invoice :
                Shares(r)[i] = AtMost(Owed(r)[i],
                    AtLeastZero(request[r].row.amount - SumFunctionOnSet(Owed(r), DueBefore(i))))
  <1>1. \A i \in Invoice :
            Shares(r)[i] = AtMost(Owed(r)[i],
                AtLeastZero(request[r].row.amount - SumFunctionOnSet(Owed(r), DueBefore(i))))
    BY DEF Shares, Owed, DueBefore
  <1>2. request[r].row.amount \in Int
    BY BusyCopy, CopyFields, RowFields
  <1>3. \A i \in Invoice : Owed(r)[i] \in Nat /\ SumFunctionOnSet(Owed(r), DueBefore(i)) \in Nat
    BY OwedTyped DEF DueBefore
  <1>4. \A i \in Invoice : Shares(r)[i] \in Nat
    BY <1>1, <1>2, <1>3 DEF AtMost, AtLeastZero
  <1>5. Shares(r) = [i \in Invoice |-> Shares(r)[i]]
    BY DEF Shares
  <1> QED
    BY <1>1, <1>4, <1>5

-----------------------------------------------------------------------------
(* Each step keeps the types. *)

LEMMA OwnTyped == ASSUME NEW row PROVE {i \in Invoice : row.invoice = i} \in SUBSET Invoice
  OBVIOUS

LEMMA PassesTyped ==
    ASSUME Typed, NEW r \in Request, Passes(r)
    PROVE  Typed'
  <1>1. request[r] \in Copy
    BY BusyCopy DEF Passes, At, Busy
  <1>2. [request[r] EXCEPT !.stage = "checked"] \in Copy
    BY <1>1 DEF Copy
  <1> QED
    BY <1>2, BecomesTyped DEF Passes, Typed

LEMMA AllocateTyped ==
    ASSUME Typed, NEW r \in Request, Allocate(r)
    PROVE  Typed'
  <1> DEFINE shares == Shares(r)
             paid == {i \in Invoice : shares[i] > 0}
             some == [request[r] EXCEPT !.stage = "checked", !.seen = Fetched(paid),
                                        !.row.share = shares]
             one(i) == [request[r] EXCEPT !.stage = "checked", !.seen = Fetched(paid),
                                          !.row.invoice = i]
  <1>1. UNCHANGED <<status, entry, unsettled>>
        /\ (Becomes(r, some) \/ \E i \in Invoice : Becomes(r, one(i)))
    BY DEF Allocate
  <1>2. request[r] \in Copy /\ request[r].row \in Row
    BY BusyCopy, CopyFields DEF Allocate, At, Busy
  <1>3. shares \in [Invoice -> Nat] /\ Fetched(paid) \in [Invoice -> Status \cup {Blank}]
    BY SharesAre, FetchedTyped DEF Allocate, At, Busy
  <1> HIDE DEF shares, paid
  <1>4. some \in Copy
    BY <1>2, <1>3 DEF Copy, Row
  <1>5. \A i \in Invoice : one(i) \in Copy
    BY <1>2, <1>3 DEF Copy, Row
  <1> HIDE DEF some, one
  <1> QED
    BY <1>1, <1>4, <1>5, BecomesTyped DEF Typed

LEMMA InsertTyped ==
    ASSUME Typed, NEW r \in Request, Insert(r)
    PROVE  Typed'
  <1>1. PICK x \in Entry :
          Becomes(r, [request[r] EXCEPT !.stage = "open", !.on = x,
                                        !.todo = InvoicesOf(request[r].row)])
    BY DEF Insert
  <1>2. request[r] \in Copy
    BY BusyCopy DEF Insert, At, Busy
  <1>3. [request[r] EXCEPT !.stage = "open", !.on = x,
                           !.todo = InvoicesOf(request[r].row)] \in Copy
    BY <1>2, InvoicesOfRow DEF Copy
  <1> QED
    BY <1>1, <1>3, BecomesTyped DEF Insert, Typed

(* Unless leaves nothing but invoices unsettled. *)
LEMMA SphereTyped ==
    ASSUME Typed, NEW r \in Request, Busy(r)
    PROVE  Sphere(request[r]) \in SUBSET Invoice
  BY BusyCopy, CopyFields, InvoicesOfRow DEF Sphere

LEMMA UnlessTyped ==
    ASSUME Typed, NEW r \in Request, Busy(r), NEW settled \in SUBSET Invoice, Unless(r, settled)
    PROVE  unsettled' \subseteq Invoice
  BY SphereTyped DEF Unless, Typed

LEMMA InsertLegacyTyped ==
    ASSUME Typed, NEW r \in Request, InsertLegacy(r)
    PROVE  Typed'
  <1>1. PICK x \in Entry :
          /\ entry' = [entry EXCEPT ![x] = request[r].row]
          /\ Becomes(r, [request[r] EXCEPT !.stage = "saved", !.on = x,
                                           !.todo = InvoicesOf(request[r].row)])
          /\ Unless(r, unsettled \cup InvoicesOf(request[r].row))
          /\ status' = status
    BY DEF InsertLegacy
  <1>2. Busy(r) /\ request[r] \in Copy /\ request[r].row \in Row
    BY BusyCopy, CopyFields DEF InsertLegacy, At, Busy
  <1>3. [request[r] EXCEPT !.stage = "saved", !.on = x,
                           !.todo = InvoicesOf(request[r].row)] \in Copy
    BY <1>2, InvoicesOfRow DEF Copy
  <1>4. request' \in [Request -> Copy \cup {Idle}]
    BY <1>1, <1>3, BecomesTyped
  <1>5. unsettled' \subseteq Invoice
    <2>1. unsettled \cup InvoicesOf(request[r].row) \in SUBSET Invoice
      BY InvoicesOfRow DEF Typed
    <2> QED
      BY <1>1, <1>2, <2>1, UnlessTyped
  <1> QED
    BY <1>1, <1>2, <1>4, <1>5 DEF Typed

LEMMA OnEntry ==
    ASSUME Typed, NEW r \in Request, Busy(r), ~IsNew(r)
    PROVE  request[r].on \in Entry
  BY BusyCopy, CopyFields DEF IsNew

LEMMA SaveAsTyped ==
    ASSUME Typed, NEW r \in Request, NEW new \in EntryStatus, NEW todo \in SUBSET Invoice,
           NEW known \in [Invoice -> Status \cup {Blank}], SaveAs(r, new, todo, known)
    PROVE  /\ request' \in [Request -> Copy \cup {Idle}]
           /\ UNCHANGED <<status, entry>>
  <1> DEFINE row == [request[r].row EXCEPT !.status = new]
             copy == [request[r] EXCEPT !.stage = "open", !.row = Saved(r, row),
                                        !.todo = todo, !.seen = known]
  <1>1. Becomes(r, copy) /\ UNCHANGED <<status, entry>>
    BY DEF SaveAs
  <1>2. Busy(r) /\ request[r] \in Copy /\ request[r].row \in Row /\ request[r].on \in Entry
    BY BusyCopy, CopyFields, OnEntry DEF SaveAs, At, Busy
  <1>3. Saved(r, row) \in Row
    <2>1. row \in Row
      BY <1>2 DEF Row
    <2> HIDE DEF row
    <2> QED
      BY <1>2, <2>1, SavedTyped
  <1>4. copy \in Copy
    <2> HIDE DEF row
    <2> QED
      BY <1>2, <1>3 DEF Copy
  <1> HIDE DEF copy
  <1> QED
    BY <1>1, <1>4, BecomesTyped

LEMMA UndoTyped ==
    ASSUME Typed, NEW r \in Request, NEW new \in EntryStatus, Undo(r, new)
    PROVE  Typed'
  <1>1. PICK known \in {request[r].seen, Fetched({})} :
            SaveAs(r, new, InvoicesOf(request[r].row), known)
    BY DEF Undo
  <1>2. known \in [Invoice -> Status \cup {Blank}]
    BY FetchedTyped, BusyCopy, CopyFields DEF Undo, At, Busy
  <1>3. InvoicesOf(request[r].row) \in SUBSET Invoice
    BY InvoicesOfRow
  <1> QED
    BY <1>1, <1>2, <1>3, SaveAsTyped DEF Undo, Typed

LEMMA ReverseByApiTyped ==
    ASSUME Typed, NEW r \in Request, ReverseByApi(r)
    PROVE  Typed'
  <1> DEFINE own == {i \in Invoice : request[r].row.invoice = i}
  <1>1. /\ SaveAs(r, "REVERSED", own, request[r].seen)
        /\ unsettled' = unsettled \cup (InvoicesOf(request[r].row) \ own)
    BY DEF ReverseByApi
  <1>2. request[r].seen \in [Invoice -> Status \cup {Blank}]
    BY BusyCopy, CopyFields DEF ReverseByApi, At, Busy
  <1>3. "REVERSED" \in EntryStatus /\ own \in SUBSET Invoice
    BY DEF EntryStatus, Undone
  <1>4. unsettled' \subseteq Invoice
    BY <1>1, InvoicesOfRow DEF Typed
  <1> HIDE DEF own
  <1> QED
    BY <1>1, <1>2, <1>3, <1>4, SaveAsTyped DEF Typed

LEMMA CancelNoteTyped ==
    ASSUME Typed, NEW r \in Request, NEW kind, CancelNote(r, kind)
    PROVE  Typed'
  <1>1. /\ SaveAs(r, "CANCELLED", InvoicesOf(request[r].row), Fetched({}))
        /\ unsettled' = unsettled
    BY DEF CancelNote
  <1>2. /\ Fetched({}) \in [Invoice -> Status \cup {Blank}]
        /\ "CANCELLED" \in EntryStatus /\ InvoicesOf(request[r].row) \in SUBSET Invoice
    BY FetchedTyped, InvoicesOfRow DEF EntryStatus, Undone
  <1> QED
    BY <1>1, <1>2, SaveAsTyped DEF Typed

LEMMA ValidateTyped ==
    ASSUME Typed, NEW r \in Request, Validate(r)
    PROVE  Typed'
  <1>1. PICK amount \in Amount :
            Becomes(r, [request[r] EXCEPT !.stage = "checked", !.row.amount = amount])
    BY DEF Validate
  <1>2. request[r] \in Copy /\ request[r].row \in Row
    BY BusyCopy, CopyFields DEF Validate, At, Busy
  <1>3. amount \in Int
    BY InvoicesAssumption
  <1>4. [request[r] EXCEPT !.stage = "checked", !.row.amount = amount] \in Copy
    BY <1>2, <1>3 DEF Copy, Row
  <1> QED
    BY <1>1, <1>4, BecomesTyped DEF Validate, Typed

LEMMA EditTyped ==
    ASSUME Typed, NEW r \in Request, Edit(r)
    PROVE  Typed'
  <1> DEFINE own == {i \in Invoice : request[r].row.invoice = i}
             copy == [request[r] EXCEPT !.stage = "saved", !.todo = own, !.seen = Fetched({})]
  <1>1. /\ entry' = [entry EXCEPT ![request[r].on] = Saved(r, request[r].row)]
        /\ Becomes(r, copy) /\ Unless(r, unsettled \cup own) /\ status' = status
    BY DEF Edit
  <1>2. Busy(r) /\ request[r] \in Copy /\ request[r].row \in Row /\ request[r].on \in Entry
    BY BusyCopy, CopyFields, OnEntry DEF Edit, At, Busy
  <1>3. Saved(r, request[r].row) \in Row /\ own \in SUBSET Invoice
        /\ Fetched({}) \in [Invoice -> Status \cup {Blank}]
    BY <1>2, SavedTyped, FetchedTyped
  <1> HIDE DEF own
  <1>4. copy \in Copy
    BY <1>2, <1>3 DEF Copy
  <1> HIDE DEF copy
  <1>5. unsettled' \subseteq Invoice
    <2>1. unsettled \cup own \in SUBSET Invoice
      BY <1>3 DEF Typed
    <2> QED
      BY <1>1, <1>2, <2>1, UnlessTyped
  <1> QED
    BY <1>1, <1>3, <1>4, <1>5, BecomesTyped DEF Typed

LEMMA DeleteTyped ==
    ASSUME Typed, NEW r \in Request, Delete(r)
    PROVE  Typed'
  <1> DEFINE own == {i \in Invoice : request[r].row.invoice = i}
             copy == [request[r] EXCEPT !.stage = "saved", !.todo = own]
  <1>1. /\ entry' = [entry EXCEPT ![request[r].on] = Gone]
        /\ Becomes(r, copy) /\ Unless(r, unsettled \cup InvoicesOf(request[r].row))
        /\ status' = status
    BY DEF Delete
  <1>2. Busy(r) /\ request[r] \in Copy
    BY BusyCopy DEF Delete, At, Busy
  <1>3. own \in SUBSET Invoice /\ unsettled \cup InvoicesOf(request[r].row) \in SUBSET Invoice
    BY InvoicesOfRow DEF Typed
  <1> HIDE DEF own
  <1>4. copy \in Copy
    BY <1>2, <1>3 DEF Copy
  <1> HIDE DEF copy
  <1>5. unsettled' \subseteq Invoice
    BY <1>1, <1>2, <1>3, UnlessTyped
  <1> QED
    BY <1>1, <1>4, <1>5, BecomesTyped, NoRowTyped DEF Typed

LEMMA DestroyTyped ==
    ASSUME Typed, NEW r \in Request, Destroy(r)
    PROVE  Typed'
  <1>1. /\ entry' = [entry EXCEPT ![request[r].on] = Gone]
        /\ Becomes(r, Idle) /\ Unless(r, unsettled \cup InvoicesOf(request[r].row))
        /\ status' = status /\ Busy(r)
    BY DEF Destroy, Done, At, Busy
  <1>2. unsettled \cup InvoicesOf(request[r].row) \in SUBSET Invoice
    BY InvoicesOfRow DEF Typed
  <1>3. unsettled' \subseteq Invoice
    BY <1>1, <1>2, UnlessTyped
  <1> QED
    BY <1>1, <1>3, BecomesTyped, NoRowTyped DEF Typed

LEMMA PatchTyped ==
    ASSUME Typed, NEW r \in Request, Patch(r)
    PROVE  Typed'
  <1>1. PICK amount \in Amount \cup {request[r].row.amount},
             i \in Redirect \cup {request[r].row.invoice} :
          LET row == [request[r].row EXCEPT !.amount = amount, !.invoice = i]
              invoices == InvoicesOf(request[r].row) \cup InvoicesOf(row)
          IN  /\ entry' = [entry EXCEPT ![request[r].on] = Saved(r, row)]
              /\ Enter(r, Idle, {request[r].on}, invoices)
              /\ Unless(r, unsettled \cup invoices)
    BY DEF Patch
  <1> DEFINE row == [request[r].row EXCEPT !.amount = amount, !.invoice = i]
             invoices == InvoicesOf(request[r].row) \cup InvoicesOf(row)
  <1>2. Busy(r) /\ request[r] \in Copy /\ request[r].row \in Row /\ request[r].on \in Entry
    BY BusyCopy, CopyFields, OnEntry DEF Patch, At, Busy
  <1>3. row \in Row
    BY <1>2, InvoicesAssumption DEF Row
  <1>4. Saved(r, row) \in Row /\ invoices \in SUBSET Invoice
    <2> HIDE DEF row
    <2> QED
      BY <1>2, <1>3, SavedTyped, InvoicesOfRow
  <1>5. /\ entry' = [entry EXCEPT ![request[r].on] = Saved(r, row)]
        /\ Enter(r, Idle, {request[r].on}, invoices)
        /\ Unless(r, unsettled \cup invoices)
    BY <1>1
  <1> HIDE DEF row, invoices
  <1>6. request' \in [Request -> Copy \cup {Idle}]
    BY <1>5, EnterTyped
  <1>7. unsettled' \subseteq Invoice
    <2>1. unsettled \cup invoices \in SUBSET Invoice
      BY <1>4 DEF Typed
    <2> QED
      BY <1>2, <1>5, <2>1, UnlessTyped
  <1> QED
    BY <1>4, <1>5, <1>6, <1>7 DEF Patch, Typed

LEMMA DerivedTyped == ASSUME NEW table, NEW i, NEW old PROVE Derived(table, i, old) \in Status
  BY DEF Derived, Status

LEMMA ToldTyped ==
    ASSUME Typed, NEW r \in Request, Busy(r), NEW i \in Invoice
    PROVE  Told(r, i) \in Copy
  <1>1. request[r] \in Copy
    BY BusyCopy
  <1>2. [request[r].seen EXCEPT ![i] = Blank] \in [Invoice -> Status \cup {Blank}]
    BY <1>1, CopyFields
  <1> QED
    BY <1>1, <1>2 DEF Told, Copy

LEMMA ViewTyped ==
    ASSUME Typed, NEW r \in Request
    PROVE  View(r) \in [Entry -> Row]
  BY BusyCopy, CopyFields DEF View, At, Busy, Typed

LEMMA StatusForTyped ==
    ASSUME Typed, NEW r \in Request, Busy(r), NEW i \in Invoice
    PROVE  StatusFor(r, i) \in Status
  <1>1. request[r].wrote \in [Invoice -> Status \cup {Blank}]
    BY BusyCopy, CopyFields
  <1> QED
    BY <1>1 DEF StatusFor, Typed

LEMMA RecomputeTyped ==
    ASSUME Typed, NEW r \in Request, Recompute(r)
    PROVE  Typed'
  <1>1. Busy(r) /\ request[r] \in Copy
    BY BusyCopy DEF Recompute, Busy
  <1>2. PICK i \in request[r].todo :
          LET old == IF request[r].seen[i] = Blank THEN StatusFor(r, i) ELSE request[r].seen[i]
              new == Derived(View(r), i, old)
          IN  /\ IF new # old
                 THEN /\ Becomes(r, [request[r] EXCEPT !.decided = <<i, new>>])
                      /\ UNCHANGED unsettled
                 ELSE /\ Becomes(r, Told(r, i))
                      /\ IF At(r, "saved") THEN Unless(r, unsettled \ {i}) ELSE UNCHANGED unsettled
              /\ UNCHANGED <<status, entry>>
    BY DEF Recompute
  <1> DEFINE old == IF request[r].seen[i] = Blank THEN StatusFor(r, i) ELSE request[r].seen[i]
             new == Derived(View(r), i, old)
             deciding == [request[r] EXCEPT !.decided = <<i, new>>]
  <1>3. i \in Invoice
    BY <1>1, CopyFields
  <1>4. deciding \in Copy /\ Told(r, i) \in Copy
    <2>1. new \in Status
      BY DerivedTyped
    <2> HIDE DEF new
    <2>2. deciding \in Copy
      BY <1>1, <1>3, <2>1 DEF Copy
    <2> QED
      BY <1>1, <1>3, <2>2, ToldTyped
  <1>5. request' \in [Request -> Copy \cup {Idle}]
    <2>1. Becomes(r, deciding) \/ Becomes(r, Told(r, i))
      BY <1>2
    <2> HIDE DEF deciding
    <2> QED
      BY <1>4, <2>1, BecomesTyped
  <1>6. unsettled' \subseteq Invoice
    <2>1. unsettled' = unsettled \/ Unless(r, unsettled \ {i})
      BY <1>2
    <2>2. unsettled \ {i} \in SUBSET Invoice
      BY DEF Typed
    <2> QED
      BY <1>1, <2>1, <2>2, UnlessTyped DEF Typed
  <1>7. status' = status /\ entry' = entry
    BY <1>2
  <1> QED
    BY <1>5, <1>6, <1>7 DEF Typed

LEMMA StoreTyped ==
    ASSUME Typed, NEW r \in Request, Store(r)
    PROVE  Typed'
  <1> DEFINE i == request[r].decided[1]
             new == request[r].decided[2]
             writing == [Told(r, i) EXCEPT !.wrote[i] = new]
  <1>1. Busy(r) /\ request[r] \in Copy /\ i \in Invoice /\ new \in Status
    BY BusyCopy, CopyFields DEF Store, Busy
  <1>2. Told(r, i) \in Copy
    BY <1>1, ToldTyped
  <1>3. /\ \/ Becomes(r, writing) /\ UNCHANGED <<status, unsettled>>
           \/ /\ status' = [status EXCEPT ![i] = new] /\ Becomes(r, Told(r, i))
              /\ Unless(r, unsettled \ {i})
        /\ entry' = entry
    BY DEF Store
  <1> HIDE DEF i, new
  <1>4. writing \in Copy
    BY <1>1, <1>2 DEF Copy
  <1> HIDE DEF writing
  <1>5. request' \in [Request -> Copy \cup {Idle}]
    BY <1>2, <1>3, <1>4, BecomesTyped
  <1>6. unsettled' \subseteq Invoice
    <2>1. unsettled \ {i} \in SUBSET Invoice
      BY DEF Typed
    <2> QED
      BY <1>1, <1>3, <2>1, UnlessTyped DEF Typed
  <1> QED
    BY <1>1, <1>3, <1>5, <1>6 DEF Typed

LEMMA CommitTyped ==
    ASSUME Typed, NEW r \in Request, CommitRequest(r)
    PROVE  Typed'
  <1>1. Busy(r)
    BY DEF CommitRequest, At, Busy
  <1>2. unsettled' \subseteq Invoice
    <2>1. unsettled \ request[r].told \in SUBSET Invoice
      BY DEF Typed
    <2> QED
      BY <1>1, <2>1, UnlessTyped DEF CommitRequest
  <1>3. status' \in [Invoice -> Status]
    BY <1>1, StatusForTyped DEF CommitRequest
  <1> QED
    BY <1>2, <1>3, ViewTyped, BecomesTyped DEF CommitRequest, Done, Typed

LEMMA EndTyped ==
    ASSUME Typed, NEW r \in Request, End(r)
    PROVE  Typed'
  BY BecomesTyped DEF End, Done, Typed

LEMMA OverwriteTyped ==
    ASSUME Typed, NEW i \in Invoice, Overwrite(i)
    PROVE  Typed'
  <1>1. \A s \in Request : request[s] # Idle => [request[s] EXCEPT !.alone = FALSE] \in Copy
    BY BusyCopy DEF Copy, Busy
  <1>2. request' \in [Request -> Copy \cup {Idle}]
    BY <1>1 DEF Overwrite, Meets, Typed
  <1>3. status' \in [Invoice -> Status]
    BY InvoicesAssumption DEF Overwrite, Typed
  <1> QED
    BY <1>2, <1>3 DEF Overwrite, Typed

LEMMA NextTyped ==
    ASSUME Typed, [PaymentsNext]_paymentsVars
    PROVE  Typed'
  <1>1. ASSUME NEW r \in Request, ReceivePayment(r) \/ IssueNote(r)
        PROVE  Typed'
    BY <1>1, AskTyped, PassesTyped, AllocateTyped, InsertTyped, InsertLegacyTyped
    DEF ReceivePayment, IssueNote, AskPayment, AskSeveral, AskLegacy, AskCreditNote, AskDebitNote,
        Wanted, CheckPayment, CheckCreditNote, CheckDebitNote, InsertPayment, InsertCreditNote,
        InsertDebitNote
  <1>2. ASSUME NEW r \in Request, ChangePayment(r) \/ ChangeNote(r)
        PROVE  Typed'
    <2>1. "REVERSED" \in EntryStatus /\ "REFUNDED" \in EntryStatus
      BY DEF EntryStatus, Undone
    <2>2. ReversePayment(r) \/ RefundPayment(r) => Typed'
      BY <2>1, UndoTyped DEF ReversePayment, RefundPayment
    <2> QED
      BY <1>2, <2>2, LoadTyped, ReverseByApiTyped, CancelNoteTyped, ValidateTyped, EditTyped,
         DeleteTyped, DestroyTyped, PatchTyped
      DEF ChangePayment, ChangeNote, LoadPayment, LoadCreditNote, LoadDebitNote,
          CancelCreditNote, CancelDebitNote
  <1>3. ASSUME NEW r \in Request, Finish(r)
        PROVE  Typed'
    BY <1>3, RecomputeTyped, StoreTyped, CommitTyped, EndTyped DEF Finish
  <1>4. CASE UNCHANGED paymentsVars
    BY <1>4 DEF paymentsVars, Typed
  <1> QED
    BY <1>1, <1>2, <1>3, <1>4, OverwriteTyped DEF PaymentsNext

-----------------------------------------------------------------------------
(* What a request holds.  A row that nobody has inserted is blank, a request *)
(* that has loaded one has loaded what exists, and one that met no other has *)
(* it as it still is, but for the amount its form sets.                      *)

Inserts(c, table) == c.on = NoEntry \/ (c.stage = "open" /\ table[c.on].status = "unborn")

HeldBy(c, table) ==
    /\ Exists(c.row)
    /\ c.on = NoEntry => c.stage \in {"loaded", "checked"}
    /\ c.on # NoEntry /\ c.stage # "open" => table[c.on].status # "unborn"
    /\ c.stage = "open" => c.row.status \in Undone \/ table[c.on].status = "unborn"
    /\ c.stage # "open" => \A i \in Invoice : c.wrote[i] = Blank
    /\ \A i \in Invoice : c.wrote[i] # Blank => i \in c.told
    /\ c.stage \in {"loaded", "checked"} => c.todo = {} /\ c.told = {} /\ c.decided = <<>>
    /\ c.decided # <<>> => c.decided[1] \in c.todo
    /\ c.todo \cap c.told = {}
    /\ c.alone /\ c.on # NoEntry /\ c.stage = "loaded" => table[c.on] = c.row
    /\ c.alone /\ c.on # NoEntry /\ c.stage = "checked" =>
          c.row = [table[c.on] EXCEPT !.amount = c.row.amount]
    /\ c.on = NoEntry /\ c.stage = "loaded" =>
          c.row.share = NoShare /\ (c.select # {} => c.row.invoice = NoInvoice)
    /\ Inserts(c, table) =>
          /\ Counts(c.row)
          /\ c.row.share = NoShare \/ c.row.invoice = NoInvoice
          /\ c.select # {} => c.row.kind = "payment"

Rows(c, table) == UNION {InvoicesOf(table[x]) : x \in {c.on} \ {NoEntry}}
SphereIn(c, table) == InvoicesOf(c.row) \cup c.select \cup c.todo \cup c.told \cup Rows(c, table)

ApartFrom(c, d, table) ==
    SphereIn(c, table) \cap SphereIn(d, table) = {} /\ (c.on = NoEntry \/ c.on # d.on)

RowsBegin == \A x \in Entry : entry[x].status = "unborn" => entry[x] = NoRow
Held == \A r \in Request : Busy(r) => HeldBy(request[r], entry)
Apart ==
    \A r, s \in Request : r # s /\ Busy(r) /\ Busy(s) /\ request[r].alone =>
        ApartFrom(request[r], request[s], entry)
OpenApart ==
    \A r, s \in Request : r # s /\ At(r, "open") /\ At(s, "open") => request[r].on # request[s].on

Base == Typed /\ RowsBegin /\ Held /\ Apart /\ OpenApart

LEMMA SphereIs == ASSUME NEW c PROVE Sphere(c) = SphereIn(c, entry)
  BY DEF Sphere, SphereIn, Rows

LEMMA InitBase == PaymentsInit => Base
  BY InitTyped DEF PaymentsInit, Base, RowsBegin, Held, Apart, OpenApart, Busy, At

(* What a step that has to do with the invoices W does to requests other *)
(* than those of A, and to what they have to do with.                    *)
Marked(s) == request[s] # Idle /\ request'[s] = [request[s] EXCEPT !.alone = FALSE]

Outside(A, W) ==
    /\ \A s \in Request \ A : request'[s] = request[s] \/ Marked(s)
    /\ \A s \in Request \ A : request'[s] # Idle /\ request'[s].alone =>
            Sphere(request[s]) \cap W = {}
    /\ \A s \in Request \ A, x \in Entry :
            /\ Busy(s) /\ request[s].on = x
            /\ request'[s].alone \/ At(s, "open") \/ \E a \in A : request[a].alone
            => entry'[x] = entry[x]
    /\ \A x \in Entry :
            /\ entry'[x].status = "unborn" => entry'[x] = entry[x]
            /\ entry'[x] = entry[x] \/ InvoicesOf(entry[x]) \cup InvoicesOf(entry'[x]) \subseteq W
    /\ \A i \in Invoice \ W : status'[i] = status[i] /\ (i \in unsettled => i \in unsettled')

(* A step of r that leaves alone who is alone with other invoices. *)
Apartly(r) == \E W : Outside({r}, W)

(* Other requests hold what they held. *)
LEMMA OthersGoOn ==
    ASSUME Typed, NEW A \in SUBSET Request, NEW W, Outside(A, W),
           NEW s \in Request \ A, request'[s] # Idle
    PROVE  /\ Busy(s) /\ request[s] \in Copy /\ request'[s] \in Copy
           /\ request'[s].on = request[s].on /\ request'[s].row = request[s].row
           /\ request'[s].select = request[s].select /\ request'[s].stage = request[s].stage
           /\ request'[s].seen = request[s].seen /\ request'[s].todo = request[s].todo
           /\ request'[s].decided = request[s].decided /\ request'[s].told = request[s].told
           /\ request'[s].wrote = request[s].wrote
           /\ request'[s].alone => request[s].alone /\ request'[s] = request[s]
  <1>1. request[s] \in Copy
    BY DEF Outside, Marked, Typed
  <1>2. Busy(s)
    BY <1>1, CopyFields DEF Busy
  <1>3. CASE request'[s] = request[s]
    BY <1>1, <1>2, <1>3
  <1>4. CASE request'[s] = [request[s] EXCEPT !.alone = FALSE]
    BY <1>1, <1>2, <1>4 DEF Copy
  <1> QED
    BY <1>3, <1>4 DEF Outside, Marked

LEMMA OthersHeld ==
    ASSUME Base, NEW A \in SUBSET Request, NEW W, Outside(A, W),
           NEW s \in Request \ A, request'[s] # Idle
    PROVE  HeldBy(request'[s], entry')
  <1> DEFINE c == request[s]
             d == request'[s]
  <1>1. /\ c \in Copy /\ HeldBy(c, entry)
        /\ d.on = c.on /\ d.row = c.row /\ d.select = c.select /\ d.stage = c.stage
        /\ d.todo = c.todo /\ d.decided = c.decided /\ d.told = c.told /\ d.wrote = c.wrote
        /\ d.alone => c.alone
        /\ c.on # NoEntry => c.on \in Entry
    BY OthersGoOn, CopyFields DEF Base, Held
  <1>2. c.on # NoEntry /\ (d.alone \/ c.stage = "open") => entry'[c.on] = entry[c.on]
    <2>1. Busy(s) /\ (c.stage = "open" => At(s, "open"))
      BY OthersGoOn DEF Base, At, Busy
    <2>2. \A x \in Entry :
              /\ Busy(s) /\ request[s].on = x
              /\ request'[s].alone \/ At(s, "open")
              => entry'[x] = entry[x]
      BY DEF Outside
    <2> QED
      BY <1>1, <2>1, <2>2
  <1>3. c.on # NoEntry /\ entry'[c.on].status = "unborn" => entry[c.on].status = "unborn"
    BY <1>1 DEF Outside
  <1> HIDE DEF c, d
  <1>4. Inserts(d, entry') => Inserts(c, entry)
    BY <1>1, <1>2 DEF Inserts, HeldBy
  <1>5. /\ Exists(d.row)
        /\ d.on = NoEntry => d.stage \in {"loaded", "checked"}
        /\ d.on # NoEntry /\ d.stage # "open" => entry'[d.on].status # "unborn"
        /\ d.stage = "open" => d.row.status \in Undone \/ entry'[d.on].status = "unborn"
    BY <1>1, <1>2, <1>3 DEF HeldBy
  <1>6. /\ d.stage # "open" => \A i \in Invoice : d.wrote[i] = Blank
        /\ \A i \in Invoice : d.wrote[i] # Blank => i \in d.told
        /\ d.stage \in {"loaded", "checked"} => d.todo = {} /\ d.told = {} /\ d.decided = <<>>
        /\ d.decided # <<>> => d.decided[1] \in d.todo
        /\ d.todo \cap d.told = {}
    BY <1>1 DEF HeldBy
  <1>7. /\ d.alone /\ d.on # NoEntry /\ d.stage = "loaded" => entry'[d.on] = d.row
        /\ d.alone /\ d.on # NoEntry /\ d.stage = "checked" =>
              d.row = [entry'[d.on] EXCEPT !.amount = d.row.amount]
        /\ d.on = NoEntry /\ d.stage = "loaded" =>
              d.row.share = NoShare /\ (d.select # {} => d.row.invoice = NoInvoice)
    BY <1>1, <1>2 DEF HeldBy
  <1>8. Inserts(d, entry') =>
          /\ Counts(d.row)
          /\ d.row.share = NoShare \/ d.row.invoice = NoInvoice
          /\ d.select # {} => d.row.kind = "payment"
    BY <1>1, <1>4 DEF HeldBy
  <1> QED
    BY <1>5, <1>6, <1>7, <1>8 DEF HeldBy, d

(* Where others still are. *)
LEMMA OthersSphere ==
    ASSUME Base, NEW A \in SUBSET Request, NEW W, Outside(A, W),
           NEW s \in Request \ A, request'[s] # Idle
    PROVE  /\ SphereIn(request'[s], entry') \subseteq SphereIn(request[s], entry) \cup W
           /\ request'[s].alone \/ (\E a \in A : request[a].alone) =>
                SphereIn(request'[s], entry') = SphereIn(request[s], entry)
           /\ request'[s].alone => SphereIn(request[s], entry) \cap W = {}
  <1> DEFINE c == request[s]
             d == request'[s]
  <1>1. /\ Busy(s) /\ d.on = c.on /\ d.row = c.row /\ d.select = c.select /\ d.todo = c.todo
        /\ d.told = c.told /\ (c.on # NoEntry => c.on \in Entry)
    BY OthersGoOn, CopyFields DEF Base
  <1>2. Rows(d, entry') \subseteq Rows(c, entry) \cup W
    BY <1>1 DEF Rows, Outside
  <1>3. d.alone \/ (\E a \in A : request[a].alone) => Rows(d, entry') = Rows(c, entry)
    BY <1>1 DEF Rows, Outside
  <1>4. d.alone => SphereIn(c, entry) \cap W = {}
    BY SphereIs DEF Outside
  <1> QED
    BY <1>1, <1>2, <1>3, <1>4 DEF SphereIn

LEMMA OthersApart ==
    ASSUME Base, NEW A \in SUBSET Request, NEW W, Outside(A, W),
           NEW r \in Request \ A, NEW s \in Request \ A, r # s,
           request'[r] # Idle, request'[s] # Idle, request'[r].alone
    PROVE  ApartFrom(request'[r], request'[s], entry')
  <1>1. /\ Busy(r) /\ Busy(s) /\ request[r].alone
        /\ request'[r].on = request[r].on /\ request'[s].on = request[s].on
    BY OthersGoOn DEF Base
  <1>2. ApartFrom(request[r], request[s], entry)
    BY <1>1 DEF Base, Apart
  <1>3. /\ SphereIn(request'[r], entry') = SphereIn(request[r], entry)
        /\ SphereIn(request[r], entry) \cap W = {}
        /\ SphereIn(request'[s], entry') \subseteq SphereIn(request[s], entry) \cup W
    BY OthersSphere
  <1> QED
    BY <1>1, <1>2, <1>3 DEF ApartFrom

(* A step of one request keeps Base if that request is apart from the rest. *)
LEMMA StepBase ==
    ASSUME Base, Typed', NEW a \in Request, NEW W, Outside({a}, W),
           request'[a] # Idle =>
              /\ HeldBy(request'[a], entry')
              /\ \A s \in Request \ {a} : request'[s] # Idle =>
                    /\ request'[s].alone => ApartFrom(request'[s], request'[a], entry')
                    /\ request'[a].alone => ApartFrom(request'[a], request'[s], entry')
                    /\ At(s, "open") /\ request'[a].stage = "open" =>
                          request[s].on # request'[a].on
    PROVE  Base'
  <1>1. RowsBegin'
    BY DEF Base, RowsBegin, Outside
  <1>2. Held'
    <2> SUFFICES ASSUME NEW r \in Request, request'[r] # Idle
                 PROVE  HeldBy(request'[r], entry')
      BY DEF Held, Busy
    <2> QED
      BY OthersHeld
  <1>3. Apart'
    <2> SUFFICES ASSUME NEW r \in Request, NEW s \in Request, r # s,
                        request'[r] # Idle, request'[s] # Idle, request'[r].alone
                 PROVE  ApartFrom(request'[r], request'[s], entry')
      BY DEF Apart, Busy
    <2>1. CASE r # a /\ s # a
      BY <2>1, OthersApart
    <2> QED
      BY <2>1
  <1>4. OpenApart'
    <2> SUFFICES ASSUME NEW r \in Request, NEW s \in Request, r # s,
                        request'[r] # Idle, request'[s] # Idle,
                        request'[r].stage = "open", request'[s].stage = "open"
                 PROVE  request'[r].on # request'[s].on
      BY DEF OpenApart, At
    <2>1. \A t \in Request \ {a} : request'[t] # Idle /\ request'[t].stage = "open" =>
              At(t, "open") /\ request'[t].on = request[t].on
      BY OthersGoOn DEF At, Base, Busy
    <2>2. CASE r # a /\ s # a
      BY <2>1, <2>2 DEF Base, OpenApart
    <2> QED
      BY <2>1, <2>2
  <1> QED
    BY <1>1, <1>2, <1>3, <1>4 DEF Base

(* A step of a request on the row it has to do with, if any.  `x` is the row *)
(* it works on after the step: the one before it, or one nobody works on.    *)
Unclaimed(a, x) == \A s \in Request \ {a} : Busy(s) => request[s].on # x

(* A row nobody has inserted is no other request's, and no invoice's. *)
LEMMA UnbornUnclaimed ==
    ASSUME Base, NEW a \in Request, NEW x \in Entry, entry[x].status = "unborn",
           \A s \in Request : At(s, "open") => request[s].on # x
    PROVE  Unclaimed(a, x) /\ InvoicesOf(entry[x]) = {}
  <1>1. Unclaimed(a, x)
    <2> SUFFICES ASSUME NEW s \in Request, Busy(s), request[s].on = x
                 PROVE  FALSE
      BY DEF Unclaimed
    <2>1. HeldBy(request[s], entry) /\ request[s].on # NoEntry
      BY InvoicesAssumption DEF Base, Held
    <2> QED
      BY <2>1 DEF HeldBy, At, Busy
  <1>2. entry[x] = NoRow
    BY DEF Base, RowsBegin
  <1> QED
    BY <1>1, <1>2, InvoicesAssumption DEF InvoicesOf, NoRow, NoShare

(* A step that changes one row and one request. *)
LEMMA OutsideOne ==
    ASSUME Base, NEW a \in Request, Busy(a),
           \A s \in Request \ {a} : request'[s] = request[s],
           NEW x, x = request[a].on \/ Unclaimed(a, x),
           \A s \in Request \ {a} : At(s, "open") => request[s].on # x,
           \A y \in Entry : y # x => entry'[y] = entry[y],
           x \in Entry => 
              \/ entry'[x] = entry[x]
              \/ /\ entry'[x].status # "unborn"
                 /\ InvoicesOf(entry[x]) \cup InvoicesOf(entry'[x]) \subseteq Sphere(request[a]),
           \A i \in Invoice \ Sphere(request[a]) :
              status'[i] = status[i] /\ (i \in unsettled => i \in unsettled')
    PROVE  Outside({a}, Sphere(request[a]))
  <1>1. \A s \in Request \ {a} : request'[s] # Idle /\ request'[s].alone =>
            Sphere(request[s]) \cap Sphere(request[a]) = {}
    BY SphereIs DEF Base, Apart, ApartFrom, Busy
  <1>2. ASSUME NEW s \in Request \ {a}, NEW y \in Entry, Busy(s), request[s].on = y,
               request'[s].alone \/ At(s, "open") \/ request[a].alone
        PROVE  entry'[y] = entry[y]
    <2> SUFFICES ASSUME y = x PROVE FALSE
      OBVIOUS
    <2>1. CASE At(s, "open")
      BY <1>2, <2>1
    <2>2. CASE x = request[a].on
      <3>1. y # NoEntry
        BY InvoicesAssumption
      <3> QED
        BY <1>2, <2>1, <2>2, <3>1 DEF Base, Apart, ApartFrom
    <2> QED
      BY <1>2, <2>2 DEF Unclaimed
  <1> QED
    BY <1>1, <1>2 DEF Outside

(* The request itself, if it goes on within its sphere. *)
LEMMA GoesOn ==
    ASSUME Base, Typed', NEW a \in Request, Busy(a), Outside({a}, Sphere(request[a])),
           NEW c \in Copy, request' = [request EXCEPT ![a] = c],
           c.on = request[a].on \/ Unclaimed(a, c.on),
           c.stage = "open" => \A s \in Request \ {a} : At(s, "open") => request[s].on # c.on,
           c.alone => request[a].alone,
           SphereIn(c, entry') \subseteq Sphere(request[a]),
           HeldBy(c, entry')
    PROVE  Base'
  <1>1. request'[a] = c /\ \A s \in Request \ {a} : request'[s] = request[s]
    BY DEF Base, Typed
  <1>2. ASSUME NEW s \in Request \ {a}, request[s] # Idle, request[s].alone
        PROVE  ApartFrom(request[s], c, entry')
    <2>1. ApartFrom(request[s], request[a], entry)
      BY <1>2 DEF Base, Apart, Busy
    <2>2. SphereIn(request[s], entry') = SphereIn(request[s], entry)
      <3>1. /\ {a} \in SUBSET Request /\ request'[s] = request[s] /\ request'[s] # Idle
            /\ request'[s].alone
        BY <1>1, <1>2
      <3>2. SphereIn(request'[s], entry') = SphereIn(request[s], entry)
        BY <3>1, OthersSphere
      <3> QED
        BY <3>1, <3>2
    <2>3. request[s].on = NoEntry \/ request[s].on # c.on
      BY <1>2, <2>1 DEF ApartFrom, Unclaimed, Busy
    <2> QED
      BY <2>1, <2>2, <2>3, SphereIs DEF ApartFrom
  <1>3. ASSUME NEW s \in Request \ {a}, request[s] # Idle, c.alone
        PROVE  ApartFrom(c, request[s], entry')
    <2>1. ApartFrom(request[a], request[s], entry)
      BY <1>3 DEF Base, Apart, Busy
    <2>2. SphereIn(request[s], entry') = SphereIn(request[s], entry)
      <3>1. /\ {a} \in SUBSET Request /\ request'[s] = request[s] /\ request'[s] # Idle
            /\ request[a].alone
        BY <1>1, <1>3
      <3>2. SphereIn(request'[s], entry') = SphereIn(request[s], entry)
        BY <3>1, OthersSphere
      <3> QED
        BY <3>1, <3>2
    <2>3. c.on = NoEntry \/ c.on # request[s].on
      BY <1>3, <2>1 DEF ApartFrom, Unclaimed, Busy
    <2> QED
      BY <2>1, <2>2, <2>3, SphereIs DEF ApartFrom
  <1> QED
    BY <1>1, <1>2, <1>3, StepBase

(* A request that leaves changes nothing the others rely on. *)
LEMMA Finishes ==
    ASSUME Base, Typed', NEW a \in Request, NEW W, Outside({a}, W), request'[a] = Idle
    PROVE  Base'
  BY StepBase

-----------------------------------------------------------------------------
(* Each step keeps Base. *)

LEMMA BeginBase ==
    ASSUME Base, Typed', NEW r \in Request, NEW on \in Entry \cup {NoEntry}, NEW row \in Row,
           NEW select \in SUBSET Invoice, BeginRequest(r, on, row, select),
           on # NoEntry => row = entry[on] /\ Exists(row),
           on = NoEntry => Counts(row) /\ row.share = NoShare
                  /\ (select # {} => row.kind = "payment" /\ row.invoice = NoInvoice)
    PROVE  Base' /\ Apartly(r)
  <1> DEFINE ids == {x \in Entry : x = on}
             W == InvoicesOf(row) \cup select
             free == \A s \in Request : ~Meets(s, ids, W)
             c == [on |-> on, row |-> row, select |-> select, stage |-> "loaded",
                   alone |-> free,
                   seen |-> Fetched(InvoicesOf(row)), todo |-> {}, decided |-> <<>>,
                   told |-> {}, wrote |-> [i \in Invoice |-> Blank]]
  <1>1. /\ Enter(r, c, ids, W) /\ UNCHANGED <<status, entry, unsettled>>
        /\ request[r] = Idle
    BY DEF BeginRequest
  <1>2. /\ c.on = on /\ c.row = row /\ c.select = select /\ c.stage = "loaded"
        /\ c.alone = free /\ c.todo = {} /\ c.decided = <<>> /\ c.told = {}
        /\ c.wrote = [i \in Invoice |-> Blank]
    OBVIOUS
  <1>3. /\ request'[r] = c
        /\ \A s \in Request \ {r} :
              request'[s] = IF Meets(s, ids, W) THEN [request[s] EXCEPT !.alone = FALSE]
                            ELSE request[s]
    <2> HIDE DEF c, ids, W
    <2> QED
      BY <1>1 DEF Enter
  <1>4. ids = {on} \ {NoEntry}
    BY InvoicesAssumption
  <1>5. free <=> \A s \in Request : ~Meets(s, ids, W)
    OBVIOUS
  <1>6. SphereIn(c, entry) = W
    <2>1. Rows(c, entry) \subseteq InvoicesOf(row)
      BY <1>2 DEF Rows
    <2> HIDE DEF c
    <2> QED
      BY <1>2, <2>1 DEF SphereIn
  <1>7. on \in Entry => on # NoEntry
    BY InvoicesAssumption
  <1> HIDE DEF c, ids, W, free
  <1>8. \A s \in Request \ {r} : request[s] # Idle /\ ~Meets(s, ids, W) =>
            /\ SphereIn(request[s], entry) \cap W = {}
            /\ on # NoEntry => request[s].on # on
    BY <1>4, SphereIs DEF Meets
  <1>9. \A s \in Request \ {r} : request'[s] # Idle /\ request'[s].alone =>
            request[s] # Idle /\ request'[s] = request[s] /\ ~Meets(s, ids, W)
    <2> SUFFICES ASSUME NEW s \in Request \ {r}, request'[s] # Idle, request'[s].alone,
                        Meets(s, ids, W)
                 PROVE  FALSE
      BY <1>3
    <2>1. request[s] \in Copy
      BY DEF Meets, Base, Typed
    <2>2. [request[s] EXCEPT !.alone = FALSE].alone = FALSE
      BY <2>1 DEF Copy
    <2> QED
      BY <1>3, <2>2
  <1>10. Outside({r}, W)
    <2>1. \A s \in Request \ {r} : request'[s] = request[s] \/ Marked(s)
      BY <1>3 DEF Marked, Meets
    <2> QED
      BY <1>1, <1>8, <1>9, <2>1, SphereIs DEF Outside
  <1>11. HeldBy(c, entry)
    <2>1. (on # NoEntry => entry[on].status # "unborn") /\ Exists(row)
      BY DEF Exists, Counts, Absent
    <2>2. \A i \in Invoice : c.wrote[i] = Blank
      BY <1>2
    <2> QED
      BY <1>2, <2>1, <2>2 DEF HeldBy, Inserts
  <1>12. \A s \in Request \ {r} : request'[s] # Idle =>
            /\ request'[s].alone => ApartFrom(request'[s], c, entry)
            /\ c.alone => ApartFrom(c, request'[s], entry)
    <2> SUFFICES ASSUME NEW s \in Request \ {r}, request'[s] # Idle,
                        request'[s].alone \/ c.alone
                 PROVE  ApartFrom(request'[s], c, entry) /\ ApartFrom(c, request'[s], entry)
      OBVIOUS
    <2>1. ~Meets(s, ids, W) /\ request'[s] = request[s]
      BY <1>2, <1>3, <1>5, <1>9
    <2> QED
      BY <1>2, <1>6, <1>8, <2>1 DEF ApartFrom
  <1> QED
    <2>1. request'[r] = c /\ entry' = entry /\ c.stage # "open"
      BY <1>1, <1>2, <1>3
    <2> QED
      BY <1>10, <1>11, <1>12, <2>1, StepBase DEF Apartly

LEMMA AskBase ==
    ASSUME Base, Typed', NEW r \in Request, NEW asked \in SUBSET NewEntries, Ask(r, asked)
    PROVE  Base' /\ Apartly(r)
  <1>1. PICK new \in asked : BeginRequest(r, NoEntry, new.row, new.select)
    BY DEF Ask
  <1>2. /\ new.row \in Row /\ new.select \in SUBSET Invoice
        /\ new.row.share = NoShare
        /\ (new.select # {} => new.row.kind = "payment" /\ new.row.invoice = NoInvoice)
        /\ new.row.status \in {"COMPLETED", "ISSUED"}
    BY EntriesAssumption
  <1>3. Counts(new.row)
    BY <1>2 DEF Counts, Absent, Undone
  <1> QED
    BY <1>1, <1>2, <1>3, BeginBase

LEMMA LoadBase ==
    ASSUME Base, Typed', NEW r \in Request, NEW kinds, LoadKind(r, kinds)
    PROVE  Base' /\ Apartly(r)
  <1>1. PICK x \in Entry : Exists(entry[x]) /\ BeginRequest(r, x, entry[x], {})
    BY DEF LoadKind
  <1>2. entry[x] \in Row /\ {} \in SUBSET Invoice /\ x # NoEntry
    BY InvoicesAssumption DEF Base, Typed
  <1> QED
    BY <1>1, <1>2, BeginBase

(* A step that changes no row. *)
LEMMA QuietBase ==
    ASSUME Base, Typed', NEW a \in Request, Busy(a), NEW c \in Copy, Becomes(a, c),
           entry' = entry,
           \A i \in Invoice \ Sphere(request[a]) :
              status'[i] = status[i] /\ (i \in unsettled => i \in unsettled'),
           c.on = request[a].on \/ Unclaimed(a, c.on),
           c.stage = "open" => \A s \in Request \ {a} : At(s, "open") => request[s].on # c.on,
           c.alone => request[a].alone,
           SphereIn(c, entry) \subseteq Sphere(request[a]),
           HeldBy(c, entry)
    PROVE  Base' /\ Apartly(a)
  <1>1. \A s \in Request \ {a} : request'[s] = request[s]
    BY DEF Becomes, Base, Typed
  <1>2. \E x : Unclaimed(a, x) /\ x \notin Entry
               /\ \A s \in Request \ {a} : At(s, "open") => request[s].on # x
    <2> DEFINE x == CHOOSE x : x \notin Entry \cup {NoEntry}
    <2>1. x \notin Entry \cup {NoEntry}
      BY NoSetContainsEverything
    <2> HIDE DEF x
    <2>2. \A s \in Request : Busy(s) => request[s].on # x
      BY <2>1, BusyCopy, CopyFields DEF Base
    <2>3. \A s \in Request : At(s, "open") => Busy(s)
      BY DEF At, Busy
    <2> QED
      BY <2>1, <2>2, <2>3 DEF Unclaimed
  <1>3. Outside({a}, Sphere(request[a]))
    BY <1>1, <1>2, OutsideOne
  <1> QED
    BY <1>3, GoesOn DEF Becomes, Apartly

LEMMA PassesBase ==
    ASSUME Base, Typed', NEW r \in Request, Passes(r)
    PROVE  Base' /\ Apartly(r)
  <1> DEFINE c == [request[r] EXCEPT !.stage = "checked"]
  <1>1. /\ Busy(r) /\ request[r] \in Copy /\ HeldBy(request[r], entry)
        /\ request[r].stage = "loaded" /\ request[r].on = NoEntry
    BY BusyCopy DEF Passes, At, Busy, IsNew, Base, Held
  <1>2. /\ c \in Copy /\ c.on = NoEntry /\ c.row = request[r].row /\ c.select = request[r].select
        /\ c.stage = "checked" /\ c.alone = request[r].alone /\ c.todo = request[r].todo
        /\ c.decided = request[r].decided /\ c.told = request[r].told
        /\ c.wrote = request[r].wrote
    BY <1>1 DEF Copy
  <1>3. Becomes(r, c) /\ UNCHANGED <<status, entry, unsettled>>
    BY DEF Passes
  <1> HIDE DEF c
  <1>4. HeldBy(c, entry)
    BY <1>1, <1>2 DEF HeldBy, Inserts
  <1>5. SphereIn(c, entry) \subseteq Sphere(request[r])
    BY <1>1, <1>2, SphereIs DEF SphereIn, Rows
  <1> QED
    BY <1>1, <1>2, <1>3, <1>4, <1>5, QuietBase

LEMMA AllocateBase ==
    ASSUME Base, Typed', NEW r \in Request, Allocate(r)
    PROVE  Base' /\ Apartly(r)
  <1> DEFINE shares == Shares(r)
             paid == {i \in Invoice : shares[i] > 0}
             some == [request[r] EXCEPT !.stage = "checked", !.seen = Fetched(paid),
                                        !.row.share = shares]
             one(i) == [request[r] EXCEPT !.stage = "checked", !.seen = Fetched(paid),
                                          !.row.invoice = i]
  <1>1. /\ UNCHANGED <<status, entry, unsettled>>
        /\ \/ Becomes(r, some)
           \/ \E i \in Invoice : paid = {i} /\ Becomes(r, one(i))
    BY DEF Allocate
  <1>2. /\ Busy(r) /\ request[r] \in Copy /\ request[r].row \in Row /\ HeldBy(request[r], entry)
        /\ request[r].stage = "loaded" /\ request[r].on = NoEntry /\ request[r].select # {}
    BY BusyCopy, CopyFields DEF Allocate, At, Busy, IsNew, Base, Held
  <1>3. /\ shares \in [Invoice -> Nat] /\ Fetched(paid) \in [Invoice -> Status \cup {Blank}]
        /\ paid \subseteq request[r].select
    <2>1. shares \in [Invoice -> Nat] /\ \A i \in Invoice : 
            shares[i] = AtMost(Owed(r)[i],
               AtLeastZero(request[r].row.amount - SumFunctionOnSet(Owed(r), DueBefore(i))))
      BY <1>2, SharesAre DEF Base
    <2>2. \A i \in Invoice : i \notin request[r].select => Owed(r)[i] = 0
      BY DEF Owed, Open
    <2>3. request[r].row.amount \in Int /\ \A i \in Invoice : SumFunctionOnSet(Owed(r), DueBefore(i)) \in Nat
      BY <1>2, RowFields, OwedTyped DEF DueBefore, Base
    <2>4. \A i \in Invoice : i \notin request[r].select => shares[i] = 0
      BY <2>1, <2>2, <2>3 DEF AtMost, AtLeastZero
    <2> QED
      BY <2>1, <2>4, FetchedTyped DEF Base
  <1>4. ASSUME NEW c \in Copy, Becomes(r, c), c.on = NoEntry, c.select = request[r].select,
               c.stage = "checked", c.alone = request[r].alone, c.todo = request[r].todo,
               c.decided = request[r].decided, c.told = request[r].told,
               c.wrote = request[r].wrote, Counts(c.row), c.row.kind = request[r].row.kind,
               c.row.share = NoShare \/ c.row.invoice = NoInvoice,
               InvoicesOf(c.row) \subseteq InvoicesOf(request[r].row) \cup request[r].select
        PROVE  Base' /\ Apartly(r)
    <2>1. HeldBy(c, entry)
      <3>1. Exists(c.row)
        BY <1>4 DEF Exists, Counts
      <3> QED
        BY <1>2, <1>4, <3>1 DEF HeldBy, Inserts
    <2>2. SphereIn(c, entry) \subseteq Sphere(request[r])
      BY <1>2, <1>4, SphereIs DEF SphereIn, Rows
    <2> QED
      BY <1>1, <1>2, <1>4, <2>1, <2>2, QuietBase
  <1> HIDE DEF shares, paid
  <1>5. /\ Counts(request[r].row) /\ request[r].row.invoice = NoInvoice
        /\ request[r].row.share = NoShare
    BY <1>2 DEF HeldBy, Inserts
  <1>6. CASE Becomes(r, some)
    <2>1. /\ some \in Copy /\ some.on = NoEntry /\ some.select = request[r].select
          /\ some.stage = "checked" /\ some.alone = request[r].alone
          /\ some.todo = request[r].todo /\ some.decided = request[r].decided
          /\ some.told = request[r].told /\ some.wrote = request[r].wrote
          /\ some.row = [request[r].row EXCEPT !.share = shares]
      BY <1>2, <1>3 DEF Copy, Row
    <2>2. /\ some.row.share = shares /\ some.row.invoice = NoInvoice
          /\ some.row.kind = request[r].row.kind /\ some.row.status = request[r].row.status
      BY <1>2, <1>5, <2>1 DEF Row
    <2> HIDE DEF some
    <2>3. InvoicesOf(some.row) \subseteq InvoicesOf(request[r].row) \cup request[r].select
      BY <1>3, <2>2, InvoicesAssumption DEF InvoicesOf, paid
    <2>4. Counts(some.row)
      BY <1>5, <2>2 DEF Counts
    <2> QED
      BY <1>4, <1>6, <2>1, <2>2, <2>3, <2>4
  <1>7. ASSUME NEW i \in Invoice, paid = {i}, Becomes(r, one(i))
        PROVE  Base' /\ Apartly(r)
    <2> DEFINE c == one(i)
    <2>1. /\ c \in Copy /\ c.on = NoEntry /\ c.select = request[r].select
          /\ c.stage = "checked" /\ c.alone = request[r].alone
          /\ c.todo = request[r].todo /\ c.decided = request[r].decided
          /\ c.told = request[r].told /\ c.wrote = request[r].wrote
          /\ c.row = [request[r].row EXCEPT !.invoice = i]
      BY <1>2, <1>3 DEF Copy, Row
    <2>2. /\ c.row.share = NoShare /\ c.row.invoice = i
          /\ c.row.kind = request[r].row.kind /\ c.row.status = request[r].row.status
      BY <1>2, <1>5, <2>1 DEF Row
    <2>3. Becomes(r, c)
      BY <1>7
    <2> HIDE DEF c
    <2>4. InvoicesOf(c.row) \subseteq InvoicesOf(request[r].row) \cup request[r].select
      BY <1>3, <1>7, <2>2 DEF InvoicesOf, NoShare
    <2>5. Counts(c.row)
      BY <1>5, <2>2 DEF Counts
    <2> QED
      BY <1>4, <2>1, <2>2, <2>3, <2>4, <2>5
  <1> QED
    BY <1>1, <1>6, <1>7

LEMMA InsertBase ==
    ASSUME Base, Typed', NEW r \in Request, Insert(r)
    PROVE  Base' /\ Apartly(r)
  <1>1. PICK x \in Entry :
          /\ At(r, "checked") /\ IsNew(r) /\ entry[x].status = "unborn"
          /\ \A s \in Request : At(s, "open") => request[s].on # x
          /\ Becomes(r, [request[r] EXCEPT !.stage = "open", !.on = x,
                                           !.todo = InvoicesOf(request[r].row)])
          /\ UNCHANGED <<status, entry, unsettled>>
    BY DEF Insert
  <1> DEFINE c == [request[r] EXCEPT !.stage = "open", !.on = x,
                                     !.todo = InvoicesOf(request[r].row)]
  <1>2. /\ Busy(r) /\ request[r] \in Copy /\ HeldBy(request[r], entry)
        /\ request[r].stage = "checked" /\ request[r].on = NoEntry
    BY <1>1, BusyCopy DEF At, Busy, IsNew, Base, Held
  <1>3. /\ c \in Copy /\ c.on = x /\ c.row = request[r].row /\ c.select = request[r].select
        /\ c.stage = "open" /\ c.alone = request[r].alone /\ c.todo = InvoicesOf(c.row)
        /\ c.decided = request[r].decided /\ c.told = request[r].told
        /\ c.wrote = request[r].wrote
    BY <1>2, InvoicesOfRow DEF Copy
  <1>4. Becomes(r, c)
    BY <1>1
  <1>5. x # NoEntry /\ Unclaimed(r, x) /\ InvoicesOf(entry[x]) = {}
    BY <1>1, UnbornUnclaimed, InvoicesAssumption
  <1> HIDE DEF c
  <1>6. HeldBy(c, entry)
    BY <1>1, <1>2, <1>3, <1>5 DEF HeldBy, Inserts
  <1>7. SphereIn(c, entry) \subseteq Sphere(request[r])
    BY <1>2, <1>3, <1>5, SphereIs DEF SphereIn, Rows
  <1>8. c.on = request[r].on \/ Unclaimed(r, c.on)
    BY <1>3, <1>5
  <1>9. \A s \in Request \ {r} : At(s, "open") => request[s].on # c.on
    BY <1>1, <1>3
  <1> QED
    BY <1>1, <1>2, <1>3, <1>4, <1>6, <1>7, <1>8, <1>9, QuietBase

(* What a copy saves are its columns and the allocations among the rows. *)
LEMMA SavedIs ==
    ASSUME Typed, NEW r \in Request, Busy(r), ~IsNew(r), NEW row \in Row
    PROVE  /\ Saved(r, row) \in Row
           /\ Saved(r, row).kind = row.kind /\ Saved(r, row).status = row.status
           /\ Saved(r, row).invoice = row.invoice /\ Saved(r, row).amount = row.amount
           /\ Saved(r, row).share = IF Exists(entry[request[r].on])
                                    THEN entry[request[r].on].share ELSE NoShare
           /\ InvoicesOf(Saved(r, row)) \subseteq InvoicesOf(row) \cup InvoicesOf(entry[request[r].on])
  <1>1. Saved(r, row) \in Row
    BY OnEntry, SavedTyped
  <1>2. /\ Saved(r, row).kind = row.kind /\ Saved(r, row).status = row.status
        /\ Saved(r, row).invoice = row.invoice /\ Saved(r, row).amount = row.amount
        /\ Saved(r, row).share = IF Exists(entry[request[r].on])
                                 THEN entry[request[r].on].share ELSE NoShare
    BY DEF Saved, Row
  <1>3. InvoicesOf(Saved(r, row)) \subseteq InvoicesOf(row) \cup InvoicesOf(entry[request[r].on])
    BY <1>2 DEF InvoicesOf, NoShare
  <1> QED
    BY <1>1, <1>2, <1>3

(* A request has to do with the invoices it holds, selected, has told and *)
(* has to tell.                                                           *)
LEMMA SphereParts ==
    ASSUME Typed, NEW r \in Request, Busy(r)
    PROVE  /\ InvoicesOf(request[r].row) \subseteq Sphere(request[r])
           /\ request[r].select \subseteq Sphere(request[r])
           /\ request[r].todo \subseteq Sphere(request[r])
           /\ request[r].told \subseteq Sphere(request[r])
           /\ request[r].on \in Entry => InvoicesOf(entry[request[r].on]) \subseteq Sphere(request[r])
  BY InvoicesAssumption DEF Sphere

LEMMA OwnInvoice ==
    ASSUME NEW row
    PROVE  {i \in Invoice : row.invoice = i} \subseteq InvoicesOf(row)
  BY DEF InvoicesOf

LEMMA SaveAsBase ==
    ASSUME Base, Typed', NEW r \in Request, NEW new \in Undone,
           NEW todo \in SUBSET InvoicesOf(request[r].row),
           NEW known \in [Invoice -> Status \cup {Blank}], SaveAs(r, new, todo, known),
           unsettled \subseteq unsettled'
    PROVE  Base' /\ Apartly(r)
  <1> DEFINE row == [request[r].row EXCEPT !.status = new]
             c == [request[r] EXCEPT !.stage = "open", !.row = Saved(r, row),
                                     !.todo = todo, !.seen = known]
  <1>1. /\ Becomes(r, c) /\ UNCHANGED <<status, entry>> /\ FreeEntry(r)
        /\ At(r, "loaded") /\ ~IsNew(r)
    BY DEF SaveAs
  <1>2. /\ Busy(r) /\ request[r] \in Copy /\ request[r].row \in Row /\ request[r].on \in Entry
        /\ HeldBy(request[r], entry) /\ request[r].stage = "loaded" /\ Typed
    BY <1>1, BusyCopy, CopyFields, OnEntry DEF At, Busy, Base, Held
  <1>3. /\ row \in Row /\ row.status = new /\ row.invoice = request[r].row.invoice
        /\ row.share = request[r].row.share
    <2>1. new \in EntryStatus
      BY DEF EntryStatus
    <2> QED
      BY <1>2, <2>1 DEF Row
  <1>4. InvoicesOf(row) = InvoicesOf(request[r].row)
    BY <1>3 DEF InvoicesOf
  <1> HIDE DEF row
  <1>5. /\ Saved(r, row) \in Row /\ Saved(r, row).status = new
        /\ InvoicesOf(Saved(r, row)) \subseteq Sphere(request[r])
    BY <1>1, <1>2, <1>3, <1>4, SavedIs, SphereParts
  <1>6. todo \in SUBSET Invoice
    BY InvoicesOfRow
  <1>7. /\ c \in Copy /\ c.on = request[r].on /\ c.row = Saved(r, row) /\ c.stage = "open"
        /\ c.select = request[r].select /\ c.alone = request[r].alone /\ c.todo = todo
        /\ c.decided = request[r].decided /\ c.told = request[r].told
        /\ c.wrote = request[r].wrote
    BY <1>2, <1>5, <1>6 DEF Copy
  <1> HIDE DEF c
  <1>8. new \notin {"unborn"} /\ request[r].on # NoEntry
    BY <1>2, InvoicesAssumption DEF Undone
  <1>9. HeldBy(c, entry)
    <2>1. ~ Inserts(c, entry)
      BY <1>2, <1>7, <1>8 DEF HeldBy, Inserts
    <2>2. Exists(c.row)
      BY <1>5, <1>7 DEF Exists, Undone, Absent
    <2> QED
      BY <1>2, <1>5, <1>7, <1>8, <2>1, <2>2 DEF HeldBy
  <1>10. SphereIn(c, entry) \subseteq Sphere(request[r])
    <2>1. todo \subseteq Sphere(request[r]) /\ Rows(c, entry) \subseteq Sphere(request[r])
      BY <1>2, <1>7, SphereParts DEF Rows
    <2> QED
      BY <1>2, <1>5, <1>7, <2>1, SphereParts DEF SphereIn
  <1>11. \A s \in Request \ {r} : At(s, "open") => request[s].on # c.on
    BY <1>1, <1>7 DEF FreeEntry
  <1> QED
    BY <1>1, <1>2, <1>7, <1>9, <1>10, <1>11, QuietBase

LEMMA UndoBase ==
    ASSUME Base, Typed', NEW r \in Request, NEW new \in Undone, Undo(r, new)
    PROVE  Base' /\ Apartly(r)
  <1>1. PICK known \in {request[r].seen, Fetched({})} :
            SaveAs(r, new, InvoicesOf(request[r].row), known)
    BY DEF Undo
  <1>2. known \in [Invoice -> Status \cup {Blank}]
    BY FetchedTyped, BusyCopy, CopyFields DEF Undo, At, Busy, Base
  <1> QED
    BY <1>1, <1>2, SaveAsBase DEF Undo

LEMMA ReverseByApiBase ==
    ASSUME Base, Typed', NEW r \in Request, ReverseByApi(r)
    PROVE  Base' /\ Apartly(r)
  <1> DEFINE own == {i \in Invoice : request[r].row.invoice = i}
  <1>1. /\ SaveAs(r, "REVERSED", own, request[r].seen)
        /\ unsettled' = unsettled \cup (InvoicesOf(request[r].row) \ own)
    BY DEF ReverseByApi
  <1>2. request[r].seen \in [Invoice -> Status \cup {Blank}]
    BY BusyCopy, CopyFields DEF ReverseByApi, At, Busy, Base
  <1>3. "REVERSED" \in Undone /\ own \in SUBSET InvoicesOf(request[r].row)
    BY OwnInvoice DEF Undone
  <1> HIDE DEF own
  <1> QED
    BY <1>1, <1>2, <1>3, SaveAsBase

LEMMA CancelNoteBase ==
    ASSUME Base, Typed', NEW r \in Request, NEW kind, CancelNote(r, kind)
    PROVE  Base' /\ Apartly(r)
  <1>1. /\ SaveAs(r, "CANCELLED", InvoicesOf(request[r].row), Fetched({}))
        /\ unsettled' = unsettled
    BY DEF CancelNote
  <1>2. Fetched({}) \in [Invoice -> Status \cup {Blank}] /\ "CANCELLED" \in Undone
    BY FetchedTyped DEF Undone, Base
  <1> QED
    BY <1>1, <1>2, SaveAsBase

LEMMA ValidateBase ==
    ASSUME Base, Typed', NEW r \in Request, Validate(r)
    PROVE  Base' /\ Apartly(r)
  <1>1. PICK amount \in Amount :
            Becomes(r, [request[r] EXCEPT !.stage = "checked", !.row.amount = amount])
    BY DEF Validate
  <1> DEFINE c == [request[r] EXCEPT !.stage = "checked", !.row.amount = amount]
  <1>2. /\ Busy(r) /\ request[r] \in Copy /\ request[r].row \in Row /\ request[r].on \in Entry
        /\ HeldBy(request[r], entry) /\ request[r].stage = "loaded"
        /\ UNCHANGED <<status, entry, unsettled>>
    BY BusyCopy, CopyFields, OnEntry DEF Validate, At, Busy, Base, Held
  <1>3. amount \in Int /\ request[r].on # NoEntry
    BY <1>2, InvoicesAssumption
  <1>4. /\ c \in Copy /\ c.on = request[r].on /\ c.select = request[r].select
        /\ c.row = [request[r].row EXCEPT !.amount = amount]
        /\ c.row.amount = amount /\ c.row.invoice = request[r].row.invoice
        /\ c.row.share = request[r].row.share /\ c.row.status = request[r].row.status
        /\ c.stage = "checked" /\ c.alone = request[r].alone /\ c.todo = request[r].todo
        /\ c.decided = request[r].decided /\ c.told = request[r].told
        /\ c.wrote = request[r].wrote
    BY <1>2, <1>3 DEF Copy, Row
  <1>5. Becomes(r, c)
    BY <1>1
  <1> HIDE DEF c
  <1>6. InvoicesOf(c.row) = InvoicesOf(request[r].row)
    BY <1>4 DEF InvoicesOf
  <1>7. HeldBy(c, entry)
    <2>1. c.alone => c.row = [entry[c.on] EXCEPT !.amount = c.row.amount]
      BY <1>2, <1>3, <1>4 DEF HeldBy
    <2>2. Exists(c.row)
      BY <1>2, <1>4 DEF HeldBy, Exists
    <2> QED
      BY <1>2, <1>3, <1>4, <2>1, <2>2 DEF HeldBy, Inserts
  <1>8. SphereIn(c, entry) \subseteq Sphere(request[r])
    BY <1>4, <1>6, SphereIs DEF SphereIn, Rows
  <1> QED
    BY <1>2, <1>4, <1>5, <1>7, <1>8, QuietBase

(* An invoice is settled, and the rest goes on. *)
LEMMA ToldIs ==
    ASSUME Base, NEW r \in Request, Busy(r), NEW i \in request[r].todo
    PROVE  /\ Told(r, i) \in Copy
           /\ Told(r, i).on = request[r].on /\ Told(r, i).row = request[r].row
           /\ Told(r, i).select = request[r].select /\ Told(r, i).stage = request[r].stage
           /\ Told(r, i).alone = request[r].alone /\ Told(r, i).decided = <<>>
           /\ Told(r, i).todo = request[r].todo \ {i}
           /\ Told(r, i).told = request[r].told \cup {i}
           /\ Told(r, i).seen = [request[r].seen EXCEPT ![i] = Blank]
           /\ Told(r, i).wrote = request[r].wrote
           /\ HeldBy(Told(r, i), entry)
           /\ SphereIn(Told(r, i), entry) \subseteq Sphere(request[r])
  <1> DEFINE c == Told(r, i)
  <1>1. request[r] \in Copy /\ i \in Invoice /\ HeldBy(request[r], entry)
    BY BusyCopy, CopyFields DEF Base, Held
  <1>2. c \in Copy
    BY <1>1, ToldTyped DEF Base
  <1>3. /\ c.on = request[r].on /\ c.row = request[r].row
        /\ c.select = request[r].select /\ c.stage = request[r].stage
        /\ c.alone = request[r].alone /\ c.decided = <<>>
        /\ c.todo = request[r].todo \ {i}
        /\ c.told = request[r].told \cup {i}
        /\ c.seen = [request[r].seen EXCEPT ![i] = Blank]
        /\ c.wrote = request[r].wrote
    BY <1>1 DEF Told, Copy
  <1> HIDE DEF c
  <1>4. HeldBy(c, entry)
    <2>1. request[r].stage \notin {"loaded", "checked"}
      BY <1>1 DEF HeldBy
    <2> QED
      BY <1>1, <1>3, <2>1 DEF HeldBy, Inserts
  <1>5. SphereIn(c, entry) \subseteq Sphere(request[r])
    <2>1. Rows(c, entry) = Rows(request[r], entry)
      BY <1>3 DEF Rows
    <2> QED
      BY <1>3, <2>1, SphereIs DEF SphereIn
  <1> QED
    BY <1>2, <1>3, <1>4, <1>5 DEF c

LEMMA RecomputeBase ==
    ASSUME Base, Typed', NEW r \in Request, Recompute(r)
    PROVE  Base' /\ Apartly(r)
  <1>1. /\ Busy(r) /\ request[r] \in Copy /\ HeldBy(request[r], entry)
        /\ request[r].decided = <<>>
    BY BusyCopy DEF Recompute, Busy, Base, Held
  <1>2. PICK i \in request[r].todo :
          LET old == IF request[r].seen[i] = Blank THEN StatusFor(r, i) ELSE request[r].seen[i]
              new == Derived(View(r), i, old)
          IN  /\ IF new # old
                 THEN /\ Becomes(r, [request[r] EXCEPT !.decided = <<i, new>>])
                      /\ UNCHANGED unsettled
                 ELSE /\ Becomes(r, Told(r, i))
                      /\ IF At(r, "saved") THEN Unless(r, unsettled \ {i}) ELSE UNCHANGED unsettled
              /\ UNCHANGED <<status, entry>>
    BY DEF Recompute
  <1> DEFINE old == IF request[r].seen[i] = Blank THEN StatusFor(r, i) ELSE request[r].seen[i]
             new == Derived(View(r), i, old)
             c == [request[r] EXCEPT !.decided = <<i, new>>]
  <1>3. i \in Invoice /\ i \in Sphere(request[r]) /\ new \in Status
    <2>1. i \in Invoice
      BY <1>1, CopyFields
    <2>2. new \in Status
      BY DerivedTyped
    <2> QED
      BY <1>1, <2>1, <2>2, SphereParts DEF Base
  <1>4. /\ Becomes(r, c) \/ Becomes(r, Told(r, i))
        /\ UNCHANGED <<status, entry>>
        /\ unsettled' = unsettled \/ Unless(r, unsettled \ {i})
    BY <1>2
  <1> HIDE DEF new
  <1>5. \A j \in Invoice \ Sphere(request[r]) : j \in unsettled => j \in unsettled'
    BY <1>3, <1>4 DEF Unless
  <1>6. CASE Becomes(r, c)
    <2>1. /\ c \in Copy /\ c.on = request[r].on /\ c.row = request[r].row
          /\ c.select = request[r].select /\ c.stage = request[r].stage
          /\ c.alone = request[r].alone /\ c.decided = <<i, new>>
          /\ c.todo = request[r].todo /\ c.told = request[r].told
          /\ c.wrote = request[r].wrote
      BY <1>1, <1>3 DEF Copy
    <2> HIDE DEF c
    <2>2. request[r].stage \notin {"loaded", "checked"}
      BY <1>1 DEF HeldBy
    <2>3. HeldBy(c, entry)
      BY <1>1, <2>1, <2>2 DEF HeldBy, Inserts
    <2>4. SphereIn(c, entry) \subseteq Sphere(request[r])
      BY <2>1, SphereIs DEF SphereIn, Rows
    <2>5. c.stage = "open" => \A s \in Request \ {r} : At(s, "open") => request[s].on # c.on
      BY <1>1, <2>1 DEF Base, OpenApart, At, Busy
    <2> QED
      BY <1>1, <1>4, <1>5, <1>6, <2>1, <2>3, <2>4, <2>5, QuietBase
  <1>7. CASE Becomes(r, Told(r, i))
    <2> DEFINE d == Told(r, i)
    <2>1. /\ d \in Copy /\ d.on = request[r].on /\ d.stage = request[r].stage
          /\ d.alone = request[r].alone /\ HeldBy(d, entry)
          /\ SphereIn(d, entry) \subseteq Sphere(request[r])
      BY <1>1, ToldIs
    <2>2. Becomes(r, d)
      BY <1>7
    <2> HIDE DEF d
    <2>3. d.stage = "open" => \A s \in Request \ {r} : At(s, "open") => request[s].on # d.on
      BY <1>1, <2>1 DEF Base, OpenApart, At, Busy
    <2> QED
      BY <1>1, <1>4, <1>5, <2>1, <2>2, <2>3, QuietBase
  <1> QED
    BY <1>4, <1>6, <1>7

LEMMA StoreBase ==
    ASSUME Base, Typed', NEW r \in Request, Store(r)
    PROVE  Base' /\ Apartly(r)
  <1> DEFINE i == request[r].decided[1]
             new == request[r].decided[2]
             c == [Told(r, i) EXCEPT !.wrote[i] = new]
  <1>1. /\ Busy(r) /\ request[r] \in Copy /\ HeldBy(request[r], entry)
        /\ request[r].decided # <<>>
    BY BusyCopy DEF Store, Busy, Base, Held
  <1>2. i \in request[r].todo /\ i \in Invoice /\ new \in Status /\ i \in Sphere(request[r])
    <2>1. i \in request[r].todo
      BY <1>1 DEF HeldBy
    <2>2. new \in Status /\ i \in Invoice
      BY <1>1, CopyFields
    <2> QED
      BY <1>1, <2>1, <2>2, SphereParts DEF Base
  <1>3. /\ \/ At(r, "open") /\ Becomes(r, c) /\ UNCHANGED <<status, unsettled>>
           \/ /\ status' = [status EXCEPT ![i] = new] /\ Becomes(r, Told(r, i))
              /\ Unless(r, unsettled \ {i})
        /\ entry' = entry
    BY DEF Store
  <1> HIDE DEF i, new
  <1>4. /\ Told(r, i) \in Copy
        /\ Told(r, i).on = request[r].on /\ Told(r, i).row = request[r].row
        /\ Told(r, i).select = request[r].select /\ Told(r, i).stage = request[r].stage
        /\ Told(r, i).alone = request[r].alone /\ Told(r, i).decided = <<>>
        /\ Told(r, i).todo = request[r].todo \ {i}
        /\ Told(r, i).told = request[r].told \cup {i}
        /\ Told(r, i).wrote = request[r].wrote
        /\ HeldBy(Told(r, i), entry)
        /\ SphereIn(Told(r, i), entry) \subseteq Sphere(request[r])
    BY <1>1, <1>2, ToldIs
  <1>5. \A s \in Request \ {r} : At(s, "open") /\ request[r].stage = "open" =>
            request[s].on # request[r].on
    BY <1>1 DEF Base, OpenApart, At, Busy
  <1>6. \A j \in Invoice \ Sphere(request[r]) :
            status'[j] = status[j] /\ (j \in unsettled => j \in unsettled')
    BY <1>2, <1>3 DEF Unless, Base, Typed
  <1>7. CASE At(r, "open") /\ Becomes(r, c)
    <2>1. /\ c \in Copy /\ c.on = request[r].on /\ c.row = request[r].row
          /\ c.select = request[r].select /\ c.stage = "open"
          /\ c.alone = request[r].alone /\ c.decided = <<>>
          /\ c.todo = Told(r, i).todo /\ c.told = Told(r, i).told
          /\ c.wrote = [Told(r, i).wrote EXCEPT ![i] = new]
      BY <1>2, <1>4, <1>7 DEF Copy, At
    <2> HIDE DEF c
    <2>2. HeldBy(c, entry)
      <3>1. Told(r, i).stage = "open" /\ Told(r, i).wrote \in [Invoice -> Status \cup {Blank}]
        BY <1>4, <1>7, CopyFields DEF At
      <3>2. \A j \in Invoice : c.wrote[j] # Blank => j \in c.told
        BY <1>4, <2>1, <3>1 DEF HeldBy
      <3> QED
        BY <1>4, <2>1, <3>1, <3>2 DEF HeldBy, Inserts
    <2>3. SphereIn(c, entry) \subseteq Sphere(request[r])
      <3>1. SphereIn(c, entry) = SphereIn(Told(r, i), entry)
        BY <1>4, <2>1 DEF SphereIn, Rows
      <3> QED
        BY <1>4, <3>1
    <2> QED
      BY <1>1, <1>3, <1>5, <1>6, <1>7, <2>1, <2>2, <2>3, QuietBase DEF At
  <1>8. CASE Becomes(r, Told(r, i))
    BY <1>1, <1>3, <1>4, <1>5, <1>6, <1>8, QuietBase
  <1> QED
    BY <1>3, <1>7, <1>8
(* A step that saves, inserts or deletes the row x of the request. *)
LEMMA SavingBase ==
    ASSUME Base, Typed', NEW a \in Request, Busy(a), NEW x \in Entry,
           x = request[a].on \/ Unclaimed(a, x),
           \A s \in Request \ {a} : At(s, "open") => request[s].on # x,
           NEW row \in Row, entry' = [entry EXCEPT ![x] = row], row.status # "unborn",
           InvoicesOf(entry[x]) \cup InvoicesOf(row) \subseteq Sphere(request[a]),
           \A i \in Invoice \ Sphere(request[a]) :
              status'[i] = status[i] /\ (i \in unsettled => i \in unsettled'),
           NEW c \in Copy \cup {Idle}, Becomes(a, c),
           c # Idle => /\ c.on = x /\ c.stage = "saved" /\ c.alone = request[a].alone
                       /\ c.row = request[a].row /\ c.select = request[a].select
                       /\ c.told = {} /\ c.todo \subseteq Sphere(request[a]) /\ c.decided = <<>>
                       /\ c.wrote = request[a].wrote
                       /\ request[a].stage \in {"loaded", "checked"}
    PROVE  Base' /\ Apartly(a)
  <1>1. /\ entry'[x] = row /\ \A y \in Entry : y # x => entry'[y] = entry[y]
        /\ request' = [request EXCEPT ![a] = c] /\ request'[a] = c
        /\ \A s \in Request \ {a} : request'[s] = request[s]
    BY DEF Base, Typed, Becomes
  <1>2. Outside({a}, Sphere(request[a]))
    <2>1. /\ entry'[x].status # "unborn"
          /\ InvoicesOf(entry[x]) \cup InvoicesOf(entry'[x]) \subseteq Sphere(request[a])
      BY <1>1
    <2>2. \A y \in Entry : y # x => entry'[y] = entry[y]
      BY <1>1
    <2>3. x = request[a].on \/ Unclaimed(a, x)
      OBVIOUS
    <2>4. \A s \in Request \ {a} : At(s, "open") => request[s].on # x
      OBVIOUS
    <2>5. \A i \in Invoice \ Sphere(request[a]) :
              status'[i] = status[i] /\ (i \in unsettled => i \in unsettled')
      OBVIOUS
    <2>6. \A s \in Request \ {a} : request'[s] = request[s]
      BY <1>1
    <2>7. Base /\ a \in Request /\ Busy(a)
      OBVIOUS
    <2> QED
      BY ONLY <2>1, <2>2, <2>3, <2>4, <2>5, <2>6, <2>7, OutsideOne
  <1>3. CASE c = Idle
    BY <1>1, <1>2, <1>3, Finishes DEF Apartly
  <1>4. CASE c # Idle
    <2>1. c \in Copy /\ HeldBy(request[a], entry) /\ x # NoEntry
      BY <1>4, InvoicesAssumption DEF Base, Held
    <2>2. HeldBy(c, entry')
      BY <1>1, <1>4, <2>1 DEF HeldBy, Inserts
    <2>3. SphereIn(c, entry') \subseteq Sphere(request[a])
      <3>1. Rows(c, entry') \subseteq Sphere(request[a])
        BY <1>1, <1>4 DEF Rows
      <3>2. InvoicesOf(c.row) \cup c.select \subseteq Sphere(request[a])
        BY <1>4, SphereParts DEF Base
      <3> QED
        BY <1>4, <3>1, <3>2 DEF SphereIn
    <2> QED
      BY <1>1, <1>2, <1>4, <2>1, <2>2, <2>3, GoesOn DEF Apartly
  <1> QED
    BY <1>3, <1>4

(* What was unsettled stays so where the step settles nothing. *)
LEMMA UnlessKeeps ==
    ASSUME NEW r, NEW settled, Unless(r, settled), unsettled \subseteq settled
    PROVE  unsettled \subseteq unsettled'
  BY DEF Unless

LEMMA InsertLegacyBase ==
    ASSUME Base, Typed', NEW r \in Request, InsertLegacy(r)
    PROVE  Base' /\ Apartly(r)
  <1>1. PICK x \in Entry :
          /\ At(r, "loaded") /\ IsNew(r) /\ entry[x].status = "unborn"
          /\ \A s \in Request : At(s, "open") => request[s].on # x
          /\ entry' = [entry EXCEPT ![x] = request[r].row]
          /\ Becomes(r, [request[r] EXCEPT !.stage = "saved", !.on = x,
                                           !.todo = InvoicesOf(request[r].row)])
          /\ Unless(r, unsettled \cup InvoicesOf(request[r].row))
          /\ status' = status
    BY DEF InsertLegacy
  <1> DEFINE c == [request[r] EXCEPT !.stage = "saved", !.on = x,
                                     !.todo = InvoicesOf(request[r].row)]
  <1>2. /\ Busy(r) /\ request[r] \in Copy /\ request[r].row \in Row
        /\ HeldBy(request[r], entry) /\ request[r].stage = "loaded"
    BY <1>1, BusyCopy, CopyFields DEF At, Busy, Base, Held
  <1>3. /\ c \in Copy /\ c.on = x /\ c.row = request[r].row /\ c.select = request[r].select
        /\ c.stage = "saved" /\ c.alone = request[r].alone
        /\ c.todo = InvoicesOf(request[r].row) /\ c.decided = request[r].decided
        /\ c.told = request[r].told /\ c.wrote = request[r].wrote
    BY <1>2, InvoicesOfRow DEF Copy
  <1>4. Becomes(r, c)
    BY <1>1
  <1> HIDE DEF c
  <1>5. Unclaimed(r, x) /\ InvoicesOf(entry[x]) = {}
    BY <1>1, UnbornUnclaimed
  <1>6. /\ request[r].told = {} /\ request[r].decided = <<>> /\ request[r].row.status # "unborn"
    BY <1>2 DEF HeldBy, Exists, Absent
  <1>7. InvoicesOf(request[r].row) \subseteq Sphere(request[r])
    BY <1>2, SphereParts DEF Base
  <1>8. unsettled \subseteq unsettled'
    BY <1>1, UnlessKeeps
  <1> QED
    BY <1>1, <1>2, <1>3, <1>4, <1>5, <1>6, <1>7, <1>8, SavingBase

LEMMA EditBase ==
    ASSUME Base, Typed', NEW r \in Request, Edit(r)
    PROVE  Base' /\ Apartly(r)
  <1> DEFINE own == {i \in Invoice : request[r].row.invoice = i}
             c == [request[r] EXCEPT !.stage = "saved", !.todo = own, !.seen = Fetched({})]
             row == Saved(r, request[r].row)
  <1>1. /\ entry' = [entry EXCEPT ![request[r].on] = row]
        /\ Becomes(r, c) /\ Unless(r, unsettled \cup own) /\ status' = status
        /\ FreeEntry(r) /\ ~IsNew(r)
    BY DEF Edit
  <1>2. /\ Busy(r) /\ request[r] \in Copy /\ request[r].row \in Row /\ request[r].on \in Entry
        /\ HeldBy(request[r], entry) /\ request[r].stage = "checked" /\ Typed
    BY BusyCopy, CopyFields, OnEntry DEF Edit, At, Busy, Base, Held
  <1>3. /\ own \in SUBSET InvoicesOf(request[r].row) /\ own \in SUBSET Invoice
        /\ Fetched({}) \in [Invoice -> Status \cup {Blank}]
    BY <1>2, FetchedTyped, OwnInvoice
  <1>4. /\ row \in Row /\ row.status = request[r].row.status
        /\ InvoicesOf(row) \subseteq InvoicesOf(request[r].row) \cup InvoicesOf(entry[request[r].on])
    BY <1>1, <1>2, SavedIs
  <1> HIDE DEF own, row
  <1>5. /\ c \in Copy /\ c.on = request[r].on /\ c.row = request[r].row
        /\ c.select = request[r].select
        /\ c.stage = "saved" /\ c.alone = request[r].alone
        /\ c.todo = own /\ c.decided = request[r].decided
        /\ c.told = request[r].told /\ c.wrote = request[r].wrote
    BY <1>2, <1>3 DEF Copy
  <1> HIDE DEF c
  <1>6. /\ request[r].told = {} /\ request[r].decided = <<>> /\ row.status # "unborn"
    BY <1>2, <1>4 DEF HeldBy, Exists, Absent
  <1>7. /\ InvoicesOf(request[r].row) \subseteq Sphere(request[r])
        /\ InvoicesOf(entry[request[r].on]) \subseteq Sphere(request[r])
    BY <1>2, SphereParts
  <1>8. unsettled \subseteq unsettled'
    BY <1>1, UnlessKeeps
  <1>9. \A s \in Request \ {r} : At(s, "open") => request[s].on # request[r].on
    BY <1>1 DEF FreeEntry
  <1> QED
    BY <1>1, <1>2, <1>3, <1>4, <1>5, <1>6, <1>7, <1>8, <1>9, SavingBase

LEMMA GoneIs == Gone \in Row /\ Gone.status # "unborn" /\ InvoicesOf(Gone) = {}
  <1>1. /\ Gone.status = "deleted" /\ Gone.invoice = NoInvoice /\ Gone.share = NoShare
    BY DEF Gone, NoRow
  <1> QED
    BY <1>1, NoRowTyped, InvoicesAssumption DEF InvoicesOf, NoShare

LEMMA DeleteBase ==
    ASSUME Base, Typed', NEW r \in Request, Delete(r)
    PROVE  Base' /\ Apartly(r)
  <1> DEFINE own == {i \in Invoice : request[r].row.invoice = i}
             c == [request[r] EXCEPT !.stage = "saved", !.todo = own]
  <1>1. /\ entry' = [entry EXCEPT ![request[r].on] = Gone]
        /\ Becomes(r, c) /\ Unless(r, unsettled \cup InvoicesOf(request[r].row))
        /\ status' = status /\ FreeEntry(r) /\ ~IsNew(r)
    BY DEF Delete
  <1>2. /\ Busy(r) /\ request[r] \in Copy /\ request[r].on \in Entry
        /\ HeldBy(request[r], entry) /\ request[r].stage = "loaded" /\ Typed
    BY BusyCopy, CopyFields, OnEntry DEF Delete, At, Busy, Base, Held
  <1>3. own \in SUBSET InvoicesOf(request[r].row) /\ own \in SUBSET Invoice
    BY OwnInvoice
  <1> HIDE DEF own
  <1>5. /\ c \in Copy /\ c.on = request[r].on /\ c.row = request[r].row
        /\ c.select = request[r].select
        /\ c.stage = "saved" /\ c.alone = request[r].alone
        /\ c.todo = own /\ c.decided = request[r].decided
        /\ c.told = request[r].told /\ c.wrote = request[r].wrote
    BY <1>2, <1>3 DEF Copy
  <1> HIDE DEF c
  <1>6. /\ request[r].told = {} /\ request[r].decided = <<>>
    BY <1>2 DEF HeldBy
  <1>7. /\ InvoicesOf(request[r].row) \subseteq Sphere(request[r])
        /\ InvoicesOf(entry[request[r].on]) \subseteq Sphere(request[r])
    BY <1>2, SphereParts
  <1>8. unsettled \subseteq unsettled'
    BY <1>1, UnlessKeeps
  <1>9. \A s \in Request \ {r} : At(s, "open") => request[s].on # request[r].on
    BY <1>1 DEF FreeEntry
  <1> QED
    BY <1>1, <1>2, <1>3, <1>5, <1>6, <1>7, <1>8, <1>9, GoneIs, SavingBase

LEMMA DestroyBase ==
    ASSUME Base, Typed', NEW r \in Request, Destroy(r)
    PROVE  Base' /\ Apartly(r)
  <1>1. /\ entry' = [entry EXCEPT ![request[r].on] = Gone]
        /\ Becomes(r, Idle) /\ Unless(r, unsettled \cup InvoicesOf(request[r].row))
        /\ status' = status /\ FreeEntry(r) /\ ~IsNew(r) /\ Busy(r)
    BY DEF Destroy, Done, At, Busy
  <1>2. request[r].on \in Entry /\ InvoicesOf(entry[request[r].on]) \subseteq Sphere(request[r])
    BY <1>1, OnEntry, SphereParts DEF Base
  <1>3. unsettled \subseteq unsettled'
    BY <1>1, UnlessKeeps
  <1>4. \A s \in Request \ {r} : At(s, "open") => request[s].on # request[r].on
    BY <1>1 DEF FreeEntry
  <1> QED
    BY <1>1, <1>2, <1>3, <1>4, GoneIs, SavingBase

LEMMA CommitBase ==
    ASSUME Base, Typed', NEW r \in Request, CommitRequest(r)
    PROVE  Base' /\ Apartly(r)
  <1>1. /\ Busy(r) /\ request[r].stage = "open" /\ At(r, "open") /\ request[r] \in Copy
        /\ HeldBy(request[r], entry) /\ request[r].row \in Row
        /\ entry' = View(r) /\ status' = [i \in Invoice |-> StatusFor(r, i)]
        /\ Unless(r, unsettled \ request[r].told) /\ Becomes(r, Idle)
    BY BusyCopy, CopyFields DEF CommitRequest, Done, At, Busy, Base, Held
  <1>2. /\ request[r].on \in Entry /\ request[r].row.status # "unborn"
        /\ entry' = [entry EXCEPT ![request[r].on] = request[r].row]
    BY <1>1, CopyFields DEF HeldBy, Exists, Absent, View
  <1>3. \A i \in Invoice \ Sphere(request[r]) :
            status'[i] = status[i] /\ (i \in unsettled => i \in unsettled')
    <2>1. request[r].told \subseteq Sphere(request[r])
      BY <1>1, SphereParts DEF Base
    <2>2. \A i \in Invoice \ Sphere(request[r]) : status'[i] = status[i]
      BY <1>1, <2>1 DEF StatusFor, HeldBy
    <2> QED
      BY <1>1, <2>1, <2>2 DEF Unless
  <1>4. \A s \in Request \ {r} : At(s, "open") => request[s].on # request[r].on
    BY <1>1 DEF Base, OpenApart
  <1>5. InvoicesOf(entry[request[r].on]) \cup InvoicesOf(request[r].row) \subseteq Sphere(request[r])
    BY <1>1, <1>2, SphereParts DEF Base
  <1> QED
    BY <1>1, <1>2, <1>3, <1>4, <1>5, SavingBase

LEMMA EndBase ==
    ASSUME Base, Typed', NEW r \in Request, End(r)
    PROVE  Base' /\ Apartly(r)
  <1>1. /\ request'[r] = Idle /\ \A s \in Request \ {r} : request'[s] = request[s]
        /\ UNCHANGED <<status, entry, unsettled>>
    BY DEF End, Done, Becomes, Base, Typed
  <1>2. Outside({r}, {})
    BY <1>1 DEF Outside, Base, RowsBegin
  <1> QED
    BY <1>1, <1>2, Finishes DEF Apartly

LEMMA PatchBase ==
    ASSUME Base, Typed', NEW r \in Request, Patch(r)
    PROVE  Base' /\ Apartly(r)
  <1>1. PICK amount \in Amount \cup {request[r].row.amount},
             i \in Redirect \cup {request[r].row.invoice} :
          LET row == [request[r].row EXCEPT !.amount = amount, !.invoice = i]
              invoices == InvoicesOf(request[r].row) \cup InvoicesOf(row)
          IN  /\ entry' = [entry EXCEPT ![request[r].on] = Saved(r, row)]
              /\ Enter(r, Idle, {request[r].on}, invoices)
              /\ Unless(r, unsettled \cup invoices)
    BY DEF Patch
  <1> DEFINE row == [request[r].row EXCEPT !.amount = amount, !.invoice = i]
             invoices == InvoicesOf(request[r].row) \cup InvoicesOf(row)
             x == request[r].on
             W == Sphere(request[r]) \cup invoices
  <1>2. /\ Busy(r) /\ request[r] \in Copy /\ request[r].row \in Row /\ x \in Entry /\ ~IsNew(r)
        /\ HeldBy(request[r], entry) /\ FreeEntry(r) /\ status' = status /\ Typed
    BY BusyCopy, CopyFields, OnEntry DEF Patch, At, Busy, Base, Held
  <1>3. row \in Row /\ row.status = request[r].row.status
    BY <1>2, InvoicesAssumption DEF Row
  <1>4. /\ entry' = [entry EXCEPT ![x] = Saved(r, row)]
        /\ Enter(r, Idle, {x}, invoices) /\ Unless(r, unsettled \cup invoices)
    BY <1>1
  <1>5. InvoicesOf(row) \subseteq invoices
    OBVIOUS
  <1> HIDE DEF row, invoices
  <1>6. /\ Saved(r, row) \in Row /\ Saved(r, row).status = row.status
        /\ InvoicesOf(Saved(r, row)) \subseteq InvoicesOf(row) \cup InvoicesOf(entry[x])
    BY <1>2, <1>3, SavedIs
  <1>7. InvoicesOf(entry[x]) \subseteq Sphere(request[r])
    BY <1>2, SphereParts
  <1>8. Saved(r, row).status # "unborn"
    BY <1>2, <1>3, <1>6 DEF HeldBy, Exists, Absent
  <1>9. /\ request'[r] = Idle
        /\ \A s \in Request \ {r} :
              request'[s] = IF Meets(s, {x}, invoices) THEN [request[s] EXCEPT !.alone = FALSE]
                            ELSE request[s]
    BY <1>4 DEF Enter
  <1>10. \A s \in Request \ {r} : request'[s] # Idle /\ request'[s].alone =>
            request[s] # Idle /\ request'[s] = request[s] /\ ~Meets(s, {x}, invoices)
    <2> SUFFICES ASSUME NEW s \in Request \ {r}, request'[s] # Idle, request'[s].alone,
                        Meets(s, {x}, invoices)
                 PROVE  FALSE
      BY <1>9
    <2>1. request[s] \in Copy
      BY DEF Meets, Base, Typed
    <2>2. [request[s] EXCEPT !.alone = FALSE].alone = FALSE
      BY <2>1 DEF Copy
    <2> QED
      BY <1>9, <2>2
  <1>11. ASSUME NEW s \in Request \ {r}, request'[s] # Idle, request'[s].alone
         PROVE  Sphere(request[s]) \cap W = {} /\ request[s].on # x
    <2>1. request[s] # Idle /\ request[s].alone /\ ~Meets(s, {x}, invoices)
      BY <1>10, <1>11
    <2>2. Sphere(request[s]) \cap invoices = {} /\ request[s].on # x
      BY <2>1 DEF Meets
    <2>3. Sphere(request[s]) \cap Sphere(request[r]) = {}
      BY <1>2, <2>1, SphereIs DEF Base, Apart, ApartFrom, Busy
    <2> QED
      BY <2>2, <2>3
  <1>12. /\ entry'[x] = Saved(r, row) /\ \A y \in Entry : y # x => entry'[y] = entry[y]
    BY <1>2, <1>4 DEF Typed
  <1>13. InvoicesOf(entry[x]) \cup InvoicesOf(entry'[x]) \subseteq W
    BY <1>5, <1>6, <1>7, <1>12
  <1>14. unsettled \subseteq unsettled'
    BY <1>4, UnlessKeeps
  <1>15. ASSUME NEW s \in Request \ {r}, NEW y \in Entry, Busy(s), request[s].on = y,
                request'[s].alone \/ At(s, "open") \/ request[r].alone
         PROVE  entry'[y] = entry[y]
    <2> SUFFICES ASSUME y = x PROVE FALSE
      BY <1>12
    <2>1. ~ At(s, "open")
      BY <1>2, <1>15 DEF FreeEntry
    <2>2. ~ request[r].alone
      <3>1. x # NoEntry
        BY <1>2, InvoicesAssumption
      <3> QED
        BY <1>2, <1>15, <3>1 DEF Base, Apart, ApartFrom
    <2>3. request'[s].alone /\ request'[s] # Idle
      <3>1. request'[s] = [request[s] EXCEPT !.alone = FALSE] \/ request'[s] = request[s]
        BY <1>9
      <3>2. request[s] \in Copy
        BY <1>2, <1>15, BusyCopy
      <3>3. [request[s] EXCEPT !.alone = FALSE] \in Copy
        BY <3>2 DEF Copy
      <3> QED
        BY <1>15, <2>1, <2>2, <3>1, <3>2, <3>3, CopyFields
    <2> QED
      BY <1>11, <1>15, <2>3
  <1> HIDE DEF W
  <1>16. Outside({r}, W)
    <2>1. \A s \in Request \ {r} : request'[s] = request[s] \/ Marked(s)
      BY <1>9 DEF Marked, Meets
    <2> QED
      BY <1>2, <1>8, <1>11, <1>12, <1>13, <1>14, <1>15, <2>1 DEF Outside
  <1> QED
    BY <1>9, <1>16, Finishes DEF Apartly

(* Other handlers write one status. *)
LEMMA OverwriteBase ==
    ASSUME Base, Typed', NEW i \in Invoice, Overwrite(i)
    PROVE  Base' /\ Outside({}, {i})
  <1>1. /\ \A s \in Request : request'[s] = IF Meets(s, {}, {i})
                                           THEN [request[s] EXCEPT !.alone = FALSE] ELSE request[s]
        /\ unsettled' = unsettled \cup {i} /\ entry' = entry
        /\ \A j \in Invoice \ {i} : status'[j] = status[j]
    BY DEF Overwrite, Base, Typed
  <1>2. Outside({}, {i})
    <2>1. \A s \in Request : request'[s] = request[s] \/ Marked(s)
      BY <1>1 DEF Marked, Meets
    <2>2. ASSUME NEW s \in Request, request'[s] # Idle, request'[s].alone
          PROVE  Sphere(request[s]) \cap {i} = {}
      <3>1. ~ Meets(s, {}, {i})
        <4> SUFFICES ASSUME Meets(s, {}, {i}) PROVE FALSE
          OBVIOUS
        <4>1. request[s] \in Copy
          BY DEF Meets, Base, Typed
        <4>2. [request[s] EXCEPT !.alone = FALSE].alone = FALSE
          BY <4>1 DEF Copy
        <4> QED
          BY <1>1, <2>2, <4>2
      <3>2. request[s] # Idle
        BY <1>1, <2>2, <3>1
      <3> QED
        BY <3>1, <3>2 DEF Meets
    <2> QED
      BY <1>1, <2>1, <2>2 DEF Outside
  <1>3. \A s \in Request : request'[s] # Idle =>
            /\ HeldBy(request'[s], entry')
            /\ request'[s].on = request[s].on /\ request'[s].stage = request[s].stage /\ Busy(s)
    <2> SUFFICES ASSUME NEW s \in Request, request'[s] # Idle
                 PROVE  /\ HeldBy(request'[s], entry') /\ request'[s].on = request[s].on
                        /\ request'[s].stage = request[s].stage /\ Busy(s)
      OBVIOUS
    <2>1. {} \in SUBSET Request /\ s \in Request \ {} /\ Typed
      BY DEF Base
    <2>2. HeldBy(request'[s], entry')
      BY <1>2, <2>1, OthersHeld
    <2> QED
      BY <1>2, <2>1, <2>2, OthersGoOn
  <1>4. \A r, s \in Request : r # s /\ request'[r] # Idle /\ request'[s] # Idle
                /\ request'[r].alone => ApartFrom(request'[r], request'[s], entry')
    <2> SUFFICES ASSUME NEW r \in Request, NEW s \in Request, r # s, request'[r] # Idle,
                        request'[s] # Idle, request'[r].alone
                 PROVE  ApartFrom(request'[r], request'[s], entry')
      OBVIOUS
    <2>1. {} \in SUBSET Request /\ s \in Request \ {} /\ r \in Request \ {}
      OBVIOUS
    <2> QED
      BY <1>2, <2>1, OthersApart
  <1>5. RowsBegin' /\ Held' /\ Apart'
    BY <1>1, <1>3, <1>4 DEF Base, RowsBegin, Held, Apart, Busy
  <1>6. OpenApart'
    BY <1>3 DEF Base, OpenApart, At, Busy
  <1> QED
    BY <1>2, <1>5, <1>6 DEF Base

(* Every step keeps what requests hold, and is apart from the others. *)
LEMMA AnyStep ==
    ASSUME Base, [PaymentsNext]_paymentsVars
    PROVE  /\ Base'
           /\ \/ \E r \in Request : Apartly(r)
              \/ \E i \in Invoice : Overwrite(i)
              \/ UNCHANGED paymentsVars
  <1>1. Typed'
    BY NextTyped DEF Base
  <1>2. ASSUME NEW r \in Request, ReceivePayment(r) \/ IssueNote(r)
        PROVE  Base' /\ Apartly(r)
    BY <1>1, <1>2, AskBase, PassesBase, AllocateBase, InsertBase, InsertLegacyBase
    DEF ReceivePayment, IssueNote, AskPayment, AskSeveral, AskLegacy, AskCreditNote, AskDebitNote,
        Wanted, CheckPayment, CheckCreditNote, CheckDebitNote, InsertPayment, InsertCreditNote,
        InsertDebitNote
  <1>3. ASSUME NEW r \in Request, ChangePayment(r) \/ ChangeNote(r)
        PROVE  Base' /\ Apartly(r)
    <2>1. "REVERSED" \in Undone /\ "REFUNDED" \in Undone
      BY DEF Undone
    <2>2. ReversePayment(r) \/ RefundPayment(r) => Base' /\ Apartly(r)
      BY <1>1, <2>1, UndoBase DEF ReversePayment, RefundPayment
    <2> QED
      BY <1>1, <1>3, <2>2, LoadBase, ReverseByApiBase, CancelNoteBase, ValidateBase, EditBase,
         DeleteBase, DestroyBase, PatchBase
      DEF ChangePayment, ChangeNote, LoadPayment, LoadCreditNote, LoadDebitNote,
          CancelCreditNote, CancelDebitNote
  <1>4. ASSUME NEW r \in Request, Finish(r)
        PROVE  Base' /\ Apartly(r)
    BY <1>1, <1>4, RecomputeBase, StoreBase, CommitBase, EndBase DEF Finish
  <1>5. CASE UNCHANGED paymentsVars
    BY <1>5 DEF paymentsVars, Base, Typed, RowsBegin, Held, Apart, OpenApart, Busy, At
  <1> QED
    BY <1>1, <1>2, <1>3, <1>4, <1>5, OverwriteBase DEF PaymentsNext
-----------------------------------------------------------------------------
(* What was undone stays undone. *)

Revives(r) ==
    \A x \in Entry : entry[x].status \in Undone /\ Counts(entry'[x]) =>
        Busy(r) /\ request[r].on = x /\ ~request[r].alone

(* A saved copy revives a row only if somebody else undid it after the copy *)
(* was loaded.                                                              *)
LEMMA SavedRevives ==
    ASSUME Base, NEW r \in Request, Busy(r), ~IsNew(r), NEW row \in Row,
           entry' = [entry EXCEPT ![request[r].on] = row],
           request[r].alone => row.status = entry[request[r].on].status \/ ~Counts(row)
    PROVE  Revives(r)
  <1>1. request[r].on \in Entry
    BY OnEntry DEF Base
  <1>2. \A x \in Entry : entry'[x] = IF x = request[r].on THEN row ELSE entry[x]
    BY DEF Base, Typed
  <1>3. request[r].alone \in BOOLEAN
    BY BusyCopy, CopyFields DEF Base
  <1> QED
    BY <1>1, <1>2, <1>3 DEF Revives, Counts

LEMMA SameRevives ==
    ASSUME NEW r, entry' = entry
    PROVE  Revives(r)
  BY DEF Revives, Counts

LEMMA InsertLegacyRevives ==
    ASSUME Base, NEW r \in Request, InsertLegacy(r)
    PROVE  Revives(r)
  <1>1. PICK x \in Entry :
            entry[x].status = "unborn" /\ entry' = [entry EXCEPT ![x] = request[r].row]
    BY DEF InsertLegacy
  <1>2. \A y \in Entry : y # x => entry'[y] = entry[y]
    BY <1>1 DEF Base, Typed
  <1> QED
    BY <1>1, <1>2 DEF Revives, Counts, Undone

LEMMA EditedRevives ==
    ASSUME Base, NEW r \in Request, Edit(r)
    PROVE  Revives(r)
  <1>1. /\ entry' = [entry EXCEPT ![request[r].on] = Saved(r, request[r].row)]
        /\ At(r, "checked") /\ ~IsNew(r)
    BY DEF Edit
  <1>2. /\ Busy(r) /\ request[r].row \in Row /\ Typed /\ HeldBy(request[r], entry)
        /\ request[r].stage = "checked" /\ request[r].on # NoEntry /\ request[r].on \in Entry
    BY <1>1, BusyCopy, CopyFields, OnEntry, InvoicesAssumption DEF At, Busy, Base, Held
  <1>3. Saved(r, request[r].row) \in Row /\ Saved(r, request[r].row).status = request[r].row.status
    BY <1>1, <1>2, SavedIs
  <1>4. request[r].alone => request[r].row.status = entry[request[r].on].status
    <2>1. entry[request[r].on] \in Row
      BY <1>2 DEF Typed
    <2> QED
      BY <1>2, <2>1 DEF HeldBy, Row
  <1> QED
    BY <1>1, <1>2, <1>3, <1>4, SavedRevives

LEMMA PatchRevives ==
    ASSUME Base, NEW r \in Request, Patch(r)
    PROVE  Revives(r)
  <1>1. PICK amount \in Amount \cup {request[r].row.amount},
             i \in Redirect \cup {request[r].row.invoice} :
          entry' = [entry EXCEPT ![request[r].on] =
                      Saved(r, [request[r].row EXCEPT !.amount = amount, !.invoice = i])]
    BY DEF Patch
  <1> DEFINE row == [request[r].row EXCEPT !.amount = amount, !.invoice = i]
  <1>2. /\ Busy(r) /\ request[r].row \in Row /\ Typed /\ HeldBy(request[r], entry) /\ ~IsNew(r)
        /\ request[r].stage = "loaded" /\ request[r].on # NoEntry /\ request[r].on \in Entry
    BY BusyCopy, CopyFields, OnEntry, InvoicesAssumption DEF Patch, At, Busy, Base, Held
  <1>3. row \in Row /\ row.status = request[r].row.status
    BY <1>2, InvoicesAssumption DEF Row
  <1>4. entry' = [entry EXCEPT ![request[r].on] = Saved(r, row)]
    BY <1>1
  <1> HIDE DEF row
  <1>5. Saved(r, row) \in Row /\ Saved(r, row).status = request[r].row.status
    BY <1>2, <1>3, SavedIs
  <1>6. request[r].alone => request[r].row.status = entry[request[r].on].status
    BY <1>2 DEF HeldBy
  <1> QED
    BY <1>2, <1>4, <1>5, <1>6, SavedRevives

LEMMA RemovedRevives ==
    ASSUME Base, NEW r \in Request, Delete(r) \/ Destroy(r)
    PROVE  Revives(r)
  <1>1. /\ entry' = [entry EXCEPT ![request[r].on] = Gone] /\ Busy(r) /\ ~IsNew(r)
    BY DEF Delete, Destroy, At, Busy
  <1>2. Gone \in Row /\ ~Counts(Gone)
    BY NoRowTyped DEF Gone, NoRow, Counts, Absent
  <1> QED
    BY <1>1, <1>2, SavedRevives

LEMMA CommitRevives ==
    ASSUME Base, NEW r \in Request, CommitRequest(r)
    PROVE  Revives(r)
  <1>1. /\ Busy(r) /\ At(r, "open") /\ request[r].stage = "open" /\ request[r] \in Copy
        /\ HeldBy(request[r], entry) /\ entry' = View(r)
    BY BusyCopy DEF CommitRequest, At, Busy, Base, Held
  <1>2. /\ entry' = [entry EXCEPT ![request[r].on] = request[r].row]
        /\ request[r].row.status \in Undone \/ entry[request[r].on].status = "unborn"
    BY <1>1 DEF HeldBy, View
  <1>3. \A x \in Entry : entry'[x] = IF x = request[r].on THEN request[r].row ELSE entry[x]
    BY <1>2 DEF Base, Typed
  <1> QED
    BY <1>2, <1>3 DEF Revives, Counts, Undone

LEMMA NextRevives ==
    ASSUME Base, PaymentsNext
    PROVE  (\E r \in Request : Revives(r)) \/ entry' = entry
  <1>1. ASSUME NEW r \in Request, ReceivePayment(r) \/ IssueNote(r)
        PROVE  Revives(r)
    <2>1. InsertLegacy(r) \/ entry' = entry
      BY <1>1
      DEF ReceivePayment, IssueNote, AskPayment, AskSeveral, AskLegacy, AskCreditNote,
          AskDebitNote, Ask, BeginRequest, CheckPayment, CheckCreditNote, CheckDebitNote, Passes,
          Allocate, InsertPayment, InsertCreditNote, InsertDebitNote, Insert
    <2> QED
      BY <2>1, InsertLegacyRevives, SameRevives
  <1>2. ASSUME NEW r \in Request, ChangePayment(r) \/ ChangeNote(r)
        PROVE  Revives(r)
    <2>1. Edit(r) \/ Delete(r) \/ Destroy(r) \/ Patch(r) \/ entry' = entry
      BY <1>2
      DEF ChangePayment, ChangeNote, LoadPayment, LoadCreditNote, LoadDebitNote, LoadKind, BeginRequest,
          ReversePayment, RefundPayment, Undo, ReverseByApi, CancelCreditNote, CancelDebitNote,
          CancelNote, SaveAs, Validate
    <2> QED
      BY <2>1, EditedRevives, RemovedRevives, PatchRevives, SameRevives
  <1>3. ASSUME NEW r \in Request, Finish(r)
        PROVE  Revives(r)
    <2>1. CommitRequest(r) \/ entry' = entry
      BY <1>3 DEF Finish, Recompute, Store, End
    <2> QED
      BY <2>1, CommitRevives, SameRevives
  <1>4. ASSUME NEW i \in Invoice, Overwrite(i)
        PROVE  entry' = entry
    BY <1>4 DEF Overwrite
  <1> QED
    BY <1>1, <1>2, <1>3, <1>4 DEF PaymentsNext

LEMMA BaseAlways == PaymentsSpec => []Base
  <1>1. Base /\ [PaymentsNext]_paymentsVars => Base'
    BY AnyStep
  <1> QED
    BY InitBase, <1>1, PTL DEF PaymentsSpec

(* What was reversed, refunded or cancelled counts again only when a request *)
(* that met another one saves the copy it has: the handlers that edit and    *)
(* patch a payment save the status they loaded.                              *)
THEOREM UndoneStaysUndoneTheorem == PaymentsSpec => UndoneStaysUndone
  <1>1. ASSUME Base, [PaymentsNext]_paymentsVars
        PROVE  [\A x \in Entry : entry[x].status \in Undone /\ Counts(entry'[x]) =>
                    \E r \in Request : request[r] # Idle /\ request[r].on = x
                                       /\ ~request[r].alone]_paymentsVars
    <2>1. CASE UNCHANGED paymentsVars
      BY <2>1
    <2>2. CASE PaymentsNext /\ entry' = entry
      BY <2>2 DEF Counts
    <2>3. CASE \E r \in Request : Revives(r)
      BY <2>3 DEF Revives, Busy
    <2> QED
      BY <1>1, <2>1, <2>2, <2>3, NextRevives
  <1> QED
    BY <1>1, BaseAlways, PTL DEF PaymentsSpec, UndoneStaysUndone
-----------------------------------------------------------------------------
(* The status of an invoice. *)

FitsPaid(st, table, i) ==
    /\ st = "PAID" <=> Paid(table, i) > 0 /\ Balance(table, i) = 0
    /\ st = "PARTIAL" <=> Paid(table, i) > 0 /\ Balance(table, i) > 0
    /\ st \in {"UNPAID", "OVERDUE"} <=> Paid(table, i) <= 0
    /\ st = "OVERDUE" => i \in Late

(* What update_status derives fits. *)
LEMMA DerivedFits ==
    ASSUME NEW table \in [Entry -> Row], NEW i \in Invoice, NEW old
    PROVE  FitsPaid(Derived(table, i, old), table, i)
  <1>1. /\ Paid(table, i) \in Int /\ EffectiveDue(table, i) \in Nat
        /\ Balance(table, i) = AtLeastZero(EffectiveDue(table, i) - Paid(table, i))
    BY MoneyTyped DEF Balance
  <1> QED
    BY <1>1 DEF FitsPaid, Derived, AtLeastZero

(* Rows of the same worth are worth the same. *)
LEMMA SumSameWorth ==
    ASSUME NEW a \in [Entry -> Row], NEW b \in [Entry -> Row], NEW i \in Invoice,
           \A x \in Entry : \/ a[x] = b[x]
                            \/ /\ Worth(a[x], i) = Worth(b[x], i)
                               /\ a[x].kind = b[x].kind \/ Worth(a[x], i) = 0
    PROVE  /\ Paid(a, i) = Paid(b, i) /\ Credited(a, i) = Credited(b, i)
           /\ Debited(a, i) = Debited(b, i) /\ EffectiveDue(a, i) = EffectiveDue(b, i)
           /\ Balance(a, i) = Balance(b, i)
           /\ \A st : FitsPaid(st, a, i) <=> FitsPaid(st, b, i)
           /\ \A old : Derived(a, i, old) = Derived(b, i, old)
  <1>1. ASSUME NEW kinds PROVE SumOf(a, kinds, i) = SumOf(b, kinds, i)
    <2>1. Amounts(a, kinds, i) = Amounts(b, kinds, i)
      BY DEF Amounts
    <2> QED
      BY <2>1, SumIsOverEntries
  <1>2. /\ Paid(a, i) = Paid(b, i) /\ Credited(a, i) = Credited(b, i)
        /\ Debited(a, i) = Debited(b, i)
    BY <1>1 DEF Paid, Credited, Debited
  <1>3. EffectiveDue(a, i) = EffectiveDue(b, i)
    BY <1>2 DEF EffectiveDue
  <1>4. Balance(a, i) = Balance(b, i)
    BY <1>2, <1>3 DEF Balance
  <1> QED
    BY <1>2, <1>3, <1>4 DEF FitsPaid, Derived

(* A row that is gone or undone is worth nothing. *)
LEMMA NothingWorth ==
    ASSUME NEW row \in Row, NEW i \in Invoice, i \notin InvoicesOf(row)
    PROVE  Worth(row, i) = 0
  <1>1. row.invoice # i /\ row.share[i] = 0
    <2>1. row.share[i] \in Nat
      BY RowFields
    <2> QED
      BY <2>1 DEF InvoicesOf
  <1> QED
    BY <1>1 DEF Worth

(* A request that met no other has known the statuses there are, has decided *)
(* what fits, and has told the invoices it has to do with or has them still *)
(* to tell.                                                                 *)
Sees(c, st) ==
    \A i \in Invoice : c.seen[i] # Blank => i \in Sphere(c) /\ c.seen[i] = st[i]

Decides(r) ==
    LET c == request[r] IN
    c.decided # <<>> => c.decided[2] = Derived(View(r), c.decided[1], StatusFor(r, c.decided[1]))

Tells(r) ==
    LET c == request[r] IN
    c.stage = "open" =>
        /\ \A i \in c.told : FitsPaid(StatusFor(r, i), View(r), i)
        /\ InvoicesOf(c.row) \cup InvoicesOf(entry[c.on]) \subseteq c.todo \cup c.told \cup unsettled

Knows(r) == Sees(request[r], status) /\ Decides(r) /\ Tells(r)

StatusInv ==
    /\ StatusFits
    /\ \A r \in Request : Busy(r) /\ request[r].alone => Knows(r)

(* StatusFits, invoice by invoice. *)
LEMMA StatusFitsIs == StatusFits <=> \A i \in Invoice \ unsettled : FitsPaid(status[i], entry, i)
  BY DEF StatusFits, FitsPaid

(* What the request s knows of the invoice i does not change. *)
Stays(s, i) ==
    /\ StatusFor(s, i)' = StatusFor(s, i) /\ status'[i] = status[i]
    /\ i \in unsettled => i \in unsettled'
    /\ \A x \in Entry : entry'[x] = entry[x]
                        \/ (Worth(entry[x], i) = 0 /\ Worth(entry'[x], i) = 0)
    /\ \A x \in Entry : View(s)'[x] = View(s)[x]
                        \/ (Worth(View(s)[x], i) = 0 /\ Worth(View(s)'[x], i) = 0)

(* Nobody else changes what a request that is alone knows. *)
LEMMA OthersStay ==
    ASSUME Base, Base', NEW A \in SUBSET Request, NEW W, Outside(A, W),
           NEW s \in Request \ A, request'[s] # Idle, request'[s].alone
    PROVE  /\ Busy(s) /\ request[s].alone /\ request'[s] = request[s]
           /\ Sphere(request[s])' = Sphere(request[s]) /\ Sphere(request[s]) \cap W = {}
           /\ View(s) \in [Entry -> Row] /\ View(s)' \in [Entry -> Row]
           /\ \A i \in Invoice \cap Sphere(request[s]) : Stays(s, i)
  <1> DEFINE c == request[s]
  <1>1. /\ Busy(s) /\ c.alone /\ request'[s] = c /\ c \in Copy
    BY OthersGoOn DEF Base
  <1>2. Sphere(c)' = Sphere(c) /\ Sphere(c) \cap W = {}
    <2>1. SphereIn(request'[s], entry') = SphereIn(c, entry) /\ SphereIn(c, entry) \cap W = {}
      BY OthersSphere
    <2>2. Sphere(c) = SphereIn(c, entry)
      BY SphereIs
    <2>3. Sphere(c)' = SphereIn(request'[s], entry')
      BY <1>1 DEF Sphere, SphereIn, Rows
    <2> QED
      BY <2>1, <2>2, <2>3
  <1>3. /\ View(s) \in [Entry -> Row] /\ View(s)' \in [Entry -> Row]
        /\ entry \in [Entry -> Row] /\ entry' \in [Entry -> Row]
    <2>1. Typed /\ Typed'
      BY DEF Base
    <2>2. View(s)' \in [Entry -> Row]
      BY <1>1, <2>1, CopyFields DEF View, At, Typed
    <2> QED
      BY <2>1, <2>2, ViewTyped DEF Typed
  <1>6. ASSUME NEW i \in Invoice \cap Sphere(c)
        PROVE  Stays(s, i)
    <2>1. i \notin W /\ status'[i] = status[i] /\ (i \in unsettled => i \in unsettled')
      BY <1>2, <1>6 DEF Outside
    <2>2. StatusFor(s, i)' = StatusFor(s, i)
      BY <1>1, <2>1 DEF StatusFor
    <2>3. ASSUME NEW x \in Entry
          PROVE  entry'[x] = entry[x] \/ (Worth(entry[x], i) = 0 /\ Worth(entry'[x], i) = 0)
      <3>1. entry'[x] = entry[x] \/ i \notin InvoicesOf(entry[x]) \cup InvoicesOf(entry'[x])
        BY <2>1 DEF Outside
      <3>2. entry[x] \in Row /\ entry'[x] \in Row /\ i \in Invoice
        BY <1>3
      <3>3. i \notin InvoicesOf(entry[x]) => Worth(entry[x], i) = 0
        BY <3>2, NothingWorth
      <3>4. i \notin InvoicesOf(entry'[x]) => Worth(entry'[x], i) = 0
        BY <3>2, NothingWorth
      <3> QED
        BY <3>1, <3>3, <3>4
    <2>4. ASSUME NEW x \in Entry
          PROVE  View(s)'[x] = View(s)[x]
                 \/ (Worth(View(s)[x], i) = 0 /\ Worth(View(s)'[x], i) = 0)
      <3>1. CASE At(s, "open")
        <4>1. View(s) = [entry EXCEPT ![c.on] = c.row] /\ View(s)' = [entry' EXCEPT ![c.on] = c.row]
          BY <1>1, <3>1 DEF View, At
        <4>2. CASE x = c.on
          <5>1. View(s)[x] = c.row /\ View(s)'[x] = c.row
            BY <1>3, <4>1, <4>2
          <5> QED
            BY <5>1
        <4>3. CASE x # c.on
          <5>1. View(s)[x] = entry[x] /\ View(s)'[x] = entry'[x]
            BY <1>3, <4>1, <4>3
          <5> QED
            BY <2>3, <5>1
        <4> QED
          BY <4>2, <4>3
      <3>2. CASE ~At(s, "open")
        <4>1. View(s) = entry /\ View(s)' = entry'
          BY <1>1, <3>2 DEF View, At
        <4> QED
          BY <2>3, <4>1
      <3> QED
        BY <3>1, <3>2
    <2> QED
      BY <2>1, <2>2, <2>3, <2>4 DEF Stays
  <1> HIDE DEF c
  <1> QED
    BY <1>1, <1>2, <1>3, <1>6 DEF c

(* What the other requests have seen and decided is still so. *)
LEMMA OthersKnow ==
    ASSUME Base, Base', StatusInv, NEW A \in SUBSET Request, NEW W, Outside(A, W),
           NEW s \in Request \ A, request'[s] # Idle, request'[s].alone
    PROVE  Knows(s)'
  <1> DEFINE c == request[s]
  <1>1. /\ Busy(s) /\ c.alone /\ request'[s] = c /\ c \in Copy /\ Knows(s)
        /\ Sphere(c)' = Sphere(c) /\ HeldBy(c, entry)
    BY OthersStay, BusyCopy DEF StatusInv, Base, Held
  <1>0. c.stage = "open" /\ c.on \in Entry => entry'[c.on] = entry[c.on]
    BY <1>1 DEF Outside
  <1>2. \A i \in Invoice \cap Sphere(c) :
            /\ StatusFor(s, i)' = StatusFor(s, i) /\ status'[i] = status[i]
            /\ i \in unsettled => i \in unsettled'
            /\ \A st : FitsPaid(st, View(s)', i) <=> FitsPaid(st, View(s), i)
            /\ \A old : Derived(View(s)', i, old) = Derived(View(s), i, old)
    <2> SUFFICES ASSUME NEW i \in Invoice \cap Sphere(c)
                 PROVE  /\ StatusFor(s, i)' = StatusFor(s, i) /\ status'[i] = status[i]
                        /\ i \in unsettled => i \in unsettled'
                        /\ \A st : FitsPaid(st, View(s)', i) <=> FitsPaid(st, View(s), i)
                        /\ \A old : Derived(View(s)', i, old) = Derived(View(s), i, old)
      OBVIOUS
    <2>0. Stays(s, i)
      BY OthersStay
    <2>1. /\ StatusFor(s, i)' = StatusFor(s, i) /\ status'[i] = status[i]
          /\ i \in unsettled => i \in unsettled'
      BY <2>0 DEF Stays
    <2>2. \A x \in Entry : View(s)'[x] = View(s)[x]
                           \/ (Worth(View(s)[x], i) = 0 /\ Worth(View(s)'[x], i) = 0)
      BY <2>0 DEF Stays
    <2>3. View(s) \in [Entry -> Row] /\ View(s)' \in [Entry -> Row]
      BY OthersStay
    <2> DEFINE a == View(s)
               b == View(s)'
    <2> HIDE DEF a, b
    <2>4. /\ a \in [Entry -> Row] /\ b \in [Entry -> Row] /\ i \in Invoice
          /\ \A x \in Entry : \/ b[x] = a[x]
                              \/ /\ Worth(b[x], i) = Worth(a[x], i)
                                 /\ b[x].kind = a[x].kind \/ Worth(b[x], i) = 0
      BY <2>2, <2>3 DEF a, b
    <2>5. /\ \A st : FitsPaid(st, b, i) <=> FitsPaid(st, a, i)
          /\ \A old : Derived(b, i, old) = Derived(a, i, old)
      BY <2>4, SumSameWorth
    <2> QED
      BY <2>1, <2>5 DEF a, b
  <1>3. c.todo \subseteq Invoice \cap Sphere(c) /\ c.told \subseteq Invoice \cap Sphere(c)
    BY <1>1, SphereParts, CopyFields DEF Base
  <1>4. Sees(request[s], status)'
    <2>1. Sees(c, status)
      BY <1>1 DEF Knows
    <2> QED
      BY <1>1, <1>2, <2>1 DEF Sees
  <1>5. Decides(s)'
    <2>1. Decides(s) /\ (c.decided # <<>> => c.decided[1] \in Invoice \cap Sphere(c))
      BY <1>1, <1>3 DEF Knows, HeldBy
    <2> QED
      BY <1>1, <1>2, <2>1 DEF Decides
  <1>6. Tells(s)'
    <2> SUFFICES ASSUME c.stage = "open"
                 PROVE  /\ \A i \in c.told : FitsPaid(StatusFor(s, i)', View(s)', i)
                        /\ InvoicesOf(c.row) \cup InvoicesOf(entry'[c.on])
                             \subseteq c.todo \cup c.told \cup unsettled'
      BY <1>1 DEF Tells
    <2>1. entry'[c.on] = entry[c.on] /\ c.on \in Entry
      <3>1. c.on \in Entry
        BY <1>1, CopyFields DEF HeldBy
      <3> QED
        BY <1>0, <3>1
    <2>2. /\ \A i \in c.told : FitsPaid(StatusFor(s, i), View(s), i)
          /\ InvoicesOf(c.row) \cup InvoicesOf(entry[c.on]) \subseteq c.todo \cup c.told \cup unsettled
      BY <1>1 DEF Knows, Tells
    <2>3. InvoicesOf(c.row) \cup InvoicesOf(entry[c.on]) \subseteq Invoice \cap Sphere(c)
      BY <1>1, <2>1, SphereParts, InvoicesOfRow DEF Base
    <2> QED
      BY <1>2, <1>3, <2>1, <2>2, <2>3
  <1> QED
    BY <1>4, <1>5, <1>6 DEF Knows

(* A step of r keeps StatusInv if r goes on knowing. *)
LEMMA StepStatus ==
    ASSUME Base, Base', StatusInv, NEW r \in Request, Apartly(r), StatusFits',
           request'[r] # Idle /\ request'[r].alone => Knows(r)'
    PROVE  StatusInv'
  <1>1. PICK W : Outside({r}, W)
    BY DEF Apartly
  <1>2. ASSUME NEW s \in Request, request'[s] # Idle, request'[s].alone
        PROVE  Knows(s)'
    <2>1. CASE s = r
      BY <1>2, <2>1
    <2>2. CASE s # r
      <3>1. {r} \in SUBSET Request /\ s \in Request \ {r}
        BY <2>2
      <3> QED
        BY <1>1, <1>2, <3>1, OthersKnow
    <2> QED
      BY <2>1, <2>2
  <1> QED
    BY <1>2 DEF StatusInv, Busy

(* What is not unsettled goes on fitting. *)
LEMMA FitsStay ==
    ASSUME Typed, Typed', StatusFits,
           \A i \in Invoice \ unsettled' :
              \/ FitsPaid(status'[i], entry', i)
              \/ /\ i \notin unsettled /\ status'[i] = status[i]
                 /\ \A x \in Entry : \/ entry'[x] = entry[x]
                                     \/ /\ Worth(entry'[x], i) = Worth(entry[x], i)
                                        /\ entry'[x].kind = entry[x].kind \/ Worth(entry'[x], i) = 0
    PROVE  StatusFits'
  <1> SUFFICES ASSUME NEW i \in Invoice \ unsettled'
               PROVE  FitsPaid(status'[i], entry', i)
    BY DEF StatusFits, FitsPaid
  <1>1. CASE /\ i \notin unsettled /\ status'[i] = status[i]
             /\ \A x \in Entry : \/ entry'[x] = entry[x]
                                 \/ /\ Worth(entry'[x], i) = Worth(entry[x], i)
                                    /\ entry'[x].kind = entry[x].kind \/ Worth(entry'[x], i) = 0
    <2>1. FitsPaid(status[i], entry, i)
      BY <1>1, StatusFitsIs
    <2>2. entry \in [Entry -> Row] /\ entry' \in [Entry -> Row] /\ i \in Invoice
      BY DEF Typed
    <2>3. \A st : FitsPaid(st, entry', i) <=> FitsPaid(st, entry, i)
      BY <1>1, <2>2, SumSameWorth
    <2> QED
      BY <1>1, <2>1, <2>3
  <1> QED
    BY <1>1

(* Where nothing changes, the statuses fit as they did. *)
LEMMA SameFits ==
    ASSUME Base, StatusFits, UNCHANGED <<status, entry>>, unsettled \subseteq unsettled'
    PROVE  StatusFits'
  BY DEF StatusFits, Paid, Balance, EffectiveDue, Credited, Debited

(* The first steps of a request. *)
LEMMA BeginStatus ==
    ASSUME Base, Base', StatusInv, NEW r \in Request, NEW on \in Entry \cup {NoEntry},
           NEW row \in Row, NEW select \in SUBSET Invoice, BeginRequest(r, on, row, select), Apartly(r)
    PROVE  StatusInv'
  <1> DEFINE ids == {x \in Entry : x = on}
             W == InvoicesOf(row) \cup select
             free == \A s \in Request : ~Meets(s, ids, W)
             c == [on |-> on, row |-> row, select |-> select, stage |-> "loaded",
                   alone |-> free,
                   seen |-> Fetched(InvoicesOf(row)), todo |-> {}, decided |-> <<>>,
                   told |-> {}, wrote |-> [i \in Invoice |-> Blank]]
  <1>1. /\ Enter(r, c, ids, W) /\ UNCHANGED <<status, entry, unsettled>>
    BY DEF BeginRequest
  <1>2. /\ c.row = row /\ c.stage = "loaded" /\ c.decided = <<>>
        /\ c.seen = Fetched(InvoicesOf(row))
    OBVIOUS
  <1> HIDE DEF c, ids, W, free
  <1>3. request'[r] = c
    BY <1>1 DEF Enter
  <1>4. Knows(r)'
    <2>1. InvoicesOf(row) \subseteq Sphere(request[r])'
      BY <1>2, <1>3 DEF Sphere
    <2>2. Sees(request[r], status)'
      BY <1>1, <1>2, <1>3, <2>1 DEF Sees, Fetched
    <2> QED
      BY <1>2, <1>3, <2>2 DEF Knows, Decides, Tells
  <1>5. StatusFits'
    BY <1>1, SameFits DEF StatusInv
  <1> QED
    BY <1>4, <1>5, StepStatus

(* A step of a request that is still not in a transaction, changes no row and *)
(* sees what it saw or fetches it again.                                      *)
LEMMA QuietStatus ==
    ASSUME Base, Base', StatusInv, NEW r \in Request, Apartly(r), Busy(r), NEW c,
           request'[r] = c, UNCHANGED <<status, entry>>, unsettled \subseteq unsettled',
           c.alone => request[r].alone, c.decided = <<>>,
           c.alone => \A i \in Invoice :
              \/ c.seen[i] = Blank
              \/ c.seen[i] = status[i] /\ i \in Sphere(c)
              \/ c.seen[i] = request[r].seen[i] /\ Sphere(request[r]) \subseteq Sphere(c),
           c.alone /\ c.stage = "open" =>
              c.told = {} /\ InvoicesOf(c.row) \cup InvoicesOf(entry[c.on]) \subseteq c.todo \cup unsettled'
    PROVE  StatusInv'
  <1>1. ASSUME c.alone PROVE Knows(r)'
    <2>1. Sees(request[r], status)
      BY <1>1 DEF StatusInv, Knows
    <2>2. Sphere(c)' = Sphere(c)
      BY DEF Sphere
    <2>3. Sees(request[r], status)'
      BY <1>1, <2>1, <2>2 DEF Sees
    <2>4. Decides(r)'
      BY DEF Decides
    <2>5. Tells(r)'
      BY <1>1 DEF Tells
    <2> QED
      BY <2>3, <2>4, <2>5 DEF Knows
  <1> QED
    BY <1>1, SameFits, StepStatus DEF StatusInv

LEMMA PassesStatus ==
    ASSUME Base, Base', StatusInv, NEW r \in Request, Passes(r), Apartly(r)
    PROVE  StatusInv'
  <1> DEFINE c == [request[r] EXCEPT !.stage = "checked"]
  <1>1. /\ Busy(r) /\ request[r] \in Copy /\ HeldBy(request[r], entry)
        /\ request[r].stage = "loaded"
    BY BusyCopy DEF Passes, At, Busy, IsNew, Base, Held
  <1>2. /\ c.on = request[r].on /\ c.row = request[r].row /\ c.select = request[r].select
        /\ c.stage = "checked" /\ c.alone = request[r].alone /\ c.todo = request[r].todo
        /\ c.decided = <<>> /\ c.told = request[r].told /\ c.seen = request[r].seen
    BY <1>1 DEF Copy, HeldBy
  <1>3. request'[r] = c /\ UNCHANGED <<status, entry, unsettled>>
    BY DEF Passes, Becomes, Base, Typed
  <1> HIDE DEF c
  <1>4. Sphere(request[r]) \subseteq Sphere(c)
    BY <1>2 DEF Sphere
  <1> QED
    BY <1>1, <1>2, <1>3, <1>4, QuietStatus

LEMMA AllocateStatus ==
    ASSUME Base, Base', StatusInv, NEW r \in Request, Allocate(r), Apartly(r)
    PROVE  StatusInv'
  <1> DEFINE shares == Shares(r)
             paid == {i \in Invoice : shares[i] > 0}
             some == [request[r] EXCEPT !.stage = "checked", !.seen = Fetched(paid),
                                        !.row.share = shares]
             one(i) == [request[r] EXCEPT !.stage = "checked", !.seen = Fetched(paid),
                                          !.row.invoice = i]
  <1>1. /\ UNCHANGED <<status, entry, unsettled>>
        /\ \/ Becomes(r, some)
           \/ \E i \in Invoice : paid = {i} /\ Becomes(r, one(i))
    BY DEF Allocate
  <1>2. /\ Busy(r) /\ request[r] \in Copy /\ request[r].row \in Row
        /\ HeldBy(request[r], entry) /\ request[r].stage = "loaded"
    BY BusyCopy, CopyFields DEF Allocate, At, Busy, Base, Held
  <1>3. shares \in [Invoice -> Nat]
    BY <1>2, SharesAre DEF Base
  <1>4. ASSUME NEW c, request'[r] = c, c.stage = "checked", c.alone = request[r].alone,
               c.decided = <<>>, c.seen = Fetched(paid), paid \subseteq InvoicesOf(c.row)
        PROVE  StatusInv'
    <2>1. InvoicesOf(c.row) \subseteq Sphere(c)
      BY DEF Sphere
    <2>2. \A i \in Invoice : c.seen[i] = Blank \/ (c.seen[i] = status[i] /\ i \in Sphere(c))
      BY <1>4, <2>1 DEF Fetched
    <2> QED
      BY <1>1, <1>2, <1>4, <2>2, QuietStatus
  <1>5. CASE Becomes(r, some)
    <2>1. /\ some.stage = "checked" /\ some.alone = request[r].alone
          /\ some.decided = <<>> /\ some.seen = Fetched(paid) /\ some.row.share = shares
      BY <1>2 DEF Copy, Row, HeldBy
    <2>2. request'[r] = some
      BY <1>5 DEF Becomes, Base, Typed
    <2> HIDE DEF some
    <2>3. paid \subseteq InvoicesOf(some.row)
      BY <1>3, <2>1 DEF InvoicesOf
    <2> HIDE DEF paid
    <2> QED
      BY <1>4, <2>1, <2>2, <2>3
  <1>6. ASSUME NEW i \in Invoice, paid = {i}, Becomes(r, one(i))
        PROVE  StatusInv'
    <2> DEFINE c == one(i)
    <2>1. /\ c.stage = "checked" /\ c.alone = request[r].alone
          /\ c.decided = <<>> /\ c.seen = Fetched(paid) /\ c.row.invoice = i
      BY <1>2 DEF Copy, Row, HeldBy
    <2>2. request'[r] = c
      BY <1>6 DEF Becomes, Base, Typed
    <2> HIDE DEF c, paid
    <2>3. paid \subseteq InvoicesOf(c.row)
      BY <1>6, <2>1 DEF InvoicesOf
    <2> QED
      BY <1>4, <2>1, <2>2, <2>3
  <1> QED
    BY <1>1, <1>5, <1>6

LEMMA InsertStatus ==
    ASSUME Base, Base', StatusInv, NEW r \in Request, Insert(r), Apartly(r)
    PROVE  StatusInv'
  <1>1. PICK x \in Entry :
          /\ At(r, "checked") /\ IsNew(r) /\ entry[x].status = "unborn"
          /\ \A s \in Request : At(s, "open") => request[s].on # x
          /\ Becomes(r, [request[r] EXCEPT !.stage = "open", !.on = x,
                                           !.todo = InvoicesOf(request[r].row)])
          /\ UNCHANGED <<status, entry, unsettled>>
    BY DEF Insert
  <1> DEFINE c == [request[r] EXCEPT !.stage = "open", !.on = x,
                                     !.todo = InvoicesOf(request[r].row)]
  <1>2. /\ Busy(r) /\ request[r] \in Copy /\ HeldBy(request[r], entry)
        /\ request[r].stage = "checked" /\ request[r].on = NoEntry
    BY <1>1, BusyCopy DEF At, Busy, IsNew, Base, Held
  <1>3. /\ c.on = x /\ c.row = request[r].row /\ c.select = request[r].select
        /\ c.stage = "open" /\ c.alone = request[r].alone /\ c.todo = InvoicesOf(c.row)
        /\ c.decided = <<>> /\ c.told = {} /\ c.seen = request[r].seen
        /\ request[r].todo = {} /\ request[r].told = {}
    BY <1>2 DEF Copy, HeldBy
  <1>4. request'[r] = c
    BY <1>1 DEF Becomes, Base, Typed
  <1>5. InvoicesOf(entry[x]) = {}
    BY <1>1, UnbornUnclaimed
  <1> HIDE DEF c
  <1>6. Sphere(request[r]) \subseteq Sphere(c)
    BY <1>2, <1>3 DEF Sphere
  <1> QED
    BY <1>1, <1>2, <1>3, <1>4, <1>5, <1>6, QuietStatus

(* What was loaded alone is what there is. *)
LEMMA AloneLoaded ==
    ASSUME Base, NEW r \in Request, At(r, "loaded"), ~IsNew(r), request[r].alone
    PROVE  /\ entry[request[r].on] = request[r].row
           /\ Sphere(request[r]) = InvoicesOf(request[r].row) \cup request[r].select
  <1>1. /\ HeldBy(request[r], entry) /\ request[r].stage = "loaded" /\ request[r].on # NoEntry
    BY DEF Base, Held, At, Busy, IsNew
  <1> QED
    BY <1>1 DEF HeldBy, Sphere

(* A service that was alone saves a row with the allocations it loaded. *)
LEMMA AloneSaved ==
    ASSUME Base, NEW r \in Request, At(r, "loaded"), ~IsNew(r), request[r].alone,
           NEW row \in Row, row.share = request[r].row.share
    PROVE  Saved(r, row).share = request[r].row.share
  <1>1. Exists(entry[request[r].on]) /\ entry[request[r].on] = request[r].row
    BY AloneLoaded DEF Base, Held, HeldBy, At, Busy
  <1> QED
    BY <1>1 DEF Saved, Row

LEMMA SaveAsStatus ==
    ASSUME Base, Base', StatusInv, NEW r \in Request, NEW new \in Undone,
           NEW todo \in SUBSET InvoicesOf(request[r].row),
           NEW known \in {request[r].seen, Fetched({})}, SaveAs(r, new, todo, known),
           unsettled \subseteq unsettled',
           InvoicesOf(request[r].row) \subseteq todo \cup unsettled', Apartly(r)
    PROVE  StatusInv'
  <1> DEFINE row == [request[r].row EXCEPT !.status = new]
             c == [request[r] EXCEPT !.stage = "open", !.row = Saved(r, row),
                                     !.todo = todo, !.seen = known]
  <1>1. /\ Becomes(r, c) /\ UNCHANGED <<status, entry>> /\ At(r, "loaded") /\ ~IsNew(r)
    BY DEF SaveAs
  <1>2. /\ Busy(r) /\ request[r] \in Copy /\ request[r].row \in Row /\ request[r].on \in Entry
        /\ HeldBy(request[r], entry) /\ request[r].stage = "loaded" /\ Typed
    BY <1>1, BusyCopy, CopyFields, OnEntry DEF At, Busy, Base, Held
  <1>3. /\ row \in Row /\ row.invoice = request[r].row.invoice /\ row.share = request[r].row.share
    <2>1. new \in EntryStatus
      BY DEF EntryStatus
    <2> QED
      BY <1>2, <2>1 DEF Row
  <1>4. request'[r] = c
    BY <1>1 DEF Becomes, Base, Typed
  <1> HIDE DEF row
  <1>5. /\ c.on = request[r].on /\ c.row = Saved(r, row) /\ c.stage = "open"
        /\ c.select = request[r].select /\ c.alone = request[r].alone /\ c.todo = todo
        /\ c.decided = <<>> /\ c.told = {} /\ c.seen = known
    BY <1>2 DEF Copy, HeldBy
  <1> HIDE DEF c
  <1>6. ASSUME c.alone
        PROVE  /\ InvoicesOf(c.row) = InvoicesOf(request[r].row)
               /\ InvoicesOf(entry[c.on]) = InvoicesOf(request[r].row)
               /\ Sphere(request[r]) \subseteq Sphere(c)
    <2>1. /\ entry[request[r].on] = request[r].row
          /\ Sphere(request[r]) = InvoicesOf(request[r].row) \cup request[r].select
          /\ Saved(r, row).share = request[r].row.share
      BY <1>1, <1>3, <1>5, <1>6, AloneLoaded, AloneSaved
    <2>2. Saved(r, row).invoice = row.invoice
      BY <1>1, <1>2, <1>3, SavedIs
    <2>3. InvoicesOf(c.row) = InvoicesOf(request[r].row)
      BY <1>3, <1>5, <2>1, <2>2 DEF InvoicesOf
    <2> QED
      BY <1>5, <2>1, <2>3 DEF Sphere
  <1>7. c.alone => \A i \in Invoice :
            c.seen[i] = Blank
              \/ (c.seen[i] = request[r].seen[i] /\ Sphere(request[r]) \subseteq Sphere(c))
    BY <1>5, <1>6 DEF Fetched
  <1>8. c.alone /\ c.stage = "open" =>
            c.told = {} /\ InvoicesOf(c.row) \cup InvoicesOf(entry[c.on]) \subseteq c.todo \cup unsettled'
    BY <1>5, <1>6
  <1> QED
    BY <1>1, <1>2, <1>4, <1>5, <1>7, <1>8, QuietStatus

LEMMA UndoStatus ==
    ASSUME Base, Base', StatusInv, NEW r \in Request, NEW new \in Undone, Undo(r, new), Apartly(r)
    PROVE  StatusInv'
  <1>1. PICK known \in {request[r].seen, Fetched({})} :
            SaveAs(r, new, InvoicesOf(request[r].row), known)
    BY DEF Undo
  <1>2. unsettled' = unsettled
    BY DEF Undo
  <1> QED
    BY <1>1, <1>2, SaveAsStatus

LEMMA ReverseByApiStatus ==
    ASSUME Base, Base', StatusInv, NEW r \in Request, ReverseByApi(r), Apartly(r)
    PROVE  StatusInv'
  <1> DEFINE own == {i \in Invoice : request[r].row.invoice = i}
  <1>1. /\ SaveAs(r, "REVERSED", own, request[r].seen)
        /\ unsettled' = unsettled \cup (InvoicesOf(request[r].row) \ own)
    BY DEF ReverseByApi
  <1>2. "REVERSED" \in Undone /\ own \in SUBSET InvoicesOf(request[r].row)
    BY OwnInvoice DEF Undone
  <1> HIDE DEF own
  <1> QED
    BY <1>1, <1>2, SaveAsStatus

LEMMA CancelNoteStatus ==
    ASSUME Base, Base', StatusInv, NEW r \in Request, NEW kind, CancelNote(r, kind), Apartly(r)
    PROVE  StatusInv'
  <1>1. /\ SaveAs(r, "CANCELLED", InvoicesOf(request[r].row), Fetched({}))
        /\ unsettled' = unsettled /\ "CANCELLED" \in Undone
    BY DEF CancelNote, Undone
  <1> QED
    BY <1>1, SaveAsStatus

LEMMA ValidateStatus ==
    ASSUME Base, Base', StatusInv, NEW r \in Request, Validate(r), Apartly(r)
    PROVE  StatusInv'
  <1>1. PICK amount \in Amount :
            Becomes(r, [request[r] EXCEPT !.stage = "checked", !.row.amount = amount])
    BY DEF Validate
  <1> DEFINE c == [request[r] EXCEPT !.stage = "checked", !.row.amount = amount]
  <1>2. /\ Busy(r) /\ request[r] \in Copy /\ request[r].row \in Row
        /\ HeldBy(request[r], entry) /\ request[r].stage = "loaded"
        /\ UNCHANGED <<status, entry, unsettled>>
    BY BusyCopy, CopyFields DEF Validate, At, Busy, Base, Held
  <1>3. /\ c.on = request[r].on /\ c.select = request[r].select
        /\ c.row.invoice = request[r].row.invoice /\ c.row.share = request[r].row.share
        /\ c.stage = "checked" /\ c.alone = request[r].alone /\ c.todo = request[r].todo
        /\ c.decided = <<>> /\ c.told = request[r].told /\ c.seen = request[r].seen
    BY <1>2 DEF Copy, Row, HeldBy
  <1>4. request'[r] = c
    BY <1>1 DEF Becomes, Base, Typed
  <1> HIDE DEF c
  <1>5. Sphere(request[r]) \subseteq Sphere(c)
    BY <1>3 DEF Sphere, InvoicesOf
  <1> QED
    BY <1>2, <1>3, <1>4, <1>5, QuietStatus

LEMMA EndStatus ==
    ASSUME Base, Base', StatusInv, NEW r \in Request, End(r), Apartly(r)
    PROVE  StatusInv'
  <1>1. request'[r] = Idle /\ UNCHANGED <<status, entry, unsettled>>
    BY DEF End, Done, Becomes, Base, Typed
  <1>2. StatusFits'
    BY <1>1, SameFits DEF StatusInv
  <1> QED
    BY <1>1, <1>2, StepStatus

(* One row is saved, inserted or deleted. *)
LEMMA SavedFits ==
    ASSUME Base, Base', StatusFits, NEW r \in Request, Busy(r), NEW x \in Entry, NEW row \in Row,
           entry' = [entry EXCEPT ![x] = row], status' = status,
           NEW settled, unsettled \subseteq settled, Unless(r, settled),
           ~request[r].alone => /\ InvoicesOf(entry[x]) \subseteq Sphere(request[r]) \cup settled
                                /\ InvoicesOf(row) \subseteq Sphere(request[r]) \cup settled,
           request[r].alone => \A i \in Invoice \ settled :
                /\ Worth(row, i) = Worth(entry[x], i)
                /\ row.kind = entry[x].kind \/ Worth(row, i) = 0
    PROVE  StatusFits'
  <1>1. /\ Typed /\ Typed' /\ entry[x] \in Row
        /\ \A y \in Entry : entry'[y] = IF y = x THEN row ELSE entry[y]
    BY DEF Base, Typed
  <1>2. ASSUME NEW i \in Invoice \ unsettled'
        PROVE  /\ i \notin unsettled
               /\ Worth(row, i) = Worth(entry[x], i)
               /\ row.kind = entry[x].kind \/ Worth(row, i) = 0
    <2>1. CASE request[r].alone
      <3>1. unsettled' = settled
        BY <2>1 DEF Unless
      <3> QED
        BY <1>2, <2>1, <3>1
    <2>2. CASE ~request[r].alone
      <3>1. unsettled' = settled \cup unsettled \cup Sphere(request[r])
        BY <2>2 DEF Unless
      <3>2. i \notin InvoicesOf(entry[x]) /\ i \notin InvoicesOf(row) /\ i \notin unsettled
        BY <1>2, <2>2, <3>1
      <3>3. Worth(row, i) = 0 /\ Worth(entry[x], i) = 0
        BY <1>1, <3>2, NothingWorth
      <3> QED
        BY <3>2, <3>3
    <2> QED
      BY <2>1, <2>2
  <1>3. ASSUME NEW i \in Invoice \ unsettled', NEW y \in Entry
        PROVE  \/ entry'[y] = entry[y]
               \/ /\ Worth(entry'[y], i) = Worth(entry[y], i)
                  /\ entry'[y].kind = entry[y].kind \/ Worth(entry'[y], i) = 0
    <2>1. CASE y = x
      <3>1. entry'[y] = row /\ entry[y] = entry[x]
        BY <1>1, <2>1
      <3> QED
        BY <1>2, <3>1
    <2> QED
      BY <1>1, <2>1
  <1> QED
    BY <1>1, <1>2, <1>3, FitsStay

(* Outside a transaction, a request knows what it has seen. *)
LEMMA SavedKnows ==
    ASSUME Base, Base', StatusInv, NEW r \in Request, Busy(r), NEW c, request'[r] = c,
           status' = status, c.stage = "saved", c.decided = <<>>, c.alone => request[r].alone,
           c.row = request[r].row, c.select = request[r].select,
           \/ \A i \in Invoice : c.seen[i] = Blank
           \/ c.seen = request[r].seen /\ At(r, "loaded")
    PROVE  c.alone => Knows(r)'
  <1> SUFFICES ASSUME c.alone PROVE Knows(r)'
    OBVIOUS
  <1>1. Sees(request[r], status)
    BY DEF StatusInv, Knows
  <1>2. InvoicesOf(c.row) \cup c.select \subseteq Sphere(request[r])'
    BY DEF Sphere
  <1>3. At(r, "loaded") => Sphere(request[r]) = InvoicesOf(request[r].row) \cup request[r].select
    <2>1. CASE IsNew(r)
      <3>1. At(r, "loaded") => request[r].todo = {} /\ request[r].told = {}
        BY DEF Base, Held, HeldBy, At, Busy
      <3> QED
        BY <2>1, <3>1 DEF Sphere, IsNew
    <2>2. CASE ~IsNew(r)
      BY <2>2, AloneLoaded
    <2> QED
      BY <2>1, <2>2
  <1>4. Sees(request[r], status)'
    BY <1>1, <1>2, <1>3 DEF Sees
  <1> QED
    BY <1>4 DEF Knows, Decides, Tells

LEMMA InsertLegacyStatus ==
    ASSUME Base, Base', StatusInv, NEW r \in Request, InsertLegacy(r), Apartly(r)
    PROVE  StatusInv'
  <1>1. PICK x \in Entry :
          /\ At(r, "loaded") /\ IsNew(r) /\ entry[x].status = "unborn"
          /\ \A s \in Request : At(s, "open") => request[s].on # x
          /\ entry' = [entry EXCEPT ![x] = request[r].row]
          /\ Becomes(r, [request[r] EXCEPT !.stage = "saved", !.on = x,
                                           !.todo = InvoicesOf(request[r].row)])
          /\ Unless(r, unsettled \cup InvoicesOf(request[r].row))
          /\ status' = status
    BY DEF InsertLegacy
  <1> DEFINE c == [request[r] EXCEPT !.stage = "saved", !.on = x,
                                     !.todo = InvoicesOf(request[r].row)]
             settled == unsettled \cup InvoicesOf(request[r].row)
  <1>2. /\ Busy(r) /\ request[r] \in Copy /\ request[r].row \in Row
        /\ HeldBy(request[r], entry) /\ request[r].stage = "loaded"
    BY <1>1, BusyCopy, CopyFields DEF At, Busy, Base, Held
  <1>3. /\ c.row = request[r].row /\ c.select = request[r].select
        /\ c.stage = "saved" /\ c.alone = request[r].alone /\ c.decided = <<>>
        /\ c.seen = request[r].seen
    BY <1>2 DEF Copy, HeldBy
  <1>4. request'[r] = c
    BY <1>1 DEF Becomes, Base, Typed
  <1>5. InvoicesOf(entry[x]) = {} /\ entry[x] \in Row
    BY <1>1, UnbornUnclaimed DEF Base, Typed
  <1>6. /\ unsettled \subseteq settled /\ Unless(r, settled)
        /\ InvoicesOf(request[r].row) \subseteq settled
    BY <1>1
  <1> HIDE DEF c, settled
  <1>7. \A i \in Invoice \ settled : Worth(request[r].row, i) = 0 /\ Worth(entry[x], i) = 0
    BY <1>2, <1>5, <1>6, NothingWorth
  <1>8. StatusFits'
    <2>1. \A i \in Invoice \ settled :
              /\ Worth(request[r].row, i) = Worth(entry[x], i)
              /\ request[r].row.kind = entry[x].kind \/ Worth(request[r].row, i) = 0
      BY <1>7
    <2>2. /\ InvoicesOf(entry[x]) \subseteq Sphere(request[r]) \cup settled
          /\ InvoicesOf(request[r].row) \subseteq Sphere(request[r]) \cup settled
      BY <1>5, <1>6
    <2>3. /\ entry' = [entry EXCEPT ![x] = request[r].row] /\ status' = status
          /\ Busy(r) /\ request[r].row \in Row /\ StatusFits
      BY <1>1, <1>2 DEF StatusInv
    <2> QED
      BY <1>6, <2>1, <2>2, <2>3, SavedFits
  <1>9. c.alone => Knows(r)'
    BY <1>1, <1>2, <1>3, <1>4, SavedKnows
  <1> QED
    BY <1>4, <1>8, <1>9, StepStatus

(* Another amount matters to the payment's own invoice. *)
LEMMA OtherAmount ==
    ASSUME NEW a \in Row, NEW b \in Row, NEW i \in Invoice, a.status = b.status,
           a.share = b.share, a.invoice # i, b.invoice # i
    PROVE  Worth(a, i) = Worth(b, i)
  BY DEF Worth, Counts

LEMMA EditStatus ==
    ASSUME Base, Base', StatusInv, NEW r \in Request, Edit(r), Apartly(r)
    PROVE  StatusInv'
  <1> DEFINE own == {i \in Invoice : request[r].row.invoice = i}
             c == [request[r] EXCEPT !.stage = "saved", !.todo = own, !.seen = Fetched({})]
             row == Saved(r, request[r].row)
             x == request[r].on
             settled == unsettled \cup own
  <1>1. /\ entry' = [entry EXCEPT ![x] = row]
        /\ request'[r] = c /\ Unless(r, settled) /\ status' = status /\ ~IsNew(r)
        /\ At(r, "checked")
    BY DEF Edit, Becomes, Base, Typed
  <1>2. /\ Busy(r) /\ request[r] \in Copy /\ request[r].row \in Row /\ x \in Entry
        /\ HeldBy(request[r], entry) /\ request[r].stage = "checked" /\ Typed
        /\ x # NoEntry /\ entry[x] \in Row
    BY <1>1, BusyCopy, CopyFields, OnEntry, InvoicesAssumption DEF At, Busy, Base, Held, Typed
  <1>3. /\ c.row = request[r].row /\ c.select = request[r].select
        /\ c.stage = "saved" /\ c.alone = request[r].alone /\ c.decided = <<>>
        /\ \A i \in Invoice : c.seen[i] = Blank
    BY <1>2 DEF Copy, HeldBy, Fetched
  <1>4. /\ row \in Row /\ row.status = request[r].row.status /\ row.kind = request[r].row.kind
        /\ row.invoice = request[r].row.invoice
        /\ row.share = IF Exists(entry[x]) THEN entry[x].share ELSE NoShare
        /\ InvoicesOf(row) \subseteq InvoicesOf(request[r].row) \cup InvoicesOf(entry[x])
    BY <1>1, <1>2, SavedIs
  <1>5. unsettled \subseteq settled /\ \A i \in Invoice \ settled : request[r].row.invoice # i
    OBVIOUS
  <1> HIDE DEF c, row, settled
  <1>6. /\ InvoicesOf(entry[x]) \subseteq Sphere(request[r])
        /\ InvoicesOf(row) \subseteq Sphere(request[r])
    BY <1>2, <1>4, SphereParts
  <1>7. ASSUME request[r].alone, NEW i \in Invoice \ settled
        PROVE  Worth(row, i) = Worth(entry[x], i) /\ row.kind = entry[x].kind
    <2>1. request[r].row = [entry[x] EXCEPT !.amount = request[r].row.amount]
      BY <1>2, <1>7 DEF HeldBy
    <2>2. /\ request[r].row.status = entry[x].status /\ request[r].row.kind = entry[x].kind
          /\ request[r].row.invoice = entry[x].invoice
      BY <1>2, <2>1 DEF Row
    <2>3. row.share = entry[x].share
      BY <1>2, <1>4, <2>2 DEF HeldBy, Exists
    <2> QED
      BY <1>2, <1>4, <1>5, <2>2, <2>3, OtherAmount
  <1>8. StatusFits'
    BY <1>1, <1>2, <1>4, <1>5, <1>6, <1>7, SavedFits DEF StatusInv
  <1>9. c.alone => Knows(r)'
    BY <1>1, <1>2, <1>3, SavedKnows
  <1> QED
    BY <1>1, <1>8, <1>9, StepStatus

(* A deleted row is worth nothing to any invoice. *)
LEMMA GoneWorth ==
    ASSUME NEW i \in Invoice
    PROVE  Worth(Gone, i) = 0
  BY GoneIs, NothingWorth

(* The payment and its allocations are gone. *)
LEMMA RemovedFits ==
    ASSUME Base, Base', StatusFits, NEW r \in Request, At(r, "loaded"), ~IsNew(r),
           entry' = [entry EXCEPT ![request[r].on] = Gone], status' = status,
           Unless(r, unsettled \cup InvoicesOf(request[r].row))
    PROVE  StatusFits'
  <1> DEFINE settled == unsettled \cup InvoicesOf(request[r].row)
             x == request[r].on
  <1>1. /\ Busy(r) /\ x \in Entry /\ entry[x] \in Row
    BY OnEntry DEF At, Busy, Base, Typed
  <1>2. /\ unsettled \subseteq settled /\ Unless(r, settled)
        /\ InvoicesOf(request[r].row) \subseteq settled
    OBVIOUS
  <1> HIDE DEF settled
  <1>3. InvoicesOf(entry[x]) \subseteq Sphere(request[r]) /\ InvoicesOf(Gone) = {}
    BY <1>1, SphereParts, GoneIs DEF Base
  <1>4. ASSUME request[r].alone, NEW i \in Invoice \ settled
        PROVE  Worth(entry[x], i) = 0 /\ Worth(Gone, i) = 0
    <2>1. i \notin InvoicesOf(entry[x])
      BY <1>2, <1>4, AloneLoaded
    <2> QED
      BY <1>1, <2>1, NothingWorth, GoneWorth
  <1> QED
    BY <1>1, <1>2, <1>3, <1>4, GoneIs, SavedFits

LEMMA DeleteStatus ==
    ASSUME Base, Base', StatusInv, NEW r \in Request, Delete(r), Apartly(r)
    PROVE  StatusInv'
  <1> DEFINE own == {i \in Invoice : request[r].row.invoice = i}
             c == [request[r] EXCEPT !.stage = "saved", !.todo = own]
  <1>1. /\ entry' = [entry EXCEPT ![request[r].on] = Gone]
        /\ request'[r] = c /\ Unless(r, unsettled \cup InvoicesOf(request[r].row))
        /\ status' = status /\ ~IsNew(r) /\ At(r, "loaded")
    BY DEF Delete, Becomes, Base, Typed
  <1>2. /\ Busy(r) /\ request[r] \in Copy /\ HeldBy(request[r], entry)
        /\ request[r].stage = "loaded"
    BY <1>1, BusyCopy DEF At, Busy, Base, Held
  <1>3. /\ c.row = request[r].row /\ c.select = request[r].select
        /\ c.stage = "saved" /\ c.alone = request[r].alone /\ c.decided = <<>>
        /\ c.seen = request[r].seen
    BY <1>2 DEF Copy, HeldBy
  <1> HIDE DEF c
  <1>4. StatusFits'
    BY <1>1, RemovedFits DEF StatusInv
  <1>5. c.alone => Knows(r)'
    BY <1>1, <1>2, <1>3, SavedKnows
  <1> QED
    BY <1>1, <1>4, <1>5, StepStatus

LEMMA DestroyStatus ==
    ASSUME Base, Base', StatusInv, NEW r \in Request, Destroy(r), Apartly(r)
    PROVE  StatusInv'
  <1>1. /\ entry' = [entry EXCEPT ![request[r].on] = Gone]
        /\ request'[r] = Idle /\ Unless(r, unsettled \cup InvoicesOf(request[r].row))
        /\ status' = status /\ ~IsNew(r) /\ At(r, "loaded")
    BY DEF Destroy, Done, Becomes, Base, Typed
  <1>2. StatusFits'
    BY <1>1, RemovedFits DEF StatusInv
  <1> QED
    BY <1>1, <1>2, StepStatus

LEMMA PatchStatus ==
    ASSUME Base, Base', StatusInv, NEW r \in Request, Patch(r), Apartly(r)
    PROVE  StatusInv'
  <1>1. PICK amount \in Amount \cup {request[r].row.amount},
             j \in Redirect \cup {request[r].row.invoice} :
          LET row == [request[r].row EXCEPT !.amount = amount, !.invoice = j]
              invoices == InvoicesOf(request[r].row) \cup InvoicesOf(row)
          IN  /\ entry' = [entry EXCEPT ![request[r].on] = Saved(r, row)]
              /\ Enter(r, Idle, {request[r].on}, invoices)
              /\ Unless(r, unsettled \cup invoices)
    BY DEF Patch
  <1> DEFINE row == [request[r].row EXCEPT !.amount = amount, !.invoice = j]
             invoices == InvoicesOf(request[r].row) \cup InvoicesOf(row)
             x == request[r].on
             settled == unsettled \cup invoices
  <1>2. /\ Busy(r) /\ request[r] \in Copy /\ request[r].row \in Row /\ x \in Entry /\ ~IsNew(r)
        /\ At(r, "loaded") /\ status' = status /\ Typed /\ entry[x] \in Row
    BY BusyCopy, CopyFields, OnEntry DEF Patch, At, Busy, Base, Typed
  <1>3. /\ row \in Row /\ row.status = request[r].row.status /\ row.kind = request[r].row.kind
        /\ row.share = request[r].row.share /\ row.invoice = j
    BY <1>2, InvoicesAssumption DEF Row
  <1>4. /\ entry' = [entry EXCEPT ![x] = Saved(r, row)]
        /\ request'[r] = Idle /\ Unless(r, settled)
    BY <1>1 DEF Enter
  <1>5. /\ InvoicesOf(request[r].row) \subseteq settled /\ InvoicesOf(row) \subseteq settled
        /\ unsettled \subseteq settled
    OBVIOUS
  <1> HIDE DEF row, invoices, settled
  <1>6. /\ Saved(r, row) \in Row /\ Saved(r, row).status = row.status
        /\ Saved(r, row).kind = row.kind /\ Saved(r, row).invoice = row.invoice
        /\ InvoicesOf(Saved(r, row)) \subseteq InvoicesOf(row) \cup InvoicesOf(entry[x])
    BY <1>2, <1>3, SavedIs
  <1>7. InvoicesOf(entry[x]) \subseteq Sphere(request[r])
    BY <1>2, SphereParts
  <1>8. ASSUME request[r].alone, NEW i \in Invoice \ settled
        PROVE  Worth(Saved(r, row), i) = 0 /\ Worth(entry[x], i) = 0
    <2>1. entry[x] = request[r].row
      BY <1>2, <1>8, AloneLoaded
    <2>2. i \notin InvoicesOf(entry[x]) /\ i \notin InvoicesOf(Saved(r, row))
      BY <1>5, <1>6, <1>8, <2>1
    <2> QED
      BY <1>2, <1>6, <2>2, NothingWorth
  <1>9. StatusFits'
    <2>1. request[r].alone => \A i \in Invoice \ settled :
              /\ Worth(Saved(r, row), i) = Worth(entry[x], i)
              /\ Saved(r, row).kind = entry[x].kind \/ Worth(Saved(r, row), i) = 0
      BY <1>8
    <2>2. /\ InvoicesOf(entry[x]) \subseteq Sphere(request[r]) \cup settled
          /\ InvoicesOf(Saved(r, row)) \subseteq Sphere(request[r]) \cup settled
      BY <1>5, <1>6, <1>7
    <2> QED
      BY <1>2, <1>4, <1>5, <1>6, <2>1, <2>2, SavedFits DEF StatusInv
  <1> QED
    BY <1>4, <1>9, StepStatus

(* What a request does not do to what it sees of the tables. *)
LEMMA SameView ==
    ASSUME NEW r \in Request, Busy(r), request'[r] # Idle, entry' = entry,
           request'[r].on = request[r].on, request'[r].row = request[r].row,
           request'[r].stage = request[r].stage
    PROVE  View(r)' = View(r)
  BY DEF View, At, Busy

(* Telling an invoice keeps what was seen of the others. *)
LEMMA ToldSees ==
    ASSUME Base, NEW r \in Request, Busy(r), NEW i \in request[r].todo, NEW c, NEW st,
           Sees(request[r], status), c.on = request[r].on, c.row = request[r].row,
           c.select = request[r].select, c.todo = request[r].todo \ {i},
           c.told = request[r].told \cup {i}, c.seen = [request[r].seen EXCEPT ![i] = Blank],
           \A j \in Invoice \ {i} : st[j] = status[j]
    PROVE  Sees(c, st) /\ Sphere(c) = Sphere(request[r])
  <1>1. request[r].seen \in [Invoice -> Status \cup {Blank}]
    BY BusyCopy, CopyFields DEF Base
  <1>2. Sphere(c) = Sphere(request[r])
    BY DEF Sphere
  <1> QED
    BY <1>1, <1>2 DEF Sees

LEMMA RecomputeStatus ==
    ASSUME Base, Base', StatusInv, NEW r \in Request, Recompute(r), Apartly(r)
    PROVE  StatusInv'
  <1>1. /\ Busy(r) /\ request[r] \in Copy /\ HeldBy(request[r], entry)
        /\ request[r].decided = <<>>
    BY BusyCopy DEF Recompute, Busy, Base, Held
  <1>2. PICK i \in request[r].todo :
          LET old == IF request[r].seen[i] = Blank THEN StatusFor(r, i) ELSE request[r].seen[i]
              new == Derived(View(r), i, old)
          IN  /\ IF new # old
                 THEN /\ Becomes(r, [request[r] EXCEPT !.decided = <<i, new>>])
                      /\ UNCHANGED unsettled
                 ELSE /\ Becomes(r, Told(r, i))
                      /\ IF At(r, "saved") THEN Unless(r, unsettled \ {i}) ELSE UNCHANGED unsettled
              /\ UNCHANGED <<status, entry>>
    BY DEF Recompute
  <1> DEFINE old == IF request[r].seen[i] = Blank THEN StatusFor(r, i) ELSE request[r].seen[i]
             new == Derived(View(r), i, old)
             c == [request[r] EXCEPT !.decided = <<i, new>>]
             d == Told(r, i)
  <1>3. /\ UNCHANGED <<status, entry>> /\ i \in Invoice /\ View(r) \in [Entry -> Row]
        /\ status \in [Invoice -> Status]
        /\ \/ request'[r] = c /\ unsettled' = unsettled
           \/ /\ request'[r] = d /\ new = old
              /\ IF At(r, "saved") THEN Unless(r, unsettled \ {i}) ELSE unsettled' = unsettled
    BY <1>1, <1>2, CopyFields, ViewTyped DEF Becomes, Base, Typed
  <1>4. FitsPaid(new, View(r), i)
    BY <1>3, DerivedFits
  <1>5. request[r].alone => /\ Sees(request[r], status) /\ Tells(r) /\ old = StatusFor(r, i)
    <2>1. request[r].wrote[i] = Blank
      BY <1>1, <1>2, <1>3 DEF HeldBy
    <2> QED
      BY <1>1, <1>3, <2>1 DEF StatusInv, Knows, Sees, StatusFor
  <1>6. new = Derived(View(r), i, old)
    OBVIOUS
  <1> HIDE DEF new, old
  <1>7. CASE request'[r] = c /\ unsettled' = unsettled
    <2>1. /\ c.on = request[r].on /\ c.row = request[r].row
          /\ c.select = request[r].select /\ c.stage = request[r].stage
          /\ c.alone = request[r].alone /\ c.decided = <<i, new>>
          /\ c.todo = request[r].todo /\ c.told = request[r].told
          /\ c.wrote = request[r].wrote /\ c.seen = request[r].seen /\ c # Idle
      <3>1. new \in Status
        BY <1>6, DerivedTyped
      <3>2. c \in Copy
        BY <1>1, <1>3, <3>1 DEF Copy
      <3> QED
        BY <1>1, <3>2, CopyFields DEF Copy
    <2> HIDE DEF c
    <2>2. View(r)' = View(r)
      BY <1>1, <1>3, <1>7, <2>1, SameView
    <2>3. \A j \in Invoice : StatusFor(r, j)' = StatusFor(r, j)
      BY <1>3, <1>7, <2>1 DEF StatusFor
    <2>4. ASSUME c.alone PROVE Knows(r)'
      <3>1. Sphere(request[r])' = Sphere(request[r])
        BY <1>3, <1>7, <2>1 DEF Sphere
      <3>2. Sees(request[r], status)'
        BY <1>3, <1>5, <1>7, <2>1, <2>4, <3>1 DEF Sees
      <3>3. Decides(r)'
        BY <1>3, <1>5, <1>6, <1>7, <2>1, <2>2, <2>3, <2>4 DEF Decides
      <3>4. Tells(r)'
        <4>1. \A j \in c.told : j \in Invoice
          BY <1>1, <2>1, CopyFields
        <4> QED
          BY <1>3, <1>5, <1>7, <2>1, <2>2, <2>3, <2>4, <4>1 DEF Tells
      <3> QED
        BY <3>2, <3>3, <3>4 DEF Knows
    <2>5. StatusFits'
      BY <1>3, <1>7, SameFits DEF StatusInv
    <2> QED
      BY <1>7, <2>4, <2>5, StepStatus
  <1>8. CASE /\ request'[r] = d /\ new = old
             /\ IF At(r, "saved") THEN Unless(r, unsettled \ {i}) ELSE unsettled' = unsettled
    <2>1. /\ d \in Copy /\ d.on = request[r].on /\ d.row = request[r].row
          /\ d.select = request[r].select /\ d.stage = request[r].stage
          /\ d.alone = request[r].alone /\ d.decided = <<>>
          /\ d.todo = request[r].todo \ {i} /\ d.told = request[r].told \cup {i}
          /\ d.seen = [request[r].seen EXCEPT ![i] = Blank] /\ d.wrote = request[r].wrote
          /\ d # Idle
      BY <1>1, <1>2, ToldIs, CopyFields
    <2> HIDE DEF d
    <2>2. View(r)' = View(r)
      BY <1>1, <1>3, <1>8, <2>1, SameView
    <2>3. \A j \in Invoice : StatusFor(r, j)' = StatusFor(r, j)
      BY <1>3, <1>8, <2>1 DEF StatusFor
    <2>4. ASSUME d.alone PROVE Knows(r)'
      <3>1. Sees(d, status) /\ Sphere(d) = Sphere(request[r])
        BY <1>1, <1>5, <2>1, <2>4, ToldSees
      <3>2. Sphere(request[r])' = Sphere(d)
        BY <1>3, <1>8 DEF Sphere
      <3>3. Sees(request[r], status)'
        BY <1>3, <1>8, <3>1, <3>2 DEF Sees
      <3>4. Decides(r)'
        BY <1>8, <2>1 DEF Decides
      <3>5. Tells(r)'
        <4> SUFFICES ASSUME d.stage = "open"
                     PROVE  /\ \A j \in d.told : FitsPaid(StatusFor(r, j)', View(r)', j)
                            /\ InvoicesOf(d.row) \cup InvoicesOf(entry'[d.on])
                                 \subseteq d.todo \cup d.told \cup unsettled'
          BY <1>8 DEF Tells
        <4>1. unsettled' = unsettled /\ Tells(r)
          BY <1>5, <1>8, <2>1, <2>4 DEF At
        <4>2. /\ \A j \in request[r].told : FitsPaid(StatusFor(r, j), View(r), j)
              /\ InvoicesOf(d.row) \cup InvoicesOf(entry[d.on])
                    \subseteq request[r].todo \cup request[r].told \cup unsettled
          BY <2>1, <4>1 DEF Tells
        <4>3. \A j \in d.told : j \in Invoice
          BY <2>1, CopyFields
        <4>4. FitsPaid(StatusFor(r, i), View(r), i)
          BY <1>4, <1>5, <1>8, <2>1, <2>4
        <4> QED
          BY <1>3, <2>1, <2>2, <2>3, <4>1, <4>2, <4>3, <4>4
      <3> QED
        BY <3>3, <3>4, <3>5 DEF Knows
    <2>5. StatusFits'
      <3>1. CASE unsettled \subseteq unsettled'
        BY <1>3, <3>1, SameFits DEF StatusInv
      <3>2. CASE ~(unsettled \subseteq unsettled')
        <4>1. At(r, "saved") /\ request[r].alone /\ unsettled' = unsettled \ {i}
          BY <1>8, <3>2 DEF Unless
        <4>2. View(r) = entry /\ StatusFor(r, i) = status[i]
          BY <1>1, <1>3, <4>1 DEF View, At, StatusFor, HeldBy
        <4>3. FitsPaid(status'[i], entry', i)
          BY <1>3, <1>4, <1>5, <1>8, <4>1, <4>2
        <4>4. Typed /\ Typed' /\ StatusFits
          BY DEF Base, StatusInv
        <4>5. \A j \in Invoice \ unsettled' : j = i \/ j \notin unsettled
          BY <4>1
        <4> QED
          BY <1>3, <4>3, <4>4, <4>5, FitsStay
      <3> QED
        BY <3>1, <3>2
    <2> QED
      BY <1>8, <2>4, <2>5, StepStatus
  <1> QED
    BY <1>3, <1>7, <1>8

LEMMA StoreStatus ==
    ASSUME Base, Base', StatusInv, NEW r \in Request, Store(r), Apartly(r)
    PROVE  StatusInv'
  <1>1. /\ Busy(r) /\ request[r] \in Copy /\ HeldBy(request[r], entry)
        /\ request[r].decided # <<>>
    BY BusyCopy DEF Store, Busy, Base, Held
  <1>0. PICK i \in Invoice, new \in Status :
            i = request[r].decided[1] /\ new = request[r].decided[2]
    BY <1>1, CopyFields
  <1> DEFINE d == Told(r, i)
             c == [d EXCEPT !.wrote[i] = new]
  <1>2. i \in request[r].todo /\ i \in Invoice /\ new \in Status /\ i \in Sphere(request[r])
    <2>1. i \in request[r].todo
      BY <1>0, <1>1 DEF HeldBy
    <2> QED
      BY <1>1, <2>1, SphereParts DEF Base
  <1>3. /\ \/ At(r, "open") /\ request'[r] = c /\ UNCHANGED <<status, unsettled>>
           \/ /\ status' = [status EXCEPT ![i] = new] /\ request'[r] = d /\ At(r, "saved")
              /\ Unless(r, unsettled \ {i})
        /\ entry' = entry
    BY <1>0 DEF Store, Becomes, Base, Typed
  <1>4. View(r) \in [Entry -> Row] /\ status \in [Invoice -> Status]
    BY ViewTyped DEF Base, Typed
  <1>5. request[r].alone =>
            Sees(request[r], status) /\ Tells(r) /\ FitsPaid(new, View(r), i)
    <2>1. FitsPaid(Derived(View(r), i, StatusFor(r, i)), View(r), i)
      BY <1>2, <1>4, DerivedFits
    <2> QED
      BY <1>0, <1>1, <2>1 DEF StatusInv, Knows, Decides
  <1>6. /\ d \in Copy /\ d.on = request[r].on /\ d.row = request[r].row
        /\ d.select = request[r].select /\ d.stage = request[r].stage
        /\ d.alone = request[r].alone /\ d.decided = <<>>
        /\ d.todo = request[r].todo \ {i} /\ d.told = request[r].told \cup {i}
        /\ d.seen = [request[r].seen EXCEPT ![i] = Blank] /\ d.wrote = request[r].wrote
        /\ d # Idle
    BY <1>1, <1>2, ToldIs, CopyFields
  <1> HIDE DEF d
  <1>7. CASE At(r, "open") /\ request'[r] = c /\ UNCHANGED <<status, unsettled>>
    <2>1. /\ c.on = request[r].on /\ c.row = request[r].row
          /\ c.select = request[r].select /\ c.stage = request[r].stage
          /\ c.alone = request[r].alone /\ c.decided = <<>>
          /\ c.todo = request[r].todo \ {i} /\ c.told = request[r].told \cup {i}
          /\ c.seen = [request[r].seen EXCEPT ![i] = Blank]
          /\ c.wrote = [request[r].wrote EXCEPT ![i] = new]
          /\ c # Idle
      <3>1. c \in Copy
        BY <1>2, <1>6 DEF Copy
      <3> QED
        BY <1>6, <3>1, CopyFields DEF Copy
    <2> HIDE DEF c
    <2>2. View(r)' = View(r)
      BY <1>1, <1>3, <1>7, <2>1, SameView
    <2>3. StatusFor(r, i)' = new /\ \A j \in Invoice \ {i} : StatusFor(r, j)' = StatusFor(r, j)
      <3>1. request[r].wrote \in [Invoice -> Status \cup {Blank}]
        BY <1>1, CopyFields
      <3>2. new # Blank
        BY <1>2 DEF Status, Blank
      <3>3. \A j \in Invoice : c.wrote[j] = IF j = i THEN new ELSE request[r].wrote[j]
        BY <2>1, <3>1
      <3>4. \A j \in Invoice : StatusFor(r, j)' = IF c.wrote[j] = Blank THEN status[j] ELSE c.wrote[j]
        BY <1>7 DEF StatusFor
      <3> QED
        BY <1>2, <3>2, <3>3, <3>4 DEF StatusFor
    <2>4. ASSUME c.alone PROVE Knows(r)'
      <3>1. Sees(c, status) /\ Sphere(c) = Sphere(request[r])
        <4>1. Sees(request[r], status) /\ i \in request[r].todo
          BY <1>2, <1>5, <2>1, <2>4
        <4>2. \A j \in Invoice \ {i} : status[j] = status[j]
          OBVIOUS
        <4> QED
          BY <1>1, <2>1, <4>1, <4>2, ToldSees
      <3>2. Sphere(request[r])' = Sphere(c)
        BY <1>3, <1>7 DEF Sphere
      <3>3. Sees(request[r], status)'
        BY <1>7, <3>1, <3>2 DEF Sees
      <3>4. Decides(r)'
        BY <1>7, <2>1 DEF Decides
      <3>5. Tells(r)'
        <4>1. /\ \A j \in request[r].told : FitsPaid(StatusFor(r, j), View(r), j)
              /\ InvoicesOf(c.row) \cup InvoicesOf(entry[c.on])
                    \subseteq request[r].todo \cup request[r].told \cup unsettled
          BY <1>5, <1>7, <2>1, <2>4 DEF Tells, At
        <4>2. \A j \in c.told : j \in Invoice /\ (j = i \/ j \in request[r].told)
          BY <1>1, <1>2, <2>1, CopyFields
        <4>3. \A j \in c.told : FitsPaid(StatusFor(r, j)', View(r)', j)
          BY <1>5, <2>1, <2>2, <2>3, <2>4, <4>1, <4>2
        <4>4. InvoicesOf(c.row) \cup InvoicesOf(entry'[c.on])
                \subseteq c.todo \cup c.told \cup unsettled'
          BY <1>3, <1>7, <2>1, <4>1
        <4> QED
          BY <1>7, <4>3, <4>4 DEF Tells
      <3> QED
        BY <3>3, <3>4, <3>5 DEF Knows
    <2>5. StatusFits'
      BY <1>3, <1>7, SameFits DEF StatusInv
    <2> QED
      BY <1>7, <2>4, <2>5, StepStatus
  <1>8. CASE /\ status' = [status EXCEPT ![i] = new] /\ request'[r] = d /\ At(r, "saved")
             /\ Unless(r, unsettled \ {i})
    <2>1. ASSUME d.alone PROVE Knows(r)'
      <3>1. Sees(d, status')
        BY <1>1, <1>2, <1>4, <1>5, <1>6, <1>8, <2>1, ToldSees
      <3>2. Sphere(request[r])' = Sphere(d)
        BY <1>3, <1>8 DEF Sphere
      <3>3. Sees(request[r], status)'
        BY <1>8, <3>1, <3>2 DEF Sees
      <3> QED
        BY <1>6, <1>8, <3>3 DEF Knows, Decides, Tells, At
    <2>2. StatusFits'
      <3>1. Typed /\ Typed' /\ StatusFits
        BY DEF Base, StatusInv
      <3>2. \A j \in Invoice \ {i} : status'[j] = status[j]
        BY <1>4, <1>8
      <3>3. ASSUME NEW j \in Invoice \ unsettled'
            PROVE  FitsPaid(status'[j], entry', j) \/ (j \notin unsettled /\ status'[j] = status[j])
        <4>1. CASE j # i
          BY <1>8, <3>2, <3>3, <4>1 DEF Unless
        <4>2. CASE j = i
          <5>1. request[r].alone
            BY <1>2, <1>8, <3>3, <4>2 DEF Unless
          <5>2. View(r) = entry
            BY <1>8 DEF View, At
          <5> QED
            BY <1>2, <1>3, <1>4, <1>5, <1>8, <4>2, <5>1, <5>2
        <4> QED
          BY <4>1, <4>2
      <3> QED
        BY <1>3, <3>1, <3>3, FitsStay
    <2> QED
      BY <1>8, <2>1, <2>2, StepStatus
  <1> QED
    BY <1>3, <1>7, <1>8

LEMMA CommitStatus ==
    ASSUME Base, Base', StatusInv, NEW r \in Request, CommitRequest(r), Apartly(r)
    PROVE  StatusInv'
  <1> DEFINE c == request[r]
             x == request[r].on
  <1>1. /\ Busy(r) /\ At(r, "open") /\ c.stage = "open" /\ c.todo = {}
        /\ entry' = View(r) /\ status' = [i \in Invoice |-> StatusFor(r, i)]
        /\ Unless(r, unsettled \ c.told) /\ request'[r] = Idle
        /\ c \in Copy /\ HeldBy(c, entry)
    BY BusyCopy DEF CommitRequest, Done, Becomes, At, Busy, Base, Held, Typed
  <1>2. /\ x \in Entry /\ entry' = [entry EXCEPT ![x] = c.row] /\ c.row \in Row
        /\ entry[x] \in Row /\ Typed /\ Typed'
    BY <1>1, CopyFields DEF HeldBy, View, Base, Typed
  <1>3. ASSUME NEW i \in Invoice \ unsettled'
        PROVE  \/ FitsPaid(status'[i], entry', i)
               \/ /\ i \notin unsettled /\ status'[i] = status[i]
                  /\ i \notin InvoicesOf(c.row) \cup InvoicesOf(entry[x])
    <2>1. i \notin c.told => c.wrote[i] = Blank
      BY <1>1 DEF HeldBy
    <2>2. i \notin c.told => status'[i] = status[i]
      BY <1>1, <2>1 DEF StatusFor
    <2>3. CASE c.alone
      <3>1. unsettled' = unsettled \ c.told /\ Tells(r)
        BY <1>1, <2>3 DEF Unless, StatusInv, Knows
      <3> QED
        BY <1>1, <1>3, <2>2, <3>1 DEF Tells
    <2>4. CASE ~c.alone
      <3>1. unsettled \cup Sphere(c) \subseteq unsettled'
        BY <1>1, <2>4 DEF Unless
      <3>2. InvoicesOf(c.row) \cup InvoicesOf(entry[x]) \cup c.told \subseteq Sphere(c)
        BY <1>1, <1>2, SphereParts
      <3> QED
        BY <1>3, <2>2, <3>1, <3>2
    <2> QED
      BY <2>3, <2>4
  <1>4. \A y \in Entry : entry'[y] = IF y = x THEN c.row ELSE entry[y]
    BY <1>2 DEF Typed
  <1> HIDE DEF c, x
  <1>5. ASSUME NEW i \in Invoice, i \notin InvoicesOf(c.row) \cup InvoicesOf(entry[x]),
               NEW y \in Entry
        PROVE  \/ entry'[y] = entry[y]
               \/ /\ Worth(entry'[y], i) = Worth(entry[y], i)
                  /\ entry'[y].kind = entry[y].kind \/ Worth(entry'[y], i) = 0
    <2>1. Worth(c.row, i) = 0 /\ Worth(entry[x], i) = 0
      BY <1>2, <1>5, NothingWorth
    <2> QED
      BY <1>4, <2>1
  <1>6. StatusFits'
    <2>1. \A i \in Invoice \ unsettled' :
              \/ FitsPaid(status'[i], entry', i)
              \/ /\ i \notin unsettled /\ status'[i] = status[i]
                 /\ \A y \in Entry : \/ entry'[y] = entry[y]
                                     \/ /\ Worth(entry'[y], i) = Worth(entry[y], i)
                                        /\ entry'[y].kind = entry[y].kind \/ Worth(entry'[y], i) = 0
      BY <1>3, <1>5
    <2> QED
      BY <1>2, <2>1, FitsStay DEF StatusInv
  <1> QED
    BY <1>1, <1>6, StepStatus

LEMMA OverwriteStatus ==
    ASSUME Base, Base', StatusInv, NEW i \in Invoice, Overwrite(i), Outside({}, {i})
    PROVE  StatusInv'
  <1>1. /\ entry' = entry /\ unsettled' = unsettled \cup {i}
        /\ \A j \in Invoice \ {i} : status'[j] = status[j]
    BY DEF Overwrite, Base, Typed
  <1>2. StatusFits'
    <2>1. Typed /\ Typed' /\ StatusFits
      BY DEF Base, StatusInv
    <2>2. \A j \in Invoice \ unsettled' : j \notin unsettled /\ status'[j] = status[j]
      BY <1>1
    <2> QED
      BY <1>1, <2>1, <2>2, FitsStay
  <1>3. ASSUME NEW s \in Request, request'[s] # Idle, request'[s].alone
        PROVE  Knows(s)'
    <2>1. {} \in SUBSET Request /\ s \in Request \ {}
      OBVIOUS
    <2> QED
      BY <1>3, <2>1, OthersKnow
  <1> QED
    BY <1>2, <1>3 DEF StatusInv, Busy

(* No request, and no payment, at the beginning. *)
LEMMA InitStatus == PaymentsInit => StatusInv
  <1> SUFFICES ASSUME PaymentsInit PROVE StatusInv
    OBVIOUS
  <1>1. /\ \A r \in Request : ~Busy(r)
        /\ \A i \in Invoice \ unsettled : status[i] = "UNPAID"
        /\ entry = [x \in Entry |-> NoRow]
    BY DEF PaymentsInit, Busy
  <1>2. ASSUME NEW i \in Invoice
        PROVE  Paid(entry, i) = 0
    <2>1. \A x \in Entry : Worth(entry[x], i) = 0
      BY <1>1 DEF Worth, Counts, NoRow, Absent
    <2>2. \A x \in Entry : Amounts(entry, {"payment", "legacy"}, i)[x] = 0
      BY <2>1 DEF Amounts
    <2>3. entry \in [Entry -> Row] /\ IsFiniteSet(Entry)
      BY InitTyped, InvoicesAssumption DEF Typed
    <2>4. SumFunctionOnSet(Amounts(entry, {"payment", "legacy"}, i), Entry) = 0
      BY <2>2, <2>3, SumOfZeros
    <2> QED
      BY <2>3, <2>4, SumIsOverEntries DEF Paid
  <1>3. \A i \in Invoice \ unsettled : FitsPaid(status[i], entry, i)
    BY <1>1, <1>2 DEF FitsPaid
  <1> QED
    BY <1>1, <1>3, StatusFitsIs DEF StatusInv

LEMMA NextStatus ==
    ASSUME Base, StatusInv, [PaymentsNext]_paymentsVars
    PROVE  StatusInv'
  <1>1. Typed' /\ Base'
    BY AnyStep, NextTyped DEF Base
  <1>2. ASSUME NEW r \in Request, NEW asked \in SUBSET NewEntries, Ask(r, asked)
        PROVE  StatusInv'
    <2>1. PICK new \in asked : BeginRequest(r, NoEntry, new.row, new.select)
      BY <1>2 DEF Ask
    <2>2. /\ new.row \in Row /\ new.select \in SUBSET Invoice /\ Apartly(r)
      BY <1>1, <1>2, AskBase, EntriesAssumption
    <2> QED
      BY <1>1, <2>1, <2>2, BeginStatus
  <1>3. ASSUME NEW r \in Request, NEW kinds, LoadKind(r, kinds)
        PROVE  StatusInv'
    <2>1. PICK x \in Entry : BeginRequest(r, x, entry[x], {})
      BY <1>3 DEF LoadKind
    <2>2. entry[x] \in Row /\ {} \in SUBSET Invoice /\ Apartly(r)
      BY <1>1, <1>3, LoadBase DEF Base, Typed
    <2> QED
      BY <1>1, <2>1, <2>2, BeginStatus
  <1>4. ASSUME NEW r \in Request, ReceivePayment(r) \/ IssueNote(r)
        PROVE  StatusInv'
    <2>1. Passes(r) \/ Allocate(r) \/ Insert(r) \/ InsertLegacy(r) => StatusInv'
      BY <1>1, PassesBase, AllocateBase, InsertBase, InsertLegacyBase,
         PassesStatus, AllocateStatus, InsertStatus, InsertLegacyStatus
    <2> QED
      BY <1>2, <1>4, <2>1
      DEF ReceivePayment, IssueNote, AskPayment, AskSeveral, AskLegacy, AskCreditNote, AskDebitNote,
          Wanted, CheckPayment, CheckCreditNote, CheckDebitNote, InsertPayment, InsertCreditNote,
          InsertDebitNote
  <1>5. ASSUME NEW r \in Request, ChangePayment(r) \/ ChangeNote(r)
        PROVE  StatusInv'
    <2>1. "REVERSED" \in Undone /\ "REFUNDED" \in Undone
      BY DEF Undone
    <2>2. ReversePayment(r) \/ RefundPayment(r) => StatusInv'
      BY <1>1, <2>1, UndoBase, UndoStatus DEF ReversePayment, RefundPayment
    <2>3. ReverseByApi(r) \/ CancelCreditNote(r) \/ CancelDebitNote(r) \/ Validate(r) => StatusInv'
      BY <1>1, ReverseByApiBase, CancelNoteBase, ValidateBase, ReverseByApiStatus,
         CancelNoteStatus, ValidateStatus DEF CancelCreditNote, CancelDebitNote
    <2>4. Edit(r) \/ Delete(r) \/ Destroy(r) \/ Patch(r) => StatusInv'
      BY <1>1, EditBase, DeleteBase, DestroyBase, PatchBase, EditStatus, DeleteStatus,
         DestroyStatus, PatchStatus
    <2> QED
      BY <1>3, <1>5, <2>2, <2>3, <2>4
      DEF ChangePayment, ChangeNote, LoadPayment, LoadCreditNote, LoadDebitNote
  <1>6. ASSUME NEW r \in Request, Finish(r)
        PROVE  StatusInv'
    BY <1>1, <1>6, RecomputeBase, StoreBase, CommitBase, EndBase, RecomputeStatus, StoreStatus,
       CommitStatus, EndStatus DEF Finish
  <1>7. ASSUME NEW i \in Invoice, Overwrite(i)
        PROVE  StatusInv'
    BY <1>1, <1>7, OverwriteBase, OverwriteStatus
  <1>8. CASE UNCHANGED paymentsVars
    BY <1>8 DEF paymentsVars, StatusInv, StatusFits, Knows, Sees, Decides, Tells, Busy, View, At, StatusFor,
       Sphere, FitsPaid, Derived, Paid, Credited, Debited, Balance, EffectiveDue
  <1> QED
    BY <1>4, <1>5, <1>6, <1>7, <1>8 DEF PaymentsNext

(* The status of an invoice tells how much of what is due after its notes is *)
(* paid, once a request that met no other has recomputed it.                 *)
THEOREM StatusFitsTheorem == PaymentsSpec => []StatusFits
  <1>1. Base /\ StatusInv /\ [PaymentsNext]_paymentsVars => StatusInv'
    BY NextStatus
  <1>2. StatusInv => StatusFits
    BY DEF StatusInv
  <1> QED
    BY BaseAlways, InitStatus, <1>1, <1>2, PTL DEF PaymentsSpec

-----------------------------------------------------------------------------
(* What a service accepts.  From its checks until it commits, a request that *)
(* met no other can rely on them.                                            *)

Ready(r) ==
    /\ Busy(r) /\ request[r].alone
    /\ \/ IsNew(r) /\ At(r, "checked")
       \/ At(r, "open") /\ entry[request[r].on].status = "unborn"

Within(row, table) ==
    \A i \in InvoicesOf(row) :
        /\ row.kind = "payment" => \/ Paid(table, i) + Worth(row, i) <= Total[i]
                                   \/ Paid(table, i) + Worth(row, i) <= EffectiveDue(table, i)
        /\ row.kind = "credit" => Credited(table, i) + Worth(row, i) <= Total[i] + Debited(table, i)

Given(row) == SumFunctionOnSet([i \in Invoice |-> Worth(row, i)], Invoice)

PayableOf(select, st) == {i \in select : st[i] \notin {"PAID", "CANCELLED", "DRAFT"}}

InOrder(row, select, table, st) ==
    /\ Given(row) <= AtLeastZero(row.amount)
    /\ \A i \in Invoice : Worth(row, i) >= 0
    /\ \A i \in PayableOf(select, st) : Balance(table, i) > Worth(row, i) =>
          /\ Given(row) = AtLeastZero(row.amount)
          /\ \A j \in Invoice : Rank[j] > Rank[i] => Worth(row, j) = 0

Accepted(row, select, table, st) ==
    Within(row, table) /\ (select # {} => InOrder(row, select, table, st))

PaysInv ==
    \A r \in Request : Ready(r) => Accepted(request[r].row, request[r].select, entry, status)

(* What is accepted stays so while nobody changes its invoices. *)
LEMMA StillAccepted ==
    ASSUME NEW a \in [Entry -> Row], NEW b \in [Entry -> Row], NEW row, NEW st, NEW new,
           NEW select \in SUBSET Invoice,
           \A i \in InvoicesOf(row) \cup select :
              /\ new[i] = st[i]
              /\ \A x \in Entry : b[x] = a[x] \/ (Worth(a[x], i) = 0 /\ Worth(b[x], i) = 0),
           Accepted(row, select, a, st)
    PROVE  Accepted(row, select, b, new)
  <1>1. InvoicesOf(row) \cup select \in SUBSET Invoice
    BY InvoicesOfRow
  <1>2. \A i \in InvoicesOf(row) \cup select :
            /\ Paid(b, i) = Paid(a, i) /\ Credited(b, i) = Credited(a, i)
            /\ Debited(b, i) = Debited(a, i) /\ EffectiveDue(b, i) = EffectiveDue(a, i)
            /\ Balance(b, i) = Balance(a, i) /\ new[i] = st[i]
    <2> SUFFICES ASSUME NEW i \in InvoicesOf(row) \cup select
                 PROVE  /\ Paid(b, i) = Paid(a, i) /\ Credited(b, i) = Credited(a, i)
                        /\ Debited(b, i) = Debited(a, i) /\ EffectiveDue(b, i) = EffectiveDue(a, i)
                        /\ Balance(b, i) = Balance(a, i)
      OBVIOUS
    <2>1. i \in Invoice
      BY <1>1
    <2>2. \A x \in Entry : b[x] = a[x] \/ (Worth(b[x], i) = 0 /\ Worth(a[x], i) = 0)
      OBVIOUS
    <2> QED
      BY <2>1, <2>2, MoneySame
  <1>3. Within(row, b)
    BY <1>2 DEF Accepted, Within
  <1>4. PayableOf(select, new) = PayableOf(select, st)
    BY <1>2 DEF PayableOf
  <1>5. select # {} => InOrder(row, select, b, new)
    <2> SUFFICES ASSUME InOrder(row, select, a, st)
                 PROVE  InOrder(row, select, b, new)
      BY DEF Accepted
    <2>1. \A i \in PayableOf(select, new) : Balance(b, i) = Balance(a, i)
      BY <1>2 DEF PayableOf
    <2> QED
      BY <1>4, <2>1 DEF InOrder
  <1> QED
    BY <1>3, <1>5 DEF Accepted

(* The other requests can still rely on their checks. *)
LEMMA OthersPay ==
    ASSUME Base, Base', PaysInv, NEW A \in SUBSET Request, NEW W, Outside(A, W),
           NEW s \in Request \ A, Ready(s)'
    PROVE  Accepted(request[s].row, request[s].select, entry, status)'
  <1> DEFINE c == request[s]
  <1>1. request'[s] # Idle /\ request'[s].alone
    BY DEF Ready, Busy
  <1>2. Busy(s) /\ c.alone /\ request'[s] = c /\ c \in Copy /\ HeldBy(c, entry)
    BY <1>1, OthersStay, BusyCopy DEF Base, Held
  <1>3. Ready(s)
    <2>1. CASE IsNew(s)' /\ At(s, "checked")'
      BY <1>2, <2>1 DEF Ready, IsNew, At, Busy
    <2>2. CASE At(s, "open")' /\ entry'[c.on].status = "unborn"
      <3>1. c.on \in Entry /\ At(s, "open")
        BY <1>2, <2>2, CopyFields DEF HeldBy, At
      <3>2. entry'[c.on] = entry[c.on]
        BY <1>2, <3>1 DEF Outside
      <3> QED
        BY <1>2, <2>2, <3>1, <3>2 DEF Ready
    <2> QED
      BY <1>2, <2>1, <2>2 DEF Ready
  <1>4. Accepted(c.row, c.select, entry, status)
    BY <1>3 DEF PaysInv
  <1>5. ASSUME NEW i \in Invoice \cap Sphere(c)
        PROVE  /\ status'[i] = status[i]
               /\ \A x \in Entry : entry'[x] = entry[x]
                                   \/ (Worth(entry[x], i) = 0 /\ Worth(entry'[x], i) = 0)
    <2>1. Stays(s, i)
      BY <1>1, OthersStay
    <2> QED
      BY <2>1 DEF Stays
  <1>6. InvoicesOf(c.row) \cup c.select \subseteq Invoice \cap Sphere(c) /\ c.select \in SUBSET Invoice
    BY <1>2, SphereParts, InvoicesOfRow, CopyFields DEF Base
  <1>7. entry \in [Entry -> Row] /\ entry' \in [Entry -> Row]
    BY DEF Base, Typed
  <1> HIDE DEF c
  <1>8. Accepted(c.row, c.select, entry', status')
    BY <1>4, <1>5, <1>6, <1>7, StillAccepted
  <1> QED
    BY <1>2, <1>8 DEF c, Accepted, Within, InOrder, Paid, Credited, Debited, EffectiveDue, Balance,
       SumOf

(* So only the request that moves has to be looked at. *)
LEMMA StepPays ==
    ASSUME Base, Base', PaysInv, NEW r \in Request, Apartly(r),
           Ready(r)' => Accepted(request'[r].row, request'[r].select, entry', status')
    PROVE  PaysInv'
  <1>1. PICK W : Outside({r}, W)
    BY DEF Apartly
  <1>2. ASSUME NEW s \in Request, Ready(s)'
        PROVE  Accepted(request'[s].row, request'[s].select, entry', status')
    <2>1. CASE s = r
      BY <1>2, <2>1
    <2>2. CASE s # r
      <3>1. {r} \in SUBSET Request /\ s \in Request \ {r}
        BY <2>2
      <3>2. Accepted(request[s].row, request[s].select, entry, status)'
        BY <1>1, <1>2, <3>1, OthersPay
      <3> QED
        BY <3>2
    <2> QED
      BY <2>1, <2>2
  <1> QED
    BY <1>2 DEF PaysInv

(* A request that is not about to add a row, or adds the one it was about to. *)
LEMMA NotReadyPays ==
    ASSUME Base, Base', PaysInv, NEW r \in Request, Apartly(r), ~Ready(r)'
    PROVE  PaysInv'
  BY StepPays

(* One that goes on with what was accepted. *)
LEMMA StillReadyPays ==
    ASSUME Base, Base', PaysInv, NEW r \in Request, Apartly(r), Ready(r)' => Ready(r),
           request'[r].row = request[r].row, request'[r].select = request[r].select,
           UNCHANGED <<status, entry>>
    PROVE  PaysInv'
  <1>1. Ready(r) => Accepted(request[r].row, request[r].select, entry, status)
    BY DEF PaysInv
  <1> QED
    BY <1>1, StepPays

-----------------------------------------------------------------------------
(* How a payment is spread: the invoices due up to some date get together what *)
(* they are owed, or the whole payment if that is less.                        *)

Earliest(T) == \A i \in T : DueBefore(i) \subseteq T

(* The invoices due before one are due before all others. *)
LEMMA BeforeIsEarliest ==
    ASSUME NEW i \in Invoice
    PROVE  /\ DueBefore(i) \in SUBSET Invoice /\ Earliest(DueBefore(i))
           /\ \A j \in Invoice : i \in DueBefore(j) => DueBefore(i) \cup {i} \subseteq DueBefore(j)
  <1>1. \A j \in Invoice : Rank[j] \in Nat
    BY InvoicesAssumption
  <1> QED
    BY <1>1 DEF DueBefore, Earliest

(* The last of them is the one that all the others are due before. *)
LEMMA LastInvoice ==
    ASSUME NEW T \in SUBSET Invoice, T # {}, Earliest(T)
    PROVE  \E m \in T : T \ {m} = DueBefore(m)
  <1> DEFINE n == SumFunctionOnSet(Rank, Invoice)
             ranks == {Rank[i] : i \in T}
  <1>1. \A i \in Invoice : Rank[i] \in Nat
    BY InvoicesAssumption
  <1>2. n \in Nat /\ \A i \in Invoice : Rank[i] <= n
    BY <1>1, InvoicesAssumption, SumNatural
  <1> HIDE DEF n
  <1>3. \E k \in ranks : \A l \in ranks : l <= k
    <2>1. ranks \in SUBSET Nat /\ ranks # {} /\ \A l \in ranks : l <= n
      BY <1>1, <1>2
    <2> HIDE DEF ranks
    <2> QED
      BY <1>2, <2>1, LargestNatural
  <1>4. PICK m \in T : \A i \in T : Rank[i] <= Rank[m]
    BY <1>3
  <1>5. \A i \in T \ {m} : Rank[i] < Rank[m]
    BY <1>1, <1>4, InvoicesAssumption
  <1>6. T \ {m} = DueBefore(m)
    <2>1. m \notin DueBefore(m)
      BY <1>1 DEF DueBefore
    <2> QED
      BY <1>5, <2>1 DEF DueBefore, Earliest
  <1> QED
    BY <1>6

(* Together they get what they are owed, or the whole payment. *)
LEMMA SharesOfEarliest ==
    ASSUME Typed, NEW r \in Request, Busy(r), NEW T \in SUBSET Invoice, Earliest(T)
    PROVE  /\ SumFunctionOnSet(Shares(r), T)
                = AtMost(AtLeastZero(request[r].row.amount), SumFunctionOnSet(Owed(r), T))
           /\ SumFunctionOnSet(Shares(r), T) \in Nat
  <1> DEFINE a == request[r].row.amount
             given(t) == SumFunctionOnSet(Shares(r), t)
             due(t) == SumFunctionOnSet(Owed(r), t)
             Bad == {t \in SUBSET Invoice :
                        Earliest(t) /\ given(t) # AtMost(AtLeastZero(a), due(t))}
  <1>1. /\ a \in Int /\ Shares(r) \in [Invoice -> Nat] /\ Owed(r) \in [Invoice -> Nat]
        /\ \A i \in Invoice : Shares(r)[i] = AtMost(Owed(r)[i], AtLeastZero(a - due(DueBefore(i))))
        /\ IsFiniteSet(Invoice)
    BY BusyCopy, CopyFields, RowFields, SharesAre, OwedTyped, InvoicesAssumption
  <1>2. \A t \in SUBSET Invoice : given(t) \in Nat /\ due(t) \in Nat
    <2> SUFFICES ASSUME NEW t \in SUBSET Invoice PROVE given(t) \in Nat /\ due(t) \in Nat
      OBVIOUS
    <2>1. IsFiniteSet(t) /\ \A i \in t : Shares(r)[i] \in Nat /\ Owed(r)[i] \in Nat
      BY <1>1, FS_Subset
    <2> QED
      BY <2>1, SumNatural
  <1>3. ASSUME Bad # {} PROVE FALSE
    <2>1. Bad \in SUBSET SUBSET Invoice
      OBVIOUS
    <2>2. PICK t \in Bad : \A u \in Bad : ~(u \subseteq t /\ u # t)
      <3> HIDE DEF Bad
      <3> QED
        BY <1>1, <1>3, <2>1, LeastSubset
    <2>3. t \in SUBSET Invoice /\ Earliest(t) /\ given(t) # AtMost(AtLeastZero(a), due(t))
      BY <2>2
    <2>4. CASE t = {}
      <3>1. given(t) = 0 /\ due(t) = 0
        BY <2>4, SumEmpty
      <3> QED
        BY <1>1, <2>3, <3>1 DEF AtMost, AtLeastZero
    <2>5. CASE t # {}
      <3>1. PICK m \in t : t \ {m} = DueBefore(m)
        BY <2>3, <2>5, LastInvoice
      <3>2. m \in Invoice /\ DueBefore(m) \in SUBSET Invoice /\ Earliest(DueBefore(m))
        BY <2>3, BeforeIsEarliest
      <3>3. given(DueBefore(m)) = AtMost(AtLeastZero(a), due(DueBefore(m)))
        BY <2>2, <3>1, <3>2
      <3>4. given(t) = Shares(r)[m] + given(t \ {m}) /\ due(t) = Owed(r)[m] + due(t \ {m})
        <4>1. IntegersOn(Shares(r), t) /\ IntegersOn(Owed(r), t)
          BY <1>1, <2>3, FS_Subset DEF IntegersOn
        <4> QED
          BY <4>1, SumOneMore
      <3>5. /\ given(t) = Shares(r)[m] + given(DueBefore(m)) /\ due(t) = Owed(r)[m] + due(DueBefore(m))
            /\ Shares(r)[m] = AtMost(Owed(r)[m], AtLeastZero(a - due(DueBefore(m))))
            /\ Owed(r)[m] \in Nat /\ due(DueBefore(m)) \in Nat
        BY <1>1, <1>2, <3>1, <3>2, <3>4
      <3> HIDE DEF given, due, a
      <3>6. given(t) = AtMost(AtLeastZero(a), due(t))
        BY <1>1, <3>3, <3>5 DEF AtMost, AtLeastZero
      <3> QED
        BY <2>3, <3>6
    <2> QED
      BY <2>4, <2>5
  <1>4. given(T) = AtMost(AtLeastZero(a), due(T))
    BY <1>3
  <1> QED
    BY <1>2, <1>4

(* A share that is less than what is owed is the end of the payment. *)
LEMMA ShortShare ==
    ASSUME Typed, NEW r \in Request, Busy(r), NEW i \in Invoice, Shares(r)[i] < Owed(r)[i]
    PROVE  /\ SumFunctionOnSet(Shares(r), Invoice) = AtLeastZero(request[r].row.amount)
           /\ request[r].row.amount < SumFunctionOnSet(Owed(r), DueBefore(i)) + Owed(r)[i]
           /\ \A j \in Invoice : Rank[j] > Rank[i] => Shares(r)[j] = 0
  <1> DEFINE a == request[r].row.amount
             due(t) == SumFunctionOnSet(Owed(r), t)
             upTo == DueBefore(i) \cup {i}
  <1>1. /\ a \in Int /\ Shares(r) \in [Invoice -> Nat] /\ Owed(r) \in [Invoice -> Nat]
        /\ \A j \in Invoice : Shares(r)[j] = AtMost(Owed(r)[j], AtLeastZero(a - due(DueBefore(j))))
        /\ \A t \in SUBSET Invoice : due(t) \in Nat
        /\ IsFiniteSet(Invoice) /\ \A j \in Invoice : Rank[j] \in Nat
    BY BusyCopy, CopyFields, RowFields, SharesAre, OwedTyped, InvoicesAssumption
  <1>2. DueBefore(i) \in SUBSET Invoice /\ upTo \in SUBSET Invoice /\ upTo \ {i} = DueBefore(i)
    BY <1>1 DEF DueBefore
  <1>3. due(upTo) = Owed(r)[i] + due(DueBefore(i))
    <2>1. IntegersOn(Owed(r), upTo) /\ i \in upTo
      BY <1>1, <1>2, FS_Subset DEF IntegersOn
    <2>2. due(upTo) = Owed(r)[i] + due(upTo \ {i})
      BY <2>1, SumOneMore
    <2> QED
      BY <1>2, <2>2
  <1> HIDE DEF upTo
  <1>4. a < due(upTo)
    <2>1. /\ Owed(r)[i] \in Nat /\ due(DueBefore(i)) \in Nat
          /\ Shares(r)[i] = AtMost(Owed(r)[i], AtLeastZero(a - due(DueBefore(i))))
      BY <1>1, <1>2
    <2> HIDE DEF a, due
    <2> QED
      BY <1>1, <1>3, <2>1 DEF AtMost, AtLeastZero
  <1>5. \A t \in SUBSET Invoice : upTo \subseteq t => due(upTo) <= due(t)
    <2> SUFFICES ASSUME NEW t \in SUBSET Invoice, upTo \subseteq t PROVE due(upTo) <= due(t)
      OBVIOUS
    <2>1. IntegersOn(Owed(r), t)
      BY <1>1, FS_Subset DEF IntegersOn
    <2>2. due(t) = due(upTo) + due(t \ upTo)
      BY <2>1, SumOfParts
    <2>3. due(upTo) \in Nat /\ due(t \ upTo) \in Nat
      BY <1>1, <1>2
    <2> HIDE DEF due
    <2> QED
      BY <2>2, <2>3
  <1>6. SumFunctionOnSet(Shares(r), Invoice) = AtLeastZero(a)
    <2>1. Invoice \in SUBSET Invoice /\ Earliest(Invoice)
      BY DEF Earliest, DueBefore
    <2>2. SumFunctionOnSet(Shares(r), Invoice) = AtMost(AtLeastZero(a), due(Invoice))
      BY <2>1, SharesOfEarliest
    <2>3. due(upTo) <= due(Invoice) /\ due(Invoice) \in Nat /\ due(upTo) \in Nat
      BY <1>1, <1>2, <1>5, <2>1
    <2> HIDE DEF due, a
    <2> QED
      BY <1>1, <1>4, <2>2, <2>3 DEF AtMost, AtLeastZero
  <1>7. ASSUME NEW j \in Invoice, Rank[j] > Rank[i]
        PROVE  Shares(r)[j] = 0
    <2>1. DueBefore(j) \in SUBSET Invoice /\ upTo \subseteq DueBefore(j)
      BY <1>1, <1>7 DEF DueBefore, upTo
    <2>2. /\ due(upTo) <= due(DueBefore(j)) /\ due(upTo) \in Nat /\ due(DueBefore(j)) \in Nat
          /\ Owed(r)[j] \in Nat
          /\ Shares(r)[j] = AtMost(Owed(r)[j], AtLeastZero(a - due(DueBefore(j))))
      BY <1>1, <1>2, <1>5, <2>1
    <2> HIDE DEF due, a
    <2> QED
      BY <1>1, <1>4, <2>2 DEF AtMost, AtLeastZero
  <1> QED
    <2>1. due(upTo) = due(DueBefore(i)) + Owed(r)[i]
      <3>1. due(DueBefore(i)) \in Nat /\ Owed(r)[i] \in Nat
        BY <1>1, <1>2
      <3> HIDE DEF due
      <3> QED
        BY <1>3, <3>1
    <2> QED
      BY <1>4, <1>6, <1>7, <2>1

-----------------------------------------------------------------------------
(* Each step of a request. *)

LEMMA MovesPays ==
    ASSUME Base, Base', PaysInv, NEW r \in Request, Apartly(r), NEW c, request'[r] = c,
           /\ c # Idle /\ c.alone
           /\ (c.on = NoEntry /\ c.stage = "checked")
              \/ (c.stage = "open" /\ entry'[c.on].status = "unborn")
           => Accepted(c.row, c.select, entry', status')
    PROVE  PaysInv'
  <1>1. Ready(r)' => /\ c # Idle /\ c.alone
                     /\ (c.on = NoEntry /\ c.stage = "checked")
                        \/ (c.stage = "open" /\ entry'[c.on].status = "unborn")
    BY DEF Ready, Busy, IsNew, At
  <1> QED
    BY <1>1, StepPays

LEMMA BeginPays ==
    ASSUME Base, Base', PaysInv, NEW r \in Request, Apartly(r), NEW on, NEW row, NEW select,
           BeginRequest(r, on, row, select)
    PROVE  PaysInv'
  <1>1. request'[r].stage = "loaded"
    BY DEF BeginRequest, Enter
  <1> QED
    BY <1>1, MovesPays

(* A row that is worth its amount to one invoice. *)
LEMMA WorthOfOne ==
    ASSUME NEW row \in Row, Counts(row), row.share = NoShare
    PROVE  /\ InvoicesOf(row) = {i \in Invoice : row.invoice = i}
           /\ \A i \in Invoice : Worth(row, i) = IF row.invoice = i THEN row.amount ELSE 0
  <1>1. row.amount \in Int /\ \A i \in Invoice : row.share[i] = 0
    BY RowFields DEF NoShare
  <1> QED
    BY <1>1 DEF InvoicesOf, Worth

LEMMA PassesPays ==
    ASSUME Base, Base', PaysInv, NEW r \in Request, Passes(r), Apartly(r),
           request[r].row \in Row /\ Counts(request[r].row) /\ request[r].row.share = NoShare
              => Within(request[r].row, entry)
    PROVE  PaysInv'
  <1> DEFINE c == [request[r] EXCEPT !.stage = "checked"]
  <1>1. /\ Busy(r) /\ request[r] \in Copy /\ HeldBy(request[r], entry)
        /\ request[r].stage = "loaded" /\ request[r].on = NoEntry /\ request[r].select = {}
        /\ UNCHANGED <<status, entry>>
    BY BusyCopy DEF Passes, At, Busy, IsNew, Base, Held
  <1>2. request[r].row \in Row /\ Counts(request[r].row) /\ request[r].row.share = NoShare
    BY <1>1, CopyFields DEF HeldBy, Inserts
  <1>3. c.row = request[r].row /\ c.select = {}
    BY <1>1 DEF Copy
  <1>4. request'[r] = c
    BY DEF Passes, Becomes, Base, Typed
  <1> HIDE DEF c
  <1>5. Within(request[r].row, entry)
    BY <1>2
  <1>6. Accepted(c.row, c.select, entry', status')
    BY <1>1, <1>3, <1>5 DEF Accepted
  <1> QED
    BY <1>4, <1>6, MovesPays

LEMMA CheckPays ==
    ASSUME Base, Base', PaysInv, NEW r \in Request, Apartly(r),
           CheckPayment(r) \/ CheckCreditNote(r) \/ CheckDebitNote(r)
    PROVE  PaysInv'
  <1>1. Passes(r)
    BY DEF CheckPayment, CheckCreditNote, CheckDebitNote
  <1> DEFINE row == request[r].row
  <1>2. ASSUME row \in Row, Counts(row), row.share = NoShare
        PROVE  Within(row, entry)
    <2> SUFFICES ASSUME NEW i \in Invoice, row.invoice = i
                 PROVE  /\ row.kind = "payment" => Paid(entry, i) + row.amount <= Total[i]
                        /\ row.kind = "credit" =>
                              Credited(entry, i) + row.amount <= Total[i] + Debited(entry, i)
      BY <1>2, WorthOfOne DEF Within
    <2>1. /\ row.amount \in Int /\ Total[i] \in Nat /\ Paid(entry, i) \in Int
          /\ Credited(entry, i) \in Int /\ Debited(entry, i) \in Int /\ i # NoInvoice
      BY <1>2, RowFields, MoneyTyped, InvoicesAssumption DEF Base, Typed
    <2>2. CASE CheckPayment(r)
      <3>1. row.kind = "payment" /\ row.amount <= Total[i] - Paid(entry, i)
        BY <2>1, <2>2 DEF CheckPayment, OfKind, Remaining
      <3> HIDE DEF row
      <3> QED
        BY <2>1, <3>1
    <2>3. CASE CheckCreditNote(r)
      <3>1. row.kind = "credit" /\ row.amount > 0
            /\ row.amount <= AtLeastZero(Total[i] + Debited(entry, i) - Credited(entry, i))
        BY <2>3 DEF CheckCreditNote, OfKind, EffectiveDue
      <3> HIDE DEF row
      <3> QED
        BY <2>1, <3>1 DEF AtLeastZero
    <2>4. CASE CheckDebitNote(r)
      BY <2>4 DEF CheckDebitNote, OfKind
    <2> QED
      BY <2>2, <2>3, <2>4
  <1> QED
    BY <1>1, <1>2, PassesPays

LEMMA InsertPays ==
    ASSUME Base, Base', PaysInv, NEW r \in Request, Insert(r), Apartly(r)
    PROVE  PaysInv'
  <1>1. PICK x \in Entry :
          /\ At(r, "checked") /\ IsNew(r) /\ entry[x].status = "unborn"
          /\ Becomes(r, [request[r] EXCEPT !.stage = "open", !.on = x,
                                           !.todo = InvoicesOf(request[r].row)])
          /\ UNCHANGED <<status, entry>>
    BY DEF Insert
  <1> DEFINE c == [request[r] EXCEPT !.stage = "open", !.on = x,
                                     !.todo = InvoicesOf(request[r].row)]
  <1>2. Busy(r) /\ request[r] \in Copy
    BY <1>1, BusyCopy DEF At, Busy, Base
  <1>3. c.row = request[r].row /\ c.select = request[r].select /\ c.alone = request[r].alone
    BY <1>2 DEF Copy
  <1>4. request'[r] = c
    BY <1>1 DEF Becomes, Base, Typed
  <1> HIDE DEF c
  <1>5. Ready(r)' => Ready(r)
    BY <1>1, <1>2, <1>3, <1>4 DEF Ready, Busy
  <1> QED
    BY <1>1, <1>3, <1>4, <1>5, StillReadyPays

(* A request that changes a row that is there. *)
LEMMA SaveAsPays ==
    ASSUME Base, Base', PaysInv, NEW r \in Request, Apartly(r), NEW new, NEW todo, NEW known,
           SaveAs(r, new, todo, known)
    PROVE  PaysInv'
  <1>1. /\ Busy(r) /\ request[r] \in Copy /\ HeldBy(request[r], entry)
        /\ request[r].stage = "loaded" /\ request[r].on # NoEntry /\ entry' = entry
    BY BusyCopy DEF SaveAs, At, Busy, IsNew, Base, Held
  <1>2. /\ request'[r].stage = "open" /\ request'[r].on = request[r].on
    BY <1>1 DEF SaveAs, Becomes, Copy, Base, Typed
  <1>3. entry[request[r].on].status # "unborn"
    BY <1>1 DEF HeldBy
  <1> QED
    BY <1>1, <1>2, <1>3, MovesPays

LEMMA ValidatePays ==
    ASSUME Base, Base', PaysInv, NEW r \in Request, Apartly(r), Validate(r)
    PROVE  PaysInv'
  <1>1. Busy(r) /\ request[r] \in Copy /\ request[r].on # NoEntry
    BY BusyCopy DEF Validate, At, Busy, IsNew, Base
  <1>2. /\ request'[r].stage = "checked" /\ request'[r].on = request[r].on
    BY <1>1 DEF Validate, Becomes, Copy, Base, Typed
  <1> QED
    BY <1>1, <1>2, MovesPays

LEMMA SavePays ==
    ASSUME Base, Base', PaysInv, NEW r \in Request, Apartly(r),
           InsertLegacy(r) \/ Edit(r) \/ Delete(r)
    PROVE  PaysInv'
  <1>1. Busy(r) /\ request[r] \in Copy
    BY BusyCopy DEF InsertLegacy, Edit, Delete, At, Busy, Base
  <1>2. CASE InsertLegacy(r)
    <2>1. PICK x \in Entry :
            Becomes(r, [request[r] EXCEPT !.stage = "saved", !.on = x,
                                          !.todo = InvoicesOf(request[r].row)])
      BY <1>2 DEF InsertLegacy
    <2>2. request'[r].stage = "saved"
      BY <1>1, <2>1 DEF Becomes, Copy, Base, Typed
    <2> QED
      BY <2>2, MovesPays
  <1>3. CASE Edit(r)
    <2>1. request'[r].stage = "saved"
      BY <1>1, <1>3 DEF Edit, Becomes, Copy, Base, Typed
    <2> QED
      BY <2>1, MovesPays
  <1>4. CASE Delete(r)
    <2>1. request'[r].stage = "saved"
      BY <1>1, <1>4 DEF Delete, Becomes, Copy, Base, Typed
    <2> QED
      BY <2>1, MovesPays
  <1> QED
    BY <1>2, <1>3, <1>4

LEMMA LeavePays ==
    ASSUME Base, Base', PaysInv, NEW r \in Request, Apartly(r),
           Destroy(r) \/ Patch(r) \/ CommitRequest(r) \/ End(r)
    PROVE  PaysInv'
  <1>1. request'[r] = Idle
    BY DEF Destroy, Patch, CommitRequest, End, Done, Becomes, Enter, Base, Typed
  <1> QED
    BY <1>1, MovesPays

LEMMA RecomputePays ==
    ASSUME Base, Base', PaysInv, NEW r \in Request, Apartly(r), Recompute(r)
    PROVE  PaysInv'
  <1>1. /\ Busy(r) /\ request[r] \in Copy /\ UNCHANGED <<status, entry>>
    BY BusyCopy DEF Recompute, Busy, Base
  <1>2. \E i \in Invoice, new \in Status :
            request'[r] \in {[request[r] EXCEPT !.decided = <<i, new>>], Told(r, i)}
    <2>1. PICK i \in request[r].todo :
            LET old == IF request[r].seen[i] = Blank THEN StatusFor(r, i) ELSE request[r].seen[i]
                new == Derived(View(r), i, old)
            IN  Becomes(r, [request[r] EXCEPT !.decided = <<i, new>>]) \/ Becomes(r, Told(r, i))
      BY DEF Recompute
    <2>2. i \in Invoice
      BY <1>1, CopyFields
    <2>3. \A d : Becomes(r, d) => request'[r] = d
      BY DEF Becomes, Base, Typed
    <2> QED
      BY <2>1, <2>2, <2>3, DerivedTyped
  <1>3. PICK i \in Invoice, new \in Status :
            request'[r] \in {[request[r] EXCEPT !.decided = <<i, new>>], Told(r, i)}
    BY <1>2
  <1>4. /\ request'[r].on = request[r].on /\ request'[r].row = request[r].row
        /\ request'[r].select = request[r].select /\ request'[r].stage = request[r].stage
        /\ request'[r].alone = request[r].alone
    BY <1>1, <1>3 DEF Copy, Told
  <1>5. Ready(r)' => Ready(r)
    BY <1>1, <1>4 DEF Ready, Busy, IsNew, At
  <1> QED
    BY <1>1, <1>4, <1>5, StillReadyPays

LEMMA StorePays ==
    ASSUME Base, Base', PaysInv, NEW r \in Request, Apartly(r), Store(r)
    PROVE  PaysInv'
  <1> DEFINE i == request[r].decided[1]
             new == request[r].decided[2]
             c == [Told(r, i) EXCEPT !.wrote[i] = new]
  <1>1. Busy(r) /\ request[r] \in Copy /\ entry' = entry
    BY BusyCopy DEF Store, Busy, Base
  <1>2. \/ At(r, "open") /\ request'[r] = c /\ status' = status
        \/ At(r, "saved") /\ request'[r] = Told(r, i)
    BY DEF Store, Becomes, Base, Typed
  <1>3. CASE At(r, "open") /\ request'[r] = c /\ status' = status
    <2>1. /\ c.on = request[r].on /\ c.row = request[r].row /\ c.select = request[r].select
          /\ c.stage = request[r].stage /\ c.alone = request[r].alone
      BY <1>1 DEF Copy, Told
    <2> HIDE DEF c
    <2>2. Ready(r)' => Ready(r)
      BY <1>1, <1>3, <2>1 DEF Ready, Busy, IsNew, At
    <2> QED
      BY <1>1, <1>3, <2>1, <2>2, StillReadyPays
  <1>4. CASE At(r, "saved") /\ request'[r] = Told(r, i)
    <2>1. request'[r].stage = "saved"
      BY <1>1, <1>4 DEF Copy, Told, At
    <2> QED
      BY <2>1, MovesPays
  <1> QED
    BY <1>2, <1>3, <1>4

LEMMA OverwritePays ==
    ASSUME Base, Base', PaysInv, NEW i \in Invoice, Outside({}, {i})
    PROVE  PaysInv'
  <1>1. ASSUME NEW s \in Request, Ready(s)'
        PROVE  Accepted(request'[s].row, request'[s].select, entry', status')
    <2>1. {} \in SUBSET Request /\ s \in Request \ {}
      OBVIOUS
    <2>2. Accepted(request[s].row, request[s].select, entry, status)'
      BY <1>1, <2>1, OthersPay
    <2> QED
      BY <2>2
  <1> QED
    BY <1>1 DEF PaysInv

(* A payment spread over several invoices gives each at most its balance, and *)
(* the earlier invoices come first.                                           *)
LEMMA SpreadAccepted ==
    ASSUME Typed, NEW r \in Request, Busy(r), NEW row \in Row, row.kind = "payment", Counts(row),
           row.invoice = NoInvoice, row.share = Shares(r), row.amount = request[r].row.amount
    PROVE  Within(row, entry) /\ InOrder(row, request[r].select, entry, status)
  <1>1. \A i \in Invoice : Worth(row, i) = Shares(r)[i] /\ Shares(r)[i] \in Nat
    <2>1. Shares(r) \in [Invoice -> Nat] /\ NoInvoice \notin Invoice
      BY SharesAre, InvoicesAssumption
    <2> QED
      BY <2>1 DEF Worth
  <1>2. ASSUME NEW i \in InvoicesOf(row)
        PROVE  Paid(entry, i) + Worth(row, i) <= EffectiveDue(entry, i)
    <2>1. i \in Invoice /\ Shares(r)[i] > 0
      BY InvoicesAssumption DEF InvoicesOf
    <2>2. /\ Shares(r)[i] <= Owed(r)[i] /\ Owed(r)[i] \in Nat
      <3>1. Owed(r)[i] \in Nat
        BY <2>1, OwedTyped
      <3>2. Shares(r)[i] = AtMost(Owed(r)[i],
                AtLeastZero(request[r].row.amount - SumFunctionOnSet(Owed(r), DueBefore(i))))
        BY <2>1, SharesAre
      <3>3. request[r].row.amount \in Int /\ SumFunctionOnSet(Owed(r), DueBefore(i)) \in Nat
        BY RowFields, OwedTyped DEF DueBefore
      <3> QED
        BY <3>1, <3>2, <3>3 DEF AtMost, AtLeastZero
    <2>3. Owed(r)[i] = Balance(entry, i)
      BY <1>1, <2>1, <2>2 DEF Owed
    <2>4. Paid(entry, i) \in Int /\ EffectiveDue(entry, i) \in Nat
      BY <2>1, MoneyTyped DEF Typed
    <2> QED
      BY <1>1, <2>1, <2>2, <2>3, <2>4 DEF Balance, AtLeastZero
  <1>3. Given(row) = SumFunctionOnSet(Shares(r), Invoice)
    <2>1. IntegersOn(Shares(r), Invoice)
      BY <1>1, InvoicesAssumption DEF IntegersOn
    <2> DEFINE f == [i \in Invoice |-> Worth(row, i)]
    <2>2. \A i \in Invoice : Shares(r)[i] = f[i]
      BY <1>1
    <2> HIDE DEF f
    <2>3. SumFunctionOnSet(Shares(r), Invoice) = SumFunctionOnSet(f, Invoice)
      BY <2>1, <2>2, SumSame
    <2> QED
      BY <2>3 DEF Given, f
  <1>4. Given(row) <= AtLeastZero(row.amount)
    <2>1. Invoice \in SUBSET Invoice /\ Earliest(Invoice)
      BY DEF Earliest, DueBefore
    <2>2. Given(row) = AtMost(AtLeastZero(row.amount), SumFunctionOnSet(Owed(r), Invoice))
      BY <1>3, <2>1, SharesOfEarliest
    <2>3. row.amount \in Int /\ SumFunctionOnSet(Owed(r), Invoice) \in Nat
      BY <2>1, RowFields, OwedTyped
    <2> QED
      BY <2>2, <2>3 DEF AtMost, AtLeastZero
  <1>5. ASSUME NEW i \in PayableOf(request[r].select, status), Balance(entry, i) > Worth(row, i)
        PROVE  /\ Given(row) = AtLeastZero(row.amount)
               /\ \A j \in Invoice : Rank[j] > Rank[i] => Worth(row, j) = 0
    <2>1. /\ i \in Invoice /\ Owed(r)[i] = Balance(entry, i)
      <3>1. i \in Invoice
        BY BusyCopy, CopyFields DEF PayableOf
      <3>2. Balance(entry, i) > 0
        BY <1>1, <1>5, <3>1, MoneyTyped DEF Typed
      <3> QED
        BY <3>1, <3>2 DEF PayableOf, Owed, Open
    <2>2. Shares(r)[i] < Owed(r)[i]
      BY <1>1, <1>5, <2>1, MoneyTyped DEF Typed
    <2> QED
      BY <1>1, <1>3, <2>1, <2>2, ShortShare
  <1> QED
    BY <1>1, <1>2, <1>4, <1>5 DEF Within, InOrder

(* One that reaches a single invoice pays that one, as far as its total goes, *)
(* and what is owed on the others comes later.                                *)
LEMMA SingleAccepted ==
    ASSUME Typed, NEW r \in Request, Busy(r), NEW row \in Row, row.kind = "payment", Counts(row),
           row.share = NoShare, row.amount = request[r].row.amount,
           NEW i \in Invoice, row.invoice = i, {j \in Invoice : Shares(r)[j] > 0} = {i},
           row.amount <= Remaining(i)
    PROVE  Within(row, entry) /\ InOrder(row, request[r].select, entry, status)
  <1> DEFINE f == [j \in Invoice |-> Worth(row, j)]
             due(t) == SumFunctionOnSet(Owed(r), t)
  <1>1. \A j \in Invoice : Worth(row, j) = IF j = i THEN row.amount ELSE 0
    BY WorthOfOne
  <1>2. /\ Shares(r) \in [Invoice -> Nat] /\ Owed(r) \in [Invoice -> Nat]
        /\ \A j \in Invoice : Shares(r)[j] = AtMost(Owed(r)[j],
                                               AtLeastZero(row.amount - due(DueBefore(j))))
        /\ \A j \in Invoice : due(DueBefore(j)) \in Nat
        /\ row.amount \in Int /\ Paid(entry, i) \in Int /\ Total[i] \in Nat
    BY SharesAre, OwedTyped, RowFields, MoneyTyped DEF Typed, DueBefore
  <1>3. Shares(r)[i] > 0 /\ \A j \in Invoice \ {i} : Shares(r)[j] = 0
    BY <1>2
  <1> HIDE DEF due
  <1>4. row.amount > due(DueBefore(i)) /\ row.amount > 0
    BY <1>2, <1>3 DEF AtMost, AtLeastZero
  <1>5. Within(row, entry)
    <2>1. InvoicesOf(row) = {i}
      BY WorthOfOne
    <2> QED
      BY <1>1, <1>2, <2>1 DEF Within, Remaining
  <1>6. Given(row) = row.amount
    <2> DEFINE z == [j \in Invoice |-> 0]
    <2>1. SumFunctionOnSet(z, Invoice) = 0 /\ IntegersOn(z, Invoice) /\ z[i] = 0
      BY SumOfZeros, InvoicesAssumption DEF IntegersOn
    <2>2. f[i] = row.amount /\ \A j \in Invoice \ {i} : z[j] = f[j]
      BY <1>1
    <2> HIDE DEF z, f
    <2>3. SumFunctionOnSet(f, Invoice) = SumFunctionOnSet(z, Invoice) + (f[i] - z[i])
      BY <1>2, <2>1, <2>2, SumChanged
    <2> QED
      BY <1>2, <2>1, <2>2, <2>3 DEF Given, f
  <1>7. ASSUME NEW k \in PayableOf(request[r].select, status), Balance(entry, k) > Worth(row, k)
        PROVE  \A j \in Invoice : Rank[j] > Rank[k] => Worth(row, j) = 0
    <2>1. k \in Invoice
      BY BusyCopy, CopyFields DEF PayableOf
    <2>2. k # i => Balance(entry, k) > 0 /\ Owed(r)[k] = Balance(entry, k)
      <3>1. k # i => Balance(entry, k) > 0
        BY <1>1, <1>7, <2>1
      <3> QED
        BY <2>1, <3>1 DEF PayableOf, Owed, Open
    <2>3. CASE k = i
      BY <1>1, <2>3, InvoicesAssumption
    <2>4. CASE k # i
      <3>1. Shares(r)[k] < Owed(r)[k]
        BY <1>2, <1>3, <2>1, <2>2, <2>4
      <3>2. \A j \in Invoice : Rank[j] > Rank[k] => Shares(r)[j] = 0
        BY <2>1, <3>1, ShortShare
      <3> QED
        BY <1>1, <1>3, <3>2
    <2> QED
      BY <2>3, <2>4
  <1> QED
    BY <1>1, <1>2, <1>4, <1>5, <1>6, <1>7 DEF InOrder, AtLeastZero

LEMMA AllocatePays ==
    ASSUME Base, Base', PaysInv, NEW r \in Request, Allocate(r), Apartly(r)
    PROVE  PaysInv'
  <1> DEFINE paid == {i \in Invoice : Shares(r)[i] > 0}
             some == [request[r] EXCEPT !.stage = "checked", !.seen = Fetched(paid),
                                        !.row.share = Shares(r)]
             one(i) == [request[r] EXCEPT !.stage = "checked", !.seen = Fetched(paid),
                                          !.row.invoice = i]
  <1>1. /\ UNCHANGED <<status, entry>>
        /\ \/ Becomes(r, some)
           \/ \E i \in Invoice : /\ paid = {i} /\ Remaining(i) > 0
                                 /\ request[r].row.amount <= Remaining(i) /\ Becomes(r, one(i))
    BY DEF Allocate
  <1>2. /\ Typed /\ Busy(r) /\ request[r] \in Copy /\ request[r].row \in Row
        /\ HeldBy(request[r], entry) /\ request[r].stage = "loaded" /\ request[r].on = NoEntry
        /\ request[r].select # {} /\ Shares(r) \in [Invoice -> Nat]
    BY BusyCopy, CopyFields, SharesAre DEF Allocate, At, Busy, IsNew, Base, Held
  <1>3. /\ Counts(request[r].row) /\ request[r].row.invoice = NoInvoice
        /\ request[r].row.share = NoShare /\ request[r].row.kind = "payment"
    BY <1>2 DEF HeldBy, Inserts
  <1>4. ASSUME NEW c, request'[r] = c, c.select = request[r].select,
               Within(c.row, entry), InOrder(c.row, request[r].select, entry, status)
        PROVE  PaysInv'
    <2>1. Accepted(c.row, c.select, entry', status')
      BY <1>1, <1>4 DEF Accepted
    <2> QED
      BY <1>4, <2>1, MovesPays
  <1> HIDE DEF paid
  <1>5. CASE Becomes(r, some)
    <2>1. /\ some.select = request[r].select
          /\ some.row = [request[r].row EXCEPT !.share = Shares(r)]
      BY <1>2 DEF Copy
    <2>2. request'[r] = some
      BY <1>5 DEF Becomes, Base, Typed
    <2> HIDE DEF some
    <2>3. /\ some.row \in Row /\ some.row.share = Shares(r) /\ some.row.invoice = NoInvoice
          /\ some.row.kind = "payment" /\ some.row.status = request[r].row.status
          /\ some.row.amount = request[r].row.amount
      BY <1>2, <1>3, <2>1 DEF Row
    <2>4. Counts(some.row)
      BY <1>3, <2>3 DEF Counts
    <2>5. Within(some.row, entry) /\ InOrder(some.row, request[r].select, entry, status)
      BY <1>2, <2>3, <2>4, SpreadAccepted
    <2> QED
      BY <1>4, <2>1, <2>2, <2>5
  <1>6. ASSUME NEW i \in Invoice, paid = {i}, request[r].row.amount <= Remaining(i),
               Becomes(r, one(i))
        PROVE  PaysInv'
    <2> DEFINE c == one(i)
    <2>1. /\ c.select = request[r].select
          /\ c.row = [request[r].row EXCEPT !.invoice = i]
      BY <1>2 DEF Copy
    <2>2. request'[r] = c
      BY <1>6 DEF Becomes, Base, Typed
    <2> HIDE DEF c
    <2>3. /\ c.row \in Row /\ c.row.share = NoShare /\ c.row.invoice = i
          /\ c.row.kind = "payment" /\ c.row.status = request[r].row.status
          /\ c.row.amount = request[r].row.amount
      BY <1>2, <1>3, <2>1 DEF Row
    <2>4. Counts(c.row)
      BY <1>3, <2>3 DEF Counts
    <2>5. {j \in Invoice : Shares(r)[j] > 0} = {i}
      BY <1>6 DEF paid
    <2>6. c.row.amount <= Remaining(i)
      BY <1>6, <2>3
    <2>7. Within(c.row, entry) /\ InOrder(c.row, request[r].select, entry, status)
      BY <1>2, <2>3, <2>4, <2>5, <2>6, SingleAccepted
    <2> QED
      BY <1>4, <2>1, <2>2, <2>7
  <1> QED
    BY <1>1, <1>5, <1>6

LEMMA InitPays == PaymentsInit => PaysInv
  BY DEF PaymentsInit, PaysInv, Ready, Busy

LEMMA NextPays ==
    ASSUME Base, PaysInv, [PaymentsNext]_paymentsVars
    PROVE  PaysInv'
  <1>1. Typed' /\ Base'
    BY AnyStep, NextTyped DEF Base
  <1>2. ASSUME NEW r \in Request, NEW asked \in SUBSET NewEntries, Ask(r, asked)
        PROVE  PaysInv'
    <2>1. PICK new \in asked : BeginRequest(r, NoEntry, new.row, new.select)
      BY <1>2 DEF Ask
    <2> QED
      BY <1>1, <1>2, <2>1, AskBase, BeginPays
  <1>3. ASSUME NEW r \in Request, NEW kinds, LoadKind(r, kinds)
        PROVE  PaysInv'
    <2>1. PICK x \in Entry : BeginRequest(r, x, entry[x], {})
      BY <1>3 DEF LoadKind
    <2> QED
      BY <1>1, <1>3, <2>1, LoadBase, BeginPays
  <1>4. ASSUME NEW r \in Request, ReceivePayment(r) \/ IssueNote(r)
        PROVE  PaysInv'
    <2>1. CheckPayment(r) \/ CheckCreditNote(r) \/ CheckDebitNote(r) => PaysInv'
      <3>1. CheckPayment(r) \/ CheckCreditNote(r) \/ CheckDebitNote(r) => Passes(r)
        BY DEF CheckPayment, CheckCreditNote, CheckDebitNote
      <3> QED
        BY <1>1, <3>1, PassesBase, CheckPays
    <2>2. Allocate(r) \/ Insert(r) \/ InsertLegacy(r) => PaysInv'
      BY <1>1, AllocateBase, InsertBase, InsertLegacyBase, AllocatePays, InsertPays, SavePays
    <2> QED
      BY <1>2, <1>4, <2>1, <2>2
      DEF ReceivePayment, IssueNote, AskPayment, AskSeveral, AskLegacy, AskCreditNote, AskDebitNote,
          Wanted, InsertPayment, InsertCreditNote, InsertDebitNote
  <1>5. ASSUME NEW r \in Request, ChangePayment(r) \/ ChangeNote(r)
        PROVE  PaysInv'
    <2>1. "REVERSED" \in Undone /\ "REFUNDED" \in Undone
      BY DEF Undone
    <2>2. ReversePayment(r) \/ RefundPayment(r) => PaysInv'
      BY <1>1, <2>1, UndoBase, SaveAsPays DEF ReversePayment, RefundPayment, Undo
    <2>3. ReverseByApi(r) \/ CancelCreditNote(r) \/ CancelDebitNote(r) => PaysInv'
      BY <1>1, ReverseByApiBase, CancelNoteBase, SaveAsPays
      DEF ReverseByApi, CancelCreditNote, CancelDebitNote, CancelNote
    <2>4. Validate(r) \/ Edit(r) \/ Delete(r) \/ Destroy(r) \/ Patch(r) => PaysInv'
      BY <1>1, ValidateBase, EditBase, DeleteBase, DestroyBase, PatchBase, ValidatePays, SavePays,
         LeavePays
    <2> QED
      BY <1>3, <1>5, <2>2, <2>3, <2>4
      DEF ChangePayment, ChangeNote, LoadPayment, LoadCreditNote, LoadDebitNote
  <1>6. ASSUME NEW r \in Request, Finish(r)
        PROVE  PaysInv'
    BY <1>1, <1>6, RecomputeBase, StoreBase, CommitBase, EndBase, RecomputePays, StorePays,
       LeavePays DEF Finish
  <1>7. ASSUME NEW i \in Invoice, Overwrite(i)
        PROVE  PaysInv'
    BY <1>1, <1>7, OverwriteBase, OverwritePays
  <1>8. CASE UNCHANGED paymentsVars
    <2>1. \A r \in Request : Ready(r)' => Ready(r)
      BY <1>8 DEF paymentsVars, Ready, Busy, IsNew, At
    <2>2. \A r \in Request : Ready(r)' =>
              Accepted(request'[r].row, request'[r].select, entry', status')
      BY <1>8, <2>1 DEF paymentsVars, PaysInv
    <2> QED
      BY <2>2 DEF PaysInv
  <1> QED
    BY <1>4, <1>5, <1>6, <1>7, <1>8 DEF PaymentsNext

LEMMA PaysAlways == PaymentsSpec => []PaysInv
  <1>1. Base /\ PaysInv /\ [PaymentsNext]_paymentsVars => PaysInv'
    BY NextPays
  <1> QED
    BY BaseAlways, InitPays, <1>1, PTL DEF PaymentsSpec

(* The row a request adds counts for nothing before, and for what it is worth *)
(* in what the transaction sees.                                              *)
LEMMA AddingSees ==
    ASSUME Base, PaysInv, NEW r \in Request, Adding(r)
    PROVE  /\ request[r].row \in Row /\ Accepted(request[r].row, request[r].select, entry, status)
           /\ View(r) \in [Entry -> Row]
           /\ \A i \in Invoice : \A kinds :
                 /\ request[r].row.kind \in kinds =>
                       SumOf(View(r), kinds, i) = SumOf(entry, kinds, i) + Worth(request[r].row, i)
                 /\ request[r].row.kind \notin kinds =>
                       SumOf(View(r), kinds, i) = SumOf(entry, kinds, i)
  <1> DEFINE x == request[r].on
             row == request[r].row
  <1>1. /\ request[r] \in Copy /\ Ready(r) /\ HeldBy(request[r], entry) /\ row \in Row
        /\ request[r].stage = "open" /\ At(r, "open") /\ entry[x].status = "unborn"
        /\ entry \in [Entry -> Row]
    BY BusyCopy, CopyFields DEF Adding, At, Busy, Ready, Base, Typed, Held
  <1>2. x \in Entry
    BY <1>1, CopyFields DEF HeldBy
  <1>3. entry[x] = NoRow /\ View(r) = [entry EXCEPT ![x] = row]
    BY <1>1, <1>2 DEF Base, RowsBegin, View, Ready
  <1>4. Accepted(row, request[r].select, entry, status)
    BY <1>1 DEF PaysInv
  <1>5. \A i \in Invoice : Worth(entry[x], i) = 0
    BY <1>3 DEF Worth, Counts, NoRow, Absent
  <1> HIDE DEF x, row
  <1>6. ASSUME NEW i \in Invoice, NEW kinds
        PROVE  /\ row.kind \in kinds => SumOf(View(r), kinds, i) = SumOf(entry, kinds, i) + Worth(row, i)
               /\ row.kind \notin kinds => SumOf(View(r), kinds, i) = SumOf(entry, kinds, i)
    <2>1. /\ entry \in [Entry -> Row] /\ View(r) \in [Entry -> Row] /\ x \in Entry
          /\ Worth(entry[x], i) = 0 /\ \A y \in Entry \ {x} : View(r)[y] = entry[y]
          /\ View(r)[x] = row
      BY <1>1, <1>2, <1>3, <1>5
    <2> QED
      BY <2>1, SumWithRow
  <1> QED
    BY <1>1, <1>3, <1>4, <1>6 DEF row

(* What a service accepts never makes the payments of an invoice exceed its *)
(* total, or what is due after its notes, nor its credit notes its total    *)
(* and debit notes.                                                         *)
THEOREM NeverBeyondTheorem == PaymentsSpec => []NeverBeyond
  <1>1. Base /\ PaysInv => NeverBeyond
    <2> SUFFICES ASSUME Base, PaysInv, NEW r \in Request, Adding(r),
                        NEW i \in InvoicesOf(request[r].row)
                 PROVE  /\ OfKind(r, {"payment"}) =>
                              \/ Paid(View(r), i) <= Total[i]
                              \/ Paid(View(r), i) <= EffectiveDue(View(r), i)
                        /\ OfKind(r, {"credit"}) =>
                              Credited(View(r), i) <= Total[i] + Debited(View(r), i)
      BY DEF NeverBeyond
    <2> DEFINE row == request[r].row
    <2>1. /\ i \in Invoice /\ Within(row, entry)
          /\ \A kinds :
                /\ row.kind \in kinds => SumOf(View(r), kinds, i) = SumOf(entry, kinds, i) + Worth(row, i)
                /\ row.kind \notin kinds => SumOf(View(r), kinds, i) = SumOf(entry, kinds, i)
      BY AddingSees DEF InvoicesOf, Accepted
    <2>2. Paid(entry, i) \in Int /\ Credited(entry, i) \in Int /\ Debited(entry, i) \in Int
      BY <2>1, MoneyTyped DEF Base, Typed
    <2> HIDE DEF row
    <2>3. ASSUME row.kind = "payment"
          PROVE  Paid(View(r), i) <= Total[i] \/ Paid(View(r), i) <= EffectiveDue(View(r), i)
      <3>1. /\ Paid(View(r), i) = Paid(entry, i) + Worth(row, i)
            /\ EffectiveDue(View(r), i) = EffectiveDue(entry, i)
        BY <2>1, <2>2, <2>3 DEF Paid, Credited, Debited, EffectiveDue
      <3> QED
        BY <2>1, <2>3, <3>1 DEF Within, row
    <2>4. ASSUME row.kind = "credit"
          PROVE  Credited(View(r), i) <= Total[i] + Debited(View(r), i)
      <3>1. /\ Credited(View(r), i) = Credited(entry, i) + Worth(row, i)
            /\ Debited(View(r), i) = Debited(entry, i)
        BY <2>1, <2>2, <2>4 DEF Credited, Debited
      <3> QED
        BY <2>1, <2>4, <3>1 DEF Within, row
    <2> QED
      BY <2>3, <2>4 DEF OfKind, row
  <1> QED
    BY BaseAlways, PaysAlways, <1>1, PTL

(* A payment spread over several invoices gives no more than was paid, leaves *)
(* nothing of it while a selected invoice is owed money, and pays none before *)
(* those due earlier are paid in full.                                        *)
THEOREM OldestFirstTheorem == PaymentsSpec => []OldestFirst
  <1>1. Base /\ PaysInv => OldestFirst
    <2> SUFFICES ASSUME Base, PaysInv, NEW r \in Request, Adding(r), request[r].select # {}
                 PROVE  LET row == request[r].row
                            given == SumFunction([i \in Invoice |-> Worth(row, i)])
                        IN  /\ given <= AtLeastZero(row.amount)
                            /\ \A i \in Payable(r) : Balance(View(r), i) > 0 =>
                                  /\ given = AtLeastZero(row.amount)
                                  /\ \A j \in Invoice : Rank[j] > Rank[i] => Worth(row, j) = 0
      BY DEF OldestFirst
    <2> DEFINE row == request[r].row
    <2>1. /\ row \in Row /\ row.kind = "payment"
          /\ InOrder(row, request[r].select, entry, status)
          /\ \A i \in Invoice : \A kinds :
                /\ row.kind \in kinds => SumOf(View(r), kinds, i) = SumOf(entry, kinds, i) + Worth(row, i)
                /\ row.kind \notin kinds => SumOf(View(r), kinds, i) = SumOf(entry, kinds, i)
      <3>1. HeldBy(request[r], entry)
        BY DEF Adding, At, Busy, Base, Held
      <3>2. row.kind = "payment"
        BY <3>1 DEF Adding, At, HeldBy, Inserts
      <3> QED
        BY <3>2, AddingSees DEF Accepted
    <2>2. Payable(r) = PayableOf(request[r].select, status) /\ Payable(r) \subseteq Invoice
      BY BusyCopy, CopyFields DEF Payable, PayableOf, Adding, At, Busy, Base
    <2>3. SumFunction([i \in Invoice |-> Worth(row, i)]) = Given(row)
      BY DEF SumFunction, Given
    <2> HIDE DEF row
    <2>4. ASSUME NEW i \in Payable(r), Balance(View(r), i) > 0
          PROVE  Balance(entry, i) > Worth(row, i)
      <3>1. i \in Invoice
        BY <2>2
      <3>2. /\ Paid(entry, i) \in Int /\ EffectiveDue(entry, i) \in Nat /\ Worth(row, i) \in Int
            /\ Worth(row, i) >= 0 /\ Credited(entry, i) \in Int /\ Debited(entry, i) \in Int
        BY <2>1, <3>1, MoneyTyped, WorthInteger DEF Base, Typed, InOrder
      <3>3. /\ Paid(View(r), i) = Paid(entry, i) + Worth(row, i)
            /\ EffectiveDue(View(r), i) = EffectiveDue(entry, i)
        BY <2>1, <3>1, <3>2 DEF Paid, Credited, Debited, EffectiveDue
      <3> QED
        BY <2>4, <3>2, <3>3 DEF Balance, AtLeastZero
    <2> QED
      BY <2>1, <2>2, <2>3, <2>4 DEF InOrder, row
  <1> QED
    BY BaseAlways, PaysAlways, <1>1, PTL

(* The statement.  What an event adds, which events come before a          *)
(* statement and which after it, and how the loop goes through them.       *)
AddsTo(e) == e.debit - e.credit
Earlier(e, from) == from # NoDay /\ e.day < from
Later(e, to) == to # NoDay /\ e.day > to

Accumulated == [opening: Int, running: Int, empty: BOOLEAN]
Ends(acc) == IF acc.empty THEN acc.opening ELSE acc.running

Nothing == [opening |-> 0, running |-> 0, empty |-> TRUE]
Turn(e, from, to) == [acc \in Accumulated |-> Listed(acc, e, from, to)]

Turns(listed, n, from, to) == [i \in 1..n |-> Turn(listed[i], from, to)]

AnEvent(e) == e.day \in Int /\ e.debit \in Int /\ e.credit \in Int

(* What the accumulated values become with an event. *)
AddsUp(acc, e, from, to, next) ==
    /\ next \in Accumulated
    /\ next.opening = IF Earlier(e, from) THEN acc.opening + AddsTo(e) ELSE acc.opening
    /\ Earlier(e, from) \/ Later(e, to) => next.empty = acc.empty /\ next.running = acc.running
    /\ ~Earlier(e, from) /\ ~Later(e, to) => ~next.empty /\ next.running = AddsTo(e) + Ends(acc)

(* One turn of the loop does what AddsUp says. *)
LEMMA ListedIs ==
    ASSUME NEW acc \in Accumulated, NEW e, AnEvent(e), NEW from, NEW to, from = NoDay \/ to = NoDay
    PROVE  AddsUp(acc, e, from, to, Listed(acc, e, from, to))
  <1>1. AddsTo(e) \in Int /\ Ends(acc) \in Int
    BY DEF AddsTo, AnEvent, Ends, Accumulated
  <1>2. CASE Earlier(e, from)
    <2>1. Listed(acc, e, from, to) = [acc EXCEPT !.opening = @ + AddsTo(e)]
      BY <1>2 DEF Listed, Earlier, AddsTo
    <2> QED
      BY <1>1, <1>2, <2>1 DEF Accumulated, AddsUp
  <1>3. CASE ~Earlier(e, from) /\ Later(e, to)
    BY <1>3 DEF Listed, Earlier, Later, AddsUp
  <1>4. CASE ~Earlier(e, from) /\ ~Later(e, to)
    <2> DEFINE v == AddsTo(e) + Ends(acc)
    <2>1. Listed(acc, e, from, to) = [acc EXCEPT !.running = v, !.empty = FALSE]
      BY <1>4 DEF Listed, Earlier, Later, AddsTo, Ends
    <2>2. v \in Int
      BY <1>1
    <2> HIDE DEF v
    <2> DEFINE next == Listed(acc, e, from, to)
    <2>3. /\ next \in Accumulated /\ next.opening = acc.opening
          /\ next.empty = FALSE /\ next.running = v
      BY <2>1, <2>2 DEF Accumulated
    <2> QED
      BY <1>4, <2>3 DEF v, AddsUp
  <1> QED
    BY <1>2, <1>3, <1>4

(* The loop is a chain of turns. *)
Through(listed, from, to) ==
    FoldLeft(LAMBDA acc, event : Listed(acc, event, from, to), Nothing, listed)

(* The accumulated values after each part of the list. *)
Accumulates(h, listed, n, from, to) ==
    /\ h \in [SUBSET (1..n) -> Accumulated]
    /\ Chains(h, Turns(listed, n, from, to), Nothing, n)
    /\ Through(listed, from, to) = h[1..n]

(* The loop has a last turn: its values are those of a function on the     *)
(* events listed so far.                                                   *)
LEMMA StatementFold ==
    ASSUME NEW n \in Nat, NEW listed, DOMAIN listed = 1..n, \A i \in 1..n : AnEvent(listed[i]),
           NEW from, NEW to, from = NoDay \/ to = NoDay
    PROVE  \E h : Accumulates(h, listed, n, from, to)
  <1> DEFINE Solves(h) == h = [s \in SUBSET DOMAIN listed |->
                  IF s = {} THEN Nothing
                  ELSE Listed(h[s \ {Max(s)}], listed[Max(s)], from, to)]
             next == Turns(listed, n, from, to)
             k == CHOOSE h : Solves(h)
  <1>1. Through(listed, from, to) = k[DOMAIN listed]
    BY DEF Through, FoldLeft, MapThenFoldSet
  <1>2. Nothing \in Accumulated
    BY DEF Nothing, Accumulated
  <1>3. next \in [1..n -> [Accumulated -> Accumulated]]
    <2>1. ASSUME NEW i \in 1..n PROVE Turn(listed[i], from, to) \in [Accumulated -> Accumulated]
      <3>1. \A acc \in Accumulated : Listed(acc, listed[i], from, to) \in Accumulated
        BY ListedIs DEF AddsUp
      <3> QED
        BY <3>1 DEF Turn
    <2> QED
      BY <2>1 DEF Turns
  <1>4. PICK h \in [SUBSET (1..n) -> Accumulated] : Chains(h, next, Nothing, n)
    <2> HIDE DEF next
    <2> QED
      BY <1>2, <1>3, ChainsExist
  <1>5. Solves(h)
    <2>1. ASSUME NEW s \in SUBSET (1..n), s # {}
          PROVE  h[s] = Listed(h[s \ {Max(s)}], listed[Max(s)], from, to)
      <3>1. Max(s) \in 1..n /\ s \ {Max(s)} \in SUBSET (1..n)
        BY <2>1, WithoutLast
      <3>2. h[s] = next[Max(s)][h[s \ {Max(s)}]] /\ h[s \ {Max(s)}] \in Accumulated
        BY <1>4, <2>1, <3>1 DEF Chains
      <3>3. next[Max(s)] = Turn(listed[Max(s)], from, to)
        BY <3>1 DEF Turns
      <3> QED
        BY <3>1, <3>2, <3>3 DEF Turn
    <2> QED
      BY <1>4, <2>1 DEF Chains
  <1>6. Solves(k)
    BY <1>5
  <1>7. \A s \in SUBSET (1..n) : k[s] = h[s]
    <2> DEFINE Bad == {s \in SUBSET (1..n) : k[s] # h[s]}
    <2> SUFFICES ASSUME Bad # {} PROVE FALSE
      OBVIOUS
    <2>1. PICK s \in Bad : \A u \in Bad : ~(u \subseteq s /\ u # s)
      <3> DEFINE N == 1..n
      <3>1. IsFiniteSet(N)
        BY FS_Interval
      <3>2. Bad \in SUBSET SUBSET N
        OBVIOUS
      <3> HIDE DEF Bad, N
      <3> QED
        BY <3>1, <3>2, LeastSubset
    <2>2. s \in SUBSET (1..n)
      BY <2>1
    <2> HIDE DEF k
    <2>3. s # {}
      BY <1>5, <1>6, <2>1, <2>2
    <2>4. s \ {Max(s)} \in SUBSET (1..n) /\ Max(s) \in s
      BY <2>2, <2>3, WithoutLast
    <2>5. k[s \ {Max(s)}] = h[s \ {Max(s)}]
      BY <2>1, <2>4
    <2>6. /\ k[s] = Listed(k[s \ {Max(s)}], listed[Max(s)], from, to)
          /\ h[s] = Listed(h[s \ {Max(s)}], listed[Max(s)], from, to)
      BY <1>5, <1>6, <2>2, <2>3
    <2> QED
      BY <2>1, <2>5, <2>6
  <1> HIDE DEF k, next
  <1> QED
    BY <1>1, <1>4, <1>7 DEF next, Accumulates

Opens(listed, from) == [i \in DOMAIN listed |-> IF Earlier(listed[i], from) THEN AddsTo(listed[i]) ELSE 0]
Closes(listed, from, to) ==
    [i \in DOMAIN listed |-> IF Earlier(listed[i], from) \/ ~Later(listed[i], to)
                             THEN AddsTo(listed[i]) ELSE 0]

(* Over events in the order of their days, the opening balance sums those  *)
(* before the statement, and the closing one those up to its end.          *)
LEMMA StatementOfList ==
    ASSUME NEW n \in Nat, NEW listed, DOMAIN listed = 1..n, \A i \in 1..n : AnEvent(listed[i]),
           \A i, j \in 1..n : i < j => listed[i].day <= listed[j].day,
           NEW from, NEW to, from = NoDay \/ to = NoDay, from = NoDay \/ from \in Int
    PROVE  LET end == Through(listed, from, to) IN
           /\ end.opening = SumFunctionOnSet(Opens(listed, from), 1..n)
           /\ Ends(end) = SumFunctionOnSet(Closes(listed, from, to), 1..n)
  <1> DEFINE end == Through(listed, from, to)
             next == Turns(listed, n, from, to)
             earlier(i) == Earlier(listed[i], from)
             o == Opens(listed, from)
             c == Closes(listed, from, to)
  <1>0. PICK h : Accumulates(h, listed, n, from, to)
    BY StatementFold
  <1>1. /\ h \in [SUBSET (1..n) -> Accumulated]
        /\ Chains(h, next, Nothing, n) /\ end = h[1..n]
    BY <1>0 DEF Accumulates
  <1> HIDE DEF next, end
  <1>2. h[{}] = Nothing
    BY <1>1 DEF Chains
  <1>3. ASSUME NEW s \in SUBSET (1..n), s # {}
        PROVE  /\ Max(s) \in s /\ Max(s) \in 1..n /\ s \ {Max(s)} \in SUBSET (1..n)
               /\ \A j \in s \ {Max(s)} : j < Max(s)
               /\ h[s \ {Max(s)}] \in Accumulated
               /\ h[s] = Listed(h[s \ {Max(s)}], listed[Max(s)], from, to)
    <2>1. /\ Max(s) \in s /\ Max(s) \in 1..n /\ s \ {Max(s)} \in SUBSET (1..n)
          /\ \A j \in s : j <= Max(s)
      BY <1>3, WithoutLast
    <2>2. h[s] = next[Max(s)][h[s \ {Max(s)}]] /\ h[s \ {Max(s)}] \in Accumulated
      BY <1>1, <1>3, <2>1 DEF Chains
    <2>3. \A j \in s \ {Max(s)} : j < Max(s)
      BY <2>1
    <2>4. next[Max(s)] = Turn(listed[Max(s)], from, to)
      BY <2>1 DEF next, Turns
    <2> QED
      BY <2>1, <2>2, <2>3, <2>4 DEF Turn
  <1>4. \A s \in SUBSET (1..n) : (\A i \in s : earlier(i)) => h[s].empty
    <2> DEFINE Bad == {s \in SUBSET (1..n) : (\A i \in s : earlier(i)) /\ ~h[s].empty}
    <2> SUFFICES ASSUME Bad # {} PROVE FALSE
      OBVIOUS
    <2>1. PICK s \in Bad : \A u \in Bad : ~(u \subseteq s /\ u # s)
      <3> DEFINE N == 1..n
      <3>1. IsFiniteSet(N)
        BY FS_Interval
      <3>2. Bad \in SUBSET SUBSET N
        OBVIOUS
      <3> HIDE DEF Bad, N
      <3> QED
        BY <3>1, <3>2, LeastSubset
    <2>2. s \in SUBSET (1..n) /\ s # {}
      <3>1. h[{}].empty
        BY <1>2 DEF Nothing
      <3>2. s \in SUBSET (1..n) /\ ~h[s].empty
        BY <2>1
      <3> QED
        BY <3>1, <3>2
    <2> DEFINE m == Max(s)
               u == s \ {m}
    <2>3. m \in s /\ m \in 1..n /\ u \in SUBSET (1..n) /\ h[u] \in Accumulated
          /\ h[s] = Listed(h[u], listed[m], from, to)
      BY <1>3, <2>2
    <2>4. h[u].empty
      BY <2>1, <2>3
    <2>5. Earlier(listed[m], from) /\ AnEvent(listed[m]) /\ ~h[s].empty
      BY <2>1, <2>3
    <2> DEFINE e == listed[m]
    <2> HIDE DEF m, u, e
    <2>6. AddsUp(h[u], e, from, to, h[s])
      BY <2>3, <2>5, ListedIs DEF e
    <2>7. h[s].empty = h[u].empty
      BY <2>5, <2>6 DEF AddsUp, e
    <2>8. h[s].empty
      BY <2>4, <2>7
    <2> QED
      BY <2>5, <2>8
  <1>5. \A i \in 1..n : AddsTo(listed[i]) \in Int
    BY DEF AddsTo, AnEvent
  <1>6. IntegersOn(o, 1..n) /\ IntegersOn(c, 1..n)
    <2>1. 1 \in Int /\ n \in Int
      OBVIOUS
    <2>2. IsFiniteSet(1..n)
      BY <2>1, FS_Interval
    <2>3. \A i \in 1..n : o[i] \in Int /\ c[i] \in Int
      BY <1>5 DEF Opens, Closes
    <2> QED
      BY <2>2, <2>3 DEF IntegersOn
  <1>7. ASSUME NEW s \in SUBSET (1..n), s # {}
        PROVE  /\ h[s].opening = o[Max(s)] + h[s \ {Max(s)}].opening
               /\ Ends(h[s]) = c[Max(s)] + Ends(h[s \ {Max(s)}])
    <2> DEFINE m == Max(s)
               u == s \ {m}
               e == listed[m]
    <2>1. /\ m \in 1..n /\ u \in SUBSET (1..n) /\ h[u] \in Accumulated
          /\ h[s] = Listed(h[u], e, from, to) /\ \A j \in u : j < m
      BY <1>3, <1>7
    <2>2. /\ o[m] = IF Earlier(e, from) THEN AddsTo(e) ELSE 0
          /\ c[m] = IF Earlier(e, from) \/ ~Later(e, to) THEN AddsTo(e) ELSE 0
          /\ AddsTo(e) \in Int /\ AnEvent(e)
      BY <1>5, <2>1 DEF Opens, Closes
    <2>3. CASE Earlier(e, from)
      <3>1. \A j \in u : Earlier(listed[j], from)
        <4> SUFFICES ASSUME NEW j \in u PROVE Earlier(listed[j], from)
          OBVIOUS
        <4>1. listed[j].day <= e.day /\ listed[j].day \in Int /\ e.day \in Int
          BY <2>1 DEF AnEvent
        <4> HIDE DEF m, u, e
        <4> QED
          BY <2>3, <4>1 DEF Earlier
      <3>2. h[u].empty
        BY <1>4, <2>1, <3>1
      <3> HIDE DEF m, u, e, o, c
      <3>3. h[s].opening = h[u].opening + AddsTo(e) /\ h[s].empty = h[u].empty
        BY <2>1, <2>2, <2>3, ListedIs DEF AddsUp
      <3>4. h[u].opening \in Int
        BY <2>1 DEF Accumulated
      <3> QED
        BY <2>2, <2>3, <3>2, <3>3, <3>4 DEF Ends, m, u
    <2>4. CASE ~Earlier(e, from) /\ Later(e, to)
      <3> HIDE DEF m, u, e, o, c
      <3>1. h[s].opening = h[u].opening /\ h[s].empty = h[u].empty /\ h[s].running = h[u].running
        BY <2>1, <2>2, <2>4, ListedIs DEF AddsUp
      <3>2. h[u].opening \in Int /\ Ends(h[u]) \in Int
        BY <2>1 DEF Accumulated, Ends
      <3>3. Ends(h[s]) = Ends(h[u])
        BY <3>1 DEF Ends
      <3> QED
        BY <2>2, <2>4, <3>1, <3>2, <3>3 DEF m, u
    <2>5. CASE ~Earlier(e, from) /\ ~Later(e, to)
      <3> HIDE DEF m, u, e, o, c
      <3>1. /\ h[s].running = AddsTo(e) + Ends(h[u]) /\ h[s].empty = FALSE
            /\ h[s].opening = h[u].opening
        BY <2>1, <2>2, <2>5, ListedIs DEF AddsUp
      <3>2. h[u].opening \in Int
        BY <2>1 DEF Accumulated
      <3>3. Ends(h[s]) = h[s].running
        BY <3>1 DEF Ends
      <3> QED
        BY <2>2, <2>5, <3>1, <3>2, <3>3 DEF m, u
    <2> QED
      BY <2>3, <2>4, <2>5
  <1> DEFINE O == [s \in SUBSET (1..n) |-> h[s].opening]
             C == [s \in SUBSET (1..n) |-> Ends(h[s])]
             N == 1..n
  <1>8. O[{}] = 0 /\ C[{}] = 0
    BY <1>2 DEF Nothing, Ends
  <1>9. \A s \in SUBSET N : s # {} =>
            \E x \in s : O[s \ {x}] \in Int => O[s] = o[x] + O[s \ {x}]
    <2> SUFFICES ASSUME NEW s \in SUBSET N, s # {}
                 PROVE  O[s] = o[Max(s)] + O[s \ {Max(s)}] /\ Max(s) \in s
      OBVIOUS
    <2> HIDE DEF o, c
    <2> QED
      BY <1>3, <1>7
  <1>10. \A s \in SUBSET N : s # {} =>
            \E x \in s : C[s \ {x}] \in Int => C[s] = c[x] + C[s \ {x}]
    <2> SUFFICES ASSUME NEW s \in SUBSET N, s # {}
                 PROVE  C[s] = c[Max(s)] + C[s \ {Max(s)}] /\ Max(s) \in s
      OBVIOUS
    <2> HIDE DEF o, c
    <2> QED
      BY <1>3, <1>7
  <1>11. O[N] = end.opening /\ C[N] = Ends(end)
    BY <1>1
  <1> HIDE DEF o, c, O, C, N
  <1>12. O[N] = SumFunctionOnSet(o, N) /\ C[N] = SumFunctionOnSet(c, N)
    <2>1. IntegersOn(o, N) /\ IntegersOn(c, N)
      BY <1>6 DEF N
    <2> QED
      BY <1>8, <1>9, <1>10, <2>1, SumInAnyOrder
  <1> QED
    BY <1>11, <1>12 DEF N, o, c, end

-----------------------------------------------------------------------------
(* Each row stays in its table: a copy is of the kind of the row it is of,  *)
(* and has the columns and the statuses of its table.                       *)

Shaped(row) ==
    Exists(row) =>
        /\ row.kind = "payment" => row.status \in {"COMPLETED", "REVERSED", "REFUNDED"}
        /\ row.kind = "legacy" => row.status = "COMPLETED"
        /\ row.kind \in {"credit", "debit"} => row.status \in {"ISSUED", "CANCELLED"}
        /\ row.kind # "payment" => row.share = NoShare /\ row.invoice # NoInvoice

InTable(k) ==
    /\ \A x \in Entry : Shaped(entry[x]) /\ (Exists(entry[x]) => entry[x].kind = k[x])
    /\ \A r \in Request : Busy(r) =>
          /\ Shaped(request[r].row)
          /\ request[r].on \in Entry => request[r].row.kind = k[request[r].on]

KindsInv == \E k \in [Entry -> Kind] : InTable(k)

(* A step of a request that changes at most the row x, which is of the kind j *)
(* as before, or nobody else's.                                               *)
LEMMA StepKinds ==
    ASSUME Base, Base', NEW k \in [Entry -> Kind], InTable(k), NEW r \in Request, Apartly(r),
           NEW x, NEW j \in Kind, x \in Entry => j = k[x] \/ Unclaimed(r, x),
           \A y \in Entry : y # x => entry'[y] = entry[y],
           x \in Entry => Shaped(entry'[x]) /\ (Exists(entry'[x]) => entry'[x].kind = j),
           request'[r] = Idle \/
              /\ Shaped(request'[r].row)
              /\ request'[r].on \in Entry => request'[r].on = x /\ request'[r].row.kind = j
    PROVE  KindsInv'
  <1> DEFINE l == [k EXCEPT ![x] = j]
  <1>1. l \in [Entry -> Kind] /\ \A y \in Entry : l[y] = IF y = x THEN j ELSE k[y]
    OBVIOUS
  <1> HIDE DEF l
  <1>2. ASSUME NEW y \in Entry
        PROVE  Shaped(entry'[y]) /\ (Exists(entry'[y]) => entry'[y].kind = l[y])
    BY <1>1 DEF InTable
  <1>3. ASSUME NEW s \in Request, Busy(s)'
        PROVE  /\ Shaped(request'[s].row)
               /\ request'[s].on \in Entry => request'[s].row.kind = l[request'[s].on]
    <2>1. CASE s = r
      BY <1>1, <1>3, <2>1 DEF Busy
    <2>2. CASE s # r
      <3>1. {r} \in SUBSET Request /\ s \in Request \ {r} /\ request'[s] # Idle /\ Typed
        BY <1>3, <2>2 DEF Busy, Base
      <3>2. PICK W : Outside({r}, W)
        BY DEF Apartly
      <3>3. Busy(s) /\ request'[s].on = request[s].on /\ request'[s].row = request[s].row
        BY <3>1, <3>2, OthersGoOn
      <3>4. request[s].on = x => (x \in Entry => j = k[x])
        BY <3>1, <3>3 DEF Unclaimed
      <3> QED
        BY <1>1, <3>3, <3>4 DEF InTable
    <2> QED
      BY <2>1, <2>2
  <1>4. InTable(l)'
    BY <1>2, <1>3 DEF InTable
  <1> QED
    BY <1>1, <1>4 DEF KindsInv

(* A busy request: its row is shaped, and so is the one it is of. *)
LEMMA BusyInTable ==
    ASSUME Base, NEW k \in [Entry -> Kind], InTable(k), NEW r \in Request, Busy(r)
    PROVE  /\ request[r] \in Copy /\ request[r].row \in Row /\ request[r].row.kind \in Kind
           /\ Shaped(request[r].row) /\ Exists(request[r].row)
           /\ ~IsNew(r) =>
                 /\ request[r].on \in Entry /\ request[r].row.kind = k[request[r].on]
                 /\ Shaped(entry[request[r].on])
                 /\ Exists(entry[request[r].on]) => entry[request[r].on].kind = request[r].row.kind
  <1>1. request[r] \in Copy /\ Exists(request[r].row)
    BY BusyCopy DEF Base, Held, HeldBy
  <1>2. request[r].row \in Row /\ request[r].on \in Entry \cup {NoEntry}
    BY <1>1, CopyFields
  <1>3. request[r].row.kind \in Kind
    BY <1>2, RowFields
  <1> QED
    BY <1>1, <1>2, <1>3 DEF InTable, IsNew

(* A request that goes on with the row it has, or leaves. *)
LEMMA KeepsKinds ==
    ASSUME Base, Base', KindsInv, NEW r \in Request, Apartly(r), Busy(r), entry' = entry,
           request'[r] = Idle \/
              /\ request'[r].on = request[r].on /\ request'[r].row.kind = request[r].row.kind
              /\ Shaped(request'[r].row)
    PROVE  KindsInv'
  <1>1. PICK k \in [Entry -> Kind] : InTable(k)
    BY DEF KindsInv
  <1> DEFINE x == request[r].on
             j == request[r].row.kind
  <1>2. j \in Kind /\ (x \in Entry => j = k[x])
    BY <1>1, BusyInTable, InvoicesAssumption DEF IsNew
  <1>3. x \in Entry => Shaped(entry'[x]) /\ (Exists(entry'[x]) => entry'[x].kind = j)
    BY <1>1, <1>2 DEF InTable
  <1>4. request'[r] = Idle \/
              /\ Shaped(request'[r].row)
              /\ request'[r].on \in Entry => request'[r].on = x /\ request'[r].row.kind = j
    OBVIOUS
  <1> HIDE DEF x, j
  <1> QED
    BY <1>1, <1>2, <1>3, <1>4, StepKinds

(* A request that writes the row it has. *)
LEMMA WritesKinds ==
    ASSUME Base, Base', KindsInv, NEW r \in Request, Apartly(r), Busy(r), ~IsNew(r),
           \A y \in Entry : y # request[r].on => entry'[y] = entry[y], Shaped(entry'[request[r].on]),
           Exists(entry'[request[r].on]) => entry'[request[r].on].kind = request[r].row.kind,
           request'[r] = Idle \/
              (request'[r].on = request[r].on /\ request'[r].row = request[r].row)
    PROVE  KindsInv'
  <1>1. PICK k \in [Entry -> Kind] : InTable(k)
    BY DEF KindsInv
  <1> DEFINE x == request[r].on
             j == request[r].row.kind
  <1>2. /\ j \in Kind /\ j = k[x] /\ x \in Entry /\ Shaped(request[r].row)
    BY <1>1, BusyInTable
  <1>3. /\ \A y \in Entry : y # x => entry'[y] = entry[y]
        /\ Shaped(entry'[x]) /\ (Exists(entry'[x]) => entry'[x].kind = j)
    OBVIOUS
  <1>4. request'[r] = Idle \/
              /\ Shaped(request'[r].row)
              /\ request'[r].on \in Entry => request'[r].on = x /\ request'[r].row.kind = j
    BY <1>2
  <1> HIDE DEF x, j
  <1> QED
    BY <1>1, <1>2, <1>3, <1>4, StepKinds

(* What it writes, at its place. *)
LEMMA WrittenRow ==
    ASSUME Base, NEW r \in Request, Busy(r), ~IsNew(r), NEW new,
           entry' = [entry EXCEPT ![request[r].on] = new]
    PROVE  /\ entry'[request[r].on] = new
           /\ \A y \in Entry : y # request[r].on => entry'[y] = entry[y]
  <1>1. request[r].on \in Entry
    BY OnEntry DEF Base
  <1> QED
    BY <1>1 DEF Base, Typed

(* The steps of a request, one after the other: each leaves every row in   *)
(* its table.                                                              *)
LEMMA BeginKinds ==
    ASSUME Base, Base', KindsInv, NEW r \in Request, Apartly(r), NEW on, NEW row \in Row,
           NEW select, BeginRequest(r, on, row, select), Shaped(row),
           on \in Entry => row = entry[on] /\ Exists(row)
    PROVE  KindsInv'
  <1>1. PICK k \in [Entry -> Kind] : InTable(k)
    BY DEF KindsInv
  <1>2. request'[r].on = on /\ request'[r].row = row /\ entry' = entry
    BY DEF BeginRequest, Enter
  <1> DEFINE x == on
             j == row.kind
  <1>3. j \in Kind /\ (x \in Entry => j = k[x])
    BY <1>1, RowFields DEF InTable
  <1>4. x \in Entry => Shaped(entry'[x]) /\ (Exists(entry'[x]) => entry'[x].kind = j)
    BY <1>1, <1>2 DEF InTable
  <1>5. request'[r] = Idle \/
              /\ Shaped(request'[r].row)
              /\ request'[r].on \in Entry => request'[r].on = x /\ request'[r].row.kind = j
    BY <1>2
  <1>6. \A y \in Entry : y # x => entry'[y] = entry[y]
    BY <1>2
  <1> HIDE DEF x, j
  <1>7. CASE x \in Entry
    BY <1>1, <1>3, <1>4, <1>5, <1>6, <1>7, StepKinds
  <1>8. CASE x \notin Entry
    BY <1>1, <1>3, <1>5, <1>6, <1>8, StepKinds
  <1> QED
    BY <1>7, <1>8

LEMMA AskKinds ==
    ASSUME Base, Base', KindsInv, NEW r \in Request, Apartly(r), NEW asked \in SUBSET NewEntries,
           Ask(r, asked)
    PROVE  KindsInv'
  <1>1. PICK new \in asked : BeginRequest(r, NoEntry, new.row, new.select)
    BY DEF Ask
  <1>2. new.row \in Row /\ NoEntry \notin Entry
    BY EntriesAssumption, InvoicesAssumption
  <1>3. Shaped(new.row)
    BY EntriesAssumption DEF Shaped
  <1> QED
    BY <1>1, <1>2, <1>3, BeginKinds

LEMMA LoadKinds ==
    ASSUME Base, Base', KindsInv, NEW r \in Request, Apartly(r), NEW kinds, LoadKind(r, kinds)
    PROVE  KindsInv'
  <1>1. PICK x \in Entry : Exists(entry[x]) /\ BeginRequest(r, x, entry[x], {})
    BY DEF LoadKind
  <1>2. entry[x] \in Row /\ Shaped(entry[x])
    BY DEF KindsInv, InTable, Base, Typed
  <1> QED
    BY <1>1, <1>2, BeginKinds

LEMMA PassesKinds ==
    ASSUME Base, Base', KindsInv, NEW r \in Request, Apartly(r), Passes(r)
    PROVE  KindsInv'
  <1>1. Busy(r) /\ request[r] \in Copy /\ Shaped(request[r].row) /\ entry' = entry
    BY BusyCopy DEF Passes, At, Busy, Base, KindsInv, InTable
  <1>2. request'[r] = [request[r] EXCEPT !.stage = "checked"]
    BY DEF Passes, Becomes, Base, Typed
  <1>3. request'[r].on = request[r].on /\ request'[r].row = request[r].row
    BY <1>1, <1>2 DEF Copy
  <1> QED
    BY <1>1, <1>3, KeepsKinds

LEMMA AllocateKinds ==
    ASSUME Base, Base', KindsInv, NEW r \in Request, Apartly(r), Allocate(r)
    PROVE  KindsInv'
  <1> DEFINE paid == {i \in Invoice : Shares(r)[i] > 0}
             some == [request[r] EXCEPT !.stage = "checked", !.seen = Fetched(paid),
                                        !.row.share = Shares(r)]
             one(i) == [request[r] EXCEPT !.stage = "checked", !.seen = Fetched(paid),
                                          !.row.invoice = i]
  <1>1. /\ Busy(r) /\ request[r] \in Copy /\ request[r].row \in Row /\ HeldBy(request[r], entry)
        /\ request[r].on = NoEntry /\ request[r].select # {} /\ Shaped(request[r].row)
        /\ entry' = entry
    BY BusyCopy, CopyFields DEF Allocate, At, Busy, IsNew, Base, Held, KindsInv, InTable
  <1>2. request[r].row.kind = "payment" /\ Exists(request[r].row)
    BY <1>1 DEF HeldBy, Inserts
  <1>3. PICK i : request'[r] = some \/ request'[r] = one(i)
    BY DEF Allocate, Becomes, Base, Typed
  <1> HIDE DEF paid
  <1>4. \/ request'[r].row = [request[r].row EXCEPT !.share = Shares(r)]
        \/ request'[r].row = [request[r].row EXCEPT !.invoice = i]
    BY <1>1, <1>3 DEF Copy
  <1>5. request'[r].on = request[r].on
    BY <1>1, <1>3 DEF Copy
  <1>6. request'[r].row.kind = "payment" /\ request'[r].row.status = request[r].row.status
    BY <1>1, <1>2, <1>4 DEF Row
  <1>7. Shaped(request'[r].row)
    BY <1>1, <1>2, <1>6 DEF Shaped, Exists
  <1> QED
    BY <1>1, <1>2, <1>5, <1>6, <1>7, KeepsKinds

LEMMA InsertKinds ==
    ASSUME Base, Base', KindsInv, NEW r \in Request, Apartly(r), Insert(r) \/ InsertLegacy(r)
    PROVE  KindsInv'
  <1>1. PICK k \in [Entry -> Kind] : InTable(k)
    BY DEF KindsInv
  <1> DEFINE c(x, stage) == [request[r] EXCEPT !.stage = stage, !.on = x,
                                               !.todo = InvoicesOf(request[r].row)]
             j == request[r].row.kind
  <1>2. PICK x \in Entry, stage \in {"open", "saved"} :
          /\ Busy(r) /\ entry[x].status = "unborn"
          /\ \A s \in Request : At(s, "open") => request[s].on # x
          /\ Becomes(r, c(x, stage))
          /\ entry' = entry \/ entry' = [entry EXCEPT ![x] = request[r].row]
    BY DEF Insert, InsertLegacy, At, Busy
  <1>3. request[r] \in Copy /\ Shaped(request[r].row) /\ j \in Kind
    BY <1>1, <1>2, BusyInTable
  <1>4. request'[r].on = x /\ request'[r].row = request[r].row
    <2>1. request'[r] = c(x, stage)
      BY <1>2 DEF Becomes, Base, Typed
    <2> QED
      BY <1>3, <2>1 DEF Copy
  <1>5. Unclaimed(r, x)
    BY <1>2, UnbornUnclaimed
  <1>6. \A y \in Entry : y # x => entry'[y] = entry[y]
    BY <1>2 DEF Base, Typed
  <1>7. entry'[x] = entry[x] \/ entry'[x] = request[r].row
    BY <1>2 DEF Base, Typed
  <1>8. Shaped(entry'[x]) /\ (Exists(entry'[x]) => entry'[x].kind = j)
    BY <1>2, <1>3, <1>7 DEF Shaped, Exists, Absent
  <1>9. Shaped(request'[r].row) /\ request'[r].row.kind = j
    BY <1>3, <1>4
  <1> HIDE DEF j
  <1> QED
    BY <1>1, <1>3, <1>4, <1>5, <1>6, <1>8, <1>9, StepKinds

(* What a copy saves is of its table as well. *)
LEMMA SavedShaped ==
    ASSUME Base, KindsInv, NEW r \in Request, Busy(r), ~IsNew(r), NEW row \in Row,
           Shaped(row), row.kind = request[r].row.kind
    PROVE  Shaped(Saved(r, row)) /\ Saved(r, row).kind = row.kind
  <1>1. PICK k \in [Entry -> Kind] : InTable(k)
    BY DEF KindsInv
  <1>2. /\ Shaped(entry[request[r].on])
        /\ Exists(entry[request[r].on]) => entry[request[r].on].kind = row.kind
    BY <1>1, BusyInTable
  <1>3. /\ Saved(r, row).kind = row.kind /\ Saved(r, row).status = row.status
        /\ Saved(r, row).invoice = row.invoice
        /\ Saved(r, row).share = IF Exists(entry[request[r].on])
                                 THEN entry[request[r].on].share ELSE NoShare
    BY SavedIs DEF Base
  <1> QED
    BY <1>2, <1>3 DEF Shaped, Exists

LEMMA SaveAsKinds ==
    ASSUME Base, Base', KindsInv, NEW r \in Request, Apartly(r), NEW new \in EntryStatus,
           NEW todo, NEW known, SaveAs(r, new, todo, known),
           \/ request[r].row.kind = "payment" /\ new \in {"REVERSED", "REFUNDED"}
           \/ request[r].row.kind \in {"credit", "debit"} /\ new = "CANCELLED"
    PROVE  KindsInv'
  <1> DEFINE row == [request[r].row EXCEPT !.status = new]
             c == [request[r] EXCEPT !.stage = "open", !.row = Saved(r, row), !.todo = todo,
                                     !.seen = known]
  <1>1. /\ Busy(r) /\ ~IsNew(r) /\ request[r] \in Copy /\ request[r].row \in Row
        /\ Shaped(request[r].row) /\ Exists(request[r].row) /\ entry' = entry
    BY BusyInTable DEF SaveAs, At, Busy, IsNew, KindsInv
  <1>2. /\ row \in Row /\ row.kind = request[r].row.kind /\ row.status = new
        /\ row.share = request[r].row.share /\ row.invoice = request[r].row.invoice
    BY <1>1 DEF Row
  <1>3. request'[r] = c
    BY DEF SaveAs, Becomes, Base, Typed
  <1> HIDE DEF row
  <1>4. Shaped(row)
    BY <1>1, <1>2 DEF Shaped
  <1>5. request'[r].on = request[r].on /\ request'[r].row = Saved(r, row)
    BY <1>1, <1>3 DEF Copy
  <1>6. Shaped(Saved(r, row)) /\ Saved(r, row).kind = row.kind
    BY <1>1, <1>2, <1>4, SavedShaped
  <1> QED
    BY <1>1, <1>2, <1>5, <1>6, KeepsKinds

LEMMA UndoKinds ==
    ASSUME Base, Base', KindsInv, NEW r \in Request, Apartly(r),
           \/ ReversePayment(r) \/ RefundPayment(r) \/ ReverseByApi(r)
           \/ CancelCreditNote(r) \/ CancelDebitNote(r)
    PROVE  KindsInv'
  <1>1. {"REVERSED", "REFUNDED", "CANCELLED"} \subseteq EntryStatus
    BY DEF EntryStatus, Undone
  <1>2. ReversePayment(r) \/ RefundPayment(r) => KindsInv'
    BY <1>1, SaveAsKinds DEF ReversePayment, RefundPayment, Undo, OfKind
  <1>3. ReverseByApi(r) => KindsInv'
    BY <1>1, SaveAsKinds DEF ReverseByApi, OfKind
  <1>4. CancelCreditNote(r) \/ CancelDebitNote(r) => KindsInv'
    BY <1>1, SaveAsKinds DEF CancelCreditNote, CancelDebitNote, CancelNote, OfKind
  <1> QED
    BY <1>2, <1>3, <1>4

LEMMA ValidateKinds ==
    ASSUME Base, Base', KindsInv, NEW r \in Request, Apartly(r), Validate(r)
    PROVE  KindsInv'
  <1>1. /\ Busy(r) /\ request[r] \in Copy /\ request[r].row \in Row /\ Shaped(request[r].row)
        /\ entry' = entry
    BY BusyInTable DEF Validate, At, Busy, KindsInv
  <1>2. PICK amount \in Amount :
            request'[r] = [request[r] EXCEPT !.stage = "checked", !.row.amount = amount]
    BY DEF Validate, Becomes, Base, Typed
  <1>3. request'[r].on = request[r].on /\ request'[r].row = [request[r].row EXCEPT !.amount = amount]
    BY <1>1, <1>2 DEF Copy
  <1>4. /\ request'[r].row.kind = request[r].row.kind /\ request'[r].row.status = request[r].row.status
        /\ request'[r].row.invoice = request[r].row.invoice
        /\ request'[r].row.share = request[r].row.share
    BY <1>1, <1>3 DEF Row
  <1>5. Shaped(request'[r].row)
    BY <1>1, <1>4 DEF Shaped, Exists
  <1> QED
    BY <1>1, <1>3, <1>4, <1>5, KeepsKinds

LEMMA EditKinds ==
    ASSUME Base, Base', KindsInv, NEW r \in Request, Apartly(r), Edit(r)
    PROVE  KindsInv'
  <1> DEFINE own == {i \in Invoice : request[r].row.invoice = i}
  <1>1. /\ Busy(r) /\ ~IsNew(r) /\ request[r] \in Copy /\ request[r].row \in Row
        /\ Shaped(request[r].row)
    BY BusyInTable DEF Edit, At, Busy, KindsInv
  <1>2. /\ entry' = [entry EXCEPT ![request[r].on] = Saved(r, request[r].row)]
        /\ request'[r] = [request[r] EXCEPT !.stage = "saved", !.todo = own, !.seen = Fetched({})]
    BY DEF Edit, Becomes, Base, Typed
  <1>3. request'[r].on = request[r].on /\ request'[r].row = request[r].row
    BY <1>1, <1>2 DEF Copy
  <1>4. Shaped(Saved(r, request[r].row)) /\ Saved(r, request[r].row).kind = request[r].row.kind
    BY <1>1, SavedShaped
  <1>5. /\ entry'[request[r].on] = Saved(r, request[r].row)
        /\ \A y \in Entry : y # request[r].on => entry'[y] = entry[y]
    BY <1>1, <1>2, WrittenRow
  <1> QED
    BY <1>1, <1>3, <1>4, <1>5, WritesKinds

LEMMA RemoveKinds ==
    ASSUME Base, Base', KindsInv, NEW r \in Request, Apartly(r), Delete(r) \/ Destroy(r)
    PROVE  KindsInv'
  <1> DEFINE own == {i \in Invoice : request[r].row.invoice = i}
  <1>1. /\ Busy(r) /\ ~IsNew(r) /\ request[r] \in Copy
        /\ entry' = [entry EXCEPT ![request[r].on] = Gone]
    BY BusyCopy DEF Delete, Destroy, At, Busy, Base
  <1>2. \/ request'[r] = Idle
        \/ request'[r] = [request[r] EXCEPT !.stage = "saved", !.todo = own]
    BY DEF Delete, Destroy, Done, Becomes, Base, Typed
  <1>3. request'[r] = Idle \/
            (request'[r].on = request[r].on /\ request'[r].row = request[r].row)
    BY <1>1, <1>2 DEF Copy
  <1>4. ~Exists(Gone)
    BY NoRowTyped DEF Gone, NoRow, Exists, Absent
  <1>5. Shaped(Gone)
    BY <1>4 DEF Shaped
  <1>6. /\ entry'[request[r].on] = Gone
        /\ \A y \in Entry : y # request[r].on => entry'[y] = entry[y]
    BY <1>1, WrittenRow
  <1>7. /\ Shaped(entry'[request[r].on])
        /\ Exists(entry'[request[r].on]) => entry'[request[r].on].kind = request[r].row.kind
        /\ request'[r] = Idle \/
              (request'[r].on = request[r].on /\ request'[r].row = request[r].row)
    BY <1>3, <1>4, <1>5, <1>6
  <1> QED
    BY <1>1, <1>6, <1>7, WritesKinds

LEMMA PatchKinds ==
    ASSUME Base, Base', KindsInv, NEW r \in Request, Apartly(r), Patch(r)
    PROVE  KindsInv'
  <1>1. /\ Busy(r) /\ ~IsNew(r) /\ request[r] \in Copy /\ request[r].row \in Row
        /\ Shaped(request[r].row) /\ request[r].row.kind = "payment"
    BY BusyInTable DEF Patch, At, Busy, OfKind, KindsInv
  <1>2. PICK amount \in Amount \cup {request[r].row.amount}, i \in Redirect \cup {request[r].row.invoice} :
            entry' = [entry EXCEPT ![request[r].on] =
                Saved(r, [request[r].row EXCEPT !.amount = amount, !.invoice = i])]
    BY DEF Patch
  <1> DEFINE row == [request[r].row EXCEPT !.amount = amount, !.invoice = i]
  <1>3. amount \in Int /\ i \in Invoice \cup {NoInvoice}
    BY <1>1, RowFields, InvoicesAssumption
  <1>4. row \in Row /\ row.kind = "payment" /\ row.status = request[r].row.status
    BY <1>1, <1>3 DEF Row
  <1>5. request'[r] = Idle
    BY DEF Patch, Enter, Base, Typed
  <1>6. entry' = [entry EXCEPT ![request[r].on] = Saved(r, row)]
    BY <1>2
  <1> HIDE DEF row
  <1>7. Shaped(row)
    BY <1>1, <1>4 DEF Shaped, Exists
  <1>8. Shaped(Saved(r, row)) /\ Saved(r, row).kind = row.kind
    BY <1>1, <1>4, <1>7, SavedShaped
  <1>9. /\ entry'[request[r].on] = Saved(r, row)
        /\ \A y \in Entry : y # request[r].on => entry'[y] = entry[y]
    BY <1>1, <1>6, WrittenRow
  <1>10. row.kind = request[r].row.kind
    BY <1>1, <1>4
  <1>11. /\ Shaped(entry'[request[r].on])
         /\ Exists(entry'[request[r].on]) => entry'[request[r].on].kind = request[r].row.kind
         /\ request'[r] = Idle \/
               (request'[r].on = request[r].on /\ request'[r].row = request[r].row)
    BY <1>5, <1>8, <1>9, <1>10
  <1> QED
    BY <1>1, <1>9, <1>11, WritesKinds

LEMMA RecomputeKinds ==
    ASSUME Base, Base', KindsInv, NEW r \in Request, Apartly(r), Recompute(r)
    PROVE  KindsInv'
  <1>1. /\ Busy(r) /\ request[r] \in Copy /\ Shaped(request[r].row) /\ entry' = entry
    BY BusyInTable DEF Recompute, Busy, KindsInv
  <1>2. PICK i, new : request'[r] \in {[request[r] EXCEPT !.decided = <<i, new>>], Told(r, i)}
    BY DEF Recompute, Becomes, Base, Typed
  <1>3. request'[r].on = request[r].on /\ request'[r].row = request[r].row
    BY <1>1, <1>2 DEF Copy, Told
  <1> QED
    BY <1>1, <1>3, KeepsKinds

LEMMA StoreKinds ==
    ASSUME Base, Base', KindsInv, NEW r \in Request, Apartly(r), Store(r)
    PROVE  KindsInv'
  <1> DEFINE i == request[r].decided[1]
             new == request[r].decided[2]
             c == [Told(r, i) EXCEPT !.wrote[i] = new]
  <1>1. /\ Busy(r) /\ request[r] \in Copy /\ Shaped(request[r].row) /\ entry' = entry
    BY BusyInTable DEF Store, Busy, KindsInv
  <1>2. request'[r] = c \/ request'[r] = Told(r, i)
    BY DEF Store, Becomes, Base, Typed
  <1>3. request'[r].on = request[r].on /\ request'[r].row = request[r].row
    BY <1>1, <1>2 DEF Copy, Told
  <1> QED
    BY <1>1, <1>3, KeepsKinds

LEMMA LeaveKinds ==
    ASSUME Base, Base', KindsInv, NEW r \in Request, Apartly(r), CommitRequest(r) \/ End(r)
    PROVE  KindsInv'
  <1>1. /\ Busy(r) /\ request'[r] = Idle /\ request[r] \in Copy /\ Shaped(request[r].row)
    BY BusyInTable DEF CommitRequest, End, Done, Becomes, At, Busy, Base, Typed, KindsInv
  <1>2. CASE End(r)
    BY <1>1, <1>2, KeepsKinds DEF End
  <1>3. CASE CommitRequest(r)
    <2>1. entry' = [entry EXCEPT ![request[r].on] = request[r].row] /\ ~IsNew(r)
      BY <1>1, <1>3 DEF CommitRequest, View, At, Base, Held, HeldBy, IsNew
    <2>2. /\ entry'[request[r].on] = request[r].row
          /\ \A y \in Entry : y # request[r].on => entry'[y] = entry[y]
      BY <1>1, <2>1, WrittenRow
    <2>3. /\ Shaped(entry'[request[r].on])
          /\ Exists(entry'[request[r].on]) => entry'[request[r].on].kind = request[r].row.kind
          /\ request'[r] = Idle \/
                (request'[r].on = request[r].on /\ request'[r].row = request[r].row)
      BY <1>1, <2>2
    <2> QED
      BY <1>1, <2>1, <2>2, <2>3, WritesKinds
  <1> QED
    BY <1>2, <1>3

LEMMA OverwriteKinds ==
    ASSUME Base, KindsInv, NEW i \in Invoice, Overwrite(i)
    PROVE  KindsInv'
  <1>1. PICK k \in [Entry -> Kind] : InTable(k)
    BY DEF KindsInv
  <1>2. ASSUME NEW s \in Request, Busy(s)'
        PROVE  Busy(s) /\ request'[s].on = request[s].on /\ request'[s].row = request[s].row
    <2>1. Busy(s) => request[s] \in Copy
      BY BusyCopy DEF Base
    <2>2. request'[s] = request[s] \/ (Busy(s) /\ request'[s] = [request[s] EXCEPT !.alone = FALSE])
      BY DEF Overwrite, Meets, Busy
    <2> QED
      BY <1>2, <2>1, <2>2 DEF Copy, Busy
  <1>3. entry' = entry
    BY DEF Overwrite
  <1>4. InTable(k)'
    BY <1>1, <1>2, <1>3 DEF InTable
  <1> QED
    BY <1>4 DEF KindsInv

LEMMA InitKinds == PaymentsInit => KindsInv
  <1> SUFFICES ASSUME PaymentsInit PROVE KindsInv
    OBVIOUS
  <1> DEFINE k == [x \in Entry |-> "payment"]
  <1>1. k \in [Entry -> Kind]
    BY DEF Kind
  <1>2. ~Exists(NoRow)
    BY DEF NoRow, Exists, Absent
  <1>3. \A x \in Entry : ~Exists(entry[x])
    BY <1>2 DEF PaymentsInit
  <1>4. \A r \in Request : ~Busy(r)
    BY DEF PaymentsInit, Busy
  <1> HIDE DEF k
  <1>5. InTable(k)
    BY <1>3, <1>4 DEF InTable, Shaped
  <1> QED
    BY <1>1, <1>5 DEF KindsInv

LEMMA NextKinds ==
    ASSUME Base, KindsInv, [PaymentsNext]_paymentsVars
    PROVE  KindsInv'
  <1>1. Typed' /\ Base'
    BY AnyStep, NextTyped DEF Base
  <1>2. ASSUME NEW r \in Request, NEW asked \in SUBSET NewEntries, Ask(r, asked)
        PROVE  KindsInv'
    BY <1>1, <1>2, AskBase, AskKinds
  <1>3. ASSUME NEW r \in Request, NEW kinds, LoadKind(r, kinds)
        PROVE  KindsInv'
    BY <1>1, <1>3, LoadBase, LoadKinds
  <1>4. ASSUME NEW r \in Request, ReceivePayment(r) \/ IssueNote(r)
        PROVE  KindsInv'
    <2>1. CheckPayment(r) \/ CheckCreditNote(r) \/ CheckDebitNote(r) => KindsInv'
      <3>1. CheckPayment(r) \/ CheckCreditNote(r) \/ CheckDebitNote(r) => Passes(r)
        BY DEF CheckPayment, CheckCreditNote, CheckDebitNote
      <3> QED
        BY <1>1, <3>1, PassesBase, PassesKinds
    <2>2. Allocate(r) \/ Insert(r) \/ InsertLegacy(r) => KindsInv'
      BY <1>1, AllocateBase, InsertBase, InsertLegacyBase, AllocateKinds, InsertKinds
    <2> QED
      BY <1>2, <1>4, <2>1, <2>2
      DEF ReceivePayment, IssueNote, AskPayment, AskSeveral, AskLegacy, AskCreditNote, AskDebitNote,
          Wanted, InsertPayment, InsertCreditNote, InsertDebitNote
  <1>5. ASSUME NEW r \in Request, ChangePayment(r) \/ ChangeNote(r)
        PROVE  KindsInv'
    <2>1. "REVERSED" \in Undone /\ "REFUNDED" \in Undone
      BY DEF Undone
    <2>2. ReversePayment(r) \/ RefundPayment(r) => KindsInv'
      BY <1>1, <2>1, UndoBase, UndoKinds DEF ReversePayment, RefundPayment
    <2>3. ReverseByApi(r) \/ CancelCreditNote(r) \/ CancelDebitNote(r) => KindsInv'
      BY <1>1, ReverseByApiBase, CancelNoteBase, UndoKinds DEF CancelCreditNote, CancelDebitNote
    <2>4. Validate(r) \/ Edit(r) \/ Delete(r) \/ Destroy(r) \/ Patch(r) => KindsInv'
      BY <1>1, ValidateBase, EditBase, DeleteBase, DestroyBase, PatchBase, ValidateKinds,
         EditKinds, RemoveKinds, PatchKinds
    <2> QED
      BY <1>3, <1>5, <2>2, <2>3, <2>4
      DEF ChangePayment, ChangeNote, LoadPayment, LoadCreditNote, LoadDebitNote
  <1>6. ASSUME NEW r \in Request, Finish(r)
        PROVE  KindsInv'
    BY <1>1, <1>6, RecomputeBase, StoreBase, CommitBase, EndBase, RecomputeKinds, StoreKinds,
       LeaveKinds DEF Finish
  <1>7. ASSUME NEW i \in Invoice, Overwrite(i)
        PROVE  KindsInv'
    BY <1>7, OverwriteKinds
  <1>8. CASE UNCHANGED paymentsVars
    BY <1>8 DEF paymentsVars, KindsInv, InTable, Busy
  <1> QED
    BY <1>4, <1>5, <1>6, <1>7, <1>8 DEF PaymentsNext

LEMMA KindsAlways == PaymentsSpec => []KindsInv
  <1>1. Base /\ KindsInv /\ [PaymentsNext]_paymentsVars => KindsInv'
    BY NextKinds
  <1> QED
    BY BaseAlways, InitKinds, <1>1, PTL DEF PaymentsSpec

-----------------------------------------------------------------------------
(* The statement of a customer adds up what the rows say. *)

InvoiceEvent(i) ==
    [type |-> "invoice", of |-> i, day |-> InvoiceDay[i], debit |-> Total[i], credit |-> 0]
EntryEvent(x) ==
    [type |-> entry[x].kind, of |-> x, day |-> EntryDay[entry[x].kind],
     debit |-> IF entry[x].kind = "debit" THEN entry[x].amount ELSE 0,
     credit |-> IF entry[x].kind = "debit" THEN 0 ELSE entry[x].amount]

Standing == {i \in Invoice : status[i] # "CANCELLED"}
Counting == {x \in Entry : Counts(entry[x])}
InvoiceEvents == {InvoiceEvent(i) : i \in Standing}
EntryEvents == {EntryEvent(x) : x \in Counting}

(* What a row adds to a statement. *)
Charge(row) == IF row.kind = "debit" THEN row.amount ELSE -row.amount

(* A statement lists the invoices and the rows that count, each of them    *)
(* once, as what it asks for or takes away.                                *)
LEMMA EventsAre ==
    ASSUME Typed
    PROVE  /\ Events = InvoiceEvents \cup EntryEvents /\ IsFiniteSet(Events)
           /\ IsFiniteSet(Standing) /\ IsFiniteSet(Counting)
           /\ \A e \in Events : AnEvent(e) /\ e.day \in Nat
           /\ \A i \in Standing : AddsTo(InvoiceEvent(i)) = Total[i]
           /\ \A x \in Counting : AddsTo(EntryEvent(x)) = Charge(entry[x])
           /\ InvoiceEvents \cap EntryEvents = {}
  <1>1. Events = InvoiceEvents \cup EntryEvents
    BY DEF Events, InvoiceEvents, EntryEvents, InvoiceEvent, EntryEvent, Standing, Counting
  <1>2. IsFiniteSet(Standing) /\ IsFiniteSet(Counting)
    BY InvoicesAssumption, FS_Subset DEF Standing, Counting
  <1>3. IsFiniteSet(Events)
    <2>1. IsFiniteSet(InvoiceEvents)
      <3> DEFINE f == [i \in Standing |-> InvoiceEvent(i)]
      <3>1. InvoiceEvents = {f[i] : i \in Standing}
        BY DEF InvoiceEvents
      <3>2. f \in [Standing -> InvoiceEvents]
        BY DEF InvoiceEvents
      <3> HIDE DEF f
      <3>3. f \in Surjection(Standing, InvoiceEvents)
        BY <3>1, <3>2 DEF Surjection
      <3> QED
        BY <1>2, <3>3, FS_Surjection
    <2>2. IsFiniteSet(EntryEvents)
      <3> DEFINE f == [x \in Counting |-> EntryEvent(x)]
      <3>1. EntryEvents = {f[x] : x \in Counting}
        BY DEF EntryEvents
      <3>2. f \in [Counting -> EntryEvents]
        BY DEF EntryEvents
      <3> HIDE DEF f
      <3>3. f \in Surjection(Counting, EntryEvents)
        BY <3>1, <3>2 DEF Surjection
      <3> QED
        BY <1>2, <3>3, FS_Surjection
    <2> QED
      BY <1>1, <2>1, <2>2, FS_Union
  <1>4. ASSUME NEW i \in Standing
        PROVE  LET e == InvoiceEvent(i) IN
               AnEvent(e) /\ e.day \in Nat /\ AddsTo(e) = Total[i] /\ e.type = "invoice"
    <2>1. InvoiceDay[i] \in Nat /\ Total[i] \in Nat
      BY DaysAssumption, InvoicesAssumption DEF Standing
    <2> QED
      BY <2>1 DEF InvoiceEvent, AnEvent, AddsTo
  <1>5. ASSUME NEW x \in Counting
        PROVE  LET e == EntryEvent(x) IN
               AnEvent(e) /\ e.day \in Nat /\ AddsTo(e) = Charge(entry[x]) /\ e.type # "invoice"
    <2>1. entry[x] \in Row
      BY DEF Counting, Typed
    <2>2. entry[x].kind \in Kind /\ entry[x].amount \in Int
      BY <2>1, RowFields
    <2>3. EntryDay[entry[x].kind] \in Nat
      BY <2>2, DaysAssumption
    <2>4. entry[x].kind # "invoice"
      BY <2>2 DEF Kind
    <2> QED
      BY <2>2, <2>3, <2>4 DEF EntryEvent, AnEvent, AddsTo, Charge
  <1>6. \A e \in Events : AnEvent(e) /\ e.day \in Nat
    BY <1>1, <1>4, <1>5 DEF InvoiceEvents, EntryEvents
  <1>7. InvoiceEvents \cap EntryEvents = {}
    BY <1>4, <1>5 DEF InvoiceEvents, EntryEvents
  <1> QED
    BY <1>1, <1>2, <1>3, <1>4, <1>5, <1>6, <1>7

(* Sorted as the code sorts them. *)
LEMMA ChronologicalIs ==
    ASSUME Typed
    PROVE  LET n == Cardinality(Events) IN
           /\ n \in Nat /\ Chronological \in [1..n -> Events] /\ IsInjective(Chronological)
           /\ \A j, k \in 1..n : j < k => Chronological[j].day <= Chronological[k].day
           /\ \A e \in Events : \E j \in 1..n : Chronological[j] = e
  <1> DEFINE n == Cardinality(Events)
             key == [e \in Events |-> e.day]
             Good(listed) == /\ IsInjective(listed)
                             /\ \A j, k \in DOMAIN listed : j < k => listed[j].day <= listed[k].day
  <1>1. IsFiniteSet(Events) /\ \A e \in Events : key[e] \in Int
    BY EventsAre
  <1>2. PICK listed \in [1..n -> Events] : Sorted(listed, key)
    <2> HIDE DEF key
    <2> QED
      BY <1>1, Listing
  <1>3. Good(listed)
    BY <1>2 DEF Sorted
  <1>4. Chronological = CHOOSE l \in [1..n -> Events] : Good(l)
    BY DEF Chronological
  <1> HIDE DEF Good
  <1>5. Chronological \in [1..n -> Events] /\ Good(Chronological)
    BY <1>3, <1>4
  <1>6. /\ IsInjective(Chronological)
        /\ \A j, k \in 1..n : j < k => Chronological[j].day <= Chronological[k].day
    BY <1>5 DEF Good
  <1>7. n \in Nat /\ \A e \in Events : \E j \in 1..n : Chronological[j] = e
    BY <1>1, <1>5, <1>6, ListsAll
  <1> QED
    BY <1>5, <1>6, <1>7

(* What the opening and the closing balance count of the events. *)
OpeningOf(from) == [e \in Events |-> IF Earlier(e, from) THEN AddsTo(e) ELSE 0]
ClosingOf(from, to) ==
    [e \in Events |-> IF Earlier(e, from) \/ ~Later(e, to) THEN AddsTo(e) ELSE 0]

(* A statement, whichever of the sorted lists CHOOSE has taken, shows the  *)
(* sums of events by their days.                                           *)
LEMMA StatementIs ==
    ASSUME Typed, NEW from, NEW to, from = NoDay \/ to = NoDay, from = NoDay \/ from \in Int
    PROVE  /\ CustomerStatement(from, to).opening = SumFunctionOnSet(OpeningOf(from), Events)
           /\ CustomerStatement(from, to).closing = SumFunctionOnSet(ClosingOf(from, to), Events)
           /\ IntegersOn(OpeningOf(from), Events) /\ IntegersOn(ClosingOf(from, to), Events)
  <1> DEFINE n == Cardinality(Events)
             l == Chronological
             o == Opens(l, from)
             c == Closes(l, from, to)
             O == OpeningOf(from)
             C == ClosingOf(from, to)
             end == Through(l, from, to)
  <1>1. /\ n \in Nat /\ l \in [1..n -> Events] /\ IsInjective(l)
        /\ \A j, k \in 1..n : j < k => l[j].day <= l[k].day
        /\ \A e \in Events : \E j \in 1..n : l[j] = e
    BY ChronologicalIs
  <1>2. /\ IsFiniteSet(Events) /\ \A e \in Events : AnEvent(e)
    BY EventsAre
  <1>3. CustomerStatement(from, to) = [opening |-> end.opening, closing |-> Ends(end)]
    BY DEF CustomerStatement, Through, Nothing, Ends
  <1> HIDE DEF n, l
  <1>4. DOMAIN l = 1..n /\ \A i \in 1..n : AnEvent(l[i])
    BY <1>1, <1>2
  <1>5. end.opening = SumFunctionOnSet(o, 1..n) /\ Ends(end) = SumFunctionOnSet(c, 1..n)
    BY <1>1, <1>4, StatementOfList
  <1>6. \A e \in Events : AddsTo(e) \in Int
    BY <1>2 DEF AnEvent, AddsTo
  <1>7. IntegersOn(O, Events) /\ IntegersOn(C, Events)
    BY <1>2, <1>6 DEF IntegersOn, OpeningOf, ClosingOf
  <1> DEFINE T == 1..n
  <1>8. \A i \in T : l[i] \in Events /\ o[i] = O[l[i]] /\ c[i] = C[l[i]]
    BY <1>1, <1>4 DEF Opens, Closes, OpeningOf, ClosingOf
  <1>9. \A i, j \in T : l[i] = l[j] => i = j
    BY <1>1, <1>4 DEF IsInjective
  <1>10. \A e \in Events : \E j \in T : l[j] = e
    BY <1>1
  <1>11. IsFiniteSet(T)
    BY <1>1, FS_Interval
  <1> HIDE DEF o, c, O, C, T, end
  <1>12. IntegersOn(o, T) /\ IntegersOn(c, T)
    BY <1>7, <1>8, <1>11 DEF IntegersOn
  <1>13. SumFunctionOnSet(o, T) = SumFunctionOnSet(O, Events)
    BY <1>7, <1>8, <1>9, <1>10, <1>12, SumRenamed
  <1>14. SumFunctionOnSet(c, T) = SumFunctionOnSet(C, Events)
    BY <1>7, <1>8, <1>9, <1>10, <1>12, SumRenamed
  <1>15. CustomerStatement(from, to).opening = end.opening
         /\ CustomerStatement(from, to).closing = Ends(end)
    BY <1>3
  <1> QED
    BY <1>5, <1>7, <1>13, <1>14, <1>15 DEF T, O, C, n

-----------------------------------------------------------------------------
(* What is on a statement, by invoices and rows. *)
AddsOf == [e \in Events |-> AddsTo(e)]
Asked == [i \in Invoice |-> IF status[i] # "CANCELLED" THEN Total[i] ELSE 0]
Charged == [x \in Entry |-> IF Counts(entry[x]) THEN Charge(entry[x]) ELSE 0]

LEMMA ChargeInteger ==
    ASSUME Typed
    PROVE  /\ IntegersOn(Asked, Invoice) /\ IntegersOn(Charged, Entry)
           /\ \A x \in Entry : Charge(entry[x]) \in Int
  <1>1. \A x \in Entry : Charge(entry[x]) \in Int
    BY RowFields DEF Charge, Typed
  <1>2. \A i \in Invoice : Total[i] \in Int
    BY InvoicesAssumption
  <1> QED
    BY <1>1, <1>2, InvoicesAssumption DEF IntegersOn, Asked, Charged

(* All events together: the totals of the invoices and the charges of the  *)
(* rows.                                                                   *)
LEMMA EventsAdded ==
    ASSUME Typed
    PROVE  /\ IntegersOn(AddsOf, Events)
           /\ SumFunctionOnSet(AddsOf, Events)
                = SumFunctionOnSet(Asked, Invoice) + SumFunctionOnSet(Charged, Entry)
  <1>1. /\ IsFiniteSet(Events) /\ Events = InvoiceEvents \cup EntryEvents
        /\ InvoiceEvents \cap EntryEvents = {} /\ \A e \in Events : AnEvent(e)
        /\ IsFiniteSet(Standing) /\ IsFiniteSet(Counting)
        /\ \A i \in Standing : AddsTo(InvoiceEvent(i)) = Total[i]
        /\ \A x \in Counting : AddsTo(EntryEvent(x)) = Charge(entry[x])
    BY EventsAre
  <1>2. IntegersOn(AddsOf, Events)
    BY <1>1 DEF IntegersOn, AddsOf, AnEvent, AddsTo
  <1>3. InvoiceEvents \in SUBSET Events /\ Events \ InvoiceEvents = EntryEvents
    BY <1>1
  <1>4. SumFunctionOnSet(AddsOf, Events)
          = SumFunctionOnSet(AddsOf, InvoiceEvents) + SumFunctionOnSet(AddsOf, EntryEvents)
    BY <1>2, <1>3, SumOfParts
  <1>5. IntegersOn(AddsOf, InvoiceEvents) /\ IntegersOn(AddsOf, EntryEvents)
    BY <1>2, <1>3, IntegersOnPart
  <1>6. Standing \in SUBSET Invoice /\ Counting \in SUBSET Entry
    BY DEF Standing, Counting
  <1>7. SumFunctionOnSet(AddsOf, InvoiceEvents) = SumFunctionOnSet(Asked, Invoice)
    <2> DEFINE b == [i \in Standing |-> InvoiceEvent(i)]
    <2>1. \A i \in Standing : b[i] \in InvoiceEvents /\ Asked[i] = AddsOf[b[i]]
      BY <1>1, <1>6 DEF InvoiceEvents, Asked, AddsOf, Standing
    <2>2. \A i, j \in Standing : b[i] = b[j] => i = j
      <3>1. \A i \in Standing : b[i].of = i
        BY DEF InvoiceEvent
      <3> QED
        BY <3>1
    <2>3. \A e \in InvoiceEvents : \E i \in Standing : b[i] = e
      BY DEF InvoiceEvents
    <2>4. IntegersOn(Asked, Invoice) /\ IntegersOn(Asked, Standing)
      BY <1>6, ChargeInteger, IntegersOnPart
    <2>5. \A i \in Invoice \ Standing : Asked[i] = 0
      BY DEF Asked, Standing
    <2> HIDE DEF b
    <2>6. SumFunctionOnSet(Asked, Standing) = SumFunctionOnSet(AddsOf, InvoiceEvents)
      BY <1>5, <2>1, <2>2, <2>3, <2>4, SumRenamed
    <2>7. SumFunctionOnSet(Asked, Standing) = SumFunctionOnSet(Asked, Invoice)
      BY <1>6, <2>4, <2>5, SumOnPart
    <2> QED
      BY <2>6, <2>7
  <1>8. SumFunctionOnSet(AddsOf, EntryEvents) = SumFunctionOnSet(Charged, Entry)
    <2> DEFINE b == [x \in Counting |-> EntryEvent(x)]
    <2>1. \A x \in Counting : b[x] \in EntryEvents /\ Charged[x] = AddsOf[b[x]]
      BY <1>1, <1>6 DEF EntryEvents, Charged, AddsOf, Counting
    <2>2. \A x, y \in Counting : b[x] = b[y] => x = y
      <3>1. \A x \in Counting : b[x].of = x
        BY DEF EntryEvent
      <3> QED
        BY <3>1
    <2>3. \A e \in EntryEvents : \E x \in Counting : b[x] = e
      BY DEF EntryEvents
    <2>4. IntegersOn(Charged, Entry) /\ IntegersOn(Charged, Counting)
      BY <1>6, ChargeInteger, IntegersOnPart
    <2>5. \A x \in Entry \ Counting : Charged[x] = 0
      BY DEF Charged, Counting
    <2> HIDE DEF b
    <2>6. SumFunctionOnSet(Charged, Counting) = SumFunctionOnSet(AddsOf, EntryEvents)
      BY <1>5, <2>1, <2>2, <2>3, <2>4, SumRenamed
    <2>7. SumFunctionOnSet(Charged, Counting) = SumFunctionOnSet(Charged, Entry)
      BY <1>6, <2>4, <2>5, SumOnPart
    <2> QED
      BY <2>6, <2>7
  <1> QED
    BY <1>2, <1>4, <1>7, <1>8

(* Whatever is on it is in the closing balance of a statement without an end, *)
(* and one that begins the day after another goes on where that ended.        *)
LEMMA StatementsJoin ==
    ASSUME Typed, NEW d \in Day
    PROVE  /\ CustomerStatement(d + 1, NoDay).opening = CustomerStatement(NoDay, d).closing
           /\ CustomerStatement(d + 1, NoDay).closing = SumFunctionOnSet(AddsOf, Events)
  <1>1. d \in Nat /\ d # NoDay /\ d + 1 # NoDay /\ d + 1 \in Int
    BY DaysAssumption
  <1>2. \A e \in Events : e.day \in Nat
    BY EventsAre
  <1>3. OpeningOf(d + 1) = ClosingOf(NoDay, d)
    BY <1>1, <1>2 DEF OpeningOf, ClosingOf, Earlier, Later
  <1>4. ClosingOf(d + 1, NoDay) = AddsOf
    BY DEF ClosingOf, AddsOf, Later
  <1> QED
    BY <1>1, <1>3, <1>4, StatementIs

(* A statement without dates lists every event. *)
LEMMA WholeStatement ==
    ASSUME Typed
    PROVE  CustomerStatement(NoDay, NoDay).closing = SumFunctionOnSet(AddsOf, Events)
  <1>1. ClosingOf(NoDay, NoDay) = AddsOf
    BY DEF ClosingOf, AddsOf, Later
  <1> QED
    BY <1>1, StatementIs

-----------------------------------------------------------------------------
(* What the rows charge is what they are worth to the invoices, and what no *)
(* invoice gets.                                                            *)

SignedWorth(row, i) == IF row.kind = "debit" THEN Worth(row, i) ELSE -Worth(row, i)
Signed(x) == [i \in Invoice |-> SignedWorth(entry[x], i)]
Rest(row) ==
    IF Counts(row) /\ row.kind \in {"payment", "legacy"} THEN row.amount - Given(row) ELSE 0

LEMMA GivenInteger ==
    ASSUME NEW row \in Row
    PROVE  /\ IntegersOn([i \in Invoice |-> Worth(row, i)], Invoice) /\ Given(row) \in Int
           /\ Given(row) = SumFunction([i \in Invoice |-> Worth(row, i)])
  <1> DEFINE w == [i \in Invoice |-> Worth(row, i)]
  <1>1. \A i \in Invoice : w[i] \in Int
    BY WorthInteger
  <1>2. DOMAIN w = Invoice
    OBVIOUS
  <1>3. IntegersOn(w, Invoice)
    BY <1>1, InvoicesAssumption DEF IntegersOn
  <1>4. Given(row) = SumFunctionOnSet(w, Invoice)
    BY DEF Given
  <1>5. SumFunction(w) = SumFunctionOnSet(w, Invoice)
    BY <1>2 DEF SumFunction
  <1> HIDE DEF w
  <1>6. SumFunctionOnSet(w, Invoice) \in Int
    BY <1>3, SumInteger
  <1> QED
    BY <1>3, <1>4, <1>5, <1>6 DEF w

(* A note is worth its amount to its invoice. *)
LEMMA GivenByNote ==
    ASSUME NEW row \in Row, Counts(row), row.share = NoShare, row.invoice \in Invoice
    PROVE  Given(row) = row.amount
  <1> DEFINE w == [i \in Invoice |-> Worth(row, i)]
             P == {row.invoice}
  <1>1. \A i \in Invoice : w[i] = IF i = row.invoice THEN row.amount ELSE 0
    BY WorthOfOne
  <1>2. IntegersOn(w, Invoice)
    BY GivenInteger
  <1>3. row.amount \in Int
    BY RowFields
  <1>4. Given(row) = SumFunctionOnSet(w, Invoice)
    BY DEF Given
  <1> HIDE DEF w
  <1>5. P \in SUBSET Invoice /\ \A i \in Invoice \ P : w[i] = 0
    BY <1>1
  <1>6. SumFunctionOnSet(w, P) = SumFunctionOnSet(w, Invoice)
    BY <1>2, <1>5, SumOnPart
  <1>7. SumFunctionOnSet(w, P) = w[row.invoice] + SumFunctionOnSet(w, P \ {row.invoice})
    BY <1>2, <1>5, IntegersOnPart, SumOneMore
  <1>8. P \ {row.invoice} = {} /\ SumFunctionOnSet(w, {}) = 0
    BY SumEmpty
  <1> QED
    BY <1>1, <1>3, <1>4, <1>6, <1>7, <1>8

(* What a row charges the customer: what it says of each invoice, less     *)
(* what it is not applied to.                                              *)
LEMMA ChargedIs ==
    ASSUME Typed, NEW x \in Entry, Shaped(entry[x])
    PROVE  /\ IntegersOn(Signed(x), Invoice) /\ Rest(entry[x]) \in Int
           /\ Charged[x] = SumFunctionOnSet(Signed(x), Invoice) - Rest(entry[x])
  <1> DEFINE row == entry[x]
             w == [i \in Invoice |-> Worth(row, i)]
             s == Signed(x)
  <1>1. row \in Row
    BY DEF Typed
  <1>2. row.kind \in Kind /\ row.amount \in Int /\ row.invoice \in Invoice \cup {NoInvoice}
    BY <1>1, RowFields
  <1>3. IntegersOn(w, Invoice) /\ Given(row) \in Int /\ Given(row) = SumFunctionOnSet(w, Invoice)
    BY <1>1, GivenInteger DEF Given
  <1>4. \A i \in Invoice : s[i] = IF row.kind = "debit" THEN w[i] ELSE -w[i]
    BY DEF Signed, SignedWorth
  <1>5. Charged[x] = IF Counts(row) THEN Charge(row) ELSE 0
    BY DEF Charged
  <1>6. ~Counts(row) => \A i \in Invoice : w[i] = 0
    BY DEF Worth
  <1> HIDE DEF row, w, s
  <1>7. IntegersOn(s, Invoice)
    BY <1>3, <1>4 DEF IntegersOn
  <1>8. SumFunctionOnSet(s, Invoice) = IF row.kind = "debit" THEN Given(row) ELSE -Given(row)
    <2>1. CASE row.kind = "debit"
      <3>1. \A i \in Invoice : w[i] = s[i]
        BY <1>4, <2>1
      <3> QED
        BY <1>3, <2>1, <3>1, SumSame
    <2>2. CASE row.kind # "debit"
      <3>1. \A i \in Invoice : s[i] = -w[i]
        BY <1>4, <2>2
      <3> QED
        BY <1>3, <2>2, <3>1, SumNegative
    <2> QED
      BY <2>1, <2>2
  <1>9. Rest(row) \in Int
    BY <1>2, <1>3 DEF Rest
  <1>10. CASE ~Counts(row)
    <2>1. Given(row) = 0
      BY <1>3, <1>6, <1>10, SumOfZeros DEF IntegersOn
    <2> QED
      BY <1>5, <1>7, <1>8, <1>9, <1>10, <2>1 DEF Rest, row, s
  <1>11. CASE Counts(row) /\ row.kind \in {"payment", "legacy"}
    <2>1. Charged[x] = -row.amount
      BY <1>5, <1>11 DEF Charge
    <2>2. SumFunctionOnSet(s, Invoice) = -Given(row) /\ Rest(row) = row.amount - Given(row)
      BY <1>8, <1>11 DEF Rest
    <2> QED
      BY <1>2, <1>3, <1>7, <1>9, <2>1, <2>2 DEF row, s
  <1>12. CASE Counts(row) /\ row.kind \in {"credit", "debit"}
    <2>1. row.share = NoShare /\ row.invoice \in Invoice
      BY <1>2, <1>12 DEF Shaped, Exists, Counts, row
    <2>2. Given(row) = row.amount
      BY <1>1, <1>12, <2>1, GivenByNote
    <2>3. Rest(row) = 0
      BY <1>12 DEF Rest
    <2>4. Charged[x] = SumFunctionOnSet(s, Invoice)
      BY <1>5, <1>8, <1>12, <2>2 DEF Charge
    <2> QED
      BY <1>2, <1>7, <1>8, <1>9, <2>2, <2>3, <2>4 DEF row, s
  <1> QED
    BY <1>2, <1>10, <1>11, <1>12 DEF Kind

-----------------------------------------------------------------------------
(* Over all rows and invoices. *)

Owes(i) == Debited(entry, i) - Credited(entry, i) - Paid(entry, i)
SumOfOwed == SumFunctionOnSet([i \in Invoice |-> Owes(i)], Invoice)

(* What an invoice owes beyond its total, row by row. *)
LEMMA OwesIs ==
    ASSUME Typed, NEW i \in Invoice
    PROVE  /\ Owes(i) \in Int
           /\ Owes(i) = SumFunctionOnSet([x \in Entry |-> SignedWorth(entry[x], i)], Entry)
           /\ \A x \in Entry : SignedWorth(entry[x], i) \in Int
  <1> DEFINE d == Amounts(entry, {"debit"}, i)
             c == Amounts(entry, {"credit"}, i)
             p == Amounts(entry, {"payment", "legacy"}, i)
             dc == [x \in Entry |-> d[x] - c[x]]
             s == [x \in Entry |-> SignedWorth(entry[x], i)]
  <1>1. /\ IntegersOn(d, Entry) /\ Debited(entry, i) = SumFunctionOnSet(d, Entry)
        /\ IntegersOn(c, Entry) /\ Credited(entry, i) = SumFunctionOnSet(c, Entry)
        /\ IntegersOn(p, Entry) /\ Paid(entry, i) = SumFunctionOnSet(p, Entry)
    BY SumIsOverEntries DEF Typed, Debited, Credited, Paid
  <1>2. ASSUME NEW x \in Entry
        PROVE  s[x] = dc[x] - p[x] /\ s[x] \in Int
    <2>1. entry[x] \in Row /\ entry[x].kind \in Kind /\ Worth(entry[x], i) \in Int
      BY RowFields, WorthInteger DEF Typed
    <2>2. /\ d[x] = IF entry[x].kind = "debit" THEN Worth(entry[x], i) ELSE 0
          /\ c[x] = IF entry[x].kind = "credit" THEN Worth(entry[x], i) ELSE 0
          /\ p[x] = IF entry[x].kind \in {"payment", "legacy"} THEN Worth(entry[x], i) ELSE 0
      BY DEF Amounts
    <2>3. /\ s[x] = IF entry[x].kind = "debit" THEN Worth(entry[x], i) ELSE -Worth(entry[x], i)
          /\ dc[x] = d[x] - c[x]
      BY DEF SignedWorth
    <2> HIDE DEF s, d, c, p, dc
    <2> QED
      BY <2>1, <2>2, <2>3 DEF Kind
  <1>3. \A x \in Entry : dc[x] = d[x] - c[x]
    OBVIOUS
  <1>4. \A x \in Entry : SignedWorth(entry[x], i) = s[x]
    OBVIOUS
  <1> HIDE DEF s, d, c, p, dc
  <1>5. /\ IntegersOn(dc, Entry)
        /\ SumFunctionOnSet(dc, Entry) = SumFunctionOnSet(d, Entry) - SumFunctionOnSet(c, Entry)
    BY <1>1, <1>3, SumOfDifferences
  <1>6. SumFunctionOnSet(s, Entry) = SumFunctionOnSet(dc, Entry) - SumFunctionOnSet(p, Entry)
    BY <1>1, <1>2, <1>5, SumOfDifferences
  <1>7. /\ SumFunctionOnSet(d, Entry) \in Int /\ SumFunctionOnSet(c, Entry) \in Int
        /\ SumFunctionOnSet(p, Entry) \in Int
    BY <1>1, SumInteger
  <1>8. Owes(i) = SumFunctionOnSet(s, Entry) /\ Owes(i) \in Int
    BY <1>1, <1>5, <1>6, <1>7 DEF Owes
  <1> QED
    BY <1>2, <1>4, <1>8 DEF s

(* The same sum taken by rows and taken by invoices. *)
LEMMA ChargedInTotal ==
    ASSUME Typed, \A x \in Entry : Shaped(entry[x])
    PROVE  /\ SumFunctionOnSet(Charged, Entry) = SumOfOwed - Unapplied
           /\ SumOfOwed \in Int /\ Unapplied \in Int
  <1> DEFINE w == [x \in Entry |-> Signed(x)]
             row == [x \in Entry |-> SumFunctionOnSet(w[x], Invoice)]
             column == [i \in Invoice |-> Owes(i)]
             v == [i \in Invoice |-> [x \in Entry |-> SignedWorth(entry[x], i)]]
             rest == [x \in Entry |-> Rest(entry[x])]
             U == [x \in Entry |->
                    IF Counts(entry[x]) /\ entry[x].kind \in {"payment", "legacy"}
                    THEN entry[x].amount - SumFunction([i \in Invoice |-> Worth(entry[x], i)])
                    ELSE 0]
  <1>1. IsFiniteSet(Entry) /\ IsFiniteSet(Invoice)
    BY InvoicesAssumption
  <1>2. \A x \in Entry, i \in Invoice : w[x][i] = SignedWorth(entry[x], i) /\ w[x][i] \in Int
    BY OwesIs DEF Signed
  <1>3. \A x \in Entry : row[x] = SumFunctionOnSet(w[x], Invoice)
    OBVIOUS
  <1>4. \A i \in Invoice, x \in Entry : v[i][x] = w[x][i]
    BY <1>2
  <1>13. \A i \in Invoice : column[i] = SumFunctionOnSet(v[i], Entry)
    BY OwesIs
  <1>5. \A x \in Entry : rest[x] \in Int /\ Charged[x] = row[x] - rest[x]
    BY ChargedIs
  <1>6. rest = U
    <2>1. \A x \in Entry : entry[x] \in Row
      BY DEF Typed
    <2>2. \A x \in Entry : rest[x] = U[x]
      BY <2>1, GivenInteger DEF Rest
    <2> QED
      BY <2>2
  <1>7. Unapplied = SumFunctionOnSet(U, Entry)
    <2>1. Unapplied = SumFunction(U) /\ DOMAIN U = Entry
      BY DEF Unapplied
    <2> HIDE DEF U
    <2> QED
      BY <2>1 DEF SumFunction
  <1>8. SumOfOwed = SumFunctionOnSet(column, Invoice)
    BY DEF SumOfOwed
  <1> HIDE DEF w, v, row, column, rest, U
  <1>9. /\ IntegersOn(row, Entry) /\ IntegersOn(column, Invoice)
        /\ SumFunctionOnSet(row, Entry) = SumFunctionOnSet(column, Invoice)
    BY <1>1, <1>2, <1>3, <1>4, <1>13, SumInBothOrders
  <1>10. IntegersOn(rest, Entry)
    BY <1>1, <1>5 DEF IntegersOn
  <1>11. SumFunctionOnSet(Charged, Entry)
            = SumFunctionOnSet(row, Entry) - SumFunctionOnSet(rest, Entry)
    BY <1>5, <1>9, <1>10, SumOfDifferences
  <1>12. SumFunctionOnSet(rest, Entry) \in Int /\ SumFunctionOnSet(column, Invoice) \in Int
    BY <1>9, <1>10, SumInteger
  <1> QED
    BY <1>6, <1>7, <1>8, <1>9, <1>11, <1>12

(* What an invoice is owed, and what was paid and credited beyond it. *)
Beyond(i) ==
    AtLeastZero(Paid(entry, i) - EffectiveDue(entry, i))
        + AtLeastZero(Credited(entry, i) - Total[i] - Debited(entry, i))
BalanceOf == [i \in Invoice |-> Balance(entry, i)]

LEMMA BalanceIs ==
    ASSUME Typed, NEW i \in Invoice
    PROVE  /\ Balance(entry, i) \in Nat /\ Beyond(i) \in Nat /\ Total[i] \in Nat
           /\ Total[i] + Owes(i) = Balance(entry, i) - Beyond(i)
  <1>1. /\ Paid(entry, i) \in Int /\ Credited(entry, i) \in Int /\ Debited(entry, i) \in Int
        /\ Balance(entry, i) \in Nat /\ Total[i] \in Nat
    BY MoneyTyped DEF Typed
  <1> QED
    BY <1>1 DEF Beyond, Owes, Balance, EffectiveDue, AtLeastZero

LEMMA BalancesIntegers ==
    ASSUME Typed
    PROVE  /\ IntegersOn(BalanceOf, Invoice) /\ \A i \in Invoice : BalanceOf[i] \in Nat
           /\ \A U : SumOfBalances(U) = SumFunctionOnSet(BalanceOf, U)
           /\ \A U \in SUBSET Invoice : SumOfBalances(U) \in Nat /\ IntegersOn(BalanceOf, U)
  <1>1. \A i \in Invoice : BalanceOf[i] \in Nat
    BY BalanceIs DEF BalanceOf
  <1>2. \A U : SumOfBalances(U) = SumFunctionOnSet(BalanceOf, U)
    BY DEF SumOfBalances, BalanceOf
  <1>3. ASSUME NEW U \in SUBSET Invoice
        PROVE  SumOfBalances(U) \in Nat /\ IntegersOn(BalanceOf, U)
    <2>1. IsFiniteSet(U) /\ \A i \in U : BalanceOf[i] \in Nat
      BY <1>1, InvoicesAssumption, FS_Subset
    <2> QED
      BY <1>2, <2>1, SumNatural DEF IntegersOn
  <1> QED
    BY <1>1, <1>2, <1>3

LEMMA TotalsIntegers ==
    /\ IntegersOn(Total, Invoice)
    /\ \A U \in SUBSET Invoice :
          SumOfTotals(U) \in Nat /\ IntegersOn(Total, U) /\ \A i \in U : Total[i] \in Nat
  <1>1. \A i \in Invoice : Total[i] \in Nat
    BY InvoicesAssumption
  <1>2. ASSUME NEW U \in SUBSET Invoice
        PROVE  SumOfTotals(U) \in Nat /\ IntegersOn(Total, U) /\ \A i \in U : Total[i] \in Nat
    <2>1. IsFiniteSet(U) /\ \A i \in U : Total[i] \in Nat
      BY <1>1, InvoicesAssumption, FS_Subset
    <2> QED
      BY <2>1, SumNatural DEF IntegersOn, SumOfTotals
  <1> QED
    BY <1>1, <1>2

(* Totals and what is owed beyond them are the balances less the surplus   *)
(* that balances do not show.                                              *)
LEMMA OwedInTotal ==
    ASSUME Typed
    PROVE  /\ SumFunctionOnSet(Total, Invoice) + SumOfOwed = SumOfBalances(Invoice) - Surplus
           /\ Surplus \in Nat /\ SumOfBalances(Invoice) \in Nat
           /\ SumFunctionOnSet(Total, Invoice) \in Nat
  <1> DEFINE owes == [i \in Invoice |-> Owes(i)]
             both == [i \in Invoice |-> Total[i] + Owes(i)]
             beyond == [i \in Invoice |-> Beyond(i)]
  <1>1. \A i \in Invoice : /\ owes[i] \in Int /\ both[i] = Total[i] + owes[i]
                           /\ both[i] = BalanceOf[i] - beyond[i] /\ beyond[i] \in Nat
    BY BalanceIs, OwesIs DEF BalanceOf
  <1>2. SumOfOwed = SumFunctionOnSet(owes, Invoice)
    BY DEF SumOfOwed
  <1>3. Surplus = SumFunctionOnSet(beyond, Invoice)
    <2>1. Surplus = SumFunction(beyond) /\ DOMAIN beyond = Invoice
      BY DEF Surplus, Beyond
    <2> HIDE DEF beyond
    <2> QED
      BY <2>1 DEF SumFunction
  <1> HIDE DEF owes, both, beyond
  <1>4. IsFiniteSet(Invoice)
    BY InvoicesAssumption
  <1>5. IntegersOn(owes, Invoice) /\ IntegersOn(beyond, Invoice)
    BY <1>1, <1>4 DEF IntegersOn
  <1>6. /\ IntegersOn(BalanceOf, Invoice) /\ SumOfBalances(Invoice) \in Nat
        /\ SumOfBalances(Invoice) = SumFunctionOnSet(BalanceOf, Invoice)
    BY BalancesIntegers
  <1>7. IntegersOn(Total, Invoice) /\ SumFunctionOnSet(Total, Invoice) \in Nat
    BY TotalsIntegers DEF SumOfTotals
  <1>8. SumFunctionOnSet(both, Invoice)
          = SumFunctionOnSet(Total, Invoice) + SumFunctionOnSet(owes, Invoice)
    BY <1>1, <1>5, <1>7, SumOfTwo
  <1>9. SumFunctionOnSet(both, Invoice)
          = SumFunctionOnSet(BalanceOf, Invoice) - SumFunctionOnSet(beyond, Invoice)
    BY <1>1, <1>5, <1>6, SumOfDifferences
  <1>10. SumFunctionOnSet(beyond, Invoice) \in Nat
    BY <1>1, <1>4, SumNatural
  <1> QED
    BY <1>2, <1>3, <1>6, <1>7, <1>8, <1>9, <1>10

(* A statement without an end. *)
LEMMA StatementEnds ==
    ASSUME Typed, \A x \in Entry : Shaped(entry[x]), \A i \in Invoice : status[i] # "CANCELLED"
    PROVE  SumFunctionOnSet(AddsOf, Events) = SumOfBalances(Invoice) - Unapplied - Surplus
  <1>1. SumFunctionOnSet(Asked, Invoice) = SumFunctionOnSet(Total, Invoice)
    <2>1. \A i \in Invoice : Asked[i] = Total[i]
      BY DEF Asked
    <2> QED
      BY <2>1, ChargeInteger, SumSame
  <1>2. SumFunctionOnSet(AddsOf, Events)
          = SumFunctionOnSet(Asked, Invoice) + SumFunctionOnSet(Charged, Entry)
    BY EventsAdded
  <1>3. /\ SumFunctionOnSet(Charged, Entry) = SumOfOwed - Unapplied
        /\ SumOfOwed \in Int /\ Unapplied \in Int
    BY ChargedInTotal
  <1> QED
    BY <1>1, <1>2, <1>3, OwedInTotal

-----------------------------------------------------------------------------
(* The aging report is a partition. *)

OverdueFor(U, from, to) == {i \in U : DaysOverdue[i] >= from /\ DaysOverdue[i] <= to}
OverdueSince(U, from) == {i \in U : DaysOverdue[i] >= from}

(* The invoices overdue for long enough, in two parts. *)
LEMMA AgedSplit ==
    ASSUME Typed, NEW U \in SUBSET Invoice, NEW from \in Nat, NEW to \in Nat, from <= to + 1
    PROVE  SumOfBalances(OverdueSince(U, from))
              = SumOfBalances(OverdueFor(U, from, to)) + SumOfBalances(OverdueSince(U, to + 1))
  <1> DEFINE S == OverdueSince(U, from)
             P == OverdueFor(U, from, to)
             R == OverdueSince(U, to + 1)
  <1>1. \A i \in U : DaysOverdue[i] \in Nat
    BY DaysAssumption
  <1>2. P \in SUBSET S /\ S \ P = R /\ S \in SUBSET Invoice
    BY <1>1 DEF OverdueSince, OverdueFor
  <1> HIDE DEF S, P, R
  <1>3. IntegersOn(BalanceOf, S)
    BY <1>2, BalancesIntegers
  <1>4. SumFunctionOnSet(BalanceOf, S) = SumFunctionOnSet(BalanceOf, P) + SumFunctionOnSet(BalanceOf, R)
    BY <1>2, <1>3, SumOfParts
  <1> QED
    BY <1>4, BalancesIntegers DEF S, P, R

LEMMA AgedBounds ==
    ASSUME Typed, NEW U \in SUBSET Invoice
    PROVE  /\ OverdueSince(U, 0) = U
           /\ \A from \in Nat : OverdueSince(U, from) = OverdueFor(U, from, SumFunction(DaysOverdue))
           /\ SumFunction(DaysOverdue) \in Nat
  <1> DEFINE longest == SumFunction(DaysOverdue)
  <1>1. IsFiniteSet(Invoice) /\ DaysOverdue \in [Invoice -> Nat]
    BY InvoicesAssumption, DaysAssumption
  <1>2. longest = SumFunctionOnSet(DaysOverdue, Invoice)
    BY <1>1 DEF SumFunction
  <1>3. longest \in Nat /\ \A i \in Invoice : DaysOverdue[i] <= longest
    BY <1>1, <1>2, SumNatural
  <1> HIDE DEF longest
  <1> QED
    BY <1>1, <1>3 DEF OverdueSince, OverdueFor, longest

(* The buckets of the aging report, for any number of days overdue, are    *)
(* the balances of unpaid invoices.                                        *)
LEMMA AgingTotalIs ==
    ASSUME Typed
    PROVE  AgingTotal = SumOfBalances(Unpaid) /\ Unpaid \in SUBSET Invoice
  <1> DEFINE U == Unpaid
             longest == SumFunction(DaysOverdue)
             S(from) == SumOfBalances(OverdueSince(U, from))
             A(from, to) == SumOfBalances(OverdueFor(U, from, to))
  <1>1. U \in SUBSET Invoice
    BY DEF Unpaid
  <1>2. AgingTotal = A(0, 30) + A(31, 60) + A(61, 90) + A(91, longest)
    BY DEF AgingTotal, Aging, Aged, OverdueFor
  <1>3. S(0) = SumOfBalances(U) /\ S(91) = A(91, longest)
    BY <1>1, AgedBounds
  <1>4. S(0) = A(0, 30) + S(31) /\ S(31) = A(31, 60) + S(61) /\ S(61) = A(61, 90) + S(91)
    <2>1. S(0) = A(0, 30) + S(30 + 1) /\ S(31) = A(31, 60) + S(60 + 1)
          /\ S(61) = A(61, 90) + S(90 + 1)
      BY <1>1, AgedSplit
    <2> QED
      BY <2>1
  <1>5. \A from, to : S(from) \in Nat /\ A(from, to) \in Nat
    BY <1>1, BalancesIntegers DEF OverdueSince, OverdueFor
  <1> HIDE DEF S, A, U, longest
  <1>6. AgingTotal = SumOfBalances(U)
    <2>1. S(0) \in Nat /\ S(31) \in Nat /\ S(61) \in Nat /\ S(91) \in Nat /\ A(0, 30) \in Nat
          /\ A(31, 60) \in Nat /\ A(61, 90) \in Nat /\ A(91, longest) \in Nat
      BY <1>5
    <2> QED
      BY <1>2, <1>3, <1>4, <2>1
  <1> QED
    BY <1>1, <1>6 DEF U

(* Once every status was recomputed, it is one of four. *)
Settled == \A i \in Invoice :
    /\ status[i] \in {"PAID", "PARTIAL", "UNPAID", "OVERDUE"}
    /\ status[i] = "PAID" => Balance(entry, i) = 0
    /\ status[i] = "OVERDUE" => i \in Late /\ Paid(entry, i) <= 0

(* Recomputed statuses that fit make an invoice paid only when its balance *)
(* is nothing.                                                             *)
LEMMA SettledIs ==
    ASSUME Typed, StatusFits, unsettled = {}
    PROVE  Settled
  <1> SUFFICES ASSUME NEW i \in Invoice
               PROVE  /\ status[i] \in {"PAID", "PARTIAL", "UNPAID", "OVERDUE"}
                      /\ status[i] = "PAID" => Balance(entry, i) = 0
                      /\ status[i] = "OVERDUE" => i \in Late /\ Paid(entry, i) <= 0
    BY DEF Settled
  <1>1. /\ status[i] = "PAID" <=> Paid(entry, i) > 0 /\ Balance(entry, i) = 0
        /\ status[i] = "PARTIAL" <=> Paid(entry, i) > 0 /\ Balance(entry, i) > 0
        /\ status[i] \in {"UNPAID", "OVERDUE"} <=> Paid(entry, i) <= 0
        /\ status[i] = "OVERDUE" => i \in Late
    BY DEF StatusFits
  <1>2. Paid(entry, i) \in Int /\ Balance(entry, i) \in Nat
    BY MoneyTyped DEF Typed
  <1> QED
    BY <1>1, <1>2

(* What is part of it is no more. *)
LEMMA BalancesOfPart ==
    ASSUME Typed, NEW U \in SUBSET Invoice, NEW P \in SUBSET U
    PROVE  SumOfBalances(P) <= SumOfBalances(U)
  <1>1. IntegersOn(BalanceOf, U) /\ U \ P \in SUBSET Invoice /\ P \in SUBSET Invoice
    BY BalancesIntegers
  <1>2. SumFunctionOnSet(BalanceOf, U)
          = SumFunctionOnSet(BalanceOf, P) + SumFunctionOnSet(BalanceOf, U \ P)
    BY <1>1, SumOfParts
  <1>3. /\ SumOfBalances(U \ P) \in Nat /\ SumOfBalances(P) \in Nat
        /\ SumOfBalances(U \ P) = SumFunctionOnSet(BalanceOf, U \ P)
        /\ SumOfBalances(P) = SumFunctionOnSet(BalanceOf, P)
        /\ SumOfBalances(U) = SumFunctionOnSet(BalanceOf, U)
    BY <1>1, BalancesIntegers
  <1> QED
    BY <1>2, <1>3

(* What is left out is nothing. *)
LEMMA BalancesLeftOut ==
    ASSUME Typed, NEW U \in SUBSET Invoice, NEW P \in SUBSET U, \A i \in U \ P : Balance(entry, i) = 0
    PROVE  SumOfBalances(P) = SumOfBalances(U)
  <1>1. IntegersOn(BalanceOf, U)
    BY BalancesIntegers
  <1>2. \A i \in U \ P : BalanceOf[i] = 0
    BY DEF BalanceOf
  <1>3. SumFunctionOnSet(BalanceOf, P) = SumFunctionOnSet(BalanceOf, U)
    BY <1>1, <1>2, SumOnPart
  <1> QED
    BY <1>3, BalancesIntegers

(* Hence the aging report leaves no balance out, and the payment center    *)
(* shows the same.                                                         *)
LEMMA AgingIsOutstanding ==
    ASSUME Typed, Settled
    PROVE  /\ AgingTotal = SumOfBalances(Invoice) /\ Outstanding = AgingTotal
           /\ OverdueTotal <= SumOfBalances({i \in Late : Paid(entry, i) <= 0})
  <1> DEFINE O == {i \in Invoice : status[i] \notin {"PAID", "CANCELLED", "DRAFT"}}
             L == {i \in Late : Paid(entry, i) <= 0}
             D == {i \in Invoice : status[i] = "OVERDUE"}
  <1>1. \A i \in Invoice : Balance(entry, i) \in Nat
    BY MoneyTyped DEF Typed
  <1>2. \A i \in Invoice \ O : Balance(entry, i) = 0
    BY DEF Settled
  <1>3. \A i \in Invoice \ Unpaid : Balance(entry, i) = 0
    BY <1>1, <1>2 DEF Unpaid
  <1>4. D \in SUBSET L /\ L \in SUBSET Invoice /\ O \in SUBSET Invoice
    BY InvoicesAssumption DEF Settled
  <1>5. Outstanding = SumOfBalances(O) /\ OverdueTotal = SumOfBalances(D)
    BY DEF Outstanding, OverdueTotal
  <1> HIDE DEF O, L, D
  <1>6. SumOfBalances(O) = SumOfBalances(Invoice)
    BY <1>2, <1>4, BalancesLeftOut
  <1>7. SumOfBalances(Unpaid) = SumOfBalances(Invoice)
    BY <1>3, AgingTotalIs, BalancesLeftOut
  <1>8. SumOfBalances(D) <= SumOfBalances(L)
    BY <1>4, BalancesOfPart
  <1> QED
    BY <1>5, <1>6, <1>7, <1>8, AgingTotalIs DEF L

-----------------------------------------------------------------------------
(* The timeline of an invoice. *)

Direct(i) == {x \in Entry : entry[x].kind = "payment" /\ entry[x].invoice = i
                            /\ entry[x].status = "COMPLETED"}
Allocated(i) == {x \in Entry : entry[x].share[i] > 0 /\ entry[x].status = "COMPLETED"}
DirectEvent(x) == [of |-> x, via |-> "invoice", amount |-> entry[x].amount,
                   status |-> entry[x].status]
AllocatedEvent(x, i) == [of |-> x, via |-> "allocation", amount |-> entry[x].share[i],
                         status |-> entry[x].status]

(* The completed payments of a timeline are those that count for its       *)
(* invoice.                                                                *)
LEMMA TimelineIs ==
    ASSUME Typed, \A x \in Entry : Shaped(entry[x]), NEW i \in Invoice
    PROVE  SumFunction([e \in {e \in Timeline(i) : e.status = "COMPLETED"} |-> e.amount])
              = SumOf(entry, {"payment"}, i)
  <1> DEFINE D == Direct(i)
             A == Allocated(i)
             ED == {DirectEvent(x) : x \in D}
             EA == {AllocatedEvent(x, i) : x \in A}
             C == {e \in Timeline(i) : e.status = "COMPLETED"}
             f == [e \in C |-> e.amount]
             d == [x \in Entry |-> IF x \in D THEN entry[x].amount ELSE 0]
             a == [x \in Entry |-> IF x \in A THEN entry[x].share[i] ELSE 0]
             bD == [x \in D |-> DirectEvent(x)]
             bA == [x \in A |-> AllocatedEvent(x, i)]
             p == Amounts(entry, {"payment"}, i)
  <1>1. C = ED \cup EA /\ ED \cap EA = {}
    <2>1. C \subseteq ED \cup EA
      BY DEF Timeline, DirectEvent, AllocatedEvent, Direct, Allocated
    <2>2. ED \cup EA \subseteq C
      BY DEF Timeline, DirectEvent, AllocatedEvent, Direct, Allocated
    <2>3. ED \cap EA = {}
      BY DEF DirectEvent, AllocatedEvent
    <2> QED
      BY <2>1, <2>2, <2>3
  <1>2. /\ D \in SUBSET Entry /\ A \in SUBSET Entry /\ IsFiniteSet(Entry)
        /\ IsFiniteSet(D) /\ IsFiniteSet(A)
    BY InvoicesAssumption, FS_Subset DEF Direct, Allocated
  <1>3. \A x \in Entry : entry[x].amount \in Int /\ entry[x].share[i] \in Nat
    BY RowFields DEF Typed
  <1>4. IsFiniteSet(ED) /\ IsFiniteSet(EA)
    <2>1. bD \in [D -> ED] /\ ED = {bD[x] : x \in D} /\ bA \in [A -> EA] /\ EA = {bA[x] : x \in A}
      OBVIOUS
    <2> HIDE DEF bD, bA, D, A, ED, EA
    <2>2. bD \in Surjection(D, ED) /\ bA \in Surjection(A, EA)
      BY <2>1 DEF Surjection
    <2> QED
      BY <1>2, <2>2, FS_Surjection
  <1>5. ASSUME NEW x \in Entry
        PROVE  p[x] = d[x] + a[x] /\ d[x] \in Int /\ a[x] \in Int
    <2> DEFINE row == entry[x]
    <2>1. Shaped(row) /\ row.amount \in Int /\ row.share[i] \in Nat
      BY <1>3
    <2>2. /\ p[x] = IF row.kind = "payment" THEN Worth(row, i) ELSE 0
          /\ d[x] = IF row.kind = "payment" /\ row.invoice = i /\ row.status = "COMPLETED"
                    THEN row.amount ELSE 0
          /\ a[x] = IF row.share[i] > 0 /\ row.status = "COMPLETED" THEN row.share[i] ELSE 0
      BY DEF Amounts, Direct, Allocated
    <2>3. NoShare[i] = 0
      BY DEF NoShare
    <2> HIDE DEF row, p, d, a
    <2>4. CASE row.status = "COMPLETED"
      <3>1. Exists(row) /\ Counts(row)
        BY <2>4 DEF Exists, Counts, Absent, Undone
      <3>2. CASE row.kind = "payment"
        BY <2>1, <2>2, <2>4, <3>1, <3>2 DEF Worth
      <3>3. CASE row.kind # "payment"
        <4>1. row.share[i] = 0
          BY <2>1, <2>3, <3>1, <3>3 DEF Shaped
        <4> QED
          BY <2>2, <2>4, <3>3, <4>1
      <3> QED
        BY <3>2, <3>3
    <2>5. CASE row.status # "COMPLETED"
      <3>1. row.kind = "payment" => ~Counts(row)
        BY <2>1, <2>5 DEF Shaped, Exists, Counts, Undone, Absent
      <3> QED
        BY <2>2, <2>5, <3>1 DEF Worth
    <2> QED
      BY <2>4, <2>5
  <1>6. /\ \A e \in C : f[e] = e.amount
        /\ \A x \in D : bD[x] \in ED /\ d[x] = f[bD[x]]
        /\ \A x \in A : bA[x] \in EA /\ a[x] = f[bA[x]]
    <2>1. \A x \in D : DirectEvent(x) \in C /\ DirectEvent(x).amount = entry[x].amount
      BY <1>1 DEF DirectEvent
    <2>2. \A x \in A : AllocatedEvent(x, i) \in C /\ AllocatedEvent(x, i).amount = entry[x].share[i]
      BY <1>1 DEF AllocatedEvent
    <2>3. \A x \in D : x \in Entry /\ d[x] = entry[x].amount
      BY <1>2
    <2>4. \A x \in A : x \in Entry /\ a[x] = entry[x].share[i]
      BY <1>2
    <2> HIDE DEF d, a, C, D, A
    <2> QED
      BY <2>1, <2>2, <2>3, <2>4
  <1>7. /\ \A x, y \in D : bD[x] = bD[y] => x = y
        /\ \A x, y \in A : bA[x] = bA[y] => x = y
    <2>1. (\A x \in D : bD[x].of = x) /\ (\A x \in A : bA[x].of = x)
      BY DEF DirectEvent, AllocatedEvent
    <2> QED
      BY <2>1
  <1>8. (\A e \in ED : \E x \in D : bD[x] = e) /\ (\A e \in EA : \E x \in A : bA[x] = e)
    OBVIOUS
  <1>9. \A x \in Entry \ D : d[x] = 0
    OBVIOUS
  <1>10. \A x \in Entry \ A : a[x] = 0
    OBVIOUS
  <1>11. SumFunction(f) = SumFunctionOnSet(f, C)
    <2>1. DOMAIN f = C
      OBVIOUS
    <2> HIDE DEF f
    <2> QED
      BY <2>1 DEF SumFunction
  <1>12. SumOf(entry, {"payment"}, i) = SumFunctionOnSet(p, Entry)
    BY SumIsOverEntries DEF Typed
  <1>13. IntegersOn(d, Entry) /\ IntegersOn(a, Entry)
    <2> HIDE DEF d, a
    <2> QED
      BY <1>2, <1>5 DEF IntegersOn
  <1>14. IntegersOn(f, ED) /\ IntegersOn(f, EA) /\ IntegersOn(f, C)
    <2> HIDE DEF f, d, a, bD, bA, C, D, A, ED, EA
    <2>1. \A e \in ED : f[e] \in Int
      BY <1>2, <1>5, <1>6, <1>8
    <2>2. \A e \in EA : f[e] \in Int
      BY <1>2, <1>5, <1>6, <1>8
    <2>3. IsFiniteSet(C) /\ \A e \in C : f[e] \in Int
      BY <1>1, <1>4, <2>1, <2>2, FS_Union
    <2> QED
      BY <1>4, <2>1, <2>2, <2>3 DEF IntegersOn
  <1> HIDE DEF f, d, a, bD, bA, C, D, A, ED, EA, p
  <1>15. SumFunctionOnSet(f, C) = SumFunctionOnSet(f, ED) + SumFunctionOnSet(f, EA)
    <2>1. ED \in SUBSET C /\ C \ ED = EA
      BY <1>1
    <2> QED
      BY <1>14, <2>1, SumOfParts
  <1>16. SumFunctionOnSet(d, D) = SumFunctionOnSet(d, Entry)
         /\ SumFunctionOnSet(a, A) = SumFunctionOnSet(a, Entry)
    BY <1>2, <1>9, <1>10, <1>13, SumOnPart
  <1>17. IntegersOn(d, D) /\ IntegersOn(a, A)
    BY <1>2, <1>13, IntegersOnPart
  <1>18. SumFunctionOnSet(d, D) = SumFunctionOnSet(f, ED)
    BY <1>6, <1>7, <1>8, <1>14, <1>17, SumRenamed
  <1>19. SumFunctionOnSet(a, A) = SumFunctionOnSet(f, EA)
    BY <1>6, <1>7, <1>8, <1>14, <1>17, SumRenamed
  <1>20. SumFunctionOnSet(p, Entry) = SumFunctionOnSet(d, Entry) + SumFunctionOnSet(a, Entry)
    BY <1>5, <1>13, SumOfTwo
  <1>21. SumFunction(f) = SumOf(entry, {"payment"}, i)
    BY <1>11, <1>12, <1>15, <1>16, <1>18, <1>19, <1>20
  <1> QED
    BY <1>21 DEF f, C

-----------------------------------------------------------------------------
(* Without negative payments. *)
LEMMA NothingNegative ==
    ASSUME Typed, NoneNegative, NEW i \in Invoice
    PROVE  Paid(entry, i) \in Nat /\ Credited(entry, i) \in Nat /\ Debited(entry, i) \in Nat
  <1>1. ASSUME NEW x \in Entry PROVE Worth(entry[x], i) \in Nat
    <2>1. entry[x].amount \in Nat /\ entry[x].share[i] \in Nat
      BY RowFields DEF Typed, NoneNegative
    <2> QED
      BY <2>1 DEF Worth
  <1>2. ASSUME NEW kinds PROVE SumOf(entry, kinds, i) \in Nat
    <2> DEFINE p == Amounts(entry, kinds, i)
    <2>1. \A x \in Entry : p[x] \in Nat
      BY <1>1 DEF Amounts
    <2>2. SumOf(entry, kinds, i) = SumFunctionOnSet(p, Entry)
      BY SumIsOverEntries DEF Typed
    <2> HIDE DEF p
    <2> QED
      BY <2>1, <2>2, SumNatural, InvoicesAssumption
  <1> QED
    BY <1>2 DEF Paid, Credited, Debited

(* The balances are the totals of what is not paid, and debit notes at     *)
(* most.                                                                   *)
LEMMA OutstandingBound ==
    ASSUME Typed, Settled, NoneNegative
    PROVE  SumOfBalances(Invoice) <= OutstandingTotals + Debits
  <1> DEFINE t == [i \in Invoice |-> IF i \in Receivable THEN Total[i] ELSE 0]
             d == [i \in Invoice |-> Debited(entry, i)]
             both == [i \in Invoice |-> t[i] + d[i]]
  <1>1. Receivable \in SUBSET Invoice /\ IsFiniteSet(Invoice)
    BY InvoicesAssumption DEF Receivable
  <1>2. ASSUME NEW i \in Invoice
        PROVE  /\ t[i] \in Nat /\ d[i] \in Nat /\ both[i] = t[i] + d[i]
               /\ BalanceOf[i] <= both[i] /\ (i \notin Receivable => t[i] = 0)
    <2>1. /\ Paid(entry, i) \in Nat /\ Credited(entry, i) \in Nat /\ Debited(entry, i) \in Nat
          /\ Total[i] \in Nat
      BY NothingNegative, MoneyTyped DEF Typed
    <2>2. Balance(entry, i) <= Total[i] + Debited(entry, i)
      BY <2>1 DEF Balance, EffectiveDue, AtLeastZero
    <2>3. i \notin Receivable => Balance(entry, i) = 0
      BY DEF Settled, Receivable
    <2>4. BalanceOf[i] = Balance(entry, i)
      BY DEF BalanceOf
    <2> QED
      BY <2>1, <2>2, <2>3, <2>4
  <1>3. Debits = SumFunctionOnSet(d, Invoice)
    <2>1. Debits = SumFunction(d) /\ DOMAIN d = Invoice
      BY DEF Debits
    <2> HIDE DEF d
    <2> QED
      BY <2>1 DEF SumFunction
  <1>4. \A i \in Receivable : Total[i] = t[i]
    BY <1>1
  <1> HIDE DEF t, d, both
  <1>5. IntegersOn(t, Invoice) /\ IntegersOn(d, Invoice)
    BY <1>1, <1>2 DEF IntegersOn
  <1>6. IntegersOn(both, Invoice)
        /\ SumFunctionOnSet(both, Invoice) = SumFunctionOnSet(t, Invoice) + SumFunctionOnSet(d, Invoice)
    BY <1>2, <1>5, SumOfTwo
  <1>7. SumFunctionOnSet(BalanceOf, Invoice) <= SumFunctionOnSet(both, Invoice)
    BY <1>2, <1>6, BalancesIntegers, SumMonotone
  <1>8. SumFunctionOnSet(Total, Receivable) = SumFunctionOnSet(t, Invoice)
    BY <1>1, <1>2, <1>4, <1>5, SumOnPart
  <1>9. OutstandingTotals = SumFunctionOnSet(Total, Receivable)
    BY DEF OutstandingTotals, SumOfTotals
  <1> QED
    BY <1>3, <1>6, <1>7, <1>8, <1>9, BalancesIntegers

-----------------------------------------------------------------------------
(* The reports tell one story whenever every status was recomputed: the       *)
(* statement ends at what the aging report and the payment center show, less  *)
(* what no invoice took, a statement goes on where the one before it ended,   *)
(* and the timelines and the dashboard's totals fit.                          *)
LEMMA ReportsStep ==
    ASSUME Base, StatusInv, KindsInv
    PROVE  ReportsAgree
  <1> SUFFICES ASSUME Quiet, unsettled = {}
               PROVE  /\ \A d \in Day :
                          LET before == CustomerStatement(NoDay, d)
                              after == CustomerStatement(d + 1, NoDay)
                          IN  /\ after.opening = before.closing
                              /\ after.closing = AgingTotal - Unapplied - Surplus
                      /\ Outstanding = AgingTotal
                      /\ OverdueTotal <= SumOfBalances({i \in Late : Paid(entry, i) <= 0})
                      /\ \A i \in Invoice :
                            LET completed == {e \in Timeline(i) : e.status = "COMPLETED"}
                            IN  SumFunction([e \in completed |-> e.amount])
                                    = SumOf(entry, {"payment"}, i)
                      /\ NoneNegative => AgingTotal <= OutstandingTotals + Debits
    BY DEF ReportsAgree
  <1>1. Typed /\ StatusFits /\ \A x \in Entry : Shaped(entry[x])
    BY DEF Base, StatusInv, KindsInv, InTable
  <1>2. Settled
    BY <1>1, SettledIs
  <1>3. \A i \in Invoice : status[i] # "CANCELLED"
    BY <1>2 DEF Settled
  <1>4. /\ AgingTotal = SumOfBalances(Invoice) /\ Outstanding = AgingTotal
        /\ OverdueTotal <= SumOfBalances({i \in Late : Paid(entry, i) <= 0})
    BY <1>1, <1>2, AgingIsOutstanding
  <1>5. SumFunctionOnSet(AddsOf, Events) = AgingTotal - Unapplied - Surplus
    BY <1>1, <1>3, <1>4, StatementEnds
  <1>6. NoneNegative => AgingTotal <= OutstandingTotals + Debits
    BY <1>1, <1>2, <1>4, OutstandingBound
  <1>7. \A i \in Invoice :
            SumFunction([e \in {e \in Timeline(i) : e.status = "COMPLETED"} |-> e.amount])
                = SumOf(entry, {"payment"}, i)
    BY <1>1, TimelineIs
  <1>8. \A d \in Day :
            /\ CustomerStatement(d + 1, NoDay).opening = CustomerStatement(NoDay, d).closing
            /\ CustomerStatement(d + 1, NoDay).closing = AgingTotal - Unapplied - Surplus
    BY <1>1, <1>5, StatementsJoin
  <1> QED
    BY <1>4, <1>6, <1>7, <1>8

(* ReportsAgree: statements, aging report, payment center, timelines and   *)
(* the total that the dashboard shows as owed tell one story, for any rows *)
(* and invoices, however requests interleave that met no other.            *)
THEOREM ReportsAgreeTheorem == PaymentsSpec => []ReportsAgree
  <1>1. Base /\ StatusInv /\ [PaymentsNext]_paymentsVars => StatusInv'
    BY NextStatus
  <1>2. Base /\ StatusInv /\ KindsInv => ReportsAgree
    BY ReportsStep
  <1> QED
    BY BaseAlways, InitStatus, KindsAlways, <1>1, <1>2, PTL DEF PaymentsSpec

-----------------------------------------------------------------------------
(* The dashboards.  They add up the amounts of rows: Amt.                    *)

Amt == [x \in Entry |-> entry[x].amount]

(* The amounts of a set of rows, as sums over functions. *)
LEMMA AmountsAdd ==
    ASSUME Typed
    PROVE  /\ IntegersOn(Amt, Entry)
           /\ \A U : SumOfAmounts(U) = SumFunctionOnSet(Amt, U)
           /\ \A U \in SUBSET Entry : SumOfAmounts(U) \in Int
           /\ \A U, P \in SUBSET Entry :
                 P \subseteq U => SumOfAmounts(U) = SumOfAmounts(P) + SumOfAmounts(U \ P)
  <1>1. IntegersOn(Amt, Entry)
    BY RowFields, InvoicesAssumption DEF Typed, IntegersOn, Amt
  <1>2. \A U : SumOfAmounts(U) = SumFunctionOnSet(Amt, U)
    BY DEF SumOfAmounts, Amt
  <1>3. ASSUME NEW U \in SUBSET Entry
        PROVE  IntegersOn(Amt, U) /\ SumOfAmounts(U) \in Int
    BY <1>1, <1>2, IntegersOnPart, SumInteger
  <1>4. ASSUME NEW U \in SUBSET Entry, NEW P \in SUBSET Entry, P \subseteq U
        PROVE  SumOfAmounts(U) = SumOfAmounts(P) + SumOfAmounts(U \ P)
    <2>1. P \in SUBSET U /\ IntegersOn(Amt, U)
      BY <1>3, <1>4
    <2> QED
      BY <1>2, <2>1, SumOfParts
  <1> QED
    BY <1>1, <1>2, <1>3, <1>4

(* Fewer rows, unless they are negative, are less money. *)
LEMMA AmountsOfPart ==
    ASSUME Typed, NoneNegative, NEW U \in SUBSET Entry, NEW P \in SUBSET U
    PROVE  SumOfAmounts(P) <= SumOfAmounts(U) /\ SumOfAmounts(U) \in Nat
  <1>1. \A x \in Entry : Amt[x] \in Nat
    BY RowFields DEF Typed, NoneNegative, Amt
  <1>2. \A V \in SUBSET Entry : SumOfAmounts(V) \in Nat
    <2> SUFFICES ASSUME NEW V \in SUBSET Entry PROVE SumOfAmounts(V) \in Nat
      OBVIOUS
    <2>1. IsFiniteSet(V) /\ \A x \in V : Amt[x] \in Nat
      BY <1>1, InvoicesAssumption, FS_Subset
    <2> QED
      BY <2>1, AmountsAdd, SumNatural
  <1>3. SumOfAmounts(U) = SumOfAmounts(P) + SumOfAmounts(U \ P)
    BY AmountsAdd
  <1>4. SumOfAmounts(U \ P) \in Nat /\ SumOfAmounts(P) \in Nat /\ SumOfAmounts(U) \in Nat
    BY <1>2
  <1> QED
    BY <1>3, <1>4

(* What counts of a kind, as amounts of all rows. *)
OfKinds(kinds) ==
    [x \in Entry |-> IF Counts(entry[x]) /\ entry[x].kind \in kinds THEN entry[x].amount ELSE 0]

LEMMA OfKindsInteger ==
    ASSUME Typed
    PROVE  /\ \A kinds : IntegersOn(OfKinds(kinds), Entry)
           /\ \A kinds, x \in Entry : OfKinds(kinds)[x] \in Int
  BY RowFields, InvoicesAssumption DEF Typed, IntegersOn, OfKinds

(* The two tables of payments, what they collected and what was given      *)
(* back.                                                                   *)
LEMMA NewerAndOlder ==
    ASSUME Typed, \A x \in Entry : Shaped(entry[x])
    PROVE  /\ Newer \in SUBSET Entry /\ Older \in SUBSET Entry
           /\ Collected \in SUBSET Revenue /\ Refunded = Revenue \ Collected
           /\ Refunded \in SUBSET Revenue /\ Revenue \in SUBSET Entry
           /\ \A x \in Newer : entry[x].kind \in Kind
           /\ SumOfAmounts(Collected) = SumFunctionOnSet(OfKinds({"payment"}), Entry)
           /\ SumOfAmounts(Older) = SumFunctionOnSet(OfKinds({"legacy"}), Entry)
           /\ SumOfAmounts(Revenue) = SumOfAmounts(Collected) + SumOfAmounts(Refunded)
  <1>1. Newer \in SUBSET Entry /\ Older \in SUBSET Entry
    BY DEF Newer, Older
  <1>2. ASSUME NEW x \in Entry
        PROVE  /\ x \in Collected <=> Counts(entry[x]) /\ entry[x].kind = "payment"
               /\ x \in Older <=> Counts(entry[x]) /\ entry[x].kind = "legacy"
               /\ x \in Newer => entry[x].status \in {"COMPLETED", "REVERSED", "REFUNDED"}
    <2>1. Shaped(entry[x])
      OBVIOUS
    <2>2. Counts(entry[x]) => Exists(entry[x])
      BY DEF Counts, Exists
    <2> QED
      BY <2>1, <2>2 DEF Collected, Newer, Older, Shaped, Counts, Undone, Exists, Absent
  <1>3. /\ Collected \in SUBSET Revenue /\ Refunded = Revenue \ Collected
        /\ Refunded \in SUBSET Revenue /\ Revenue \in SUBSET Entry
        /\ Collected \in SUBSET Entry
    BY <1>1, <1>2 DEF Collected, Refunded, Revenue
  <1>4. ASSUME NEW U \in SUBSET Entry, NEW kind,
               \A x \in Entry : x \in U <=> Counts(entry[x]) /\ entry[x].kind = kind
        PROVE  SumOfAmounts(U) = SumFunctionOnSet(OfKinds({kind}), Entry)
    <2> DEFINE o == OfKinds({kind})
    <2>1. \A x \in Entry : o[x] = IF x \in U THEN Amt[x] ELSE 0
      BY <1>4 DEF OfKinds, Amt
    <2>2. IntegersOn(o, Entry)
      BY OfKindsInteger
    <2> HIDE DEF o
    <2>3. (\A x \in U : Amt[x] = o[x]) /\ \A x \in Entry \ U : o[x] = 0
      BY <2>1
    <2>4. SumFunctionOnSet(Amt, U) = SumFunctionOnSet(o, Entry)
      BY <2>2, <2>3, SumOnPart
    <2> QED
      BY <2>4, AmountsAdd DEF o
  <1>5. /\ SumOfAmounts(Collected) = SumFunctionOnSet(OfKinds({"payment"}), Entry)
        /\ SumOfAmounts(Older) = SumFunctionOnSet(OfKinds({"legacy"}), Entry)
    BY <1>1, <1>2, <1>3, <1>4
  <1>6. SumOfAmounts(Revenue) = SumOfAmounts(Collected) + SumOfAmounts(Refunded)
    BY <1>3, AmountsAdd
  <1>7. \A x \in Newer : entry[x].kind \in Kind
    BY RowFields DEF Newer, Typed
  <1> QED
    BY <1>1, <1>3, <1>5, <1>6, <1>7

(* The money of all invoices is that of all rows. *)
GivenOf(kinds) == [x \in Entry |-> IF entry[x].kind \in kinds THEN Given(entry[x]) ELSE 0]

(* What rows of some kinds give, summed by invoices or by rows. *)
LEMMA InvoicesOrRows ==
    ASSUME Typed, NEW kinds
    PROVE  /\ IntegersOn(GivenOf(kinds), Entry)
           /\ SumFunction([i \in Invoice |-> SumOf(entry, kinds, i)])
                = SumFunctionOnSet(GivenOf(kinds), Entry)
  <1> DEFINE worth(x) == [i \in Invoice |-> Worth(entry[x], i)]
             w == [x \in Entry |-> [i \in Invoice |->
                        IF entry[x].kind \in kinds THEN Worth(entry[x], i) ELSE 0]]
             row == GivenOf(kinds)
             column == [i \in Invoice |-> SumOf(entry, kinds, i)]
             v == [i \in Invoice |-> Amounts(entry, kinds, i)]
  <1>1. IsFiniteSet(Entry) /\ IsFiniteSet(Invoice)
    BY InvoicesAssumption
  <1>2. \A x \in Entry, i \in Invoice :
            w[x][i] = IF entry[x].kind \in kinds THEN worth(x)[i] ELSE 0
    OBVIOUS
  <1>3. \A x \in Entry : IntegersOn(worth(x), Invoice)
                         /\ Given(entry[x]) = SumFunctionOnSet(worth(x), Invoice)
    BY GivenInteger DEF Typed, Given
  <1>4. \A x \in Entry : row[x] = IF entry[x].kind \in kinds THEN Given(entry[x]) ELSE 0
    BY DEF GivenOf
  <1>5. \A i \in Invoice, x \in Entry : v[i][x] = w[x][i]
    BY DEF Amounts
  <1>6. \A i \in Invoice : column[i] = SumFunctionOnSet(v[i], Entry)
    BY SumIsOverEntries DEF Typed
  <1>7. SumFunction(column) = SumFunctionOnSet(column, Invoice)
    <2>1. DOMAIN column = Invoice
      OBVIOUS
    <2> HIDE DEF column
    <2> QED
      BY <2>1 DEF SumFunction
  <1> HIDE DEF w, row, column, v, worth
  <1>8. ASSUME NEW x \in Entry
        PROVE  (\A i \in Invoice : w[x][i] \in Int) /\ row[x] = SumFunctionOnSet(w[x], Invoice)
    <2>1. CASE entry[x].kind \in kinds
      <3>1. \A i \in Invoice : worth(x)[i] = w[x][i] /\ worth(x)[i] \in Int
        BY <1>2, <1>3, <2>1 DEF IntegersOn
      <3>2. SumFunctionOnSet(worth(x), Invoice) = SumFunctionOnSet(w[x], Invoice)
        BY <1>3, <3>1, SumSame
      <3> QED
        BY <1>3, <1>4, <2>1, <3>1, <3>2
    <2>2. CASE entry[x].kind \notin kinds
      <3>1. \A i \in Invoice : w[x][i] = 0
        BY <1>2, <2>2
      <3> QED
        BY <1>1, <1>4, <2>2, <3>1, SumOfZeros
    <2> QED
      BY <2>1, <2>2
  <1>9. /\ IntegersOn(row, Entry)
        /\ SumFunctionOnSet(row, Entry) = SumFunctionOnSet(column, Invoice)
    <2>1. \A x \in Entry, i \in Invoice : w[x][i] \in Int
      BY <1>8
    <2>2. \A x \in Entry : row[x] = SumFunctionOnSet(w[x], Invoice)
      BY <1>8
    <2> QED
      BY <1>1, <1>5, <1>6, <2>1, <2>2, SumInBothOrders
  <1> QED
    BY <1>7, <1>9 DEF row, column

(* What is not of the newer payments goes to its invoice, the whole of it. *)
LEMMA WholeAmounts ==
    ASSUME Typed, \A x \in Entry : Shaped(entry[x]), NEW kind \in {"legacy", "credit", "debit"}
    PROVE  SumFunctionOnSet(GivenOf({kind}), Entry) = SumFunctionOnSet(OfKinds({kind}), Entry)
  <1> SUFFICES ASSUME NEW x \in Entry PROVE GivenOf({kind})[x] = OfKinds({kind})[x]
    BY InvoicesOrRows, SumSame
  <1> DEFINE row == entry[x]
  <1>1. row \in Row /\ Shaped(row)
    BY DEF Typed
  <1>2. /\ GivenOf({kind})[x] = IF row.kind = kind THEN Given(row) ELSE 0
        /\ OfKinds({kind})[x] = IF Counts(row) /\ row.kind = kind THEN row.amount ELSE 0
    BY DEF GivenOf, OfKinds
  <1>3. row.invoice \in Invoice \cup {NoInvoice}
    BY <1>1, RowFields
  <1> HIDE DEF row
  <1>4. CASE row.kind = kind /\ Counts(row)
    <2>1. row.share = NoShare /\ row.invoice \in Invoice
      BY <1>1, <1>3, <1>4 DEF Shaped, Exists, Counts
    <2>2. Given(row) = row.amount
      BY <1>1, <1>4, <2>1, GivenByNote
    <2> QED
      BY <1>2, <1>4, <2>2
  <1>5. CASE ~Counts(row)
    <2> DEFINE w == [i \in Invoice |-> Worth(row, i)]
    <2>1. \A i \in Invoice : w[i] = 0
      BY <1>5 DEF Worth
    <2>2. Given(row) = SumFunctionOnSet(w, Invoice)
      BY DEF Given
    <2> HIDE DEF w
    <2>3. Given(row) = 0
      BY <2>1, <2>2, SumOfZeros, InvoicesAssumption
    <2> QED
      BY <1>2, <1>5, <2>3
  <1> QED
    BY <1>2, <1>4, <1>5

LEMMA NotesIs ==
    ASSUME Typed, \A x \in Entry : Shaped(entry[x])
    PROVE  /\ Debits = SumFunctionOnSet(OfKinds({"debit"}), Entry)
           /\ Credits = SumFunctionOnSet(OfKinds({"credit"}), Entry)
  <1>1. /\ Debits = SumFunction([i \in Invoice |-> SumOf(entry, {"debit"}, i)])
        /\ Credits = SumFunction([i \in Invoice |-> SumOf(entry, {"credit"}, i)])
    BY DEF Debits, Credits, Debited, Credited
  <1> QED
    BY <1>1, InvoicesOrRows, WholeAmounts

(* The charges of all rows, kind by kind. *)
LEMMA ChargedByKind ==
    ASSUME Typed, \A x \in Entry : Shaped(entry[x])
    PROVE  /\ SumFunctionOnSet(Charged, Entry)
                 = Debits - Credits - SumOfAmounts(Collected) - SumOfAmounts(Older)
           /\ Debits \in Int /\ Credits \in Int
  <1> DEFINE d == OfKinds({"debit"})
             c == OfKinds({"credit"})
             p == OfKinds({"payment"})
             o == OfKinds({"legacy"})
             dc == [x \in Entry |-> d[x] - c[x]]
             dcp == [x \in Entry |-> dc[x] - p[x]]
  <1>1. IntegersOn(d, Entry) /\ IntegersOn(c, Entry) /\ IntegersOn(p, Entry) /\ IntegersOn(o, Entry)
    BY OfKindsInteger
  <1>2. ASSUME NEW x \in Entry PROVE Charged[x] = dcp[x] - o[x]
    <2>1. entry[x].kind \in Kind /\ entry[x].amount \in Int
      BY RowFields DEF Typed
    <2>2. /\ d[x] = IF Counts(entry[x]) /\ entry[x].kind = "debit" THEN entry[x].amount ELSE 0
          /\ c[x] = IF Counts(entry[x]) /\ entry[x].kind = "credit" THEN entry[x].amount ELSE 0
          /\ p[x] = IF Counts(entry[x]) /\ entry[x].kind = "payment" THEN entry[x].amount ELSE 0
          /\ o[x] = IF Counts(entry[x]) /\ entry[x].kind = "legacy" THEN entry[x].amount ELSE 0
      BY DEF OfKinds
    <2>3. Charged[x] = IF Counts(entry[x])
                       THEN IF entry[x].kind = "debit" THEN entry[x].amount ELSE -entry[x].amount
                       ELSE 0
      BY DEF Charged, Charge
    <2>4. dcp[x] = d[x] - c[x] - p[x]
      OBVIOUS
    <2> HIDE DEF d, c, p, o, dc, dcp
    <2> QED
      BY <2>1, <2>2, <2>3, <2>4 DEF Kind
  <1>3. (\A x \in Entry : dc[x] = d[x] - c[x]) /\ \A x \in Entry : dcp[x] = dc[x] - p[x]
    OBVIOUS
  <1>4. /\ Debits = SumFunctionOnSet(d, Entry) /\ Credits = SumFunctionOnSet(c, Entry)
        /\ SumOfAmounts(Collected) = SumFunctionOnSet(p, Entry)
        /\ SumOfAmounts(Older) = SumFunctionOnSet(o, Entry)
    BY NotesIs, NewerAndOlder
  <1> HIDE DEF d, c, p, o, dc, dcp
  <1>5. /\ IntegersOn(dc, Entry)
        /\ SumFunctionOnSet(dc, Entry) = SumFunctionOnSet(d, Entry) - SumFunctionOnSet(c, Entry)
    BY <1>1, <1>3, SumOfDifferences
  <1>6. /\ IntegersOn(dcp, Entry)
        /\ SumFunctionOnSet(dcp, Entry) = SumFunctionOnSet(dc, Entry) - SumFunctionOnSet(p, Entry)
    BY <1>1, <1>3, <1>5, SumOfDifferences
  <1>7. SumFunctionOnSet(Charged, Entry) = SumFunctionOnSet(dcp, Entry) - SumFunctionOnSet(o, Entry)
    BY <1>1, <1>2, <1>6, SumOfDifferences
  <1>8. SumFunctionOnSet(d, Entry) \in Int /\ SumFunctionOnSet(c, Entry) \in Int
    BY <1>1, SumInteger
  <1> QED
    BY <1>4, <1>5, <1>6, <1>7, <1>8

(* What is invoiced on the dashboard is what a statement asks for. *)
LEMMA InvoicedIs ==
    ASSUME Typed
    PROVE  Invoiced = SumFunctionOnSet(Asked, Invoice) /\ Invoiced \in Int
  <1> DEFINE U == Invoice \ WithStatus({"CANCELLED"})
  <1>1. U \in SUBSET Invoice /\ Invoiced = SumFunctionOnSet(Total, U)
    BY DEF Invoiced, SumOfTotals
  <1>2. (\A i \in U : Total[i] = Asked[i]) /\ \A i \in Invoice \ U : Asked[i] = 0
    BY DEF Asked, WithStatus
  <1>3. IntegersOn(Asked, Invoice)
    BY ChargeInteger
  <1> HIDE DEF U
  <1>4. SumFunctionOnSet(Total, U) = SumFunctionOnSet(Asked, Invoice)
    BY <1>1, <1>2, <1>3, SumOnPart
  <1> QED
    BY <1>1, <1>3, <1>4, SumInteger

(* The dashboard of invoices, with what it leaves out, shows what is       *)
(* outstanding.                                                            *)
LEMMA OutstandingIs ==
    ASSUME Typed, \A x \in Entry : Shaped(entry[x])
    PROVE  OutstandingExplained
  <1> DEFINE owed == CustomerStatement(NoDay, NoDay).closing + Credits - Debits
  <1>1. CustomerStatement(NoDay, NoDay).closing
            = SumFunctionOnSet(Asked, Invoice) + SumFunctionOnSet(Charged, Entry)
    BY WholeStatement, EventsAdded
  <1>2. /\ Newer \in SUBSET Entry /\ Older \in SUBSET Entry /\ Collected \in SUBSET Entry
        /\ Refunded \in SUBSET Entry /\ Revenue \in SUBSET Entry
    BY NewerAndOlder
  <1>3. /\ SumOfAmounts(Older) \in Int /\ SumOfAmounts(Collected) \in Int
        /\ SumOfAmounts(Refunded) \in Int /\ SumOfAmounts(Revenue) \in Int
    BY <1>2, AmountsAdd
  <1>4. owed = Invoiced - SumOfAmounts(Collected) - SumOfAmounts(Older)
    BY <1>1, <1>3, ChargedByKind, InvoicedIs
  <1>5. SumOfAmounts(Revenue) = SumOfAmounts(Collected) + SumOfAmounts(Refunded)
    BY NewerAndOlder
  <1> HIDE DEF owed
  <1>6. /\ Invoiced - SumOfAmounts(Revenue) = owed + SumOfAmounts(Older) - RefundsTotal
        /\ Invoiced - SumOfAmounts(Older) = owed + SumOfAmounts(Collected)
    BY <1>3, <1>4, <1>5, InvoicedIs DEF RefundsTotal
  <1> QED
    BY <1>6 DEF OutstandingExplained, SummaryOutstanding, SalesOutstanding, owed

-----------------------------------------------------------------------------
(* The aging of the API is that of the report and the drafts. *)

LEMMA OwingIs ==
    ASSUME Typed, NEW from \in Nat, NEW to \in Nat
    PROVE  /\ Owing(from, to) = Aged(from, to)
                + SumOfBalances(OverdueFor(WithStatus({"DRAFT"}), from, to))
           /\ Owing(from, to) \in Nat /\ Aged(from, to) \in Nat
           /\ SumOfBalances(OverdueFor(WithStatus({"DRAFT"}), from, to)) \in Nat
  <1> DEFINE O == OverdueFor(Invoice \ WithStatus({"PAID", "CANCELLED"}), from, to)
             D == OverdueFor(WithStatus({"DRAFT"}), from, to)
             A == OverdueFor(Unpaid, from, to)
  <1>1. Owing(from, to) = SumOfBalances(O) /\ Aged(from, to) = SumOfBalances(A)
    BY DEF Owing, Aged, OverdueFor
  <1>2. /\ O \in SUBSET Invoice /\ D \in SUBSET O /\ A \in SUBSET (O \ D)
        /\ A \in SUBSET Invoice /\ O \ D \in SUBSET Invoice /\ D \in SUBSET Invoice
    BY DEF OverdueFor, WithStatus, Unpaid
  <1>3. ASSUME NEW i \in (O \ D) \ A
        PROVE  Balance(entry, i) = 0
    <2>1. i \in Invoice /\ status[i] \notin {"PAID", "CANCELLED", "DRAFT"} /\ ~(Balance(entry, i) > 0)
      BY <1>3 DEF OverdueFor, WithStatus, Unpaid
    <2>2. Balance(entry, i) \in Nat
      BY <2>1, BalanceIs
    <2> QED
      BY <2>1, <2>2
  <1> HIDE DEF O, D, A
  <1>4. SumOfBalances(A) = SumOfBalances(O \ D)
    BY <1>2, <1>3, BalancesLeftOut
  <1>5. SumFunctionOnSet(BalanceOf, O) = SumFunctionOnSet(BalanceOf, D) + SumFunctionOnSet(BalanceOf, O \ D)
    BY <1>2, BalancesIntegers, SumOfParts
  <1>6. /\ SumOfBalances(O) = SumFunctionOnSet(BalanceOf, O)
        /\ SumOfBalances(D) = SumFunctionOnSet(BalanceOf, D)
        /\ SumOfBalances(O \ D) = SumFunctionOnSet(BalanceOf, O \ D)
        /\ SumOfBalances(O) \in Nat /\ SumOfBalances(D) \in Nat /\ SumOfBalances(A) \in Nat
    BY <1>2, BalancesIntegers
  <1>7. SumOfBalances(O) = SumOfBalances(A) + SumOfBalances(D)
    BY <1>4, <1>5, <1>6
  <1> QED
    BY <1>1, <1>6, <1>7 DEF D

(* Neighbouring periods of the report. *)
LEMMA BucketsJoin ==
    ASSUME Typed, NEW U \in SUBSET Invoice, NEW from \in Nat, NEW mid \in Nat, NEW to \in Nat,
           from <= mid + 1, mid <= to
    PROVE  SumOfBalances(OverdueFor(U, from, to))
              = SumOfBalances(OverdueFor(U, from, mid)) + SumOfBalances(OverdueFor(U, mid + 1, to))
  <1> DEFINE S(a) == SumOfBalances(OverdueSince(U, a))
             A(a, b) == SumOfBalances(OverdueFor(U, a, b))
  <1>1. from <= to + 1 /\ mid + 1 <= to + 1 /\ mid + 1 \in Nat
    OBVIOUS
  <1>2. /\ S(from) = A(from, to) + S(to + 1) /\ S(from) = A(from, mid) + S(mid + 1)
        /\ S(mid + 1) = A(mid + 1, to) + S(to + 1)
    BY <1>1, AgedSplit
  <1>3. /\ S(from) \in Nat /\ S(mid + 1) \in Nat /\ S(to + 1) \in Nat /\ A(from, to) \in Nat
        /\ A(from, mid) \in Nat /\ A(mid + 1, to) \in Nat
    BY BalancesIntegers DEF OverdueSince, OverdueFor
  <1> HIDE DEF S, A
  <1>4. A(from, to) = A(from, mid) + A(mid + 1, to)
    BY <1>2, <1>3
  <1> QED
    BY <1>4 DEF A

(* The aging of the interface, bucket by bucket. *)
LEMMA AgingIs ==
    ASSUME Typed
    PROVE  AgingExplained
  <1> DEFINE U == Unpaid
             D == WithStatus({"DRAFT"})
             longest == SumFunction(DaysOverdue)
             S(V, a) == SumOfBalances(OverdueSince(V, a))
             A(V, a, b) == SumOfBalances(OverdueFor(V, a, b))
             O(a, b) == Owing(a, b)
  <1>1. U \in SUBSET Invoice /\ D \in SUBSET Invoice
    BY DEF Unpaid, WithStatus
  <1>2. longest \in Nat
    BY <1>1, AgedBounds
  <1>3. A(U, 61, longest) = A(U, 61, 90) + A(U, 91, longest)
    <2>1. S(U, 61) = A(U, 61, 90) + S(U, 90 + 1)
      BY <1>1, AgedSplit
    <2>2. S(U, 61) = A(U, 61, longest) /\ S(U, 91) = A(U, 91, longest)
      BY <1>1, AgedBounds
    <2> QED
      BY <2>1, <2>2
  <1>4. \A V \in {U, D} : A(V, 0, 30) = A(V, 0, 0) + A(V, 1, 30)
    <2>1. ASSUME NEW V \in SUBSET Invoice
          PROVE  SumOfBalances(OverdueFor(V, 0, 30))
                    = SumOfBalances(OverdueFor(V, 0, 0)) + SumOfBalances(OverdueFor(V, 0 + 1, 30))
      <3>1. 0 \in Nat /\ 30 \in Nat /\ 0 <= 0 + 1 /\ 0 <= 30
        OBVIOUS
      <3> QED
        BY <3>1, BucketsJoin
    <2>2. 0 + 1 = 1
      OBVIOUS
    <2> QED
      BY <1>1, <2>1, <2>2
  <1>5. /\ O(0, 0) = A(U, 0, 0) + A(D, 0, 0) /\ O(1, 30) = A(U, 1, 30) + A(D, 1, 30)
        /\ O(31, 60) = A(U, 31, 60) + A(D, 31, 60)
        /\ O(61, longest) = A(U, 61, longest) + A(D, 61, longest)
    <2>1. \A from, to \in Nat : O(from, to) = Aged(from, to) + A(D, from, to)
      BY OwingIs
    <2>2. \A from, to \in Nat : Aged(from, to) = A(U, from, to)
      BY DEF Aged, OverdueFor
    <2> HIDE DEF A, O, longest, U, D
    <2> QED
      BY <1>2, <2>1, <2>2
  <1>6. \A V \in {U, D} : \A a, b : A(V, a, b) \in Nat
    BY <1>1, BalancesIntegers DEF OverdueFor
  <1>7. /\ O(0, 0) + O(1, 30) = A(U, 0, 30) + A(D, 0, 30)
        /\ O(61, longest) = A(U, 61, 90) + A(U, 91, longest) + A(D, 61, longest)
    <2> HIDE DEF A, O, longest, U, D
    <2>1. /\ A(U, 0, 0) \in Nat /\ A(D, 0, 0) \in Nat /\ A(U, 1, 30) \in Nat /\ A(D, 1, 30) \in Nat
          /\ A(U, 61, 90) \in Nat /\ A(U, 91, longest) \in Nat /\ A(D, 61, longest) \in Nat
      BY <1>6
    <2>2. A(U, 0, 30) = A(U, 0, 0) + A(U, 1, 30) /\ A(D, 0, 30) = A(D, 0, 0) + A(D, 1, 30)
      BY <1>4
    <2> QED
      BY <1>3, <1>5, <2>1, <2>2
  <1>8. /\ ApiReceivables.current = O(0, 0) /\ ApiReceivables.thirty = O(1, 30)
        /\ ApiReceivables.sixty = O(31, 60) /\ ApiReceivables.ninety = O(61, longest)
    BY DEF ApiReceivables
  <1>9. /\ Aging.current = A(U, 0, 30) /\ Aging.thirty = A(U, 31, 60)
        /\ Aging.sixty = A(U, 61, 90) /\ Aging.ninety = A(U, 91, longest)
    BY DEF Aging, Aged, OverdueFor
  <1>10. \A from, to : A(D, from, to) = SumOfBalances(
            {i \in WithStatus({"DRAFT"}) : DaysOverdue[i] >= from /\ DaysOverdue[i] <= to})
    BY DEF OverdueFor
  <1> QED
    BY <1>5, <1>7, <1>8, <1>9, <1>10 DEF AgingExplained

-----------------------------------------------------------------------------
(* What the organization says it received. *)

(* An invoice only counts as received with what was paid or credited for   *)
(* it.                                                                     *)
LEMMA ReceivedIs ==
    ASSUME Typed, StatusFits, \A x \in Entry : Shaped(entry[x])
    PROVE  ReceivedExplained
  <1> SUFFICES ASSUME unsettled = {}, NoneNegative
               PROVE  TotalReceived <= SumFunction([i \in Invoice |-> Paid(entry, i)]) + Credits
    BY DEF ReceivedExplained
  <1> DEFINE p == [i \in Invoice |-> Paid(entry, i)]
             c == [i \in Invoice |-> Credited(entry, i)]
             both == [i \in Invoice |-> p[i] + c[i]]
             P == WithStatus({"PAID"})
             t == [i \in Invoice |-> IF i \in P THEN Total[i] ELSE 0]
  <1>1. IsFiniteSet(Invoice) /\ IsFiniteSet(Entry) /\ P \in SUBSET Invoice
    BY InvoicesAssumption DEF WithStatus
  <1>2. SumFunction(p) = SumFunctionOnSet(p, Invoice) /\ Credits = SumFunctionOnSet(c, Invoice)
    <2>1. DOMAIN p = Invoice /\ DOMAIN c = Invoice /\ Credits = SumFunction(c)
      BY DEF Credits
    <2> HIDE DEF p, c
    <2> QED
      BY <2>1 DEF SumFunction
  <1>3. ASSUME NEW i \in Invoice
        PROVE  p[i] \in Nat /\ c[i] \in Nat /\ both[i] = p[i] + c[i] /\ t[i] \in Nat /\ t[i] <= both[i]
    <2>1. /\ Paid(entry, i) \in Nat /\ Credited(entry, i) \in Nat /\ Debited(entry, i) \in Nat
          /\ Total[i] \in Nat
      BY NothingNegative, MoneyTyped DEF Typed
    <2>2. i \in P => Balance(entry, i) = 0
      BY DEF WithStatus, StatusFits
    <2>3. i \in P => Total[i] <= Paid(entry, i) + Credited(entry, i)
      BY <2>1, <2>2 DEF Balance, EffectiveDue, AtLeastZero
    <2>4. p[i] = Paid(entry, i) /\ c[i] = Credited(entry, i) /\ both[i] = p[i] + c[i]
      OBVIOUS
    <2>5. t[i] = IF i \in P THEN Total[i] ELSE 0
      OBVIOUS
    <2> HIDE DEF p, c, both, t, P
    <2> QED
      BY <2>1, <2>3, <2>4, <2>5
  <1>4. (\A i \in P : Total[i] = t[i]) /\ \A i \in Invoice \ P : t[i] = 0
    BY <1>1
  <1>5. SumOfTotals(P) = SumFunctionOnSet(Total, P)
    BY DEF SumOfTotals
  <1> HIDE DEF p, c, both, t, P
  <1>6. IntegersOn(p, Invoice) /\ IntegersOn(c, Invoice) /\ IntegersOn(t, Invoice)
    BY <1>1, <1>3 DEF IntegersOn
  <1>7. /\ IntegersOn(both, Invoice)
        /\ SumFunctionOnSet(both, Invoice) = SumFunctionOnSet(p, Invoice) + SumFunctionOnSet(c, Invoice)
    BY <1>3, <1>6, SumOfTwo
  <1>8. SumFunctionOnSet(t, Invoice) <= SumFunctionOnSet(both, Invoice)
    BY <1>3, <1>6, <1>7, SumMonotone
  <1>9. SumFunctionOnSet(Total, P) = SumFunctionOnSet(t, Invoice)
    BY <1>1, <1>4, <1>6, SumOnPart
  <1>10. /\ SumFunctionOnSet(p, Invoice) \in Nat /\ SumFunctionOnSet(c, Invoice) \in Nat
         /\ SumFunctionOnSet(t, Invoice) \in Nat
    BY <1>1, <1>3, SumNatural
  <1>11. SumOfTotals(P) <= SumFunction(p) + Credits
    BY <1>2, <1>5, <1>7, <1>8, <1>9, <1>10
  <1>12. SumOfAmounts(Older) <= SumFunctionOnSet(p, Invoice)
    <2> DEFINE g == GivenOf({"payment", "legacy"})
               o == OfKinds({"legacy"})
    <2>1. IntegersOn(g, Entry) /\ SumFunctionOnSet(p, Invoice) = SumFunctionOnSet(g, Entry)
      <3>1. SumFunction([i \in Invoice |-> SumOf(entry, {"payment", "legacy"}, i)])
              = SumFunction(p)
        BY DEF p, Paid
      <3> QED
        BY <1>2, <3>1, InvoicesOrRows
    <2>2. ASSUME NEW x \in Entry
          PROVE  o[x] <= g[x]
      <3> DEFINE row == entry[x]
                 w == [i \in Invoice |-> Worth(row, i)]
      <3>1. row \in Row /\ Shaped(row) /\ row.amount \in Nat
        BY RowFields DEF Typed, NoneNegative
      <3>2. /\ g[x] = IF row.kind \in {"payment", "legacy"} THEN Given(row) ELSE 0
            /\ o[x] = IF Counts(row) /\ row.kind = "legacy" THEN row.amount ELSE 0
        BY DEF GivenOf, OfKinds
      <3>3. row.invoice \in Invoice \cup {NoInvoice} /\ row.share \in [Invoice -> Nat]
        BY <3>1, RowFields
      <3>4. Given(row) = SumFunctionOnSet(w, Invoice)
        BY DEF Given
      <3>5. \A i \in Invoice : w[i] \in Nat
        BY <3>1, <3>3 DEF Worth
      <3> HIDE DEF w, row, g, o
      <3>6. Given(row) \in Nat
        BY <1>1, <3>4, <3>5, SumNatural
      <3>7. CASE Counts(row) /\ row.kind = "legacy"
        <4>1. row.share = NoShare /\ row.invoice \in Invoice
          BY <3>1, <3>3, <3>7 DEF Shaped, Exists, Counts
        <4>2. Given(row) = row.amount
          BY <3>1, <3>7, <4>1, GivenByNote
        <4> QED
          BY <3>1, <3>2, <3>7, <4>2
      <3>8. CASE ~(Counts(row) /\ row.kind = "legacy")
        BY <3>2, <3>6, <3>8
      <3> QED
        BY <3>7, <3>8
    <2>3. IntegersOn(o, Entry)
      BY OfKindsInteger
    <2>4. SumOfAmounts(Older) = SumFunctionOnSet(o, Entry)
      BY NewerAndOlder
    <2> HIDE DEF g, o
    <2>5. SumFunctionOnSet(o, Entry) <= SumFunctionOnSet(g, Entry)
      BY <2>1, <2>2, <2>3, SumMonotone
    <2> QED
      BY <2>1, <2>4, <2>5
  <1>13. SumOfAmounts(Older) \in Int
    BY NewerAndOlder, AmountsAdd
  <1>14. SumOfAmounts(Older) <= SumFunction(p) + Credits
    BY <1>2, <1>10, <1>12, <1>13
  <1> QED
    BY <1>11, <1>14 DEF TotalReceived, P, p

-----------------------------------------------------------------------------
(* Months, counted from the year 0. *)

MonthNumber(d) == 12 * d.year + d.month

LEMMA OrdinalByMonth ==
    ASSUME NEW d, d.year \in Int, d.month \in Int, d.day \in Int
    PROVE  Ordinal(d) = 31 * MonthNumber(d) + d.day /\ MonthNumber(d) \in Int /\ Ordinal(d) \in Int
  BY DEF Ordinal, MonthNumber

LEMMA MonthOf ==
    ASSUME NEW y \in Int, NEW m \in 1..12, NEW v \in Int, NEW k \in 1..12
    PROVE  12 * y + m = 12 * v + k <=> y = v /\ m = k
  OBVIOUS

LEMMA LengthOfMonth ==
    ASSUME NEW year, NEW month
    PROVE  MonthLength(year, month) \in 28..31
  BY DEF MonthLength

LEMMA MonthBefore ==
    ASSUME NEW d \in Date, NEW back \in Int, back < 0, back > -2
    PROVE  /\ YearAfter(d, back) \in Int /\ MonthAfter(d, back) \in 1..12
           /\ 12 * YearAfter(d, back) + MonthAfter(d, back) = MonthNumber(d) - 1
  <1> DEFINE n == d.month + back - 1
  <1>1. d.year \in Nat /\ d.month \in 1..12 /\ n \in Int /\ n = d.month - 2
    BY DEF Date
  <1>2. YearAfter(d, back) = d.year + (n \div 12) /\ MonthAfter(d, back) = (n % 12) + 1
    BY DEF YearAfter, MonthAfter
  <1> HIDE DEF n
  <1>3. CASE n < 0
    <2>1. n > -2
      BY <1>1
    <2>2. n % 12 = 11 /\ (n \div 12) + 1 = 0 /\ n \div 12 \in Int
      BY <1>1, <1>3, <2>1
    <2>3. n + 1 = 0
      BY <1>1, <1>3, <2>1
    <2>4. YearAfter(d, back) = d.year - 1 /\ MonthAfter(d, back) = 12 /\ d.month = 1
      BY <1>1, <1>2, <2>2, <2>3
    <2> QED
      BY <1>1, <2>4 DEF MonthNumber
  <1>4. CASE n >= 0
    <2>1. n % 12 = n /\ n \div 12 = 0
      BY <1>1, <1>4
    <2> QED
      BY <1>1, <1>2, <1>4, <2>1 DEF MonthNumber
  <1> QED
    BY <1>1, <1>3, <1>4

LEMMA NegatedZero == ASSUME NEW n \in Int, n >= 0, n <= 0 PROVE -n = 0
  OBVIOUS

(* A week before a date is a date before it, and no day before it is its   *)
(* own month.                                                              *)
LEMMA DaysBeforeIs ==
    ASSUME NEW d \in Date
    PROVE  /\ DaysBefore(d, 0).year = d.year /\ DaysBefore(d, 0).month = d.month
           /\ DaysBefore(d, 7).year \in Int /\ DaysBefore(d, 7).month \in Int
           /\ DaysBefore(d, 7).day \in Int
           /\ OnOrBefore(DaysBefore(d, 7), d)
  <1>1. d.year \in Nat /\ d.month \in 1..12 /\ d.day \in 1..31
    BY DEF Date
  <1>2. YearAfter(d, 0) = d.year /\ MonthAfter(d, 0) = d.month
    <2>1. (d.month + 0 - 1) \div 12 = 0 /\ (d.month + 0 - 1) % 12 = d.month - 1
      BY <1>1
    <2> QED
      BY <1>1, <2>1 DEF YearAfter, MonthAfter
  <1>3. /\ YearAfter(d, -1) \in Int /\ MonthAfter(d, -1) \in 1..12
        /\ 12 * YearAfter(d, -1) + MonthAfter(d, -1) = MonthNumber(d) - 1
    <2>1. -1 \in Int /\ -1 < 0 /\ -1 > -2
      OBVIOUS
    <2> QED
      BY <2>1, MonthBefore
  <1>4. DaysBefore(d, 0) = [year |-> YearAfter(d, 0), month |-> MonthAfter(d, 0),
                            day |-> DaysBefore(d, 0).day]
    <2> DEFINE days == [k \in 1..0 |-> MonthLength(YearAfter(d, -k), MonthAfter(d, -k))]
               day(m) == d.day - 0 + SumFunctionOnSet(days, 1..m)
               Lands(m) == day(m) > 0 /\ \A k \in 0..m - 1 : day(k) <= 0
               m == CHOOSE k \in 0..0 : Lands(k)
    <2>1. DaysBefore(d, 0) = [year |-> YearAfter(d, -m), month |-> MonthAfter(d, -m), day |-> day(m)]
      BY DEF DaysBefore
    <2>2. 1..0 = {} /\ SumFunctionOnSet(days, {}) = 0
      BY SumEmpty
    <2>3. day(0) > 0
      <3> HIDE DEF days
      <3> QED
        BY <1>1, <2>2
    <2>4. Lands(0)
      BY <2>3
    <2> HIDE DEF day
    <2>5. m \in 0..0
      <3> HIDE DEF Lands
      <3> QED
        BY <2>4
    <2> HIDE DEF m
    <2>6. m \in Int /\ m >= 0 /\ m <= 0
      BY <2>5
    <2>7. m = 0 /\ -m = 0
      BY <2>6, NegatedZero
    <2> QED
      BY <2>1, <2>7
  <1>5. /\ DaysBefore(d, 7).year \in Int /\ DaysBefore(d, 7).month \in Int
        /\ DaysBefore(d, 7).day \in Int
        /\ Ordinal(DaysBefore(d, 7)) <= Ordinal(d)
    <2> DEFINE days == [k \in 1..7 |-> MonthLength(YearAfter(d, -k), MonthAfter(d, -k))]
               day(m) == d.day - 7 + SumFunctionOnSet(days, 1..m)
               Lands(m) == day(m) > 0 /\ \A k \in 0..m - 1 : day(k) <= 0
               m == CHOOSE k \in 0..7 : Lands(k)
               w == DaysBefore(d, 7)
    <2>1. w = [year |-> YearAfter(d, -m), month |-> MonthAfter(d, -m), day |-> day(m)]
      BY DEF DaysBefore
    <2>2. \A k \in 1..7 : days[k] \in 28..31
      BY LengthOfMonth
    <2> HIDE DEF days
    <2>3. day(0) = d.day - 7
      <3>1. 1..0 = {} /\ SumFunctionOnSet(days, {}) = 0
        BY SumEmpty
      <3> QED
        BY <1>1, <3>1
    <2>4. day(1) = d.day - 7 + days[1]
      <3>1. 1..1 = {1} /\ {1} \ {1} = {}
        OBVIOUS
      <3>4. SumFunctionOnSet(days, {}) = 0
        BY SumEmpty
      <3>5. days[1] \in Int
        <4>1. days[1] \in 28..31
          BY <2>2
        <4> QED
          BY <4>1
      <3>2. IntegersOn(days, {1})
        BY <3>5, FS_Singleton DEF IntegersOn
      <3>3. SumFunctionOnSet(days, {1}) = days[1] + SumFunctionOnSet(days, {1} \ {1})
        BY <3>2, SumOneMore
      <3> QED
        <4>1. SumFunctionOnSet(days, 1..1) = days[1] + 0
          BY <3>1, <3>3, <3>4, Zenon
        <4> DEFINE sum == SumFunctionOnSet(days, 1..1)
        <4>2. day(1) = d.day - 7 + sum
          OBVIOUS
        <4> HIDE DEF sum, day
        <4>3. sum = days[1]
          BY <3>5, <4>1 DEF sum
        <4> QED
          BY <4>2, <4>3
    <2> HIDE DEF day
    <2>5. CASE d.day > 7
      <3>1. Lands(0)
        BY <1>1, <2>3, <2>5
      <3>2. \A k \in 0..7 : Lands(k) => k = 0
        <4> SUFFICES ASSUME NEW k \in 0..7, Lands(k), k # 0 PROVE FALSE
          OBVIOUS
        <4>1. 0 \in 0..k - 1
          OBVIOUS
        <4> QED
          BY <1>1, <2>3, <2>5, <4>1
      <3>3. m = 0
        <4> HIDE DEF Lands
        <4> QED
          BY <3>1, <3>2
      <3> HIDE DEF m
      <3>4. m \in Int /\ m >= 0 /\ m <= 0
        BY <3>3
      <3>5. -m = 0
        BY <3>4, NegatedZero
      <3>6. w.year = d.year /\ w.month = d.month /\ w.day = d.day - 7
        BY <1>2, <2>1, <2>3, <3>3, <3>5
      <3> HIDE DEF w
      <3>7. Ordinal(w) <= Ordinal(d)
        BY <1>1, <3>6 DEF Ordinal
      <3> QED
        BY <1>1, <3>6, <3>7 DEF w
    <2>6. CASE d.day <= 7
      <3>1. day(0) <= 0 /\ day(1) > 0 /\ day(1) <= 31 /\ day(1) \in Int
        <4>1. days[1] \in 28..31
          BY <2>2
        <4> QED
          BY <1>1, <2>3, <2>4, <2>6, <4>1
      <3>2. Lands(1)
        <4>1. \A k \in 0..1 - 1 : k = 0
          OBVIOUS
        <4> QED
          BY <3>1, <4>1
      <3>3. \A k \in 0..7 : Lands(k) => k = 1
        <4> SUFFICES ASSUME NEW k \in 0..7, Lands(k), k # 1 PROVE FALSE
          OBVIOUS
        <4>1. day(k) > 0 /\ \A l \in 0..k - 1 : day(l) <= 0
          OBVIOUS
        <4> HIDE DEF Lands
        <4>2. CASE k = 0
          <5>1. day(0) > 0 /\ day(0) <= 0 /\ day(0) \in Int
            BY <1>1, <2>3, <3>1, <4>1, <4>2
          <5> QED
            BY <5>1
        <4>3. CASE k > 1
          <5>1. 1 \in 0..k - 1
            BY <4>3
          <5> QED
            BY <3>1, <4>1, <5>1
        <4> QED
          BY <4>2, <4>3
      <3>4. m = 1
        <4> HIDE DEF Lands
        <4> QED
          BY <3>2, <3>3
      <3> HIDE DEF m
      <3>5. w.year = YearAfter(d, -1) /\ w.month = MonthAfter(d, -1) /\ w.day = day(1)
        BY <2>1, <3>4
      <3>6. w.year \in Int /\ w.month \in 1..12 /\ w.day \in Int /\ w.day <= 31
            /\ MonthNumber(w) = MonthNumber(d) - 1
        BY <1>3, <3>1, <3>5 DEF MonthNumber
      <3> HIDE DEF w
      <3>7. w.day \in Int /\ w.day <= 31 /\ Ordinal(w) = 31 * (MonthNumber(d) - 1) + w.day
        BY <3>6, OrdinalByMonth
      <3>8. Ordinal(d) = 31 * MonthNumber(d) + d.day /\ MonthNumber(d) \in Int
        BY <1>1, OrdinalByMonth
      <3>9. Ordinal(w) <= Ordinal(d)
        BY <1>1, <3>7, <3>8
      <3> QED
        BY <3>6, <3>9 DEF w
    <2> QED
      BY <1>1, <2>5, <2>6
  <1> QED
    BY <1>2, <1>4, <1>5 DEF OnOrBefore

(* The date of a payment. *)
LEMMA DateOfPayment ==
    ASSUME Typed, NEW x \in Newer
    PROVE  DateOfRow(x) \in Date /\ DateOfRow(x).year \in Nat /\ DateOfRow(x).month \in 1..12
           /\ DateOfRow(x).day \in 1..31
  <1>1. entry[x].kind \in Kind
    BY RowFields DEF Newer, Typed
  <1> QED
    BY <1>1, DaysAssumption, DashboardsAssumption DEF DateOfRow, Date

LEMMA ReportDateIs ==
    ASSUME NEW today \in ReportDate
    PROVE  today \in Date /\ today.year \in Nat /\ today.month \in 1..12 /\ today.day \in 1..31
  BY DashboardsAssumption DEF Date

LEMMA TrendMonthIs ==
    ASSUME NEW today \in ReportDate, NEW i \in 0..5
    PROVE  /\ TrendMonth[today][i].year \in Int /\ TrendMonth[today][i].month \in 1..12
           /\ MonthNumber(TrendMonth[today][i]) = MonthNumber(today) - i
  <1>1. TrendMonth[today][i] =
            IF today.month > i THEN [year |-> today.year, month |-> today.month - i]
            ELSE [year |-> today.year - 1, month |-> today.month - i + 12]
    BY DEF TrendMonth
  <1>2. CASE today.month > i
    <2>1. TrendMonth[today][i].year = today.year /\ TrendMonth[today][i].month = today.month - i
      BY <1>1, <1>2
    <2> QED
      BY <1>2, <2>1, ReportDateIs DEF MonthNumber
  <1>3. CASE ~(today.month > i)
    <2>1. /\ TrendMonth[today][i].year = today.year - 1
          /\ TrendMonth[today][i].month = today.month - i + 12
      BY <1>1, <1>3
    <2> QED
      BY <1>3, <2>1, ReportDateIs DEF MonthNumber
  <1> QED
    BY <1>2, <1>3

(* The payments of the six months. *)
SixMonths(today) ==
    {x \in Revenue : /\ MonthNumber(today) - MonthNumber(DateOfRow(x)) \in 0..5}

(* The trend of revenue shows each payment of its six months once: months  *)
(* do not overlap.                                                         *)
LEMMA TrendAddsUp ==
    ASSUME Typed, \A x \in Entry : Shaped(entry[x]), NEW today \in ReportDate
    PROVE  SumFunction(RevenueTrend(today)) = SumOfAmounts(SixMonths(today))
  <1> DEFINE S == SixMonths(today)
             ago == [x \in S |-> MonthNumber(today) - MonthNumber(DateOfRow(x))]
             group == [i \in 0..5 |-> InMonth(Revenue, TrendMonth[today][i])]
             h == RevenueTrend(today)
  <1>1. S \in SUBSET Entry /\ \A x \in S : x \in Newer
    BY NewerAndOlder DEF SixMonths, Revenue
  <1>2. IntegersOn(Amt, S) /\ SumOfAmounts(S) = SumFunctionOnSet(Amt, S)
    BY <1>1, AmountsAdd, IntegersOnPart
  <1>3. \A x \in S : ago[x] \in 0..5
    BY DEF SixMonths
  <1>4. ASSUME NEW i \in 0..5, NEW x
        PROVE  x \in group[i] <=> x \in S /\ ago[x] = i
    <2> DEFINE m == TrendMonth[today][i]
    <2>1. m.year \in Int /\ m.month \in 1..12 /\ MonthNumber(m) = MonthNumber(today) - i
          /\ MonthNumber(today) \in Int
      BY TrendMonthIs, ReportDateIs DEF MonthNumber
    <2>2. x \in group[i] <=> x \in Revenue /\ DateOfRow(x).year = m.year /\ DateOfRow(x).month = m.month
      BY DEF InMonth
    <2> HIDE DEF m
    <2>3. ASSUME x \in Revenue
          PROVE  /\ DateOfRow(x).year = m.year /\ DateOfRow(x).month = m.month
                    <=> MonthNumber(DateOfRow(x)) = MonthNumber(m)
                 /\ MonthNumber(DateOfRow(x)) \in Int
      <3>1. x \in Newer
        BY <2>3 DEF Revenue
      <3> QED
        BY <2>1, <3>1, DateOfPayment, MonthOf DEF MonthNumber
    <2>4. x \in Revenue =>
            (MonthNumber(DateOfRow(x)) = MonthNumber(m)
                <=> MonthNumber(today) - MonthNumber(DateOfRow(x)) = i)
      BY <2>1, <2>3
    <2>5. x \in S <=> x \in Revenue /\ MonthNumber(today) - MonthNumber(DateOfRow(x)) \in 0..5
      BY DEF SixMonths
    <2>6. x \in S => ago[x] = MonthNumber(today) - MonthNumber(DateOfRow(x))
      OBVIOUS
    <2> HIDE DEF S, ago, group
    <2> QED
      BY <2>2, <2>3, <2>4, <2>5, <2>6
  <1>5. ASSUME NEW i \in 0..5
        PROVE  h[i] = SumFunctionOnSet(Amt, group[i])
    BY AmountsAdd DEF RevenueTrend
  <1>6. SumFunction(h) = SumFunctionOnSet(h, 0..5)
    <2>1. DOMAIN h = 0..5
      BY DEF RevenueTrend
    <2> HIDE DEF h
    <2> QED
      BY <2>1 DEF SumFunction
  <1>7. IsFiniteSet(0..5)
    <2>1. 0 \in Int /\ 5 \in Int
      OBVIOUS
    <2> QED
      BY <2>1, FS_Interval
  <1> HIDE DEF S, ago, group, h
  <1>8. SumFunctionOnSet(h, 0..5) = SumFunctionOnSet(Amt, S)
    BY <1>2, <1>3, <1>4, <1>5, <1>7, SumOfGroups
  <1> QED
    BY <1>2, <1>6, <1>8 DEF S, h

(* What the dashboard of the API shows, and what of it was refunded. *)
LEMMA RevenuePart ==
    ASSUME Typed, \A x \in Entry : Shaped(entry[x]), NEW All, NEW Kept, NEW Back,
           All \subseteq Revenue, Kept = All \cap Collected, Back = All \cap Refunded
    PROVE  /\ SumOfAmounts(All) = SumOfAmounts(Kept) + SumOfAmounts(Back)
           /\ SumOfAmounts(Kept) \in Int /\ SumOfAmounts(Back) \in Int
  <1>1. All \in SUBSET Entry /\ Kept \in SUBSET Entry /\ Back = All \ Kept /\ Kept \subseteq All
        /\ Back \in SUBSET Entry
    BY NewerAndOlder
  <1>2. SumOfAmounts(All) = SumOfAmounts(Kept) + SumOfAmounts(All \ Kept)
    BY <1>1, AmountsAdd
  <1>3. SumOfAmounts(Kept) \in Int /\ SumOfAmounts(Back) \in Int
    BY <1>1, AmountsAdd
  <1> QED
    BY <1>1, <1>2, <1>3

(* The figures of the payment dashboards, on any day. *)
LEMMA TrendsIs ==
    ASSUME Typed, \A x \in Entry : Shaped(entry[x]), NEW today \in ReportDate
    PROVE  TrendsExplained(today)
  <1> DEFINE first == [year |-> TrendMonth[today][5].year, month |-> TrendMonth[today][5].month,
                       day |-> 1]
             before == {x \in Revenue : OnOrBefore(DateOfRow(x), today)} \cup InMonth(Revenue, today)
  <1>1. /\ Newer \in SUBSET Entry /\ Revenue \in SUBSET Entry /\ Collected \in SUBSET Revenue
        /\ Refunded \in SUBSET Revenue /\ \A x \in Revenue : x \in Newer
    BY NewerAndOlder DEF Revenue
  <1>2. \A x \in Revenue : /\ DateOfRow(x).year \in Nat /\ DateOfRow(x).month \in 1..12
                           /\ DateOfRow(x).day \in 1..31
    BY <1>1, DateOfPayment
  <1>3. today \in Date /\ today.year \in Nat /\ today.month \in 1..12 /\ today.day \in 1..31
    BY ReportDateIs
  <1>4. From(before, first) = SixMonths(today)
    <2>1. first.year \in Int /\ first.month \in 1..12 /\ first.day = 1
          /\ MonthNumber(first) = MonthNumber(today) - 5
      BY TrendMonthIs DEF MonthNumber
    <2> HIDE DEF first
    <2>2. ASSUME NEW x \in Revenue
          PROVE  /\ OnOrBefore(DateOfRow(x), today) \/ (DateOfRow(x).year = today.year
                            /\ DateOfRow(x).month = today.month)
                    <=> MonthNumber(DateOfRow(x)) <= MonthNumber(today)
                 /\ OnOrBefore(first, DateOfRow(x)) <=> MonthNumber(first) <= MonthNumber(DateOfRow(x))
                 /\ MonthNumber(DateOfRow(x)) \in Int /\ MonthNumber(today) \in Int
      <3> DEFINE d == DateOfRow(x)
      <3>1. d.year \in Nat /\ d.month \in 1..12 /\ d.day \in 1..31
        BY <1>2
      <3> HIDE DEF d
      <3>2. /\ Ordinal(d) = 31 * MonthNumber(d) + d.day /\ MonthNumber(d) \in Int
            /\ Ordinal(today) = 31 * MonthNumber(today) + today.day /\ MonthNumber(today) \in Int
            /\ Ordinal(first) = 31 * MonthNumber(first) + 1 /\ MonthNumber(first) \in Int
        BY <1>3, <2>1, <3>1, OrdinalByMonth
      <3>3. MonthNumber(d) = MonthNumber(today) <=> d.year = today.year /\ d.month = today.month
        BY <1>3, <3>1, MonthOf DEF MonthNumber
      <3>4. Ordinal(d) <= Ordinal(today) => MonthNumber(d) <= MonthNumber(today)
        BY <1>3, <3>1, <3>2
      <3>5. MonthNumber(d) < MonthNumber(today) => Ordinal(d) <= Ordinal(today)
        BY <1>3, <3>1, <3>2
      <3>6. Ordinal(first) <= Ordinal(d) <=> MonthNumber(first) <= MonthNumber(d)
        BY <3>1, <3>2
      <3> QED
        BY <3>2, <3>3, <3>4, <3>5, <3>6 DEF OnOrBefore, d
    <2>3. \A x : x \in From(before, first) <=>
                    /\ x \in Revenue
                    /\ OnOrBefore(DateOfRow(x), today) \/ (DateOfRow(x).year = today.year
                            /\ DateOfRow(x).month = today.month)
                    /\ OnOrBefore(first, DateOfRow(x))
      BY DEF From, InMonth
    <2>4. ASSUME NEW x \in Revenue
          PROVE  MonthNumber(DateOfRow(x)) <= MonthNumber(today)
                    /\ MonthNumber(first) <= MonthNumber(DateOfRow(x))
                 <=> MonthNumber(today) - MonthNumber(DateOfRow(x)) \in 0..5
      BY <2>1, <2>2
    <2>5. \A x : x \in SixMonths(today) <=>
                    x \in Revenue /\ MonthNumber(today) - MonthNumber(DateOfRow(x)) \in 0..5
      BY DEF SixMonths
    <2> HIDE DEF before
    <2> QED
      BY <2>2, <2>3, <2>4, <2>5
  <1>5. SumFunction(RevenueTrend(today)) = SumOfAmounts(From(before, first))
    BY <1>4, TrendAddsUp
  <1>6. ASSUME NEW i \in 0..5, NEW j \in 0..5, CenterMonth[today][i] = TrendMonth[today][j]
        PROVE  CenterTrend(today)[i] = RevenueTrend(today)[j]
                  - SumOfAmounts(InMonth(Refunded, TrendMonth[today][j]))
    <2> DEFINE m == TrendMonth[today][j]
    <2>1. /\ CenterTrend(today)[i] = SumOfAmounts(InMonth(Collected, m))
          /\ RevenueTrend(today)[j] = SumOfAmounts(InMonth(Revenue, m))
      BY <1>6 DEF CenterTrend, RevenueTrend
    <2>2. /\ InMonth(Revenue, m) \subseteq Revenue
          /\ InMonth(Collected, m) = InMonth(Revenue, m) \cap Collected
          /\ InMonth(Refunded, m) = InMonth(Revenue, m) \cap Refunded
      BY <1>1 DEF InMonth
    <2> HIDE DEF m
    <2>3. /\ SumOfAmounts(InMonth(Revenue, m))
                = SumOfAmounts(InMonth(Collected, m)) + SumOfAmounts(InMonth(Refunded, m))
          /\ SumOfAmounts(InMonth(Collected, m)) \in Int /\ SumOfAmounts(InMonth(Refunded, m)) \in Int
      BY <2>2, RevenuePart
    <2>4. CenterTrend(today)[i] = RevenueTrend(today)[j] - SumOfAmounts(InMonth(Refunded, m))
      BY <2>1, <2>3
    <2> QED
      BY <2>4 DEF m
  <1>7. CenterTrend(today)[0] = CenterStats(today).month
    <2> DEFINE f == FirstOfMonth(today)
    <2>1. f \in Date /\ f.year = today.year /\ f.month = today.month
      BY <1>3 DEF FirstOfMonth, Date
    <2> HIDE DEF f
    <2>2. DaysBefore(f, 0).year = today.year /\ DaysBefore(f, 0).month = today.month
      BY <2>1, DaysBeforeIs
    <2>3. CenterMonth[today][0] = [year |-> DaysBefore(f, 30 * 0).year,
                                   month |-> DaysBefore(f, 30 * 0).month]
      BY DEF CenterMonth, f
    <2>4. 30 * 0 = 0
      OBVIOUS
    <2>5. CenterMonth[today][0].year = today.year /\ CenterMonth[today][0].month = today.month
      BY <2>2, <2>3, <2>4
    <2>6. InMonth(Collected, CenterMonth[today][0]) = InMonth(Collected, today)
      BY <2>5 DEF InMonth
    <2> QED
      BY <2>6 DEF CenterTrend, CenterStats
  <1>8. CenterStats(today).today = Summary(today).today - SumOfAmounts(DatedOn(Refunded, today))
    <2> DEFINE all == DatedOn(Revenue, today)
               kept == DatedOn(Collected, today)
               back == DatedOn(Refunded, today)
    <2>1. all \subseteq Revenue /\ kept = all \cap Collected /\ back = all \cap Refunded
      BY <1>1 DEF DatedOn
    <2>2. CenterStats(today).today = SumOfAmounts(kept) /\ Summary(today).today = SumOfAmounts(all)
      BY DEF CenterStats, Summary
    <2> HIDE DEF all, kept, back
    <2>5. Typed /\ \A x \in Entry : Shaped(entry[x])
      OBVIOUS
    <2>3. /\ SumOfAmounts(all) = SumOfAmounts(kept) + SumOfAmounts(back)
          /\ SumOfAmounts(kept) \in Int /\ SumOfAmounts(back) \in Int
      <3>1. ASSUME NEW U, U \subseteq Revenue
            PROVE  /\ SumOfAmounts(U) = SumOfAmounts(U \cap Collected) + SumOfAmounts(U \cap Refunded)
                   /\ SumOfAmounts(U \cap Collected) \in Int /\ SumOfAmounts(U \cap Refunded) \in Int
        BY <2>5, <3>1, RevenuePart
      <3>2. /\ SumOfAmounts(all) = SumOfAmounts(all \cap Collected) + SumOfAmounts(all \cap Refunded)
            /\ SumOfAmounts(all \cap Collected) \in Int /\ SumOfAmounts(all \cap Refunded) \in Int
        BY <2>1, <3>1
      <3> QED
        BY <2>1, <3>2
    <2>4. CenterStats(today).today = Summary(today).today - SumOfAmounts(back)
      BY <2>2, <2>3
    <2> QED
      BY <2>4 DEF back
  <1>9. Summary(today).month =
            PaymentsDashboard(today).month + SumOfAmounts(From(Refunded, FirstOfMonth(today)))
    <2> DEFINE f == FirstOfMonth(today)
    <2>1. /\ From(Revenue, f) \subseteq Revenue
          /\ From(Collected, f) = From(Revenue, f) \cap Collected
          /\ From(Refunded, f) = From(Revenue, f) \cap Refunded
      BY <1>1 DEF From
    <2>2. SumOfAmounts(From(Revenue, f)) = SumOfAmounts(From(Collected, f)) + SumOfAmounts(From(Refunded, f))
      BY <2>1, RevenuePart
    <2>3. Summary(today).month = SumOfAmounts(From(Revenue, f))
          /\ PaymentsDashboard(today).month = SumOfAmounts(From(Collected, f))
      BY DEF Summary, PaymentsDashboard
    <2> QED
      BY <2>2, <2>3
  <1>10. PaymentsDashboard(today).today = CenterStats(today).today
    BY DEF PaymentsDashboard, CenterStats
  <1>11. ASSUME NoneNegative
         PROVE  /\ CenterStats(today).today <= PaymentsDashboard(today).week
                /\ CenterStats(today).month <= PaymentsDashboard(today).month
                /\ PaymentsDashboard(today).month <= PaymentsDashboard(today).year
    <2> DEFINE f == FirstOfMonth(today)
               y == FirstOfYear(today)
    <2>1. /\ f.year = today.year /\ f.month = today.month /\ f.day = 1
          /\ y.year = today.year /\ y.month = 1 /\ y.day = 1
      BY <1>3 DEF FirstOfMonth, FirstOfYear, Date
    <2> HIDE DEF f, y
    <2>2. DatedOn(Collected, today) \in SUBSET From(Collected, WeekAgo[today])
      <3>1. OnOrBefore(WeekAgo[today], today)
        BY <1>3, DaysBeforeIs DEF WeekAgo
      <3> QED
        BY <3>1 DEF DatedOn, From
    <2>3. InMonth(Collected, today) \in SUBSET From(Collected, f)
      <3>1. ASSUME NEW x \in Collected, DateOfRow(x).year = today.year,
                   DateOfRow(x).month = today.month
            PROVE  OnOrBefore(f, DateOfRow(x))
        <4>1. DateOfRow(x).day \in 1..31
          BY <1>1, <1>2
        <4> QED
          BY <1>3, <2>1, <3>1, <4>1 DEF OnOrBefore, Ordinal
      <3> QED
        BY <3>1 DEF InMonth, From
    <2>4. From(Collected, f) \in SUBSET From(Collected, y)
      <3>1. ASSUME NEW x \in Collected, OnOrBefore(f, DateOfRow(x))
            PROVE  OnOrBefore(y, DateOfRow(x))
        <4>1. Ordinal(DateOfRow(x)) \in Int
          <5>1. /\ DateOfRow(x).year \in Nat /\ DateOfRow(x).month \in 1..12
                /\ DateOfRow(x).day \in 1..31
            BY <1>1, <1>2
          <5> QED
            BY <5>1 DEF Ordinal
        <4>2. Ordinal(y) <= Ordinal(f) /\ Ordinal(y) \in Int /\ Ordinal(f) \in Int
          BY <1>3, <2>1 DEF Ordinal
        <4> QED
          BY <3>1, <4>1, <4>2 DEF OnOrBefore
      <3> QED
        BY <3>1 DEF From
    <2>5. /\ From(Collected, WeekAgo[today]) \in SUBSET Entry /\ From(Collected, f) \in SUBSET Entry
          /\ From(Collected, y) \in SUBSET Entry
      BY <1>1 DEF From
    <2>6. /\ SumOfAmounts(DatedOn(Collected, today)) <= SumOfAmounts(From(Collected, WeekAgo[today]))
          /\ SumOfAmounts(InMonth(Collected, today)) <= SumOfAmounts(From(Collected, f))
          /\ SumOfAmounts(From(Collected, f)) <= SumOfAmounts(From(Collected, y))
      BY <1>11, <2>2, <2>3, <2>4, <2>5, AmountsOfPart
    <2> QED
      BY <2>6 DEF CenterStats, PaymentsDashboard, f, y
  <1> QED
    BY <1>5, <1>6, <1>7, <1>8, <1>9, <1>10, <1>11 DEF TrendsExplained

(* The parts of DashboardsAgree together. *)
LEMMA DashboardsStep ==
    ASSUME Base, StatusInv, KindsInv
    PROVE  DashboardsAgree
  <1>1. Typed /\ StatusFits /\ \A x \in Entry : Shaped(entry[x])
    BY DEF Base, StatusInv, KindsInv, InTable
  <1> QED
    BY <1>1, AgingIs, OutstandingIs, ReceivedIs, TrendsIs DEF DashboardsAgree

(* DashboardsAgree: with what each of them leaves out, the dashboards of   *)
(* payments, invoices and the organization agree, for any rows and         *)
(* invoices and on any day.                                                *)
THEOREM DashboardsAgreeTheorem == PaymentsSpec => []DashboardsAgree
  <1>1. Base /\ StatusInv /\ [PaymentsNext]_paymentsVars => StatusInv'
    BY NextStatus
  <1>2. Base /\ StatusInv /\ KindsInv => DashboardsAgree
    BY DashboardsStep
  <1> QED
    BY BaseAlways, InitStatus, KindsAlways, <1>1, <1>2, PTL DEF PaymentsSpec
=============================================================================
