----------------------- MODULE PurchaseReceipts_proofs ----------------------
(***************************************************************************)
(* Proofs about PurchaseReceipts, for any orders, receipts and requests.   *)
(* What a posting does to the shelf is a fold over calls, which these      *)
(* proofs leave closed.                                                    *)
(***************************************************************************)
EXTENDS PurchaseReceipts, TLAPS

-----------------------------------------------------------------------------
(* Types, and what belongs together whoever else is at work. *)
OrdersInv == OrdersTypeOK /\ CopiesBelong

LEMMA LinesShape ==
    ASSUME NEW lines \in Lines
    PROVE  /\ DOMAIN lines \subseteq Position
           /\ \A n \in DOMAIN lines : lines[n] \in Line /\ lines[n][2] \in Nat \ {0}
  <1>1. PICK m \in 0..MaxLines : lines \in [1..m -> Line]
    BY DEF Lines, BoundedSeq, SeqOf
  <1> QED
    BY <1>1, LinesAssumption DEF Position

LEMMA NoLines == <<>> \in Lines /\ DOMAIN <<>> = {}
  <1>1. <<>> \in [1..0 -> Line] /\ DOMAIN <<>> = {}
    OBVIOUS
  <1>2. 0 \in 0..MaxLines
    BY LinesAssumption
  <1> QED
    BY <1>1, <1>2 DEF Lines, BoundedSeq, SeqOf

(* What a request works on is a copy of an order or of a receipt. *)
LEMMA Copies ==
    ASSUME OrdersInv, NEW r \in Request, request[r] # Idle
    PROVE  /\ OrderOf(r) \in Order
           /\ status[OrderOf(r)] # "unborn"
           /\ Works(r, "order") \/ Works(r, "receipt")
           /\ ~(Works(r, "order") /\ Works(r, "receipt"))
           /\ Works(r, "order") => request[r] \in OrderCopy
           /\ Works(r, "receipt") =>
                 /\ request[r] \in ReceiptCopy
                 /\ request[r].receipt \in Receipt
                 /\ grn[request[r].receipt] # "unborn"
                 /\ head[request[r].receipt].order = OrderOf(r)
                 /\ Note(r).lines \in Lines
                 /\ request[r].phase = "read" => request[r].next \in DOMAIN Note(r).lines
  BY DEF OrdersInv, OrdersTypeOK, CopiesBelong, OrderCopy, ReceiptCopy, Works, OrderOf,
         Note, Row

(* The other requests keep their copies. *)
LEMMA Others ==
    ASSUME OrdersInv, NEW r \in Request, NEW copy, Becomes(r, copy)
    PROVE  /\ request'[r] = copy
           /\ \A s \in Request : s # r => request'[s] = request[s]
  BY DEF OrdersInv, OrdersTypeOK, Becomes

(* A request that ends leaves nothing behind. *)
LEMMA Ended ==
    ASSUME OrdersInv, NEW r \in Request, Done(r)
    PROVE  /\ request' \in [Request -> OrderCopy \cup ReceiptCopy \cup {Idle}]
           /\ \A s \in Request : request'[s] # Idle =>
                 /\ s # r /\ request[s] # Idle /\ request'[s] = request[s]
  BY DEF OrdersInv, OrdersTypeOK, Done, Becomes

LEMMA InitOrdersInv == Init => OrdersInv
  <1>1. None \in Amounts
    BY DEF None, Amounts
  <1>2. NewReceipts \subseteq Row
    BY NewAssumption
  <1> QED
    BY <1>1, <1>2, NoLines
       DEF Init, OrdersInv, OrdersTypeOK, CopiesBelong, Absent, Works

-----------------------------------------------------------------------------
(* The steps, by what they change. *)

(* How a request that is alone with its order changes the order's status. *)
MayBecome(old, new) ==
    \/ new = old
    \/ old = "DRAFT" /\ new = "SUBMITTED"
    \/ old \in {"DRAFT", "SUBMITTED"} /\ new = "APPROVED"
    \/ old \notin {"RECEIVED", "CLOSED"} /\ new = "CANCELLED"
    \/ old # "CANCELLED" /\ new = "CLOSED"

SavesOrder(r, new) ==
    /\ Works(r, "order")
    /\ Done(r)
    /\ MayBecome(request[r].status, new)
    /\ status' = [status EXCEPT ![OrderOf(r)] = new]
    /\ UNCHANGED <<ordered, received, grn, head, arrived, contended>>

LEMMA OrderSteps ==
    ASSUME OrdersInv, NEW r \in Request, HandleOrder(r)
    PROVE  (\E new \in OrderStatus : SavesOrder(r, new)) \/ DestroyOrder(r)
  <1>1. ASSUME PatchOrder(r)
        PROVE  SavesOrder(r, request[r].status) /\ request[r].status \in OrderStatus
    <2>1. request[r] # Idle
      BY <1>1 DEF PatchOrder, Works
    <2> QED
      BY <1>1, <2>1, Copies DEF PatchOrder, SavesOrder, MayBecome, OrderCopy, receipt
  <1>2. ASSUME Submit(r)
        PROVE  SavesOrder(r, "SUBMITTED")
    BY <1>2 DEF Submit, SaveOrder, SavesOrder, MayBecome, receipt
  <1>3. ASSUME Approve(r)
        PROVE  SavesOrder(r, "APPROVED")
    BY <1>3 DEF Approve, SaveOrder, SavesOrder, MayBecome, receipt
  <1>4. ASSUME Cancel(r)
        PROVE  SavesOrder(r, "CANCELLED")
    BY <1>4 DEF Cancel, SaveOrder, SavesOrder, MayBecome, receipt
  <1>5. ASSUME Close(r)
        PROVE  SavesOrder(r, "CLOSED")
    BY <1>5 DEF Close, SaveOrder, SavesOrder, MayBecome, receipt
  <1>6. {"SUBMITTED", "APPROVED", "CANCELLED", "CLOSED"} \subseteq OrderStatus
    BY DEF OrderStatus
  <1> QED
    BY <1>1, <1>2, <1>3, <1>4, <1>5, <1>6 DEF HandleOrder

(* A step of a completion before its commit changes its own copy only, and *)
(* of that not the rows it was loaded from.                                *)
Counts(r, copy) ==
    /\ Works(r, "receipt") /\ Becomes(r, copy)
    /\ copy \in ReceiptCopy /\ copy.phase # "loaded"
    /\ copy.receipt = request[r].receipt /\ copy.order = request[r].order
    /\ copy.status = request[r].status /\ copy.row = request[r].row
    /\ copy.phase = "read" => copy.next \in DOMAIN copy.row.lines
    /\ UNCHANGED <<status, ordered, received, grn, head, arrived, contended>>

LEMMA CountSteps ==
    ASSUME OrdersInv, NEW r \in Request,
           Check(r) \/ Read(r) \/ PassOver(r) \/ Write(r) \/ Settle(r)
    PROVE  \E copy : Counts(r, copy)
  <1>0. /\ Works(r, "receipt") /\ request[r] # Idle
        /\ UNCHANGED <<status, ordered, received, grn, head, arrived, contended>>
    BY DEF Check, Read, PassOver, Write, Settle, At, Works, order, receipt
  <1>1. request[r] \in ReceiptCopy /\ OrderOf(r) \in Order /\ Note(r).lines \in Lines
    BY <1>0, Copies
  <1>2. /\ request[r].seen \in Amounts /\ request[r].taken \in Amounts
        /\ request[r].next \in 1..(MaxLines + 1)
        /\ request[r].locked \subseteq Position
        /\ received[OrderOf(r)] \in Amounts
        /\ ordered[OrderOf(r)] \in Lines
    BY <1>1 DEF ReceiptCopy, OrdersInv, OrdersTypeOK
  <1>3. Written(r) \in Amounts
    BY <1>2 DEF Written, Amounts
  <1>4. DOMAIN LinesOf(r) \subseteq Position
    BY <1>2, LinesShape DEF LinesOf
  <1>5. request[r].next \in DOMAIN Note(r).lines =>
           /\ request[r].next + 1 \in 1..(MaxLines + 1)
           /\ Item(r)[2] \in Nat
    BY <1>1, <1>2, LinesShape, LinesAssumption DEF Item, Position
  <1>6. CASE Check(r)
    <2>1. Becomes(r, [request[r] EXCEPT !.phase = "counting"])
      BY <1>6 DEF Check
    <2>2. Counts(r, [request[r] EXCEPT !.phase = "counting"])
      BY <1>0, <1>1, <2>1 DEF Counts, ReceiptCopy
    <2> QED
      BY <2>2
  <1>7. CASE Read(r)
    <2>1. PICK n \in DOMAIN LinesOf(r) :
             Becomes(r, [request[r] EXCEPT !.phase = "read", !.seen[n] = Written(r)[n]])
      BY <1>7 DEF Read
    <2>0. request[r].next \in DOMAIN request[r].row.lines
      BY <1>7 DEF Read, Note
    <2>2. [request[r].seen EXCEPT ![n] = Written(r)[n]] \in Amounts
      BY <1>2, <1>3, <1>4 DEF Amounts
    <2>3. Counts(r, [request[r] EXCEPT !.phase = "read", !.seen[n] = Written(r)[n]])
      BY <1>0, <1>1, <2>0, <2>1, <2>2 DEF Counts, ReceiptCopy
    <2> QED
      BY <2>3
  <1>8. CASE PassOver(r)
    <2>1. /\ Becomes(r, [request[r] EXCEPT !.next = @ + 1])
          /\ request[r].next + 1 \in 1..(MaxLines + 1)
          /\ request[r].phase = "counting"
      BY <1>8, <1>5 DEF PassOver, At
    <2>2. Counts(r, [request[r] EXCEPT !.next = @ + 1])
      BY <1>0, <1>1, <2>1 DEF Counts, ReceiptCopy
    <2> QED
      BY <2>2
  <1>9. CASE Write(r)
    <2>1. PICK n \in DOMAIN LinesOf(r) :
             Becomes(r, [request[r] EXCEPT
                !.phase = "counting", !.next = @ + 1, !.locked = @ \cup {n},
                !.seen[n] = @ + Item(r)[2], !.taken[n] = @ + Item(r)[2]])
      BY <1>9 DEF Write
    <2>2. request[r].next + 1 \in 1..(MaxLines + 1) /\ Item(r)[2] \in Nat
      BY <1>9, <1>0, <1>5, Copies DEF Write, At
    <2>3. n \in Position
      BY <1>4
    <2>4. /\ [request[r].seen EXCEPT ![n] = @ + Item(r)[2]] \in Amounts
          /\ [request[r].taken EXCEPT ![n] = @ + Item(r)[2]] \in Amounts
      BY <1>2, <2>2, <2>3 DEF Amounts
    <2>5. Counts(r, [request[r] EXCEPT
                !.phase = "counting", !.next = @ + 1, !.locked = @ \cup {n},
                !.seen[n] = @ + Item(r)[2], !.taken[n] = @ + Item(r)[2]])
      BY <1>0, <1>1, <2>1, <2>2, <2>3, <2>4 DEF Counts, ReceiptCopy
    <2> QED
      BY <2>5
  <1>10. CASE Settle(r)
    <2>1. Becomes(r, [request[r] EXCEPT !.phase = "counted", !.seen = Written(r)])
      BY <1>10 DEF Settle
    <2>2. Counts(r, [request[r] EXCEPT !.phase = "counted", !.seen = Written(r)])
      BY <1>0, <1>1, <1>3, <2>1 DEF Counts, ReceiptCopy
    <2> QED
      BY <2>2
  <1> QED
    BY <1>6, <1>7, <1>8, <1>9, <1>10

(* What each of these steps does, field by field. *)
Checks(r, copy) ==
    /\ request[r].phase = "loaded" /\ status[OrderOf(r)] \in {"APPROVED", "PARTIAL_RECEIPT"}
    /\ \A k \in DOMAIN Note(r).lines, n \in DOMAIN LinesOf(r) :
          IsLineFor(LinesOf(r), Note(r).lines[k], n) =>
              Note(r).lines[k][2] <= LinesOf(r)[n][2] - received[OrderOf(r)][n]
    /\ copy.phase = "counting" /\ copy.next = request[r].next /\ copy.locked = request[r].locked
    /\ copy.seen = request[r].seen /\ copy.taken = request[r].taken

Passes(r, copy) ==
    /\ request[r].phase = "counting"
    /\ copy.phase = "counting" /\ copy.next = request[r].next + 1
    /\ copy.locked = request[r].locked
    /\ copy.seen = request[r].seen /\ copy.taken = request[r].taken

Reads(r, copy, n) ==
    /\ request[r].phase = "counting" /\ IsLineFor(LinesOf(r), Item(r), n)
    /\ copy.phase = "read" /\ copy.next = request[r].next /\ copy.locked = request[r].locked
    /\ copy.seen = [request[r].seen EXCEPT ![n] = Written(r)[n]]
    /\ copy.taken = request[r].taken

Writes(r, copy, n, q) ==
    /\ request[r].phase = "read" /\ IsLineFor(LinesOf(r), Item(r), n) /\ q = Item(r)[2]
    /\ copy.phase = "counting" /\ copy.next = request[r].next + 1
    /\ copy.locked = request[r].locked \cup {n}
    /\ copy.seen = [request[r].seen EXCEPT ![n] = @ + q]
    /\ copy.taken = [request[r].taken EXCEPT ![n] = @ + q]

Settles(r, copy) ==
    /\ request[r].phase = "counting"
    /\ copy.phase = "counted" /\ copy.next = request[r].next /\ copy.locked = request[r].locked
    /\ copy.seen = Written(r) /\ copy.taken = request[r].taken

Counting(r, copy) ==
    \/ Checks(r, copy) \/ Passes(r, copy) \/ Settles(r, copy)
    \/ \E n \in DOMAIN LinesOf(r) :
          Reads(r, copy, n) \/ \E q \in Nat : Writes(r, copy, n, q)

LEMMA CountDetails ==
    ASSUME OrdersInv, NEW r \in Request,
           Check(r) \/ Read(r) \/ PassOver(r) \/ Write(r) \/ Settle(r)
    PROVE  \E copy : Counts(r, copy) /\ Counting(r, copy)
  <1>1. PICK copy : Counts(r, copy)
    BY CountSteps
  <1>2. request'[r] = copy /\ Works(r, "receipt") /\ request[r] # Idle
    BY <1>1, Others DEF Counts, Works
  <1>3. request[r] \in ReceiptCopy /\ Note(r).lines \in Lines
    BY <1>2, Copies
  <1>4. CASE Check(r)
    <2>1. Becomes(r, [request[r] EXCEPT !.phase = "counting"])
      BY <1>4 DEF Check
    <2>2. copy = [request[r] EXCEPT !.phase = "counting"]
      BY <1>2, <2>1, Others
    <2>3. Checks(r, copy)
      BY <1>3, <1>4, <2>2 DEF Check, At, Checks, ReceiptCopy
    <2> QED
      BY <1>1, <2>3 DEF Counting
  <1>5. CASE PassOver(r)
    <2>1. Becomes(r, [request[r] EXCEPT !.next = @ + 1])
      BY <1>5 DEF PassOver
    <2>2. copy = [request[r] EXCEPT !.next = @ + 1]
      BY <1>2, <2>1, Others
    <2>3. Passes(r, copy)
      BY <1>3, <1>5, <2>2 DEF PassOver, At, Passes, ReceiptCopy
    <2> QED
      BY <1>1, <2>3 DEF Counting
  <1>6. CASE Read(r)
    <2>1. PICK n \in DOMAIN LinesOf(r) :
             /\ IsLineFor(LinesOf(r), Item(r), n)
             /\ Becomes(r, [request[r] EXCEPT !.phase = "read", !.seen[n] = Written(r)[n]])
      BY <1>6 DEF Read
    <2>2. copy = [request[r] EXCEPT !.phase = "read", !.seen[n] = Written(r)[n]]
      BY <1>2, <2>1, Others
    <2>3. Reads(r, copy, n)
      BY <1>3, <1>6, <2>1, <2>2 DEF Read, At, Reads, ReceiptCopy
    <2> QED
      BY <1>1, <2>3 DEF Counting
  <1>7. CASE Write(r)
    <2>1. PICK n \in DOMAIN LinesOf(r) :
             /\ IsLineFor(LinesOf(r), Item(r), n)
             /\ Becomes(r, [request[r] EXCEPT
                  !.phase = "counting", !.next = @ + 1, !.locked = @ \cup {n},
                  !.seen[n] = @ + Item(r)[2], !.taken[n] = @ + Item(r)[2]])
      BY <1>7 DEF Write
    <2>2. PICK q \in Nat : q = Item(r)[2]
      BY <1>2, <1>7, Copies, LinesShape DEF Write, At, Item
    <2>3. copy = [request[r] EXCEPT
                  !.phase = "counting", !.next = @ + 1, !.locked = @ \cup {n},
                  !.seen[n] = @ + q, !.taken[n] = @ + q]
      BY <1>2, <2>1, <2>2, Others
    <2>4. Writes(r, copy, n, q)
      BY <1>3, <1>7, <2>1, <2>2, <2>3 DEF Write, At, Writes, ReceiptCopy
    <2> QED
      BY <1>1, <2>4 DEF Counting
  <1>8. CASE Settle(r)
    <2>1. Becomes(r, [request[r] EXCEPT !.phase = "counted", !.seen = Written(r)])
      BY <1>8 DEF Settle
    <2>2. copy = [request[r] EXCEPT !.phase = "counted", !.seen = Written(r)]
      BY <1>2, <2>1, Others
    <2>3. Settles(r, copy)
      BY <1>3, <1>8, <2>2 DEF Settle, At, Settles, ReceiptCopy
    <2> QED
      BY <1>1, <2>3 DEF Counting
  <1> QED
    BY <1>4, <1>5, <1>6, <1>7, <1>8

(* The end of a request that works for receipts. *)
EndsReceipt(r, new, lines) ==
    /\ Works(r, "receipt")
    /\ Done(r)
    /\ grn' = [grn EXCEPT ![request[r].receipt] = new]
    /\ head' = [head EXCEPT ![request[r].receipt].lines = lines]
    /\ grn[request[r].receipt] # "deleted" => UNCHANGED head
    /\ UNCHANGED <<status, ordered, received, arrived, contended>>

LEMMA ReceiptSteps ==
    ASSUME OrdersInv, NEW r \in Request,
           CancelReceipt(r) \/ PatchReceipt(r) \/ DestroyReceipt(r)
    PROVE  \E new \in ReceiptStatus \cup {"deleted"}, lines \in Lines : EndsReceipt(r, new, lines)
  <1>1. Works(r, "receipt") /\ request[r] # Idle
    BY DEF CancelReceipt, PatchReceipt, DestroyReceipt, At, Works
  <1> DEFINE c == request[r].receipt
  <1>2. c \in Receipt /\ request[r].status \in ReceiptStatus /\ head[c] \in Row
    BY <1>1, Copies DEF ReceiptCopy, OrdersInv, OrdersTypeOK
  <1>3. head = [head EXCEPT ![c].lines = head[c].lines] /\ head[c].lines \in Lines
    BY <1>2 DEF OrdersInv, OrdersTypeOK, Row
  <1>4. CASE CancelReceipt(r)
    <2>1. EndsReceipt(r, "CANCELLED", head[c].lines)
      BY <1>1, <1>3, <1>4 DEF CancelReceipt, EndsReceipt, order
    <2> QED
      BY <1>3, <2>1 DEF ReceiptStatus
  <1>5. CASE DestroyReceipt(r)
    <2>1. EndsReceipt(r, "deleted", head[c].lines)
      BY <1>1, <1>3, <1>5 DEF DestroyReceipt, EndsReceipt, order
    <2> QED
      BY <1>3, <2>1
  <1>6. CASE PatchReceipt(r)
    <2>1. PICK lines \in Lines :
             /\ head' = [head EXCEPT ![c].lines = lines]
             /\ grn[c] # "deleted" => UNCHANGED head
      <3>1. CASE grn[c] = "deleted"
        BY <1>6, <3>1, NoLines DEF PatchReceipt
      <3>2. CASE grn[c] # "deleted"
        BY <1>6, <1>3, <3>2 DEF PatchReceipt
      <3> QED
        BY <3>1, <3>2
    <2>2. EndsReceipt(r, request[r].status, lines)
      BY <1>1, <1>6, <2>1 DEF PatchReceipt, EndsReceipt, order
    <2> QED
      BY <1>2, <2>2
  <1> QED
    BY <1>4, <1>5, <1>6

(* A request loads an order or a receipt. *)
Loads(r, o, copy) ==
    /\ request[r] = Idle
    /\ Becomes(r, copy)
    /\ copy.order = o
    /\ status[o] # "unborn"
    /\ Contend(o)
    /\ UNCHANGED <<status, ordered, received, grn, head, arrived>>

LEMMA LoadSteps ==
    ASSUME OrdersInv, NEW r \in Request, LoadOrder(r) \/ LoadReceipt(r)
    PROVE  \E o \in Order, copy \in OrderCopy \cup ReceiptCopy :
              /\ Loads(r, o, copy)
              /\ copy.on = "order" => copy.status = status[o]
              /\ copy.on = "receipt" =>
                    /\ copy.status = grn[copy.receipt] /\ grn[copy.receipt] # "unborn"
                    /\ copy.row = head[copy.receipt] /\ head[copy.receipt].order = o
                    /\ copy.phase = "loaded" /\ copy.next = 1 /\ copy.locked = {}
                    /\ copy.seen = None /\ copy.taken = None
  <1>1. CASE LoadOrder(r)
    <2>1. PICK o \in Order :
             /\ request[r] = Idle /\ status[o] \notin Absent
             /\ Becomes(r, [on |-> "order", order |-> o, status |-> status[o]])
             /\ Contend(o)
             /\ UNCHANGED <<status, ordered, received, grn, head, arrived>>
      BY <1>1 DEF LoadOrder, order, receipt
    <2>2. status[o] \in OrderStatus /\ status[o] # "unborn"
      BY <2>1 DEF OrdersInv, OrdersTypeOK, Absent
    <2> DEFINE copy == [on |-> "order", order |-> o, status |-> status[o]]
    <2>3. copy \in OrderCopy /\ Loads(r, o, copy)
      BY <2>1, <2>2 DEF OrderCopy, Loads
    <2> QED
      BY <2>3
  <1>2. CASE LoadReceipt(r)
    <2>1. PICK c \in Receipt :
             /\ request[r] = Idle /\ grn[c] \notin Absent
             /\ Becomes(r,
                  [on |-> "receipt", receipt |-> c, order |-> head[c].order, status |-> grn[c],
                   row |-> head[c], phase |-> "loaded", next |-> 1, locked |-> {},
                   seen |-> None, taken |-> None])
             /\ Contend(head[c].order)
             /\ UNCHANGED <<status, ordered, received, grn, head, arrived>>
      BY <1>2 DEF LoadReceipt, order, receipt
    <2>2. /\ grn[c] \in ReceiptStatus /\ grn[c] # "unborn"
          /\ head[c] \in Row /\ head[c].order \in Order
      BY <2>1 DEF OrdersInv, OrdersTypeOK, Absent, Row
    <2>3. None \in Amounts /\ 1 \in 1..(MaxLines + 1)
      BY LinesAssumption DEF None, Amounts
    <2> DEFINE copy ==
          [on |-> "receipt", receipt |-> c, order |-> head[c].order, status |-> grn[c],
           row |-> head[c], phase |-> "loaded", next |-> 1, locked |-> {},
           seen |-> None, taken |-> None]
    <2>4. copy \in ReceiptCopy
      BY <2>2, <2>3 DEF ReceiptCopy
    <2>5. status[head[c].order] # "unborn"
      BY <2>2 DEF OrdersInv, CopiesBelong
    <2>6. Loads(r, head[c].order, copy)
      BY <2>1, <2>2, <2>5 DEF Loads
    <2> QED
      BY <2>2, <2>4, <2>6
  <1> QED
    BY <1>1, <1>2
-----------------------------------------------------------------------------
(* Types are kept. *)
LEMMA CreateOrderInv ==
    ASSUME OrdersInv, NEW o \in Order, CreateOrder(o)
    PROVE  OrdersInv'
  <1>1. PICK lines \in NewOrders :
           /\ status[o] = "unborn"
           /\ status' = [status EXCEPT ![o] = "DRAFT"]
           /\ ordered' = [ordered EXCEPT ![o] = lines]
           /\ UNCHANGED <<received, grn, head, arrived, request, contended>>
    BY DEF CreateOrder, PlaceOrder, receipt
  <1>2. lines \in Lines
    BY NewAssumption
  <1>3. OrdersTypeOK'
    BY <1>1, <1>2 DEF OrdersInv, OrdersTypeOK, OrderStatus
  <1>4. CopiesBelong'
    BY <1>1 DEF OrdersInv, OrdersTypeOK, CopiesBelong, Works, OrderOf, Note
  <1> QED
    BY <1>3, <1>4 DEF OrdersInv

LEMMA CreateReceiptInv ==
    ASSUME OrdersInv, NEW c \in Receipt, CreateReceipt(c)
    PROVE  OrdersInv'
  <1>1. /\ grn[c] = "unborn" /\ status[head[c].order] # "unborn"
        /\ grn' = [grn EXCEPT ![c] = "OPEN"]
        /\ UNCHANGED <<status, ordered, received, head, arrived, request, contended>>
    BY DEF CreateReceipt, Absent, order
  <1>2. OrdersTypeOK'
    BY <1>1 DEF OrdersInv, OrdersTypeOK, ReceiptStatus
  <1>3. CopiesBelong'
    BY <1>1 DEF OrdersInv, OrdersTypeOK, CopiesBelong, Works, OrderOf, Note
  <1> QED
    BY <1>2, <1>3 DEF OrdersInv

LEMMA LoadInv ==
    ASSUME OrdersInv, NEW r \in Request, LoadOrder(r) \/ LoadReceipt(r)
    PROVE  OrdersInv'
  <1>1. PICK o \in Order, copy \in OrderCopy \cup ReceiptCopy :
              /\ Loads(r, o, copy)
              /\ copy.on = "receipt" =>
                    /\ grn[copy.receipt] # "unborn"
                    /\ head[copy.receipt].order = o
                    /\ copy.phase = "loaded" /\ copy.next = 1 /\ copy.locked = {}
    BY LoadSteps
  <1>2. /\ UNCHANGED <<status, ordered, received, grn, head, arrived>>
        /\ request' = [request EXCEPT ![r] = copy]
        /\ copy.order = o /\ status[o] # "unborn"
        /\ contended' \subseteq contended \cup {o}
    BY <1>1 DEF Loads, Becomes, Contend
  <1>3. OrdersTypeOK'
    BY <1>2 DEF OrdersInv, OrdersTypeOK
  <1>4. request'[r] = copy /\ \A s \in Request : s # r => request'[s] = request[s]
    BY <1>2 DEF OrdersInv, OrdersTypeOK
  <1>5. \A s \in Request : request'[s] # Idle => status'[request'[s].order] # "unborn"
    BY <1>2, <1>4 DEF OrdersInv, CopiesBelong, OrderOf
  <1>6. ASSUME NEW s \in Request, Works(s, "receipt")'
        PROVE  /\ grn'[request'[s].receipt] # "unborn"
               /\ head'[request'[s].receipt].order = request'[s].order
               /\ request'[s].phase = "loaded" => request'[s].next = 1 /\ request'[s].locked = {}
               /\ request'[s].phase = "read" => request'[s].next \in DOMAIN request'[s].row.lines
    <2>1. CASE s = r
      BY <2>1, <1>1, <1>2, <1>4, <1>6 DEF Works
    <2>2. CASE s # r
      BY <2>2, <1>2, <1>4, <1>6 DEF OrdersInv, CopiesBelong, Works, OrderOf, Note
    <2> QED
      BY <2>1, <2>2
  <1>7. CopiesBelong'
    BY <1>2, <1>5, <1>6 DEF OrdersInv, CopiesBelong, OrderOf, Note
  <1> QED
    BY <1>3, <1>7 DEF OrdersInv

(* The end of a request, whatever it writes. *)
LEMMA EndInv ==
    ASSUME OrdersInv, NEW r \in Request, Done(r), OrdersTypeOK',
           \A o \in Order : status[o] # "unborn" => status'[o] # "unborn",
           \A c \in Receipt : grn[c] # "unborn" => grn'[c] # "unborn",
           \A o \in Order : status'[o] = "unborn" => UNCHANGED <<received[o], arrived[o]>>,
           \A c \in Receipt : grn'[c] # "unborn" => grn[c] # "unborn",
           \A c \in Receipt : head'[c].order = head[c].order
    PROVE  OrdersInv'
  <1>1. \A s \in Request : request'[s] # Idle =>
           s # r /\ request[s] # Idle /\ request'[s] = request[s]
    BY Ended
  <1>2. \A o \in Order : status'[o] = "unborn" => received'[o] = None /\ arrived'[o] = None
    BY DEF OrdersInv, CopiesBelong
  <1>3. \A c \in Receipt : head[c].order \in Order
    BY DEF OrdersInv, OrdersTypeOK, Row
  <1>4. \A c \in Receipt : grn'[c] # "unborn" => status'[head'[c].order] # "unborn"
    BY <1>3 DEF OrdersInv, CopiesBelong
  <1>5. \A s \in Request : request'[s] # Idle => status'[request'[s].order] # "unborn"
    BY <1>1, Copies DEF OrderOf
  <1>6. ASSUME NEW s \in Request, Works(s, "receipt")'
        PROVE  /\ grn'[request'[s].receipt] # "unborn"
               /\ head'[request'[s].receipt].order = request'[s].order
               /\ request'[s].phase = "loaded" => request'[s].next = 1 /\ request'[s].locked = {}
               /\ request'[s].phase = "read" => request'[s].next \in DOMAIN request'[s].row.lines
    <2>1. Works(s, "receipt") /\ request[s] # Idle /\ request'[s] = request[s]
      BY <1>1, <1>6 DEF Works
    <2>2. request[s].receipt \in Receipt
      BY <2>1, Copies
    <2> QED
      BY <2>1, <2>2 DEF OrdersInv, CopiesBelong, OrderOf, Note
  <1>7. CopiesBelong'
    BY <1>2, <1>4, <1>5, <1>6 DEF CopiesBelong, OrderOf, Note
  <1> QED
    BY <1>7 DEF OrdersInv

LEMMA CountInv ==
    ASSUME OrdersInv, NEW r \in Request, NEW copy, Counts(r, copy)
    PROVE  OrdersInv'
  <1>1. /\ UNCHANGED <<status, ordered, received, grn, head, arrived, contended>>
        /\ request' = [request EXCEPT ![r] = copy]
        /\ copy \in ReceiptCopy
        /\ Works(r, "receipt") /\ request[r] # Idle
    BY DEF Counts, Becomes, Works
  <1>2. OrdersTypeOK'
    BY <1>1 DEF OrdersInv, OrdersTypeOK
  <1>3. request'[r] = copy /\ \A s \in Request : s # r => request'[s] = request[s]
    BY <1>1 DEF OrdersInv, OrdersTypeOK
  <1>4. copy.order = OrderOf(r) /\ copy.receipt = request[r].receipt
    BY DEF Counts, OrderOf
  <1>5. ASSUME NEW s \in Request, request'[s] # Idle
        PROVE  status'[request'[s].order] # "unborn"
    BY <1>1, <1>3, <1>4, <1>5, Copies DEF OrderOf
  <1>6. ASSUME NEW s \in Request, Works(s, "receipt")'
        PROVE  /\ grn'[request'[s].receipt] # "unborn"
               /\ head'[request'[s].receipt].order = request'[s].order
               /\ request'[s].phase = "loaded" => request'[s].next = 1 /\ request'[s].locked = {}
               /\ request'[s].phase = "read" => request'[s].next \in DOMAIN request'[s].row.lines
    <2>1. CASE s = r
      BY <2>1, <1>1, <1>3, <1>4, Copies DEF Counts
    <2>2. CASE s # r
      BY <2>2, <1>1, <1>3, <1>6 DEF OrdersInv, CopiesBelong, Works, OrderOf, Note
    <2> QED
      BY <2>1, <2>2
  <1>7. CopiesBelong'
    BY <1>1, <1>5, <1>6 DEF OrdersInv, CopiesBelong, OrderOf, Note
  <1> QED
    BY <1>2, <1>7 DEF OrdersInv

(* What a commit writes of the order's lines is as it should be. *)
LEMMA CommitTyped ==
    ASSUME OrdersInv, NEW r \in Request, Complete(r)
    PROVE  /\ OrdersTypeOK' /\ Done(r)
           /\ request[r] # Idle /\ Works(r, "receipt")
           /\ OrderOf(r) \in Order /\ request[r].receipt \in Receipt
           /\ Written(r) \in Amounts /\ request[r].taken \in Amounts
           /\ UNCHANGED <<ordered, head, contended>>
           /\ received' = [received EXCEPT ![OrderOf(r)] = Written(r)]
           /\ arrived' = [arrived EXCEPT ![OrderOf(r)] =
                 [n \in Position |-> arrived[OrderOf(r)][n] + request[r].taken[n]]]
           /\ grn' = [grn EXCEPT ![request[r].receipt] = "COMPLETED"]
           /\ grn[request[r].receipt] # "unborn"
           /\ status' = [status EXCEPT ![OrderOf(r)] =
                 IF AllReceived(LinesOf(r), request[r].seen) THEN "RECEIVED" ELSE "PARTIAL_RECEIPT"]
  <1>1. Works(r, "receipt") /\ request[r] # Idle /\ Done(r)
    BY DEF Complete, At, Works
  <1>2. /\ request[r] \in ReceiptCopy /\ OrderOf(r) \in Order
        /\ request[r].receipt \in Receipt /\ grn[request[r].receipt] # "unborn"
    BY <1>1, Copies
  <1>3. /\ received[OrderOf(r)] \in Amounts /\ arrived[OrderOf(r)] \in Amounts
        /\ request[r].seen \in Amounts /\ request[r].taken \in Amounts
    BY <1>2 DEF ReceiptCopy, OrdersInv, OrdersTypeOK
  <1>4. Written(r) \in Amounts
    BY <1>3 DEF Written, Amounts
  <1>5. [n \in Position |-> arrived[OrderOf(r)][n] + request[r].taken[n]] \in Amounts
    BY <1>3 DEF Amounts
  <1>6. /\ UNCHANGED <<ordered, head, contended>>
        /\ received' = [received EXCEPT ![OrderOf(r)] = Written(r)]
        /\ arrived' = [arrived EXCEPT ![OrderOf(r)] =
                 [n \in Position |-> arrived[OrderOf(r)][n] + request[r].taken[n]]]
        /\ grn' = [grn EXCEPT ![request[r].receipt] = "COMPLETED"]
        /\ status' = [status EXCEPT ![OrderOf(r)] =
                 IF AllReceived(LinesOf(r), request[r].seen) THEN "RECEIVED" ELSE "PARTIAL_RECEIPT"]
    BY <1>2 DEF Complete, OrdersInv, OrdersTypeOK
  <1>7. request' \in [Request -> OrderCopy \cup ReceiptCopy \cup {Idle}]
    BY <1>1, Ended
  <1>8. (IF AllReceived(LinesOf(r), request[r].seen) THEN "RECEIVED" ELSE "PARTIAL_RECEIPT")
           \in OrderStatus
    BY DEF OrderStatus
  <1>9. received' \in [Order -> Amounts] /\ arrived' \in [Order -> Amounts]
    BY <1>2, <1>4, <1>5, <1>6 DEF OrdersInv, OrdersTypeOK
  <1>10. status' \in [Order -> OrderStatus \cup Absent]
    BY <1>2, <1>6, <1>8 DEF OrdersInv, OrdersTypeOK
  <1>11. /\ grn' \in [Receipt -> ReceiptStatus \cup Absent]
         /\ ordered' \in [Order -> Lines] /\ head' \in [Receipt -> Row]
         /\ contended' \subseteq Order
    BY <1>2, <1>6 DEF OrdersInv, OrdersTypeOK, ReceiptStatus
  <1> QED
    BY <1>1, <1>2, <1>3, <1>4, <1>6, <1>7, <1>9, <1>10, <1>11 DEF OrdersTypeOK

LEMMA CommitInv ==
    ASSUME OrdersInv, NEW r \in Request, Complete(r)
    PROVE  OrdersInv'
  <1>1. /\ Done(r) /\ OrdersTypeOK' /\ UNCHANGED head
        /\ OrderOf(r) \in Order /\ request[r].receipt \in Receipt
        /\ status[OrderOf(r)] # "unborn" /\ grn[request[r].receipt] # "unborn"
    BY CommitTyped, Copies
  <1>2. PICK new \in {"RECEIVED", "PARTIAL_RECEIPT"} :
           status' = [status EXCEPT ![OrderOf(r)] = new]
    BY CommitTyped
  <1>3. /\ grn' = [grn EXCEPT ![request[r].receipt] = "COMPLETED"]
        /\ \A o \in Order \ {OrderOf(r)} : UNCHANGED <<received[o], arrived[o]>>
    BY CommitTyped DEF OrdersInv, OrdersTypeOK
  <1>4. /\ \A o \in Order : status[o] # "unborn" => status'[o] # "unborn"
        /\ \A o \in Order : status'[o] = "unborn" => UNCHANGED <<received[o], arrived[o]>>
    BY <1>1, <1>2, <1>3 DEF OrdersInv, OrdersTypeOK
  <1>5. \A c \in Receipt : (grn[c] # "unborn") <=> (grn'[c] # "unborn")
    BY <1>1, <1>3 DEF OrdersInv, OrdersTypeOK
  <1> QED
    BY <1>1, <1>4, <1>5, EndInv

LEMMA SaveInv ==
    ASSUME OrdersInv, NEW r \in Request, NEW new \in OrderStatus, SavesOrder(r, new)
    PROVE  OrdersInv'
  <1>1. /\ Done(r) /\ request[r] # Idle
        /\ status' = [status EXCEPT ![OrderOf(r)] = new]
        /\ UNCHANGED <<ordered, received, grn, head, arrived, contended>>
    BY DEF SavesOrder, Works
  <1>2. OrderOf(r) \in Order /\ new # "unborn"
    BY <1>1, Copies DEF OrderStatus
  <1>3. request' \in [Request -> OrderCopy \cup ReceiptCopy \cup {Idle}]
    BY <1>1, Ended
  <1>4. OrdersTypeOK'
    BY <1>1, <1>2, <1>3 DEF OrdersInv, OrdersTypeOK
  <1>5. \A o \in Order : status[o] # "unborn" => status'[o] # "unborn"
    BY <1>1, <1>2 DEF OrdersInv, OrdersTypeOK
  <1> QED
    BY <1>1, <1>4, <1>5, EndInv

LEMMA DestroyInv ==
    ASSUME OrdersInv, NEW r \in Request, DestroyOrder(r)
    PROVE  OrdersInv'
  <1>1. /\ Done(r) /\ request[r] # Idle
        /\ status' = [status EXCEPT ![OrderOf(r)] = "deleted"]
        /\ ordered' = [ordered EXCEPT ![OrderOf(r)] = <<>>]
        /\ received' = [received EXCEPT ![OrderOf(r)] = None]
        /\ arrived' = [arrived EXCEPT ![OrderOf(r)] = None]
        /\ UNCHANGED <<grn, head, contended>>
    BY DEF DestroyOrder, Works, receipt
  <1>2. OrderOf(r) \in Order
    BY <1>1, Copies
  <1>3. request' \in [Request -> OrderCopy \cup ReceiptCopy \cup {Idle}]
    BY <1>1, Ended
  <1>4. None \in Amounts
    BY DEF None, Amounts
  <1>5. OrdersTypeOK'
    BY <1>1, <1>2, <1>3, <1>4, NoLines DEF OrdersInv, OrdersTypeOK, Absent
  <1>6. \A o \in Order : status'[o] = "unborn" =>
           status[o] = "unborn" /\ UNCHANGED <<received[o], arrived[o]>>
    BY <1>1, <1>2 DEF OrdersInv, OrdersTypeOK
  <1> QED
    BY <1>1, <1>5, <1>6, EndInv

LEMMA ReceiptEndInv ==
    ASSUME OrdersInv, NEW r \in Request, NEW new \in ReceiptStatus \cup {"deleted"},
           NEW lines \in Lines, EndsReceipt(r, new, lines)
    PROVE  OrdersInv'
  <1>1. /\ Done(r) /\ request[r] # Idle /\ Works(r, "receipt")
        /\ grn' = [grn EXCEPT ![request[r].receipt] = new]
        /\ head' = [head EXCEPT ![request[r].receipt].lines = lines]
        /\ UNCHANGED <<status, ordered, received, arrived, contended>>
    BY DEF EndsReceipt, Works
  <1>2. /\ request[r].receipt \in Receipt /\ grn[request[r].receipt] # "unborn"
        /\ new # "unborn"
    BY <1>1, Copies DEF ReceiptStatus
  <1>3. request' \in [Request -> OrderCopy \cup ReceiptCopy \cup {Idle}]
    BY <1>1, Ended
  <1>4. head' \in [Receipt -> Row] /\ \A c \in Receipt : head'[c].order = head[c].order
    BY <1>1, <1>2 DEF OrdersInv, OrdersTypeOK, Row
  <1>5. OrdersTypeOK'
    BY <1>1, <1>2, <1>3, <1>4 DEF OrdersInv, OrdersTypeOK, Absent
  <1>6. \A c \in Receipt : (grn[c] # "unborn") <=> (grn'[c] # "unborn")
    BY <1>1, <1>2 DEF OrdersInv, OrdersTypeOK
  <1> QED
    BY <1>1, <1>4, <1>5, <1>6, EndInv

LEMMA FailInv ==
    ASSUME OrdersInv, NEW r \in Request, Fail(r)
    PROVE  OrdersInv'
  <1>1. Done(r) /\ UNCHANGED <<status, ordered, received, grn, head, arrived, contended>>
    BY DEF Fail, order, receipt
  <1>2. request' \in [Request -> OrderCopy \cup ReceiptCopy \cup {Idle}]
    BY <1>1, Ended
  <1>3. OrdersTypeOK'
    BY <1>1, <1>2 DEF OrdersInv, OrdersTypeOK
  <1> QED
    BY <1>1, <1>3, EndInv

(* The disjuncts of Next, as the lemmas above take them. *)
LEMMA Steps ==
    ASSUME OrdersInv, [Next]_vars
    PROVE  \/ \E o \in Order : CreateOrder(o)
           \/ \E c \in Receipt : CreateReceipt(c)
           \/ \E r \in Request :
                 \/ LoadOrder(r) \/ LoadReceipt(r)
                 \/ \E new \in OrderStatus : SavesOrder(r, new)
                 \/ DestroyOrder(r)
                 \/ Check(r) \/ Read(r) \/ PassOver(r) \/ Write(r) \/ Settle(r)
                 \/ Complete(r)
                 \/ \E new \in ReceiptStatus \cup {"deleted"}, lines \in Lines :
                       EndsReceipt(r, new, lines)
                 \/ Fail(r)
           \/ UNCHANGED vars
  BY OrderSteps, ReceiptSteps, Zenon DEF Next, HandleReceipt

LEMMA NextOrdersInv ==
    ASSUME OrdersInv, [Next]_vars
    PROVE  OrdersInv'
  <1>1. CASE UNCHANGED vars
    BY <1>1 DEF vars, OrdersInv, OrdersTypeOK, CopiesBelong, Works, OrderOf, Note
  <1>2. ASSUME NEW r \in Request,
               Check(r) \/ Read(r) \/ PassOver(r) \/ Write(r) \/ Settle(r)
        PROVE  OrdersInv'
    BY <1>2, CountSteps, CountInv
  <1> QED
    BY <1>1, <1>2, Steps, CreateOrderInv, CreateReceiptInv, LoadInv, SaveInv, DestroyInv,
       CommitInv, ReceiptEndInv, FailInv

(* Orders, receipts, copies and counts keep their types, and what a request *)
(* works on belongs to an order that was created.                           *)
THEOREM OrdersTyped == Spec => [](OrdersTypeOK /\ CopiesBelong)
  <1>1. Init => OrdersInv
    BY InitOrdersInv
  <1>2. OrdersInv /\ [Next]_vars => OrdersInv'
    BY NextOrdersInv
  <1>3. OrdersInv => OrdersTypeOK /\ CopiesBelong
    BY DEF OrdersInv
  <1> QED
    BY <1>1, <1>2, <1>3, PTL DEF Spec
-----------------------------------------------------------------------------
(* received_quantity never runs ahead of the stock, whoever overlaps: what *)
(* a completion has read was once received, and what it writes is that     *)
(* and what it brings itself.                                              *)
AheadInv == NeverAhead /\ SeenHasArrived

(* The amounts a completion holds are numbers of this order's lines. *)
LEMMA Amount ==
    ASSUME OrdersInv, NEW r \in Request, Works(r, "receipt")
    PROVE  /\ request[r] # Idle /\ request[r] \in ReceiptCopy /\ OrderOf(r) \in Order
           /\ LinesOf(r) \in Lines /\ DOMAIN LinesOf(r) \subseteq Position
           /\ received[OrderOf(r)] \in Amounts /\ arrived[OrderOf(r)] \in Amounts
           /\ request[r].seen \in Amounts /\ request[r].taken \in Amounts
           /\ Written(r) \in Amounts
           /\ request[r].locked \subseteq Position
  <1>1. request[r] # Idle
    BY DEF Works
  <1>2. request[r] \in ReceiptCopy /\ OrderOf(r) \in Order
    BY <1>1, Copies
  <1>3. LinesOf(r) \in Lines /\ DOMAIN LinesOf(r) \subseteq Position
    BY <1>2, LinesShape DEF LinesOf, OrdersInv, OrdersTypeOK
  <1>4. /\ received[OrderOf(r)] \in Amounts /\ arrived[OrderOf(r)] \in Amounts
        /\ request[r].seen \in Amounts /\ request[r].taken \in Amounts
        /\ request[r].locked \subseteq Position
    BY <1>2 DEF ReceiptCopy, OrdersInv, OrdersTypeOK
  <1>5. Written(r) \in Amounts
    BY <1>4 DEF Written, Amounts
  <1> QED
    BY <1>1, <1>2, <1>3, <1>4, <1>5

LEMMA WrittenHasArrived ==
    ASSUME OrdersInv, AheadInv, NEW r \in Request, Works(r, "receipt"),
           NEW n \in DOMAIN LinesOf(r)
    PROVE  Written(r)[n] <= arrived[OrderOf(r)][n] + request[r].taken[n]
  <1>1. /\ received[OrderOf(r)][n] <= arrived[OrderOf(r)][n]
        /\ request[r].seen[n] <= arrived[OrderOf(r)][n] + request[r].taken[n]
    BY Amount DEF AheadInv, NeverAhead, SeenHasArrived, LinesOf
  <1>2. /\ n \in Position /\ received[OrderOf(r)][n] \in Nat
        /\ arrived[OrderOf(r)][n] \in Nat /\ request[r].taken[n] \in Nat
    BY Amount DEF Amounts
  <1> QED
    BY <1>1, <1>2 DEF Written

(* The end of a request that leaves the amounts alone. *)
LEMMA EndedAhead ==
    ASSUME OrdersInv, AheadInv, NEW r \in Request, Done(r),
           UNCHANGED <<ordered, received, arrived>>
    PROVE  AheadInv'
  <1>1. \A s \in Request : request'[s] # Idle => request[s] # Idle /\ request'[s] = request[s]
    BY Ended
  <1> QED
    BY <1>1 DEF AheadInv, NeverAhead, SeenHasArrived, Works, OrderOf, LinesOf

(* A step of a completion before its commit. *)
LEMMA CountedAhead ==
    ASSUME OrdersInv, AheadInv, NEW r \in Request, NEW copy, Counts(r, copy),
           \A n \in DOMAIN LinesOf(r) :
               copy.seen[n] <= arrived[OrderOf(r)][n] + copy.taken[n]
    PROVE  AheadInv'
  <1>1. /\ request'[r] = copy /\ copy.order = OrderOf(r)
        /\ UNCHANGED <<ordered, received, arrived>>
    BY Others DEF Counts, OrderOf
  <1>2. \A s \in Request : s # r => request'[s] = request[s]
    BY Others DEF Counts
  <1>3. NeverAhead'
    BY <1>1 DEF AheadInv, NeverAhead
  <1>4. ASSUME NEW s \in Request, Works(s, "receipt")', NEW n \in DOMAIN ordered'[request'[s].order]
        PROVE  request'[s].seen[n] <= arrived'[request'[s].order][n] + request'[s].taken[n]
    <2>1. CASE s = r
      BY <2>1, <1>1, <1>4 DEF LinesOf
    <2>2. CASE s # r
      BY <2>2, <1>1, <1>2, <1>4 DEF AheadInv, SeenHasArrived, Works, OrderOf, LinesOf
    <2> QED
      BY <2>1, <2>2
  <1> QED
    BY <1>3, <1>4 DEF AheadInv, SeenHasArrived, OrderOf, LinesOf

LEMMA CountAhead ==
    ASSUME OrdersInv, AheadInv, NEW r \in Request,
           Check(r) \/ Read(r) \/ PassOver(r) \/ Write(r) \/ Settle(r)
    PROVE  AheadInv'
  <1>1. PICK copy : Counts(r, copy) /\ Counting(r, copy)
    BY CountDetails
  <1>2. Works(r, "receipt")
    BY <1>1 DEF Counts
  <1>3. /\ \A n \in DOMAIN LinesOf(r) :
              /\ n \in Position
              /\ request[r].seen[n] <= arrived[OrderOf(r)][n] + request[r].taken[n]
              /\ Written(r)[n] <= arrived[OrderOf(r)][n] + request[r].taken[n]
        /\ request[r].seen \in Amounts /\ request[r].taken \in Amounts
        /\ arrived[OrderOf(r)] \in Amounts
    BY <1>2, Amount, WrittenHasArrived DEF AheadInv, SeenHasArrived
  <1>4. \A n \in DOMAIN LinesOf(r) : copy.seen[n] <= arrived[OrderOf(r)][n] + copy.taken[n]
    <2>1. CASE Checks(r, copy) \/ Passes(r, copy) \/ Settles(r, copy)
      BY <1>3, <2>1 DEF Checks, Passes, Settles
    <2>2. ASSUME NEW m \in DOMAIN LinesOf(r), Reads(r, copy, m)
          PROVE  \A n \in DOMAIN LinesOf(r) :
                    copy.seen[n] <= arrived[OrderOf(r)][n] + copy.taken[n]
      BY <1>3, <2>2 DEF Reads, Amounts
    <2>3. ASSUME NEW m \in DOMAIN LinesOf(r), NEW q \in Nat, Writes(r, copy, m, q)
          PROVE  \A n \in DOMAIN LinesOf(r) :
                    copy.seen[n] <= arrived[OrderOf(r)][n] + copy.taken[n]
      BY <1>3, <2>3 DEF Writes, Amounts
    <2> QED
      BY <1>1, <2>1, <2>2, <2>3 DEF Counting
  <1> QED
    BY <1>1, <1>4, CountedAhead

LEMMA CommitAhead ==
    ASSUME OrdersInv, AheadInv, NEW r \in Request, Complete(r)
    PROVE  AheadInv'
  <1>1. /\ Works(r, "receipt") /\ Done(r) /\ UNCHANGED ordered
        /\ received' = [received EXCEPT ![OrderOf(r)] = Written(r)]
        /\ arrived' = [arrived EXCEPT ![OrderOf(r)] =
              [n \in Position |-> arrived[OrderOf(r)][n] + request[r].taken[n]]]
    BY CommitTyped
  <1>2. PICK o \in Order : o = OrderOf(r)
    BY <1>1, Amount
  <1>3. /\ received'[o] = Written(r)
        /\ arrived'[o] = [n \in Position |-> arrived[o][n] + request[r].taken[n]]
        /\ \A x \in Order \ {o} : received'[x] = received[x] /\ arrived'[x] = arrived[x]
    BY <1>1, <1>2 DEF OrdersInv, OrdersTypeOK
  <1>4. \A n \in DOMAIN ordered[o] :
           /\ n \in Position
           /\ received'[o][n] <= arrived'[o][n]
           /\ arrived[o][n] <= arrived'[o][n]
           /\ arrived[o][n] \in Nat /\ arrived'[o][n] \in Nat
    <2>1. TAKE n \in DOMAIN ordered[o]
    <2>2. n \in Position /\ Written(r)[n] <= arrived[o][n] + request[r].taken[n]
      BY <1>1, <1>2, Amount, WrittenHasArrived DEF LinesOf
    <2>3. arrived[o][n] \in Nat /\ request[r].taken[n] \in Nat
      BY <1>1, <1>2, <2>2, Amount DEF Amounts
    <2> QED
      BY <1>3, <2>2, <2>3
  <1>5. NeverAhead'
    BY <1>1, <1>3, <1>4 DEF AheadInv, NeverAhead
  <1>6. ASSUME NEW s \in Request, Works(s, "receipt")', NEW n \in DOMAIN ordered'[request'[s].order]
        PROVE  request'[s].seen[n] <= arrived'[request'[s].order][n] + request'[s].taken[n]
    <2>1. Works(s, "receipt") /\ request'[s] = request[s]
      BY <1>1, <1>6, Ended DEF Works
    <2>2. /\ OrderOf(s) \in Order /\ n \in DOMAIN LinesOf(s) /\ n \in Position
          /\ request[s].seen[n] <= arrived[OrderOf(s)][n] + request[s].taken[n]
      BY <1>1, <1>6, <2>1, Amount DEF AheadInv, SeenHasArrived, OrderOf, LinesOf
    <2>3. request[s].seen[n] \in Nat /\ request[s].taken[n] \in Nat
      BY <2>1, <2>2, Amount DEF Amounts
    <2>4. CASE OrderOf(s) = o
      BY <1>4, <2>1, <2>2, <2>3, <2>4 DEF OrderOf, LinesOf
    <2>5. CASE OrderOf(s) # o
      BY <1>3, <2>1, <2>2, <2>5 DEF OrderOf
    <2> QED
      BY <2>4, <2>5
  <1> QED
    BY <1>5, <1>6 DEF AheadInv, SeenHasArrived, OrderOf, LinesOf

LEMMA AheadStep ==
    ASSUME OrdersInv, AheadInv, [Next]_vars
    PROVE  AheadInv'
  <1>1. ASSUME NEW o \in Order, CreateOrder(o)
        PROVE  AheadInv'
    <2>1. PICK lines \in Lines :
             /\ status[o] = "unborn"
             /\ ordered' = [ordered EXCEPT ![o] = lines]
             /\ UNCHANGED <<received, arrived, request>>
      BY <1>1, NewAssumption DEF CreateOrder, PlaceOrder
    <2>2. received[o] = None /\ arrived[o] = None /\ DOMAIN lines \subseteq Position
      BY <2>1, LinesShape DEF OrdersInv, CopiesBelong
    <2>3. NeverAhead'
      BY <2>1, <2>2 DEF AheadInv, NeverAhead, OrdersInv, OrdersTypeOK, None
    <2>4. \A s \in Request : Works(s, "receipt") => OrderOf(s) \in Order \ {o}
      BY <2>1, Copies DEF Works
    <2> QED
      BY <2>1, <2>3, <2>4
         DEF AheadInv, SeenHasArrived, OrdersInv, OrdersTypeOK, Works, OrderOf, LinesOf
  <1>2. ASSUME NEW c \in Receipt, CreateReceipt(c)
        PROVE  AheadInv'
    BY <1>2 DEF CreateReceipt, order, AheadInv, NeverAhead, SeenHasArrived, Works, OrderOf, LinesOf
  <1>3. ASSUME NEW r \in Request, LoadOrder(r) \/ LoadReceipt(r)
        PROVE  AheadInv'
    <2>1. PICK o \in Order, copy \in OrderCopy \cup ReceiptCopy :
             /\ Loads(r, o, copy)
             /\ copy.on = "receipt" => copy.seen = None /\ copy.taken = None
      BY <1>3, LoadSteps
    <2>2. /\ request'[r] = copy /\ copy.order = o
          /\ \A s \in Request : s # r => request'[s] = request[s]
          /\ UNCHANGED <<ordered, received, arrived>>
      BY <2>1, Others DEF Loads
    <2>3. \A n \in DOMAIN ordered[o] : n \in Position /\ arrived[o][n] \in Nat
      BY LinesShape DEF OrdersInv, OrdersTypeOK, Amounts
    <2>4. ASSUME NEW s \in Request, Works(s, "receipt")', NEW n \in DOMAIN ordered'[request'[s].order]
          PROVE  request'[s].seen[n] <= arrived'[request'[s].order][n] + request'[s].taken[n]
      <3>1. CASE s = r
        BY <3>1, <2>1, <2>2, <2>3, <2>4 DEF Works, None
      <3>2. CASE s # r
        BY <3>2, <2>2, <2>4 DEF AheadInv, SeenHasArrived, Works, OrderOf, LinesOf
      <3> QED
        BY <3>1, <3>2
    <2> QED
      BY <2>2, <2>4 DEF AheadInv, NeverAhead, SeenHasArrived, OrderOf, LinesOf
  <1>4. ASSUME NEW r \in Request, NEW new \in OrderStatus, SavesOrder(r, new)
        PROVE  AheadInv'
    BY <1>4, EndedAhead DEF SavesOrder
  <1>5. ASSUME NEW r \in Request, DestroyOrder(r)
        PROVE  AheadInv'
    <2>1. /\ request[r] # Idle /\ Done(r)
          /\ ordered' = [ordered EXCEPT ![OrderOf(r)] = <<>>]
          /\ received' = [received EXCEPT ![OrderOf(r)] = None]
          /\ arrived' = [arrived EXCEPT ![OrderOf(r)] = None]
      BY <1>5 DEF DestroyOrder, Works
    <2>2. PICK o \in Order : o = OrderOf(r)
      BY <2>1, Copies
    <2>3. /\ DOMAIN ordered'[o] = {}
          /\ \A x \in Order \ {o} : UNCHANGED <<ordered[x], received[x], arrived[x]>>
      BY <2>1, <2>2, NoLines DEF OrdersInv, OrdersTypeOK
    <2>4. NeverAhead'
      BY <2>3 DEF AheadInv, NeverAhead
    <2>5. \A s \in Request : Works(s, "receipt")' =>
             Works(s, "receipt") /\ request'[s] = request[s] /\ OrderOf(s) \in Order
      BY <2>1, Ended, Copies DEF Works
    <2> QED
      BY <2>3, <2>4, <2>5 DEF AheadInv, SeenHasArrived, OrderOf, LinesOf
  <1>6. ASSUME NEW r \in Request, NEW new, NEW lines, EndsReceipt(r, new, lines)
        PROVE  AheadInv'
    BY <1>6, EndedAhead DEF EndsReceipt
  <1>7. ASSUME NEW r \in Request, Fail(r)
        PROVE  AheadInv'
    BY <1>7, EndedAhead DEF Fail, order
  <1>8. CASE UNCHANGED vars
    BY <1>8 DEF vars, AheadInv, NeverAhead, SeenHasArrived, Works, OrderOf, LinesOf
  <1> QED
    BY Steps, <1>1, <1>2, <1>3, <1>4, <1>5, <1>6, <1>7, <1>8, CountAhead, CommitAhead

(* However requests interleave, received_quantity never claims more than   *)
(* completed receipts brought into stock: lost updates lose only.          *)
THEOREM NeverAheadTheorem == Spec => []NeverAhead
  <1>1. Init => OrdersInv /\ AheadInv
    <2>1. ASSUME Init
          PROVE  AheadInv
      BY <2>1, NoLines DEF Init, AheadInv, NeverAhead, SeenHasArrived, Works
    <2> QED
      BY <2>1, InitOrdersInv
  <1>2. OrdersInv /\ AheadInv /\ [Next]_vars => OrdersInv' /\ AheadInv'
    BY NextOrdersInv, AheadStep
  <1>3. AheadInv => NeverAhead
    BY DEF AheadInv
  <1> QED
    BY <1>1, <1>2, <1>3, PTL DEF Spec
-----------------------------------------------------------------------------
(* An order one request at a time works for: its copies are current, also  *)
(* in the middle of a completion.                                          *)
CurrentInv == CopiesAreCurrent /\ CountsAreCurrent

LEMMA OneLine ==
    ASSUME NEW lines \in Lines, NEW item, NEW m, NEW n,
           IsLineFor(lines, item, m), IsLineFor(lines, item, n)
    PROVE  m = n
  <1>1. m \in Nat /\ n \in Nat /\ m >= 1 /\ n >= 1
    BY LinesShape, LinesAssumption DEF IsLineFor, Position
  <1>2. /\ lines[m][1] = item[1] /\ lines[n][1] = item[1]
        /\ \A k \in 1..(m - 1) : lines[k][1] # item[1]
        /\ \A k \in 1..(n - 1) : lines[k][1] # item[1]
    BY DEF IsLineFor
  <1> QED
    BY <1>1, <1>2

(* A request ends having changed rows of its own order only. *)
LEMMA EndedCurrent ==
    ASSUME OrdersInv, CurrentInv, NEW r \in Request, request[r] # Idle, Done(r),
           \A o \in Order : o # OrderOf(r) => UNCHANGED <<status[o], ordered[o], received[o]>>,
           \A c \in Receipt : head[c].order # OrderOf(r) => UNCHANGED <<grn[c], head[c]>>,
           UNCHANGED contended
    PROVE  CurrentInv'
  <1>1. ASSUME NEW s \in Request, request'[s] # Idle, request'[s].order \notin contended'
        PROVE  /\ s # r /\ request[s] # Idle /\ request'[s] = request[s]
               /\ OrderOf(s) \in Order /\ OrderOf(s) \notin contended
               /\ OrderOf(s) # OrderOf(r)
               /\ UNCHANGED <<status[OrderOf(s)], ordered[OrderOf(s)], received[OrderOf(s)]>>
               /\ Works(s, "receipt") =>
                     UNCHANGED <<grn[request[s].receipt], head[request[s].receipt]>>
    <2>1. s # r /\ request[s] # Idle /\ request'[s] = request[s]
      BY <1>1, Ended
    <2>2. OrderOf(s) \in Order /\ OrderOf(s) \notin contended
      BY <1>1, <2>1, Copies DEF OrderOf
    <2>3. OrderOf(s) # OrderOf(r)
      BY <2>1, <2>2 DEF CurrentInv, CopiesAreCurrent
    <2>4. PICK o \in Order : o = OrderOf(s) /\ o = request'[s].order /\ o # OrderOf(r)
      BY <2>1, <2>2, <2>3 DEF OrderOf
    <2>5. UNCHANGED <<status[o], ordered[o], received[o]>>
      BY <2>4
    <2>6. Works(s, "receipt") =>
             /\ request[s].receipt \in Receipt
             /\ head[request[s].receipt].order # OrderOf(r)
      BY <2>1, <2>3, Copies
    <2>7. ASSUME Works(s, "receipt"), NEW c \in Receipt, c = request[s].receipt
          PROVE  UNCHANGED <<grn[c], head[c]>>
      BY <2>6, <2>7
    <2> QED
      BY <2>1, <2>2, <2>3, <2>4, <2>5, <2>6, <2>7 DEF OrderOf
  <1>2. CopiesAreCurrent'
    <2>1. ASSUME NEW s \in Request, request'[s] # Idle, request'[s].order \notin contended'
          PROVE  /\ \A t \in Request : request'[t] # Idle /\ request'[t].order = request'[s].order => t = s
                 /\ Works(s, "order")' => status'[request'[s].order] = request'[s].status
                 /\ Works(s, "receipt")' =>
                       /\ grn'[request'[s].receipt] = request'[s].status
                       /\ head'[request'[s].receipt] = request'[s].row
                       /\ request'[s].phase # "loaded" =>
                             status'[request'[s].order] \in {"APPROVED", "PARTIAL_RECEIPT"}
      BY <1>1, <2>1, Ended DEF CurrentInv, CopiesAreCurrent, Works, OrderOf, Note
    <2> QED
      BY <2>1 DEF CopiesAreCurrent, OrderOf, Note
  <1>3. ASSUME NEW s \in Request, Works(s, "receipt")', request'[s].order \notin contended',
               NEW n \in Position
        PROVE  /\ n \notin request'[s].locked => request'[s].taken[n] = 0
               /\ HasRead(s, n)' =>
                    request'[s].seen[n] = received'[request'[s].order][n] + request'[s].taken[n]
    <2>1. /\ Works(s, "receipt") /\ request'[s] = request[s] /\ OrderOf(s) \notin contended
          /\ UNCHANGED <<ordered[OrderOf(s)], received[OrderOf(s)]>>
      BY <1>1, <1>3 DEF Works
    <2>2. HasRead(s, n)' => HasRead(s, n)
      BY <2>1 DEF HasRead, LinesOf, Item, Note, OrderOf
    <2> QED
      BY <2>1, <2>2 DEF CurrentInv, CountsAreCurrent, OrderOf
  <1> QED
    BY <1>2, <1>3 DEF CurrentInv, CountsAreCurrent, OrderOf

LEMMA CountedCurrent ==
    ASSUME OrdersInv, CurrentInv, NEW r \in Request,
           Check(r) \/ Read(r) \/ PassOver(r) \/ Write(r) \/ Settle(r)
    PROVE  CurrentInv'
  <1>1. PICK copy : Counts(r, copy) /\ Counting(r, copy)
    BY CountDetails
  <1>2. /\ Works(r, "receipt") /\ request[r] # Idle
        /\ request'[r] = copy /\ copy.order = OrderOf(r) /\ copy \in ReceiptCopy
        /\ copy.receipt = request[r].receipt /\ copy.status = request[r].status
        /\ copy.row = Note(r) /\ copy # Idle
        /\ \A s \in Request : s # r => request'[s] = request[s]
        /\ UNCHANGED <<status, ordered, received, grn, head, arrived, contended>>
    BY <1>1, Others, NewAssumption DEF Counts, OrderOf, Note, Works
  <1>3. /\ \A s \in Request : (request'[s] # Idle) <=> (request[s] # Idle)
        /\ \A s \in Request : request[s] # Idle => request'[s].order = request[s].order
    BY <1>2 DEF OrderOf
  <1>4. OrderOf(r) \notin contended => status[OrderOf(r)] \in {"APPROVED", "PARTIAL_RECEIPT"}
    <2>1. CASE Checks(r, copy)
      BY <2>1 DEF Checks
    <2>2. CASE ~Checks(r, copy)
      <3>1. request[r].phase # "loaded"
        BY <1>1, <2>2 DEF Counting, Passes, Settles, Reads, Writes
      <3> QED
        BY <1>2, <3>1 DEF CurrentInv, CopiesAreCurrent
    <2> QED
      BY <2>1, <2>2
  <1>5. CopiesAreCurrent'
    <2>1. ASSUME NEW s \in Request, request'[s] # Idle, request'[s].order \notin contended'
          PROVE  /\ \A t \in Request : request'[t] # Idle /\ request'[t].order = request'[s].order => t = s
                 /\ Works(s, "order")' => status'[request'[s].order] = request'[s].status
                 /\ Works(s, "receipt")' =>
                       /\ grn'[request'[s].receipt] = request'[s].status
                       /\ head'[request'[s].receipt] = request'[s].row
                       /\ request'[s].phase # "loaded" =>
                             status'[request'[s].order] \in {"APPROVED", "PARTIAL_RECEIPT"}
      <3>1. \A t \in Request : request'[t] # Idle /\ request'[t].order = request'[s].order => t = s
        BY <1>2, <1>3, <2>1 DEF CurrentInv, CopiesAreCurrent, OrderOf
      <3>2. CASE s = r
        BY <3>1, <3>2, <1>2, <1>4, <2>1
           DEF CurrentInv, CopiesAreCurrent, Works, OrderOf, ReceiptCopy
      <3>3. CASE s # r
        BY <3>1, <3>3, <1>2, <2>1 DEF CurrentInv, CopiesAreCurrent, Works, OrderOf, Note
      <3> QED
        BY <3>2, <3>3
    <2> QED
      BY <2>1 DEF CopiesAreCurrent, OrderOf, Note
  <1>6. ASSUME OrderOf(r) \notin contended, NEW n \in Position
        PROVE  /\ n \notin copy.locked => copy.taken[n] = 0
               /\ HasRead(r, n)' => copy.seen[n] = received[OrderOf(r)][n] + copy.taken[n]
    <2>1. /\ request[r].seen \in Amounts /\ request[r].taken \in Amounts
          /\ received[OrderOf(r)] \in Amounts /\ LinesOf(r) \in Lines
          /\ request[r].locked \subseteq Position
      BY <1>2, Amount
    <2>2. /\ n \notin request[r].locked => request[r].taken[n] = 0
          /\ HasRead(r, n) => request[r].seen[n] = received[OrderOf(r)][n] + request[r].taken[n]
      BY <1>2, <1>6 DEF CurrentInv, CountsAreCurrent
    <2>3. Written(r)[n] = received[OrderOf(r)][n] + request[r].taken[n]
      BY <2>1, <2>2 DEF Written, HasRead, Amounts
    <2>4. HasRead(r, n)' <=> \/ n \in copy.locked \/ copy.phase = "counted"
                            \/ (copy.phase = "read" /\ IsLineFor(LinesOf(r), Item(r)', n))
      BY <1>2 DEF HasRead, LinesOf, OrderOf
    <2>5. CASE Checks(r, copy)
      BY <2>2, <2>4, <2>5 DEF Checks, HasRead
    <2>6. CASE Passes(r, copy)
      BY <2>2, <2>4, <2>6 DEF Passes, HasRead
    <2>7. CASE Settles(r, copy)
      BY <2>2, <2>3, <2>7 DEF Settles
    <2>8. ASSUME NEW m \in DOMAIN LinesOf(r), Reads(r, copy, m)
          PROVE  /\ n \notin copy.locked => copy.taken[n] = 0
                 /\ HasRead(r, n)' => copy.seen[n] = received[OrderOf(r)][n] + copy.taken[n]
      <3>1. Item(r)' = Item(r)
        BY <1>2, <2>8 DEF Reads, Item, Note
      <3>2. CASE n = m
        BY <2>1, <2>2, <2>3, <2>8, <3>2 DEF Reads, Amounts
      <3>3. CASE n # m
        <4>1. ~IsLineFor(LinesOf(r), Item(r), n)
          BY <2>1, <2>8, <3>3, OneLine DEF Reads
        <4> QED
          BY <2>1, <2>2, <2>4, <2>8, <3>1, <3>3, <4>1 DEF Reads, HasRead, Amounts
      <3> QED
        BY <3>2, <3>3
    <2>9. ASSUME NEW m \in DOMAIN LinesOf(r), NEW q \in Nat, Writes(r, copy, m, q)
          PROVE  /\ n \notin copy.locked => copy.taken[n] = 0
                 /\ HasRead(r, n)' => copy.seen[n] = received[OrderOf(r)][n] + copy.taken[n]
      <3>1. CASE n = m
        <4>1. request[r].seen[n] = received[OrderOf(r)][n] + request[r].taken[n]
          BY <2>2, <2>9, <3>1 DEF Writes, HasRead
        <4> QED
          BY <2>1, <2>9, <3>1, <4>1 DEF Writes, Amounts
      <3>2. CASE n # m
        BY <2>1, <2>2, <2>4, <2>9, <3>2 DEF Writes, HasRead, Amounts
      <3> QED
        BY <3>1, <3>2
    <2> QED
      BY <1>1, <2>5, <2>6, <2>7, <2>8, <2>9 DEF Counting
  <1>7. ASSUME NEW s \in Request, Works(s, "receipt")', request'[s].order \notin contended',
               NEW n \in Position
        PROVE  /\ n \notin request'[s].locked => request'[s].taken[n] = 0
               /\ HasRead(s, n)' =>
                    request'[s].seen[n] = received'[request'[s].order][n] + request'[s].taken[n]
    <2>1. CASE s = r
      BY <2>1, <1>2, <1>6, <1>7
    <2>2. CASE s # r
      <3>1. /\ Works(s, "receipt") /\ request'[s] = request[s] /\ OrderOf(s) \notin contended
        BY <1>2, <1>7, <2>2 DEF Works, OrderOf
      <3>2. HasRead(s, n)' => HasRead(s, n)
        BY <1>2, <3>1 DEF HasRead, LinesOf, Item, Note, OrderOf
      <3> QED
        BY <1>2, <3>1, <3>2 DEF CurrentInv, CountsAreCurrent, OrderOf
    <2> QED
      BY <2>1, <2>2
  <1> QED
    BY <1>5, <1>7 DEF CurrentInv, CountsAreCurrent, OrderOf

LEMMA LoadedCurrent ==
    ASSUME OrdersInv, CurrentInv, NEW r \in Request, LoadOrder(r) \/ LoadReceipt(r)
    PROVE  CurrentInv'
  <1>1. PICK o \in Order, copy \in OrderCopy \cup ReceiptCopy :
              /\ Loads(r, o, copy)
              /\ copy.on = "order" => copy.status = status[o]
              /\ copy.on = "receipt" =>
                    /\ copy.status = grn[copy.receipt]
                    /\ copy.row = head[copy.receipt]
                    /\ copy.phase = "loaded" /\ copy.locked = {}
                    /\ copy.taken = None
    BY LoadSteps
  <1>2. /\ request[r] = Idle /\ request'[r] = copy /\ copy.order = o
        /\ \A s \in Request : s # r => request'[s] = request[s]
        /\ UNCHANGED <<status, ordered, received, grn, head>>
        /\ contended \subseteq contended'
        /\ \A s \in Request : request[s] # Idle /\ OrderOf(s) = o => o \in contended'
    BY <1>1, Others DEF Loads, Contend
  <1>3. ASSUME NEW s \in Request, request'[s] # Idle, request'[s].order \notin contended'
        PROVE  /\ \A t \in Request : request'[t] # Idle /\ request'[t].order = request'[s].order => t = s
               /\ Works(s, "order")' => status'[request'[s].order] = request'[s].status
               /\ Works(s, "receipt")' =>
                     /\ grn'[request'[s].receipt] = request'[s].status
                     /\ head'[request'[s].receipt] = request'[s].row
                     /\ request'[s].phase # "loaded" =>
                           status'[request'[s].order] \in {"APPROVED", "PARTIAL_RECEIPT"}
    <2>1. CASE s = r
      BY <1>1, <1>2, <1>3, <2>1 DEF Works, OrderOf
    <2>2. CASE s # r
      BY <1>2, <1>3, <2>2 DEF CurrentInv, CopiesAreCurrent, Works, OrderOf, Note
    <2> QED
      BY <2>1, <2>2
  <1>4. ASSUME NEW s \in Request, Works(s, "receipt")', request'[s].order \notin contended',
               NEW n \in Position
        PROVE  /\ n \notin request'[s].locked => request'[s].taken[n] = 0
               /\ HasRead(s, n)' =>
                    request'[s].seen[n] = received'[request'[s].order][n] + request'[s].taken[n]
    <2>1. CASE s = r
      BY <1>1, <1>2, <1>4, <2>1 DEF Works, HasRead, None
    <2>2. CASE s # r
      <3>1. Works(s, "receipt") /\ request'[s] = request[s] /\ OrderOf(s) \notin contended
        BY <1>2, <1>4, <2>2 DEF Works, OrderOf
      <3>2. HasRead(s, n)' => HasRead(s, n)
        BY <1>2, <3>1 DEF HasRead, LinesOf, Item, Note, OrderOf
      <3> QED
        BY <1>2, <3>1, <3>2 DEF CurrentInv, CountsAreCurrent, OrderOf
    <2> QED
      BY <2>1, <2>2
  <1> QED
    BY <1>3, <1>4 DEF CurrentInv, CopiesAreCurrent, CountsAreCurrent, OrderOf, Note

LEMMA CurrentStep ==
    ASSUME OrdersInv, CurrentInv, [Next]_vars
    PROVE  CurrentInv'
  <1>1. ASSUME NEW o \in Order, CreateOrder(o)
        PROVE  CurrentInv'
    <2>1. /\ status[o] = "unborn"
          /\ \A x \in Order \ {o} : UNCHANGED <<status[x], ordered[x]>>
          /\ UNCHANGED <<received, grn, head, request, contended>>
      BY <1>1 DEF CreateOrder, PlaceOrder, receipt, OrdersInv, OrdersTypeOK
    <2>2. \A s \in Request : request[s] # Idle => OrderOf(s) \in Order \ {o}
      BY <2>1, Copies
    <2>3. CopiesAreCurrent'
      BY <2>1, <2>2 DEF CurrentInv, CopiesAreCurrent, Works, OrderOf, Note
    <2>4. CountsAreCurrent'
      BY <2>1, <2>2
         DEF CurrentInv, CountsAreCurrent, HasRead, Works, OrderOf, LinesOf, Item, Note
    <2> QED
      BY <2>3, <2>4 DEF CurrentInv
  <1>2. ASSUME NEW c \in Receipt, CreateReceipt(c)
        PROVE  CurrentInv'
    <2>1. /\ grn[c] = "unborn"
          /\ \A x \in Receipt \ {c} : UNCHANGED grn[x]
          /\ UNCHANGED <<status, ordered, received, head, request, contended>>
      BY <1>2 DEF CreateReceipt, order, OrdersInv, OrdersTypeOK
    <2>2. \A s \in Request : Works(s, "receipt") => request[s].receipt \in Receipt \ {c}
      BY <2>1, Copies DEF Works
    <2>3. CopiesAreCurrent'
      BY <2>1, <2>2 DEF CurrentInv, CopiesAreCurrent, Works, OrderOf, Note
    <2>4. CountsAreCurrent'
      BY <2>1 DEF CurrentInv, CountsAreCurrent, HasRead, Works, OrderOf, LinesOf, Item, Note
    <2> QED
      BY <2>3, <2>4 DEF CurrentInv
  <1>3. ASSUME NEW r \in Request, NEW new \in OrderStatus, SavesOrder(r, new)
        PROVE  CurrentInv'
    <2>1. /\ request[r] # Idle /\ Done(r)
          /\ \A o \in Order : o # OrderOf(r) => UNCHANGED <<status[o], ordered[o], received[o]>>
          /\ UNCHANGED <<grn, head, contended>>
      BY <1>3 DEF SavesOrder, Works, OrdersInv, OrdersTypeOK
    <2> QED
      BY <2>1, EndedCurrent
  <1>4. ASSUME NEW r \in Request, DestroyOrder(r)
        PROVE  CurrentInv'
    <2>1. /\ request[r] # Idle /\ Done(r)
          /\ \A o \in Order : o # OrderOf(r) => UNCHANGED <<status[o], ordered[o], received[o]>>
          /\ UNCHANGED <<grn, head, contended>>
      BY <1>4 DEF DestroyOrder, Works, receipt, OrdersInv, OrdersTypeOK
    <2> QED
      BY <2>1, EndedCurrent
  <1>5. ASSUME NEW r \in Request, Complete(r)
        PROVE  CurrentInv'
    <2>1. /\ request[r] # Idle /\ Done(r)
          /\ \A o \in Order : o # OrderOf(r) => UNCHANGED <<status[o], ordered[o], received[o]>>
          /\ \A c \in Receipt : c # request[r].receipt => UNCHANGED grn[c]
          /\ UNCHANGED <<head, contended>>
      BY <1>5, CommitTyped DEF OrdersInv, OrdersTypeOK
    <2>2. head[request[r].receipt].order = OrderOf(r)
      BY <1>5, CommitTyped, Copies
    <2> QED
      BY <2>1, <2>2, EndedCurrent
  <1>6. ASSUME NEW r \in Request, NEW new, NEW lines, EndsReceipt(r, new, lines)
        PROVE  CurrentInv'
    <2>1. /\ request[r] # Idle /\ Done(r)
          /\ \A c \in Receipt : c # request[r].receipt => UNCHANGED <<grn[c], head[c]>>
          /\ UNCHANGED <<status, ordered, received, contended>>
      BY <1>6 DEF EndsReceipt, Works, OrdersInv, OrdersTypeOK
    <2>2. head[request[r].receipt].order = OrderOf(r)
      BY <1>6, <2>1, Copies DEF EndsReceipt
    <2> QED
      BY <2>1, <2>2, EndedCurrent
  <1>7. ASSUME NEW r \in Request, Fail(r)
        PROVE  CurrentInv'
    <2>1. /\ request[r] # Idle /\ Done(r)
          /\ UNCHANGED <<status, ordered, received, grn, head, contended>>
      BY <1>7 DEF Fail, order, receipt
    <2> QED
      BY <2>1, EndedCurrent
  <1>8. CASE UNCHANGED vars
    <2>1. UNCHANGED <<status, ordered, received, grn, head, request, contended>>
      BY <1>8 DEF vars
    <2>2. CopiesAreCurrent'
      BY <2>1 DEF CurrentInv, CopiesAreCurrent, Works, OrderOf, Note
    <2>3. CountsAreCurrent'
      BY <2>1 DEF CurrentInv, CountsAreCurrent, HasRead, Works, OrderOf, LinesOf, Item, Note
    <2> QED
      BY <2>2, <2>3 DEF CurrentInv
  <1> QED
    BY Steps, <1>1, <1>2, <1>3, <1>4, <1>5, <1>6, <1>7, <1>8, LoadedCurrent, CountedCurrent
-----------------------------------------------------------------------------
(* What received_quantity and the status of such an order say. *)
ToldInv == ReceivedHasArrived /\ StatusTells

(* A commit alone with its order adds what it counted, and has seen it all. *)
LEMMA CommitAdds ==
    ASSUME OrdersInv, CurrentInv, NEW r \in Request, Complete(r), OrderOf(r) \notin contended
    PROVE  /\ Written(r) = [n \in Position |-> received[OrderOf(r)][n] + request[r].taken[n]]
           /\ request[r].seen = Written(r)
           /\ status[OrderOf(r)] \in {"APPROVED", "PARTIAL_RECEIPT"}
  <1>1. /\ Works(r, "receipt") /\ request[r] # Idle /\ request[r].phase = "counted"
    BY DEF Complete, At, Works
  <1>2. \A n \in Position :
           /\ n \notin request[r].locked => request[r].taken[n] = 0
           /\ request[r].seen[n] = received[OrderOf(r)][n] + request[r].taken[n]
    BY <1>1 DEF CurrentInv, CountsAreCurrent, HasRead
  <1>3. /\ request[r].seen \in Amounts /\ request[r].taken \in Amounts
        /\ received[OrderOf(r)] \in Amounts
    BY <1>1, Amount
  <1>4. \A n \in Position : Written(r)[n] = request[r].seen[n]
    BY <1>2, <1>3 DEF Written, Amounts
  <1>5. Written(r) = request[r].seen
    BY <1>1, <1>3, <1>4, Amount DEF Amounts
  <1> QED
    BY <1>1, <1>2, <1>3, <1>5 DEF CurrentInv, CopiesAreCurrent, Amounts

LEMMA CommitTold ==
    ASSUME OrdersInv, CurrentInv, ToldInv, NEW r \in Request, Complete(r)
    PROVE  ToldInv'
  <1>1. PICK o \in Order : o = OrderOf(r)
    BY CommitTyped
  <1>2. /\ received' = [received EXCEPT ![o] = Written(r)]
        /\ arrived' = [arrived EXCEPT ![o] =
              [n \in Position |-> arrived[o][n] + request[r].taken[n]]]
        /\ status' = [status EXCEPT ![o] =
              IF AllReceived(ordered[o], request[r].seen) THEN "RECEIVED" ELSE "PARTIAL_RECEIPT"]
        /\ UNCHANGED <<ordered, contended>>
    BY <1>1, CommitTyped DEF LinesOf
  <1>3. \A x \in Order \ {o} : UNCHANGED <<status[x], received[x], arrived[x]>>
    BY <1>2 DEF OrdersInv, OrdersTypeOK
  <1>4. /\ received'[o] = Written(r)
        /\ arrived'[o] = [n \in Position |-> arrived[o][n] + request[r].taken[n]]
        /\ status'[o] = IF AllReceived(ordered[o], request[r].seen) THEN "RECEIVED"
                                                                  ELSE "PARTIAL_RECEIPT"
    BY <1>2 DEF OrdersInv, OrdersTypeOK
  <1>5. ASSUME o \notin contended
        PROVE  /\ received'[o] = arrived'[o]
               /\ status'[o] = IF AllReceived(ordered[o], received'[o]) THEN "RECEIVED"
                                                                  ELSE "PARTIAL_RECEIPT"
    <2>1. received[o] = arrived[o]
      BY <1>5 DEF ToldInv, ReceivedHasArrived, Orderly
    <2>2. /\ Written(r) = [n \in Position |-> received[o][n] + request[r].taken[n]]
          /\ request[r].seen = Written(r)
      BY <1>1, <1>5, CommitAdds
    <2> QED
      BY <1>4, <2>1, <2>2
  <1>6. ReceivedHasArrived'
    BY <1>2, <1>3, <1>5 DEF ToldInv, ReceivedHasArrived, Orderly
  <1>7. ASSUME NEW x \in Order, x \notin contended
        PROVE  /\ status'[x] = "RECEIVED" => AllReceived(ordered[x], received'[x])
               /\ status'[x] = "PARTIAL_RECEIPT" => ~AllReceived(ordered[x], received'[x])
               /\ status'[x] \in {"DRAFT", "SUBMITTED", "APPROVED"} => received'[x] = None
    BY <1>3, <1>5, <1>7 DEF ToldInv, StatusTells, Orderly
  <1>8. StatusTells'
    BY <1>2, <1>7 DEF StatusTells, Orderly, AllReceived
  <1> QED
    BY <1>6, <1>8 DEF ToldInv

(* Amounts and status stay, and contention only grows. *)
LEMMA SameTold ==
    ASSUME ToldInv, contended \subseteq contended',
           UNCHANGED <<status, ordered, received, arrived>>
    PROVE  ToldInv'
  BY DEF ToldInv, ReceivedHasArrived, StatusTells, Orderly, AllReceived

LEMMA ToldStep ==
    ASSUME OrdersInv, CurrentInv, ToldInv, [Next]_vars
    PROVE  ToldInv'
  <1>1. ASSUME NEW o \in Order, CreateOrder(o)
        PROVE  ToldInv'
    <2>1. /\ received[o] = None
          /\ status'[o] = "DRAFT"
          /\ \A x \in Order \ {o} : UNCHANGED <<status[x], ordered[x]>>
          /\ UNCHANGED <<received, arrived, contended>>
      BY <1>1 DEF CreateOrder, PlaceOrder, OrdersInv, OrdersTypeOK, CopiesBelong
    <2>2. ReceivedHasArrived'
      BY <2>1 DEF ToldInv, ReceivedHasArrived, Orderly
    <2>3. StatusTells'
      BY <2>1 DEF ToldInv, StatusTells, Orderly, AllReceived
    <2> QED
      BY <2>2, <2>3 DEF ToldInv
  <1>2. ASSUME NEW c \in Receipt, CreateReceipt(c)
        PROVE  ToldInv'
    BY <1>2, SameTold DEF CreateReceipt, order
  <1>3. ASSUME NEW r \in Request, LoadOrder(r) \/ LoadReceipt(r)
        PROVE  ToldInv'
    BY <1>3, SameTold DEF LoadOrder, LoadReceipt, Contend, order
  <1>4. ASSUME NEW r \in Request, NEW new \in OrderStatus, SavesOrder(r, new)
        PROVE  ToldInv'
    <2>1. PICK o \in Order : o = OrderOf(r)
      BY <1>4, Copies DEF SavesOrder, Works
    <2>2. /\ status'[o] = new /\ \A x \in Order \ {o} : status'[x] = status[x]
          /\ UNCHANGED <<ordered, received, arrived, contended>>
          /\ MayBecome(request[r].status, new)
      BY <1>4, <2>1 DEF SavesOrder, OrdersInv, OrdersTypeOK
    <2>3. o \notin contended => request[r].status = status[o]
      BY <1>4, <2>1 DEF SavesOrder, CurrentInv, CopiesAreCurrent, Works
    <2>4. ReceivedHasArrived'
      BY <2>2 DEF ToldInv, ReceivedHasArrived, Orderly
    <2>5. StatusTells'
      BY <2>1, <2>2, <2>3 DEF ToldInv, StatusTells, Orderly, AllReceived, MayBecome
    <2> QED
      BY <2>4, <2>5 DEF ToldInv
  <1>5. ASSUME NEW r \in Request, DestroyOrder(r)
        PROVE  ToldInv'
    <2>1. PICK o \in Order : o = OrderOf(r)
      BY <1>5, Copies DEF DestroyOrder, Works
    <2>2. /\ status'[o] = "deleted" /\ received'[o] = None /\ arrived'[o] = None
          /\ \A x \in Order \ {o} : UNCHANGED <<status[x], ordered[x], received[x], arrived[x]>>
          /\ UNCHANGED contended
      BY <1>5, <2>1 DEF DestroyOrder, OrdersInv, OrdersTypeOK
    <2>3. ReceivedHasArrived'
      BY <2>2 DEF ToldInv, ReceivedHasArrived, Orderly
    <2>4. StatusTells'
      BY <2>2 DEF ToldInv, StatusTells, Orderly, AllReceived
    <2> QED
      BY <2>3, <2>4 DEF ToldInv
  <1>6. ASSUME NEW r \in Request,
               Check(r) \/ Read(r) \/ PassOver(r) \/ Write(r) \/ Settle(r)
        PROVE  ToldInv'
    BY <1>6, SameTold DEF Check, Read, PassOver, Write, Settle, order
  <1>7. ASSUME NEW r \in Request, NEW new, NEW lines, EndsReceipt(r, new, lines)
        PROVE  ToldInv'
    BY <1>7, SameTold DEF EndsReceipt
  <1>8. ASSUME NEW r \in Request, Fail(r)
        PROVE  ToldInv'
    BY <1>8, SameTold DEF Fail, order
  <1>9. CASE UNCHANGED vars
    BY <1>9, SameTold DEF vars
  <1> QED
    BY Steps, <1>1, <1>2, <1>3, <1>4, <1>5, <1>6, <1>7, <1>8, <1>9, CommitTold

(* The inductive invariant of an order one request at a time works for: the *)
(* copies requests hold are current, also in the middle of a completion,    *)
(* and the order's quantities and status tell what arrived.                 *)
OrderlyInv == OrdersInv /\ CurrentInv /\ ToldInv

LEMMA OrderlyInit == Init => OrderlyInv
  <1>1. ASSUME Init
        PROVE  CurrentInv /\ ToldInv
    <2>1. CurrentInv
      BY <1>1 DEF Init, CurrentInv, CopiesAreCurrent, CountsAreCurrent, Works
    <2>2. ToldInv
      BY <1>1 DEF Init, ToldInv, ReceivedHasArrived, StatusTells, Orderly
    <2> QED
      BY <2>1, <2>2
  <1> QED
    BY <1>1, InitOrdersInv DEF OrderlyInv

LEMMA OrderlyStep == OrderlyInv /\ [Next]_vars => OrderlyInv'
  BY NextOrdersInv, CurrentStep, ToldStep DEF OrderlyInv

THEOREM OrdersInOrder == Spec => []OrderlyInv
  BY OrderlyInit, OrderlyStep, PTL DEF Spec

(* received_quantity is what arrived, for orders worked for by one request *)
(* at a time.                                                              *)
THEOREM ArrivedTheorem == Spec => []ReceivedHasArrived
  <1>1. OrderlyInv => ReceivedHasArrived
    BY DEF OrderlyInv, ToldInv
  <1> QED
    BY <1>1, OrdersInOrder, PTL

(* The status of such an order tells how far it has been received. *)
THEOREM StatusTheorem == Spec => []StatusTells
  <1>1. OrderlyInv => StatusTells
    BY DEF OrderlyInv, ToldInv
  <1> QED
    BY <1>1, OrdersInOrder, PTL

LEMMA ClosedStep ==
    ASSUME OrderlyInv, [Next]_vars, NEW o \in Order \ contended',
           status[o] \in {"CLOSED", "CANCELLED"}
    PROVE  /\ status'[o] \in {status[o], "deleted"}
           /\ status'[o] = status[o] => received'[o] = received[o]
  <1> USE DEF OrderlyInv
  <1>1. ASSUME NEW x \in Order, CreateOrder(x)
        PROVE  UNCHANGED <<status[o], received[o]>>
    BY <1>1 DEF CreateOrder, PlaceOrder, OrdersInv, OrdersTypeOK
  <1>2. ASSUME NEW r \in Request, NEW new \in OrderStatus, SavesOrder(r, new)
        PROVE  UNCHANGED <<status[o], received[o]>>
    <2>1. /\ status' = [status EXCEPT ![OrderOf(r)] = new] /\ UNCHANGED <<received, contended>>
          /\ MayBecome(request[r].status, new)
      BY <1>2 DEF SavesOrder
    <2>2. OrderOf(r) = o => request[r].status = status[o]
      BY <1>2, <2>1 DEF SavesOrder, CurrentInv, CopiesAreCurrent, Works
    <2> QED
      BY <2>1, <2>2 DEF MayBecome, OrdersInv, OrdersTypeOK
  <1>3. ASSUME NEW r \in Request, DestroyOrder(r)
        PROVE  UNCHANGED <<status[o], received[o]>> \/ status'[o] = "deleted"
    BY <1>3 DEF DestroyOrder, OrdersInv, OrdersTypeOK
  <1>4. ASSUME NEW r \in Request, Complete(r)
        PROVE  UNCHANGED <<status[o], received[o]>>
    <2>1. OrderOf(r) # o
      BY <1>4, CommitTyped, CommitAdds
    <2> QED
      BY <1>4, <2>1, CommitTyped DEF OrdersInv, OrdersTypeOK
  <1>5. ASSUME NEW c \in Receipt, CreateReceipt(c)
        PROVE  UNCHANGED <<status[o], received[o]>>
    BY <1>5 DEF CreateReceipt, order
  <1>6. ASSUME NEW r \in Request,
               \/ LoadOrder(r) \/ LoadReceipt(r) \/ Fail(r)
               \/ Check(r) \/ Read(r) \/ PassOver(r) \/ Write(r) \/ Settle(r)
        PROVE  UNCHANGED <<status[o], received[o]>>
    BY <1>6 DEF LoadOrder, LoadReceipt, Fail, Check, Read, PassOver, Write, Settle, order
  <1>7. ASSUME NEW r \in Request, NEW new, NEW lines, EndsReceipt(r, new, lines)
        PROVE  UNCHANGED <<status[o], received[o]>>
    BY <1>7 DEF EndsReceipt
  <1>8. CASE UNCHANGED vars
    BY <1>8 DEF vars
  <1> QED
    BY Steps, <1>1, <1>2, <1>3, <1>4, <1>5, <1>6, <1>7, <1>8

(* A closed or cancelled order that one request at a time works for stays  *)
(* so and receives nothing more.                                           *)
THEOREM ClosedTheorem == Spec => ClosedForGood
  <1>1. ASSUME OrderlyInv, [Next]_vars
        PROVE  \A o \in Order \ contended' : status[o] \in {"CLOSED", "CANCELLED"} =>
                  /\ status'[o] \in {status[o], "deleted"}
                  /\ status'[o] = status[o] => received'[o] = received[o]
    BY <1>1, ClosedStep
  <1> QED
    BY <1>1, OrdersInOrder, PTL DEF Spec, ClosedForGood
-----------------------------------------------------------------------------
(* What is received of such an order stays within it. *)
FitInv == WithinOrder /\ CountsFit

(* The receipts of an order one request at a time works for keep their     *)
(* lines: only the PATCH of a deleted receipt changes them.                *)
LEMMA PlainStays ==
    ASSUME OrdersInv, CurrentInv, [Next]_vars, NEW o \in Order \ contended'
    PROVE  Plain(o)' => Plain(o)
  <1>1. ASSUME NEW c \in Receipt, head[c].order = o
        PROVE  head'[c] = head[c]
    <2>1. ASSUME NEW r \in Request, NEW new, NEW lines, EndsReceipt(r, new, lines)
          PROVE  head'[c] = head[c]
      <3>1. /\ Works(r, "receipt") /\ request[r] # Idle
            /\ UNCHANGED contended
            /\ head' = [head EXCEPT ![request[r].receipt].lines = lines]
            /\ grn[request[r].receipt] # "deleted" => UNCHANGED head
        BY <2>1 DEF EndsReceipt, Works
      <3>2. CASE c = request[r].receipt
        <4>1. OrderOf(r) = o /\ request[r] \in ReceiptCopy
          BY <1>1, <3>1, <3>2, Copies
        <4>2. grn[request[r].receipt] = request[r].status
          BY <3>1, <4>1 DEF CurrentInv, CopiesAreCurrent
        <4>3. request[r].status # "deleted"
          BY <4>1 DEF ReceiptCopy, ReceiptStatus
        <4> QED
          BY <3>1, <4>2, <4>3
      <3>3. CASE c # request[r].receipt
        BY <3>1, <3>3 DEF OrdersInv, OrdersTypeOK
      <3> QED
        BY <3>2, <3>3
    <2>2. ASSUME NEW x \in Order, CreateOrder(x)
          PROVE  UNCHANGED head
      BY <2>2 DEF CreateOrder, PlaceOrder, receipt
    <2>3. ASSUME NEW x \in Receipt, CreateReceipt(x)
          PROVE  UNCHANGED head
      BY <2>3 DEF CreateReceipt
    <2>4. ASSUME NEW r \in Request, NEW new, SavesOrder(r, new)
          PROVE  UNCHANGED head
      BY <2>4 DEF SavesOrder
    <2>5. ASSUME NEW r \in Request,
                 \/ LoadOrder(r) \/ LoadReceipt(r) \/ DestroyOrder(r) \/ Complete(r) \/ Fail(r)
                 \/ Check(r) \/ Read(r) \/ PassOver(r) \/ Write(r) \/ Settle(r)
          PROVE  UNCHANGED head
      BY <2>5 DEF LoadOrder, LoadReceipt, DestroyOrder, Complete, Fail, Check, Read, PassOver,
                  Write, Settle, receipt
    <2>6. CASE UNCHANGED vars
      BY <2>6 DEF vars
    <2> QED
      BY Steps, <2>1, <2>2, <2>3, <2>4, <2>5, <2>6
  <1> QED
    BY <1>1 DEF Plain, OneLineEach

LEMMA ContentionStays ==
    ASSUME OrdersInv, [Next]_vars
    PROVE  contended \subseteq contended'
  <1>1. ASSUME NEW o \in Order, CreateOrder(o)
        PROVE  UNCHANGED contended
    BY <1>1 DEF CreateOrder, PlaceOrder
  <1>2. ASSUME NEW c \in Receipt, CreateReceipt(c)
        PROVE  UNCHANGED contended
    BY <1>2 DEF CreateReceipt
  <1>3. ASSUME NEW r \in Request, LoadOrder(r) \/ LoadReceipt(r)
        PROVE  contended \subseteq contended'
    BY <1>3 DEF LoadOrder, LoadReceipt, Contend
  <1>4. ASSUME NEW r \in Request,
               \/ DestroyOrder(r) \/ Complete(r) \/ Fail(r)
               \/ Check(r) \/ Read(r) \/ PassOver(r) \/ Write(r) \/ Settle(r)
        PROVE  UNCHANGED contended
    BY <1>4 DEF DestroyOrder, Complete, Fail, Check, Read, PassOver, Write, Settle
  <1>5. ASSUME NEW r \in Request, NEW new, SavesOrder(r, new)
        PROVE  UNCHANGED contended
    BY <1>5 DEF SavesOrder
  <1>6. ASSUME NEW r \in Request, NEW new, NEW lines, EndsReceipt(r, new, lines)
        PROVE  UNCHANGED contended
    BY <1>6 DEF EndsReceipt
  <1>7. CASE UNCHANGED vars
    BY <1>7 DEF vars
  <1> QED
    BY Steps, <1>1, <1>2, <1>3, <1>4, <1>5, <1>6, <1>7

(* Amounts of orders and lines are numbers. *)
LEMMA OrderAmounts ==
    ASSUME OrdersInv, NEW o \in Order, NEW n \in DOMAIN ordered[o]
    PROVE  /\ n \in Position /\ ordered[o][n][2] \in Nat
           /\ received[o] \in Amounts /\ received[o][n] \in Nat
  BY LinesShape DEF OrdersInv, OrdersTypeOK, Amounts

(* What the completion of s has counted and will count fits order o. *)
FitsIn(s, o) ==
    \A n \in DOMAIN ordered[o] :
        /\ received[o][n] + request[s].taken[n] <= ordered[o][n][2]
        /\ request[s].phase # "loaded" =>
              \A k \in DOMAIN Note(s).lines :
                  k >= request[s].next /\ IsLineFor(ordered[o], Note(s).lines[k], n) =>
                      /\ n \notin request[s].locked
                      /\ Note(s).lines[k][2] <= ordered[o][n][2] - received[o][n]

(* Steps that leave order o and the completion of s alone. *)
LEMMA SameFit ==
    ASSUME NEW s \in Request, NEW o \in Order, FitsIn(s, o),
           UNCHANGED <<ordered[o], received[o], request[s]>>
    PROVE  FitsIn(s, o)'
  BY DEF FitsIn, Note

(* The orders and requests a step leaves alone, and the others. *)
LEMMA FitFrame ==
    ASSUME OrdersInv, CurrentInv, FitInv, [Next]_vars,
           \A o \in Order \ contended' : Plain(o) /\ ~UNCHANGED <<ordered[o], received[o]>> =>
               \A n \in DOMAIN ordered'[o] : received'[o][n] <= ordered'[o][n][2],
           \A o \in Order \ contended', s \in Request :
               Plain(o) /\ (Works(s, "receipt") /\ OrderOf(s) = o)' =>
                   \/ FitsIn(s, o)'
                   \/ /\ Works(s, "receipt") /\ OrderOf(s) = o
                      /\ UNCHANGED <<ordered[o], received[o], request[s]>>
    PROVE  FitInv'
  <1>1. contended \subseteq contended'
    BY ContentionStays
  <1>2. ASSUME NEW o \in Order \ contended', Plain(o)'
        PROVE  /\ \A n \in DOMAIN ordered'[o] : received'[o][n] <= ordered'[o][n][2]
               /\ \A s \in Request : (Works(s, "receipt") /\ OrderOf(s) = o)' => FitsIn(s, o)'
    <2>1. Plain(o) /\ o \in Orderly
      BY <1>1, <1>2, PlainStays DEF Orderly
    <2>2. \A n \in DOMAIN ordered[o] : received[o][n] <= ordered[o][n][2]
      BY <2>1 DEF FitInv, WithinOrder
    <2>3. \A s \in Request : Works(s, "receipt") /\ OrderOf(s) = o => FitsIn(s, o)
      BY <2>1 DEF FitInv, CountsFit, FitsIn
    <2> QED
      BY <2>1, <2>2, <2>3, SameFit
  <1>3. WithinOrder'
    BY <1>2 DEF WithinOrder, Orderly
  <1>4. CountsFit'
    BY <1>2 DEF CountsFit, FitsIn, Orderly
  <1> QED
    BY <1>3, <1>4 DEF FitInv

(* A request ends, having changed its own order only. *)
LEMMA EndedFit ==
    ASSUME OrdersInv, CurrentInv, FitInv, [Next]_vars,
           NEW r \in Request, request[r] # Idle, Done(r), NEW x \in Order, x = OrderOf(r),
           \A o \in Order \ {x} : UNCHANGED <<ordered[o], received[o]>>,
           x \notin contended' /\ Plain(x) /\ ~UNCHANGED <<ordered[x], received[x]>> =>
               \A n \in DOMAIN ordered'[x] : received'[x][n] <= ordered'[x][n][2]
    PROVE  FitInv'
  <1>1. ASSUME NEW o \in Order \ contended', NEW s \in Request,
               (Works(s, "receipt") /\ OrderOf(s) = o)'
        PROVE  /\ Works(s, "receipt") /\ OrderOf(s) = o
               /\ UNCHANGED <<ordered[o], received[o], request[s]>>
    <2>1. s # r /\ request[s] # Idle /\ request'[s] = request[s]
      BY <1>1, Ended DEF Works
    <2>2. Works(s, "receipt") /\ OrderOf(s) = o /\ o \notin contended
      BY <1>1, <2>1, ContentionStays DEF Works, OrderOf
    <2>3. o # x
      BY <2>1, <2>2 DEF CurrentInv, CopiesAreCurrent
    <2> QED
      BY <2>1, <2>2, <2>3
  <1> QED
    BY <1>1, FitFrame

(* A step of a completion before its commit: what it counts it was checked *)
(* for, and no other line of the receipt is for the same order line.       *)
LEMMA CountedFit ==
    ASSUME OrdersInv, CurrentInv, FitInv, [Next]_vars, NEW r \in Request,
           Check(r) \/ Read(r) \/ PassOver(r) \/ Write(r) \/ Settle(r)
    PROVE  FitInv'
  <1>1. PICK copy : Counts(r, copy) /\ Counting(r, copy)
    BY CountDetails
  <1>2. /\ Works(r, "receipt") /\ request[r] # Idle
        /\ request'[r] = copy /\ copy.row = Note(r) /\ copy.order = OrderOf(r)
        /\ \A s \in Request : s # r => request'[s] = request[s]
        /\ UNCHANGED <<ordered, received, contended>>
    BY <1>1, Others DEF Counts, OrderOf, Note, Works
  <1>3. PICK o \in Order : o = OrderOf(r)
    BY <1>2, Amount
  <1>4. /\ request[r] \in ReceiptCopy /\ request[r].receipt \in Receipt
        /\ request[r].taken \in Amounts /\ received[o] \in Amounts
        /\ ordered[o] \in Lines /\ LinesOf(r) = ordered[o]
        /\ Note(r).lines \in Lines /\ head[request[r].receipt].order = o
    BY <1>2, <1>3, Amount, Copies DEF LinesOf
  <1>5. ASSUME o \notin contended, Plain(o)
        PROVE  FitsIn(r, o)'
    <2>1. FitsIn(r, o)
      BY <1>2, <1>3, <1>5 DEF FitInv, CountsFit, FitsIn, Orderly
    <2>2. FitsIn(r, o)' <=>
             \A n \in DOMAIN ordered[o] :
                /\ received[o][n] + copy.taken[n] <= ordered[o][n][2]
                /\ copy.phase # "loaded" =>
                      \A k \in DOMAIN Note(r).lines :
                          k >= copy.next /\ IsLineFor(ordered[o], Note(r).lines[k], n) =>
                              /\ n \notin copy.locked
                              /\ Note(r).lines[k][2] <= ordered[o][n][2] - received[o][n]
      BY <1>2 DEF FitsIn, Note
    <2>3. CASE Checks(r, copy)
      <3>1. request[r].locked = {}
        BY <1>2, <2>3 DEF Checks, OrdersInv, CopiesBelong
      <3> QED
        BY <1>3, <1>4, <2>1, <2>2, <2>3, <3>1 DEF Checks, FitsIn
    <2>4. CASE Settles(r, copy)
      BY <2>1, <2>2, <2>4 DEF Settles, FitsIn
    <2>5. CASE Passes(r, copy)
      <3>1. \A k \in DOMAIN Note(r).lines :
               k >= request[r].next + 1 => k >= request[r].next
        BY <1>4, LinesShape DEF ReceiptCopy, Position
      <3> QED
        BY <2>1, <2>2, <2>5, <3>1 DEF Passes, FitsIn
    <2>6. ASSUME NEW m \in DOMAIN ordered[o], Reads(r, copy, m)
          PROVE  FitsIn(r, o)'
      BY <2>1, <2>2, <2>6 DEF Reads, FitsIn
    <2>7. ASSUME NEW m \in DOMAIN ordered[o], NEW q \in Nat, Writes(r, copy, m, q)
          PROVE  FitsIn(r, o)'
      <3>1. /\ IsLineFor(ordered[o], Item(r), m) /\ q = Item(r)[2]
            /\ request[r].next \in DOMAIN Note(r).lines
            /\ request[r].phase = "read"
            /\ copy.next = request[r].next + 1 /\ copy.locked = request[r].locked \cup {m}
            /\ copy.taken = [request[r].taken EXCEPT ![m] = @ + q]
        BY <1>2, <1>4, <2>7, Copies DEF Writes
      <3>2. m \notin request[r].locked /\ q <= ordered[o][m][2] - received[o][m]
        BY <1>4, <2>1, <3>1, LinesShape DEF FitsIn, Item, Position
      <3>3. request[r].taken[m] = 0
        BY <1>2, <1>3, <1>4, <1>5, <3>2, LinesShape DEF CurrentInv, CountsAreCurrent
      <3>4. \A j, k \in DOMAIN Note(r).lines :
               Note(r).lines[j][1] = Note(r).lines[k][1] => j = k
        <4>1. OneLineEach(request[r].receipt)
          BY <1>4, <1>5 DEF Plain
        <4>2. head[request[r].receipt] = Note(r)
          BY <1>2, <1>3, <1>5 DEF CurrentInv, CopiesAreCurrent
        <4> QED
          BY <4>1, <4>2 DEF OneLineEach
      <3>5. ASSUME NEW n \in DOMAIN ordered[o]
            PROVE  received[o][n] + copy.taken[n] <= ordered[o][n][2]
        <4>1. /\ n \in Position /\ m \in Position
              /\ received[o][n] \in Nat /\ request[r].taken[n] \in Nat /\ ordered[o][n][2] \in Nat
          BY <1>4, LinesShape DEF Amounts
        <4>2. CASE n = m
          <5>1. copy.taken[n] = q
            BY <1>4, <3>1, <3>3, <4>1, <4>2 DEF Amounts
          <5> QED
            BY <3>2, <4>1, <4>2, <5>1
        <4>3. CASE n # m
          <5>1. copy.taken[n] = request[r].taken[n]
            BY <1>4, <3>1, <4>1, <4>3 DEF Amounts
          <5> QED
            BY <2>1, <5>1 DEF FitsIn
        <4> QED
          BY <4>2, <4>3
      <3>6. ASSUME NEW n \in DOMAIN ordered[o], NEW k \in DOMAIN Note(r).lines,
                   k >= copy.next, IsLineFor(ordered[o], Note(r).lines[k], n)
            PROVE  /\ n \notin copy.locked
                   /\ Note(r).lines[k][2] <= ordered[o][n][2] - received[o][n]
        <4>1. k >= request[r].next /\ k # request[r].next
          BY <1>4, <3>1, <3>6, LinesShape DEF ReceiptCopy, Position
        <4>2. n # m
          BY <3>1, <3>4, <3>6, <4>1 DEF IsLineFor, Item
        <4>3. /\ n \notin request[r].locked
              /\ Note(r).lines[k][2] <= ordered[o][n][2] - received[o][n]
          BY <2>1, <3>1, <3>6, <4>1 DEF FitsIn
        <4> QED
          BY <3>1, <4>2, <4>3
      <3> QED
        BY <2>2, <3>5, <3>6
    <2> QED
      BY <1>1, <1>4, <2>3, <2>4, <2>5, <2>6, <2>7 DEF Counting
  <1>6. ASSUME NEW y \in Order \ contended', NEW s \in Request, Plain(y),
               (Works(s, "receipt") /\ OrderOf(s) = y)'
        PROVE  \/ FitsIn(s, y)'
               \/ /\ Works(s, "receipt") /\ OrderOf(s) = y
                  /\ UNCHANGED <<ordered[y], received[y], request[s]>>
    <2>1. CASE s = r
      <3>1. y = o
        BY <1>2, <1>3, <1>6, <2>1 DEF OrderOf
      <3> QED
        BY <1>2, <1>5, <1>6, <2>1, <3>1
    <2>2. CASE s # r
      BY <1>2, <1>6, <2>2 DEF Works, OrderOf
    <2> QED
      BY <2>1, <2>2
  <1>7. \A y \in Order : UNCHANGED <<ordered[y], received[y]>>
    BY <1>2
  <1> QED
    BY <1>6, <1>7, FitFrame

LEMMA FitStep ==
    ASSUME OrdersInv, CurrentInv, FitInv, [Next]_vars
    PROVE  FitInv'
  <1>1. ASSUME NEW x \in Order, CreateOrder(x)
        PROVE  FitInv'
    <2>1. PICK lines \in Lines :
             /\ status[x] = "unborn"
             /\ ordered' = [ordered EXCEPT ![x] = lines]
             /\ UNCHANGED <<received, request, contended>>
      BY <1>1, NewAssumption DEF CreateOrder, PlaceOrder
    <2>2. \A n \in DOMAIN ordered'[x] : received'[x][n] <= ordered'[x][n][2]
      BY <2>1, LinesShape DEF OrdersInv, OrdersTypeOK, CopiesBelong, None
    <2>3. \A o \in Order \ {x} : UNCHANGED <<ordered[o], received[o]>>
      BY <2>1 DEF OrdersInv, OrdersTypeOK
    <2>4. \A s \in Request : Works(s, "receipt") => OrderOf(s) # x
      BY <2>1, Copies DEF Works
    <2>5. ASSUME NEW o \in Order, NEW s \in Request, (Works(s, "receipt") /\ OrderOf(s) = o)'
          PROVE  /\ Works(s, "receipt") /\ OrderOf(s) = o
                 /\ UNCHANGED <<ordered[o], received[o], request[s]>>
      BY <2>1, <2>3, <2>4, <2>5 DEF Works, OrderOf
    <2> QED
      BY <2>2, <2>3, <2>5, FitFrame
  <1>2. ASSUME NEW r \in Request, LoadOrder(r) \/ LoadReceipt(r)
        PROVE  FitInv'
    <2>1. PICK x \in Order, copy \in OrderCopy \cup ReceiptCopy :
             /\ Loads(r, x, copy)
             /\ copy.on = "receipt" => copy.phase = "loaded" /\ copy.taken = None
      BY <1>2, LoadSteps
    <2>2. /\ request'[r] = copy /\ copy.order = x
          /\ \A s \in Request : s # r => request'[s] = request[s]
          /\ UNCHANGED <<ordered, received>>
      BY <2>1, Others DEF Loads
    <2>3. ASSUME x \notin contended', Plain(x), copy.on = "receipt"
          PROVE  FitsIn(r, x)'
      <3>1. \A n \in DOMAIN ordered[x] :
               /\ n \in Position /\ received[x][n] \in Nat
               /\ received[x][n] <= ordered[x][n][2]
        BY <2>3, ContentionStays, OrderAmounts DEF FitInv, WithinOrder, Orderly
      <3> QED
        BY <2>1, <2>2, <2>3, <3>1 DEF FitsIn, None
    <2>4. ASSUME NEW o \in Order \ contended', NEW s \in Request, Plain(o),
                 (Works(s, "receipt") /\ OrderOf(s) = o)'
          PROVE  \/ FitsIn(s, o)'
                 \/ /\ Works(s, "receipt") /\ OrderOf(s) = o
                    /\ UNCHANGED <<ordered[o], received[o], request[s]>>
      <3>1. CASE s = r
        BY <2>2, <2>3, <2>4, <3>1 DEF Works, OrderOf
      <3>2. CASE s # r
        BY <2>2, <2>4, <3>2 DEF Works, OrderOf
      <3> QED
        BY <3>1, <3>2
    <2>5. \A o \in Order : UNCHANGED <<ordered[o], received[o]>>
      BY <2>2
    <2> QED
      BY <2>4, <2>5, FitFrame
  <1>3. ASSUME NEW r \in Request, Complete(r)
        PROVE  FitInv'
    <2>1. PICK x \in Order :
             /\ x = OrderOf(r) /\ request[r] # Idle /\ Done(r) /\ Works(r, "receipt")
             /\ received' = [received EXCEPT ![x] = Written(r)]
             /\ UNCHANGED <<ordered, contended>>
      BY <1>3, CommitTyped
    <2>2. \A o \in Order \ {x} : UNCHANGED <<ordered[o], received[o]>>
      BY <2>1 DEF OrdersInv, OrdersTypeOK
    <2>3. ASSUME x \notin contended, Plain(x), NEW n \in DOMAIN ordered[x]
          PROVE  received'[x][n] <= ordered[x][n][2]
      <3>1. received'[x][n] = received[x][n] + request[r].taken[n]
        BY <1>3, <2>1, <2>3, CommitAdds, OrderAmounts DEF OrdersInv, OrdersTypeOK
      <3>2. received[x][n] + request[r].taken[n] <= ordered[x][n][2]
        BY <2>1, <2>3 DEF FitInv, CountsFit, Orderly
      <3> QED
        BY <3>1, <3>2
    <2> QED
      BY <2>1, <2>2, <2>3, EndedFit
  <1>4. ASSUME NEW r \in Request, DestroyOrder(r)
        PROVE  FitInv'
    <2>1. /\ request[r] # Idle /\ Done(r)
          /\ ordered' = [ordered EXCEPT ![OrderOf(r)] = <<>>]
          /\ received' = [received EXCEPT ![OrderOf(r)] = None]
      BY <1>4 DEF DestroyOrder, Works
    <2>2. PICK x \in Order : x = OrderOf(r)
      BY <2>1, Copies
    <2>3. /\ DOMAIN ordered'[x] = {}
          /\ \A o \in Order \ {x} : UNCHANGED <<ordered[o], received[o]>>
      BY <2>1, <2>2, NoLines DEF OrdersInv, OrdersTypeOK
    <2> QED
      BY <2>1, <2>2, <2>3, EndedFit
  <1>5. ASSUME NEW r \in Request, request[r] # Idle, Done(r), UNCHANGED <<ordered, received>>
        PROVE  FitInv'
    <2>1. PICK x \in Order : x = OrderOf(r)
      BY <1>5, Copies
    <2>2. \A o \in Order : UNCHANGED <<ordered[o], received[o]>>
      BY <1>5
    <2> QED
      BY <1>5, <2>1, <2>2, EndedFit
  <1>6. ASSUME NEW r \in Request, NEW new, SavesOrder(r, new)
        PROVE  FitInv'
    BY <1>5, <1>6 DEF SavesOrder, Works
  <1>7. ASSUME NEW r \in Request, NEW new, NEW lines, EndsReceipt(r, new, lines)
        PROVE  FitInv'
    BY <1>5, <1>7 DEF EndsReceipt, Works
  <1>8. ASSUME NEW r \in Request, Fail(r)
        PROVE  FitInv'
    BY <1>5, <1>8 DEF Fail, order
  <1>9. ASSUME UNCHANGED <<ordered, received, request>>
        PROVE  FitInv'
    <2>1. \A o \in Order : UNCHANGED <<ordered[o], received[o]>>
      BY <1>9
    <2>2. ASSUME NEW o \in Order, NEW s \in Request, (Works(s, "receipt") /\ OrderOf(s) = o)'
          PROVE  /\ Works(s, "receipt") /\ OrderOf(s) = o
                 /\ UNCHANGED <<ordered[o], received[o], request[s]>>
      BY <1>9, <2>2 DEF Works, OrderOf
    <2> QED
      BY <2>1, <2>2, FitFrame
  <1>10. ASSUME NEW c \in Receipt, CreateReceipt(c)
         PROVE  FitInv'
    BY <1>9, <1>10 DEF CreateReceipt, order
  <1>11. CASE UNCHANGED vars
    BY <1>9, <1>11 DEF vars
  <1> QED
    BY Steps, <1>1, <1>2, <1>3, <1>4, <1>6, <1>7, <1>8, <1>10, <1>11, CountedFit

(* An order that one request at a time works for is never over-received, as *)
(* long as no receipt of it names a product twice.                          *)
THEOREM WithinTheorem == Spec => []WithinOrder
  <1>1. Init => OrderlyInv
    BY OrderlyInit
  <1>2. Init => FitInv
    <2>1. ASSUME Init
          PROVE  FitInv
      <3>1. \A o \in Order : DOMAIN ordered[o] = {}
        BY <2>1, NoLines DEF Init
      <3>2. Orderly \subseteq Order
        BY DEF Orderly
      <3> QED
        BY <3>1, <3>2 DEF FitInv, WithinOrder, CountsFit
    <2> QED
      BY <2>1
  <1>3. OrderlyInv /\ FitInv /\ [Next]_vars => OrderlyInv' /\ FitInv'
    BY OrderlyStep, FitStep DEF OrderlyInv
  <1>4. FitInv => WithinOrder
    BY DEF FitInv
  <1> QED
    BY <1>1, <1>2, <1>3, <1>4, PTL DEF Spec
=============================================================================
