------------------------ MODULE InvoiceStock_proofs -------------------------
(***************************************************************************)
(* Proofs about InvoiceStock, for any invoices, requests, items, products  *)
(* and warehouses.  Most are about the movements an invoice has, not about *)
(* the balances those lead to.  What a posting makes of balances, and what *)
(* the goods of an invoice are, are folds, of which the last section shows *)
(* what the types need: a block that has an outcome keeps balances         *)
(* integers and names no cell without one.                                 *)
(***************************************************************************)
EXTENDS InvoiceStock, SumTheorems, TLAPS

-----------------------------------------------------------------------------
(* The types of what is not stock.  An invoice that was never created has  *)
(* no movements, and a request only works on one that was.                 *)
InvoicesTypeOK ==
    /\ status \in [Invoice -> Status \cup Absent]
    /\ flag \in [Invoice -> BOOLEAN]
    /\ warehouse \in [Invoice -> Place]
    /\ lines \in [Invoice -> Lines]
    /\ moves = [i \in Invoice |-> moves[i]]
    /\ \A i \in Invoice : status[i] = "unborn" => moves[i] = <<>>
    /\ request \in [Request -> Copy \cup {Idle}]
    /\ \A r \in Request : request[r] # Idle => status[Of(r)] # "unborn"
    /\ contended \subseteq Invoice
    /\ patched \subseteq Invoice

(* What a request works on is a copy of an invoice. *)
LEMMA WorkingCopy ==
    ASSUME InvoicesTypeOK, NEW r \in Request, request[r] # Idle
    PROVE  /\ request[r] \in Copy
           /\ Of(r) \in Invoice
           /\ Loaded(r) \in Row
           /\ Loaded(r).status \in Status
           /\ Loaded(r).flag \in BOOLEAN
           /\ Loaded(r).warehouse \in Place
           /\ Loaded(r).lines \in Lines
           /\ status[Of(r)] # "unborn"
  BY DEF InvoicesTypeOK, Copy, Of, Loaded, Row

LEMMA NoItems == <<>> \in Lines
  <1>1. <<>> \in [1..0 -> Line]
    OBVIOUS
  <1>2. 0 \in 0..MaxLines
    BY LinesAssumption
  <1> QED
    BY <1>1, <1>2 DEF Lines, BoundedSeq, SeqOf

LEMMA InitInvoicesTypeOK == Init => InvoicesTypeOK
  BY NoItems DEF Init, InvoicesTypeOK, Absent, Place

(* The end of a request that leaves its invoice with the row `new`. *)
LEMMA EndedTypeOK ==
    ASSUME InvoicesTypeOK, NEW r \in Request, request[r] # Idle, Done(r),
           NEW i \in Invoice, i = Of(r),
           NEW st \in Status \cup {"deleted"}, status' = [status EXCEPT ![i] = st],
           NEW fl \in BOOLEAN, flag' = [flag EXCEPT ![i] = fl],
           NEW wh \in Place, warehouse' = [warehouse EXCEPT ![i] = wh],
           NEW items \in Lines, lines' = [lines EXCEPT ![i] = items],
           NEW m, moves' = [moves EXCEPT ![i] = m],
           contended' = contended, patched' \subseteq Invoice
    PROVE  InvoicesTypeOK'
  <1>1. /\ status' \in [Invoice -> Status \cup Absent]
        /\ flag' \in [Invoice -> BOOLEAN]
        /\ warehouse' \in [Invoice -> Place]
        /\ lines' \in [Invoice -> Lines]
        /\ moves' = [j \in Invoice |-> moves'[j]]
        /\ request' \in [Request -> Copy \cup {Idle}]
        /\ contended' \subseteq Invoice
    BY DEF InvoicesTypeOK, Done, Absent
  <1>2. st # "unborn" /\ status'[i] = st
    BY DEF InvoicesTypeOK, Status, Choice
  <1>3. \A j \in Invoice : j # i => status'[j] = status[j] /\ moves'[j] = moves[j]
    BY DEF InvoicesTypeOK
  <1>4. \A j \in Invoice : status'[j] = "unborn" => moves'[j] = <<>>
    BY <1>2, <1>3 DEF InvoicesTypeOK
  <1>5. ASSUME NEW s \in Request, request'[s] # Idle
        PROVE  status'[Of(s)'] # "unborn"
    <2>1. request[s] # Idle /\ request'[s] = request[s]
      BY <1>5 DEF InvoicesTypeOK, Done
    <2>2. Of(s) \in Invoice /\ Of(s)' = Of(s) /\ status[Of(s)] # "unborn"
      BY <2>1, WorkingCopy DEF Of
    <2> QED
      BY <2>2, <1>2, <1>3
  <1>6. \A s \in Request : request'[s] # Idle => status'[Of(s)'] # "unborn"
    BY <1>5
  <1> QED
    BY <1>1, <1>4, <1>6 DEF InvoicesTypeOK, Of

(* An action leaves of these columns what it does not mention. *)
LEMMA Unwritten ==
    ASSUME InvoicesTypeOK, NEW i \in Invoice
    PROVE  /\ status = [status EXCEPT ![i] = status[i]]
           /\ flag = [flag EXCEPT ![i] = flag[i]]
           /\ warehouse = [warehouse EXCEPT ![i] = warehouse[i]]
           /\ lines = [lines EXCEPT ![i] = lines[i]]
           /\ moves = [moves EXCEPT ![i] = moves[i]]
           /\ flag[i] \in BOOLEAN /\ warehouse[i] \in Place /\ lines[i] \in Lines
           /\ status[i] \in Status \cup Absent
  BY DEF InvoicesTypeOK

(* The movements of one invoice at most. *)
LEMMA Recorded ==
    ASSUME InvoicesTypeOK, NEW i \in Invoice, NEW type, NEW place, NEW goods,
           Record(i, type, place, goods)
    PROVE  moves' = [moves EXCEPT ![i] =
              IF goods = <<>> THEN moves[i]
              ELSE Append(moves[i], Movement(type, place, goods))]
  BY Unwritten DEF Record, InvoicesTypeOK

LEMMA NextInvoicesTypeOK ==
    ASSUME InvoicesTypeOK, [Next]_vars
    PROVE  InvoicesTypeOK'
  <1>1. ASSUME NEW i \in Invoice, Create(i)
        PROVE  InvoicesTypeOK'
    <2>1. PICK new \in NewInvoices :
             /\ status' = [status EXCEPT ![i] = new.status]
             /\ flag' = [flag EXCEPT ![i] = new.flag]
             /\ warehouse' = [warehouse EXCEPT ![i] = new.warehouse]
             /\ lines' = [lines EXCEPT ![i] = new.lines]
             /\ patched' = patched \cup {j \in {i} : new.flag}
      BY <1>1 DEF Create
    <2>2. /\ new.status \in Status /\ new.status # "unborn"
          /\ new.flag \in BOOLEAN /\ new.warehouse \in Place /\ new.lines \in Lines
      BY InvoicesAssumption DEF Row, Status, Choice
    <2>3. status[i] = "unborn" /\ UNCHANGED <<moves, request, contended>>
      BY <1>1 DEF Create
    <2>4. \A r \in Request : request[r] # Idle => Of(r) \in Invoice /\ Of(r) # i
      BY <2>3, WorkingCopy
    <2>5. \A r \in Request : request'[r] # Idle => status'[Of(r)'] # "unborn"
      BY <2>1, <2>3, <2>4 DEF InvoicesTypeOK, Of
    <2> QED
      BY <2>1, <2>2, <2>3, <2>5 DEF InvoicesTypeOK, Of
  <1>2. ASSUME NEW r \in Request, Load(r)
        PROVE  InvoicesTypeOK'
    <2>1. PICK i \in Invoice :
             /\ Exists(i)
             /\ request' = [request EXCEPT ![r] =
                   [invoice |-> i, prepared |-> FALSE,
                    row |-> [status |-> status[i], flag |-> flag[i],
                             warehouse |-> warehouse[i], lines |-> lines[i]]]]
             /\ contended' \subseteq contended \cup {i}
      BY <1>2 DEF Load
    <2>2. UNCHANGED <<row, moves, patched>>
      BY <1>2 DEF Load
    <2>3. [status |-> status[i], flag |-> flag[i], warehouse |-> warehouse[i],
           lines |-> lines[i]] \in Row
      BY <2>1, Unwritten DEF Exists, Absent, Row
    <2>4. [invoice |-> i, prepared |-> FALSE,
           row |-> [status |-> status[i], flag |-> flag[i],
                    warehouse |-> warehouse[i], lines |-> lines[i]]] \in Copy
      BY <2>3 DEF Copy
    <2>5. request' \in [Request -> Copy \cup {Idle}]
      BY <2>1, <2>4 DEF InvoicesTypeOK
    <2>6. \A s \in Request : request'[s] # Idle => status'[Of(s)'] # "unborn"
      <3>1. \A s \in Request : s # r => request'[s] = request[s]
        BY <2>1 DEF InvoicesTypeOK
      <3>2. request'[r].invoice = i
        BY <2>1 DEF InvoicesTypeOK
      <3> QED
        BY <2>1, <2>2, <3>1, <3>2 DEF InvoicesTypeOK, Exists, Absent, Of, row
    <2> QED
      BY <2>1, <2>2, <2>5, <2>6 DEF InvoicesTypeOK, row, Of
  <1>3. ASSUME NEW r \in Request, Prepare(r)
        PROVE  InvoicesTypeOK'
    <2>1. PICK place :
             /\ place \in {DefaultWarehouse[Of(r)], Loaded(r).warehouse}
             /\ request' = [request EXCEPT ![r].prepared = TRUE,
                                           ![r].row.warehouse = place]
      BY <1>3 DEF Prepare
    <2>2. request[r] # Idle /\ UNCHANGED <<row, moves, contended, patched>>
      BY <1>3 DEF Prepare, Working
    <2>3. place \in Place
      BY <2>1, <2>2, WorkingCopy, InvoicesAssumption
    <2>4. [request[r] EXCEPT !.prepared = TRUE, !.row.warehouse = place] \in Copy
      BY <2>2, <2>3, WorkingCopy DEF Copy, Row
    <2>5. request' \in [Request -> Copy \cup {Idle}]
      BY <2>1, <2>4 DEF InvoicesTypeOK
    <2>6. \A s \in Request : request'[s] # Idle => request[s] # Idle /\ Of(s)' = Of(s)
      BY <2>1, <2>2, WorkingCopy DEF InvoicesTypeOK, Of, Copy
    <2> QED
      BY <2>2, <2>5, <2>6 DEF InvoicesTypeOK, row
  <1>4. ASSUME NEW r \in Request, Issue(r)
        PROVE  InvoicesTypeOK'
    <2>0. PICK i \in Invoice : i = Of(r)
      BY <1>4, WorkingCopy DEF Issue
    <2>1. request[r] # Idle /\ Loaded(r) \in Row
      BY <1>4, WorkingCopy DEF Issue
    <2>2. PICK m : moves' = [moves EXCEPT ![i] = m]
      BY <1>4, <2>0, Recorded DEF Issue
    <2>3. /\ status' = [status EXCEPT ![i] = "COMPLETED"]
          /\ flag' = [flag EXCEPT ![i] = TRUE]
          /\ warehouse' = [warehouse EXCEPT ![i] = Loaded(r).warehouse]
      BY <1>4, <2>0, <2>1 DEF Issue, Save, Row
    <2>4. lines' = [lines EXCEPT ![i] = lines[i]] /\ lines[i] \in Lines
      BY <1>4, Unwritten DEF Issue
    <2>5. Done(r) /\ contended' = contended /\ patched' \subseteq Invoice
      BY <1>4 DEF Issue, InvoicesTypeOK
    <2>6. "COMPLETED" \in Status \cup {"deleted"} /\ Loaded(r).warehouse \in Place
      BY <2>1 DEF Row, Status
    <2> QED
      BY <2>0, <2>1, <2>2, <2>3, <2>4, <2>5, <2>6, EndedTypeOK
  <1>5. ASSUME NEW r \in Request, Cancel(r)
        PROVE  InvoicesTypeOK'
    <2>0. PICK i \in Invoice : i = Of(r)
      BY <1>5, WorkingCopy DEF Cancel, Working
    <2>1. request[r] # Idle /\ Done(r) /\ contended' = contended /\ patched' \subseteq Invoice
      BY <1>5 DEF Cancel, Working, InvoicesTypeOK
    <2>2. PICK m : moves' = [moves EXCEPT ![i] = m]
      <3>1. \/ Record(i, "RETURN", Loaded(r).warehouse, Goods(Loaded(r).lines))
            \/ moves' = moves
        BY <1>5, <2>0 DEF Cancel
      <3>2. CASE Record(i, "RETURN", Loaded(r).warehouse, Goods(Loaded(r).lines))
        BY <3>2, Recorded
      <3>3. CASE moves' = moves
        <4>1. moves' = [moves EXCEPT ![i] = moves[i]]
          BY <3>3, Unwritten
        <4> QED
          BY <4>1
      <3> QED
        BY <3>1, <3>2, <3>3
    <2>3. status' = [status EXCEPT ![i] = "CANCELLED"]
      BY <1>5, <2>0 DEF Cancel
    <2>4. PICK fl \in BOOLEAN : flag' = [flag EXCEPT ![i] = fl]
      BY <1>5, <2>0 DEF Cancel
    <2>5. UNCHANGED <<warehouse, lines>> /\ "CANCELLED" \in Status \cup {"deleted"}
      BY <1>5 DEF Cancel, Status, Choice
    <2>6. /\ warehouse' = [warehouse EXCEPT ![i] = warehouse[i]] /\ warehouse[i] \in Place
          /\ lines' = [lines EXCEPT ![i] = lines[i]] /\ lines[i] \in Lines
      BY <2>5, Unwritten
    <2> QED
      BY <2>0, <2>1, <2>2, <2>3, <2>4, <2>5, <2>6, EndedTypeOK
  <1>6. ASSUME NEW r \in Request, NEW form \in Form, Edit(r, form)
        PROVE  InvoicesTypeOK'
    <2>0. PICK i \in Invoice : i = Of(r)
      BY <1>6, WorkingCopy DEF Edit, Working
    <2>1. /\ request[r] # Idle /\ Loaded(r) \in Row
          /\ Done(r) /\ contended' = contended /\ patched' \subseteq Invoice
      BY <1>6, WorkingCopy DEF Edit, Working, InvoicesTypeOK
    <2>2. /\ status' = [status EXCEPT ![i] = form.status]
          /\ flag' = [flag EXCEPT ![i] = Loaded(r).flag]
          /\ warehouse' = [warehouse EXCEPT ![i] = Loaded(r).warehouse]
      BY <1>6, <2>0, <2>1 DEF Edit, Save, Row
    <2>3. PICK items \in Lines : lines' = [lines EXCEPT ![i] = items]
      BY <1>6, <2>0 DEF Edit
    <2>4. moves' = moves
      BY <1>6 DEF Edit
    <2>5. form.status \in Status \cup {"deleted"}
      BY InvoicesAssumption DEF Form, Status
    <2>6. Loaded(r).flag \in BOOLEAN /\ Loaded(r).warehouse \in Place
      BY <2>1 DEF Row
    <2>7. moves' = [moves EXCEPT ![i] = moves[i]]
      BY <2>4, Unwritten
    <2> QED
      BY <2>0, <2>1, <2>2, <2>3, <2>5, <2>6, <2>7, EndedTypeOK
  <1>7. ASSUME NEW r \in Request, MarkPaid(r) \/ Patch(r)
        PROVE  InvoicesTypeOK'
    <2>0. PICK i \in Invoice : i = Of(r)
      <3>1. request[r] # Idle
        BY <1>7 DEF MarkPaid, Patch, Working
      <3> QED
        BY <3>1, WorkingCopy
    <2>1. /\ request[r] # Idle /\ Loaded(r) \in Row
          /\ Done(r) /\ contended' = contended /\ UNCHANGED <<lines, moves>>
      BY <1>7, WorkingCopy DEF MarkPaid, Patch, Working
    <2>2. patched' \subseteq Invoice
      BY <1>7, <2>0 DEF MarkPaid, Patch, InvoicesTypeOK
    <2>3. PICK new \in Row : Save(r, new)
      <3>1. CASE MarkPaid(r)
        <4>1. [Loaded(r) EXCEPT !.status = "PAID"] \in Row
          BY <2>1 DEF Row, Status, Choice
        <4> QED
          BY <3>1, <4>1 DEF MarkPaid
      <3>2. CASE Patch(r)
        <4>1. PICK new \in Patched(Loaded(r)) : Save(r, new)
          BY <3>2 DEF Patch
        <4>2. new \in Row
          BY <2>1, InvoicesAssumption DEF Patched, Row, Status
        <4> QED
          BY <4>1, <4>2
      <3> QED
        BY <1>7, <3>1, <3>2
    <2>4. /\ status' = [status EXCEPT ![i] = new.status]
          /\ flag' = [flag EXCEPT ![i] = new.flag]
          /\ warehouse' = [warehouse EXCEPT ![i] = new.warehouse]
          /\ new.status \in Status \cup {"deleted"}
          /\ new.flag \in BOOLEAN /\ new.warehouse \in Place
      BY <2>0, <2>3 DEF Save, Row
    <2>5. /\ moves' = [moves EXCEPT ![i] = moves[i]]
          /\ lines' = [lines EXCEPT ![i] = lines[i]] /\ lines[i] \in Lines
      BY <2>1, Unwritten
    <2>6. contended' = contended /\ Done(r) /\ request[r] # Idle
      BY <2>1
    <2> QED
      BY <2>0, <2>2, <2>4, <2>5, <2>6, EndedTypeOK
  <1>8. ASSUME NEW r \in Request, UpdateStatus(r)
        PROVE  InvoicesTypeOK'
    <2>0. PICK i \in Invoice : i = Of(r)
      BY <1>8, WorkingCopy DEF UpdateStatus, Working
    <2>1. /\ request[r] # Idle /\ Done(r)
          /\ UNCHANGED <<flag, warehouse, lines, moves, contended>>
          /\ patched' \subseteq Invoice
      BY <1>8 DEF UpdateStatus, Working, InvoicesTypeOK
    <2>2. PICK new \in {"UNPAID", "PARTIAL", "PAID", "OVERDUE"} :
             status' = [status EXCEPT ![i] = new]
      BY <1>8, <2>0 DEF UpdateStatus
    <2>3. new \in Status \cup {"deleted"}
      BY DEF Status, Choice
    <2>4. /\ flag' = [flag EXCEPT ![i] = flag[i]] /\ flag[i] \in BOOLEAN
          /\ warehouse' = [warehouse EXCEPT ![i] = warehouse[i]] /\ warehouse[i] \in Place
          /\ lines' = [lines EXCEPT ![i] = lines[i]] /\ lines[i] \in Lines
          /\ moves' = [moves EXCEPT ![i] = moves[i]]
      BY <2>1, Unwritten
    <2>5. contended' = contended /\ patched' \subseteq Invoice /\ Done(r) /\ request[r] # Idle
      BY <2>1
    <2> QED
      BY <2>0, <2>2, <2>3, <2>4, <2>5, EndedTypeOK
  <1>9. ASSUME NEW r \in Request, Delete(r)
        PROVE  InvoicesTypeOK'
    <2>0. PICK i \in Invoice : i = Of(r)
      BY <1>9, WorkingCopy DEF Delete, Working
    <2>1. /\ request[r] # Idle /\ Done(r) /\ UNCHANGED <<moves, contended>>
          /\ patched' \subseteq Invoice
      BY <1>9 DEF Delete, Working, InvoicesTypeOK
    <2>2. /\ status' = [status EXCEPT ![i] = "deleted"]
          /\ flag' = [flag EXCEPT ![i] = FALSE]
          /\ warehouse' = [warehouse EXCEPT ![i] = NoWarehouse]
          /\ lines' = [lines EXCEPT ![i] = <<>>]
      BY <1>9, <2>0 DEF Delete
    <2>3. NoWarehouse \in Place
      BY DEF Place
    <2>4. moves' = [moves EXCEPT ![i] = moves[i]]
      BY <2>1, Unwritten
    <2>5. contended' = contended /\ Done(r) /\ request[r] # Idle
      BY <2>1
    <2> QED
      BY <2>0, <2>1, <2>2, <2>3, <2>4, <2>5, NoItems, EndedTypeOK
  <1>10. ASSUME NEW r \in Request, Fail(r)
         PROVE  InvoicesTypeOK'
    <2>1. request[r] # Idle /\ Done(r) /\ UNCHANGED <<row, moves, contended, patched>>
      BY <1>10 DEF Fail
    <2>2. \A s \in Request : request'[s] # Idle => request[s] # Idle /\ request'[s] = request[s]
      BY <2>1 DEF InvoicesTypeOK, Done
    <2>3. request' \in [Request -> Copy \cup {Idle}]
      BY <2>1 DEF InvoicesTypeOK, Done
    <2> QED
      BY <2>1, <2>2, <2>3 DEF InvoicesTypeOK, row, Of
  <1>11. CASE Restock \/ UNCHANGED vars
    <2>1. UNCHANGED <<row, moves, request, contended, patched>>
      BY <1>11 DEF Restock, vars, row
    <2> QED
      BY <2>1 DEF InvoicesTypeOK, row, Of
  <1> QED
    BY <1>1, <1>2, <1>3, <1>4, <1>5, <1>6, <1>7, <1>8, <1>9, <1>10, <1>11 DEF Next, Handle

(* Invoices, their items and the copies requests hold keep their types. *)
THEOREM InvoicesTyped == Spec => []InvoicesTypeOK
  BY InitInvoicesTypeOK, NextInvoicesTypeOK, PTL DEF Spec

-----------------------------------------------------------------------------
(* What the movements, the flag and the status of an invoice say together. *)
GoodState(i) ==
    /\ IF flag[i] THEN GoodsOut(i) ELSE NothingOut(i)
    /\ status[i] = "CANCELLED" => NothingOut(i)
    /\ flag[i] /\ Goods(lines[i]) # <<>> => warehouse[i] \in Warehouse

(* The inductive invariant: that is so of every invoice in order, and the  *)
(* request that works on one alone has it as it is.                        *)
OrderInv ==
    /\ \A i \in Orderly : GoodState(i)
    /\ CopiesAreCurrent

(* A request alone with an invoice in order. *)
LEMMA Alone ==
    ASSUME InvoicesTypeOK, OrderInv, NEW r \in Request, request[r] # Idle,
           Of(r) \notin contended, Of(r) \notin patched
    PROVE  /\ CopyIsCurrent(r)
           /\ GoodState(Of(r))
  <1>1. CopyIsCurrent(r)
    BY DEF OrderInv, CopiesAreCurrent
  <1>2. Exists(Of(r))
    BY <1>1, WorkingCopy DEF CopyIsCurrent, Exists, Absent, Status, Choice
  <1> QED
    BY <1>1, <1>2, WorkingCopy DEF OrderInv, Orderly

(* Goods that were never sold, and are not out, never left. *)
LEMMA NeverSold ==
    ASSUME NEW i, NothingOut(i), ~HasSale(i)
    PROVE  moves[i] = <<>>
  BY DEF NothingOut, HasSale

(* The end of a request, when its invoice is in order afterwards. *)
LEMMA EndedOrder ==
    ASSUME InvoicesTypeOK, OrderInv,
           NEW r \in Request, request[r] # Idle, Done(r), NEW i \in Invoice, i = Of(r),
           \A j \in Invoice : j # i =>
               /\ status'[j] = status[j] /\ flag'[j] = flag[j]
               /\ warehouse'[j] = warehouse[j] /\ lines'[j] = lines[j]
               /\ moves'[j] = moves[j],
           contended' = contended, patched \subseteq patched',
           i \notin contended /\ i \notin patched' /\ Exists(i)' => GoodState(i)'
    PROVE  OrderInv'
  <1>1. ASSUME NEW j \in Invoice, j \in Orderly'
        PROVE  GoodState(j)'
    <2>1. j \notin contended /\ j \notin patched' /\ Exists(j)'
      BY <1>1 DEF Orderly
    <2>2. CASE j = i
      BY <2>1, <2>2
    <2>3. CASE j # i
      <3>1. GoodState(j)
        BY <2>1, <2>3 DEF OrderInv, Orderly, Exists
      <3> QED
        BY <2>3, <3>1 DEF GoodState, GoodsOut, NothingOut
    <2> QED
      BY <2>2, <2>3
  <1>2. ASSUME NEW s \in Request, request'[s] # Idle, Of(s)' \notin contended
        PROVE  /\ CopyIsCurrent(s)'
               /\ \A q \in Request : request'[q] # Idle /\ Of(q)' = Of(s)' => q = s
    <2>1. \A q \in Request : request'[q] # Idle =>
              q # r /\ request[q] # Idle /\ request'[q] = request[q]
      BY DEF Done, InvoicesTypeOK
    <2>2. \A q \in Request : request'[q] # Idle => Of(q)' = Of(q)
      BY <2>1 DEF Of
    <2>3. /\ CopyIsCurrent(s)
          /\ \A q \in Request : request[q] # Idle /\ Of(q) = Of(s) => q = s
      BY <1>2, <2>1, <2>2 DEF OrderInv, CopiesAreCurrent
    <2>4. Of(s) # i /\ Of(s) \in Invoice
      BY <1>2, <2>1, <2>3, WorkingCopy
    <2>5. CopyIsCurrent(s)'
      BY <1>2, <2>1, <2>2, <2>3, <2>4 DEF CopyIsCurrent, Loaded, HasSale, Of
    <2> QED
      BY <1>2, <2>1, <2>2, <2>3, <2>5
  <1>3. CopiesAreCurrent'
    BY <1>2 DEF CopiesAreCurrent
  <1> QED
    BY <1>1, <1>3 DEF OrderInv, Orderly

LEMMA InitOrder == Init => OrderInv
  BY DEF Init, OrderInv, Orderly, Exists, Absent, CopiesAreCurrent

(* A posting adds to the movements of its invoice only. *)
LEMMA RecordedAt ==
    ASSUME InvoicesTypeOK, NEW i \in Invoice, NEW type, NEW place, NEW goods,
           Record(i, type, place, goods)
    PROVE  /\ \A j \in Invoice : j # i => moves'[j] = moves[j]
           /\ moves'[i] = IF goods = <<>> THEN moves[i]
                          ELSE Append(moves[i], Movement(type, place, goods))
  <1>1. moves' = [moves EXCEPT ![i] =
              IF goods = <<>> THEN moves[i]
              ELSE Append(moves[i], Movement(type, place, goods))]
    BY Recorded
  <1>2. moves = [j \in Invoice |-> moves[j]]
    BY DEF InvoicesTypeOK
  <1> QED
    BY <1>1, <1>2

(* save() writes one row. *)
LEMMA Saved ==
    ASSUME InvoicesTypeOK, NEW r \in Request, request[r] # Idle, NEW new \in Row, Save(r, new)
    PROVE  /\ \A j \in Invoice : j # Of(r) =>
                  /\ status'[j] = status[j] /\ flag'[j] = flag[j]
                  /\ warehouse'[j] = warehouse[j]
           /\ status'[Of(r)] = new.status
           /\ flag'[Of(r)] = new.flag
           /\ warehouse'[Of(r)] = new.warehouse
  BY WorkingCopy DEF Save, InvoicesTypeOK

LEMMA LoadOrder ==
    ASSUME InvoicesTypeOK, OrderInv, NEW r \in Request, Load(r)
    PROVE  OrderInv'
  <1>1. PICK i \in Invoice :
           /\ Exists(i)
           /\ request' = [request EXCEPT ![r] =
                 [invoice |-> i, prepared |-> FALSE,
                  row |-> [status |-> status[i], flag |-> flag[i],
                           warehouse |-> warehouse[i], lines |-> lines[i]]]]
           /\ contended' = contended \cup
                 {j \in {i} : \E s \in Request : request[s] # Idle /\ Of(s) = j}
    BY DEF Load
  <1>2. UNCHANGED <<row, moves, patched>> /\ request[r] = Idle
    BY DEF Load
  <1>3. \A j \in Invoice : j \in Orderly' => GoodState(j)'
    <2>1. Orderly' \subseteq Orderly
      BY <1>1, <1>2 DEF Orderly, row, Exists
    <2> QED
      BY <1>2, <2>1 DEF OrderInv, row, GoodState, GoodsOut, NothingOut
  <1>4. /\ request'[r] # Idle => Of(r)' = i
        /\ \A s \in Request : s # r => request'[s] = request[s] /\ Of(s)' = Of(s)
    BY <1>1 DEF InvoicesTypeOK, Of
  <1>5. ASSUME NEW s \in Request, request'[s] # Idle, Of(s)' \notin contended'
        PROVE  /\ CopyIsCurrent(s)'
               /\ \A q \in Request : request'[q] # Idle /\ Of(q)' = Of(s)' => q = s
    <2>1. CASE s = r
      <3>1. request'[r] = [invoice |-> i, prepared |-> FALSE,
                  row |-> [status |-> status[i], flag |-> flag[i],
                           warehouse |-> warehouse[i], lines |-> lines[i]]]
        BY <1>1 DEF InvoicesTypeOK
      <3>2. CopyIsCurrent(r)'
        BY <1>2, <3>1 DEF CopyIsCurrent, Of, Loaded, row
      <3>3. i \notin contended'
        BY <1>4, <1>5, <2>1
      <3>4. \A q \in Request : request[q] # Idle => Of(q) # i
        BY <1>1, <3>3
      <3> QED
        BY <1>4, <2>1, <3>2, <3>4, <1>5
    <2>2. CASE s # r
      <3>1. request[s] # Idle /\ Of(s)' = Of(s) /\ Of(s) \notin contended
        BY <1>1, <1>4, <1>5, <2>2
      <3>2. /\ CopyIsCurrent(s)
            /\ \A q \in Request : request[q] # Idle /\ Of(q) = Of(s) => q = s
        BY <3>1 DEF OrderInv, CopiesAreCurrent
      <3>3. CopyIsCurrent(s)'
        BY <1>2, <1>4, <2>2, <3>2 DEF CopyIsCurrent, Of, Loaded, HasSale, row
      <3>4. Of(s) # i
        BY <1>1, <1>5, <3>1
      <3> QED
        BY <1>4, <1>5, <3>1, <3>2, <3>3, <3>4
    <2> QED
      BY <2>1, <2>2
  <1>6. CopiesAreCurrent'
    BY <1>5 DEF CopiesAreCurrent
  <1> QED
    BY <1>3, <1>6 DEF OrderInv, Orderly

LEMMA PrepareOrder ==
    ASSUME InvoicesTypeOK, OrderInv, NEW r \in Request, Prepare(r)
    PROVE  OrderInv'
  <1>1. PICK place :
           /\ place \in {DefaultWarehouse[Of(r)], Loaded(r).warehouse}
           /\ Goods(Loaded(r).lines) # <<>> => place # NoWarehouse
           /\ request' = [request EXCEPT ![r].prepared = TRUE,
                                         ![r].row.warehouse = place]
    BY DEF Prepare
  <1>2. /\ request[r] # Idle /\ ~request[r].prepared
        /\ UNCHANGED <<row, moves, contended, patched>>
        /\ ~HasSale(Of(r)) /\ ~Loaded(r).flag
    BY DEF Prepare, Working
  <1>3. place \in Place
    BY <1>1, <1>2, WorkingCopy, InvoicesAssumption
  <1>4. \A j \in Orderly' : GoodState(j)'
    BY <1>2 DEF OrderInv, Orderly, Exists, row, GoodState, GoodsOut, NothingOut
  <1>5. /\ request'[r] = [request[r] EXCEPT !.prepared = TRUE, !.row.warehouse = place]
        /\ \A s \in Request : s # r => request'[s] = request[s]
    BY <1>1, <1>2 DEF InvoicesTypeOK
  <1>6. /\ Of(r)' = Of(r) /\ request'[r].prepared
        /\ Loaded(r)'.status = Loaded(r).status /\ Loaded(r)'.flag = Loaded(r).flag
        /\ Loaded(r)'.lines = Loaded(r).lines /\ Loaded(r)'.warehouse = place
    BY <1>2, <1>5, WorkingCopy DEF Of, Loaded, Copy, Row
  <1>7. \A s \in Request : request'[s] # Idle => request[s] # Idle /\ Of(s)' = Of(s)
    BY <1>2, <1>5, <1>6 DEF Of
  <1>8. ASSUME NEW s \in Request, request'[s] # Idle, Of(s)' \notin contended
        PROVE  /\ CopyIsCurrent(s)'
               /\ \A q \in Request : request'[q] # Idle /\ Of(q)' = Of(s)' => q = s
    <2>1. /\ CopyIsCurrent(s)
          /\ \A q \in Request : request[q] # Idle /\ Of(q) = Of(s) => q = s
      BY <1>7, <1>8 DEF OrderInv, CopiesAreCurrent
    <2>2. CASE s = r
      <3>1. HasSale(Of(r))' = HasSale(Of(r))
        BY <1>2, <1>6 DEF HasSale
      <3>2. /\ status'[Of(r)] = Loaded(r).status /\ flag'[Of(r)] = Loaded(r).flag
            /\ lines'[Of(r)] = Loaded(r).lines
        BY <1>2, <2>1, <2>2 DEF CopyIsCurrent, row
      <3>3. CopyIsCurrent(r)'
        BY <1>1, <1>2, <1>3, <1>6, <3>1, <3>2 DEF CopyIsCurrent, Place
      <3> QED
        BY <1>7, <1>8, <2>1, <2>2, <3>3
    <2>3. CASE s # r
      <3>1. CopyIsCurrent(s)'
        BY <1>2, <1>5, <1>7, <1>8, <2>1, <2>3 DEF CopyIsCurrent, Loaded, HasSale, row
      <3> QED
        BY <1>7, <1>8, <2>1, <3>1
    <2> QED
      BY <2>2, <2>3
  <1>9. CopiesAreCurrent'
    BY <1>2, <1>8 DEF CopiesAreCurrent
  <1> QED
    BY <1>4, <1>9 DEF OrderInv

LEMMA CreateOrder ==
    ASSUME InvoicesTypeOK, OrderInv, NEW i \in Invoice, Create(i)
    PROVE  OrderInv'
  <1>1. PICK new \in NewInvoices :
           /\ status' = [status EXCEPT ![i] = new.status]
           /\ flag' = [flag EXCEPT ![i] = new.flag]
           /\ warehouse' = [warehouse EXCEPT ![i] = new.warehouse]
           /\ lines' = [lines EXCEPT ![i] = new.lines]
           /\ patched' = patched \cup {j \in {i} : new.flag}
    BY DEF Create
  <1>2. status[i] = "unborn" /\ UNCHANGED <<moves, request, contended>>
    BY DEF Create
  <1>3. moves[i] = <<>> /\ new.flag \in BOOLEAN
    BY <1>2, InvoicesAssumption DEF InvoicesTypeOK, Row
  <1>4. \A j \in Invoice : j # i =>
            /\ status'[j] = status[j] /\ flag'[j] = flag[j]
            /\ warehouse'[j] = warehouse[j] /\ lines'[j] = lines[j]
    BY <1>1 DEF InvoicesTypeOK
  <1>5. ASSUME NEW j \in Invoice, j \in Orderly'
        PROVE  GoodState(j)'
    <2>1. CASE j = i
      <3>1. ~flag'[i]
        BY <1>1, <1>3, <1>5, <2>1 DEF Orderly, InvoicesTypeOK
      <3> QED
        BY <1>2, <1>3, <2>1, <3>1 DEF GoodState, NothingOut
    <2>2. CASE j # i
      <3>1. GoodState(j)
        BY <1>1, <1>2, <1>4, <1>5, <2>2 DEF OrderInv, Orderly, Exists
      <3> QED
        BY <1>2, <1>4, <2>2, <3>1 DEF GoodState, GoodsOut, NothingOut
    <2> QED
      BY <2>1, <2>2
  <1>6. ASSUME NEW s \in Request, request[s] # Idle, Of(s) \notin contended
        PROVE  CopyIsCurrent(s)'
    <2>1. Of(s) \in Invoice /\ Of(s) # i
      BY <1>2, <1>6, WorkingCopy
    <2>2. CopyIsCurrent(s)
      BY <1>6 DEF OrderInv, CopiesAreCurrent
    <2> QED
      BY <1>2, <1>4, <2>1, <2>2 DEF CopyIsCurrent, Loaded, HasSale, Of
  <1>7. CopiesAreCurrent'
    BY <1>2, <1>6 DEF OrderInv, CopiesAreCurrent, Of
  <1> QED
    BY <1>5, <1>7 DEF OrderInv, Orderly

LEMMA IssueOrder ==
    ASSUME InvoicesTypeOK, OrderInv, NEW r \in Request, Issue(r)
    PROVE  OrderInv'
  <1>0. PICK i \in Invoice : i = Of(r)
    BY WorkingCopy DEF Issue
  <1> DEFINE goods == Goods(Loaded(r).lines)
         new == [Loaded(r) EXCEPT !.status = "COMPLETED", !.flag = TRUE]
  <1>1. /\ request[r] # Idle /\ request[r].prepared /\ Done(r) /\ Save(r, new)
        /\ Record(i, "SALE", Loaded(r).warehouse, goods)
        /\ UNCHANGED <<lines, contended, patched>>
    BY <1>0 DEF Issue
  <1>2. Loaded(r) \in Row
    BY <1>1, WorkingCopy
  <1>3. /\ new \in Row /\ new.status = "COMPLETED" /\ new.flag
        /\ new.warehouse = Loaded(r).warehouse
    BY <1>2 DEF Row, Status
  <1>4. /\ \A j \in Invoice : j # i =>
               /\ status'[j] = status[j] /\ flag'[j] = flag[j]
               /\ warehouse'[j] = warehouse[j]
        /\ status'[i] = "COMPLETED" /\ flag'[i] /\ warehouse'[i] = Loaded(r).warehouse
    BY <1>0, <1>1, <1>3, Saved
  <1>5. /\ \A j \in Invoice : j # i => moves'[j] = moves[j]
        /\ moves'[i] = IF goods = <<>> THEN moves[i]
                       ELSE Append(moves[i], Movement("SALE", Loaded(r).warehouse, goods))
    BY <1>1, <1>2, RecordedAt
  <1>6. ASSUME i \notin contended, i \notin patched'
        PROVE  GoodState(i)'
    <2>1. CopyIsCurrent(r) /\ GoodState(i)
      BY <1>0, <1>1, <1>6, Alone
    <2>2. moves[i] = <<>>
      BY <1>0, <1>1, <2>1, NeverSold DEF CopyIsCurrent, GoodState
    <2>3. /\ lines'[i] = Loaded(r).lines
          /\ goods # <<>> => Loaded(r).warehouse \in Warehouse
      BY <1>0, <1>1, <2>1 DEF CopyIsCurrent
    <2>4. moves'[i] = IF goods = <<>> THEN <<>>
                      ELSE <<Movement("SALE", Loaded(r).warehouse, goods)>>
      BY <1>5, <2>2
    <2> QED
      BY <1>4, <2>3, <2>4 DEF GoodState, GoodsOut, Movement
  <1> HIDE DEF goods, new
  <1> QED
    BY <1>0, <1>1, <1>2, <1>4, <1>5, <1>6, EndedOrder

LEMMA CancelOrder ==
    ASSUME InvoicesTypeOK, OrderInv, NEW r \in Request, Cancel(r)
    PROVE  OrderInv'
  <1>0. PICK i \in Invoice : i = Of(r)
    BY WorkingCopy DEF Cancel, Working
  <1> DEFINE goods == Goods(Loaded(r).lines)
         returns == Loaded(r).flag /\ Loaded(r).warehouse # NoWarehouse
  <1>1. /\ request[r] # Idle /\ ~request[r].prepared /\ Done(r)
        /\ UNCHANGED <<warehouse, lines, contended, patched>>
        /\ status' = [status EXCEPT ![i] = "CANCELLED"]
        /\ flag' = [flag EXCEPT ![i] = Loaded(r).flag /\ ~returns]
    BY <1>0 DEF Cancel, Working
  <1>2. IF returns THEN Record(i, "RETURN", Loaded(r).warehouse, goods) ELSE moves' = moves
    BY <1>0 DEF Cancel
  <1>3. Loaded(r).flag \in BOOLEAN /\ Loaded(r).warehouse \in Place
    BY <1>1, WorkingCopy
  <1>4. /\ \A j \in Invoice : j # i => status'[j] = status[j] /\ flag'[j] = flag[j]
        /\ status'[i] = "CANCELLED" /\ flag'[i] = (Loaded(r).flag /\ ~returns)
    BY <1>1, <1>3 DEF InvoicesTypeOK
  <1>5. /\ \A j \in Invoice : j # i => moves'[j] = moves[j]
        /\ returns => moves'[i] = IF goods = <<>> THEN moves[i]
                         ELSE Append(moves[i], Movement("RETURN", Loaded(r).warehouse, goods))
        /\ ~returns => moves'[i] = moves[i]
    BY <1>2, <1>3, RecordedAt
  <1>6. ASSUME i \notin contended, i \notin patched'
        PROVE  GoodState(i)'
    <2>1. CopyIsCurrent(r) /\ GoodState(i)
      BY <1>0, <1>1, <1>6, Alone
    <2>2. /\ flag[i] = Loaded(r).flag /\ lines[i] = Loaded(r).lines
          /\ warehouse[i] = Loaded(r).warehouse
      BY <1>0, <1>1, <2>1 DEF CopyIsCurrent
    <2>3. CASE ~flag[i]
      <3>1. moves'[i] = moves[i] /\ ~flag'[i] /\ NothingOut(i)
        BY <1>4, <1>5, <2>1, <2>2, <2>3 DEF GoodState
      <3> QED
        BY <3>1 DEF GoodState, NothingOut
    <2>4. CASE flag[i] /\ goods = <<>>
      <3>1. moves'[i] = <<>>
        BY <1>5, <2>1, <2>2, <2>4 DEF GoodState, GoodsOut
      <3>2. Goods(lines[i])' = <<>>
        BY <1>1, <2>2, <2>4
      <3> QED
        BY <3>1, <3>2 DEF GoodState, GoodsOut, NothingOut
    <2>5. CASE flag[i] /\ goods # <<>>
      <3>1. returns
        BY <2>1, <2>2, <2>5, InvoicesAssumption DEF GoodState
      <3>2. moves'[i] = Append(<<Movement("SALE", warehouse[i], goods)>>,
                               Movement("RETURN", warehouse[i], goods))
        BY <1>5, <2>1, <2>2, <2>5, <3>1 DEF GoodState, GoodsOut
      <3>3. ~flag'[i]
        BY <1>4, <3>1
      <3>4. NothingOut(i)'
        BY <3>2 DEF NothingOut, Movement
      <3> QED
        BY <3>3, <3>4 DEF GoodState
    <2> QED
      BY <2>3, <2>4, <2>5
  <1> HIDE DEF goods, returns
  <1> QED
    BY <1>0, <1>1, <1>3, <1>4, <1>5, <1>6, EndedOrder

(* A request that saves its copy, with another status perhaps: edit,       *)
(* mark-paid, PATCH.  No posting is made.                                  *)
LEMMA SavedOrder ==
    ASSUME InvoicesTypeOK, OrderInv, NEW r \in Request, request[r] # Idle, Done(r),
           NEW new \in Row, Save(r, new), ~request[r].prepared,
           \/ new.flag = Loaded(r).flag /\ new.warehouse = Loaded(r).warehouse
           \/ Of(r) \in patched',
           NEW items \in Lines, lines' = [lines EXCEPT ![Of(r)] = items],
           items = lines[Of(r)] \/ ~Loaded(r).flag,
           new.status = "CANCELLED" =>
               \/ Loaded(r).status = "CANCELLED" /\ items = lines[Of(r)]
               \/ ~Loaded(r).flag
               \/ Of(r) \in patched',
           moves' = moves, contended' = contended, patched \subseteq patched'
    PROVE  OrderInv'
  <1>0. PICK i \in Invoice : i = Of(r)
    BY WorkingCopy
  <1>1. /\ \A j \in Invoice : j # i =>
               /\ status'[j] = status[j] /\ flag'[j] = flag[j]
               /\ warehouse'[j] = warehouse[j]
        /\ status'[i] = new.status /\ flag'[i] = new.flag /\ warehouse'[i] = new.warehouse
    BY <1>0, Saved
  <1>2. /\ \A j \in Invoice : j # i => lines'[j] = lines[j]
        /\ lines'[i] = items
    BY <1>0 DEF InvoicesTypeOK
  <1>3. ASSUME i \notin contended, i \notin patched'
        PROVE  GoodState(i)'
    <2>1. CopyIsCurrent(r) /\ GoodState(i)
      BY <1>0, <1>3, Alone
    <2>2. /\ status[i] = Loaded(r).status /\ flag'[i] = flag[i]
          /\ warehouse'[i] = warehouse[i] /\ flag[i] = Loaded(r).flag
      BY <1>0, <1>1, <1>3, <2>1 DEF CopyIsCurrent
    <2>3. CASE ~flag[i]
      <3>1. NothingOut(i)'
        BY <2>1, <2>3 DEF GoodState, NothingOut
      <3> QED
        BY <2>2, <2>3, <3>1 DEF GoodState
    <2>4. CASE flag[i]
      <3>1. lines'[i] = lines[i]
        BY <1>0, <1>2, <2>2, <2>4
      <3>2. status'[i] = "CANCELLED" => status[i] = "CANCELLED"
        BY <1>0, <1>1, <1>3, <2>2, <2>4
      <3>3. GoodsOut(i)' /\ (NothingOut(i) => NothingOut(i)')
        BY <2>1, <2>2, <2>4, <3>1 DEF GoodState, GoodsOut, NothingOut
      <3> QED
        BY <2>1, <2>2, <2>4, <3>1, <3>2, <3>3 DEF GoodState
    <2> QED
      BY <2>3, <2>4
  <1> QED
    BY <1>0, <1>1, <1>2, <1>3, EndedOrder

LEMMA EditOrder ==
    ASSUME InvoicesTypeOK, OrderInv, NEW r \in Request, NEW form \in Form, Edit(r, form)
    PROVE  OrderInv'
  <1>1. /\ request[r] # Idle /\ ~request[r].prepared /\ Done(r) /\ ~Loaded(r).flag
        /\ Save(r, [Loaded(r) EXCEPT !.status = form.status])
        /\ UNCHANGED <<moves, contended, patched>>
    BY DEF Edit, Working
  <1>2. PICK items \in Lines : lines' = [lines EXCEPT ![Of(r)] = items]
    BY DEF Edit
  <1>3. Loaded(r) \in Row
    BY <1>1, WorkingCopy
  <1>4. form.status \in Status
    BY InvoicesAssumption DEF Form, Status
  <1>5. PICK new \in Row : /\ Save(r, new)
                           /\ new.flag = Loaded(r).flag
                           /\ new.warehouse = Loaded(r).warehouse
    <2>1. [Loaded(r) EXCEPT !.status = form.status] \in Row
      BY <1>3, <1>4 DEF Row
    <2>2. /\ [Loaded(r) EXCEPT !.status = form.status].flag = Loaded(r).flag
          /\ [Loaded(r) EXCEPT !.status = form.status].warehouse = Loaded(r).warehouse
      BY <1>3 DEF Row
    <2> QED
      BY <1>1, <2>1, <2>2
  <1> QED
    BY <1>1, <1>2, <1>5, SavedOrder

LEMMA MarkPaidOrder ==
    ASSUME InvoicesTypeOK, OrderInv, NEW r \in Request, MarkPaid(r)
    PROVE  OrderInv'
  <1> DEFINE new == [Loaded(r) EXCEPT !.status = "PAID"]
  <1>1. /\ request[r] # Idle /\ ~request[r].prepared /\ Done(r) /\ Save(r, new)
        /\ UNCHANGED <<lines, moves, contended, patched>>
    BY DEF MarkPaid, Working
  <1>2. Loaded(r) \in Row /\ Of(r) \in Invoice
    BY <1>1, WorkingCopy
  <1>3. /\ new \in Row /\ new.status = "PAID"
        /\ new.flag = Loaded(r).flag /\ new.warehouse = Loaded(r).warehouse
    BY <1>2 DEF Row, Status, Choice
  <1>4. lines' = [lines EXCEPT ![Of(r)] = lines[Of(r)]] /\ lines[Of(r)] \in Lines
    BY <1>1, <1>2 DEF InvoicesTypeOK
  <1> HIDE DEF new
  <1> QED
    BY <1>1, <1>3, <1>4, SavedOrder

LEMMA PatchOrder ==
    ASSUME InvoicesTypeOK, OrderInv, NEW r \in Request, Patch(r)
    PROVE  OrderInv'
  <1>1. /\ request[r] # Idle /\ ~request[r].prepared /\ Done(r)
        /\ UNCHANGED <<lines, moves, contended>>
    BY DEF Patch, Working
  <1>2. Loaded(r) \in Row /\ Of(r) \in Invoice
    BY <1>1, WorkingCopy
  <1>3. PICK new \in Patched(Loaded(r)) :
           /\ Save(r, new)
           /\ patched' = patched \cup {i \in {Of(r)} : new # Loaded(r)}
    BY DEF Patch
  <1>4. new \in Row
    BY <1>2, InvoicesAssumption DEF Patched, Row, Status
  <1>5. lines' = [lines EXCEPT ![Of(r)] = lines[Of(r)]] /\ lines[Of(r)] \in Lines
    BY <1>1, <1>2 DEF InvoicesTypeOK
  <1>6. new = Loaded(r) \/ Of(r) \in patched'
    BY <1>3
  <1>7. patched \subseteq patched' /\ contended' = contended /\ moves' = moves
    BY <1>1, <1>3
  <1>8. /\ \/ new.flag = Loaded(r).flag /\ new.warehouse = Loaded(r).warehouse
           \/ Of(r) \in patched'
        /\ new.status = "CANCELLED" =>
               Loaded(r).status = "CANCELLED" \/ Of(r) \in patched'
    BY <1>6
  <1>9. request[r] # Idle /\ ~request[r].prepared /\ Done(r) /\ Save(r, new)
    BY <1>1, <1>3
  <1> QED
    BY <1>4, <1>5, <1>7, <1>8, <1>9, SavedOrder

LEMMA UpdateStatusOrder ==
    ASSUME InvoicesTypeOK, OrderInv, NEW r \in Request, UpdateStatus(r)
    PROVE  OrderInv'
  <1>0. PICK i \in Invoice : i = Of(r)
    BY WorkingCopy DEF UpdateStatus, Working
  <1>1. /\ request[r] # Idle /\ ~request[r].prepared /\ Done(r)
        /\ UNCHANGED <<flag, warehouse, lines, moves, contended, patched>>
    BY DEF UpdateStatus, Working
  <1>2. PICK new \in {"UNPAID", "PARTIAL", "PAID", "OVERDUE"} :
           status' = [status EXCEPT ![i] = new]
    BY <1>0 DEF UpdateStatus
  <1>3. /\ \A j \in Invoice : j # i => status'[j] = status[j]
        /\ status'[i] # "CANCELLED"
    BY <1>2 DEF InvoicesTypeOK
  <1>4. ASSUME i \notin contended, i \notin patched'
        PROVE  GoodState(i)'
    <2>1. GoodState(i)
      BY <1>0, <1>1, <1>4, Alone
    <2> QED
      BY <1>1, <1>3, <2>1 DEF GoodState, GoodsOut, NothingOut
  <1> QED
    BY <1>0, <1>1, <1>3, <1>4, EndedOrder

LEMMA DeleteOrder ==
    ASSUME InvoicesTypeOK, OrderInv, NEW r \in Request, Delete(r)
    PROVE  OrderInv'
  <1>0. PICK i \in Invoice : i = Of(r)
    BY WorkingCopy DEF Delete, Working
  <1>1. /\ request[r] # Idle /\ Done(r)
        /\ UNCHANGED <<moves, contended, patched>>
    BY DEF Delete, Working
  <1>2. /\ status' = [status EXCEPT ![i] = "deleted"]
        /\ flag' = [flag EXCEPT ![i] = FALSE]
        /\ warehouse' = [warehouse EXCEPT ![i] = NoWarehouse]
        /\ lines' = [lines EXCEPT ![i] = <<>>]
    BY <1>0 DEF Delete
  <1>3. /\ \A j \in Invoice : j # i =>
               /\ status'[j] = status[j] /\ flag'[j] = flag[j]
               /\ warehouse'[j] = warehouse[j] /\ lines'[j] = lines[j]
        /\ ~Exists(i)'
    BY <1>2 DEF InvoicesTypeOK, Exists, Absent
  <1> QED
    BY <1>0, <1>1, <1>3, EndedOrder

LEMMA FailOrder ==
    ASSUME InvoicesTypeOK, OrderInv, NEW r \in Request, Fail(r)
    PROVE  OrderInv'
  <1>0. PICK i \in Invoice : i = Of(r)
    BY WorkingCopy DEF Fail
  <1>1. request[r] # Idle /\ Done(r) /\ UNCHANGED <<row, moves, contended, patched>>
    BY DEF Fail
  <1>2. Exists(i)' /\ i \notin contended /\ i \notin patched' => GoodState(i)'
    <2>1. i \notin contended /\ i \notin patched => GoodState(i)
      BY <1>0, <1>1, Alone
    <2> QED
      BY <1>1, <2>1 DEF GoodState, GoodsOut, NothingOut, row
  <1> QED
    BY <1>0, <1>1, <1>2, EndedOrder DEF row

LEMMA NextOrder ==
    ASSUME InvoicesTypeOK, OrderInv, [Next]_vars
    PROVE  OrderInv'
  <1>1. CASE Restock \/ UNCHANGED vars
    <2>1. UNCHANGED <<row, moves, request, contended, patched>>
      BY <1>1 DEF Restock, vars, row
    <2>2. \A j \in Orderly' : GoodState(j)'
      BY <2>1 DEF OrderInv, Orderly, Exists, row, GoodState, GoodsOut, NothingOut
    <2>3. CopiesAreCurrent'
      BY <2>1 DEF OrderInv, CopiesAreCurrent, CopyIsCurrent, Of, Loaded, HasSale, row
    <2> QED
      BY <2>2, <2>3 DEF OrderInv
  <1>2. ASSUME NEW r \in Request, Handle(r)
        PROVE  OrderInv'
    BY <1>2, LoadOrder, PrepareOrder, IssueOrder, CancelOrder, EditOrder, MarkPaidOrder,
       UpdateStatusOrder, PatchOrder, DeleteOrder, FailOrder DEF Handle
  <1> QED
    BY <1>1, <1>2, CreateOrder DEF Next

(* The movements of an invoice, its flag and its status agree, and a       *)
(* request that works on an invoice alone has it as it is.                 *)
THEOREM InvoicesInOrder == Spec => []OrderInv
  BY InitInvoicesTypeOK, NextInvoicesTypeOK, InitOrder, NextOrder, PTL DEF Spec

(* inventory_updated tells whether exactly the invoice's lines are out, in *)
(* whatever order it is completed, paid, edited, cancelled and completed   *)
(* again, provided no two requests worked on it at once and no client      *)
(* wrote its status, flag or warehouse.                                    *)
THEOREM GoodsOutTheorem == Spec => []GoodsOutAsFlagged
  <1>1. OrderInv => GoodsOutAsFlagged
    BY DEF OrderInv, GoodState, GoodsOutAsFlagged
  <1> QED
    BY <1>1, InvoicesInOrder, PTL

(* A cancelled invoice holds no goods, under the same condition. *)
THEOREM CancelledTheorem == Spec => []CancelledHoldsNothing
  <1>1. OrderInv => CancelledHoldsNothing
    BY DEF OrderInv, GoodState, CancelledHoldsNothing
  <1> QED
    BY <1>1, InvoicesInOrder, PTL

-----------------------------------------------------------------------------
(* TypeOK, with the folds opened. *)

(* Items, as sequences. *)
LEMMA LinesAre ==
    ASSUME NEW items
    PROVE  items \in Lines <=> items \in Seq(Line) /\ Len(items) <= MaxLines
  <1>1. MaxLines \in Nat
    BY LinesAssumption
  <1>2. ASSUME items \in Lines PROVE items \in Seq(Line) /\ Len(items) <= MaxLines
    <2> PICK m \in 0..MaxLines : items \in [1..m -> Line]
      BY <1>2 DEF Lines, BoundedSeq, SeqOf
    <2>1. m \in Nat /\ m <= MaxLines
      BY <1>1
    <2>2. items \in Seq(Line) /\ Len(items) = m
      BY <2>1
    <2> QED
      BY <2>1, <2>2
  <1>3. ASSUME items \in Seq(Line), Len(items) <= MaxLines PROVE items \in Lines
    <2> PICK m : m = Len(items)
      OBVIOUS
    <2>1. m \in 0..MaxLines /\ items \in [1..m -> Line]
      BY <1>1, <1>3
    <2> QED
      BY <2>1 DEF Lines, BoundedSeq, SeqOf
  <1> QED
    BY <1>2, <1>3

(* The items of stockable products are items, and not more of them. *)
LEMMA GoodsTyped ==
    ASSUME NEW items \in Lines
    PROVE  Goods(items) \in Lines
  <1> DEFINE n == Len(items)
             V == Seq(Line)
             With(goods, line) == IF line[1] \in Stockable THEN Append(goods, line) ELSE goods
             next == [i \in 1..n |-> [v \in V |-> With(v, items[i])]]
             Solves(h) == h = [s \in SUBSET DOMAIN items |->
                  IF s = {} THEN <<>> ELSE With(h[s \ {Max(s)}], items[Max(s)])]
             k == CHOOSE h : Solves(h)
             Good(s) == k[s] \in V /\ Len(k[s]) <= Cardinality(s)
  <1>1. Goods(items) = k[DOMAIN items]
    BY DEF Goods, FoldLeft, MapThenFoldSet
  <1>2. /\ n \in Nat /\ n <= MaxLines /\ DOMAIN items = 1..n /\ <<>> \in V
        /\ \A i \in 1..n : items[i] \in Line
    <2>1. items \in Seq(Line) /\ Len(items) <= MaxLines
      BY LinesAre
    <2> QED
      BY <2>1
  <1>3. \A v \in V : \A line \in Line :
           With(v, line) \in V /\ Len(With(v, line)) \in Nat /\ Len(With(v, line)) <= Len(v) + 1
    OBVIOUS
  <1> HIDE DEF With
  <1>4. next \in [1..n -> [V -> V]]
    BY <1>2, <1>3
  <1>5. PICK h \in [SUBSET (1..n) -> V] : Chains(h, next, <<>>, n)
    <2> HIDE DEF n, V, next
    <2> QED
      BY <1>2, <1>4, ChainsExist
  <1>6. Solves(h)
    <2>1. ASSUME NEW s \in SUBSET (1..n), s # {}
          PROVE  h[s] = With(h[s \ {Max(s)}], items[Max(s)])
      <3>1. Max(s) \in 1..n /\ s \ {Max(s)} \in SUBSET (1..n)
        <4> HIDE DEF n
        <4> QED
          BY <2>1, <1>2, WithoutLast
      <3>2. h[s] = next[Max(s)][h[s \ {Max(s)}]] /\ h[s \ {Max(s)}] \in V
        BY <1>5, <2>1, <3>1 DEF Chains
      <3> QED
        BY <3>1, <3>2
    <2> QED
      BY <1>2, <1>5, <2>1 DEF Chains
  <1>7. Solves(k)
    BY <1>6
  <1>8. \A s \in SUBSET (1..n) : Good(s)
    <2> DEFINE Bad == {s \in SUBSET (1..n) : ~Good(s)}
    <2> SUFFICES ASSUME Bad # {} PROVE FALSE
      OBVIOUS
    <2>1. PICK s \in Bad : \A u \in Bad : ~(u \subseteq s /\ u # s)
      <3> DEFINE N == 1..n
      <3>1. Bad \in SUBSET SUBSET N /\ IsFiniteSet(N)
        BY FS_Interval, <1>2
      <3> HIDE DEF Bad, N
      <3> QED
        BY <3>1, LeastSubset
    <2>2. s \in SUBSET (1..n)
      BY <2>1
    <2> HIDE DEF k, n
    <2>3. s # {}
      <3>1. k[{}] = <<>> /\ Cardinality({}) = 0
        BY <1>2, <1>7, FS_EmptySet
      <3>2. Good({})
        BY <1>2, <3>1
      <3> QED
        BY <2>1, <3>2
    <2>4. /\ s \ {Max(s)} \in SUBSET (1..n) /\ Max(s) \in 1..n /\ Max(s) \in s
          /\ Cardinality(s) \in Nat /\ Cardinality(s \ {Max(s)}) = Cardinality(s) - 1
      BY <1>2, <2>2, <2>3, WithoutLast
    <2>5. Good(s \ {Max(s)})
      BY <2>1, <2>4
    <2>6. k[s] = With(k[s \ {Max(s)}], items[Max(s)])
      BY <1>2, <1>7, <2>2, <2>3
    <2> PICK v, line : v = k[s \ {Max(s)}] /\ line = items[Max(s)]
      OBVIOUS
    <2>7. v \in V /\ line \in Line /\ Len(v) <= Cardinality(s) - 1
      BY <1>2, <2>4, <2>5
    <2>8. /\ With(v, line) \in V /\ Len(With(v, line)) \in Nat
          /\ Len(With(v, line)) <= Len(v) + 1 /\ Len(v) \in Nat
      <3>1. Len(v) \in Nat
        BY <2>7
      <3> HIDE DEF V
      <3> QED
        BY <1>3, <2>7, <3>1
    <2>9. Good(s)
      BY <2>4, <2>6, <2>7, <2>8
    <2> QED
      BY <2>1, <2>9
  <1>9. Cardinality(1..n) = n
    BY <1>2, FS_Interval
  <1> PICK g : g = k[1..n]
    OBVIOUS
  <1>10. g \in Seq(Line) /\ Len(g) <= n /\ Goods(items) = g
    <2> HIDE DEF k, n
    <2> QED
      BY <1>1, <1>2, <1>8, <1>9
  <1>11. Len(g) <= MaxLines
    BY <1>2, <1>10, LinesAssumption
  <1> QED
    BY <1>10, <1>11, LinesAre

Balances == [Key -> Int]

(* A call that has an outcome names a cell that may have a balance. *)
LEMMA OutcomeTyped ==
    ASSUME NEW c, c.op \in Operation, c.quantity \in Int, NEW b \in Balances,
           NEW y \in Outcomes(c, b)
    PROVE  y \in Balances /\ c.cell \in Key
  <1>1. Acceptable(c) /\ \/ y = [b EXCEPT ![c.cell] = @ + MovementQuantity(c, b[c.cell])]
                         \/ y = b
    BY DEF Outcomes
  <1>2. c.cell \in Key /\ b[c.cell] \in Int
    BY <1>1 DEF Acceptable, Balances
  <1>3. MovementQuantity(c, b[c.cell]) \in Int
    BY <1>2 DEF MovementQuantity, Operation
  <1> QED
    BY <1>1, <1>2, <1>3 DEF Balances

(* So does every call of a block that has one. *)
LEMMA BlockTyped ==
    ASSUME NEW S, \A c \in S : c.op \in Operation /\ c.quantity \in Int,
           NEW b \in Seq(S), NEW x \in Balances, NEW y \in BlockOutcomes(b, x)
    PROVE  y \in Balances /\ \A i \in DOMAIN b : b[i].cell \in Key
  <1> DEFINE n == Len(b)
             V == SUBSET Balances
             After(r, c) == UNION {Outcomes(c, z) : z \in r}
             next == [i \in 1..n |-> [v \in V |-> After(v, b[i])]]
             Solves(h) == h = [s \in SUBSET DOMAIN b |->
                  IF s = {} THEN {x} ELSE After(h[s \ {Max(s)}], b[Max(s)])]
             k == CHOOSE h : Solves(h)
             Good(s) == k[s] \in V /\ (k[s] # {} => \A i \in s : b[i].cell \in Key)
  <1>1. BlockOutcomes(b, x) = k[DOMAIN b]
    BY DEF BlockOutcomes, FoldLeft, MapThenFoldSet
  <1>2. n \in Nat /\ DOMAIN b = 1..n /\ {x} \in V /\ \A i \in 1..n : b[i] \in S
    OBVIOUS
  <1>3. \A v \in V : \A c \in S :
           After(v, c) \in V /\ (After(v, c) # {} => v # {} /\ c.cell \in Key)
    <2> SUFFICES ASSUME NEW v \in V, NEW c \in S
                 PROVE  /\ After(v, c) \in V
                        /\ After(v, c) # {} => v # {} /\ c.cell \in Key
      OBVIOUS
    <2>1. \A z \in v : \A u \in Outcomes(c, z) : u \in Balances /\ c.cell \in Key
      BY OutcomeTyped
    <2> QED
      BY <2>1
  <1> HIDE DEF After
  <1>4. next \in [1..n -> [V -> V]]
    BY <1>2, <1>3
  <1>5. PICK h \in [SUBSET (1..n) -> V] : Chains(h, next, {x}, n)
    <2> HIDE DEF n, V, next
    <2> QED
      BY <1>2, <1>4, ChainsExist
  <1>6. Solves(h)
    <2>1. ASSUME NEW s \in SUBSET (1..n), s # {}
          PROVE  h[s] = After(h[s \ {Max(s)}], b[Max(s)])
      <3>1. Max(s) \in 1..n /\ s \ {Max(s)} \in SUBSET (1..n)
        <4> HIDE DEF n
        <4> QED
          BY <2>1, <1>2, WithoutLast
      <3>2. h[s] = next[Max(s)][h[s \ {Max(s)}]] /\ h[s \ {Max(s)}] \in V
        BY <1>5, <2>1, <3>1 DEF Chains
      <3> QED
        BY <3>1, <3>2
    <2> QED
      BY <1>2, <1>5, <2>1 DEF Chains
  <1>7. Solves(k)
    BY <1>6
  <1>8. \A s \in SUBSET (1..n) : Good(s)
    <2> DEFINE Bad == {s \in SUBSET (1..n) : ~Good(s)}
    <2> SUFFICES ASSUME Bad # {} PROVE FALSE
      OBVIOUS
    <2>1. PICK s \in Bad : \A u \in Bad : ~(u \subseteq s /\ u # s)
      <3> DEFINE N == 1..n
      <3>1. Bad \in SUBSET SUBSET N /\ IsFiniteSet(N)
        BY FS_Interval, <1>2
      <3> HIDE DEF Bad, N
      <3> QED
        BY <3>1, LeastSubset
    <2>2. s \in SUBSET (1..n)
      BY <2>1
    <2> HIDE DEF k, n, V
    <2>3. s # {}
      <3>1. k[{}] = {x}
        BY <1>2, <1>7
      <3>2. Good({})
        BY <1>2, <3>1
      <3> QED
        BY <2>1, <3>2
    <2>4. s \ {Max(s)} \in SUBSET (1..n) /\ Max(s) \in 1..n /\ Max(s) \in s
      BY <1>2, <2>2, <2>3, WithoutLast
    <2>5. Good(s \ {Max(s)})
      BY <2>1, <2>4
    <2>6. k[s] = After(k[s \ {Max(s)}], b[Max(s)])
      BY <1>2, <1>7, <2>2, <2>3
    <2>7. k[s] \in V /\ (k[s] # {} => k[s \ {Max(s)}] # {} /\ b[Max(s)].cell \in Key)
      <3> PICK v, c : v = k[s \ {Max(s)}] /\ c = b[Max(s)]
        OBVIOUS
      <3>1. v \in V /\ c \in S /\ k[s] = After(v, c)
        BY <1>2, <2>4, <2>5, <2>6
      <3>2. After(v, c) \in V /\ (After(v, c) # {} => v # {} /\ c.cell \in Key)
        BY <1>3, <3>1
      <3> QED
        BY <3>1, <3>2
    <2>8. Good(s)
      BY <2>4, <2>5, <2>7
    <2> QED
      BY <2>1, <2>8
  <1>9. k[1..n] \in V /\ (k[1..n] # {} => \A i \in 1..n : b[i].cell \in Key)
    <2> HIDE DEF k, n, V
    <2> QED
      BY <1>8
  <1> HIDE DEF k
  <1> QED
    BY <1>1, <1>2, <1>9

-----------------------------------------------------------------------------
StockTyped == rows \subseteq Key /\ quantity \in [Key -> Int] /\ ledger \in [Key -> Int]

LEMMA RunTyped ==
    ASSUME StockTyped, NEW S, \A c \in S : c.op \in Operation /\ c.quantity \in Int,
           NEW b \in Seq(S), Run(b)
    PROVE  StockTyped'
  <1> PICK q, r : q = quantity /\ r = quantity'
    OBVIOUS
  <1>1. q \in Balances /\ r \in BlockOutcomes(b, q)
    BY DEF StockTyped, Balances, Run
  <1>2. r \in Balances /\ \A i \in DOMAIN b : b[i].cell \in Key
    BY <1>1, BlockTyped
  <1>3. quantity' \in [Key -> Int] /\ ledger' \in [Key -> Int]
    BY <1>2 DEF StockTyped, Balances, Run
  <1>4. rows' \subseteq Key
    BY <1>2 DEF StockTyped, Run, CellsOf, WrittenBy
  <1> QED
    BY <1>3, <1>4 DEF StockTyped

(* What an invoice posts: calls for the cells of one warehouse. *)
LEMMA PostingTyped ==
    ASSUME NEW op \in Operation, NEW place, NEW items \in Lines
    PROVE  \E S : /\ \A c \in S : c.op \in Operation /\ c.quantity \in Int
                  /\ Posting(op, place, items) \in Seq(S)
  <1> DEFINE Asked(line) == [op |-> op, cell |-> <<line[1], place, NoLocation>>,
                             quantity |-> line[2], allow_negative |-> FALSE]
             S == {Asked(line) : line \in Line}
  <1>1. \A c \in S : c.op \in Operation /\ c.quantity \in Int
    BY LinesAssumption
  <1>2. items \in Seq(Line)
    BY LinesAre
  <1>3. DOMAIN items = 1..Len(items) /\ Len(items) \in Nat /\ \A i \in 1..Len(items) : items[i] \in Line
    BY <1>2
  <1>4. Posting(op, place, items) = [i \in 1..Len(items) |-> Asked(items[i])]
    BY <1>3 DEF Posting
  <1>5. Posting(op, place, items) \in Seq(S)
    <2> HIDE DEF Asked
    <2> QED
      BY <1>3, <1>4
  <1> QED
    BY <1>1, <1>5

MovementRecord == [type: {"SALE", "RETURN"}, warehouse: Place, goods: Lines]
MovesTyped == \A i \in Invoice : moves[i] \in Seq(MovementRecord)

LEMMA RecordTyped ==
    ASSUME InvoicesTypeOK, MovesTyped, NEW i \in Invoice, NEW type \in {"SALE", "RETURN"},
           NEW place \in Place, NEW goods \in Lines, Record(i, type, place, goods)
    PROVE  MovesTyped'
  <1>1. Movement(type, place, goods) \in MovementRecord
    BY DEF Movement, MovementRecord
  <1>2. moves' = [moves EXCEPT ![i] = IF goods = <<>> THEN moves[i]
                                      ELSE Append(moves[i], Movement(type, place, goods))]
    BY Recorded
  <1>3. (IF goods = <<>> THEN moves[i] ELSE Append(moves[i], Movement(type, place, goods)))
           \in Seq(MovementRecord)
    BY <1>1 DEF MovesTyped
  <1>4. moves = [j \in Invoice |-> moves[j]]
    BY DEF InvoicesTypeOK
  <1>5. ASSUME NEW j \in Invoice PROVE moves'[j] \in Seq(MovementRecord)
    <2>1. moves'[j] = IF j = i THEN (IF goods = <<>> THEN moves[i]
                                     ELSE Append(moves[i], Movement(type, place, goods)))
                      ELSE moves[j]
      BY <1>2, <1>4
    <2> QED
      BY <2>1, <1>3 DEF MovesTyped
  <1> QED
    BY <1>5 DEF MovesTyped

InvoiceTypes == InvoicesTypeOK /\ StockTyped /\ MovesTyped

LEMMA InitInvoiceTypes == Init => InvoiceTypes
  <1> SUFFICES ASSUME Init PROVE InvoiceTypes
    OBVIOUS
  <1>1. StockTyped
    BY DEF Init, StockInit, StockTyped
  <1>2. MovesTyped
    BY DEF Init, MovesTyped
  <1> QED
    BY <1>1, <1>2, InitInvoicesTypeOK DEF InvoiceTypes

LEMMA StepInvoiceTypes ==
    ASSUME InvoiceTypes, [Next]_vars
    PROVE  InvoiceTypes'
  <1>1. InvoicesTypeOK /\ StockTyped /\ MovesTyped
    BY DEF InvoiceTypes
  <1>2. ASSUME UNCHANGED <<stock, moves>> PROVE StockTyped' /\ MovesTyped'
    <2>1. rows' = rows /\ quantity' = quantity /\ ledger' = ledger /\ moves' = moves
      BY <1>2 DEF stock
    <2> QED
      BY <1>1, <2>1 DEF StockTyped, MovesTyped
  <1>3. ASSUME NEW r \in Request, Issue(r) \/ Cancel(r), ~UNCHANGED <<stock, moves>>
        PROVE  StockTyped' /\ MovesTyped'
    <2>1. request[r] # Idle
      BY <1>3 DEF Issue, Cancel, Working
    <2>2. Of(r) \in Invoice /\ Loaded(r).warehouse \in Place /\ Loaded(r).lines \in Lines
      BY <1>1, <2>1, WorkingCopy
    <2> PICK i, place, goods : i = Of(r) /\ place = Loaded(r).warehouse
                               /\ goods = Goods(Loaded(r).lines)
      OBVIOUS
    <2>3. i \in Invoice /\ place \in Place /\ goods \in Lines
      BY <2>2, GoodsTyped
    <2>4. \/ Run(Posting("issue", place, goods)) /\ Record(i, "SALE", place, goods)
          \/ Run(Posting("receive", place, goods)) /\ Record(i, "RETURN", place, goods)
      BY <1>3 DEF Issue, Cancel
    <2>5. PICK op \in Operation, type \in {"SALE", "RETURN"} :
             Run(Posting(op, place, goods)) /\ Record(i, type, place, goods)
      BY <2>4 DEF Operation
    <2>6. StockTyped'
      <3> PICK b : b = Posting(op, place, goods)
        OBVIOUS
      <3>1. PICK S : (\A c \in S : c.op \in Operation /\ c.quantity \in Int) /\ b \in Seq(S)
        BY <2>3, PostingTyped
      <3> QED
        BY <1>1, <2>5, <3>1, RunTyped
    <2>7. MovesTyped'
      BY <1>1, <2>3, <2>5, RecordTyped
    <2> QED
      BY <2>6, <2>7
  <1>4. ASSUME Restock PROVE StockTyped' /\ MovesTyped'
    <2>1. PICK b \in Restocks : Run(b)
      BY <1>4 DEF Restock
    <2>2. b \in Seq(Call) /\ \A c \in Call : c.op \in Operation /\ c.quantity \in Int
      BY BlocksAssumption, RestocksAssumption DEF Call
    <2>3. StockTyped'
      BY <1>1, <2>1, <2>2, RunTyped
    <2>4. MovesTyped'
      BY <1>1, <1>4 DEF Restock, MovesTyped
    <2> QED
      BY <2>3, <2>4
  <1>5. ASSUME NEW i \in Invoice, Create(i) PROVE UNCHANGED <<stock, moves>>
    BY <1>5 DEF Create
  <1>6. ASSUME NEW r \in Request, Handle(r), ~Issue(r), ~Cancel(r)
        PROVE  UNCHANGED <<stock, moves>>
    BY <1>6 DEF Handle, Load, Prepare, Edit, MarkPaid, UpdateStatus, Patch, Delete, Fail
  <1>7. UNCHANGED vars => UNCHANGED <<stock, moves>>
    BY DEF vars, stock
  <1>8. StockTyped' /\ MovesTyped'
    <2>1. ASSUME NEW r \in Request, Handle(r) PROVE StockTyped' /\ MovesTyped'
      <3>1. CASE UNCHANGED <<stock, moves>>
        BY <1>2, <3>1
      <3>2. CASE ~UNCHANGED <<stock, moves>>
        BY <1>3, <1>6, <2>1, <3>2
      <3> QED
        BY <3>1, <3>2
    <2>2. ASSUME NEW i \in Invoice, Create(i) PROVE StockTyped' /\ MovesTyped'
      BY <1>2, <1>5, <2>2
    <2>3. ASSUME UNCHANGED vars PROVE StockTyped' /\ MovesTyped'
      BY <1>2, <1>7, <2>3
    <2> QED
      BY <1>4, <2>1, <2>2, <2>3 DEF Next
  <1> QED
    BY <1>1, <1>8, NextInvoicesTypeOK DEF InvoiceTypes

(* For any invoices, items and blocks: balances are integers of cells that  *)
(* may have one, and the movements of an invoice record its items.          *)
THEOREM InvoiceStockTyped == Spec => []TypeOK
  <1>1. InvoiceTypes => TypeOK
    BY DEF InvoiceTypes, InvoicesTypeOK, StockTyped, MovesTyped, MovementRecord, TypeOK
  <1>2. InvoiceTypes /\ [Next]_vars => InvoiceTypes'
    BY StepInvoiceTypes
  <1> QED
    BY <1>1, <1>2, InitInvoiceTypes, PTL DEF Spec
=============================================================================
