---------------------- MODULE ReturnsAndAlerts_proofs -----------------------
(***************************************************************************)
(* Proofs about two components that share no name.                         *)
(*                                                                         *)
(* PurchaseReturns, for any returns, orders, callers and lines.  What an   *)
(* order has left to return is a sum over returns, and over their lines,   *)
(* for which the lemmas of SumTheorems are.                                *)
(*                                                                         *)
(* From Stages on, StockAlerts and StockReports, for any shelves, sites,   *)
(* products, levels, alerts and sessions: first the types, then the ledger *)
(* (LedgerInv), then the alerts (AlertsInv).                               *)
(***************************************************************************)
EXTENDS PurchaseReturns, StockReports, FiniteSetTheorems, SequenceTheorems,
        SumTheorems, TLAPS

-----------------------------------------------------------------------------
(* Lines of a return: one may be added while there are fewer than MaxLines. *)

LEMMA BoundedLines ==
    ASSUME NEW lines \in BoundedSeq(Line, MaxLines)
    PROVE  lines \in Seq(Line) /\ Len(lines) \in 0..MaxLines
  BY ReturnsAssumption DEF BoundedSeq, SeqOf

LEMMA EmptyLines == <<>> \in BoundedSeq(Line, MaxLines)
  <1>1. <<>> \in [1..0 -> Line] /\ 0 \in 0..MaxLines
    BY ReturnsAssumption
  <1> QED
    BY <1>1 DEF BoundedSeq, SeqOf

LEMMA AppendedLines ==
    ASSUME NEW lines \in BoundedSeq(Line, MaxLines), Len(lines) < MaxLines, NEW line \in Line
    PROVE  Append(lines, line) \in BoundedSeq(Line, MaxLines)
  <1>1. /\ lines \in Seq(Line) /\ Len(lines) \in 0..MaxLines
        /\ Len(lines) + 1 \in 0..MaxLines
    BY BoundedLines, ReturnsAssumption
  <1>2. Append(lines, line) \in [1..(Len(lines) + 1) -> Line]
    <2>1. /\ Append(lines, line) \in Seq(Line)
          /\ Len(Append(lines, line)) = Len(lines) + 1
      BY <1>1
    <2>2. Append(lines, line) \in [1..Len(Append(lines, line)) -> Line]
      BY <2>1, LenProperties, Zenon
    <2> QED
      BY <2>1, <2>2, Zenon
  <1> QED
    BY <1>1, <1>2 DEF BoundedSeq, SeqOf

-----------------------------------------------------------------------------
LEMMA InitTypeOK == Init => TypeOK
  BY EmptyLines, ReturnsAssumption DEF Init, TypeOK, Status

(* A caller that is busy holds a return. *)
LEMMA HeldReturn ==
    ASSUME TypeOK, NEW r \in Request, request[r] # Idle
    PROVE  /\ request[r] \in Copy /\ Holding(r) \in Return
           /\ request[r].status \in Status /\ request[r].validated \in BOOLEAN
  BY DEF TypeOK, Copy, Holding

LEMMA NextTypeOK ==
    ASSUME TypeOK, [Next]_vars
    PROVE  TypeOK'
  <1> USE DEF TypeOK
  <1>1. ASSUME NEW d \in Return, Create(d)
        PROVE  TypeOK'
    BY <1>1 DEF Create, Status
  <1>2. ASSUME NEW o \in Order, NEW p \in Product, Receive(o, p)
        PROVE  TypeOK'
    <2>1. received' \in [Order -> [Product -> Nat]]
      BY <1>2 DEF Receive
    <2> QED
      BY <1>2, <2>1 DEF Receive, documents
  <1>3. CASE Move
    BY <1>3 DEF Move, documents
  <1>4. ASSUME NEW r \in Request, Load(r)
        PROVE  TypeOK'
    <2>1. PICK d \in Return :
            /\ request' = [request EXCEPT ![r] =
                  [return |-> d, status |-> status[d], validated |-> FALSE]]
            /\ contended' = contended \cup
                  UNION {{d, Holding(s)} : s \in {t \in Request \ {r} :
                            request[t] # Idle /\ Rival(d, Holding(t))}}
      BY <1>4 DEF Load
    <2>2. contended' \subseteq Return
      BY <2>1, HeldReturn
    <2>3. request' \in [Request -> Copy \cup {Idle}]
      BY <2>1 DEF Copy
    <2> QED
      BY <1>4, <2>2, <2>3 DEF Load, documents
  <1>5. ASSUME NEW r \in Request, AddItem(r)
        PROVE  TypeOK'
    <2>1. Holding(r) \in Return
      BY <1>5, HeldReturn DEF AddItem
    <2>2. PICK line \in Line :
            /\ Len(items[Holding(r)]) < MaxLines
            /\ items' = [items EXCEPT ![Holding(r)] = Append(@, line)]
      BY <1>5 DEF AddItem
    <2>3. items' \in [Return -> BoundedSeq(Line, MaxLines)]
      BY <2>1, <2>2, AppendedLines
    <2>4. request' \in [Request -> Copy \cup {Idle}]
      BY <1>5 DEF AddItem, Done
    <2> QED
      BY <1>5, <2>3, <2>4 DEF AddItem
  <1>6. ASSUME NEW r \in Request, NEW new \in Status, SaveStatus(r, new), request[r] # Idle
        PROVE  TypeOK'
    BY <1>6, HeldReturn DEF SaveStatus, Done
  <1>7. ASSUME NEW r \in Request, Validate(r)
        PROVE  TypeOK'
    <2>1. request' \in [Request -> Copy \cup {Idle}]
      BY <1>7, HeldReturn DEF Validate, Copy
    <2> QED
      BY <1>7, <2>1 DEF Validate, documents
  <1>8. ASSUME NEW r \in Request, Complete(r)
        PROVE  TypeOK'
    <2>1. Holding(r) \in Return
      BY <1>8, HeldReturn DEF Complete
    <2>2. left' \in [Return -> Seq(Line)]
      <3>1. left[Holding(r)] \o items[Holding(r)] \in Seq(Line)
        BY <2>1, BoundedLines
      <3> QED
        BY <1>8, <2>1, <3>1 DEF Complete
    <2>3. status' \in [Return -> Status]
      BY <1>8, <2>1 DEF Complete, Status
    <2> QED
      BY <1>8, <2>2, <2>3 DEF Complete, Done
  <1>9. ASSUME NEW r \in Request, Fail(r)
        PROVE  TypeOK'
    BY <1>9 DEF Fail, Done, documents
  <1>10. CASE UNCHANGED vars
    BY <1>10 DEF vars, documents
  <1>11. "PENDING" \in Status /\ "APPROVED" \in Status /\ "CANCELLED" \in Status
    BY DEF Status
  <1>12. ASSUME NEW r \in Request, Handle(r)
         PROVE  TypeOK'
    BY <1>5, <1>6, <1>7, <1>8, <1>9, <1>11, <1>12 DEF Handle, Submit, Approve, Cancel
  <1> QED
    BY <1>1, <1>2, <1>3, <1>4, <1>10, <1>12 DEF Next

(* TypeOK: every row, copy and line has the type of its column, and no     *)
(* return gets more lines than add_item lets it have.                      *)
THEOREM ReturnsTypeOK == Spec => []TypeOK
  BY InitTypeOK, NextTypeOK, PTL DEF Spec

-----------------------------------------------------------------------------
(* What a completed return took out of stock. *)
ReturnsInv == TypeOK /\ CopiesAreCurrent /\ LeftAsCompleted

LEMMA InitInv == Init => ReturnsInv
  <1> SUFFICES ASSUME Init
               PROVE  CopiesAreCurrent /\ LeftAsCompleted
    BY InitTypeOK DEF ReturnsInv
  <1> QED
    BY DEF Init, CopiesAreCurrent, LeftAsCompleted, Orderly

(* A caller that leaves the rows alone, or the return it held, is done. *)
LEMMA DoneCopies ==
    ASSUME TypeOK, CopiesAreCurrent, NEW r \in Request, request[r] # Idle, Done(r),
           contended' = contended,
           \A d \in Return : d # Holding(r) => status'[d] = status[d]
    PROVE  CopiesAreCurrent'
  <1> SUFFICES ASSUME NEW s \in Request, request'[s] # Idle
               PROVE  /\ request'[s].status # "unborn"
                      /\ request'[s].validated => request'[s].status = "APPROVED"
                      /\ request'[s].return \notin contended =>
                            /\ request'[s].status = status'[request'[s].return]
                            /\ \A t \in Request : request'[t] # Idle
                                    /\ request'[t].return = request'[s].return => t = s
    BY DEF CopiesAreCurrent, Holding
  <1>1. s # r /\ request'[s] = request[s]
    BY DEF Done, TypeOK
  <1>2. ASSUME request[s].return \notin contended
        PROVE  request[s].return # Holding(r)
    BY <1>1, <1>2 DEF CopiesAreCurrent, Holding
  <1>3. \A t \in Request : request'[t] # Idle => request'[t] = request[t]
    BY DEF Done, TypeOK
  <1>4. request[s].return \in Return
    BY <1>1, HeldReturn DEF Holding
  <1> QED
    BY <1>1, <1>2, <1>3, <1>4 DEF CopiesAreCurrent, Holding

(* A caller that is alone with its return finds it as its copy says. *)
LEMMA AloneIsCurrent ==
    ASSUME CopiesAreCurrent, NEW r \in Request, request[r] # Idle, Holding(r) \notin contended
    PROVE  request[r].status = status[Holding(r)]
  BY DEF CopiesAreCurrent

LEMMA CreateInv ==
    ASSUME ReturnsInv, NEW d \in Return, Create(d)
    PROVE  CopiesAreCurrent' /\ LeftAsCompleted'
  <1>1. /\ status[d] = "unborn" /\ status' = [status EXCEPT ![d] = "DRAFT"]
        /\ request' = request /\ contended' = contended /\ left' = left /\ items' = items
    BY DEF Create
  <1>2. CopiesAreCurrent'
    <2> SUFFICES ASSUME NEW r \in Request, request[r] # Idle, Holding(r) \notin contended
                 PROVE  request[r].status = status'[Holding(r)]
      BY <1>1 DEF CopiesAreCurrent, ReturnsInv, Holding
    <2>1. Holding(r) # d
      BY <1>1 DEF ReturnsInv, CopiesAreCurrent
    <2> QED
      BY <1>1, <2>1, HeldReturn DEF ReturnsInv, TypeOK, CopiesAreCurrent
  <1>3. LeftAsCompleted'
    BY <1>1 DEF ReturnsInv, TypeOK, LeftAsCompleted, Orderly
  <1> QED
    BY <1>2, <1>3

LEMMA LoadInv ==
    ASSUME ReturnsInv, NEW r \in Request, Load(r)
    PROVE  CopiesAreCurrent' /\ LeftAsCompleted'
  <1>1. PICK d \in Return :
          /\ status[d] # "unborn"
          /\ request' = [request EXCEPT ![r] =
                [return |-> d, status |-> status[d], validated |-> FALSE]]
          /\ contended' = contended \cup
                UNION {{d, Holding(s)} : s \in {t \in Request \ {r} :
                          request[t] # Idle /\ Rival(d, Holding(t))}}
    BY DEF Load
  <1>2. status' = status /\ items' = items /\ left' = left /\ contended \subseteq contended'
    BY <1>1 DEF Load, documents
  <1>3. LeftAsCompleted'
    BY <1>2 DEF ReturnsInv, LeftAsCompleted, Orderly
  <1>4. \A t \in Request \ {r} : request[t] # Idle /\ Holding(t) = d => d \in contended'
    BY <1>1 DEF Rival
  <1>5. /\ request'[r] = [return |-> d, status |-> status[d], validated |-> FALSE]
        /\ \A t \in Request \ {r} : request'[t] = request[t]
    BY <1>1 DEF ReturnsInv, TypeOK
  <1>6. CopiesAreCurrent'
    <2> SUFFICES ASSUME NEW s \in Request, request'[s] # Idle
                 PROVE  /\ request'[s].status # "unborn"
                        /\ request'[s].validated => request'[s].status = "APPROVED"
                        /\ request'[s].return \notin contended' =>
                              /\ request'[s].status = status'[request'[s].return]
                              /\ \A t \in Request : request'[t] # Idle
                                      /\ request'[t].return = request'[s].return => t = s
      BY DEF CopiesAreCurrent, Holding
    <2>1. CASE s = r
      BY <1>1, <1>2, <1>4, <1>5, <2>1 DEF Holding
    <2>2. CASE s # r
      <3>1. request'[s] = request[s]
        BY <1>5, <2>2
      <3>2. request[s].return \notin contended' => request[s].return # d
        BY <1>4, <2>2, <3>1 DEF Holding
      <3> QED
        BY <1>2, <1>5, <2>2, <3>1, <3>2 DEF ReturnsInv, CopiesAreCurrent, Holding
    <2> QED
      BY <2>1, <2>2
  <1> QED
    BY <1>3, <1>6

LEMMA AddItemInv ==
    ASSUME ReturnsInv, NEW r \in Request, AddItem(r)
    PROVE  CopiesAreCurrent' /\ LeftAsCompleted'
  <1>1. /\ request[r] # Idle /\ request[r].status = "DRAFT" /\ Done(r)
        /\ status' = status /\ left' = left /\ contended' = contended
    BY DEF AddItem
  <1>2. PICK line \in Line : items' = [items EXCEPT ![Holding(r)] = Append(@, line)]
    BY DEF AddItem
  <1>3. CopiesAreCurrent'
    BY <1>1, DoneCopies DEF ReturnsInv
  <1>4. LeftAsCompleted'
    <2> SUFFICES ASSUME NEW d \in Return, d \notin contended
                 PROVE  left[d] = IF status[d] = "COMPLETED" THEN items'[d] ELSE <<>>
      BY <1>1 DEF LeftAsCompleted, Orderly
    <2>1. status[d] = "COMPLETED" => d # Holding(r)
      BY <1>1, AloneIsCurrent DEF ReturnsInv
    <2> QED
      BY <1>2, <2>1 DEF ReturnsInv, TypeOK, LeftAsCompleted, Orderly
  <1> QED
    BY <1>3, <1>4

(* submit, approve and cancel find no completed return. *)
LEMMA SaveStatusInv ==
    ASSUME ReturnsInv, NEW r \in Request, NEW new \in Status, SaveStatus(r, new),
           request[r] # Idle, request[r].status # "COMPLETED", new # "COMPLETED"
    PROVE  CopiesAreCurrent' /\ LeftAsCompleted'
  <1>1. /\ status' = [status EXCEPT ![Holding(r)] = new] /\ Done(r)
        /\ items' = items /\ left' = left /\ contended' = contended
    BY DEF SaveStatus
  <1>2. CopiesAreCurrent'
    BY <1>1, DoneCopies DEF ReturnsInv, TypeOK
  <1>3. LeftAsCompleted'
    <2> SUFFICES ASSUME NEW d \in Return, d \notin contended
                 PROVE  left[d] = IF status'[d] = "COMPLETED" THEN items[d] ELSE <<>>
      BY <1>1 DEF LeftAsCompleted, Orderly
    <2>1. d = Holding(r) => status[d] # "COMPLETED"
      BY AloneIsCurrent DEF ReturnsInv
    <2> QED
      BY <1>1, <2>1 DEF ReturnsInv, TypeOK, LeftAsCompleted, Orderly
  <1> QED
    BY <1>2, <1>3

LEMMA ValidateInv ==
    ASSUME ReturnsInv, NEW r \in Request, Validate(r)
    PROVE  CopiesAreCurrent' /\ LeftAsCompleted'
  <1>1. /\ request[r] # Idle /\ request[r].status = "APPROVED"
        /\ request' = [request EXCEPT ![r].validated = TRUE]
        /\ status' = status /\ items' = items /\ left' = left /\ contended' = contended
    BY DEF Validate, documents
  <1>2. \A s \in Request : request'[s] # Idle =>
          /\ request[s] # Idle
          /\ request'[s].return = request[s].return
          /\ request'[s].status = request[s].status
          /\ request'[s].validated => request[s].validated \/ s = r
    BY <1>1, HeldReturn DEF ReturnsInv, TypeOK, Copy
  <1> QED
    BY <1>1, <1>2 DEF ReturnsInv, CopiesAreCurrent, LeftAsCompleted, Orderly, Holding

LEMMA CompleteInv ==
    ASSUME ReturnsInv, NEW r \in Request, Complete(r)
    PROVE  CopiesAreCurrent' /\ LeftAsCompleted'
  <1>1. /\ request[r] # Idle /\ request[r].validated
        /\ status' = [status EXCEPT ![Holding(r)] = "COMPLETED"]
        /\ left' = [left EXCEPT ![Holding(r)] = @ \o items[Holding(r)]]
        /\ Done(r) /\ items' = items /\ contended' = contended
    BY DEF Complete
  <1>2. CopiesAreCurrent'
    BY <1>1, DoneCopies DEF ReturnsInv, TypeOK
  <1>3. LeftAsCompleted'
    <2> SUFFICES ASSUME NEW d \in Return, d \notin contended
                 PROVE  left'[d] = IF status'[d] = "COMPLETED" THEN items[d] ELSE <<>>
      BY <1>1 DEF LeftAsCompleted, Orderly
    <2>1. CASE d = Holding(r)
      <3>1. status[d] = "APPROVED"
        BY <1>1, <2>1, AloneIsCurrent DEF ReturnsInv, CopiesAreCurrent
      <3>2. left[d] = <<>> /\ items[d] \in Seq(Line)
        BY <3>1, BoundedLines DEF ReturnsInv, TypeOK, LeftAsCompleted, Orderly
      <3>3. <<>> \o items[d] = items[d]
        BY <3>2
      <3> QED
        BY <1>1, <2>1, <3>2, <3>3 DEF ReturnsInv, TypeOK
    <2>2. CASE d # Holding(r)
      BY <1>1, <2>2 DEF ReturnsInv, TypeOK, LeftAsCompleted, Orderly
    <2> QED
      BY <2>1, <2>2
  <1> QED
    BY <1>2, <1>3

LEMMA NextInv ==
    ASSUME ReturnsInv, [Next]_vars
    PROVE  ReturnsInv'
  <1>1. TypeOK'
    BY NextTypeOK DEF ReturnsInv
  <1>2. ASSUME UNCHANGED <<documents, left, request, contended>>
        PROVE  CopiesAreCurrent' /\ LeftAsCompleted'
    BY <1>2 DEF ReturnsInv, CopiesAreCurrent, LeftAsCompleted, Orderly, Holding, documents
  <1>3. ASSUME NEW r \in Request, Fail(r)
        PROVE  CopiesAreCurrent' /\ LeftAsCompleted'
    <2>1. CopiesAreCurrent'
      BY <1>3, DoneCopies DEF ReturnsInv, Fail, documents
    <2> QED
      BY <1>3, <2>1 DEF ReturnsInv, LeftAsCompleted, Orderly, Fail, documents
  <1>4. ASSUME NEW r \in Request, Submit(r) \/ Approve(r) \/ Cancel(r)
        PROVE  CopiesAreCurrent' /\ LeftAsCompleted'
    BY <1>4, SaveStatusInv DEF Submit, Approve, Cancel, Status
  <1>5. ASSUME NEW r \in Request, Handle(r)
        PROVE  CopiesAreCurrent' /\ LeftAsCompleted'
    BY <1>3, <1>4, <1>5, AddItemInv, ValidateInv, CompleteInv DEF Handle
  <1>6. CopiesAreCurrent' /\ LeftAsCompleted'
    BY <1>2, <1>5, CreateInv, LoadInv DEF Next, Receive, Move, vars
  <1> QED
    BY <1>1, <1>6 DEF ReturnsInv

(* LeftAsCompleted: however many calls failed and whatever else moved, a    *)
(* return that no two callers worked on has taken its lines from stock once *)
(* if it is completed, and nothing if it is not.                            *)
THEOREM ReturnsLeaveAsCompleted == Spec => []LeftAsCompleted
  <1>1. ReturnsInv => LeftAsCompleted
    BY DEF ReturnsInv
  <1> QED
    BY <1>1, InitInv, NextInv, PTL DEF Spec
-----------------------------------------------------------------------------
(* How many units of a product the lines of a return add up to. *)

(* Max chooses the largest element, where there is one. *)
LEMMA LastOfSome ==
    ASSUME NEW n \in Nat, NEW s \in SUBSET (1..n), s # {}
    PROVE  Max(s) \in s
  <1>1. \E m \in s : \A k \in s : k <= m
    <2>1. s \in SUBSET Nat /\ \A k \in s : k <= n
      OBVIOUS
    <2> QED
      BY <2>1, LargestNatural
  <1>2. \E m \in s : \A k \in s : m >= k
    BY <1>1
  <1> QED
    BY <1>2 DEF Max

Unit(lines, p) == [n \in DOMAIN lines |-> IF lines[n][1] = p THEN lines[n][2] ELSE 0]

(* The quantities of a product on the lines of a return. *)
LEMMA UnitsAreIntegers ==
    ASSUME NEW lines \in Seq(Line), NEW p
    PROVE  IntegersOn(Unit(lines, p), DOMAIN lines)
  <1>1. DOMAIN lines = 1..Len(lines) /\ Len(lines) \in Nat
    OBVIOUS
  <1>2. IsFiniteSet(DOMAIN lines)
    BY <1>1, FS_Interval
  <1>3. \A n \in DOMAIN lines : lines[n][2] \in Int
    BY ReturnsAssumption
  <1> QED
    BY <1>2, <1>3 DEF IntegersOn, Unit

(* Total, a fold over the lines, is their sum: each partial fold is the    *)
(* sum so far, and there is no first one that is not.                      *)
LEMMA TotalIsSum ==
    ASSUME NEW lines \in Seq(Line), NEW p
    PROVE  Total(lines, p) = SumFunctionOnSet(Unit(lines, p), DOMAIN lines)
  <1> DEFINE S == DOMAIN lines
             f == Unit(lines, p)
             Sum(s) == SumFunctionOnSet(f, s)
             Step(h) == [s \in SUBSET S |->
                 IF s = {} THEN 0
                 ELSE IF lines[Max(s)][1] = p THEN h[s \ {Max(s)}] + lines[Max(s)][2]
                                              ELSE h[s \ {Max(s)}]]
             h == CHOOSE h : h = Step(h)
             k == [s \in SUBSET S |-> Sum(s)]
  <1>1. IntegersOn(f, S)
    BY UnitsAreIntegers
  <1>2. \A s \in SUBSET S : s # {} => Max(s) \in s
    <2>1. S = 1..Len(lines) /\ Len(lines) \in Nat
      OBVIOUS
    <2> HIDE DEF S
    <2> QED
      BY <2>1, LastOfSome
  <1>3. \A s \in SUBSET S : s # {} =>
          Sum(s) = f[Max(s)] + Sum(s \ {Max(s)}) /\ Sum(s \ {Max(s)}) \in Int
    BY <1>1, <1>2, IntegersOnPart, SumOneMore, SumInteger
  <1>4. \A n \in S : f[n] = IF lines[n][1] = p THEN lines[n][2] ELSE 0
    BY DEF Unit
  <1>5. k = Step(k)
    <2>1. ASSUME NEW s \in SUBSET S
          PROVE  k[s] = Step(k)[s]
      <3>1. CASE s = {}
        BY <3>1, SumEmpty
      <3>2. CASE s # {}
        <4>1. Max(s) \in S /\ s \ {Max(s)} \in SUBSET S
          BY <1>2, <3>2
        <4>2. k[s] = f[Max(s)] + k[s \ {Max(s)}] /\ k[s \ {Max(s)}] \in Int
          <5> HIDE DEF Sum
          <5> QED
            BY <1>3, <3>2, <4>1
        <4>3. lines[Max(s)][2] \in Int
          BY <4>1, ReturnsAssumption
        <4>4. Step(k)[s] = IF lines[Max(s)][1] = p THEN k[s \ {Max(s)}] + lines[Max(s)][2]
                                                   ELSE k[s \ {Max(s)}]
          <5> HIDE DEF k
          <5> QED
            BY <3>2
        <4> HIDE DEF k, f, Step, S
        <4> QED
          BY <1>4, <4>1, <4>2, <4>3, <4>4
      <3> QED
        BY <3>1, <3>2
    <2> HIDE DEF Sum
    <2> QED
      BY <2>1
  <1>6. h = Step(h)
    <2> HIDE DEF Step, k
    <2> QED
      BY <1>5
  <1>7. h[{}] = 0
    <2>1. Step(h)[{}] = 0
      <3> HIDE DEF h
      <3> QED
        OBVIOUS
    <2> HIDE DEF h, Step
    <2> QED
      BY <1>6, <2>1
  <1>8. ASSUME NEW s \in SUBSET S, s # {}
        PROVE  h[s \ {Max(s)}] \in Int => h[s] = f[Max(s)] + h[s \ {Max(s)}]
    <2>1. Step(h)[s] = IF lines[Max(s)][1] = p THEN h[s \ {Max(s)}] + lines[Max(s)][2]
                                               ELSE h[s \ {Max(s)}]
      <3> HIDE DEF h, S
      <3> QED
        BY <1>8
    <2>2. Max(s) \in S
      BY <1>2, <1>8
    <2>3. lines[Max(s)][2] \in Int
      <3> HIDE DEF h, Step, f
      <3> QED
        BY <2>2, ReturnsAssumption
    <2> HIDE DEF h, Step, f, S
    <2> QED
      BY <1>4, <1>6, <2>1, <2>2, <2>3
  <1>9. h[S] = Sum(S)
    <2> HIDE DEF h, f, S
    <2> QED
      BY <1>1, <1>2, <1>7, <1>8, SumInAnyOrder
  <1>10. Total(lines, p) = h[S]
    BY DEF Total, FoldLeft, MapThenFoldSet
  <1> QED
    BY <1>9, <1>10

(* It is an integer, *)
LEMMA TotalInteger ==
    ASSUME NEW lines \in Seq(Line), NEW p
    PROVE  Total(lines, p) \in Int
  BY UnitsAreIntegers, TotalIsSum, SumInteger

(* nothing for no lines, *)
LEMMA TotalEmpty == ASSUME NEW p PROVE Total(<<>>, p) = 0
  <1>1. <<>> \in Seq(Line) /\ DOMAIN <<>> = {}
    OBVIOUS
  <1> QED
    BY <1>1, TotalIsSum, SumEmpty

(* validate refuses two lines of one product: each adds up alone. *)
LEMMA TotalOfDistinct ==
    ASSUME NEW lines \in Seq(Line), NEW p,
           \A n \in DOMAIN lines : \A m \in 1..(n - 1) : lines[m][1] # lines[n][1]
    PROVE  \/ Total(lines, p) = 0
           \/ \E n \in DOMAIN lines : lines[n][1] = p /\ Total(lines, p) = lines[n][2]
  <1> DEFINE S == DOMAIN lines
             f == Unit(lines, p)
  <1>1. IntegersOn(f, S)
    BY UnitsAreIntegers
  <1>2. \A n \in S : f[n] = IF lines[n][1] = p THEN lines[n][2] ELSE 0
    BY DEF Unit
  <1>3. Total(lines, p) = SumFunctionOnSet(f, S)
    BY TotalIsSum
  <1>4. CASE \A n \in S : lines[n][1] # p
    <2>1. \A n \in S : f[n] = 0
      BY <1>2, <1>4
    <2> QED
      BY <1>1, <1>3, <2>1, SumOfZeros DEF IntegersOn
  <1>5. ASSUME NEW n \in S, lines[n][1] = p
        PROVE  Total(lines, p) = lines[n][2]
    <2>1. \A m \in S \ {n} : lines[m][1] # p
      BY <1>5
    <2>2. \A m \in S \ {n} : f[m] = 0
      BY <1>2, <2>1
    <2>3. IsFiniteSet(S \ {n})
      BY <1>1, FS_Subset DEF IntegersOn
    <2>4. SumFunctionOnSet(f, S \ {n}) = 0
      BY <2>2, <2>3, SumOfZeros
    <2>5. SumFunctionOnSet(f, S) = f[n] + SumFunctionOnSet(f, S \ {n})
      BY <1>1, SumOneMore
    <2>6. f[n] = lines[n][2] /\ f[n] \in Int
      BY <1>1, <1>2, <1>5 DEF IntegersOn
    <2> QED
      BY <1>3, <2>4, <2>5, <2>6
  <1> QED
    BY <1>4, <1>5

(* The same over several returns. *)
TotalsOver(linesOf, S, p) == MapThenSumSet(LAMBDA d : Total(linesOf[d], p), S)
Totals(linesOf, S, p) == [d \in S |-> Total(linesOf[d], p)]

(* What each return returns of a product. *)
LEMMA TotalsAreIntegers ==
    ASSUME NEW linesOf \in [Return -> Seq(Line)], NEW S \in SUBSET Return, NEW p
    PROVE  IntegersOn(Totals(linesOf, S, p), S)
  BY TotalInteger, ReturnsAssumption, FS_Subset DEF IntegersOn, Totals

(* The total over several returns is a sum. *)
LEMMA TotalsOverIsSum ==
    ASSUME NEW linesOf \in [Return -> Seq(Line)], NEW S \in SUBSET Return, NEW p
    PROVE  TotalsOver(linesOf, S, p) = SumFunctionOnSet(Totals(linesOf, S, p), S)
  <1> DEFINE f == Totals(linesOf, S, p)
             Step(h) == [s \in SUBSET S |->
                 IF s = {} THEN 0
                 ELSE Total(linesOf[CHOOSE x \in s : TRUE], p) + h[s \ {CHOOSE x \in s : TRUE}]]
             h == CHOOSE h : h = Step(h)
  <1>1. \A k : Step(k) = [s \in SUBSET S |-> IF s = {} THEN 0
                 ELSE f[CHOOSE x \in s : TRUE] + k[s \ {CHOOSE x \in s : TRUE}]]
    BY DEF Totals
  <1>2. IntegersOn(f, S)
    BY TotalsAreIntegers
  <1>3. PICK k : Adds(k, f, S)
    BY <1>2, SumsExist
  <1>4. k = Step(k)
    <2>1. k = [s \in SUBSET S |-> IF s = {} THEN 0
                 ELSE f[CHOOSE x \in s : TRUE] + k[s \ {CHOOSE x \in s : TRUE}]]
      BY <1>3 DEF Adds
    <2> HIDE DEF Step, f
    <2> QED
      BY <1>1, <2>1
  <1>5. Adds(h, f, S)
    <2>1. h = Step(h)
      <3> HIDE DEF Step
      <3> QED
        BY <1>4
    <2>2. Step(h) = [s \in SUBSET S |-> IF s = {} THEN 0
                 ELSE f[CHOOSE x \in s : TRUE] + h[s \ {CHOOSE x \in s : TRUE}]]
      <3> HIDE DEF Step, f, h
      <3> QED
        BY <1>1
    <2> HIDE DEF Step, f, h
    <2> QED
      BY <2>1, <2>2 DEF Adds
  <1>6. h[S] = SumFunctionOnSet(f, S)
    BY <1>2, <1>5, SumOnly
  <1>7. TotalsOver(linesOf, S, p) = h[S]
    BY DEF TotalsOver, MapThenSumSet, MapThenFoldSet
  <1> QED
    BY <1>6, <1>7

(* Only the lines of the returns that are added up count. *)
LEMMA TotalsOverSame ==
    ASSUME NEW a \in [Return -> Seq(Line)], NEW b \in [Return -> Seq(Line)],
           NEW S \in SUBSET Return, NEW p, \A d \in S : a[d] = b[d]
    PROVE  TotalsOver(a, S, p) = TotalsOver(b, S, p) /\ TotalsOver(a, S, p) \in Int
  <1>1. Totals(a, S, p) = Totals(b, S, p)
    BY DEF Totals
  <1> QED
    BY <1>1, TotalsOverIsSum, TotalsAreIntegers, SumInteger

(* One more return adds its lines. *)
LEMMA TotalsOverOneMore ==
    ASSUME NEW a \in [Return -> Seq(Line)], NEW S \in SUBSET Return,
           NEW d \in Return \ S, NEW p
    PROVE  TotalsOver(a, S \cup {d}, p) = Total(a[d], p) + TotalsOver(a, S, p)
  <1> DEFINE T == S \cup {d}
             f == Totals(a, T, p)
  <1>1. IntegersOn(f, T) /\ IntegersOn(f, S) /\ T \ {d} = S
    BY TotalsAreIntegers, IntegersOnPart
  <1>2. SumFunctionOnSet(f, T) = f[d] + SumFunctionOnSet(f, S)
    BY <1>1, SumOneMore
  <1>3. SumFunctionOnSet(f, S) = SumFunctionOnSet(Totals(a, S, p), S)
    <2>1. \A x \in S : f[x] = Totals(a, S, p)[x]
      BY DEF Totals
    <2> HIDE DEF f
    <2> QED
      BY <1>1, <2>1, SumSame
  <1>4. f[d] = Total(a[d], p)
    BY DEF Totals
  <1>5. TotalsOver(a, T, p) = SumFunctionOnSet(f, T)
    BY TotalsOverIsSum
  <1> QED
    BY <1>2, <1>3, <1>4, <1>5, TotalsOverIsSum

(* A return without lines adds nothing. *)
LEMMA TotalsOverPart ==
    ASSUME NEW a \in [Return -> Seq(Line)], NEW S \in SUBSET Return, NEW T \in SUBSET S,
           NEW p, \A d \in S \ T : a[d] = <<>>
    PROVE  TotalsOver(a, S, p) = TotalsOver(a, T, p)
  <1> DEFINE f == Totals(a, S, p)
  <1>1. IntegersOn(f, S) /\ IntegersOn(f, T) /\ IsFiniteSet(S \ T)
    BY TotalsAreIntegers, IntegersOnPart, FS_Subset DEF IntegersOn
  <1>2. SumFunctionOnSet(f, S) = SumFunctionOnSet(f, T) + SumFunctionOnSet(f, S \ T)
    BY <1>1, SumOfParts
  <1>3. SumFunctionOnSet(f, S \ T) = 0
    <2>1. \A d \in S \ T : f[d] = 0
      BY TotalEmpty DEF Totals
    <2> QED
      BY <1>1, <2>1, SumOfZeros
  <1>4. SumFunctionOnSet(f, T) = SumFunctionOnSet(Totals(a, T, p), T)
    <2>1. \A x \in T : f[x] = Totals(a, T, p)[x]
      BY DEF Totals
    <2> QED
      BY <1>1, <2>1, SumSame
  <1>5. SumFunctionOnSet(f, T) \in Int
    BY <1>1, SumInteger
  <1> QED
    BY <1>2, <1>3, <1>4, <1>5, TotalsOverIsSum
-----------------------------------------------------------------------------
(* ReturnedWasReceived is not inductive: complete() takes out what validate *)
(* found returnable before.  Nothing returned since, as the callers that    *)
(* hold returns of the same order are known to each other.                  *)

ReturnsOf(o) == {d \in Return : head[d].order = o}
CompletedOf(o) == {d \in Return : head[d].order = o /\ status[d] = "COMPLETED"}

RivalsApart ==
    \A r, s \in Request :
        request[r] # Idle /\ request[s] # Idle /\ r # s /\ Rival(Holding(r), Holding(s)) =>
            Holding(r) \in contended

ReturnedFits ==
    \A o \in Order : ReturnsOf(o) \cap contended = {} =>
        \A p \in Product : Returned(o, p) <= received[o][p]

StillReturnable(d) ==
    \A o \in Order : head[d].order = o /\ ReturnsOf(o) \cap contended = {} =>
        \A p \in Product : Returned(o, p) + Total(items[d], p) <= received[o][p]

ValidatedFits ==
    \A r \in Request : request[r] # Idle /\ request[r].validated => StillReturnable(Holding(r))

OrdersInv == ReturnsInv /\ RivalsApart /\ ReturnedFits /\ ValidatedFits

(* What the model calls Returned. *)
LEMMA ReturnedIs ==
    ASSUME NEW o, NEW p
    PROVE  /\ Returned(o, p) = TotalsOver(items, CompletedOf(o), p)
           /\ Returned(o, p)' = TotalsOver(items', CompletedOf(o)', p)
  BY DEF Returned, TotalsOver, CompletedOf, MapThenSumSet, MapThenFoldSet

(* Returns have sequences of lines. *)
LEMMA LinesOfReturns ==
    ASSUME TypeOK
    PROVE  items \in [Return -> Seq(Line)] /\ left \in [Return -> Seq(Line)]
  BY BoundedLines DEF TypeOK

(* What is returned of an order changes with its completed returns only. *)
LEMMA ReturnedSame ==
    ASSUME TypeOK, TypeOK', NEW o \in Order, NEW p, CompletedOf(o)' = CompletedOf(o),
           \A d \in CompletedOf(o) : items'[d] = items[d]
    PROVE  Returned(o, p)' = Returned(o, p)
  <1>1. items \in [Return -> Seq(Line)] /\ items' \in [Return -> Seq(Line)]
    BY LinesOfReturns, BoundedLines DEF TypeOK
  <1>2. CompletedOf(o) \in SUBSET Return
    BY DEF CompletedOf
  <1>3. TotalsOver(items', CompletedOf(o), p) = TotalsOver(items, CompletedOf(o), p)
    BY <1>1, <1>2, TotalsOverSame
  <1> QED
    BY <1>3, ReturnedIs

(* What is returned is an integer. *)
LEMMA ReturnedInteger ==
    ASSUME TypeOK, NEW o \in Order, NEW p
    PROVE  Returned(o, p) \in Int
  <1>1. items \in [Return -> Seq(Line)] /\ CompletedOf(o) \in SUBSET Return
    BY LinesOfReturns DEF CompletedOf
  <1> QED
    BY <1>1, TotalsOverSame, ReturnedIs

(* Nothing is returned when there are no returns. *)
LEMMA InitOrders == Init => OrdersInv
  <1> SUFFICES ASSUME Init
               PROVE  RivalsApart /\ ReturnedFits /\ ValidatedFits
    BY InitInv DEF OrdersInv
  <1>1. RivalsApart /\ ValidatedFits
    BY DEF Init, RivalsApart, ValidatedFits
  <1>2. ReturnedFits
    <2> SUFFICES ASSUME NEW o \in Order, NEW p \in Product
                 PROVE  Returned(o, p) <= received[o][p]
      BY DEF ReturnedFits
    <2>1. CompletedOf(o) = {}
      BY DEF Init, CompletedOf
    <2>2. items \in [Return -> Seq(Line)]
      BY InitTypeOK, LinesOfReturns
    <2>3. TotalsOver(items, {}, p) = 0
      BY <2>2, TotalsOverIsSum, SumEmpty
    <2>4. Returned(o, p) = 0
      BY <2>1, <2>3, ReturnedIs
    <2> QED
      BY <2>4 DEF Init
  <1> QED
    BY <1>1, <1>2

(* Callers that go on, or are done, with what they hold. *)
LEMMA StillApart ==
    ASSUME RivalsApart, contended \subseteq contended', head' = head,
           \A s \in Request : request'[s] # Idle =>
                request[s] # Idle /\ request'[s].return = request[s].return
    PROVE  RivalsApart'
  BY DEF RivalsApart, Holding, Rival

(* Of two rivals that are in work, both are contended. *)
LEMMA LoadApart ==
    ASSUME ReturnsInv, RivalsApart, NEW r \in Request, Load(r)
    PROVE  RivalsApart'
  <1>1. PICK d \in Return :
          /\ request' = [request EXCEPT ![r] =
                [return |-> d, status |-> status[d], validated |-> FALSE]]
          /\ contended' = contended \cup
                UNION {{d, Holding(s)} : s \in {t \in Request \ {r} :
                          request[t] # Idle /\ Rival(d, Holding(t))}}
    BY DEF Load
  <1>2. head' = head /\ contended \subseteq contended'
    BY <1>1 DEF Load, documents
  <1>3. /\ request'[r].return = d
        /\ \A t \in Request \ {r} : request'[t] = request[t]
    BY <1>1 DEF ReturnsInv, TypeOK
  <1>4. \A t \in Request \ {r} : request[t] # Idle /\ Rival(d, Holding(t)) =>
            d \in contended' /\ Holding(t) \in contended'
    BY <1>1
  <1>5. \A e : Rival(e, d) => Rival(d, e)
    BY DEF Rival
  <1> SUFFICES ASSUME NEW s \in Request, NEW t \in Request, s # t,
                      request'[s] # Idle, request'[t] # Idle,
                      Rival(request'[s].return, request'[t].return)
               PROVE  request'[s].return \in contended'
    BY <1>2 DEF RivalsApart, Holding, Rival
  <1>6. CASE s = r
    BY <1>3, <1>4, <1>6 DEF Holding
  <1>7. CASE t = r
    BY <1>3, <1>4, <1>5, <1>7 DEF Holding
  <1>8. CASE s # r /\ t # r
    BY <1>2, <1>3, <1>8 DEF RivalsApart, Holding
  <1> QED
    BY <1>6, <1>7, <1>8

(* A step that returns nothing of an order whose callers know each other, *)
(* adds no line to what one of them has validated, and validates nothing   *)
(* that is not returnable.                                                 *)
LEMMA NothingReturned ==
    ASSUME OrdersInv, TypeOK', head' = head, contended \subseteq contended',
           \A o \in Order, p \in Product : received[o][p] <= received'[o][p],
           \A o \in Order : ReturnsOf(o) \cap contended = {} =>
                /\ CompletedOf(o)' = CompletedOf(o)
                /\ \A d \in CompletedOf(o) : items'[d] = items[d],
           \A s \in Request : request'[s] # Idle /\ request'[s].validated =>
                /\ request[s] # Idle /\ request'[s].return = request[s].return
                /\ StillReturnable(Holding(s))
                /\ Holding(s) \notin contended => items'[Holding(s)] = items[Holding(s)]
    PROVE  ReturnedFits' /\ ValidatedFits'
  <1>1. \A o : ReturnsOf(o)' = ReturnsOf(o)
    BY DEF ReturnsOf
  <1>2. ASSUME NEW o \in Order, ReturnsOf(o) \cap contended' = {}, NEW p \in Product
        PROVE  /\ ReturnsOf(o) \cap contended = {} /\ Returned(o, p)' = Returned(o, p)
               /\ Returned(o, p) \in Int /\ received[o][p] \in Int /\ received'[o][p] \in Int
               /\ received[o][p] <= received'[o][p]
    <2>1. ReturnsOf(o) \cap contended = {}
      BY <1>2
    <2>2. Returned(o, p)' = Returned(o, p)
      BY <2>1, ReturnedSame DEF OrdersInv, ReturnsInv
    <2> QED
      BY <2>1, <2>2, ReturnedInteger DEF OrdersInv, ReturnsInv, TypeOK
  <1>3. ReturnedFits'
    <2> SUFFICES ASSUME NEW o \in Order, ReturnsOf(o) \cap contended' = {}, NEW p \in Product
                 PROVE  Returned(o, p)' <= received'[o][p]
      BY <1>1 DEF ReturnedFits
    <2>1. Returned(o, p) <= received[o][p]
      BY <1>2 DEF OrdersInv, ReturnedFits
    <2> QED
      BY <1>2, <2>1
  <1>4. ValidatedFits'
    <2> SUFFICES ASSUME NEW s \in Request, request'[s] # Idle, request'[s].validated,
                        NEW o \in Order, head[request'[s].return].order = o,
                        ReturnsOf(o) \cap contended' = {}, NEW p \in Product
                 PROVE  Returned(o, p)' + Total(items'[request'[s].return], p) <= received'[o][p]
      BY <1>1 DEF ValidatedFits, StillReturnable, Holding
    <2>1. /\ request[s] # Idle /\ request'[s].return = Holding(s)
          /\ Holding(s) \in Return
      BY HeldReturn DEF Holding, OrdersInv, ReturnsInv
    <2>2. Holding(s) \notin contended
      BY <2>1 DEF ReturnsOf
    <2>3. items'[Holding(s)] = items[Holding(s)]
      BY <2>2
    <2>4. Returned(o, p) + Total(items[Holding(s)], p) <= received[o][p]
      BY <1>2, <2>1 DEF StillReturnable
    <2>5. Total(items[Holding(s)], p) \in Int
      BY <2>1, LinesOfReturns, TotalInteger DEF OrdersInv, ReturnsInv
    <2> QED
      BY <1>2, <2>1, <2>3, <2>4, <2>5
  <1> QED
    BY <1>3, <1>4

(* A new return of an order is not completed, *)
LEMMA CreateOrders ==
    ASSUME OrdersInv, TypeOK', NEW d \in Return, Create(d)
    PROVE  ReturnedFits' /\ ValidatedFits'
  <1>1. /\ status[d] = "unborn" /\ status' = [status EXCEPT ![d] = "DRAFT"]
        /\ UNCHANGED <<head, items, received, request, contended>>
    BY DEF Create
  <1>2. \A o : CompletedOf(o)' = CompletedOf(o)
    BY <1>1 DEF CompletedOf, OrdersInv, ReturnsInv, TypeOK
  <1>3. \A o \in Order, p \in Product : received[o][p] <= received'[o][p]
    BY <1>1 DEF OrdersInv, ReturnsInv, TypeOK
  <1> QED
    BY <1>1, <1>2, <1>3, NothingReturned DEF OrdersInv, ValidatedFits

(* nor is a return that is only loaded; *)
LEMMA LoadOrders ==
    ASSUME OrdersInv, TypeOK', NEW r \in Request, Load(r)
    PROVE  ReturnedFits' /\ ValidatedFits'
  <1>1. /\ UNCHANGED <<status, head, items, received>>
        /\ contended \subseteq contended'
    BY DEF Load, documents
  <1>2. \A s \in Request : request'[s] # Idle /\ request'[s].validated =>
            request[s] # Idle /\ request'[s] = request[s]
    BY DEF Load, OrdersInv, ReturnsInv, TypeOK
  <1>3. \A o : CompletedOf(o)' = CompletedOf(o)
    BY <1>1 DEF CompletedOf
  <1>4. \A o \in Order, p \in Product : received[o][p] <= received'[o][p]
    BY <1>1 DEF OrdersInv, ReturnsInv, TypeOK
  <1> QED
    BY <1>1, <1>2, <1>3, <1>4, NothingReturned DEF OrdersInv, ValidatedFits

(* a line is added to a return that is a draft and not validated; *)
LEMMA AddItemOrders ==
    ASSUME OrdersInv, TypeOK', NEW r \in Request, AddItem(r)
    PROVE  ReturnedFits' /\ ValidatedFits'
  <1>1. /\ request[r] # Idle /\ request[r].status = "DRAFT" /\ Done(r)
        /\ UNCHANGED <<status, head, received, contended>>
    BY DEF AddItem
  <1>2. PICK line \in Line : items' = [items EXCEPT ![Holding(r)] = Append(@, line)]
    BY DEF AddItem
  <1>3. \A d \in Return : d # Holding(r) => items'[d] = items[d]
    BY <1>2 DEF OrdersInv, ReturnsInv, TypeOK
  <1>4. \A o : CompletedOf(o)' = CompletedOf(o)
    BY <1>1 DEF CompletedOf
  <1>5. ASSUME NEW o \in Order, ReturnsOf(o) \cap contended = {}, NEW d \in CompletedOf(o)
        PROVE  items'[d] = items[d]
    <2>1. d \in Return /\ d \notin contended /\ status[d] = "COMPLETED"
      BY <1>5 DEF CompletedOf, ReturnsOf
    <2>2. d # Holding(r)
      BY <1>1, <2>1, AloneIsCurrent DEF OrdersInv, ReturnsInv
    <2> QED
      BY <1>3, <2>1, <2>2
  <1>6. ASSUME NEW s \in Request, request'[s] # Idle
        PROVE  /\ request[s] # Idle /\ request'[s] = request[s]
               /\ Holding(s) \notin contended => items'[Holding(s)] = items[Holding(s)]
    <2>1. s # r /\ request'[s] = request[s] /\ request[s] # Idle
      BY <1>1, <1>6 DEF Done, OrdersInv, ReturnsInv, TypeOK
    <2>2. Holding(s) \in Return
      BY <2>1, HeldReturn DEF OrdersInv, ReturnsInv
    <2>3. Holding(s) \notin contended => Holding(s) # Holding(r)
      BY <1>1, <2>1 DEF OrdersInv, ReturnsInv, CopiesAreCurrent
    <2> QED
      BY <1>3, <2>1, <2>2, <2>3
  <1>7. \A o \in Order, p \in Product : received[o][p] <= received'[o][p]
    BY <1>1 DEF OrdersInv, ReturnsInv, TypeOK
  <1> QED
    BY <1>1, <1>4, <1>5, <1>6, <1>7, NothingReturned DEF OrdersInv, ValidatedFits

(* other services change a status that is not COMPLETED to another. *)
LEMMA SaveStatusOrders ==
    ASSUME OrdersInv, TypeOK', NEW r \in Request, NEW new \in Status, SaveStatus(r, new),
           request[r] # Idle, request[r].status # "COMPLETED", new # "COMPLETED"
    PROVE  ReturnedFits' /\ ValidatedFits'
  <1>1. /\ status' = [status EXCEPT ![Holding(r)] = new] /\ Done(r)
        /\ UNCHANGED <<head, items, received, contended>>
    BY DEF SaveStatus
  <1>2. ASSUME NEW o \in Order, ReturnsOf(o) \cap contended = {}
        PROVE  CompletedOf(o)' = CompletedOf(o)
    <2>1. Holding(r) \in ReturnsOf(o) => status[Holding(r)] # "COMPLETED"
      BY <1>2, AloneIsCurrent DEF OrdersInv, ReturnsInv
    <2> QED
      BY <1>1, <2>1 DEF OrdersInv, ReturnsInv, TypeOK, CompletedOf, ReturnsOf
  <1>3. \A s \in Request : request'[s] # Idle => request[s] # Idle /\ request'[s] = request[s]
    BY <1>1 DEF Done, OrdersInv, ReturnsInv, TypeOK
  <1>4. \A o \in Order, p \in Product : received[o][p] <= received'[o][p]
    BY <1>1 DEF OrdersInv, ReturnsInv, TypeOK
  <1> QED
    BY <1>1, <1>2, <1>3, <1>4, NothingReturned DEF OrdersInv, ValidatedFits

(* validate finds each line within what is left, and no product twice. *)
LEMMA ValidReturnable ==
    ASSUME OrdersInv, NEW d \in Return, Valid(d)
    PROVE  StillReturnable(d)
  <1> SUFFICES ASSUME NEW o \in Order, head[d].order = o, ReturnsOf(o) \cap contended = {},
                      NEW p \in Product
               PROVE  Returned(o, p) + Total(items[d], p) <= received[o][p]
    BY DEF StillReturnable
  <1>1. /\ Returned(o, p) <= received[o][p]
        /\ Returned(o, p) \in Int /\ received[o][p] \in Int
    <2>1. Returned(o, p) <= received[o][p]
      BY DEF OrdersInv, ReturnedFits
    <2>2. Returned(o, p) \in Int
      BY ReturnedInteger DEF OrdersInv, ReturnsInv
    <2>3. received[o][p] \in Int
      BY DEF OrdersInv, ReturnsInv, TypeOK
    <2> QED
      BY <2>1, <2>2, <2>3
  <1>2. items[d] \in Seq(Line)
    BY LinesOfReturns DEF OrdersInv, ReturnsInv
  <1>3. CASE Total(items[d], p) = 0
    BY <1>1, <1>3
  <1>4. ASSUME NEW n \in DOMAIN items[d], items[d][n][1] = p, Total(items[d], p) = items[d][n][2]
        PROVE  Returned(o, p) + Total(items[d], p) <= received[o][p]
    <2>1. items[d][n][2] \in Int /\ items[d][n][2] > 0
      BY <1>2, ReturnsAssumption DEF Valid
    <2>2. items[d][n][2] <= Returnable(o, p)
      BY <1>4, ReturnsAssumption DEF Valid, WithinReceived
    <2> QED
      BY <1>1, <1>4, <2>1, <2>2 DEF Returnable
  <1>5. \A n \in DOMAIN items[d] : \A m \in 1..(n - 1) : items[d][m][1] # items[d][n][1]
    BY DEF Valid
  <1> QED
    BY <1>2, <1>3, <1>4, <1>5, TotalOfDistinct

(* What validate found is what still fits when it ends. *)
LEMMA ValidateOrders ==
    ASSUME OrdersInv, TypeOK', NEW r \in Request, Validate(r)
    PROVE  ReturnedFits' /\ ValidatedFits'
  <1>1. /\ request[r] # Idle /\ Valid(Holding(r))
        /\ request' = [request EXCEPT ![r].validated = TRUE]
        /\ UNCHANGED <<status, head, items, received, contended>>
    BY DEF Validate, documents
  <1>2. \A s \in Request : request'[s] # Idle =>
          /\ request[s] # Idle /\ request'[s].return = request[s].return
          /\ request'[s].validated => request[s].validated \/ s = r
    BY <1>1, HeldReturn DEF OrdersInv, ReturnsInv, TypeOK, Copy
  <1>3. StillReturnable(Holding(r))
    BY <1>1, HeldReturn, ValidReturnable DEF OrdersInv, ReturnsInv
  <1>4. \A o : CompletedOf(o)' = CompletedOf(o)
    BY <1>1 DEF CompletedOf
  <1>5. \A o \in Order, p \in Product : received[o][p] <= received'[o][p]
    BY <1>1 DEF OrdersInv, ReturnsInv, TypeOK
  <1> QED
    BY <1>1, <1>2, <1>3, <1>4, <1>5, NothingReturned DEF OrdersInv, ValidatedFits

(* complete takes the lines out that nothing was returned of since. *)
LEMMA CompleteOrders ==
    ASSUME OrdersInv, TypeOK', NEW r \in Request, Complete(r)
    PROVE  ReturnedFits' /\ ValidatedFits'
  <1> DEFINE d == Holding(r)
  <1>1. /\ request[r] # Idle /\ request[r].validated
        /\ status' = [status EXCEPT ![d] = "COMPLETED"] /\ Done(r)
        /\ UNCHANGED <<head, items, received, contended>>
    BY DEF Complete
  <1>2. d \in Return /\ TypeOK /\ CopiesAreCurrent
    BY <1>1, HeldReturn DEF OrdersInv, ReturnsInv
  <1>3. \A o : ReturnsOf(o)' = ReturnsOf(o)
    BY <1>1 DEF ReturnsOf
  <1> HIDE DEF d
  <1>4. ASSUME NEW o \in Order, head[d].order # o, NEW p
        PROVE  Returned(o, p)' = Returned(o, p)
    <2>1. CompletedOf(o)' = CompletedOf(o)
      BY <1>1, <1>2, <1>4 DEF CompletedOf, TypeOK
    <2> QED
      BY <1>1, <1>2, <2>1, ReturnedSame
  <1>5. ASSUME NEW o \in Order, head[d].order = o, ReturnsOf(o) \cap contended = {}, NEW p \in Product
        PROVE  Returned(o, p)' = Total(items[d], p) + Returned(o, p)
    <2>1. d \notin contended
      BY <1>2, <1>5 DEF ReturnsOf
    <2>2. status[d] = "APPROVED"
      BY <1>1, <1>2, <2>1 DEF CopiesAreCurrent, d
    <2>3. /\ CompletedOf(o)' = CompletedOf(o) \cup {d} /\ d \notin CompletedOf(o)
          /\ CompletedOf(o) \in SUBSET Return
      BY <1>1, <1>2, <1>5, <2>2 DEF CompletedOf, TypeOK
    <2>4. items \in [Return -> Seq(Line)]
      BY <1>2, LinesOfReturns
    <2>5. TotalsOver(items, CompletedOf(o) \cup {d}, p)
              = Total(items[d], p) + TotalsOver(items, CompletedOf(o), p)
      BY <1>2, <2>3, <2>4, TotalsOverOneMore
    <2> QED
      BY <1>1, <2>3, <2>5, ReturnedIs
  <1>6. ReturnedFits'
    <2> SUFFICES ASSUME NEW o \in Order, ReturnsOf(o) \cap contended = {}, NEW p \in Product
                 PROVE  Returned(o, p)' <= received[o][p]
      BY <1>1, <1>3 DEF ReturnedFits
    <2>1. CASE head[d].order # o
      BY <1>4, <2>1 DEF OrdersInv, ReturnedFits
    <2>2. CASE head[d].order = o
      <3>1. Returned(o, p) + Total(items[d], p) <= received[o][p]
        BY <1>1, <2>2 DEF OrdersInv, ValidatedFits, StillReturnable, d
      <3>2. Returned(o, p) \in Int /\ Total(items[d], p) \in Int
        BY <1>2, ReturnedInteger, LinesOfReturns, TotalInteger
      <3> QED
        BY <1>5, <2>2, <3>1, <3>2
    <2> QED
      BY <2>1, <2>2
  <1>7. ValidatedFits'
    <2> SUFFICES ASSUME NEW s \in Request, request'[s] # Idle, request'[s].validated,
                        NEW o \in Order, head[request'[s].return].order = o,
                        ReturnsOf(o) \cap contended = {}, NEW p \in Product
                 PROVE  Returned(o, p)' + Total(items[request'[s].return], p) <= received[o][p]
      BY <1>1, <1>3 DEF ValidatedFits, StillReturnable, Holding
    <2>1. s # r /\ request[s] # Idle /\ request'[s] = request[s] /\ request[s].return = Holding(s)
      BY <1>1, <1>2 DEF Done, TypeOK, Holding
    <2>2. Holding(s) \in Return /\ Holding(s) \notin contended
      BY <1>2, <2>1, HeldReturn DEF ReturnsOf
    <2>3. head[d].order # o
      <3>1. ~ Rival(Holding(s), d)
        BY <1>1, <2>1, <2>2 DEF OrdersInv, RivalsApart, d
      <3> QED
        BY <2>1, <3>1, ReturnsAssumption DEF Rival
    <2>4. Returned(o, p)' = Returned(o, p)
      BY <1>4, <2>3
    <2>5. Returned(o, p) + Total(items[Holding(s)], p) <= received[o][p]
      BY <2>1 DEF OrdersInv, ValidatedFits, StillReturnable
    <2> QED
      BY <2>1, <2>4, <2>5
  <1> QED
    BY <1>6, <1>7

(* Every action keeps OrdersInv. *)
LEMMA NextOrders ==
    ASSUME OrdersInv, [Next]_vars
    PROVE  OrdersInv'
  <1>1. ReturnsInv' /\ TypeOK'
    BY NextInv DEF OrdersInv, ReturnsInv
  <1>2. ASSUME UNCHANGED <<documents, received, request, contended>>
        PROVE  RivalsApart' /\ ReturnedFits' /\ ValidatedFits'
    <2>1. UNCHANGED <<status, head, items, received, request, contended>>
      BY <1>2 DEF documents
    <2>2. \A o : CompletedOf(o)' = CompletedOf(o)
      BY <2>1 DEF CompletedOf
    <2>3. \A o \in Order, p \in Product : received[o][p] <= received'[o][p]
      BY <2>1 DEF OrdersInv, ReturnsInv, TypeOK
    <2> QED
      BY <1>1, <2>1, <2>2, <2>3, NothingReturned, StillApart DEF OrdersInv, ValidatedFits
  <1>3. ASSUME NEW o \in Order, NEW p \in Product, Receive(o, p)
        PROVE  RivalsApart' /\ ReturnedFits' /\ ValidatedFits'
    <2>1. /\ received' = [received EXCEPT ![o][p] = @ + 1]
          /\ UNCHANGED <<status, head, items, request, contended>>
      BY <1>3 DEF Receive, documents
    <2>2. \A e : CompletedOf(e)' = CompletedOf(e)
      BY <2>1 DEF CompletedOf
    <2>3. \A e \in Order, q \in Product : received[e][q] <= received'[e][q]
      BY <2>1 DEF OrdersInv, ReturnsInv, TypeOK
    <2> QED
      BY <1>1, <2>1, <2>2, <2>3, NothingReturned, StillApart DEF OrdersInv, ValidatedFits
  <1>4. ASSUME NEW r \in Request, Fail(r)
        PROVE  RivalsApart' /\ ReturnedFits' /\ ValidatedFits'
    <2>1. UNCHANGED <<status, head, items, received, contended>> /\ Done(r)
      BY <1>4 DEF Fail, documents
    <2>2. \A o : CompletedOf(o)' = CompletedOf(o)
      BY <2>1 DEF CompletedOf
    <2>3. \A o \in Order, p \in Product : received[o][p] <= received'[o][p]
      BY <2>1 DEF OrdersInv, ReturnsInv, TypeOK
    <2>4. \A s \in Request : request'[s] # Idle => request[s] # Idle /\ request'[s] = request[s]
      BY <2>1 DEF Done, OrdersInv, ReturnsInv, TypeOK
    <2> QED
      BY <1>1, <2>1, <2>2, <2>3, <2>4, NothingReturned, StillApart DEF OrdersInv, ValidatedFits
  <1>5. ASSUME NEW r \in Request, Load(r) \/ Handle(r)
        PROVE  RivalsApart'
    <2>1. CASE Load(r)
      BY <2>1, LoadApart DEF OrdersInv
    <2>2. CASE Validate(r)
      BY <2>2, HeldReturn, StillApart DEF OrdersInv, ReturnsInv, Validate, documents, TypeOK, Copy
    <2>3. ASSUME Done(r), head' = head, contended' = contended
          PROVE  RivalsApart'
      BY <2>3, StillApart DEF OrdersInv, ReturnsInv, TypeOK, Done
    <2> QED
      BY <1>5, <2>1, <2>2, <2>3
      DEF Handle, AddItem, Submit, Approve, Cancel, SaveStatus, Complete, Fail, documents
  <1>6. ASSUME NEW r \in Request, Submit(r) \/ Approve(r) \/ Cancel(r)
        PROVE  ReturnedFits' /\ ValidatedFits'
    BY <1>1, <1>6, SaveStatusOrders DEF Submit, Approve, Cancel, Status
  <1>7. ASSUME NEW r \in Request, Load(r) \/ Handle(r)
        PROVE  ReturnedFits' /\ ValidatedFits'
    BY <1>1, <1>4, <1>6, <1>7, LoadOrders, AddItemOrders, ValidateOrders, CompleteOrders
    DEF Handle
  <1>8. ASSUME NEW d \in Return, Create(d)
        PROVE  RivalsApart' /\ ReturnedFits' /\ ValidatedFits'
    BY <1>1, <1>8, CreateOrders, StillApart DEF OrdersInv, Create
  <1> QED
    BY <1>1, <1>2, <1>3, <1>5, <1>7, <1>8 DEF Next, Move, OrdersInv, vars

(* What completed returns took from stock is what they say. *)
LEMMA ReturnedIsWhatLeft ==
    ASSUME OrdersInv
    PROVE  ReturnedWasReceived
  <1> SUFFICES ASSUME NEW o \in Order, ReturnsOf(o) \cap contended = {}, NEW p \in Product
               PROVE  TotalsOver(left, ReturnsOf(o), p) <= received[o][p]
    BY DEF ReturnedWasReceived, ReturnsOf, TotalsOver, MapThenSumSet, MapThenFoldSet
  <1> DEFINE S == ReturnsOf(o)
             T == CompletedOf(o)
  <1>1. /\ S \in SUBSET Return /\ T \in SUBSET S
        /\ left \in [Return -> Seq(Line)] /\ items \in [Return -> Seq(Line)]
    BY LinesOfReturns DEF ReturnsOf, CompletedOf, OrdersInv, ReturnsInv
  <1>2. \A d \in S : left[d] = IF d \in T THEN items[d] ELSE <<>>
    BY DEF OrdersInv, ReturnsInv, LeftAsCompleted, Orderly, ReturnsOf, CompletedOf
  <1> HIDE DEF S, T
  <1>3. TotalsOver(left, S, p) = TotalsOver(left, T, p)
    <2>1. S \in SUBSET Return /\ T \in SUBSET S /\ \A d \in S \ T : left[d] = <<>>
      BY <1>1, <1>2
    <2>2. left \in [Return -> Seq(Line)]
      BY <1>1
    <2> QED
      BY <2>1, <2>2, TotalsOverPart, Zenon
  <1>4. TotalsOver(left, T, p) = TotalsOver(items, T, p)
    <2>1. T \in SUBSET Return /\ \A d \in T : left[d] = items[d]
      BY <1>1, <1>2
    <2>2. left \in [Return -> Seq(Line)] /\ items \in [Return -> Seq(Line)]
      BY <1>1
    <2>3. Totals(left, T, p) = Totals(items, T, p)
      BY <2>1 DEF Totals
    <2>4. T \in SUBSET Return
      BY <2>1
    <2>5. TotalsOver(left, T, p) = SumFunctionOnSet(Totals(left, T, p), T)
      BY <2>2, <2>4, TotalsOverIsSum
    <2>6. TotalsOver(items, T, p) = SumFunctionOnSet(Totals(items, T, p), T)
      BY <2>2, <2>4, TotalsOverIsSum
    <2> QED
      BY <2>3, <2>5, <2>6
  <1>5. Returned(o, p) <= received[o][p]
    BY DEF OrdersInv, ReturnedFits
  <1> QED
    BY <1>3, <1>4, <1>5, ReturnedIs DEF S, T

(* ReturnedWasReceived: whichever returns are validated, completed, cancelled *)
(* and filled in which order, those of an order whose callers never held two  *)
(* of them at once take no more out of stock than the order brought in.       *)
THEOREM ReturnedWasReceivedTheorem == Spec => []ReturnedWasReceived
  BY InitOrders, NextOrders, ReturnedIsWhatLeft, PTL DEF Spec

-----------------------------------------------------------------------------
(* Stock operations, their movements and the alerts of sites. *)
Stages == {"idle", "lock", "judge", "measure", "read", "write", "commit"}
Movement == [shelf: Shelf, quantity: Int, by: Worker \cup {NoWork}]
Listed(a) == \E n \in DOMAIN order : order[n] = a

(* Types, and which alert rows a session holds: those are listed, and no   *)
(* two sessions hold one.                                                  *)
AlertsTyped ==
    /\ units \in [Shelf -> Nat]
    /\ moves \in Seq(Movement)
    /\ levels \in [Article -> [reorder: Nat, maximum: Nat]]
    /\ alerts \in [Alert -> AlertRow \cup {NoAlert}]
    /\ order \in Seq(Alert)
    /\ pc \in [Worker -> Stages]
    /\ work \in [Worker -> StockOperation \cup {NoWork}]
    /\ wrote \in [Worker -> [Alert -> AlertRow \cup {NoAlert}]]
    /\ copy \in AlertCopy \cup {NoCopy}
    /\ \A w \in Worker :
        /\ pc[w] = "idle" <=> work[w] = NoWork
        /\ pc[w] = "write" /\ work[w].kind = "NORMAL" => work[w].found # {}
        /\ pc[w] \notin {"write", "commit"} => Changed(w) = {}
        /\ \A a \in Changed(w) : Listed(a) /\ \A v \in Worker \ {w} : a \notin Changed(v)
    /\ \A a \in Alert : alerts[a] # NoAlert => Listed(a)

-----------------------------------------------------------------------------
(* What a call has that is running. *)
LEMMA Busy ==
    ASSUME AlertsTyped, NEW w \in Worker, pc[w] # "idle"
    PROVE  /\ work[w] \in StockOperation /\ work[w] # NoWork
           /\ work[w].op \in {"receive", "issue", "adjust"} /\ work[w].shelf \in Shelf
           /\ work[w].n \in Nat /\ work[w].new \in Nat /\ work[w].level \in Int
           /\ work[w].kind \in Kind \cup {"NORMAL"} /\ work[w].found \in SUBSET Alert
           /\ work[w].levels \in [reorder: Nat, maximum: Nat]
           /\ Here(w) \in Site /\ FirstShelf[Here(w)] \in Shelf
           /\ ProductOf[Here(w)] \in Article
  <1>1. work[w] \in StockOperation /\ work[w] # NoWork
    BY DEF AlertsTyped
  <1>2. work[w].shelf \in Shelf
    BY <1>1 DEF StockOperation
  <1>3. Here(w) \in Site
    BY <1>2, AlertsAssumption DEF Here
  <1> QED
    BY <1>1, <1>2, <1>3, AlertsAssumption DEF StockOperation

(* What a session sees of a shelf is a quantity, *)
LEMMA SeenTyped ==
    ASSUME AlertsTyped, NEW w \in Worker, pc[w] # "idle", NEW shelf \in Shelf
    PROVE  Seen(w, shelf) \in Nat
  BY Busy DEF AlertsTyped, Seen, Holds

(* and what it concludes is a status. *)
LEMMA StatusOfTyped ==
    ASSUME NEW l \in [reorder: Nat, maximum: Nat], NEW q \in Nat
    PROVE  /\ StatusOf(l, q) \in Kind \cup {"NORMAL"}
           /\ \A kind \in Kind : Threshold(l, kind) \in Int
  BY DEF StatusOf, Threshold, Kind

(* The newest of some alerts is the last of them in the order. *)
LEMMA NewestIs ==
    ASSUME order \in Seq(Alert), NEW S, NEW a \in S, Listed(a)
    PROVE  \E n \in DOMAIN order :
              /\ order[n] \in S /\ Newest(S) = order[n]
              /\ \A m \in DOMAIN order : order[m] \in S => m <= n
  <1> DEFINE places == {n \in DOMAIN order : order[n] \in S}
  <1>1. places \in SUBSET Nat /\ places # {} /\ Len(order) \in Nat
        /\ \A n \in places : n <= Len(order)
    BY DEF Listed
  <1>2. \E m \in places : \A x \in places : x <= m
    <2> HIDE DEF places
    <2> QED
      BY <1>1, LargestNatural
  <1>3. Max(places) \in places /\ \A x \in places : Max(places) >= x
    <2>1. \E m \in places : \A x \in places : m >= x
      BY <1>1, <1>2
    <2> HIDE DEF places
    <2> QED
      BY <2>1 DEF Max
  <1>4. Newest(S) = order[Max(places)]
    BY DEF Newest
  <1>5. Max(places) \in DOMAIN order /\ order[Max(places)] \in S
    BY <1>3
  <1>6. \A m \in DOMAIN order : order[m] \in S => m <= Max(places)
    BY <1>1, <1>3
  <1> QED
    BY <1>4, <1>5, <1>6

(* It is the only one there is. *)
LEMMA NewestOnly ==
    ASSUME order \in Seq(Alert), NEW S, NEW n \in DOMAIN order, order[n] \in S,
           \A m \in DOMAIN order : order[m] \in S => m <= n
    PROVE  Newest(S) = order[n]
  <1>1. PICK k \in DOMAIN order :
           /\ order[k] \in S /\ Newest(S) = order[k]
           /\ \A m \in DOMAIN order : order[m] \in S => m <= k
    BY NewestIs DEF Listed
  <1>2. k <= n /\ n <= k /\ k \in Nat /\ n \in Nat
    BY <1>1
  <1> QED
    BY <1>1, <1>2

LEMMA NewestTyped ==
    ASSUME AlertsTyped, NEW s, ActiveIn(alerts, s) # {}
    PROVE  Newest(ActiveIn(alerts, s)) \in ActiveIn(alerts, s)
  <1> PICK a \in ActiveIn(alerts, s) : TRUE
    OBVIOUS
  <1>1. order \in Seq(Alert) /\ Listed(a)
    BY DEF AlertsTyped, ActiveIn
  <1> QED
    BY <1>1, NewestIs

(* What is left of a list. *)
LEMMA WithoutIs ==
    ASSUME NEW T, NEW list \in Seq(T), NEW places \in SUBSET DOMAIN list
    PROVE  \/ places = {} /\ Without(list, places) = list
           \/ \E p \in places :
                /\ Without(list, places) \in Seq(T)
                /\ DOMAIN Without(list, places) = 1..(Len(list) - 1)
                /\ Len(Without(list, places)) = Len(list) - 1
                /\ \A n \in 1..(Len(list) - 1) :
                      Without(list, places)[n] = IF n < p THEN list[n] ELSE list[n + 1]
  <1>1. CASE places = {}
    BY <1>1 DEF Without
  <1>2. CASE places # {}
    <2>1. places \in SUBSET Nat /\ Len(list) \in Nat /\ \A n \in places : n <= Len(list)
      OBVIOUS
    <2>2. PICK m \in places : \A x \in places : x <= m
      BY <1>2, <2>1, LargestNatural
    <2> DEFINE p == Max(places)
    <2>3. p \in places
      <3>1. \E k \in places : \A x \in places : k >= x
        BY <2>1, <2>2
      <3> QED
        BY <3>1 DEF Max
    <2> HIDE DEF p
    <2>4. Without(list, places) = SubSeq(list, 1, p - 1) \o SubSeq(list, p + 1, Len(list))
      BY <1>2 DEF Without, RemoveAt, p
    <2>5. p \in 1..Len(list) /\ Len(list) \in Nat
      BY <2>3
    <2>6. /\ SubSeq(list, 1, p - 1) \in Seq(T) /\ Len(SubSeq(list, 1, p - 1)) = p - 1
          /\ \A n \in 1..(p - 1) : SubSeq(list, 1, p - 1)[n] = list[n]
      BY <2>5
    <2>7. /\ SubSeq(list, p + 1, Len(list)) \in Seq(T)
          /\ Len(SubSeq(list, p + 1, Len(list))) = Len(list) - p
          /\ \A n \in 1..(Len(list) - p) : SubSeq(list, p + 1, Len(list))[n] = list[n + p]
      BY <2>5
    <2> DEFINE a == SubSeq(list, 1, p - 1)
               b == SubSeq(list, p + 1, Len(list))
    <2>8. /\ a \o b \in Seq(T) /\ Len(a \o b) = Len(list) - 1 
          /\ \A n \in 1..(Len(list) - 1) : (a \o b)[n] = IF n < p THEN list[n] ELSE list[n + 1]
      <3> HIDE DEF a, b
      <3>1. a \in Seq(T) /\ Len(a) = p - 1 /\ b \in Seq(T) /\ Len(b) = Len(list) - p
        BY <2>6, <2>7 DEF a, b
      <3>2. a \o b \in Seq(T) /\ Len(a \o b) = Len(list) - 1
        BY <3>1, <2>5
      <3>3. ASSUME NEW n \in 1..(Len(list) - 1), n < p PROVE (a \o b)[n] = list[n]
        <4>1. n \in 1..(p - 1) /\ n \in 1..Len(a) 
          BY <3>1, <3>3, <2>5
        <4>2. (a \o b)[n] = a[n]
          BY <3>1, <4>1
        <4> QED
          BY <4>1, <4>2, <2>6 DEF a
      <3>4. ASSUME NEW n \in 1..(Len(list) - 1), ~(n < p) PROVE (a \o b)[n] = list[n + 1]
        <4>1. n - (p - 1) \in 1..(Len(list) - p)
          BY <3>4, <2>5
        <4>2. (a \o b)[n] = b[n - (p - 1)]
          BY <3>1, <3>4, <2>5, <4>1
        <4>3. n - (p - 1) + p = n + 1
          BY <2>5
        <4> QED
          BY <4>1, <4>2, <4>3, <2>7 DEF b
      <3> QED
        BY <3>2, <3>3, <3>4
    <2>9. Without(list, places) = a \o b
      BY <2>4
    <2> HIDE DEF a, b
    <2>10. DOMAIN (a \o b) = 1..(Len(list) - 1)
      BY <2>8
    <2> DEFINE rest == Without(list, places)
    <2>11. /\ rest \in Seq(T) /\ DOMAIN rest = 1..(Len(list) - 1) /\ Len(rest) = Len(list) - 1
           /\ \A n \in 1..(Len(list) - 1) : rest[n] = IF n < p THEN list[n] ELSE list[n + 1]
      BY <2>8, <2>9, <2>10
    <2> QED
      BY <2>3, <2>11
  <1> QED
    BY <1>1, <1>2

-----------------------------------------------------------------------------
(* Alert rows that exist stay listed when another row is created, *)
LEMMA OrderGrows ==
    ASSUME order \in Seq(Alert), NEW a \in Alert, order' = Append(order, a)
    PROVE  order' \in Seq(Alert) /\ Listed(a)' /\ \A b : Listed(b) => Listed(b)'
  <1>1. order' \in Seq(Alert) /\ Len(order') = Len(order) + 1 /\ order'[Len(order) + 1] = a
        /\ \A n \in 1..Len(order) : order'[n] = order[n]
    OBVIOUS
  <1>2. DOMAIN order' = 1..(Len(order) + 1) /\ DOMAIN order = 1..Len(order) /\ Len(order) \in Nat
    BY <1>1
  <1> QED
    BY <1>1, <1>2 DEF Listed

(* and when one is deleted that is nobody's. *)
LEMMA OrderLoses ==
    ASSUME order \in Seq(Alert), NEW places \in SUBSET DOMAIN order,
           order' = Without(order, places)
    PROVE  /\ order' \in Seq(Alert)
           /\ \A b : Listed(b) /\ (\A n \in places : order[n] # b) => Listed(b)'
  <1>1. CASE order' = order
    BY <1>1 DEF Listed
  <1>2. CASE order' # order
    <2>1. PICK p \in places :
            /\ order' \in Seq(Alert) /\ DOMAIN order' = 1..(Len(order) - 1)
            /\ \A n \in 1..(Len(order) - 1) :
                  order'[n] = IF n < p THEN order[n] ELSE order[n + 1]
      BY <1>2, WithoutIs
    <2>2. ASSUME NEW b, Listed(b), \A n \in places : order[n] # b PROVE Listed(b)'
      <3>1. PICK n \in DOMAIN order : order[n] = b
        BY <2>2 DEF Listed
      <3>2. n \in 1..Len(order) /\ p \in 1..Len(order) /\ Len(order) \in Nat /\ n # p
        BY <2>1, <2>2, <3>1
      <3>3. CASE n < p
        <4>1. n \in 1..(Len(order) - 1)
          BY <3>2, <3>3
        <4> QED
          BY <2>1, <3>1, <3>3, <4>1 DEF Listed
      <3>4. CASE n > p
        <4>1. n - 1 \in 1..(Len(order) - 1) /\ ~(n - 1 < p) /\ (n - 1) + 1 = n
          BY <3>2, <3>4
        <4> QED
          BY <2>1, <3>1, <4>1 DEF Listed
      <3> QED
        BY <3>2, <3>3, <3>4
    <2> QED
      BY <2>1, <2>2
  <1> QED
    BY <1>1, <1>2

LEMMA AlertsInitTyped == AlertsInit => AlertsTyped
  <1> SUFFICES ASSUME AlertsInit PROVE AlertsTyped
    OBVIOUS
  <1>1. \A p \in Article : levels[p] \in [reorder: Nat, maximum: Nat]
    BY AlertsAssumption DEF AlertsInit
  <1>2. NothingWritten \in [Alert -> AlertRow \cup {NoAlert}]
    BY DEF NothingWritten
  <1>3. wrote \in [Worker -> [Alert -> AlertRow \cup {NoAlert}]]
    BY <1>2 DEF AlertsInit
  <1>4. levels \in [Article -> [reorder: Nat, maximum: Nat]]
    BY <1>1 DEF AlertsInit
  <1>5. /\ units \in [Shelf -> Nat] /\ moves \in Seq(Movement) /\ order \in Seq(Alert)
        /\ alerts \in [Alert -> AlertRow \cup {NoAlert}] /\ copy \in AlertCopy \cup {NoCopy}
        /\ pc \in [Worker -> Stages] /\ work \in [Worker -> StockOperation \cup {NoWork}]
    BY DEF AlertsInit, Stages
  <1>6. /\ \A w \in Worker : pc[w] = "idle" /\ work[w] = NoWork /\ Changed(w) = {}
        /\ \A a \in Alert : alerts[a] = NoAlert
    BY DEF AlertsInit, NothingWritten, Changed
  <1> QED
    BY <1>3, <1>4, <1>5, <1>6 DEF AlertsTyped

(* A session goes on with what it does, and writes no alert. *)
LEMMA GoesOnTyped ==
    ASSUME AlertsTyped, NEW w \in Worker, NEW stage \in Stages \ {"idle"}, NEW op \in StockOperation,
           pc' = [pc EXCEPT ![w] = stage], work' = [work EXCEPT ![w] = op],
           stage = "write" /\ op.kind = "NORMAL" => op.found # {},
           stage \notin {"write", "commit"} => Changed(w) = {},
           UNCHANGED <<units, levels, alerts, order, wrote, copy>>, moves' \in Seq(Movement)
    PROVE  AlertsTyped'
  <1>1. op # NoWork
    BY NothingAssumption
  <1>2. pc' \in [Worker -> Stages] /\ work' \in [Worker -> StockOperation \cup {NoWork}]
    BY DEF AlertsTyped
  <1>3. ASSUME NEW v \in Worker
        PROVE  /\ pc'[v] = "idle" <=> work'[v] = NoWork
               /\ pc'[v] = "write" /\ work'[v].kind = "NORMAL" => work'[v].found # {}
               /\ pc'[v] \notin {"write", "commit"} => Changed(v) = {}
    BY <1>1 DEF AlertsTyped
  <1>4. \A v \in Worker : Changed(v)' = Changed(v)
    BY DEF Changed
  <1>5. \A b : Listed(b)' <=> Listed(b)
    BY DEF Listed
  <1>6. \A v \in Worker :
           /\ pc'[v] = "idle" <=> work'[v] = NoWork
           /\ pc'[v] = "write" /\ work'[v].kind = "NORMAL" => work'[v].found # {}
           /\ pc'[v] \notin {"write", "commit"} => Changed(v)' = {}
           /\ \A a \in Changed(v)' : Listed(a)' /\ \A u \in Worker \ {v} : a \notin Changed(u)'
    BY <1>3, <1>4, <1>5 DEF AlertsTyped
  <1>7. \A a \in Alert : alerts'[a] # NoAlert => Listed(a)'
    BY <1>5 DEF AlertsTyped
  <1> QED
    BY <1>2, <1>6, <1>7 DEF AlertsTyped

LEMMA BeginTypedAlerts == ASSUME AlertsTyped, NEW w \in Worker, Begin(w) PROVE AlertsTyped'
  <1>1. PICK op \in {"receive", "issue", "adjust"}, shelf \in Shelf, n \in Quantity \cup {0} :
          /\ work' = [work EXCEPT ![w] =
                [op |-> op, shelf |-> shelf, n |-> n, new |-> 0, kind |-> "NORMAL", level |-> 0,
                 found |-> {}, levels |-> levels[ProductOf[SiteOf[shelf]]]]]
          /\ moves' = IF op = "receive"
                      THEN Append(moves, [shelf |-> shelf, quantity |-> n, by |-> w])
                      ELSE moves
    BY DEF Begin
  <1> DEFINE new == [op |-> op, shelf |-> shelf, n |-> n, new |-> 0, kind |-> "NORMAL", level |-> 0,
                     found |-> {}, levels |-> levels[ProductOf[SiteOf[shelf]]]]
  <1>2. n \in Nat /\ ProductOf[SiteOf[shelf]] \in Article
    BY AlertsAssumption
  <1>3. levels[ProductOf[SiteOf[shelf]]] \in [reorder: Nat, maximum: Nat]
    BY <1>2 DEF AlertsTyped
  <1>4. new \in StockOperation
    BY <1>2, <1>3 DEF StockOperation
  <1>5. [shelf |-> shelf, quantity |-> n, by |-> w] \in Movement
    BY <1>2 DEF Movement
  <1>6. moves' \in Seq(Movement)
    BY <1>1, <1>5 DEF AlertsTyped
  <1>7. /\ pc' = [pc EXCEPT ![w] = "lock"] /\ pc[w] = "idle" /\ Changed(w) = {}
        /\ UNCHANGED <<units, levels, alerts, order, wrote, copy>>
    BY DEF Begin, AlertsTyped
  <1>8. work' = [work EXCEPT ![w] = new]
    BY <1>1
  <1> HIDE DEF new
  <1>9. "lock" \in Stages \ {"idle"} /\ "lock" \notin {"write", "commit"}
    BY DEF Stages
  <1> QED
    BY <1>4, <1>6, <1>7, <1>8, <1>9, GoesOnTyped

LEMMA LockTyped == ASSUME AlertsTyped, NEW w \in Worker, Lock(w) PROVE AlertsTyped'
  <1> DEFINE shelf == work[w].shelf
             new == CASE work[w].op = "receive" -> units[shelf] + work[w].n
                      [] work[w].op = "issue" -> units[shelf] - work[w].n
                      [] OTHER -> work[w].n
  <1>1. /\ pc[w] = "lock" /\ new >= 0
        /\ work' = [work EXCEPT ![w].new = new] /\ pc' = [pc EXCEPT ![w] = "judge"]
        /\ moves' = IF work[w].op = "receive" THEN moves
                    ELSE WrittenLast(shelf, new - units[shelf], w)
        /\ UNCHANGED <<units, levels, alerts, order, wrote, copy>>
    BY DEF Lock
  <1>2. shelf \in Shelf /\ units[shelf] \in Nat /\ work[w].n \in Nat /\ work[w] \in StockOperation
    BY <1>1, Busy DEF AlertsTyped
  <1>3. new \in Nat
    BY <1>1, <1>2
  <1>4. Changed(w) = {}
    BY <1>1 DEF AlertsTyped
  <1> HIDE DEF new, shelf
  <1>5. [work[w] EXCEPT !.new = new] \in StockOperation
    BY <1>2, <1>3 DEF StockOperation
  <1>6. work' = [work EXCEPT ![w] = [work[w] EXCEPT !.new = new]]
    BY <1>1
  <1>7. moves' \in Seq(Movement)
    <2>1. [shelf |-> shelf, quantity |-> new - units[shelf], by |-> w] \in Movement
      BY <1>2, <1>3 DEF Movement
    <2> QED
      BY <1>1, <2>1 DEF AlertsTyped, WrittenLast
  <1>8. "judge" \in Stages \ {"idle"} /\ "judge" \notin {"write", "commit"}
    BY DEF Stages
  <1> QED
    BY <1>1, <1>4, <1>5, <1>6, <1>7, <1>8, GoesOnTyped

(* The three reads of evaluate(). *)
LEMMA ReadsTyped ==
    ASSUME AlertsTyped, NEW w \in Worker, Judge(w) \/ Measure(w) \/ ReadAlerts(w)
    PROVE  AlertsTyped'
  <1>1. /\ pc[w] \in {"judge", "measure", "read"}
        /\ UNCHANGED <<units, levels, alerts, order, wrote, copy>> /\ moves' = moves
    BY DEF Judge, Measure, ReadAlerts, shelfVars
  <1>2. /\ work[w] \in StockOperation /\ Changed(w) = {} /\ moves \in Seq(Movement)
        /\ Seen(w, FirstShelf[Here(w)]) \in Nat
    BY <1>1, Busy, SeenTyped DEF AlertsTyped
  <1>3. CASE Judge(w)
    <2> DEFINE op == [work[w] EXCEPT !.kind = StatusOf(work[w].levels, Seen(w, FirstShelf[Here(w)]))]
    <2>1. op \in StockOperation
      BY <1>1, <1>2, Busy, StatusOfTyped DEF StockOperation
    <2>2. work' = [work EXCEPT ![w] = op] /\ pc' = [pc EXCEPT ![w] = "measure"]
      BY <1>3 DEF Judge
    <2> HIDE DEF op
    <2>3. "measure" \in Stages \ {"idle"} /\ "measure" \notin {"write", "commit"}
      BY DEF Stages
    <2> QED
      BY <1>1, <1>2, <2>1, <2>2, <2>3, GoesOnTyped
  <1>4. CASE Measure(w)
    <2> DEFINE op == [work[w] EXCEPT !.level = Seen(w, FirstShelf[Here(w)])]
    <2>1. op \in StockOperation
      BY <1>1, <1>2 DEF StockOperation
    <2>2. work' = [work EXCEPT ![w] = op] /\ pc' = [pc EXCEPT ![w] = "read"]
      BY <1>4 DEF Measure
    <2> HIDE DEF op
    <2>3. "read" \in Stages \ {"idle"} /\ "read" \notin {"write", "commit"}
      BY DEF Stages
    <2> QED
      BY <1>1, <1>2, <2>1, <2>2, <2>3, GoesOnTyped
  <1>5. CASE ReadAlerts(w)
    <2> DEFINE active == ActiveIn(alerts, Here(w))
               found == IF work[w].kind = "NORMAL" \/ active = {} THEN active ELSE {Newest(active)}
               stage == IF work[w].kind = "NORMAL" /\ active = {} THEN "commit" ELSE "write"
               op == [work[w] EXCEPT !.found = found]
    <2>1. active \in SUBSET Alert /\ (active # {} => Newest(active) \in active)
      BY NewestTyped DEF ActiveIn
    <2>2. found \in SUBSET Alert /\ (active # {} => found # {})
      BY <2>1
    <2>3. work' = [work EXCEPT ![w] = op] /\ pc' = [pc EXCEPT ![w] = stage]
      BY <1>5 DEF ReadAlerts
    <2>4. stage \in Stages \ {"idle"} /\ (stage = "write" /\ work[w].kind = "NORMAL" => active # {})
          /\ stage \in {"write", "commit"}
      BY DEF Stages
    <2> HIDE DEF found, active, stage
    <2>5. op \in StockOperation /\ op.kind = work[w].kind /\ op.found = found
      BY <1>2, <2>2 DEF StockOperation
    <2> HIDE DEF op
    <2>6. stage = "write" /\ op.kind = "NORMAL" => op.found # {}
      BY <2>2, <2>4, <2>5
    <2> QED
      BY <1>1, <1>2, <2>3, <2>4, <2>5, <2>6, GoesOnTyped
  <1> QED
    BY <1>3, <1>4, <1>5

(* evaluate() writes an alert row that no other session holds. *)
LEMMA WritesTyped ==
    ASSUME AlertsTyped, NEW w \in Worker, pc[w] = "write", NEW a \in Alert, NEW row \in AlertRow,
           Write(w, a, row), \A v \in Worker \ {w} : a \notin Changed(v),
           (order' = order /\ Listed(a)) \/ order' = Append(order, a),
           NEW stage \in {"write", "commit"}, NEW op \in StockOperation,
           pc' = [pc EXCEPT ![w] = stage], work' = [work EXCEPT ![w] = op],
           stage = "write" /\ op.kind = "NORMAL" => op.found # {}
    PROVE  AlertsTyped'
  <1> DEFINE table == [wrote[w] EXCEPT ![a] = row]
  <1>1. /\ wrote' = [wrote EXCEPT ![w] = table]
        /\ UNCHANGED <<shelfVars, levels, alerts, copy>>
    BY DEF Write
  <1>2. row # NoAlert
    BY NothingAssumption
  <1>3. table \in [Alert -> AlertRow \cup {NoAlert}]
    BY DEF AlertsTyped
  <1>4. wrote' \in [Worker -> [Alert -> AlertRow \cup {NoAlert}]]
    BY <1>1, <1>3 DEF AlertsTyped
  <1>5. op # NoWork /\ stage # "idle" /\ stage \in Stages
    BY NothingAssumption DEF Stages
  <1>6. pc' \in [Worker -> Stages] /\ work' \in [Worker -> StockOperation \cup {NoWork}]
    BY <1>5 DEF AlertsTyped
  <1>7. order' \in Seq(Alert) /\ Listed(a)' /\ \A b : Listed(b) => Listed(b)'
    <2>1. order \in Seq(Alert)
      BY DEF AlertsTyped
    <2>2. CASE order' = order /\ Listed(a)
      BY <2>1, <2>2 DEF Listed
    <2>3. CASE order' = Append(order, a)
      BY <2>1, <2>3, OrderGrows
    <2> QED
      BY <2>2, <2>3
  <1>8. ASSUME NEW v \in Worker
        PROVE  /\ pc'[v] = "idle" <=> work'[v] = NoWork
               /\ pc'[v] = "write" /\ work'[v].kind = "NORMAL" => work'[v].found # {}
               /\ pc'[v] \notin {"write", "commit"} => Changed(v)' = {}
    <2>1. CASE v = w
      BY <1>5, <2>1 DEF AlertsTyped
    <2>2. CASE v # w
      BY <1>1, <2>2 DEF AlertsTyped, Changed
    <2> QED
      BY <2>1, <2>2
  <1>9. ASSUME NEW v \in Worker, NEW b \in Changed(v)'
        PROVE  Listed(b)' /\ \A u \in Worker \ {v} : b \notin Changed(u)'
    <2>1. \A u \in Worker : Changed(u)' = IF u = w THEN Changed(u) \cup {a}
                                               ELSE Changed(u)
      BY <1>1, <1>2 DEF AlertsTyped, Changed
    <2>2. \A u \in Worker : \A c \in Changed(u) :
              Listed(c) /\ \A x \in Worker \ {u} : c \notin Changed(x)
      BY DEF AlertsTyped
    <2> QED
      BY <1>7, <1>9, <2>1, <2>2
  <1>10. \A b \in Alert : alerts'[b] # NoAlert => Listed(b)'
    BY <1>1, <1>7 DEF AlertsTyped
  <1>11. /\ units' \in [Shelf -> Nat] /\ moves' \in Seq(Movement)
         /\ levels' \in [Article -> [reorder: Nat, maximum: Nat]]
         /\ alerts' \in [Alert -> AlertRow \cup {NoAlert}] /\ copy' \in AlertCopy \cup {NoCopy}
    BY <1>1 DEF AlertsTyped, shelfVars
  <1> QED
    BY <1>4, <1>6, <1>7, <1>8, <1>9, <1>10, <1>11 DEF AlertsTyped

LEMMA EvaluationWritesTyped ==
    ASSUME AlertsTyped, NEW w \in Worker, InsertAlert(w) \/ UpdateAlert(w) \/ Resolve(w)
    PROVE  AlertsTyped'
  <1>1. pc[w] = "write" /\ work[w] \in StockOperation /\ work[w] = [work EXCEPT ![w] = work[w]][w]
    BY Busy DEF InsertAlert, UpdateAlert, Resolve, AlertsTyped
  <1>2. work = [work EXCEPT ![w] = work[w]]
    BY DEF AlertsTyped
  <1>3. /\ Here(w) \in Site /\ work[w].kind \in Kind \cup {"NORMAL"} /\ work[w].level \in Int
        /\ work[w].found \in SUBSET Alert
        /\ \A kind \in Kind : Threshold(work[w].levels, kind) \in Int
        /\ work[w].kind = "NORMAL" => work[w].found # {}
    <2>1. 0 \in Nat
      OBVIOUS
    <2> QED
      BY <1>1, <2>1, Busy, StatusOfTyped DEF AlertsTyped
  <1>4. CASE InsertAlert(w)
    <2>0. Here(w) \in Place
      BY <1>3, AlertsAssumption
    <2> DEFINE row == [site |-> Here(w), kind |-> work[w].kind, level |-> work[w].level,
                       threshold |-> Threshold(work[w].levels, work[w].kind), active |-> TRUE]
    <2>1. PICK a \in Unused : order' = Append(order, a) /\ Write(w, a, row)
      BY <1>4 DEF InsertAlert
    <2>2. work[w].kind \in Kind /\ pc' = [pc EXCEPT ![w] = "commit"] /\ work' = work
      BY <1>3, <1>4 DEF InsertAlert
    <2>3. row \in AlertRow
      BY <1>3, <2>0, <2>2 DEF AlertRow
    <2>4. a \in Alert /\ \A v \in Worker \ {w} : a \notin Changed(v)
      <3>1. a \in Alert /\ ~Listed(a)
        BY <2>1 DEF Unused, Contains, Listed
      <3> QED
        BY <3>1 DEF AlertsTyped
    <2> HIDE DEF row
    <2> QED
      BY <1>1, <1>2, <2>1, <2>2, <2>3, <2>4, WritesTyped
  <1>5. CASE UpdateAlert(w)
    <2>1. PICK a \in work[w].found :
            /\ alerts[a] # NoAlert /\ FreeAlert(a)
            /\ Write(w, a, [alerts[a] EXCEPT !.kind = work[w].kind, !.level = work[w].level,
                            !.threshold = Threshold(work[w].levels, work[w].kind)])
      BY <1>5 DEF UpdateAlert
    <2> DEFINE row == [alerts[a] EXCEPT !.kind = work[w].kind, !.level = work[w].level,
                       !.threshold = Threshold(work[w].levels, work[w].kind)]
    <2>2. /\ work[w].kind \in Kind /\ pc' = [pc EXCEPT ![w] = "commit"] /\ work' = work
          /\ order' = order
      BY <1>3, <1>5 DEF UpdateAlert
    <2>3. a \in Alert /\ alerts[a] \in AlertRow
      BY <1>3, <2>1 DEF AlertsTyped
    <2>4. row \in AlertRow
      BY <1>3, <2>2, <2>3 DEF AlertRow
    <2>5. Listed(a) /\ \A v \in Worker \ {w} : a \notin Changed(v)
      BY <2>1, <2>3 DEF AlertsTyped, FreeAlert
    <2>6. Write(w, a, row)
      BY <2>1
    <2> HIDE DEF row
    <2> QED
      BY <1>1, <1>2, <2>2, <2>3, <2>4, <2>5, <2>6, WritesTyped
  <1>6. CASE Resolve(w)
    <2>1. PICK a \in work[w].found :
            /\ alerts[a] # NoAlert /\ FreeAlert(a)
            /\ Write(w, a, [alerts[a] EXCEPT !.active = FALSE, !.level = work[w].level])
            /\ work' = [work EXCEPT ![w].found = @ \ {a}]
            /\ pc' = [pc EXCEPT ![w] = IF work[w].found = {a} THEN "commit" ELSE "write"]
      BY <1>6 DEF Resolve
    <2> DEFINE row == [alerts[a] EXCEPT !.active = FALSE, !.level = work[w].level]
               op == [work[w] EXCEPT !.found = work[w].found \ {a}]
               stage == IF work[w].found = {a} THEN "commit" ELSE "write"
    <2>2. order' = order
      BY <1>6 DEF Resolve
    <2>3. a \in Alert /\ alerts[a] \in AlertRow
      BY <1>3, <2>1 DEF AlertsTyped
    <2>4. row \in AlertRow
      BY <1>3, <2>3 DEF AlertRow
    <2>5. Listed(a) /\ \A v \in Worker \ {w} : a \notin Changed(v)
      BY <2>1, <2>3 DEF AlertsTyped, FreeAlert
    <2>6. Write(w, a, row) /\ work' = [work EXCEPT ![w] = op] /\ pc' = [pc EXCEPT ![w] = stage]
      BY <2>1
    <2>7. op \in StockOperation /\ (stage = "write" => op.found # {}) /\ stage \in {"write", "commit"}
      BY <1>1, <1>3, <2>1 DEF StockOperation
    <2> HIDE DEF row, op, stage
    <2> QED
      BY <1>1, <2>2, <2>3, <2>4, <2>5, <2>6, <2>7, WritesTyped
  <1> QED
    BY <1>4, <1>5, <1>6

LEMMA EndSessionTyped ==
    ASSUME AlertsTyped, NEW w \in Worker, EndSession(w)
    PROVE  /\ pc' \in [Worker -> Stages] /\ work' \in [Worker -> StockOperation \cup {NoWork}]
           /\ wrote' \in [Worker -> [Alert -> AlertRow \cup {NoAlert}]]
           /\ pc'[w] = "idle" /\ work'[w] = NoWork /\ Changed(w)' = {}
           /\ \A v \in Worker \ {w} : pc'[v] = pc[v] /\ work'[v] = work[v] /\ wrote'[v] = wrote[v]
  <1>1. NothingWritten \in [Alert -> AlertRow \cup {NoAlert}] /\ "idle" \in Stages
    BY DEF NothingWritten, Stages
  <1> QED
    BY <1>1 DEF EndSession, AlertsTyped, Changed, NothingWritten

LEMMA CommitTypedAlerts == ASSUME AlertsTyped, NEW w \in Worker, Commit(w) PROVE AlertsTyped'
  <1>1. /\ pc[w] = "commit" /\ EndSession(w)
        /\ units' = [units EXCEPT ![work[w].shelf] = work[w].new]
        /\ moves' = [n \in DOMAIN moves |->
              IF moves[n].by = w THEN [moves[n] EXCEPT !.by = NoWork] ELSE moves[n]]
        /\ alerts' = Table(w) /\ UNCHANGED <<levels, order, copy>>
    BY DEF Commit
  <1>2. /\ pc' \in [Worker -> Stages] /\ work' \in [Worker -> StockOperation \cup {NoWork}]
        /\ wrote' \in [Worker -> [Alert -> AlertRow \cup {NoAlert}]]
        /\ pc'[w] = "idle" /\ work'[w] = NoWork /\ Changed(w)' = {}
        /\ \A v \in Worker \ {w} : pc'[v] = pc[v] /\ work'[v] = work[v] /\ wrote'[v] = wrote[v]
    BY <1>1, EndSessionTyped
  <1>3. units' \in [Shelf -> Nat]
    <2>1. work[w].new \in Nat /\ units \in [Shelf -> Nat]
      BY <1>1, Busy DEF AlertsTyped
    <2> QED
      BY <1>1, <2>1
  <1>4. moves' \in Seq(Movement)
    <2>1. Len(moves) \in Nat /\ DOMAIN moves = 1..Len(moves)
      BY DEF AlertsTyped
    <2>2. \A n \in DOMAIN moves : moves[n] \in Movement
      BY <2>1 DEF AlertsTyped
    <2>3. \A n \in DOMAIN moves : [moves[n] EXCEPT !.by = NoWork] \in Movement
      BY <2>2 DEF Movement
    <2> QED
      BY <1>1, <2>1, <2>2, <2>3
  <1>5. alerts' \in [Alert -> AlertRow \cup {NoAlert}]
    BY <1>1 DEF Table, AlertsTyped
  <1>6. \A a \in Alert : alerts'[a] # NoAlert => Listed(a)'
    <2>1. \A a : Listed(a) => Listed(a)'
      BY <1>1 DEF Listed
    <2>2. \A a \in Alert : alerts'[a] # NoAlert => a \in Changed(w) \/ alerts[a] # NoAlert
      BY <1>1 DEF Table
    <2> QED
      BY <2>1, <2>2 DEF AlertsTyped
  <1>7. \A v \in Worker : Changed(v)' = IF v = w THEN {} ELSE Changed(v)
    BY <1>2 DEF Changed
  <1>8. \A v \in Worker : \A a \in Changed(v)' :
           Listed(a)' /\ \A u \in Worker \ {v} : a \notin Changed(u)'
    <2>1. \A a : Listed(a) => Listed(a)'
      BY <1>1 DEF Listed
    <2>2. \A v \in Worker : \A a \in Changed(v) :
             Listed(a) /\ \A u \in Worker \ {v} : a \notin Changed(u)
      BY DEF AlertsTyped
    <2> QED
      BY <1>7, <2>1, <2>2
  <1>9. \A v \in Worker :
           /\ pc'[v] = "idle" <=> work'[v] = NoWork
           /\ pc'[v] = "write" /\ work'[v].kind = "NORMAL" => work'[v].found # {}
           /\ pc'[v] \notin {"write", "commit"} => Changed(v)' = {}
    BY <1>2, <1>7 DEF AlertsTyped
  <1>10. \A v \in Worker : Changed(v)' \subseteq Alert
    BY DEF Changed
  <1> QED
    BY <1>1, <1>2, <1>3, <1>4, <1>5, <1>6, <1>8, <1>9, <1>10 DEF AlertsTyped

LEMMA FailTyped == ASSUME AlertsTyped, NEW w \in Worker, FailSession(w) PROVE AlertsTyped'
  <1> DEFINE mine == {n \in DOMAIN moves : moves[n].by = w}
             inserted == {n \in DOMAIN order : order[n] \in Changed(w) /\ alerts[order[n]] = NoAlert}
  <1>1. /\ EndSession(w) /\ moves' = Without(moves, mine) /\ order' = Without(order, inserted)
        /\ UNCHANGED <<units, levels, alerts, copy>>
    BY DEF FailSession
  <1>2. /\ pc' \in [Worker -> Stages] /\ work' \in [Worker -> StockOperation \cup {NoWork}]
        /\ wrote' \in [Worker -> [Alert -> AlertRow \cup {NoAlert}]]
        /\ pc'[w] = "idle" /\ work'[w] = NoWork /\ Changed(w)' = {}
        /\ \A v \in Worker \ {w} : pc'[v] = pc[v] /\ work'[v] = work[v] /\ wrote'[v] = wrote[v]
    BY <1>1, EndSessionTyped
  <1>3. moves' \in Seq(Movement)
    <2>1. moves \in Seq(Movement) /\ mine \in SUBSET DOMAIN moves
      BY DEF AlertsTyped
    <2> HIDE DEF mine
    <2> QED
      BY <1>1, <2>1, WithoutIs
  <1>4. /\ order' \in Seq(Alert)
        /\ \A b : Listed(b) /\ (\A n \in inserted : order[n] # b) => Listed(b)'
    <2>1. order \in Seq(Alert) /\ inserted \in SUBSET DOMAIN order
      BY DEF AlertsTyped
    <2> HIDE DEF inserted
    <2> QED
      BY <1>1, <2>1, OrderLoses
  <1>5. \A a \in Alert : alerts'[a] # NoAlert => Listed(a)'
    BY <1>1, <1>4 DEF AlertsTyped
  <1>7. \A v \in Worker : Changed(v)' = IF v = w THEN {} ELSE Changed(v)
    BY <1>2 DEF Changed
  <1>8. \A v \in Worker : \A a \in Changed(v)' :
           Listed(a)' /\ \A u \in Worker \ {v} : a \notin Changed(u)'
    <2> SUFFICES ASSUME NEW v \in Worker, NEW a \in Changed(v)'
                 PROVE  Listed(a)' /\ \A u \in Worker \ {v} : a \notin Changed(u)'
      OBVIOUS
    <2>1. v # w /\ a \in Changed(v) /\ a \notin Changed(w) /\ Listed(a)
      BY <1>7 DEF AlertsTyped
    <2>2. \A n \in inserted : order[n] # a
      BY <2>1
    <2>3. \A u \in Worker \ {v} : a \notin Changed(u)
      BY <2>1 DEF AlertsTyped
    <2> HIDE DEF inserted
    <2> QED
      BY <1>4, <1>7, <2>1, <2>2, <2>3
  <1>9. \A v \in Worker :
           /\ pc'[v] = "idle" <=> work'[v] = NoWork
           /\ pc'[v] = "write" /\ work'[v].kind = "NORMAL" => work'[v].found # {}
           /\ pc'[v] \notin {"write", "commit"} => Changed(v)' = {}
    BY <1>2, <1>7 DEF AlertsTyped
  <1>10. /\ units' \in [Shelf -> Nat] /\ levels' \in [Article -> [reorder: Nat, maximum: Nat]]
         /\ alerts' \in [Alert -> AlertRow \cup {NoAlert}] /\ copy' \in AlertCopy \cup {NoCopy}
    BY <1>1 DEF AlertsTyped
  <1> QED
    BY <1>2, <1>3, <1>4, <1>5, <1>8, <1>9, <1>10 DEF AlertsTyped

(* What is done without a session. *)
LEMMA AsideTyped ==
    ASSUME AlertsTyped, UNCHANGED <<shelfVars, pc, work, wrote>>,
           levels' \in [Article -> [reorder: Nat, maximum: Nat]],
           alerts' \in [Alert -> AlertRow \cup {NoAlert}], copy' \in AlertCopy \cup {NoCopy},
           order' \in Seq(Alert),
           \A w \in Worker : \A a \in Changed(w) : Listed(a)',
           \A a \in Alert : alerts'[a] # NoAlert => Listed(a)'
    PROVE  AlertsTyped'
  <1>1. \A w \in Worker : Changed(w)' = Changed(w)
    BY DEF Changed
  <1>2. \A w \in Worker :
           /\ pc'[w] = "idle" <=> work'[w] = NoWork
           /\ pc'[w] = "write" /\ work'[w].kind = "NORMAL" => work'[w].found # {}
           /\ pc'[w] \notin {"write", "commit"} => Changed(w)' = {}
           /\ \A a \in Changed(w)' : Listed(a)' /\ \A u \in Worker \ {w} : a \notin Changed(u)'
    <2>1. \A w \in Worker :
             /\ pc[w] = "idle" <=> work[w] = NoWork
             /\ pc[w] = "write" /\ work[w].kind = "NORMAL" => work[w].found # {}
             /\ pc[w] \notin {"write", "commit"} => Changed(w) = {}
             /\ \A a \in Changed(w) : \A u \in Worker \ {w} : a \notin Changed(u)
      BY DEF AlertsTyped
    <2>2. pc' = pc /\ work' = work
      OBVIOUS
    <2> QED
      BY <1>1, <2>1, <2>2
  <1>3. /\ units' \in [Shelf -> Nat] /\ moves' \in Seq(Movement) /\ pc' \in [Worker -> Stages]
        /\ work' \in [Worker -> StockOperation \cup {NoWork}]
        /\ wrote' \in [Worker -> [Alert -> AlertRow \cup {NoAlert}]]
    BY DEF AlertsTyped, shelfVars
  <1> QED
    BY <1>2, <1>3 DEF AlertsTyped

LEMMA SetLevelsTyped == ASSUME AlertsTyped, NEW p \in Article, SetLevels(p) PROVE AlertsTyped'
  <1>1. /\ \E l \in Levels : levels' = [levels EXCEPT ![p] = l]
        /\ UNCHANGED <<shelfVars, alerts, order, pc, work, wrote, copy>>
    BY DEF SetLevels
  <1>2. levels' \in [Article -> [reorder: Nat, maximum: Nat]]
    BY <1>1, AlertsAssumption DEF AlertsTyped
  <1>3. \A a : Listed(a) => Listed(a)'
    BY <1>1 DEF Listed
  <1> QED
    BY <1>1, <1>2, <1>3, AsideTyped DEF AlertsTyped

(* A patched row is a row. *)
LEMMA PatchedAlertTyped ==
    ASSUME copy \in AlertCopy, NEW patch \in AlertPatches
    PROVE  PatchedAlert(patch) \in AlertRow
  <1> DEFINE row == PatchedAlert(patch)
             Columns == {"site", "kind", "level", "threshold", "active"}
  <1>1. copy.row \in AlertRow
    BY DEF AlertCopy
  <1>2. DOMAIN copy.row = Columns /\ DOMAIN patch \subseteq Columns
    BY <1>1, AlertsAssumption DEF AlertRow
  <1>3. row = [column \in Columns |->
                 IF column \in DOMAIN patch THEN patch[column] ELSE copy.row[column]]
    BY <1>2 DEF PatchedAlert
  <1>4. "site" \in DOMAIN patch => patch["site"] \in Place
    BY AlertsAssumption
  <1>5. "kind" \in DOMAIN patch => patch["kind"] \in Kind
    BY AlertsAssumption
  <1>6. "active" \in DOMAIN patch => patch["active"] \in BOOLEAN
    BY AlertsAssumption
  <1>7. "level" \in DOMAIN patch => patch["level"] \in Int
    BY AlertsAssumption
  <1>8. "threshold" \in DOMAIN patch => patch["threshold"] \in Int
    BY AlertsAssumption
  <1>9. /\ row["site"] \in Place /\ row["kind"] \in Kind /\ row["level"] \in Int
        /\ row["threshold"] \in Int /\ row["active"] \in BOOLEAN
    BY <1>1, <1>3, <1>4, <1>5, <1>6, <1>7, <1>8 DEF AlertRow
  <1>10. row = [site |-> row["site"], kind |-> row["kind"], level |-> row["level"],
                threshold |-> row["threshold"], active |-> row["active"]]
    BY <1>3
  <1> HIDE DEF row
  <1> QED
    BY <1>9, <1>10 DEF AlertRow, row

LEMMA ByHandTyped ==
    ASSUME AlertsTyped, NEW a \in Alert,
           PostAlert \/ PatchAlert \/ LoadAlert(a) \/ DeleteAlert(a)
    PROVE  AlertsTyped'
  <1>1. UNCHANGED <<shelfVars, levels, pc, work, wrote>>
    BY DEF PostAlert, PatchAlert, LoadAlert, DeleteAlert, ByHand, session
  <1>2. CASE LoadAlert(a)
    <2>1. /\ copy' = [alert |-> a, row |-> alerts[a]] /\ alerts[a] # NoAlert
          /\ UNCHANGED <<alerts, order>>
      BY <1>2 DEF LoadAlert
    <2>2. copy' \in AlertCopy
      BY <2>1 DEF AlertCopy, AlertsTyped
    <2>3. \A b : Listed(b) => Listed(b)'
      BY <2>1 DEF Listed
    <2> QED
      BY <1>1, <2>1, <2>2, <2>3, AsideTyped DEF AlertsTyped
  <1>3. CASE PostAlert
    <2>1. PICK b \in Unused, row \in NewAlert :
            alerts' = [alerts EXCEPT ![b] = row] /\ order' = Append(order, b) /\ UNCHANGED copy
      BY <1>3 DEF PostAlert
    <2>2. b \in Alert /\ row \in AlertRow
      BY AlertsAssumption DEF Unused
    <2>3. order' \in Seq(Alert) /\ Listed(b)' /\ \A c : Listed(c) => Listed(c)'
      BY <2>1, <2>2, OrderGrows DEF AlertsTyped
    <2>4. /\ alerts' \in [Alert -> AlertRow \cup {NoAlert}] 
          /\ \A c \in Alert : alerts'[c] # NoAlert => Listed(c)'
      BY <2>1, <2>2, <2>3 DEF AlertsTyped
    <2> QED
      BY <1>1, <2>1, <2>3, <2>4, AsideTyped DEF AlertsTyped
  <1>4. CASE PatchAlert
    <2>0. copy \in AlertCopy
      BY <1>4 DEF PatchAlert, AlertsTyped
    <2> PICK b \in Alert : copy.alert = b
      BY <2>0 DEF AlertCopy
    <2>1. PICK patch \in AlertPatches :
            /\ copy # NoCopy /\ copy' = NoCopy
            /\ alerts' = [alerts EXCEPT ![b] = PatchedAlert(patch)]
            /\ order' = IF alerts[b] = NoAlert THEN Append(order, b) ELSE order
      BY <1>4 DEF PatchAlert
    <2>2. b \in Alert /\ PatchedAlert(patch) \in AlertRow
      BY <2>0, PatchedAlertTyped
    <2>3. order' \in Seq(Alert) /\ Listed(b)' /\ \A c : Listed(c) => Listed(c)'
      <3>1. CASE alerts[b] = NoAlert
        <4>1. order \in Seq(Alert) /\ order' = Append(order, b)
          BY <2>1, <3>1 DEF AlertsTyped
        <4> QED
          BY <2>2, <4>1, OrderGrows
      <3>2. CASE alerts[b] # NoAlert
        <4>1. order' = order /\ order \in Seq(Alert) /\ Listed(b)
          BY <2>1, <2>2, <3>2 DEF AlertsTyped
        <4> QED
          BY <4>1 DEF Listed
      <3> QED
        BY <3>1, <3>2
    <2>4. /\ alerts' \in [Alert -> AlertRow \cup {NoAlert}] 
          /\ \A c \in Alert : alerts'[c] # NoAlert => Listed(c)'
      <3> QED
        BY <2>1, <2>2, <2>3 DEF AlertsTyped
    <2> QED
      BY <1>1, <2>1, <2>3, <2>4, AsideTyped DEF AlertsTyped
  <1>5. CASE DeleteAlert(a)
    <2> DEFINE places == {n \in DOMAIN order : order[n] = a}
    <2>1. /\ FreeAlert(a) /\ alerts' = [alerts EXCEPT ![a] = NoAlert] /\ UNCHANGED copy
          /\ order' = Without(order, places)
      BY <1>5 DEF DeleteAlert
    <2>2. order' \in Seq(Alert) /\ \A b : Listed(b) /\ b # a => Listed(b)'
      <3>1. order \in Seq(Alert) /\ places \in SUBSET DOMAIN order /\ \A n \in places : order[n] = a
        BY DEF AlertsTyped
      <3> HIDE DEF places
      <3> QED
        BY <2>1, <3>1, OrderLoses
    <2>3. \A w \in Worker : a \notin Changed(w)
      BY <2>1 DEF FreeAlert
    <2>4. /\ alerts' \in [Alert -> AlertRow \cup {NoAlert}] 
          /\ \A c \in Alert : alerts'[c] # NoAlert => Listed(c)'
      BY <2>1, <2>2 DEF AlertsTyped
    <2>5. \A w \in Worker : \A b \in Changed(w) : Listed(b)'
      BY <2>2, <2>3 DEF AlertsTyped
    <2> QED
      BY <1>1, <2>1, <2>2, <2>4, <2>5, AsideTyped DEF AlertsTyped
  <1> QED
    BY <1>2, <1>3, <1>4, <1>5

(* Every step keeps the types. *)
LEMMA AlertsNextTyped == AlertsTyped /\ [AlertsNext]_alertsVars => AlertsTyped'
  <1> SUFFICES ASSUME AlertsTyped, [AlertsNext]_alertsVars PROVE AlertsTyped'
    OBVIOUS
  <1>1. ASSUME NEW w \in Worker, Begin(w) \/ Lock(w) PROVE AlertsTyped'
    BY <1>1, BeginTypedAlerts, LockTyped
  <1>2. ASSUME NEW w \in Worker, Evaluate(w) PROVE AlertsTyped'
    BY <1>2, ReadsTyped, EvaluationWritesTyped DEF Evaluate
  <1>3. ASSUME NEW w \in Worker, Commit(w) \/ FailSession(w) PROVE AlertsTyped'
    BY <1>3, CommitTypedAlerts, FailTyped
  <1>4. ASSUME NEW p \in Article, SetLevels(p) PROVE AlertsTyped'
    BY <1>4, SetLevelsTyped
  <1>5. ASSUME PostAlert \/ PatchAlert PROVE AlertsTyped'
    <2>1. \E a : a \in Alert
      <3>1. CASE PostAlert
        BY <3>1 DEF PostAlert, Unused
      <3>2. CASE PatchAlert
        <4>1. copy \in AlertCopy
          BY <3>2 DEF PatchAlert, AlertsTyped
        <4> QED
          BY <4>1 DEF AlertCopy
      <3> QED
        BY <1>5, <3>1, <3>2
    <2> QED
      BY <1>5, <2>1, ByHandTyped
  <1>6. ASSUME NEW a \in Alert, LoadAlert(a) \/ DeleteAlert(a) PROVE AlertsTyped'
    BY <1>6, ByHandTyped
  <1>7. CASE UNCHANGED alertsVars
    <2>1. UNCHANGED <<shelfVars, levels, alerts, order, pc, work, wrote, copy>>
      BY <1>7 DEF alertsVars, session
    <2>2. \A a : Listed(a) => Listed(a)'
      BY <2>1 DEF Listed
    <2> QED
      BY <2>1, <2>2, AsideTyped DEF AlertsTyped
  <1> QED
    BY <1>1, <1>2, <1>3, <1>4, <1>5, <1>6, <1>7 DEF AlertsNext

-----------------------------------------------------------------------------
(* The ledger.  A session holds its shelf from the lock on, and owns the   *)
(* movements it wrote.                                                     *)
HoldingShelf(w) == pc[w] \notin {"idle", "lock"}
Own(w) == {n \in DOMAIN moves : moves[n].by = w}

(* A session has its movement once it has written it, and what the lock    *)
(* lets it write last comes after all that is committed for the shelf.     *)
BookedFor(w) ==
    /\ pc[w] = "idle" \/ (pc[w] = "lock" /\ work[w].op # "receive") => Own(w) = {}
    /\ pc[w] = "lock" /\ work[w].op = "receive" =>
          \E n \in DOMAIN moves :
            Own(w) = {n} /\ moves[n].shelf = work[w].shelf /\ moves[n].quantity = work[w].n
    /\ HoldingShelf(w) =>
          \E n \in DOMAIN moves :
            /\ Own(w) = {n} /\ moves[n].shelf = work[w].shelf
            /\ moves[n].quantity = work[w].new - units[work[w].shelf]
            /\ moves[n].quantity < 0 =>
                  \A m \in DOMAIN moves :
                    moves[m].by = NoWork /\ moves[m].shelf = work[w].shelf => m < n
Booked == \A w \in Worker : BookedFor(w)

(* A shelf is held by one session. *)
Apart ==
    \A v, w \in Worker : HoldingShelf(v) /\ HoldingShelf(w) /\ work[v].shelf = work[w].shelf => v = w

(* The committed movements of a shelf add up to its quantity, and its      *)
(* balance was never below zero.                                           *)
ExplainedFor(s) ==
    /\ SumOver(Movements({s})) = units[s]
    /\ \A k \in Nat : SumOver(Movements({s}) \cap (1..k)) >= 0
Explained == \A s \in Shelf : ExplainedFor(s)

LedgerInv == AlertsTyped /\ Booked /\ Apart /\ Explained

-----------------------------------------------------------------------------
LEMMA Numbered == ASSUME AlertsTyped PROVE DOMAIN moves = 1..Len(moves) /\ Len(moves) \in Nat
  BY DEF AlertsTyped

LEMMA MovementFields ==
    ASSUME AlertsTyped, NEW n \in DOMAIN moves
    PROVE  /\ n \in 1..Len(moves) /\ moves[n] \in Movement
           /\ moves[n].shelf \in Shelf /\ moves[n].quantity \in Int
           /\ moves[n].by \in Worker \cup {NoWork}
  <1>1. n \in 1..Len(moves) /\ moves[n] \in Movement
    BY DEF AlertsTyped
  <1> QED
    BY <1>1 DEF Movement

Amounts == [n \in DOMAIN moves |-> moves[n].quantity]

LEMMA AmountsInteger ==
    ASSUME AlertsTyped, NEW places \in SUBSET DOMAIN moves
    PROVE  IntegersOn(Amounts, places) /\ SumOver(places) = SumFunctionOnSet(Amounts, places)
           /\ SumOver(places) \in Int
  <1>1. Len(moves) \in Nat /\ DOMAIN moves = 1..Len(moves)
    BY DEF AlertsTyped
  <1>2. IsFiniteSet(1..Len(moves))
    BY <1>1, FS_Interval
  <1>3. IsFiniteSet(places)
    BY <1>1, <1>2, FS_Subset
  <1>4. IntegersOn(Amounts, places)
    BY <1>3, MovementFields DEF IntegersOn, Amounts
  <1> QED
    BY <1>4, SumInteger DEF SumOver, Amounts

(* Sums of movements that stay the same. *)
LEMMA SumStays ==
    ASSUME AlertsTyped, NEW places \in SUBSET DOMAIN moves, places \subseteq DOMAIN moves',
           \A n \in places : moves'[n].quantity = moves[n].quantity
    PROVE  SumOver(places)' = SumOver(places)
  <1>1. IntegersOn(Amounts, places) /\ \A n \in places : Amounts[n] = Amounts'[n]
    BY AmountsInteger DEF Amounts
  <1>2. SumFunctionOnSet(Amounts, places) = SumFunctionOnSet(Amounts', places)
    BY <1>1, SumSame
  <1> QED
    BY <1>2 DEF SumOver, Amounts

LEMMA MovementsIn == ASSUME NEW shelves PROVE Movements(shelves) \in SUBSET DOMAIN moves
  BY DEF Movements

(* Nothing is committed, and what was is still there. *)
LEMMA ExplainedStays ==
    ASSUME AlertsTyped, Explained, units' = units,
           \A s \in Shelf : Movements({s})' = Movements({s}),
           \A n \in DOMAIN moves : n \in DOMAIN moves' /\ moves'[n].quantity = moves[n].quantity
    PROVE  Explained'
  <1> SUFFICES ASSUME NEW s \in Shelf PROVE ExplainedFor(s)'
    BY DEF Explained
  <1>1. ASSUME NEW places \in SUBSET Movements({s})
        PROVE  SumOver(places)' = SumOver(places)
    <2>1. places \in SUBSET DOMAIN moves
      BY MovementsIn
    <2> QED
      BY <2>1, SumStays
  <1>2. SumOver(Movements({s}))' = SumOver(Movements({s}))
    <2> DEFINE all == Movements({s})
    <2>1. all' = all /\ all \in SUBSET Movements({s})
      OBVIOUS
    <2>2. SumOver(all)' = SumOver(all)
      BY <1>1, <2>1 DEF SumOver
    <2> QED
      BY <2>2
  <1>3. ASSUME NEW k \in Nat
        PROVE  SumOver(Movements({s}) \cap (1..k))' = SumOver(Movements({s}) \cap (1..k))
    BY <1>1 DEF SumOver
  <1>4. ExplainedFor(s)
    BY DEF Explained
  <1> QED
    BY <1>2, <1>3, <1>4 DEF ExplainedFor

(* A step that leaves the stock alone, and the sessions as far as they     *)
(* write it.                                                               *)
LEMMA QuietLedger ==
    ASSUME LedgerInv, AlertsTyped', UNCHANGED shelfVars,
           \A v \in Worker :
              /\ pc'[v] = "idle" <=> pc[v] = "idle"
              /\ pc'[v] = "lock" <=> pc[v] = "lock"
              /\ pc[v] # "idle" => /\ work'[v].op = work[v].op /\ work'[v].shelf = work[v].shelf
                                   /\ work'[v].n = work[v].n /\ work'[v].new = work[v].new
    PROVE  LedgerInv'
  <1>1. moves' = moves /\ units' = units
    BY DEF shelfVars
  <1>2. \A shelves : Movements(shelves)' = Movements(shelves)
    BY <1>1 DEF Movements
  <1>3. Explained'
    BY <1>1, <1>2, ExplainedStays DEF LedgerInv
  <1>4. \A v \in Worker : Own(v)' = Own(v) /\ (HoldingShelf(v)' <=> HoldingShelf(v))
                          /\ (HoldingShelf(v) => pc[v] # "idle")
    BY <1>1 DEF Own, HoldingShelf
  <1>5. Apart'
    BY <1>4 DEF LedgerInv, Apart
  <1>6. ASSUME NEW v \in Worker PROVE BookedFor(v)'
    <2>1. BookedFor(v)
      BY DEF LedgerInv, Booked
    <2>2. pc[v] = "idle" => BookedFor(v)'
      BY <1>1, <1>4, <2>1 DEF BookedFor, HoldingShelf
    <2>3. ASSUME pc[v] = "lock" PROVE BookedFor(v)'
      BY <1>1, <1>4, <2>1, <2>3 DEF BookedFor, HoldingShelf
    <2>4. ASSUME HoldingShelf(v) PROVE BookedFor(v)'
      <3>1. pc'[v] # "idle" /\ pc'[v] # "lock" /\ HoldingShelf(v)'
        BY <2>4 DEF HoldingShelf
      <3>2. work'[v].shelf = work[v].shelf /\ work'[v].new = work[v].new
        BY <2>4 DEF HoldingShelf
      <3> QED
        BY <1>1, <1>4, <2>1, <2>4, <3>1, <3>2 DEF BookedFor
    <2> QED
      BY <2>2, <2>3, <2>4 DEF HoldingShelf
  <1> QED
    BY <1>3, <1>5, <1>6 DEF LedgerInv, Booked

(* One movement more, of an open transaction. *)
LEMMA MoreMovements ==
    ASSUME AlertsTyped, NEW m \in Movement, m.by # NoWork, moves' = Append(moves, m)
    PROVE  /\ DOMAIN moves' = 1..(Len(moves) + 1) /\ DOMAIN moves = 1..Len(moves)
           /\ Len(moves) \in Nat /\ moves'[Len(moves) + 1] = m
           /\ \A n \in DOMAIN moves : moves'[n] = moves[n]
           /\ \A shelves : Movements(shelves)' = Movements(shelves)
           /\ \A v \in Worker : Own(v)' = IF v = m.by THEN Own(v) \cup {Len(moves) + 1} ELSE Own(v)
  <1>1. /\ DOMAIN moves' = 1..(Len(moves) + 1) /\ DOMAIN moves = 1..Len(moves)
        /\ Len(moves) \in Nat /\ moves'[Len(moves) + 1] = m
        /\ \A n \in DOMAIN moves : moves'[n] = moves[n]
    BY DEF AlertsTyped
  <1>2. 1..(Len(moves) + 1) = (1..Len(moves)) \cup {Len(moves) + 1}
    BY <1>1
  <1>3. \A shelves : Movements(shelves)' = Movements(shelves)
    BY <1>1, <1>2 DEF Movements
  <1>4. \A v \in Worker : Own(v)' = IF v = m.by THEN Own(v) \cup {Len(moves) + 1} ELSE Own(v)
    BY <1>1, <1>2 DEF Own
  <1> QED
    BY <1>1, <1>3, <1>4

(* What holds of a session does not depend on movements of others. *)
LEMMA OthersBooked ==
    ASSUME AlertsTyped, NEW v \in Worker, BookedFor(v), pc'[v] = pc[v], work'[v] = work[v],
           units' = units,
           \A n \in DOMAIN moves : n \in DOMAIN moves' /\ moves'[n] = moves[n],
           \A n \in DOMAIN moves' : moves'[n].by = NoWork => n \in DOMAIN moves,
           Own(v)' = Own(v)
    PROVE  BookedFor(v)'
  <1>1. HoldingShelf(v)' <=> HoldingShelf(v)
    BY DEF HoldingShelf
  <1> QED
    BY <1>1 DEF BookedFor

LEMMA BeginLedger == ASSUME LedgerInv, NEW w \in Worker, Begin(w), AlertsTyped' PROVE LedgerInv'
  <1>1. PICK op \in {"receive", "issue", "adjust"}, shelf \in Shelf, n \in Quantity \cup {0} :
          /\ work' = [work EXCEPT ![w] =
                [op |-> op, shelf |-> shelf, n |-> n, new |-> 0, kind |-> "NORMAL", level |-> 0,
                 found |-> {}, levels |-> levels[ProductOf[SiteOf[shelf]]]]]
          /\ moves' = IF op = "receive"
                      THEN Append(moves, [shelf |-> shelf, quantity |-> n, by |-> w])
                      ELSE moves
    BY DEF Begin
  <1>2. /\ pc[w] = "idle" /\ pc' = [pc EXCEPT ![w] = "lock"] /\ units' = units
        /\ AlertsTyped
    BY DEF Begin, LedgerInv
  <1>3. /\ pc'[w] = "lock" /\ work'[w].op = op /\ work'[w].shelf = shelf /\ work'[w].n = n
        /\ \A v \in Worker \ {w} : pc'[v] = pc[v] /\ work'[v] = work[v]
    BY <1>1, <1>2 DEF AlertsTyped
  <1>4. \A v \in Worker : (HoldingShelf(v)' <=> HoldingShelf(v)) /\ (HoldingShelf(v) => v # w)
    BY <1>2, <1>3 DEF HoldingShelf
  <1>5. Apart'
    BY <1>3, <1>4 DEF LedgerInv, Apart
  <1>6. Own(w) = {} /\ \A v \in Worker : BookedFor(v)
    BY <1>2 DEF LedgerInv, Booked, BookedFor
  <1>7. CASE op # "receive"
    <2>1. moves' = moves
      BY <1>1, <1>7
    <2>2. /\ \A shelves : Movements(shelves)' = Movements(shelves)
          /\ \A v \in Worker : Own(v)' = Own(v)
      BY <2>1 DEF Movements, Own
    <2>3. Explained'
      BY <1>2, <2>1, <2>2, ExplainedStays DEF LedgerInv
    <2>4. \A v \in Worker \ {w} : BookedFor(v)'
      BY <1>2, <1>3, <1>6, <2>1, <2>2, OthersBooked
    <2>5. BookedFor(w)'
      BY <1>3, <1>6, <1>7, <2>2 DEF BookedFor, HoldingShelf
    <2> QED
      BY <1>5, <2>3, <2>4, <2>5 DEF LedgerInv, Booked
  <1>8. CASE op = "receive"
    <2> DEFINE m == [shelf |-> shelf, quantity |-> n, by |-> w]
    <2>1. m \in Movement /\ m.by = w /\ m.shelf = shelf /\ m.quantity = n
      BY AlertsAssumption DEF Movement
    <2>2. m.by # NoWork /\ moves' = Append(moves, m)
      BY <1>1, <1>8, NothingAssumption
    <2> HIDE DEF m
    <2>3. /\ DOMAIN moves' = 1..(Len(moves) + 1) /\ DOMAIN moves = 1..Len(moves)
          /\ Len(moves) \in Nat /\ moves'[Len(moves) + 1] = m
          /\ \A k \in DOMAIN moves : moves'[k] = moves[k]
          /\ \A shelves : Movements(shelves)' = Movements(shelves)
          /\ \A v \in Worker : Own(v)' = IF v = m.by THEN Own(v) \cup {Len(moves) + 1} ELSE Own(v)
      BY <1>2, <2>1, <2>2, MoreMovements
    <2>4. /\ \A k \in DOMAIN moves : k \in DOMAIN moves' /\ moves'[k] = moves[k]
          /\ \A k \in DOMAIN moves' : moves'[k].by = NoWork => k \in DOMAIN moves
      BY <2>1, <2>2, <2>3
    <2>5. Explained'
      BY <1>2, <2>3, <2>4, ExplainedStays DEF LedgerInv
    <2>6. \A v \in Worker \ {w} : BookedFor(v)'
      BY <1>2, <1>3, <1>6, <2>1, <2>3, <2>4, OthersBooked
    <2>7. BookedFor(w)'
      <3>1. Own(w)' = {Len(moves) + 1} /\ Len(moves) + 1 \in DOMAIN moves'
        BY <1>6, <2>1, <2>3
      <3> QED
        BY <1>3, <1>8, <2>1, <2>3, <3>1 DEF BookedFor, HoldingShelf
    <2> QED
      BY <1>5, <2>5, <2>6, <2>7 DEF LedgerInv, Booked
  <1> QED
    BY <1>7, <1>8

LEMMA LockLedger == ASSUME LedgerInv, NEW w \in Worker, Lock(w), AlertsTyped' PROVE LedgerInv'
  <1> PICK shelf \in Shelf : shelf = work[w].shelf
    BY Busy DEF LedgerInv, Lock
  <1> DEFINE new == CASE work[w].op = "receive" -> units[shelf] + work[w].n
                      [] work[w].op = "issue" -> units[shelf] - work[w].n
                      [] OTHER -> work[w].n
  <1>1. /\ pc[w] = "lock" /\ new >= 0 /\ Free(shelf) /\ units' = units
        /\ work' = [work EXCEPT ![w].new = new] /\ pc' = [pc EXCEPT ![w] = "judge"]
        /\ moves' = IF work[w].op = "receive" THEN moves
                    ELSE WrittenLast(shelf, new - units[shelf], w)
    BY DEF Lock
  <1>2. /\ work[w] \in StockOperation /\ units[shelf] \in Nat /\ work[w].n \in Nat /\ AlertsTyped
    BY <1>1, Busy DEF LedgerInv, AlertsTyped
  <1>3. new \in Nat /\ (work[w].op = "receive" => new = units[shelf] + work[w].n)
    BY <1>1, <1>2
  <1> HIDE DEF new
  <1>4. /\ pc'[w] = "judge" /\ work'[w].shelf = shelf /\ work'[w].new = new
        /\ \A v \in Worker \ {w} : pc'[v] = pc[v] /\ work'[v] = work[v]
    BY <1>1, <1>2 DEF AlertsTyped, StockOperation
  <1>5. \A v \in Worker \ {w} : HoldingShelf(v) => work[v].shelf # shelf
    BY <1>1 DEF Free, Holds, HoldingShelf
  <1>6. Apart'
    <2>1. \A v \in Worker \ {w} : HoldingShelf(v)' <=> HoldingShelf(v)
      BY <1>4 DEF HoldingShelf
    <2> QED
      BY <1>4, <1>5, <2>1 DEF LedgerInv, Apart
  <1>7. /\ \A v \in Worker : BookedFor(v)
        /\ HoldingShelf(w)' /\ pc'[w] # "idle" /\ pc'[w] # "lock"
    BY <1>4 DEF LedgerInv, Booked, HoldingShelf
  <1>8. CASE work[w].op = "receive"
    <2>1. moves' = moves
      BY <1>1, <1>8
    <2>2. /\ \A shelves : Movements(shelves)' = Movements(shelves)
          /\ \A v \in Worker : Own(v)' = Own(v)
      BY <2>1 DEF Movements, Own
    <2>3. Explained'
      BY <1>1, <1>2, <2>1, <2>2, ExplainedStays DEF LedgerInv
    <2>4. \A v \in Worker \ {w} : BookedFor(v)'
      BY <1>1, <1>2, <1>4, <1>7, <2>1, <2>2, OthersBooked
    <2>5. PICK n \in DOMAIN moves :
            Own(w) = {n} /\ moves[n].shelf = shelf /\ moves[n].quantity = work[w].n
      BY <1>1, <1>7, <1>8 DEF BookedFor
    <2>6. /\ n \in DOMAIN moves' /\ Own(w)' = {n} /\ moves'[n].shelf = shelf
          /\ moves'[n].quantity = new - units[shelf] /\ ~(moves'[n].quantity < 0)
      BY <1>2, <1>3, <1>8, <2>1, <2>2, <2>5
    <2>7. BookedFor(w)'
      BY <1>1, <1>4, <1>7, <2>6 DEF BookedFor
    <2> QED
      BY <1>6, <2>3, <2>4, <2>7 DEF LedgerInv, Booked
  <1>9. CASE work[w].op # "receive"
    <2> DEFINE m == [shelf |-> shelf, quantity |-> new - units[shelf], by |-> w]
    <2>1. m \in Movement /\ m.by = w /\ m.shelf = shelf /\ m.quantity = new - units[shelf]
      BY <1>2, <1>3 DEF Movement
    <2>2. m.by # NoWork /\ moves' = Append(moves, m)
      BY <1>1, <1>9, NothingAssumption DEF WrittenLast
    <2> HIDE DEF m
    <2>3. /\ DOMAIN moves' = 1..(Len(moves) + 1) /\ DOMAIN moves = 1..Len(moves)
          /\ Len(moves) \in Nat /\ moves'[Len(moves) + 1] = m
          /\ \A k \in DOMAIN moves : moves'[k] = moves[k]
          /\ \A shelves : Movements(shelves)' = Movements(shelves)
          /\ \A v \in Worker : Own(v)' = IF v = m.by THEN Own(v) \cup {Len(moves) + 1} ELSE Own(v)
      BY <1>2, <2>1, <2>2, MoreMovements
    <2>4. /\ \A k \in DOMAIN moves : k \in DOMAIN moves' /\ moves'[k] = moves[k]
          /\ \A k \in DOMAIN moves' : moves'[k].by = NoWork => k \in DOMAIN moves
      BY <2>1, <2>2, <2>3
    <2>5. Explained'
      BY <1>1, <1>2, <2>3, <2>4, ExplainedStays DEF LedgerInv
    <2>6. \A v \in Worker \ {w} : BookedFor(v)'
      BY <1>1, <1>2, <1>4, <1>7, <2>1, <2>3, <2>4, OthersBooked
    <2>7. BookedFor(w)'
      <3>1. Own(w) = {}
        BY <1>1, <1>7, <1>9 DEF BookedFor
      <3>2. Own(w)' = {Len(moves) + 1} /\ Len(moves) + 1 \in DOMAIN moves'
        BY <3>1, <2>1, <2>3
      <3>3. \A k \in DOMAIN moves' : moves'[k].by = NoWork => k < Len(moves) + 1
        BY <2>3, <2>4
      <3> QED
        BY <1>1, <1>4, <1>7, <2>1, <2>3, <3>2, <3>3 DEF BookedFor
    <2> QED
      BY <1>6, <2>5, <2>6, <2>7 DEF LedgerInv, Booked
  <1> QED
    BY <1>8, <1>9

(* A session that ends holds nothing; the others go on. *)
LEMMA EndSessionApart ==
    ASSUME LedgerInv, NEW w \in Worker, EndSession(w)
    PROVE  /\ Apart' /\ pc'[w] = "idle" /\ ~HoldingShelf(w)'
           /\ \A v \in Worker \ {w} :
                 pc'[v] = pc[v] /\ work'[v] = work[v] /\ (HoldingShelf(v)' <=> HoldingShelf(v))
  <1>1. /\ pc'[w] = "idle"
        /\ \A v \in Worker \ {w} : pc'[v] = pc[v] /\ work'[v] = work[v]
    BY EndSessionTyped DEF LedgerInv
  <1>2. ~HoldingShelf(w)' /\ \A v \in Worker \ {w} : HoldingShelf(v)' <=> HoldingShelf(v)
    BY <1>1 DEF HoldingShelf
  <1> QED
    BY <1>1, <1>2 DEF LedgerInv, Apart

(* The movement of a commit joins those of its shelf: the balance after it *)
(* is what the session computed under the lock, and if it takes something  *)
(* out, it is the last of them.                                            *)
LEMMA CommitExplained ==
    ASSUME LedgerInv, NEW w \in Worker, NEW shelf \in Shelf, NEW new \in Nat, NEW p \in DOMAIN moves,
           moves[p].by # NoWork, moves[p].shelf = shelf, moves[p].quantity = new - units[shelf],
           moves[p].quantity < 0 =>
              \A m \in DOMAIN moves : moves[m].by = NoWork /\ moves[m].shelf = shelf => m < p,
           units' = [units EXCEPT ![shelf] = new],
           \A s \in Shelf : Movements({s})' = IF s = shelf THEN Movements({s}) \cup {p}
                                                          ELSE Movements({s}),
           DOMAIN moves' = DOMAIN moves,
           \A n \in DOMAIN moves : moves'[n].quantity = moves[n].quantity
    PROVE  Explained'
  <1>0. AlertsTyped /\ DOMAIN moves = 1..Len(moves) /\ Len(moves) \in Nat
    BY Numbered DEF LedgerInv
  <1> SUFFICES ASSUME NEW s \in Shelf PROVE ExplainedFor(s)'
    BY DEF Explained
  <1>1. ASSUME NEW places \in SUBSET DOMAIN moves
        PROVE  SumOver(places)' = SumOver(places)
    BY <1>0, SumStays
  <1> DEFINE old == Movements({s})
             upTo(k) == old \cap (1..k)
  <1>2. /\ old \in SUBSET DOMAIN moves /\ SumOver(old) = units[s]
        /\ \A k \in Nat : SumOver(upTo(k)) >= 0 /\ SumOver(upTo(k)) \in Int
    <2>1. old \in SUBSET DOMAIN moves
      BY MovementsIn
    <2>2. \A k \in Nat : SumOver(upTo(k)) \in Int
      BY <1>0, <2>1, AmountsInteger
    <2> QED
      BY <2>1, <2>2 DEF LedgerInv, Explained, ExplainedFor
  <1>3. CASE s # shelf
    <2>1. Movements({s})' = old
      BY <1>3
    <2>2. SumOver(Movements({s})') = units'[s] /\ \A k \in Nat : SumOver(Movements({s})' \cap (1..k)) >= 0
      BY <1>2, <1>3, <2>1 DEF LedgerInv, AlertsTyped
    <2>3. SumOver(Movements({s}))' = units'[s]
      BY <1>1, <1>2, <1>3, <2>1 DEF LedgerInv, AlertsTyped, SumOver
    <2>4. \A k \in Nat : SumOver(Movements({s}) \cap (1..k))' >= 0
      BY <1>1, <1>2, <2>1 DEF SumOver
    <2> QED
      BY <2>3, <2>4 DEF ExplainedFor
  <1>4. CASE s = shelf
    <2>1. /\ Movements({s})' = old \cup {p} /\ p \notin old /\ units[s] \in Nat /\ units'[s] = new
      BY <1>0, <1>4 DEF Movements, AlertsTyped
    <2>2. ASSUME NEW places \in SUBSET old
          PROVE  /\ SumOver(places \cup {p}) = SumOver(places) + (new - units[s])
                 /\ SumOver(places) \in Int
      <3> DEFINE more == places \cup {p}
      <3>1. /\ more \in SUBSET DOMAIN moves /\ places \in SUBSET DOMAIN moves
            /\ p \in more /\ more \ {p} = places
        BY <1>2, <2>1
      <3> HIDE DEF more
      <3>2. /\ IntegersOn(Amounts, more) /\ SumOver(more) = SumFunctionOnSet(Amounts, more)
            /\ SumOver(places) = SumFunctionOnSet(Amounts, places) /\ SumOver(places) \in Int
        BY <1>0, <3>1, AmountsInteger
      <3>3. SumFunctionOnSet(Amounts, more) = Amounts[p] + SumFunctionOnSet(Amounts, more \ {p})
        BY <3>1, <3>2, SumOneMore
      <3>4. Amounts[p] = new - units[s]
        BY <1>4 DEF Amounts
      <3>5. SumOver(more) = (new - units[s]) + SumOver(places)
        BY <3>1, <3>2, <3>3, <3>4
      <3>6. SumOver(more) = SumOver(places) + (new - units[s])
        BY <2>1, <3>2, <3>5
      <3> QED
        BY <3>2, <3>6 DEF more
    <2>3. SumOver(old \cup {p}) = new
      <3>1. SumOver(old \cup {p}) = SumOver(old) + (new - units[s])
        BY <2>2
      <3> HIDE DEF old
      <3> QED
        BY <1>2, <2>1, <3>1
    <2>4. SumOver(Movements({s}))' = units'[s]
      BY <1>1, <1>2, <2>1, <2>3 DEF SumOver
    <2>5. ASSUME NEW k \in Nat PROVE SumOver((old \cup {p}) \cap (1..k)) >= 0
      <3>1. CASE p > k
        <4>1. (old \cup {p}) \cap (1..k) = upTo(k)
          BY <1>0, <3>1
        <4> QED
          BY <1>2, <4>1
      <3>2. CASE ~(p > k)
        <4>1. (old \cup {p}) \cap (1..k) = upTo(k) \cup {p}
          BY <1>0, <3>2
        <4> DEFINE places == upTo(k)
        <4>0. places \in SUBSET old
          OBVIOUS
        <4>2. SumOver(places \cup {p}) = SumOver(places) + (new - units[s])
          <5> HIDE DEF places
          <5> QED
            BY <4>0, <2>2
        <4>3. CASE new - units[s] >= 0
          <5>1. SumOver(places) >= 0 /\ SumOver(places) \in Int /\ (old \cup {p}) \cap (1..k) = places \cup {p}
            BY <1>2, <4>1
          <5>2. SumOver((old \cup {p}) \cap (1..k)) = SumOver(places \cup {p})
            BY <5>1
          <5>3. new \in Nat /\ units[s] \in Nat
            BY <2>1
          <5> HIDE DEF places, old
          <5> QED
            BY <4>2, <4>3, <5>1, <5>2, <5>3
        <4>4. CASE new - units[s] < 0
          <5>1. \A m \in old : m \in 1..k
            BY <1>0, <1>2, <1>4, <3>2, <4>4 DEF Movements
          <5>2. upTo(k) = old
            BY <5>1
          <5>3. (old \cup {p}) \cap (1..k) = old \cup {p}
            BY <4>1, <5>2
          <5>4. SumOver((old \cup {p}) \cap (1..k)) = new
            BY <2>3, <5>3
          <5> HIDE DEF old
          <5> QED
            BY <5>4
        <4> QED
          BY <2>1, <4>3, <4>4
      <3> QED
        BY <3>1, <3>2
    <2>6. ASSUME NEW k \in Nat PROVE SumOver(Movements({s}) \cap (1..k))' >= 0
      <3>1. (old \cup {p}) \cap (1..k) \in SUBSET DOMAIN moves
        BY <1>2
      <3>2. SumOver((old \cup {p}) \cap (1..k))' >= 0
        BY <1>1, <2>5, <3>1 DEF SumOver
      <3> QED
        BY <1>1, <2>1, <2>5, <3>1 DEF SumOver
    <2> QED
      BY <2>4, <2>6 DEF ExplainedFor
  <1> QED
    BY <1>3, <1>4

LEMMA CommitLedger == ASSUME LedgerInv, NEW w \in Worker, Commit(w), AlertsTyped' PROVE LedgerInv'
  <1>0. AlertsTyped /\ pc[w] = "commit" /\ HoldingShelf(w) /\ BookedFor(w)
    BY DEF LedgerInv, Commit, HoldingShelf, Booked
  <1> PICK shelf \in Shelf : shelf = work[w].shelf
    BY <1>0, Busy
  <1> PICK new \in Nat : new = work[w].new
    BY <1>0, Busy
  <1>1. /\ EndSession(w) /\ units' = [units EXCEPT ![shelf] = new]
        /\ moves' = [n \in DOMAIN moves |->
              IF moves[n].by = w THEN [moves[n] EXCEPT !.by = NoWork] ELSE moves[n]]
    BY DEF Commit
  <1>2. PICK p \in DOMAIN moves :
          /\ Own(w) = {p} /\ moves[p].shelf = shelf /\ moves[p].quantity = new - units[shelf]
          /\ moves[p].quantity < 0 =>
                \A m \in DOMAIN moves : moves[m].by = NoWork /\ moves[m].shelf = shelf => m < p
    BY <1>0 DEF BookedFor
  <1>3. moves[p].by = w /\ \A n \in DOMAIN moves : moves[n].by = w => n = p
    BY <1>2 DEF Own
  <1>4. w # NoWork
    BY NothingAssumption
  <1>5. ASSUME NEW n \in DOMAIN moves
        PROVE  /\ moves'[n].shelf = moves[n].shelf /\ moves'[n].quantity = moves[n].quantity
               /\ moves'[n].by = IF n = p THEN NoWork ELSE moves[n].by
    <2>1. moves[n] \in Movement
      BY <1>0, MovementFields
    <2> QED
      BY <1>1, <1>3, <2>1 DEF Movement
  <1>6. DOMAIN moves' = DOMAIN moves
    BY <1>1
  <1>7. ASSUME NEW s \in Shelf
        PROVE  Movements({s})' = IF s = shelf THEN Movements({s}) \cup {p} ELSE Movements({s})
    BY <1>2, <1>3, <1>4, <1>5, <1>6 DEF Movements
  <1>8. Explained'
    <2>1. moves[p].by # NoWork /\ units' = [units EXCEPT ![shelf] = new]
      BY <1>1, <1>3, <1>4
    <2>2. \A n \in DOMAIN moves : moves'[n].quantity = moves[n].quantity
      BY <1>5
    <2> QED
      BY <1>2, <1>6, <1>7, <2>1, <2>2, CommitExplained
  <1>9. /\ Apart' /\ pc'[w] = "idle" /\ ~HoldingShelf(w)'
        /\ \A v \in Worker \ {w} :
              pc'[v] = pc[v] /\ work'[v] = work[v] /\ (HoldingShelf(v)' <=> HoldingShelf(v))
    BY <1>1, EndSessionApart
  <1>10. \A v \in Worker : Own(v)' = IF v = w THEN {} ELSE Own(v)
    BY <1>3, <1>4, <1>5, <1>6, NothingAssumption DEF Own
  <1>11. BookedFor(w)'
    BY <1>9, <1>10 DEF BookedFor
  <1>12. ASSUME NEW v \in Worker \ {w} PROVE BookedFor(v)'
    <2>1. BookedFor(v) /\ (HoldingShelf(v) => work[v].shelf # shelf)
      BY <1>0 DEF LedgerInv, Booked, Apart
    <2>2. HoldingShelf(v) => work[v].shelf \in Shelf
      BY <1>0, Busy DEF HoldingShelf
    <2>3. HoldingShelf(v) => units'[work[v].shelf] = units[work[v].shelf]
      BY <1>0, <1>1, <2>1, <2>2 DEF AlertsTyped
    <2>4. HoldingShelf(v) => \A m \in DOMAIN moves :
             moves'[m].by = NoWork /\ moves'[m].shelf = work[v].shelf => moves[m].by = NoWork
      BY <1>2, <1>5, <2>1
    <2> QED
      BY <1>5, <1>6, <1>9, <1>10, <2>1, <2>3, <2>4 DEF BookedFor
  <1> QED
    BY <1>8, <1>9, <1>11, <1>12 DEF LedgerInv, Booked

(* The movement at p is rolled back and those after it move up: what they  *)
(* add up to, up to any place, stays what it was.                          *)
LEMMA FailExplained ==
    ASSUME LedgerInv, NEW p \in DOMAIN moves, moves[p].by # NoWork, units' = units,
           DOMAIN moves' = 1..(Len(moves) - 1),
           \A n \in 1..(Len(moves) - 1) : moves'[n] = IF n < p THEN moves[n] ELSE moves[n + 1]
    PROVE  Explained'
  <1>0. AlertsTyped /\ DOMAIN moves = 1..Len(moves) /\ Len(moves) \in Nat /\ p \in 1..Len(moves)
    BY Numbered DEF LedgerInv
  <1> DEFINE was == [n \in 1..(Len(moves) - 1) |-> IF n < p THEN n ELSE n + 1]
             before(k) == IF k < p THEN k ELSE k + 1
  <1>1. \A n \in 1..(Len(moves) - 1) :
           /\ was[n] \in 1..Len(moves) /\ was[n] # p /\ moves'[n] = moves[was[n]]
           /\ \A k \in Nat : n <= k <=> was[n] <= before(k)
    BY <1>0
  <1>2. /\ \A m, n \in 1..(Len(moves) - 1) : was[m] = was[n] => m = n
        /\ \A n \in 1..Len(moves) : n # p => \E m \in 1..(Len(moves) - 1) : was[m] = n
    <2>1. ASSUME NEW n \in 1..Len(moves), n # p PROVE \E m \in 1..(Len(moves) - 1) : was[m] = n
      <3>1. CASE n < p
        <4>1. n \in 1..(Len(moves) - 1) /\ was[n] = n
          BY <1>0, <3>1
        <4> QED
          BY <4>1
      <3>2. CASE n > p
        <4>1. n - 1 \in 1..(Len(moves) - 1) /\ was[n - 1] = n
          BY <1>0, <3>2
        <4> QED
          BY <4>1
      <3> QED
        BY <1>0, <2>1, <3>1, <3>2
    <2> QED
      BY <1>0, <2>1
  <1> SUFFICES ASSUME NEW s \in Shelf PROVE ExplainedFor(s)'
    BY DEF Explained
  <1> HIDE DEF was
  <1>3. \A n \in 1..(Len(moves) - 1) : n \in Movements({s})' <=> was[n] \in Movements({s})
    BY <1>0, <1>1 DEF Movements
  <1>4. Movements({s})' \in SUBSET (1..(Len(moves) - 1)) /\ p \notin Movements({s})
    BY DEF Movements
  <1>5. Movements({s}) \in SUBSET (1..Len(moves))
    BY <1>0, MovementsIn
  <1>6. ASSUME NEW T \in SUBSET Movements({s})', NEW S \in SUBSET Movements({s}),
               \A n \in Movements({s})' : n \in T <=> was[n] \in S
        PROVE  SumFunctionOnSet(Amounts', T) = SumOver(S)
    <2>1. S \in SUBSET DOMAIN moves
      BY <1>0, <1>5, <1>6
    <2>2. IntegersOn(Amounts, S) /\ SumOver(S) = SumFunctionOnSet(Amounts, S)
      BY <1>0, <2>1, AmountsInteger
    <2>3. \A n \in T : was[n] \in S /\ n \in 1..(Len(moves) - 1) /\ Amounts'[n] = Amounts[was[n]]
      BY <1>0, <1>1, <1>4, <1>6 DEF Amounts
    <2>4. IntegersOn(Amounts', T)
      <3>1. IsFiniteSet(1..(Len(moves) - 1))
        BY <1>0, FS_Interval
      <3>2. IsFiniteSet(T)
        BY <1>4, <3>1, FS_Subset
      <3>3. \A n \in T : Amounts'[n] \in Int
        BY <2>2, <2>3 DEF IntegersOn
      <3> QED
        BY <3>2, <3>3 DEF IntegersOn
    <2>5. \A x, y \in T : was[x] = was[y] => x = y
      BY <1>2, <2>3
    <2>6. \A n \in S : \E x \in T : was[x] = n
      <3> SUFFICES ASSUME NEW n \in S PROVE \E x \in T : was[x] = n
        OBVIOUS
      <3>1. PICK m \in 1..(Len(moves) - 1) : was[m] = n
        BY <1>2, <1>4, <1>5
      <3> QED
        BY <1>3, <1>6, <3>1
    <2> DEFINE g == Amounts'
    <2>7. IntegersOn(g, T) /\ \A x \in T : was[x] \in S /\ g[x] = Amounts[was[x]]
      BY <2>3, <2>4
    <2> HIDE DEF g
    <2>8. SumFunctionOnSet(g, T) = SumFunctionOnSet(Amounts, S)
      BY <2>2, <2>5, <2>6, <2>7, SumRenamed
    <2> QED
      BY <2>2, <2>8 DEF g
  <1>7. \A T : SumOver(T)' = SumFunctionOnSet(Amounts', T)
    BY DEF SumOver, Amounts
  <1>8. ExplainedFor(s)
    BY DEF LedgerInv, Explained
  <1>9. SumOver(Movements({s}))' = units'[s]
    <2>1. SumFunctionOnSet(Amounts', Movements({s})') = SumOver(Movements({s}))
      BY <1>3, <1>4, <1>6
    <2> QED
      BY <1>8, <2>1 DEF ExplainedFor, SumOver, Amounts
  <1>10. ASSUME NEW k \in Nat PROVE SumOver(Movements({s}) \cap (1..k))' >= 0
    <2> DEFINE T == Movements({s})' \cap (1..k)
               S == Movements({s}) \cap (1..before(k))
    <2>1. \A n \in Movements({s})' : n \in T <=> was[n] \in S
      <3> SUFFICES ASSUME NEW n \in Movements({s})' PROVE n \in T <=> was[n] \in S
        OBVIOUS
      <3>1. n \in 1..(Len(moves) - 1) /\ was[n] \in Movements({s}) /\ was[n] \in 1..Len(moves)
        BY <1>1, <1>3, <1>4
      <3>2. (n <= k <=> was[n] <= before(k)) /\ before(k) \in Nat
        BY <1>0, <1>1, <3>1
      <3> QED
        BY <1>0, <3>1, <3>2
    <2>2. SumFunctionOnSet(Amounts', T) = SumOver(S)
      <3>1. T \in SUBSET Movements({s})' /\ S \in SUBSET Movements({s})
        OBVIOUS
      <3> HIDE DEF T, S
      <3> QED
        BY <1>6, <2>1, <3>1
    <2>3. before(k) \in Nat
      BY <1>0
    <2>4. SumOver(S) >= 0
      BY <1>8, <2>3 DEF ExplainedFor
    <2>5. SumFunctionOnSet(Amounts', T) >= 0
      BY <2>2, <2>4
    <2> QED
      BY <2>5 DEF SumOver, Amounts
  <1> QED
    BY <1>9, <1>10 DEF ExplainedFor

(* The other sessions have their movements, wherever these are now. *)
LEMMA OthersMoveUp ==
    ASSUME AlertsTyped, NEW p \in DOMAIN moves, NEW v \in Worker, BookedFor(v), moves[p].by # v,
           DOMAIN moves' = 1..(Len(moves) - 1),
           \A n \in 1..(Len(moves) - 1) : moves'[n] = IF n < p THEN moves[n] ELSE moves[n + 1],
           units' = units, pc'[v] = pc[v], work'[v] = work[v]
    PROVE  BookedFor(v)'
  <1>0. DOMAIN moves = 1..Len(moves) /\ Len(moves) \in Nat /\ p \in 1..Len(moves)
    BY Numbered
  <1>1. HoldingShelf(v)' <=> HoldingShelf(v)
    BY DEF HoldingShelf
  <1>2. ASSUME Own(v) = {} PROVE Own(v)' = {}
    <2>1. \A n \in DOMAIN moves' : \E m \in DOMAIN moves : moves'[n] = moves[m]
      BY <1>0
    <2> QED
      BY <1>2, <2>1 DEF Own
  <1>3. ASSUME NEW n \in DOMAIN moves, Own(v) = {n}
        PROVE  \E k \in DOMAIN moves' :
                  /\ Own(v)' = {k} /\ moves'[k] = moves[n]
                  /\ \A x : (\A m \in DOMAIN moves :
                                moves[m].by = NoWork /\ moves[m].shelf = x => m < n)
                         => \A m \in DOMAIN moves' :
                                moves'[m].by = NoWork /\ moves'[m].shelf = x => m < k
    <2>1. n # p /\ n \in 1..Len(moves) /\ moves[n].by = v /\ \A m \in DOMAIN moves : moves[m].by = v => m = n
      BY <1>0, <1>3 DEF Own
    <2> DEFINE k == IF n < p THEN n ELSE n - 1
    <2>2. k \in 1..(Len(moves) - 1) /\ moves'[k] = moves[n]
      BY <1>0, <2>1
    <2>3. ASSUME NEW m \in DOMAIN moves', moves'[m].by = v PROVE m = k
      <3>1. m \in 1..(Len(moves) - 1) /\ moves'[m] = moves[IF m < p THEN m ELSE m + 1]
            /\ (IF m < p THEN m ELSE m + 1) \in DOMAIN moves
        BY <1>0
      <3>2. (IF m < p THEN m ELSE m + 1) = n
        BY <2>1, <2>3, <3>1
      <3> QED
        BY <1>0, <2>1, <3>1, <3>2
    <2>4. Own(v)' = {k}
      BY <1>0, <2>1, <2>2, <2>3 DEF Own
    <2>5. ASSUME NEW x, \A m \in DOMAIN moves : moves[m].by = NoWork /\ moves[m].shelf = x => m < n,
                 NEW m \in DOMAIN moves', moves'[m].by = NoWork /\ moves'[m].shelf = x
          PROVE  m < k
      <3>1. m \in 1..(Len(moves) - 1) /\ moves'[m] = moves[IF m < p THEN m ELSE m + 1]
            /\ (IF m < p THEN m ELSE m + 1) \in DOMAIN moves
        BY <1>0
      <3>2. (IF m < p THEN m ELSE m + 1) < n
        BY <2>5, <3>1
      <3> QED
        BY <1>0, <2>1, <3>1, <3>2
    <2> HIDE DEF k
    <2> QED
      BY <2>2, <2>4, <2>5
  <1>4. CASE pc[v] = "idle" \/ (pc[v] = "lock" /\ work[v].op # "receive")
    BY <1>1, <1>2, <1>4 DEF BookedFor, HoldingShelf
  <1>5. CASE pc[v] = "lock" /\ work[v].op = "receive"
    <2>1. PICK n \in DOMAIN moves :
            Own(v) = {n} /\ moves[n].shelf = work[v].shelf /\ moves[n].quantity = work[v].n
      BY <1>5 DEF BookedFor
    <2>2. \E k \in DOMAIN moves' : Own(v)' = {k} /\ moves'[k] = moves[n]
      BY <1>3, <2>1
    <2> QED
      BY <1>5, <2>1, <2>2 DEF BookedFor, HoldingShelf
  <1>6. CASE HoldingShelf(v)
    <2>1. PICK n \in DOMAIN moves :
            /\ Own(v) = {n} /\ moves[n].shelf = work[v].shelf
            /\ moves[n].quantity = work[v].new - units[work[v].shelf]
            /\ moves[n].quantity < 0 =>
                  \A m \in DOMAIN moves :
                    moves[m].by = NoWork /\ moves[m].shelf = work[v].shelf => m < n
      BY <1>6 DEF BookedFor
    <2> PICK x \in {work[v].shelf} : TRUE
      OBVIOUS
    <2>2. \E k \in DOMAIN moves' :
            /\ Own(v)' = {k} /\ moves'[k] = moves[n]
            /\ (\A m \in DOMAIN moves : moves[m].by = NoWork /\ moves[m].shelf = x => m < n)
                  => \A m \in DOMAIN moves' : moves'[m].by = NoWork /\ moves'[m].shelf = x => m < k
      BY <1>3, <2>1
    <2>3. pc'[v] # "idle" /\ pc'[v] # "lock"
      BY <1>6 DEF HoldingShelf
    <2> QED
      BY <2>1, <2>2, <2>3 DEF BookedFor
  <1> QED
    BY <1>4, <1>5, <1>6 DEF HoldingShelf

LEMMA FailLedger == ASSUME LedgerInv, NEW w \in Worker, FailSession(w), AlertsTyped' PROVE LedgerInv'
  <1>1. /\ EndSession(w) /\ moves' = Without(moves, Own(w)) /\ units' = units
        /\ AlertsTyped /\ \A v \in Worker : BookedFor(v)
    BY DEF FailSession, Own, LedgerInv, Booked
  <1>2. /\ Apart' /\ pc'[w] = "idle" /\ ~HoldingShelf(w)'
        /\ \A v \in Worker \ {w} :
              pc'[v] = pc[v] /\ work'[v] = work[v] /\ (HoldingShelf(v)' <=> HoldingShelf(v))
    BY <1>1, EndSessionApart
  <1>3. pc[w] # "idle" /\ (Own(w) = {} \/ \E p \in DOMAIN moves : Own(w) = {p})
    <2>1. pc[w] # "idle" /\ BookedFor(w)
      BY <1>1 DEF FailSession
    <2> QED
      BY <2>1 DEF BookedFor, HoldingShelf
  <1>4. CASE Own(w) = {}
    <2>1. moves' = moves
      BY <1>1, <1>4 DEF Without
    <2>2. /\ \A shelves : Movements(shelves)' = Movements(shelves)
          /\ \A v \in Worker : Own(v)' = Own(v)
      BY <2>1 DEF Movements, Own
    <2>3. Explained'
      BY <1>1, <2>1, <2>2, ExplainedStays DEF LedgerInv
    <2>4. \A v \in Worker \ {w} : BookedFor(v)'
      BY <1>1, <1>2, <2>1, <2>2, OthersBooked
    <2>5. BookedFor(w)'
      BY <1>2, <1>4, <2>2 DEF BookedFor
    <2> QED
      BY <1>2, <2>3, <2>4, <2>5 DEF LedgerInv, Booked
  <1>5. ASSUME NEW p \in DOMAIN moves, Own(w) = {p} PROVE LedgerInv'
    <2>1. moves[p].by = w /\ \A n \in DOMAIN moves : moves[n].by = w => n = p
      BY <1>5 DEF Own
    <2>2. /\ DOMAIN moves' = 1..(Len(moves) - 1)
          /\ \A n \in 1..(Len(moves) - 1) : moves'[n] = IF n < p THEN moves[n] ELSE moves[n + 1]
      <3>1. moves \in Seq(Movement) /\ {p} \in SUBSET DOMAIN moves /\ {p} # {}
        BY <1>1 DEF AlertsTyped
      <3> DEFINE rest == Without(moves, {p})
      <3>2. \E q \in {p} :
              /\ DOMAIN rest = 1..(Len(moves) - 1)
              /\ \A n \in 1..(Len(moves) - 1) : rest[n] = IF n < q THEN moves[n] ELSE moves[n + 1]
        BY <3>1, WithoutIs
      <3>3. moves' = rest
        BY <1>1, <1>5
      <3> HIDE DEF rest
      <3> QED
        BY <3>2, <3>3
    <2>3. Explained'
      BY <1>1, <2>1, <2>2, FailExplained, NothingAssumption
    <2>4. ASSUME NEW v \in Worker \ {w} PROVE BookedFor(v)'
      <3>1. moves[p].by # v /\ BookedFor(v) /\ pc'[v] = pc[v] /\ work'[v] = work[v]
        BY <1>1, <1>2, <2>1
      <3> QED
        BY <1>1, <2>2, <3>1, OthersMoveUp
    <2>5. BookedFor(w)'
      <3>1. \A n \in DOMAIN moves' : moves'[n].by # w
        <4> SUFFICES ASSUME NEW n \in DOMAIN moves' PROVE moves'[n].by # w
          OBVIOUS
        <4>1. DOMAIN moves = 1..Len(moves) /\ Len(moves) \in Nat
          BY <1>1, Numbered
        <4> QED
          BY <2>1, <2>2, <4>1
      <3>2. Own(w)' = {}
        BY <3>1 DEF Own
      <3> QED
        BY <1>2, <3>2 DEF BookedFor
    <2> QED
      BY <1>2, <2>3, <2>4, <2>5 DEF LedgerInv, Booked
  <1> QED
    BY <1>3, <1>4, <1>5

LEMMA EvaluateLedger == ASSUME LedgerInv, NEW w \in Worker, Evaluate(w), AlertsTyped' PROVE LedgerInv'
  <1>1. AlertsTyped /\ pc[w] \notin {"idle", "lock"} /\ UNCHANGED shelfVars
    BY DEF LedgerInv, Evaluate, Judge, Measure, ReadAlerts, InsertAlert, UpdateAlert, Resolve, Write
  <1>2. work[w] \in StockOperation
    BY <1>1, Busy
  <1>3. /\ pc'[w] \notin {"idle", "lock"}
        /\ \A v \in Worker \ {w} : pc'[v] = pc[v] /\ work'[v] = work[v]
        /\ work'[w].op = work[w].op /\ work'[w].shelf = work[w].shelf
        /\ work'[w].n = work[w].n /\ work'[w].new = work[w].new
    <2>1. CASE Judge(w) \/ Measure(w) \/ ReadAlerts(w)
      <3>1. /\ \E stage \in {"measure", "read", "write", "commit"} : pc' = [pc EXCEPT ![w] = stage]
            /\ \/ \E kind : work' = [work EXCEPT ![w].kind = kind]
               \/ \E level : work' = [work EXCEPT ![w].level = level]
               \/ \E found : work' = [work EXCEPT ![w].found = found]
        BY <2>1 DEF Judge, Measure, ReadAlerts
      <3>2. /\ pc'[w] \notin {"idle", "lock"}
            /\ \A v \in Worker \ {w} : pc'[v] = pc[v] /\ work'[v] = work[v]
        BY <1>1, <3>1 DEF AlertsTyped
      <3>3. \/ \E kind : work'[w] = [work[w] EXCEPT !.kind = kind]
            \/ \E level : work'[w] = [work[w] EXCEPT !.level = level]
            \/ \E found : work'[w] = [work[w] EXCEPT !.found = found]
        <4>0. w \in DOMAIN work
          BY <1>1 DEF AlertsTyped
        <4>1. ASSUME NEW kind, work' = [work EXCEPT ![w].kind = kind]
              PROVE  work'[w] = [work[w] EXCEPT !.kind = kind]
          BY <4>0, <4>1
        <4>2. ASSUME NEW level, work' = [work EXCEPT ![w].level = level]
              PROVE  work'[w] = [work[w] EXCEPT !.level = level]
          BY <4>0, <4>2
        <4>3. ASSUME NEW found, work' = [work EXCEPT ![w].found = found]
              PROVE  work'[w] = [work[w] EXCEPT !.found = found]
          BY <4>0, <4>3
        <4> QED
          BY <3>1, <4>1, <4>2, <4>3
      <3> QED
        BY <1>2, <3>2, <3>3 DEF StockOperation
    <2>2. CASE InsertAlert(w) \/ UpdateAlert(w)
      BY <1>1, <2>2 DEF InsertAlert, UpdateAlert, AlertsTyped
    <2>3. CASE Resolve(w)
      BY <1>1, <1>2, <2>3 DEF Resolve, AlertsTyped, StockOperation
    <2> QED
      BY <2>1, <2>2, <2>3 DEF Evaluate
  <1> QED
    BY <1>1, <1>3, QuietLedger

(* Every step keeps the ledger. *)
LEMMA AlertsNextLedger == LedgerInv /\ [AlertsNext]_alertsVars => LedgerInv'
  <1> SUFFICES ASSUME LedgerInv, [AlertsNext]_alertsVars PROVE LedgerInv'
    OBVIOUS
  <1>0. AlertsTyped'
    BY AlertsNextTyped DEF LedgerInv
  <1>1. ASSUME NEW w \in Worker, Begin(w) \/ Lock(w) \/ Evaluate(w) PROVE LedgerInv'
    BY <1>0, <1>1, BeginLedger, LockLedger, EvaluateLedger
  <1>2. ASSUME NEW w \in Worker, Commit(w) \/ FailSession(w) PROVE LedgerInv'
    BY <1>0, <1>2, CommitLedger, FailLedger
  <1>3. ASSUME UNCHANGED <<shelfVars, pc, work>> PROVE LedgerInv'
    BY <1>0, <1>3, QuietLedger
  <1>4. ASSUME NEW p \in Article, SetLevels(p) PROVE LedgerInv'
    BY <1>3, <1>4 DEF SetLevels
  <1>5. ASSUME PostAlert \/ PatchAlert PROVE LedgerInv'
    BY <1>3, <1>5 DEF PostAlert, PatchAlert, ByHand
  <1>6. ASSUME NEW a \in Alert, LoadAlert(a) \/ DeleteAlert(a) PROVE LedgerInv'
    BY <1>3, <1>6 DEF LoadAlert, DeleteAlert, ByHand, session
  <1>7. CASE UNCHANGED alertsVars
    BY <1>3, <1>7 DEF alertsVars, session
  <1> QED
    BY <1>1, <1>2, <1>4, <1>5, <1>6, <1>7 DEF AlertsNext

LEMMA AlertsInitLedger == AlertsInit => LedgerInv
  <1> SUFFICES ASSUME AlertsInit PROVE LedgerInv
    OBVIOUS
  <1>1. AlertsTyped /\ moves = <<>>
    BY AlertsInitTyped DEF AlertsInit
  <1>2. DOMAIN moves = {}
    BY <1>1
  <1>3. (\A w \in Worker : pc[w] = "idle") /\ \A s \in Shelf : units[s] = 0
    BY DEF AlertsInit
  <1>4. Booked /\ Apart
    BY <1>2, <1>3 DEF Booked, BookedFor, Apart, Own, HoldingShelf
  <1>5. ASSUME NEW s \in Shelf PROVE ExplainedFor(s)
    <2>1. Movements({s}) = {} /\ \A k \in Nat : Movements({s}) \cap (1..k) = {}
      BY <1>2 DEF Movements
    <2>2. SumOver({}) = 0
      BY SumEmpty DEF SumOver
    <2>3. \A k \in Nat : SumOver(Movements({s}) \cap (1..k)) = 0
      BY <2>1, <2>2
    <2>4. SumOver(Movements({s})) = units[s]
      BY <1>3, <2>1, <2>2
    <2>5. \A k \in Nat : SumOver(Movements({s}) \cap (1..k)) >= 0
      BY <2>3
    <2> QED
      BY <2>4, <2>5 DEF ExplainedFor
  <1> QED
    BY <1>1, <1>4, <1>5 DEF LedgerInv, Explained

(* The inductive invariant of the ledger: types; a session in receive(),   *)
(* issue() or adjust() has written the one movement of its call once it    *)
(* holds the shelf; two sessions hold different shelves; and for each      *)
(* shelf committed movements explain the quantity, never below zero.       *)
THEOREM LedgerInvariant == AlertsSpec => []LedgerInv
  <1>1. AlertsInit => LedgerInv
    BY AlertsInitLedger
  <1>2. LedgerInv /\ [AlertsNext]_alertsVars => LedgerInv'
    BY AlertsNextLedger
  <1> QED
    BY <1>1, <1>2, PTL DEF AlertsSpec

-----------------------------------------------------------------------------
(* Movements of several shelves are the movements of each of them. *)
LEMMA SumOfShelves ==
    ASSUME LedgerInv, NEW upTo
    PROVE  /\ IntegersOn([s \in Shelf |-> SumOver(Movements({s}) \cap upTo)], Shelf)
           /\ SumFunctionOnSet([s \in Shelf |-> SumOver(Movements({s}) \cap upTo)], Shelf)
                = SumOver(Movements(Shelf) \cap upTo)
  <1> DEFINE S == Movements(Shelf) \cap upTo
             k == [n \in DOMAIN moves |-> moves[n].shelf]
             group == [s \in Shelf |-> Movements({s}) \cap upTo]
             h == [s \in Shelf |-> SumOver(Movements({s}) \cap upTo)]
  <1>1. AlertsTyped /\ IsFiniteSet(Shelf) /\ S \in SUBSET DOMAIN moves
    BY AlertsAssumption, MovementsIn DEF LedgerInv
  <1>2. IntegersOn(Amounts, S) /\ SumOver(S) = SumFunctionOnSet(Amounts, S)
    BY <1>1, AmountsInteger
  <1>3. \A n \in S : k[n] \in Shelf
    BY <1>1, MovementFields
  <1>4. ASSUME NEW s \in Shelf
        PROVE  /\ \A n : n \in group[s] <=> n \in S /\ k[n] = s
               /\ h[s] = SumFunctionOnSet(Amounts, group[s])
    <2>1. \A n : n \in group[s] <=> n \in S /\ k[n] = s
      BY <1>1 DEF Movements
    <2>2. group[s] \in SUBSET DOMAIN moves /\ h[s] = SumOver(group[s])
      BY MovementsIn
    <2> HIDE DEF S, k, h, group
    <2>3. h[s] = SumFunctionOnSet(Amounts, group[s])
      BY <1>1, <2>2, AmountsInteger
    <2> QED
      BY <2>1, <2>3
  <1> HIDE DEF S, k, h, group
  <1>5. IntegersOn(h, Shelf) /\ SumFunctionOnSet(h, Shelf) = SumFunctionOnSet(Amounts, S)
    BY <1>1, <1>2, <1>3, <1>4, SumOfGroups
  <1> QED
    BY <1>2, <1>5 DEF h, S

(* What came in and what went out is all there is. *)
LEMMA NetIsAll ==
    ASSUME LedgerInv, NEW shelves
    PROVE  /\ Summary(shelves).net = SumOver(Movements(shelves))
           /\ Summary(shelves).total_out = -SumOver(Movements(shelves) \cap Outgoing)
  <1> DEFINE S == Movements(shelves)
             rest == S \ (S \cap Incoming)
  <1>1. AlertsTyped /\ S \in SUBSET DOMAIN moves /\ S \cap Incoming \in SUBSET DOMAIN moves
        /\ S \cap Outgoing \in SUBSET DOMAIN moves /\ rest \in SUBSET DOMAIN moves
        /\ rest \ (S \cap Outgoing) \in SUBSET DOMAIN moves
    BY MovementsIn DEF LedgerInv
  <1>2. S \cap Outgoing \in SUBSET rest
    BY <1>1, MovementFields DEF Incoming, Outgoing
  <1>3. \A n \in rest \ (S \cap Outgoing) : Amounts[n] = 0
    BY <1>1, MovementFields DEF Incoming, Outgoing, Amounts
  <1> HIDE DEF S, rest
  <1>4. /\ IntegersOn(Amounts, S) /\ IntegersOn(Amounts, rest)
        /\ \A T \in SUBSET DOMAIN moves :
              SumOver(T) = SumFunctionOnSet(Amounts, T) /\ SumOver(T) \in Int
    BY <1>1, AmountsInteger
  <1>5. SumOver(S) = SumOver(S \cap Incoming) + SumOver(rest)
    BY <1>1, <1>4, SumOfParts DEF rest
  <1>6. SumOver(rest) = SumOver(S \cap Outgoing) + SumOver(rest \ (S \cap Outgoing))
    BY <1>1, <1>2, <1>4, SumOfParts
  <1>7. SumOver(rest \ (S \cap Outgoing)) = 0
    <2>1. IsFiniteSet(rest \ (S \cap Outgoing))
      BY <1>1, AmountsInteger DEF IntegersOn
    <2> QED
      BY <1>1, <1>3, <1>4, <2>1, SumOfZeros
  <1>8. SumOver(S) = SumOver(S \cap Incoming) + SumOver(S \cap Outgoing)
    BY <1>1, <1>4, <1>5, <1>6, <1>7
  <1> QED
    BY <1>8 DEF Summary, S

(* What left by product is all that left. *)
LEMMA OutgoingByProduct ==
    ASSUME LedgerInv
    PROVE  SumFunction([p \in Article |-> UnitsMoved(p)]) = -SumOver(Movements(Shelf) \cap Outgoing)
  <1> DEFINE S == Movements(Shelf) \cap Outgoing
             k == [n \in DOMAIN moves |-> ProductOf[SiteOf[moves[n].shelf]]]
             group == [p \in Article |-> Movements(ShelvesOf(p)) \cap Outgoing]
             h == [p \in Article |-> SumOver(Movements(ShelvesOf(p)) \cap Outgoing)]
             g == [p \in Article |-> UnitsMoved(p)]
  <1>1. AlertsTyped /\ IsFiniteSet(Article) /\ S \in SUBSET DOMAIN moves
    BY AlertsAssumption, MovementsIn DEF LedgerInv
  <1>2. IntegersOn(Amounts, S) /\ SumOver(S) = SumFunctionOnSet(Amounts, S)
    BY <1>1, AmountsInteger
  <1>3. \A n \in S : k[n] \in Article
    BY <1>1, MovementFields, AlertsAssumption
  <1>4. ASSUME NEW p \in Article
        PROVE  /\ \A n : n \in group[p] <=> n \in S /\ k[n] = p
               /\ h[p] = SumFunctionOnSet(Amounts, group[p])
               /\ g[p] = -h[p]
    <2>1. \A n : n \in group[p] <=> n \in S /\ k[n] = p
      BY <1>1, MovementFields DEF Movements, ShelvesOf
    <2>2. group[p] \in SUBSET DOMAIN moves /\ h[p] = SumOver(group[p]) /\ g[p] = -h[p]
      BY MovementsIn DEF UnitsMoved
    <2> HIDE DEF S, k, h, g, group
    <2>3. h[p] = SumFunctionOnSet(Amounts, group[p])
      BY <1>1, <2>2, AmountsInteger
    <2> QED
      BY <2>1, <2>2, <2>3
  <1>5. SumFunction(g) = SumFunctionOnSet(g, Article)
    BY DEF SumFunction, SumFunctionOnSet, FoldFunction
  <1> HIDE DEF S, k, h, g, group
  <1>6. IntegersOn(h, Article) /\ SumFunctionOnSet(h, Article) = SumFunctionOnSet(Amounts, S)
    BY <1>1, <1>2, <1>3, <1>4, SumOfGroups
  <1>7. SumFunctionOnSet(g, Article) = -SumFunctionOnSet(h, Article)
    BY <1>4, <1>6, SumNegative
  <1> QED
    BY <1>2, <1>5, <1>6, <1>7 DEF S, g

LEMMA LedgerInvTells == LedgerInv => LedgerTells
  <1> SUFFICES ASSUME LedgerInv PROVE LedgerTells
    OBVIOUS
  <1>1. Discrepancies(Shelf) = {}
    BY DEF LedgerInv, Explained, ExplainedFor, Discrepancies, Balanced
  <1>2. AlertsTyped /\ IsFiniteSet(Shelf) /\ units \in [Shelf -> Nat]
    BY AlertsAssumption DEF LedgerInv, AlertsTyped
  <1>3. ASSUME NEW s \in Shelf
        PROVE  /\ \A n \in Movements({s}) : RunningBalance({s})[n] >= 0
               /\ Summary({s}).net = TotalUnits({s})
    <2>1. ExplainedFor(s)
      BY DEF LedgerInv, Explained
    <2>2. \A n \in Movements({s}) : n \in Nat
      BY <1>2, MovementsIn, MovementFields
    <2>3. TotalUnits({s}) = units[s]
      <3>1. IntegersOn(units, {s}) /\ {s} \ {s} = {}
        <4>1. units[s] \in Int
          BY <1>2
        <4>2. IsFiniteSet({s})
          BY FS_Singleton
        <4> QED
          BY <4>1, <4>2 DEF IntegersOn
      <3>2. TotalUnits({s}) = units[s] + SumFunctionOnSet(units, {})
        BY <3>1, SumOneMore DEF TotalUnits
      <3> QED
        BY <1>2, <3>2, SumEmpty
    <2> QED
      BY <2>1, <2>2, <2>3, NetIsAll DEF ExplainedFor, RunningBalance
  <1>4. \A n \in Movements(Shelf) : RunningBalance(Shelf)[n] >= 0
    <2> SUFFICES ASSUME NEW n \in Movements(Shelf)
                 PROVE  SumOver(Movements(Shelf) \cap (1..n)) >= 0
      BY DEF RunningBalance
    <2>1. n \in Nat /\ 1..n \in SUBSET Nat
      BY <1>2, MovementsIn, MovementFields
    <2> DEFINE h == [s \in Shelf |-> SumOver(Movements({s}) \cap (1..n))]
    <2>2. IntegersOn(h, Shelf) /\ SumFunctionOnSet(h, Shelf) = SumOver(Movements(Shelf) \cap (1..n))
      BY <2>1, SumOfShelves
    <2>3. \A s \in Shelf : h[s] >= 0
      BY <2>1 DEF LedgerInv, Explained, ExplainedFor
    <2> HIDE DEF h
    <2>4. \A s \in Shelf : h[s] \in Nat
      BY <2>2, <2>3 DEF IntegersOn
    <2>5. SumFunctionOnSet(h, Shelf) \in Nat
      BY <1>2, <2>4, SumNatural
    <2> QED
      BY <2>2, <2>5
  <1>5. Summary(Shelf).net = TotalUnits(Shelf)
    <2> DEFINE h == [s \in Shelf |-> SumOver(Movements({s}) \cap Nat)]
    <2>1. IntegersOn(h, Shelf) /\ SumFunctionOnSet(h, Shelf) = SumOver(Movements(Shelf) \cap Nat)
      BY SumOfShelves
    <2>2. \A shelves : Movements(shelves) \cap Nat = Movements(shelves)
      BY <1>2, MovementsIn, MovementFields
    <2>3. \A s \in Shelf : h[s] = units[s]
      BY <2>2 DEF LedgerInv, Explained, ExplainedFor
    <2> HIDE DEF h
    <2>4. SumFunctionOnSet(h, Shelf) = TotalUnits(Shelf)
      BY <2>1, <2>3, SumSame DEF TotalUnits
    <2> QED
      BY <2>1, <2>2, <2>4, NetIsAll
  <1>6. SumFunction([p \in Article |-> UnitsMoved(p)]) = Summary(Shelf).total_out
    BY NetIsAll, OutgoingByProduct
  <1> QED
    BY <1>1, <1>3, <1>4, <1>5, <1>6 DEF LedgerTells

(* LedgerTells: reconciliation, the ledger with its running balance, the   *)
(* dashboard and the top products agree, and no balance is below zero,     *)
(* although receive() writes its movement before it locks the row: what a  *)
(* lock lets an issue write comes after all that is committed by then.     *)
THEOREM LedgerTellsTheorem == AlertsSpec => []LedgerTells
  <1>1. LedgerInv => LedgerTells
    BY LedgerInvTells
  <1> QED
    BY <1>1, LedgerInvariant, PTL

-----------------------------------------------------------------------------
LEMMA NotNegative ==
    ASSUME NEW x \in Int PROVE Max({0, x}) = IF x >= 0 THEN x ELSE 0
  BY DEF Max

LEMMA OnHandNatural == ASSUME AlertsTyped, NEW p \in Article PROVE OnHand(p) \in Nat
  <1>1. IsFiniteSet(ShelvesOf(p)) /\ \A s \in ShelvesOf(p) : units[s] \in Nat
    BY AlertsAssumption, FS_Subset DEF ShelvesOf, AlertsTyped
  <1> QED
    BY <1>1, SumNatural DEF OnHand, TotalUnits

LEMMA TypedReorder == AlertsTyped => ReorderEndsShortage
  <1> SUFFICES ASSUME AlertsTyped, NEW p \in Article
               PROVE  LET l == levels[p] IN
                      /\ p \in DOMAIN Recommended => OnHand(p) <= l.reorder
                      /\ OnHand(p) <= l.reorder /\ l.reorder > 0 => p \in DOMAIN Recommended
                      /\ p \in DOMAIN Recommended /\ (l.maximum > 0 => l.maximum > l.reorder) =>
                            StatusOf(l, OnHand(p) + Recommended[p]) = "NORMAL"
    BY DEF ReorderEndsShortage
  <1> PICK l : l = levels[p]
    OBVIOUS
  <1> PICK q : q = OnHand(p)
    OBVIOUS
  <1>1. l.reorder \in Nat /\ l.maximum \in Nat /\ q \in Nat
    BY OnHandNatural DEF AlertsTyped
  <1>2. p \in DOMAIN Recommended <=>
          (StatusOf(l, q) \in {"OUT_OF_STOCK", "LOW_STOCK"} /\ l.reorder > 0)
    BY DEF Recommended, WithStatus
  <1>3. StatusOf(l, q) \in {"OUT_OF_STOCK", "LOW_STOCK"} <=>
          (q <= 0 \/ (l.reorder > 0 /\ q <= l.reorder))
    BY <1>1 DEF StatusOf
  <1>4. ASSUME p \in DOMAIN Recommended, l.maximum > 0 => l.maximum > l.reorder
        PROVE  StatusOf(l, q + Recommended[p]) = "NORMAL"
    <2>1. l.reorder > 0 /\ q <= l.reorder
      BY <1>1, <1>2, <1>3, <1>4
    <2>2. UpTo(l) \in Nat /\ UpTo(l) > l.reorder /\ (l.maximum > 0 => UpTo(l) = l.maximum)
      BY <1>1, <1>4, <2>1 DEF UpTo
    <2>3. Recommended[p] = Max({0, UpTo(l) - q})
      BY <1>4 DEF Recommended
    <2>4. Recommended[p] = UpTo(l) - q
      BY <1>1, <2>1, <2>2, <2>3, NotNegative
    <2>5. q + Recommended[p] = UpTo(l)
      BY <1>1, <2>2, <2>4
    <2> QED
      BY <1>1, <2>1, <2>2, <2>5 DEF StatusOf
  <1> QED
    BY <1>1, <1>2, <1>3, <1>4

(* ReorderEndsShortage: get_reorder_recommendations recommends something   *)
(* for every product that is short and has a reorder level, and as much as *)
(* ends the shortage without overstocking.                                 *)
THEOREM ReorderEndsShortageTheorem == AlertsSpec => []ReorderEndsShortage
  <1>1. LedgerInv => ReorderEndsShortage
    BY TypedReorder DEF LedgerInv
  <1> QED
    BY <1>1, LedgerInvariant, PTL

-----------------------------------------------------------------------------
(* The alerts.  One that a session has written stays at its place until    *)
(* the session ends, wherever that is.                                     *)
InPlace ==
    \A w \in Worker : \A a \in Changed(w) :
        alerts[a] # NoAlert => alerts[a].site = wrote[w][a].site
SitesInv == AlertsTyped /\ InPlace

(* What the alerts of a site shall tell. *)
Telling(active, row, l, q) ==
    IF StatusOf(l, q) = "NORMAL" THEN active = {}
    ELSE /\ active # {} /\ row.kind = StatusOf(l, q) /\ row.level = q
         /\ row.threshold = Threshold(l, StatusOf(l, q))
View(w) == ActiveIn(Table(w), Here(w))

(* What a session that nobody disturbed knows, stage by stage. *)
SessionTells(w) ==
    LET l == levels[ProductOf[Here(w)]]
        q == Seen(w, FirstShelf[Here(w)])
    IN  /\ work[w].levels = l
        /\ pc[w] \in AfterJudging => work[w].kind = StatusOf(l, q)
        /\ pc[w] \in {"read", "write", "commit"} => work[w].level = q
        /\ pc[w] = "write" /\ work[w].kind = "NORMAL" => work[w].found = View(w)
        /\ pc[w] = "write" /\ work[w].kind # "NORMAL" =>
              /\ Changed(w) = {}
              /\ work[w].found = IF View(w) = {} THEN {} ELSE {Newest(View(w))}
        /\ pc[w] = "commit" => Telling(View(w), Table(w)[Newest(View(w))], l, q)
Undisturbed == \A w \in Worker : pc[w] # "idle" /\ w \notin disturbed => SessionTells(w)

(* The alerts of a site tell its status. *)
SiteTells(s) ==
    Telling(ActiveIn(alerts, s), alerts[Newest(ActiveIn(alerts, s))],
            levels[ProductOf[s]], units[FirstShelf[s]])

AlertsInv == SitesInv /\ Undisturbed /\ \A s \in Site \ unsure : SiteTells(s)

-----------------------------------------------------------------------------
(* The last element of a list that is in a set. *)
LEMMA LastIs ==
    ASSUME NEW list \in Seq(Alert), NEW S, NEW k \in DOMAIN list, list[k] \in S
    PROVE  \E n \in DOMAIN list :
              /\ list[n] \in S /\ Max({m \in DOMAIN list : list[m] \in S}) = n
              /\ \A m \in DOMAIN list : list[m] \in S => m <= n
  <1> DEFINE places == {n \in DOMAIN list : list[n] \in S}
  <1>1. places \in SUBSET Nat /\ places # {} /\ Len(list) \in Nat
        /\ \A n \in places : n <= Len(list)
    OBVIOUS
  <1>2. \E m \in places : \A x \in places : x <= m
    <2> HIDE DEF places
    <2> QED
      BY <1>1, LargestNatural
  <1>3. Max(places) \in places /\ \A x \in places : Max(places) >= x
    <2>1. \E m \in places : \A x \in places : m >= x
      BY <1>1, <1>2
    <2> HIDE DEF places
    <2> QED
      BY <2>1 DEF Max
  <1>5. Max(places) \in DOMAIN list /\ list[Max(places)] \in S
    BY <1>3
  <1>6. \A m \in DOMAIN list : list[m] \in S => m <= Max(places)
    BY <1>1, <1>3
  <1> QED
    BY <1>5, <1>6

(* It is the only one. *)
LEMMA LastOnly ==
    ASSUME NEW list \in Seq(Alert), NEW S, NEW n \in DOMAIN list, list[n] \in S,
           \A m \in DOMAIN list : list[m] \in S => m <= n
    PROVE  Max({m \in DOMAIN list : list[m] \in S}) = n
  <1>1. PICK k \in DOMAIN list :
           /\ list[k] \in S /\ Max({m \in DOMAIN list : list[m] \in S}) = k
           /\ \A m \in DOMAIN list : list[m] \in S => m <= k
    BY LastIs
  <1>2. k <= n /\ n <= k /\ k \in Nat /\ n \in Nat
    BY <1>1
  <1> QED
    BY <1>1, <1>2

(* The newest of some alerts stays the newest when another one is created, *)
LEMMA NewestAppended ==
    ASSUME order \in Seq(Alert), NEW b \in Alert, order' = Append(order, b),
           NEW S, b \notin S, NEW a \in S, Listed(a)
    PROVE  Newest(S)' = Newest(S)
  <1>1. PICK n \in DOMAIN order :
           /\ order[n] \in S /\ Newest(S) = order[n]
           /\ \A m \in DOMAIN order : order[m] \in S => m <= n
    BY NewestIs
  <1>2. /\ order' \in Seq(Alert) /\ DOMAIN order' = 1..(Len(order) + 1)
        /\ DOMAIN order = 1..Len(order) /\ Len(order) \in Nat
        /\ order'[Len(order) + 1] = b
        /\ \A m \in DOMAIN order : order'[m] = order[m]
    OBVIOUS
  <1>3. 1..(Len(order) + 1) = (1..Len(order)) \cup {Len(order) + 1}
    BY <1>2
  <1>4. n \in DOMAIN order' /\ order'[n] = order[n]
    BY <1>2, <1>3
  <1>5. \A m \in DOMAIN order' : order'[m] \in S => m <= n
    BY <1>1, <1>2, <1>3
  <1>6. Max({m \in DOMAIN order' : order'[m] \in S}) = n
    BY <1>1, <1>2, <1>4, <1>5, LastOnly
  <1> QED
    BY <1>1, <1>4, <1>6 DEF Newest

(* which is itself the newest of all; *)
LEMMA NewestLast ==
    ASSUME order \in Seq(Alert), NEW b \in Alert, order' = Append(order, b), NEW S, b \in S
    PROVE  Newest(S)' = b
  <1>2. /\ order' \in Seq(Alert) /\ DOMAIN order' = 1..(Len(order) + 1)
        /\ Len(order) \in Nat /\ order'[Len(order) + 1] = b
    OBVIOUS
  <1>3. Len(order) + 1 \in DOMAIN order' /\ \A m \in DOMAIN order' : m <= Len(order) + 1
    BY <1>2
  <1> PICK n : n = Len(order) + 1
    OBVIOUS
  <1>4. Max({m \in DOMAIN order' : order'[m] \in S}) = n
    <2>1. order' \in Seq(Alert) /\ n \in DOMAIN order' /\ order'[n] \in S
          /\ \A m \in DOMAIN order' : order'[m] \in S => m <= n
      BY <1>2, <1>3
    <2> PICK list : list = order'
      OBVIOUS
    <2>2. Max({m \in DOMAIN list : list[m] \in S}) = n
      BY <2>1, LastOnly
    <2> QED
      BY <2>2
  <1> QED
    BY <1>2, <1>4 DEF Newest

(* and when another one is deleted. *)
LEMMA NewestWithout ==
    ASSUME order \in Seq(Alert), NEW places \in SUBSET DOMAIN order,
           order' = Without(order, places), NEW S, \A n \in places : order[n] \notin S,
           NEW a \in S, Listed(a)
    PROVE  Newest(S)' = Newest(S)
  <1>1. PICK n \in DOMAIN order :
           /\ order[n] \in S /\ Newest(S) = order[n]
           /\ \A m \in DOMAIN order : order[m] \in S => m <= n
    BY NewestIs
  <1>2. CASE order' = order
    BY <1>2 DEF Newest
  <1>3. CASE order' # order
    <2>1. PICK p \in places :
            /\ order' \in Seq(Alert) /\ DOMAIN order' = 1..(Len(order) - 1)
            /\ \A m \in 1..(Len(order) - 1) :
                  order'[m] = IF m < p THEN order[m] ELSE order[m + 1]
      BY <1>3, WithoutIs
    <2>2. /\ n \in 1..Len(order) /\ p \in 1..Len(order) /\ Len(order) \in Nat
          /\ DOMAIN order = 1..Len(order) /\ n # p
      BY <1>1, <2>1
    <2> DEFINE k == IF n < p THEN n ELSE n - 1
    <2>3. k \in DOMAIN order' /\ order'[k] = order[n]
      <3>1. CASE n < p
        <4>1. n \in 1..(Len(order) - 1)
          BY <2>2, <3>1
        <4> QED
          BY <2>1, <3>1, <4>1
      <3>2. CASE n > p
        <4>1. n - 1 \in 1..(Len(order) - 1) /\ ~(n - 1 < p) /\ (n - 1) + 1 = n
          BY <2>2, <3>2
        <4> QED
          BY <2>1, <2>2, <3>2, <4>1
      <3> QED
        BY <2>2, <3>1, <3>2
    <2>4. ASSUME NEW m \in DOMAIN order', order'[m] \in S PROVE m <= k
      <3>1. m \in 1..(Len(order) - 1) /\ order'[m] = IF m < p THEN order[m] ELSE order[m + 1]
        BY <2>1
      <3>2. CASE m < p
        <4>1. m \in DOMAIN order /\ order[m] \in S
          BY <2>2, <2>4, <3>1, <3>2
        <4>2. m <= n
          BY <1>1, <4>1
        <4> QED
          BY <2>2, <3>1, <3>2, <4>2
      <3>3. CASE ~(m < p)
        <4>1. m + 1 \in DOMAIN order /\ order[m + 1] \in S
          BY <2>2, <2>4, <3>1, <3>3
        <4>2. m + 1 <= n
          BY <1>1, <4>1
        <4> QED
          BY <2>2, <3>1, <3>3, <4>2
      <3> QED
        BY <3>2, <3>3
    <2> HIDE DEF k
    <2>5. Max({m \in DOMAIN order' : order'[m] \in S}) = k
      <3>1. order' \in Seq(Alert) /\ k \in DOMAIN order' /\ order'[k] \in S
            /\ \A m \in DOMAIN order' : order'[m] \in S => m <= k
        BY <1>1, <2>1, <2>3, <2>4
      <3> QED
        BY <3>1, LastOnly
    <2> QED
      BY <1>1, <2>3, <2>5 DEF Newest
  <1> QED
    BY <1>2, <1>3

-----------------------------------------------------------------------------
(* What the statements of a session do to it and to the others. *)
Others(w) ==
    \A v \in Worker \ {w} : pc'[v] = pc[v] /\ work'[v] = work[v] /\ wrote'[v] = wrote[v]
SameCall(w) ==
    /\ work'[w].shelf = work[w].shelf /\ work'[w].levels = work[w].levels
    /\ work'[w].new = work[w].new
OnlyReads == UNCHANGED <<units, levels, alerts, order, wrote, copy, disturbed, unsure>>

LEMMA BeginDoes ==
    ASSUME AlertsTyped, NEW w \in Worker, Begin(w)
    PROVE  /\ pc[w] = "idle" /\ pc'[w] = "lock" /\ Others(w) /\ OnlyReads
           /\ work'[w].found = {} /\ work'[w].shelf \in Shelf
           /\ work'[w].levels = levels[ProductOf[SiteOf[work'[w].shelf]]]
  <1>1. PICK op \in {"receive", "issue", "adjust"}, shelf \in Shelf, n \in Quantity \cup {0} :
          work' = [work EXCEPT ![w] =
             [op |-> op, shelf |-> shelf, n |-> n, new |-> 0, kind |-> "NORMAL", level |-> 0,
              found |-> {}, levels |-> levels[ProductOf[SiteOf[shelf]]]]]
    BY DEF Begin
  <1> DEFINE new == [op |-> op, shelf |-> shelf, n |-> n, new |-> 0, kind |-> "NORMAL", level |-> 0,
                     found |-> {}, levels |-> levels[ProductOf[SiteOf[shelf]]]]
  <1>2. work' = [work EXCEPT ![w] = new] /\ new.found = {} /\ new.shelf = shelf
        /\ new.levels = levels[ProductOf[SiteOf[shelf]]]
    BY <1>1
  <1>3. pc[w] = "idle" /\ pc' = [pc EXCEPT ![w] = "lock"] /\ OnlyReads
    BY DEF Begin, OnlyReads
  <1> HIDE DEF new
  <1>4. work'[w] = new /\ pc'[w] = "lock" /\ Others(w)
    BY <1>2, <1>3 DEF AlertsTyped, Others, OnlyReads
  <1> QED
    BY <1>2, <1>3, <1>4

LEMMA LockDoes ==
    ASSUME AlertsTyped, NEW w \in Worker, Lock(w)
    PROVE  /\ pc[w] = "lock" /\ pc'[w] = "judge" /\ Others(w) /\ OnlyReads
           /\ work'[w].shelf = work[w].shelf /\ work'[w].levels = work[w].levels
           /\ work'[w].found = work[w].found
  <1>1. /\ pc[w] = "lock" /\ pc' = [pc EXCEPT ![w] = "judge"] /\ OnlyReads
        /\ \E new : work' = [work EXCEPT ![w].new = new]
    BY DEF Lock, OnlyReads
  <1>2. PICK new : work' = [work EXCEPT ![w].new = new]
    BY <1>1
  <1>3. pc'[w] = "judge" /\ Others(w) /\ work'[w] = [work[w] EXCEPT !.new = new]
        /\ work[w] \in StockOperation
    BY <1>1, <1>2, Busy DEF AlertsTyped, Others, OnlyReads
  <1> QED
    BY <1>1, <1>3 DEF StockOperation

LEMMA JudgeDoes ==
    ASSUME AlertsTyped, NEW w \in Worker, Judge(w)
    PROVE  /\ pc[w] = "judge" /\ pc'[w] = "measure" /\ Others(w) /\ OnlyReads /\ SameCall(w)
           /\ work'[w].found = work[w].found
           /\ work'[w].kind = StatusOf(work[w].levels, Seen(w, FirstShelf[Here(w)]))
  <1>1. /\ pc[w] = "judge" /\ pc' = [pc EXCEPT ![w] = "measure"] /\ OnlyReads
        /\ work' = [work EXCEPT ![w].kind = StatusOf(work[w].levels, Seen(w, FirstShelf[Here(w)]))]
    BY DEF Judge, OnlyReads, shelfVars
  <1>2. PICK kind : kind = StatusOf(work[w].levels, Seen(w, FirstShelf[Here(w)]))
    OBVIOUS
  <1>3. pc'[w] = "measure" /\ Others(w) /\ work'[w] = [work[w] EXCEPT !.kind = kind]
        /\ work[w] \in StockOperation
    BY <1>1, <1>2, Busy DEF AlertsTyped, Others, OnlyReads
  <1> QED
    BY <1>1, <1>2, <1>3 DEF StockOperation, SameCall

LEMMA MeasureDoes ==
    ASSUME AlertsTyped, NEW w \in Worker, Measure(w)
    PROVE  /\ pc[w] = "measure" /\ pc'[w] = "read" /\ Others(w) /\ OnlyReads /\ SameCall(w)
           /\ work'[w].found = work[w].found /\ work'[w].kind = work[w].kind
           /\ work'[w].level = Seen(w, FirstShelf[Here(w)])
  <1>1. /\ pc[w] = "measure" /\ pc' = [pc EXCEPT ![w] = "read"] /\ OnlyReads
        /\ work' = [work EXCEPT ![w].level = Seen(w, FirstShelf[Here(w)])]
    BY DEF Measure, OnlyReads, shelfVars
  <1>2. PICK level : level = Seen(w, FirstShelf[Here(w)])
    OBVIOUS
  <1>3. pc'[w] = "read" /\ Others(w) /\ work'[w] = [work[w] EXCEPT !.level = level]
        /\ work[w] \in StockOperation
    BY <1>1, <1>2, Busy DEF AlertsTyped, Others, OnlyReads
  <1> QED
    BY <1>1, <1>2, <1>3 DEF StockOperation, SameCall

LEMMA ReadAlertsDoes ==
    ASSUME AlertsTyped, NEW w \in Worker, ReadAlerts(w)
    PROVE  LET active == ActiveIn(alerts, Here(w)) IN
           /\ pc[w] = "read" /\ Others(w) /\ OnlyReads /\ SameCall(w)
           /\ work'[w].kind = work[w].kind /\ work'[w].level = work[w].level
           /\ work'[w].found = IF work[w].kind = "NORMAL" \/ active = {} THEN active
                               ELSE {Newest(active)}
           /\ pc'[w] = IF work[w].kind = "NORMAL" /\ active = {} THEN "commit" ELSE "write"
  <1> DEFINE active == ActiveIn(alerts, Here(w))
  <1>1. PICK found : found = IF work[w].kind = "NORMAL" \/ active = {} THEN active
                             ELSE {Newest(active)}
    OBVIOUS
  <1>2. PICK stage : stage = IF work[w].kind = "NORMAL" /\ active = {} THEN "commit" ELSE "write"
    OBVIOUS
  <1>3. /\ pc[w] = "read" /\ pc' = [pc EXCEPT ![w] = stage] /\ OnlyReads
        /\ work' = [work EXCEPT ![w].found = found]
    BY <1>1, <1>2 DEF ReadAlerts, OnlyReads, shelfVars
  <1>4. pc'[w] = stage /\ Others(w) /\ work'[w] = [work[w] EXCEPT !.found = found]
        /\ work[w] \in StockOperation
    BY <1>3, Busy DEF AlertsTyped, Others, OnlyReads
  <1>5. SameCall(w) /\ work'[w].kind = work[w].kind /\ work'[w].level = work[w].level
        /\ work'[w].found = found
    BY <1>4 DEF StockOperation, SameCall
  <1> QED
    BY <1>1, <1>2, <1>3, <1>4, <1>5

(* An alert row is written. *)
LEMMA WriteDoes ==
    ASSUME AlertsTyped, NEW w \in Worker, NEW a \in Alert, NEW row \in AlertRow, Write(w, a, row)
    PROVE  /\ UNCHANGED <<units, levels, alerts, copy, disturbed, unsure>>
           /\ wrote'[w][a] = row /\ \A b \in Alert \ {a} : wrote'[w][b] = wrote[w][b]
           /\ \A v \in Worker \ {w} : wrote'[v] = wrote[v]
           /\ Changed(w)' = Changed(w) \cup {a}
           /\ \A v \in Worker \ {w} : Changed(v)' = Changed(v)
  <1>1. /\ wrote' = [wrote EXCEPT ![w][a] = row] /\ row # NoAlert
        /\ UNCHANGED <<units, levels, alerts, copy, disturbed, unsure>>
    BY NothingAssumption DEF Write, shelfVars
  <1>2. /\ wrote'[w][a] = row /\ \A b \in Alert \ {a} : wrote'[w][b] = wrote[w][b]
        /\ \A v \in Worker \ {w} : wrote'[v] = wrote[v]
    BY <1>1 DEF AlertsTyped
  <1> QED
    BY <1>1, <1>2 DEF Changed

OtherCalls(w) == \A v \in Worker \ {w} : pc'[v] = pc[v] /\ work'[v] = work[v]

LEMMA InsertAlertDoes ==
    ASSUME AlertsTyped, NEW w \in Worker, InsertAlert(w)
    PROVE  \E a \in Unused, row \in AlertRow :
              /\ pc[w] = "write" /\ work[w].found = {} /\ work[w].kind \in Kind
              /\ Write(w, a, row) /\ order' = Append(order, a)
              /\ row.site = Here(w) /\ row.active
              /\ row.kind = work[w].kind /\ row.level = work[w].level
              /\ row.threshold = Threshold(work[w].levels, work[w].kind)
              /\ pc'[w] = "commit" /\ work' = work /\ OtherCalls(w)
  <1> DEFINE row == [site |-> Here(w), kind |-> work[w].kind, level |-> work[w].level,
                     threshold |-> Threshold(work[w].levels, work[w].kind), active |-> TRUE]
  <1>1. PICK a \in Unused : order' = Append(order, a) /\ Write(w, a, row)
    BY DEF InsertAlert
  <1>2. /\ pc[w] = "write" /\ work[w].found = {} /\ pc' = [pc EXCEPT ![w] = "commit"] /\ work' = work
    BY DEF InsertAlert
  <1>3. /\ Here(w) \in Place /\ work[w].kind \in Kind /\ work[w].level \in Int
        /\ Threshold(work[w].levels, work[w].kind) \in Int
    <2>1. Here(w) \in Site /\ work[w].kind \in Kind \cup {"NORMAL"} /\ work[w].level \in Int
          /\ work[w].levels \in [reorder: Nat, maximum: Nat]
      BY <1>2, Busy
    <2>2. work[w].kind \in Kind
      BY <1>2, <2>1 DEF AlertsTyped
    <2>3. 0 \in Nat /\ Here(w) \in Place
      BY <2>1, AlertsAssumption
    <2> QED
      BY <2>1, <2>2, <2>3, StatusOfTyped
  <1>4. row \in AlertRow
    BY <1>3 DEF AlertRow
  <1>5. pc'[w] = "commit" /\ OtherCalls(w)
    BY <1>2 DEF AlertsTyped, OtherCalls
  <1>6. /\ row.site = Here(w) /\ row.active
        /\ row.kind = work[w].kind /\ row.level = work[w].level
        /\ row.threshold = Threshold(work[w].levels, work[w].kind)
    OBVIOUS
  <1> HIDE DEF row
  <1> QED
    BY <1>1, <1>2, <1>3, <1>4, <1>5, <1>6

LEMMA UpdateAlertDoes ==
    ASSUME AlertsTyped, NEW w \in Worker, UpdateAlert(w)
    PROVE  \E a \in work[w].found, row \in AlertRow :
              /\ pc[w] = "write" /\ work[w].kind # "NORMAL" /\ a \in Alert
              /\ alerts[a] # NoAlert /\ FreeAlert(a) /\ Write(w, a, row) /\ order' = order
              /\ row.site = alerts[a].site /\ row.active = alerts[a].active
              /\ row.kind = work[w].kind /\ row.level = work[w].level
              /\ row.threshold = Threshold(work[w].levels, work[w].kind)
              /\ pc'[w] = "commit" /\ work' = work /\ OtherCalls(w)
  <1>1. PICK a \in work[w].found :
          /\ alerts[a] # NoAlert /\ FreeAlert(a)
          /\ Write(w, a, [alerts[a] EXCEPT !.kind = work[w].kind, !.level = work[w].level,
                          !.threshold = Threshold(work[w].levels, work[w].kind)])
    BY DEF UpdateAlert
  <1> DEFINE row == [alerts[a] EXCEPT !.kind = work[w].kind, !.level = work[w].level,
                     !.threshold = Threshold(work[w].levels, work[w].kind)]
  <1>2. /\ pc[w] = "write" /\ work[w].kind # "NORMAL" /\ pc' = [pc EXCEPT ![w] = "commit"]
        /\ work' = work /\ order' = order
    BY DEF UpdateAlert
  <1>3. /\ a \in Alert /\ work[w].kind \in Kind /\ work[w].level \in Int
        /\ Threshold(work[w].levels, work[w].kind) \in Int
    <2>1. a \in Alert /\ work[w].kind \in Kind /\ work[w].level \in Int
          /\ work[w].levels \in [reorder: Nat, maximum: Nat] /\ 0 \in Nat
      BY <1>2, Busy
    <2> QED
      BY <2>1, StatusOfTyped
  <1>4. alerts[a] \in AlertRow
    BY <1>1, <1>3 DEF AlertsTyped
  <1>5. /\ row \in AlertRow /\ row.site = alerts[a].site /\ row.active = alerts[a].active
        /\ row.kind = work[w].kind /\ row.level = work[w].level
        /\ row.threshold = Threshold(work[w].levels, work[w].kind)
    BY <1>3, <1>4 DEF AlertRow
  <1>6. pc'[w] = "commit" /\ OtherCalls(w)
    BY <1>2 DEF AlertsTyped, OtherCalls
  <1>7. Write(w, a, row)
    BY <1>1
  <1> HIDE DEF row
  <1> QED
    BY <1>1, <1>2, <1>3, <1>5, <1>6, <1>7

LEMMA ResolveDoes ==
    ASSUME AlertsTyped, NEW w \in Worker, Resolve(w)
    PROVE  \E a \in work[w].found, row \in AlertRow :
              /\ pc[w] = "write" /\ work[w].kind = "NORMAL" /\ a \in Alert
              /\ alerts[a] # NoAlert /\ FreeAlert(a) /\ Write(w, a, row) /\ order' = order
              /\ row.site = alerts[a].site /\ ~row.active
              /\ SameCall(w) /\ work'[w].kind = work[w].kind /\ work'[w].level = work[w].level
              /\ work'[w].found = work[w].found \ {a}
              /\ pc'[w] = IF work[w].found = {a} THEN "commit" ELSE "write"
              /\ OtherCalls(w)
  <1>1. PICK a \in work[w].found :
          /\ alerts[a] # NoAlert /\ FreeAlert(a)
          /\ Write(w, a, [alerts[a] EXCEPT !.active = FALSE, !.level = work[w].level])
          /\ work' = [work EXCEPT ![w].found = @ \ {a}]
          /\ pc' = [pc EXCEPT ![w] = IF work[w].found = {a} THEN "commit" ELSE "write"]
    BY DEF Resolve
  <1> DEFINE row == [alerts[a] EXCEPT !.active = FALSE, !.level = work[w].level]
  <1>2. pc[w] = "write" /\ work[w].kind = "NORMAL" /\ order' = order
    BY DEF Resolve
  <1>3. a \in Alert /\ work[w].level \in Int /\ work[w] \in StockOperation
    BY <1>2, Busy
  <1>4. alerts[a] \in AlertRow
    BY <1>1, <1>3 DEF AlertsTyped
  <1>5. row \in AlertRow /\ row.site = alerts[a].site /\ ~row.active
    BY <1>3, <1>4 DEF AlertRow
  <1>6. PICK found : found = work[w].found \ {a}
    OBVIOUS
  <1>7. work' = [work EXCEPT ![w].found = found]
    BY <1>1, <1>6
  <1>8. work'[w] = [work[w] EXCEPT !.found = found] /\ OtherCalls(w)
    BY <1>1, <1>7 DEF AlertsTyped, OtherCalls
  <1>9. /\ SameCall(w) /\ work'[w].kind = work[w].kind /\ work'[w].level = work[w].level
        /\ work'[w].found = work[w].found \ {a}
    BY <1>3, <1>6, <1>8 DEF StockOperation, SameCall
  <1>10. pc'[w] = IF work[w].found = {a} THEN "commit" ELSE "write"
    BY <1>1 DEF AlertsTyped
  <1>11. Write(w, a, row)
    BY <1>1
  <1> HIDE DEF row
  <1> QED
    BY <1>1, <1>2, <1>3, <1>5, <1>8, <1>9, <1>10, <1>11

-----------------------------------------------------------------------------
(* Nobody wrote an alert that can still be created. *)
LEMMA UnusedUnknown ==
    ASSUME AlertsTyped, NEW a \in Unused
    PROVE  /\ a \in Alert /\ ~Listed(a) /\ alerts[a] = NoAlert
           /\ \A w \in Worker : a \notin Changed(w)
  <1>1. a \in Alert /\ ~Contains(order, a)
    BY DEF Unused
  <1>2. ~Listed(a)
    BY <1>1 DEF Contains, Listed, AlertsTyped
  <1> QED
    BY <1>1, <1>2 DEF AlertsTyped

(* Nothing is written, *)
LEMMA QuietSites ==
    ASSUME SitesInv, UNCHANGED <<alerts, wrote>>, AlertsTyped'
    PROVE  SitesInv'
  BY DEF SitesInv, InPlace, Changed

LEMMA ReadingSites ==
    ASSUME SitesInv, NEW w \in Worker, Begin(w) \/ Lock(w) \/ Judge(w) \/ Measure(w) \/ ReadAlerts(w),
           AlertsTyped'
    PROVE  SitesInv'
  <1>1. UNCHANGED <<alerts, wrote>>
    BY DEF Begin, Lock, Judge, Measure, ReadAlerts
  <1> QED
    BY <1>1, QuietSites

(* or a session writes an alert, where it found it, *)
LEMMA WritingSites ==
    ASSUME SitesInv, NEW w \in Worker, InsertAlert(w) \/ UpdateAlert(w) \/ Resolve(w), AlertsTyped'
    PROVE  SitesInv'
  <1>0. AlertsTyped
    BY DEF SitesInv
  <1>1. PICK a \in Alert, row \in AlertRow :
          Write(w, a, row) /\ (alerts[a] # NoAlert => row.site = alerts[a].site)
    <2>1. CASE InsertAlert(w)
      <3>1. PICK a \in Unused, row \in AlertRow : Write(w, a, row)
        BY <1>0, <2>1, InsertAlertDoes
      <3> QED
        BY <1>0, <3>1, UnusedUnknown
    <2>2. CASE UpdateAlert(w)
      BY <1>0, <2>2, UpdateAlertDoes
    <2>3. CASE Resolve(w)
      BY <1>0, <2>3, ResolveDoes
    <2> QED
      BY <2>1, <2>2, <2>3
  <1>2. /\ alerts' = alerts
        /\ wrote'[w][a] = row /\ \A b \in Alert \ {a} : wrote'[w][b] = wrote[w][b]
        /\ \A v \in Worker \ {w} : wrote'[v] = wrote[v] /\ Changed(v)' = Changed(v)
        /\ Changed(w)' = Changed(w) \cup {a}
    BY <1>0, <1>1, WriteDoes
  <1>3. ASSUME NEW v \in Worker, NEW b \in Changed(v)', alerts'[b] # NoAlert
        PROVE  alerts'[b].site = wrote'[v][b].site
    <2>1. b \in Alert
      BY <1>3 DEF Changed
    <2>2. CASE v = w /\ b = a
      BY <1>1, <1>2, <1>3, <2>2
    <2>3. CASE v # w \/ b # a
      BY <1>2, <1>3, <2>1, <2>3 DEF SitesInv, InPlace
    <2> QED
      BY <2>2, <2>3
  <1> QED
    BY <1>3 DEF SitesInv, InPlace

(* or a session ends, *)
LEMMA EndingSites ==
    ASSUME SitesInv, NEW w \in Worker, Commit(w) \/ FailSession(w), AlertsTyped'
    PROVE  SitesInv'
  <1>1. EndSession(w) /\ AlertsTyped /\ (alerts' = alerts \/ alerts' = Table(w))
    BY DEF Commit, FailSession, SitesInv
  <1>2. Changed(w)' = {} /\ \A v \in Worker \ {w} : wrote'[v] = wrote[v]
    BY <1>1, EndSessionTyped
  <1>3. ASSUME NEW v \in Worker, NEW a \in Changed(v)', alerts'[a] # NoAlert
        PROVE  alerts'[a].site = wrote'[v][a].site
    <2>1. v # w /\ a \in Changed(v) /\ a \notin Changed(w) /\ a \in Alert
      BY <1>1, <1>2, <1>3 DEF Changed, AlertsTyped
    <2>2. alerts'[a] = alerts[a]
      BY <1>1, <2>1 DEF Table
    <2> QED
      BY <1>2, <1>3, <2>1, <2>2 DEF SitesInv, InPlace
  <1> QED
    BY <1>3 DEF SitesInv, InPlace

(* or a client writes an alert that no session has written. *)
LEMMA ByHandSites ==
    ASSUME SitesInv, PostAlert \/ PatchAlert \/ \E a \in Alert : DeleteAlert(a), AlertsTyped'
    PROVE  SitesInv'
  <1>0. AlertsTyped
    BY DEF SitesInv
  <1>1. PICK b \in Alert :
          /\ \A v \in Worker : b \notin Changed(v)
          /\ \E row : alerts' = [alerts EXCEPT ![b] = row]
    <2>1. CASE PostAlert
      BY <1>0, <2>1, UnusedUnknown DEF PostAlert
    <2>2. CASE PatchAlert
      <3>1. copy.alert \in Alert
        BY <1>0, <2>2 DEF PatchAlert, AlertsTyped, AlertCopy
      <3> QED
        BY <2>2, <3>1 DEF PatchAlert, FreeAlert
    <2>3. CASE \E a \in Alert : DeleteAlert(a)
      BY <2>3 DEF DeleteAlert, FreeAlert
    <2> QED
      BY <2>1, <2>2, <2>3
  <1>2. wrote' = wrote
    BY DEF PostAlert, PatchAlert, DeleteAlert, ByHand
  <1>3. \A c \in Alert \ {b} : alerts'[c] = alerts[c]
    BY <1>0, <1>1 DEF AlertsTyped
  <1>4. ASSUME NEW v \in Worker, NEW c \in Changed(v)' PROVE c \in Changed(v) /\ alerts'[c] = alerts[c]
    BY <1>1, <1>2, <1>3 DEF Changed
  <1> QED
    BY <1>2, <1>4 DEF SitesInv, InPlace

(* Alerts that neither are nor become alerts of a site. *)
Away(D, s) ==
    \A a \in D : /\ alerts[a] # NoAlert => alerts[a].site # s
                 /\ alerts'[a] # NoAlert => alerts'[a].site # s

(* All a step does to alerts is done to these. *)
Touches(D) ==
    /\ \A a \in Alert \ D : alerts'[a] = alerts[a]
    /\ \A S \in SUBSET Alert :
          S \cap D = {} /\ (\E a \in S : Listed(a)) => Newest(S)' = Newest(S)

(* A session sees what it saw. *)
LEMMA ViewStays ==
    ASSUME AlertsTyped, NEW v \in Worker, work'[v] = work[v], wrote'[v] = wrote[v],
           NEW D \in SUBSET Alert, Touches(D), Away(D, Here(v)), D \cap Changed(v) = {}
    PROVE  /\ View(v)' = View(v) /\ Changed(v)' = Changed(v)
           /\ View(v) # {} =>
                 /\ Newest(View(v))' = Newest(View(v))
                 /\ Table(v)[Newest(View(v))]' = Table(v)[Newest(View(v))]
  <1>1. Here(v)' = Here(v) /\ Changed(v)' = Changed(v)
    BY DEF Here, Changed
  <1>2. \A a \in Alert \ D : Table(v)'[a] = Table(v)[a]
    BY <1>1 DEF Table, Touches
  <1>3. ASSUME NEW a \in D PROVE a \notin View(v) /\ a \notin View(v)'
    <2>1. a \in Alert /\ a \notin Changed(v) /\ a \notin Changed(v)'
      BY <1>1
    <2>2. Table(v)[a] = alerts[a] /\ Table(v)'[a] = alerts'[a]
      BY <2>1 DEF Table
    <2> QED
      BY <1>1, <2>2 DEF View, ActiveIn, Away
  <1>4. View(v)' = View(v)
    BY <1>1, <1>2, <1>3 DEF View, ActiveIn
  <1>5. ASSUME View(v) # {}
        PROVE  /\ Newest(View(v))' = Newest(View(v))
               /\ Table(v)[Newest(View(v))]' = Table(v)[Newest(View(v))]
    <2> PICK S : S = View(v)
      OBVIOUS
    <2> PICK a \in S : TRUE
      BY <1>5
    <2>1. S \in SUBSET Alert /\ S \cap D = {}
      BY <1>3 DEF View, ActiveIn
    <2>2. Listed(a)
      BY <2>1 DEF View, ActiveIn, Table, AlertsTyped
    <2>3. Newest(S)' = Newest(S) /\ Newest(S) \in S
      <3>1. S \cap D = {} /\ S \in SUBSET Alert /\ \E b \in S : Listed(b)
        BY <2>1, <2>2
      <3>2. Newest(S)' = Newest(S)
        BY <3>1 DEF Touches
      <3>3. order \in Seq(Alert) /\ \A b \in S : Listed(b) => Newest(S) \in S
        BY NewestIs DEF AlertsTyped
      <3> QED
        BY <3>1, <3>2, <3>3
    <2> PICK n : n = Newest(S)
      OBVIOUS
    <2>4. Table(v)'[n] = Table(v)[n]
      BY <1>2, <2>1, <2>3
    <2>5. Newest(View(v))' = Newest(S)'
      BY <1>4
    <2> QED
      BY <2>3, <2>4, <2>5
  <1> QED
    BY <1>1, <1>4, <1>5

(* A session that is not disturbed knows what it knew. *)
LEMMA OthersTell ==
    ASSUME AlertsTyped, NEW v \in Worker, pc[v] # "idle", SessionTells(v),
           pc'[v] = pc[v], work'[v] = work[v], wrote'[v] = wrote[v],
           levels'[ProductOf[Here(v)]] = levels[ProductOf[Here(v)]],
           pc[v] \in AfterJudging =>
              units'[FirstShelf[Here(v)]] = units[FirstShelf[Here(v)]],
           NEW D \in SUBSET Alert, Touches(D), D \cap Changed(v) = {},
           pc[v] \in AfterReading => Away(D, Here(v))
    PROVE  SessionTells(v)'
  <1> PICK s : s = Here(v)
    OBVIOUS
  <1> PICK l : l = levels[ProductOf[s]]
    OBVIOUS
  <1> PICK q : q = Seen(v, FirstShelf[s])
    OBVIOUS
  <1>1. Here(v)' = s /\ levels'[ProductOf[s]] = l
    BY DEF Here
  <1>2. pc[v] \in AfterJudging => Seen(v, FirstShelf[s])' = q
    BY DEF Seen, Holds
  <1>3. CASE pc[v] \notin AfterJudging
    BY <1>1, <1>3 DEF SessionTells, AfterJudging
  <1>4. CASE pc[v] \in AfterJudging \ AfterReading
    <2>1. pc[v] \in {"measure", "read"}
      BY <1>4 DEF AfterJudging, AfterReading
    <2> QED
      BY <1>1, <1>2, <1>4, <2>1 DEF SessionTells
  <1>5. CASE pc[v] \in AfterReading
    <2>1. pc[v] \in AfterJudging
      BY <1>5 DEF AfterJudging, AfterReading
    <2>2. /\ View(v)' = View(v) /\ Changed(v)' = Changed(v)
          /\ View(v) # {} =>
                 /\ Newest(View(v))' = Newest(View(v))
                 /\ Table(v)[Newest(View(v))]' = Table(v)[Newest(View(v))]
      BY <1>5, ViewStays
    <2>3. /\ work[v].levels = l /\ work[v].kind = StatusOf(l, q)
          /\ pc[v] \in {"read", "write", "commit"} => work[v].level = q
          /\ pc[v] = "write" /\ work[v].kind = "NORMAL" => work[v].found = View(v)
          /\ pc[v] = "write" /\ work[v].kind # "NORMAL" =>
                /\ Changed(v) = {}
                /\ work[v].found = IF View(v) = {} THEN {} ELSE {Newest(View(v))}
          /\ pc[v] = "commit" => Telling(View(v), Table(v)[Newest(View(v))], l, q)
      BY <2>1 DEF SessionTells
    <2>4. pc[v] = "commit" => Telling(View(v)', Table(v)[Newest(View(v))]', l, q)
      BY <2>2, <2>3 DEF Telling
    <2>5. pc[v] = "write" /\ work[v].kind # "NORMAL" =>
             /\ Changed(v)' = {}
             /\ work[v].found = IF View(v)' = {} THEN {} ELSE {Newest(View(v))'}
      BY <2>2, <2>3
    <2>6. Seen(v, FirstShelf[Here(v)])' = q /\ levels'[ProductOf[Here(v)']] = l
      BY <1>1, <1>2, <2>1
    <2> QED
      BY <2>2, <2>3, <2>4, <2>5, <2>6 DEF SessionTells
  <1> QED
    BY <1>3, <1>4, <1>5

(* A site nobody touches tells what it told. *)
LEMMA SiteStays ==
    ASSUME AlertsTyped, NEW s \in Site, SiteTells(s),
           levels'[ProductOf[s]] = levels[ProductOf[s]],
           units'[FirstShelf[s]] = units[FirstShelf[s]],
           NEW D \in SUBSET Alert, Touches(D), Away(D, s)
    PROVE  SiteTells(s)'
  <1> PICK S : S = ActiveIn(alerts, s)
    OBVIOUS
  <1>1. S \in SUBSET Alert /\ S \cap D = {} /\ ActiveIn(alerts, s)' = S
    BY DEF ActiveIn, Touches, Away
  <1>2. ASSUME S # {}
        PROVE  alerts[Newest(ActiveIn(alerts, s))]' = alerts[Newest(S)]
    <2> PICK a \in S : TRUE
      BY <1>2
    <2>1. Listed(a)
      BY DEF ActiveIn, AlertsTyped
    <2>2. Newest(S)' = Newest(S) /\ Newest(S) \in S
      <3>1. S \cap D = {} /\ S \in SUBSET Alert /\ \E b \in S : Listed(b)
        BY <1>1, <2>1
      <3>2. Newest(S)' = Newest(S)
        BY <3>1 DEF Touches
      <3>3. order \in Seq(Alert) /\ \A b \in S : Listed(b) => Newest(S) \in S
        BY NewestIs DEF AlertsTyped
      <3> QED
        BY <3>1, <3>2, <3>3
    <2> PICK n : n = Newest(S)
      OBVIOUS
    <2>3. alerts'[n] = alerts[n]
      BY <1>1, <2>2 DEF Touches
    <2>4. Newest(ActiveIn(alerts, s))' = Newest(S)'
      BY <1>1
    <2> QED
      BY <2>2, <2>3, <2>4
  <1> PICK l : l = levels[ProductOf[s]]
    OBVIOUS
  <1> PICK q : q = units[FirstShelf[s]]
    OBVIOUS
  <1>3. Telling(S, alerts[Newest(S)], l, q)
    BY DEF SiteTells
  <1>4. Telling(S, alerts[Newest(ActiveIn(alerts, s))]', l, q)
    BY <1>2, <1>3 DEF Telling
  <1> QED
    BY <1>1, <1>4 DEF SiteTells

(* A step keeps the alerts telling if it disturbs whom it touches. *)
LEMMA RestTells ==
    ASSUME AlertsInv, NEW W \in SUBSET Worker, NEW D \in SUBSET Alert, Touches(D),
           \A v \in Worker \ W :
              /\ pc'[v] = pc[v] /\ work'[v] = work[v] /\ wrote'[v] = wrote[v]
              /\ D \cap Changed(v) = {}
              /\ pc[v] # "idle" /\ v \notin disturbed' =>
                    /\ v \notin disturbed
                    /\ levels'[ProductOf[Here(v)]] = levels[ProductOf[Here(v)]]
                    /\ pc[v] \in AfterJudging =>
                          units'[FirstShelf[Here(v)]] = units[FirstShelf[Here(v)]]
                    /\ pc[v] \in AfterReading => Away(D, Here(v)),
           \A w \in W : pc'[w] # "idle" /\ w \notin disturbed' => SessionTells(w)',
           \A s \in Site \ unsure' :
              \/ SiteTells(s)'
              \/ /\ s \notin unsure /\ Away(D, s)
                 /\ levels'[ProductOf[s]] = levels[ProductOf[s]]
                 /\ units'[FirstShelf[s]] = units[FirstShelf[s]],
           SitesInv'
    PROVE  AlertsInv'
  <1>1. ASSUME NEW v \in Worker, pc'[v] # "idle", v \notin disturbed' PROVE SessionTells(v)'
    <2>1. CASE v \in W
      BY <1>1, <2>1
    <2>2. CASE v \notin W
      <3>1. AlertsTyped /\ SessionTells(v)
        BY <1>1, <2>2 DEF AlertsInv, SitesInv, Undisturbed
      <3> QED
        BY <1>1, <2>2, <3>1, OthersTell
    <2> QED
      BY <2>1, <2>2
  <1>2. ASSUME NEW s \in Site \ unsure' PROVE SiteTells(s)'
    <2>1. AlertsTyped /\ (s \notin unsure => SiteTells(s))
      BY DEF AlertsInv, SitesInv
    <2> QED
      BY <2>1, SiteStays
  <1> QED
    BY <1>1, <1>2 DEF AlertsInv, Undisturbed

LEMMA NothingTouched == ASSUME UNCHANGED <<alerts, order>> PROVE Touches({})
  BY DEF Touches, Newest

LEMMA AwayFromNothing == ASSUME NEW s PROVE Away({}, s)
  BY DEF Away

(* A session that writes no alert: what it then knows is left to show. *)
LEMMA ReadingTells ==
    ASSUME AlertsInv, NEW w \in Worker, Others(w), OnlyReads, SitesInv',
           w \notin disturbed => SessionTells(w)'
    PROVE  AlertsInv'
  <1>1. Touches({}) /\ (\A s : Away({}, s)) /\ {} \in SUBSET Alert /\ {w} \in SUBSET Worker
    BY NothingTouched, AwayFromNothing DEF OnlyReads
  <1>2. /\ \A v \in Worker \ {w} :
              /\ pc'[v] = pc[v] /\ work'[v] = work[v] /\ wrote'[v] = wrote[v]
              /\ {} \cap Changed(v) = {}
        /\ disturbed' = disturbed /\ levels' = levels /\ units' = units /\ unsure' = unsure
    BY DEF Others, OnlyReads
  <1> QED
    BY <1>1, <1>2, RestTells

LEMMA BeginTells == ASSUME AlertsInv, NEW w \in Worker, Begin(w), SitesInv' PROVE AlertsInv'
  <1>1. AlertsTyped
    BY DEF AlertsInv, SitesInv
  <1>2. /\ pc'[w] = "lock" /\ Others(w) /\ OnlyReads
        /\ work'[w].levels = levels[ProductOf[SiteOf[work'[w].shelf]]]
    BY <1>1, BeginDoes
  <1>3. SessionTells(w)'
    BY <1>2 DEF SessionTells, Here, OnlyReads, AfterJudging
  <1> QED
    BY <1>2, <1>3, ReadingTells

(* What the statements of a running session do not change. *)
LEMMA SameSight ==
    ASSUME NEW w \in Worker, pc[w] \notin {"idle", "lock"}, pc'[w] \notin {"idle", "lock"},
           work'[w].shelf = work[w].shelf, work'[w].new = work[w].new,
           UNCHANGED <<units, levels>>
    PROVE  /\ Here(w)' = Here(w) /\ levels'[ProductOf[Here(w)]] = levels[ProductOf[Here(w)]]
           /\ Seen(w, FirstShelf[Here(w)])' = Seen(w, FirstShelf[Here(w)])
  <1>1. Here(w)' = Here(w)
    BY DEF Here
  <1> PICK x : x = FirstShelf[Here(w)]
    OBVIOUS
  <1>2. Seen(w, x)' = Seen(w, x)
    BY DEF Seen, Holds
  <1>3. Seen(w, FirstShelf[Here(w)])' = Seen(w, x)'
    BY <1>1
  <1> QED
    BY <1>1, <1>2, <1>3

LEMMA EvaluatingTells ==
    ASSUME AlertsInv, NEW w \in Worker, Lock(w) \/ Judge(w) \/ Measure(w) \/ ReadAlerts(w), SitesInv'
    PROVE  AlertsInv'
  <1>0. AlertsTyped /\ (pc[w] # "idle" /\ w \notin disturbed => SessionTells(w))
    BY DEF AlertsInv, SitesInv, Undisturbed
  <1>1. CASE Lock(w)
    <2>1. /\ pc[w] = "lock" /\ pc'[w] = "judge" /\ Others(w) /\ OnlyReads
          /\ work'[w].shelf = work[w].shelf /\ work'[w].levels = work[w].levels
      BY <1>0, <1>1, LockDoes
    <2>2. w \notin disturbed => SessionTells(w)'
      BY <1>0, <2>1 DEF SessionTells, Here, OnlyReads, AfterJudging
    <2> QED
      BY <2>1, <2>2, ReadingTells
  <1>2. CASE Judge(w) \/ Measure(w) \/ ReadAlerts(w)
    <2>1. /\ pc[w] \in {"judge", "measure", "read"} /\ pc'[w] \in {"measure", "read", "write", "commit"}
          /\ Others(w) /\ OnlyReads /\ SameCall(w)
      BY <1>0, <1>2, JudgeDoes, MeasureDoes, ReadAlertsDoes
    <2> PICK s : s = Here(w)
      OBVIOUS
    <2> PICK l : l = levels[ProductOf[s]]
      OBVIOUS
    <2> PICK q : q = Seen(w, FirstShelf[s])
      OBVIOUS
    <2>2. /\ Here(w)' = s /\ levels'[ProductOf[Here(w)]]= l
          /\ Seen(w, FirstShelf[Here(w)])' = q
      BY <2>1, SameSight DEF SameCall, OnlyReads
    <2>3. levels[ProductOf[Here(w)]]' = l
      BY <2>2
    <2> SUFFICES ASSUME w \notin disturbed PROVE SessionTells(w)'
      BY <2>1, ReadingTells
    <2>4. /\ work[w].levels = l /\ work'[w].levels = l
          /\ pc[w] \in AfterJudging => work[w].kind = StatusOf(l, q)
          /\ pc[w] = "read" => work[w].level = q
      BY <1>0, <2>1 DEF SessionTells, SameCall
    <2>5. CASE Judge(w)
      <3>1. pc'[w] = "measure" /\ work'[w].kind = StatusOf(l, q)
        BY <1>0, <2>4, <2>5, JudgeDoes
      <3> QED
        BY <2>2, <2>3, <2>4, <3>1 DEF SessionTells
    <2>6. CASE Measure(w)
      <3>1. pc'[w] = "read" /\ work'[w].kind = StatusOf(l, q) /\ work'[w].level = q
        BY <1>0, <2>4, <2>6, MeasureDoes DEF AfterJudging
      <3> QED
        BY <2>2, <2>3, <2>4, <3>1 DEF SessionTells
    <2>7. CASE ReadAlerts(w)
      <3> PICK active : active = ActiveIn(alerts, s)
        OBVIOUS
      <3>1. /\ pc[w] = "read" /\ Changed(w) = {} /\ Changed(w)' = {}
            /\ work'[w].kind = StatusOf(l, q) /\ work'[w].level = q /\ work'[w].kind = work[w].kind
            /\ work'[w].found = IF work[w].kind = "NORMAL" \/ active = {} THEN active
                                ELSE {Newest(active)}
            /\ pc'[w] = IF work[w].kind = "NORMAL" /\ active = {} THEN "commit" ELSE "write"
        <4>1. pc[w] = "read" /\ Changed(w) = {}
          BY <1>0, <2>7, ReadAlertsDoes DEF AlertsTyped
        <4>2. Changed(w)' = {}
          BY <2>1, <4>1 DEF Changed, OnlyReads
        <4> QED
          BY <1>0, <2>4, <2>7, <4>1, <4>2, ReadAlertsDoes DEF AfterJudging
      <3>2. View(w)' = active
        <4>1. \A a \in Alert : Table(w)'[a] = alerts[a]
          BY <2>1, <3>1 DEF Table, OnlyReads
        <4> QED
          BY <2>2, <4>1 DEF View, ActiveIn
      <3>3. Newest(View(w))' = Newest(active)
        <4>1. Newest(active)' = Newest(active)
          BY <2>1 DEF Newest, OnlyReads
        <4>2. Newest(View(w))' = Newest(active)'
          BY <3>2
        <4> QED
          BY <4>1, <4>2
      <3>4. pc'[w] = "commit" => Telling(View(w)', Table(w)[Newest(View(w))]', l, q)
        BY <3>1, <3>2 DEF Telling
      <3> QED
        BY <2>2, <2>3, <2>4, <3>1, <3>2, <3>3, <3>4 DEF SessionTells
    <2> QED
      BY <1>2, <2>5, <2>6, <2>7
  <1> QED
    BY <1>1, <1>2

(* Creating an alert touches that alert only. *)
LEMMA AppendTouches ==
    ASSUME AlertsTyped, NEW a \in Alert, order' = Append(order, a),
           \A b \in Alert \ {a} : alerts'[b] = alerts[b]
    PROVE  Touches({a})
  <1>1. ASSUME NEW S \in SUBSET Alert, S \cap {a} = {}, NEW b \in S, Listed(b)
        PROVE  Newest(S)' = Newest(S)
    BY <1>1, NewestAppended DEF AlertsTyped
  <1> QED
    BY <1>1 DEF Touches

(* So does deleting it. *)
LEMMA WithoutTouches ==
    ASSUME AlertsTyped, NEW D \in SUBSET Alert,
           order' = Without(order, {n \in DOMAIN order : order[n] \in D}),
           \A b \in Alert \ D : alerts'[b] = alerts[b]
    PROVE  Touches(D)
  <1> DEFINE places == {n \in DOMAIN order : order[n] \in D}
  <1>1. ASSUME NEW S \in SUBSET Alert, S \cap D = {}, NEW b \in S, Listed(b)
        PROVE  Newest(S)' = Newest(S)
    <2>1. places \in SUBSET DOMAIN order /\ \A n \in places : order[n] \notin S
      BY <1>1
    <2>2. order' = Without(order, places) /\ order \in Seq(Alert)
      BY DEF AlertsTyped
    <2> HIDE DEF places
    <2> QED
      BY <1>1, <2>1, <2>2, NewestWithout
  <1> QED
    BY <1>1 DEF Touches

(* A session that touches only what is at no site. *)
LEMMA SessionStepTells ==
    ASSUME AlertsInv, NEW w \in Worker, NEW D \in SUBSET Alert, Touches(D), \A t : Away(D, t),
           \A v \in Worker \ {w} :
              /\ pc'[v] = pc[v] /\ work'[v] = work[v] /\ wrote'[v] = wrote[v]
              /\ D \cap Changed(v) = {}
              /\ (v \in disturbed => v \in disturbed'),
           UNCHANGED <<units, levels, unsure>>, SitesInv',
           pc'[w] # "idle" /\ w \notin disturbed' => SessionTells(w)'
    PROVE  AlertsInv'
  <1>1. /\ \A v \in Worker \ {w} :
              /\ pc'[v] = pc[v] /\ work'[v] = work[v] /\ wrote'[v] = wrote[v]
              /\ D \cap Changed(v) = {}
              /\ pc[v] # "idle" /\ v \notin disturbed' =>
                    /\ v \notin disturbed
                    /\ levels'[ProductOf[Here(v)]] = levels[ProductOf[Here(v)]]
                    /\ pc[v] \in AfterJudging =>
                          units'[FirstShelf[Here(v)]] = units[FirstShelf[Here(v)]]
                    /\ pc[v] \in AfterReading => Away(D, Here(v))
        /\ \A v \in {w} : pc'[v] # "idle" /\ v \notin disturbed' => SessionTells(v)'
        /\ {w} \in SUBSET Worker
    <2>1. \A v \in {w} : pc'[v] # "idle" /\ v \notin disturbed' => SessionTells(v)'
      OBVIOUS
    <2>2. levels' = levels /\ units' = units
      OBVIOUS
    <2>3. \A v \in Worker \ {w} : pc[v] # "idle" /\ v \notin disturbed' =>
              /\ v \notin disturbed
              /\ pc[v] \in AfterReading => Away(D, Here(v))
      OBVIOUS
    <2> QED
      BY <2>1, <2>2, <2>3
  <1>2. \A t \in Site \ unsure' :
             \/ SiteTells(t)'
             \/ /\ t \notin unsure /\ Away(D, t)
                /\ levels'[ProductOf[t]] = levels[ProductOf[t]]
                /\ units'[FirstShelf[t]] = units[FirstShelf[t]]
    OBVIOUS
  <1> QED
    BY <1>1, <1>2, RestTells

LEMMA WritingTells ==
    ASSUME AlertsInv, NEW w \in Worker, InsertAlert(w) \/ UpdateAlert(w) \/ Resolve(w), SitesInv'
    PROVE  AlertsInv'
  <1>0. AlertsTyped /\ SitesInv /\ (pc[w] # "idle" /\ w \notin disturbed => SessionTells(w))
    BY DEF AlertsInv, SitesInv, Undisturbed
  <1> PICK s : s = Here(w)
    OBVIOUS
  <1> PICK l : l = levels[ProductOf[s]]
    OBVIOUS
  <1> PICK q : q = Seen(w, FirstShelf[s])
    OBVIOUS
  <1> PICK V : V = View(w)
    OBVIOUS
  <1>1. ASSUME pc[w] = "write", w \notin disturbed
        PROVE  /\ work[w].levels = l /\ work[w].kind = StatusOf(l, q) /\ work[w].level = q
               /\ work[w].kind = "NORMAL" => work[w].found = V
               /\ work[w].kind # "NORMAL" =>
                     Changed(w) = {} /\ work[w].found = IF V = {} THEN {} ELSE {Newest(V)}
    BY <1>0, <1>1 DEF SessionTells, AfterJudging
  <1>2. CASE InsertAlert(w)
    <2> PICK a \in Unused, row \in AlertRow :
              /\ pc[w] = "write" /\ work[w].found = {} /\ work[w].kind \in Kind
              /\ Write(w, a, row) /\ order' = Append(order, a)
              /\ row.site = Here(w) /\ row.active
              /\ row.kind = work[w].kind /\ row.level = work[w].level
              /\ row.threshold = Threshold(work[w].levels, work[w].kind)
              /\ pc'[w] = "commit" /\ work' = work /\ OtherCalls(w)
      BY <1>0, <1>2, InsertAlertDoes
    <2>1. /\ a \in Alert /\ ~Listed(a) /\ alerts[a] = NoAlert
          /\ \A v \in Worker : a \notin Changed(v)
      BY <1>0, UnusedUnknown
    <2>2. /\ UNCHANGED <<units, levels, alerts, copy, disturbed, unsure>>
          /\ wrote'[w][a] = row /\ Changed(w)' = Changed(w) \cup {a}
          /\ \A v \in Worker \ {w} : wrote'[v] = wrote[v]
      BY <1>0, <2>1, WriteDoes
    <2> PICK D \in SUBSET Alert : D = {a}
      BY <2>1
    <2>3. Touches(D) /\ \A t : Away(D, t)
      <3>1. Touches({a})
        BY <1>0, <2>1, <2>2, AppendTouches
      <3>2. \A t : Away({a}, t)
        BY <2>1, <2>2 DEF Away
      <3> QED
        BY <3>1, <3>2
    <2>4. ASSUME w \notin disturbed PROVE SessionTells(w)'
      <3>1. /\ Here(w)' = s /\ levels[ProductOf[Here(w)]]' = l
            /\ Seen(w, FirstShelf[Here(w)])' = q
        BY <2>2, SameSight
      <3>2. /\ work[w].levels = l /\ work[w].kind = StatusOf(l, q) /\ work[w].level = q
            /\ work[w].kind # "NORMAL" /\ Changed(w) = {} /\ V = {}
        BY <1>1, <2>4 DEF Kind
      <3>3. \A b \in Alert : Table(w)'[b] = IF b = a THEN row ELSE alerts[b]
        BY <2>1, <2>2, <3>2 DEF Table
      <3>4. View(w)' = {a}
        <4>1. row # NoAlert
          BY NothingAssumption
        <4>2. \A b \in Alert : ~(alerts[b] # NoAlert /\ alerts[b].site = s /\ alerts[b].active)
          BY <3>2 DEF View, ActiveIn, Table
        <4> QED
          BY <2>1, <3>1, <3>3, <4>1, <4>2 DEF View, ActiveIn
      <3>5. Newest({a})' = a
        BY <1>0, <2>1, NewestLast DEF AlertsTyped
      <3>6. Newest(View(w))' = a
        BY <3>4, <3>5
      <3>7. Table(w)[Newest(View(w))]' = row
        BY <2>1, <3>3, <3>6
      <3>8. Telling({a}, row, l, q)
        BY <3>2 DEF Telling
      <3> QED
        BY <3>1, <3>2, <3>4, <3>7, <3>8 DEF SessionTells
    <2>5. /\ \A v \in Worker \ {w} :
                pc'[v] = pc[v] /\ work'[v] = work[v] /\ wrote'[v] = wrote[v]
                /\ D \cap Changed(v) = {} /\ (v \in disturbed => v \in disturbed')
          /\ UNCHANGED <<units, levels, unsure>> /\ disturbed' = disturbed
      BY <2>1, <2>2 DEF OtherCalls
    <2> QED
      BY <2>3, <2>4, <2>5, SessionStepTells
  <1>3. ASSUME order' = order, UNCHANGED <<units, levels, alerts, copy, disturbed, unsure>>,
               OtherCalls(w), \A v \in Worker \ {w} : wrote'[v] = wrote[v],
               w \notin disturbed => SessionTells(w)'
        PROVE  AlertsInv'
    <2>1. Touches({}) /\ (\A t : Away({}, t)) /\ {} \in SUBSET Alert /\ {w} \in SUBSET Worker
      BY <1>3, NothingTouched, AwayFromNothing
    <2>2. \A v \in Worker \ {w} :
              /\ pc'[v] = pc[v] /\ work'[v] = work[v] /\ wrote'[v] = wrote[v]
              /\ {} \cap Changed(v) = {}
      BY <1>3 DEF OtherCalls
    <2> QED
      BY <1>3, <2>1, <2>2, RestTells
  <1>4. CASE UpdateAlert(w)
    <2> PICK a \in work[w].found, row \in AlertRow :
              /\ pc[w] = "write" /\ work[w].kind # "NORMAL" /\ a \in Alert
              /\ alerts[a] # NoAlert /\ FreeAlert(a) /\ Write(w, a, row) /\ order' = order
              /\ row.site = alerts[a].site /\ row.active = alerts[a].active
              /\ row.kind = work[w].kind /\ row.level = work[w].level
              /\ row.threshold = Threshold(work[w].levels, work[w].kind)
              /\ pc'[w] = "commit" /\ work' = work /\ OtherCalls(w)
      BY <1>0, <1>4, UpdateAlertDoes
    <2>2. /\ UNCHANGED <<units, levels, alerts, copy, disturbed, unsure>>
          /\ wrote'[w][a] = row /\ Changed(w)' = Changed(w) \cup {a}
          /\ \A v \in Worker \ {w} : wrote'[v] = wrote[v]
      BY <1>0, WriteDoes
    <2>4. ASSUME w \notin disturbed PROVE SessionTells(w)'
      <3>1. /\ Here(w)' = s /\ levels[ProductOf[Here(w)]]' = l
            /\ Seen(w, FirstShelf[Here(w)])' = q
        BY <2>2, SameSight
      <3>2. /\ work[w].levels = l /\ work[w].kind = StatusOf(l, q) /\ work[w].level = q
            /\ work[w].kind # "NORMAL" /\ Changed(w) = {} /\ V # {} /\ a = Newest(V)
        BY <1>1, <2>4
      <3>3. \A b \in Alert : Table(w)[b] = alerts[b] /\ Table(w)'[b] = IF b = a THEN row ELSE alerts[b]
        BY <2>2, <3>2 DEF Table
      <3>4. View(w)' = V
        <4>1. row # NoAlert
          BY NothingAssumption
        <4> QED
          BY <3>1, <3>3, <4>1 DEF View, ActiveIn
      <3>5. Newest(V)' = a
        BY <3>2 DEF Newest
      <3>6. Newest(View(w))' = a
        <4>1. Newest(View(w))' = Newest(V)'
          BY <3>4
        <4> QED
          BY <3>5, <4>1
      <3>7. Table(w)[Newest(View(w))]' = row
        BY <3>3, <3>6
      <3>8. Telling(V, row, l, q)
        BY <3>2 DEF Telling
      <3> QED
        BY <3>1, <3>2, <3>4, <3>7, <3>8 DEF SessionTells
    <2> QED
      BY <1>3, <2>2, <2>4
  <1>5. CASE Resolve(w)
    <2> PICK a \in work[w].found, row \in AlertRow :
              /\ pc[w] = "write" /\ work[w].kind = "NORMAL" /\ a \in Alert
              /\ alerts[a] # NoAlert /\ FreeAlert(a) /\ Write(w, a, row) /\ order' = order
              /\ row.site = alerts[a].site /\ ~row.active
              /\ SameCall(w) /\ work'[w].kind = work[w].kind /\ work'[w].level = work[w].level
              /\ work'[w].found = work[w].found \ {a}
              /\ pc'[w] = IF work[w].found = {a} THEN "commit" ELSE "write"
              /\ OtherCalls(w)
      BY <1>0, <1>5, ResolveDoes
    <2>2. /\ UNCHANGED <<units, levels, alerts, copy, disturbed, unsure>>
          /\ wrote'[w][a] = row /\ \A b \in Alert \ {a} : wrote'[w][b] = wrote[w][b]
          /\ Changed(w)' = Changed(w) \cup {a}
          /\ \A v \in Worker \ {w} : wrote'[v] = wrote[v]
      BY <1>0, WriteDoes
    <2>4. ASSUME w \notin disturbed PROVE SessionTells(w)'
      <3>1. /\ Here(w)' = s /\ levels[ProductOf[Here(w)]]' = l
            /\ Seen(w, FirstShelf[Here(w)])' = q
        BY <2>2, SameSight DEF SameCall
      <3>2. /\ work[w].levels = l /\ work[w].kind = StatusOf(l, q) /\ work[w].level = q
            /\ work[w].found = V
        BY <1>1, <2>4
      <3>3. \A b \in Alert : Table(w)'[b] = IF b = a THEN row ELSE Table(w)[b]
        BY <2>2 DEF Table
      <3>4. View(w)' = V \ {a}
        BY <3>1, <3>3 DEF View, ActiveIn
      <3>5. work'[w].found = View(w)' /\ work'[w].levels = l
        BY <3>2, <3>4 DEF SameCall
      <3>6. pc'[w] = "commit" => Telling(View(w)', Table(w)[Newest(View(w))]', l, q)
        BY <3>2, <3>4 DEF Telling
      <3>7. pc'[w] \in {"write", "commit"}
        OBVIOUS
      <3> QED
        BY <3>1, <3>2, <3>5, <3>6, <3>7 DEF SessionTells
    <2> QED
      BY <1>3, <2>2, <2>4
  <1> QED
    BY <1>2, <1>4, <1>5

LEMMA CommitTells == ASSUME AlertsInv, NEW w \in Worker, Commit(w), SitesInv' PROVE AlertsInv'
  <1> PICK s : s = Here(w)
    OBVIOUS
  <1>1. /\ pc[w] = "commit" /\ EndSession(w) /\ AlertsTyped /\ SitesInv
        /\ units' = [units EXCEPT ![work[w].shelf] = work[w].new]
        /\ alerts' = Table(w)
        /\ disturbed' = (disturbed \cup Reading({s}, AfterJudging)
                                    \cup Reading(Stray(w), AfterReading)) \ {w}
        /\ unsure' = Stray(w) \cup IF w \in disturbed THEN unsure \cup {s} ELSE unsure \ {s}
        /\ UNCHANGED <<levels, order, copy>>
    BY DEF Commit, AlertsInv, SitesInv
  <1>2. /\ pc'[w] = "idle"
        /\ \A v \in Worker \ {w} : pc'[v] = pc[v] /\ work'[v] = work[v] /\ wrote'[v] = wrote[v]
    BY <1>1, EndSessionTyped
  <1>3. work[w].shelf \in Shelf /\ s \in Site /\ SiteOf[work[w].shelf] = s
    BY <1>1, Busy DEF Here
  <1> DEFINE D == Changed(w)
  <1>4. D \in SUBSET Alert /\ Touches(D)
    <2>1. \A S : Newest(S)' = Newest(S)
      BY <1>1 DEF Newest
    <2>2. \A a \in Alert \ D : alerts'[a] = alerts[a]
      BY <1>1 DEF Table
    <2> QED
      BY <2>1, <2>2 DEF Touches, Changed
  <1>5a. ASSUME NEW t \in Site, t # s PROVE units'[FirstShelf[t]] = units[FirstShelf[t]]
    <2>1. FirstShelf[t] \in Shelf /\ FirstShelf[t] # work[w].shelf
      BY <1>3, <1>5a, AlertsAssumption
    <2> QED
      BY <1>1, <2>1 DEF AlertsTyped
  <1>5. ASSUME NEW t \in Site, t # s, t \notin Stray(w) PROVE Away(D, t)
    <2>1. ASSUME NEW a \in D
          PROVE  /\ alerts[a] # NoAlert => alerts[a].site # t
                 /\ alerts'[a] # NoAlert => alerts'[a].site # t
      <3>1. wrote[w][a].site # t
        BY <1>5, <2>1 DEF Stray
      <3>2. a \in Alert /\ alerts'[a] = wrote[w][a]
        BY <1>1, <2>1 DEF Table, Changed
      <3> QED
        BY <1>1, <2>1, <3>1, <3>2 DEF SitesInv, InPlace
    <2> QED
      BY <2>1 DEF Away
  <1>6. ASSUME NEW v \in Worker \ {w}
        PROVE  /\ D \cap Changed(v) = {}
               /\ pc[v] # "idle" /\ v \notin disturbed' =>
                    /\ v \notin disturbed
                    /\ levels'[ProductOf[Here(v)]] = levels[ProductOf[Here(v)]]
                    /\ pc[v] \in AfterJudging =>
                          units'[FirstShelf[Here(v)]] = units[FirstShelf[Here(v)]]
                    /\ pc[v] \in AfterReading => Away(D, Here(v))
    <2>1. D \cap Changed(v) = {}
      BY <1>1 DEF AlertsTyped
    <2>2. ASSUME pc[v] # "idle", v \notin disturbed'
          PROVE  /\ v \notin disturbed /\ (pc[v] \in AfterJudging => Here(v) # s)
                 /\ pc[v] \in AfterReading => Here(v) \notin Stray(w)
      BY <1>1, <2>2 DEF Reading
    <2>3. pc[v] # "idle" => Here(v) \in Site
      BY <1>1, Busy
    <2>4. AfterReading \subseteq AfterJudging
      BY DEF AfterReading, AfterJudging
    <2> HIDE DEF D
    <2> QED
      BY <1>1, <1>5, <1>5a, <2>1, <2>2, <2>3, <2>4
  <1>7. ASSUME w \notin disturbed PROVE SiteTells(s)'
    <2> PICK l : l = levels[ProductOf[s]]
      OBVIOUS
    <2> PICK q : q = Seen(w, FirstShelf[s])
      OBVIOUS
    <2> PICK V : V = View(w)
      OBVIOUS
    <2>1. Telling(V, Table(w)[Newest(V)], l, q)
      BY <1>1, <1>7 DEF AlertsInv, Undisturbed, SessionTells
    <2>2. levels'[ProductOf[s]] = l /\ units'[FirstShelf[s]] = q
      <3>1. FirstShelf[s] \in Shelf
        BY <1>3, AlertsAssumption
      <3> QED
        BY <1>1, <3>1 DEF Seen, Holds, AlertsTyped
    <2>3. ActiveIn(alerts, s)' = V
      BY <1>1 DEF View, ActiveIn
    <2>4. Newest(V)' = Newest(V)
      BY <1>1 DEF Newest
    <2>5. Newest(ActiveIn(alerts, s))' = Newest(V)
      <3>1. Newest(ActiveIn(alerts, s))' = Newest(V)'
        BY <2>3
      <3> QED
        BY <2>4, <3>1
    <2>6. alerts[Newest(ActiveIn(alerts, s))]' = Table(w)[Newest(V)]
      BY <1>1, <2>5
    <2> QED
      BY <2>1, <2>2, <2>3, <2>6 DEF SiteTells
  <1>8. \A t \in Site \ unsure' :
           \/ SiteTells(t)'
           \/ /\ t \notin unsure /\ Away(D, t)
              /\ levels'[ProductOf[t]] = levels[ProductOf[t]]
              /\ units'[FirstShelf[t]] = units[FirstShelf[t]]
    BY <1>1, <1>5, <1>5a, <1>7
  <1> HIDE DEF D
  <1>9. /\ \A v \in Worker \ {w} :
              /\ pc'[v] = pc[v] /\ work'[v] = work[v] /\ wrote'[v] = wrote[v]
              /\ D \cap Changed(v) = {}
              /\ pc[v] # "idle" /\ v \notin disturbed' =>
                    /\ v \notin disturbed
                    /\ levels'[ProductOf[Here(v)]] = levels[ProductOf[Here(v)]]
                    /\ pc[v] \in AfterJudging =>
                          units'[FirstShelf[Here(v)]] = units[FirstShelf[Here(v)]]
                    /\ pc[v] \in AfterReading => Away(D, Here(v))
        /\ \A v \in {w} : pc'[v] # "idle" /\ v \notin disturbed' => SessionTells(v)'
        /\ {w} \in SUBSET Worker
    BY <1>2, <1>6
  <1> QED
    BY <1>4, <1>8, <1>9, RestTells

LEMMA FailTells == ASSUME AlertsInv, NEW w \in Worker, FailSession(w), SitesInv' PROVE AlertsInv'
  <1> DEFINE D == {a \in Changed(w) : alerts[a] = NoAlert}
  <1>1. /\ EndSession(w) /\ AlertsTyped /\ disturbed' = disturbed \ {w} /\ alerts' = alerts
        /\ UNCHANGED <<units, levels, unsure>>
        /\ order' = Without(order, {n \in DOMAIN order :
                        order[n] \in Changed(w) /\ alerts[order[n]] = NoAlert})
    BY DEF FailSession, AlertsInv, SitesInv
  <1>2. /\ pc'[w] = "idle"
        /\ \A v \in Worker \ {w} : pc'[v] = pc[v] /\ work'[v] = work[v] /\ wrote'[v] = wrote[v]
    BY <1>1, EndSessionTyped
  <1>3. /\ D \in SUBSET Alert /\ \A s : Away(D, s)
        /\ \A v \in Worker \ {w} : D \cap Changed(v) = {}
    BY <1>1 DEF Changed, Away, AlertsTyped
  <1>4. order' = Without(order, {n \in DOMAIN order : order[n] \in D})
    <2>1. {n \in DOMAIN order : order[n] \in D}
             = {n \in DOMAIN order : order[n] \in Changed(w) /\ alerts[order[n]] = NoAlert}
      OBVIOUS
    <2> QED
      BY <1>1, <2>1
  <1> HIDE DEF D
  <1>5. Touches(D)
    BY <1>1, <1>3, <1>4, WithoutTouches
  <1> QED
    BY <1>1, <1>2, <1>3, <1>5, SessionStepTells

(* A client changes alerts of some sites. *)
LEMMA HandTells ==
    ASSUME AlertsInv, NEW sites, ByHand(sites), NEW D \in SUBSET Alert, Touches(D),
           \A s \in Site \ sites : Away(D, s), \A v \in Worker : D \cap Changed(v) = {}, SitesInv'
    PROVE  AlertsInv'
  <1>1. /\ AlertsTyped /\ unsure' = unsure \cup sites
        /\ disturbed' = disturbed \cup Reading(sites, AfterReading)
        /\ UNCHANGED <<units, levels, pc, work, wrote>>
    BY DEF ByHand, shelfVars, AlertsInv, SitesInv
  <1>2. ASSUME NEW v \in Worker, pc[v] \in AfterReading, v \notin disturbed' PROVE Away(D, Here(v))
    <2>1. Here(v) \in Site /\ Here(v) \notin sites
      BY <1>1, <1>2, Busy DEF Reading, AfterReading
    <2> QED
      BY <2>1
  <1>3. /\ \A v \in Worker \ {} :
              /\ pc'[v] = pc[v] /\ work'[v] = work[v] /\ wrote'[v] = wrote[v]
              /\ D \cap Changed(v) = {}
              /\ pc[v] # "idle" /\ v \notin disturbed' =>
                    /\ v \notin disturbed
                    /\ levels'[ProductOf[Here(v)]] = levels[ProductOf[Here(v)]]
                    /\ pc[v] \in AfterJudging =>
                          units'[FirstShelf[Here(v)]] = units[FirstShelf[Here(v)]]
                    /\ pc[v] \in AfterReading => Away(D, Here(v))
        /\ \A v \in {} : pc'[v] # "idle" /\ v \notin disturbed' => SessionTells(v)'
        /\ {} \in SUBSET Worker
    BY <1>1, <1>2
  <1>4. \A s \in Site \ unsure' :
           \/ SiteTells(s)'
           \/ /\ s \notin unsure /\ Away(D, s)
              /\ levels'[ProductOf[s]] = levels[ProductOf[s]]
              /\ units'[FirstShelf[s]] = units[FirstShelf[s]]
    BY <1>1
  <1> QED
    BY <1>3, <1>4, RestTells

LEMMA PostTells == ASSUME AlertsInv, PostAlert, SitesInv' PROVE AlertsInv'
  <1>0. AlertsTyped
    BY DEF AlertsInv, SitesInv
  <1> PICK a \in Unused, row \in NewAlert :
          /\ alerts' = [alerts EXCEPT ![a] = row] /\ order' = Append(order, a)
          /\ ByHand({row.site})
    BY DEF PostAlert
  <1>1. a \in Alert /\ alerts[a] = NoAlert /\ \A v \in Worker : a \notin Changed(v)
    BY <1>0, UnusedUnknown
  <1>2. alerts'[a] = row /\ \A b \in Alert \ {a} : alerts'[b] = alerts[b]
    BY <1>0, <1>1 DEF AlertsTyped
  <1> DEFINE D == {a}
  <1>3. /\ D \in SUBSET Alert /\ (\A v \in Worker : D \cap Changed(v) = {})
        /\ \A s \in Site \ {row.site} : Away(D, s)
    BY <1>1, <1>2 DEF Away
  <1>4. Touches(D)
    BY <1>0, <1>1, <1>2, AppendTouches
  <1> HIDE DEF D
  <1> QED
    BY <1>3, <1>4, HandTells

LEMMA PatchTells == ASSUME AlertsInv, PatchAlert, SitesInv' PROVE AlertsInv'
  <1>0. AlertsTyped /\ SitesInv /\ copy \in AlertCopy /\ copy # NoCopy
    BY DEF AlertsInv, SitesInv, PatchAlert, AlertsTyped
  <1> PICK a \in Alert : copy.alert = a
    BY <1>0 DEF AlertCopy
  <1>1. PICK patch \in AlertPatches :
          /\ alerts' = [alerts EXCEPT ![a] = PatchedAlert(patch)]
          /\ order' = IF alerts[a] = NoAlert THEN Append(order, a) ELSE order
          /\ FreeAlert(a)
          /\ ByHand({known.site : known \in {PatchedAlert(patch), copy.row, alerts[a]} \ {NoAlert}})
    BY DEF PatchAlert
  <1> PICK row \in AlertRow : row = PatchedAlert(patch)
    BY <1>0, PatchedAlertTyped
  <1> DEFINE sites == {known.site : known \in {row, copy.row, alerts[a]} \ {NoAlert}}
  <1>2. alerts'[a] = row /\ \A b \in Alert \ {a} : alerts'[b] = alerts[b]
    BY <1>0, <1>1 DEF AlertsTyped
  <1>3. row.site \in sites /\ (alerts[a] # NoAlert => alerts[a].site \in sites)
    BY NothingAssumption
  <1> DEFINE D == {a}
  <1>4. /\ D \in SUBSET Alert /\ (\A v \in Worker : D \cap Changed(v) = {})
        /\ \A s \in Site \ sites : Away(D, s)
    <2> HIDE DEF sites
    <2> QED
      BY <1>1, <1>2, <1>3 DEF Away, FreeAlert
  <1>5. Touches(D)
    <2>1. CASE alerts[a] = NoAlert
      BY <1>0, <1>1, <1>2, <2>1, AppendTouches
    <2>2. CASE alerts[a] # NoAlert
      <3>1. order' = order
        BY <1>1, <2>2
      <3>2. \A S : Newest(S)' = Newest(S)
        BY <3>1 DEF Newest
      <3> QED
        BY <1>2, <3>2 DEF Touches
    <2> QED
      BY <2>1, <2>2
  <1>6. ByHand(sites)
    BY <1>1
  <1> HIDE DEF D, sites
  <1> QED
    BY <1>4, <1>5, <1>6, HandTells

LEMMA DeleteTells == ASSUME AlertsInv, NEW a \in Alert, DeleteAlert(a), SitesInv' PROVE AlertsInv'
  <1>0. AlertsTyped
    BY DEF AlertsInv, SitesInv
  <1>1. /\ alerts[a] # NoAlert /\ FreeAlert(a) /\ alerts' = [alerts EXCEPT ![a] = NoAlert]
        /\ order' = Without(order, {n \in DOMAIN order : order[n] = a})
        /\ ByHand({alerts[a].site})
    BY DEF DeleteAlert
  <1>2. alerts'[a] = NoAlert /\ \A b \in Alert \ {a} : alerts'[b] = alerts[b]
    BY <1>0, <1>1 DEF AlertsTyped
  <1> DEFINE D == {a}
  <1>3. /\ D \in SUBSET Alert /\ (\A v \in Worker : D \cap Changed(v) = {})
        /\ \A s \in Site \ {alerts[a].site} : Away(D, s)
    BY <1>1, <1>2 DEF Away, FreeAlert
  <1>4. order' = Without(order, {n \in DOMAIN order : order[n] \in D})
    <2>1. {n \in DOMAIN order : order[n] \in D} = {n \in DOMAIN order : order[n] = a}
      OBVIOUS
    <2> QED
      BY <1>1, <2>1
  <1>5. \A b \in Alert \ D : alerts'[b] = alerts[b]
    BY <1>2
  <1> HIDE DEF D
  <1>6. Touches(D)
    BY <1>0, <1>3, <1>4, <1>5, WithoutTouches
  <1> PICK site : site = alerts[a].site
    OBVIOUS
  <1> QED
    BY <1>1, <1>3, <1>6, HandTells

LEMMA SetLevelsTells == ASSUME AlertsInv, NEW p \in Article, SetLevels(p), SitesInv' PROVE AlertsInv'
  <1> DEFINE sites == {s \in Site : ProductOf[s] = p}
  <1>1. /\ AlertsTyped /\ unsure' = unsure \cup sites
        /\ disturbed' = disturbed \cup Reading(sites, AfterJudging \cup {"lock", "judge"})
        /\ \E l : levels' = [levels EXCEPT ![p] = l]
        /\ UNCHANGED <<units, alerts, order, pc, work, wrote>>
    BY DEF SetLevels, shelfVars, AlertsInv, SitesInv
  <1>2. Touches({}) /\ \A s : Away({}, s)
    BY <1>1, NothingTouched, AwayFromNothing
  <1>3. ASSUME NEW s \in Site \ sites PROVE levels'[ProductOf[s]] = levels[ProductOf[s]]
    BY <1>1, <1>3, AlertsAssumption DEF AlertsTyped
  <1>4. ASSUME NEW v \in Worker, pc[v] # "idle", v \notin disturbed'
        PROVE  v \notin disturbed /\ levels'[ProductOf[Here(v)]] = levels[ProductOf[Here(v)]]
    <2>1. pc[v] \in AfterJudging \cup {"lock", "judge"} /\ Here(v) \in Site
      BY <1>1, <1>4, Busy DEF AlertsTyped, Stages, AfterJudging
    <2>2. v \notin disturbed /\ Here(v) \notin sites
      BY <1>1, <1>4, <2>1 DEF Reading
    <2> HIDE DEF sites
    <2> QED
      BY <1>3, <2>1, <2>2
  <1>5. /\ \A v \in Worker \ {} :
              /\ pc'[v] = pc[v] /\ work'[v] = work[v] /\ wrote'[v] = wrote[v]
              /\ {} \cap Changed(v) = {}
              /\ pc[v] # "idle" /\ v \notin disturbed' =>
                    /\ v \notin disturbed
                    /\ levels'[ProductOf[Here(v)]] = levels[ProductOf[Here(v)]]
                    /\ pc[v] \in AfterJudging =>
                          units'[FirstShelf[Here(v)]] = units[FirstShelf[Here(v)]]
                    /\ pc[v] \in AfterReading => Away({}, Here(v))
        /\ \A v \in {} : pc'[v] # "idle" /\ v \notin disturbed' => SessionTells(v)'
        /\ {} \in SUBSET Worker /\ {} \in SUBSET Alert
    BY <1>1, <1>2, <1>4
  <1>6. \A s \in Site \ unsure' :
           \/ SiteTells(s)'
           \/ /\ s \notin unsure /\ Away({}, s)
              /\ levels'[ProductOf[s]] = levels[ProductOf[s]]
              /\ units'[FirstShelf[s]] = units[FirstShelf[s]]
    BY <1>1, <1>2, <1>3
  <1> QED
    BY <1>2, <1>5, <1>6, RestTells

LEMMA QuietTells ==
    ASSUME AlertsInv, UNCHANGED <<units, levels, alerts, order, pc, work, wrote, disturbed, unsure>>,
           SitesInv'
    PROVE  AlertsInv'
  <1>1. Touches({}) /\ \A s : Away({}, s)
    BY NothingTouched, AwayFromNothing
  <1>2. {} \in SUBSET Worker /\ {} \in SUBSET Alert
    OBVIOUS
  <1> QED
    BY <1>1, <1>2, RestTells

LEMMA AlertsInitInv == AlertsInit => AlertsInv
  <1> SUFFICES ASSUME AlertsInit PROVE AlertsInv
    OBVIOUS
  <1>1. /\ AlertsTyped /\ copy = NoCopy /\ unsure = Site
        /\ \A w \in Worker : pc[w] = "idle" /\ Changed(w) = {}
        /\ \A a \in Alert : alerts[a] = NoAlert
    BY AlertsInitTyped DEF AlertsInit, Changed, NothingWritten
  <1> QED
    BY <1>1 DEF AlertsInv, SitesInv, Undisturbed, InPlace

(* Every step keeps the alerts telling. *)
LEMMA AlertsNextInv == AlertsInv /\ [AlertsNext]_alertsVars => AlertsInv'
  <1> SUFFICES ASSUME AlertsInv, [AlertsNext]_alertsVars PROVE AlertsInv'
    OBVIOUS
  <1>0. SitesInv /\ AlertsTyped'
    BY AlertsNextTyped DEF AlertsInv, SitesInv
  <1>1. ASSUME NEW w \in Worker, Begin(w) PROVE AlertsInv'
    BY <1>0, <1>1, ReadingSites, BeginTells
  <1>2. ASSUME NEW w \in Worker, Lock(w) \/ Judge(w) \/ Measure(w) \/ ReadAlerts(w) PROVE AlertsInv'
    BY <1>0, <1>2, ReadingSites, EvaluatingTells
  <1>3. ASSUME NEW w \in Worker, InsertAlert(w) \/ UpdateAlert(w) \/ Resolve(w) PROVE AlertsInv'
    BY <1>0, <1>3, WritingSites, WritingTells
  <1>4. ASSUME NEW w \in Worker, Commit(w) \/ FailSession(w) PROVE AlertsInv'
    BY <1>0, <1>4, EndingSites, CommitTells, FailTells
  <1>5. ASSUME NEW p \in Article, SetLevels(p) PROVE AlertsInv'
    <2>1. SitesInv'
      BY <1>0, <1>5, QuietSites DEF SetLevels
    <2> QED
      BY <1>5, <2>1, SetLevelsTells
  <1>6. ASSUME PostAlert \/ PatchAlert PROVE AlertsInv'
    <2>1. SitesInv'
      BY <1>0, <1>6, ByHandSites
    <2> QED
      BY <1>6, <2>1, PostTells, PatchTells
  <1>7. ASSUME NEW a \in Alert, LoadAlert(a) \/ DeleteAlert(a) PROVE AlertsInv'
    <2>1. CASE LoadAlert(a)
      <3>1. UNCHANGED <<units, levels, alerts, order, pc, work, wrote, disturbed, unsure>>
        BY <2>1 DEF LoadAlert, shelfVars, session
      <3> QED
        BY <1>0, <3>1, QuietSites, QuietTells
    <2>2. CASE DeleteAlert(a)
      BY <1>0, <2>2, ByHandSites, DeleteTells
    <2> QED
      BY <1>7, <2>1, <2>2
  <1>8. CASE UNCHANGED alertsVars
    <2>1. UNCHANGED <<units, levels, alerts, order, pc, work, wrote, copy, disturbed, unsure>>
      BY <1>8 DEF alertsVars, shelfVars, session
    <2> QED
      BY <1>0, <2>1, QuietSites, QuietTells
  <1> QED
    BY <1>1, <1>2, <1>3, <1>4, <1>5, <1>6, <1>7, <1>8 DEF AlertsNext, Evaluate

(* AlertTells: when evaluate() commits and met no other write about its    *)
(* site, the alerts of the site tell the status of its first item.  The    *)
(* inductive invariant follows what an undisturbed session has read, stage *)
(* by stage, and that no alert moves that an open session has written.     *)
THEOREM AlertTellsTheorem == AlertsSpec => []AlertTells
  <1>1. AlertsInit => AlertsInv
    BY AlertsInitInv
  <1>2. AlertsInv /\ [AlertsNext]_alertsVars => AlertsInv'
    BY AlertsNextInv
  <1>3. AlertsInv => AlertTells
    BY DEF AlertsInv, SiteTells, Telling, AlertTells
  <1> QED
    BY <1>1, <1>2, <1>3, PTL DEF AlertsSpec
=============================================================================
