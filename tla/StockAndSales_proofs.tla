------------------------ MODULE StockAndSales_proofs ------------------------
(***************************************************************************)
(* Proofs about three components that share no name: the stock service,    *)
(* quotations and subscriptions.                                           *)
(*                                                                         *)
(* Stock, for any workers, cells and blocks: the stock tables stay typed,  *)
(* reconciled and non-negative however workers interleave, fail and crash, *)
(* and StockTransactions implements SerialStock: each block commits as if  *)
(* it ran alone.                                                           *)
(*                                                                         *)
(* Quotations, from Issued on, for any quotations, items, requests and     *)
(* edits.  The total of a quotation is a sum over items, which these       *)
(* proofs do not open: the types of amounts do not matter here, so that    *)
(* rows are known by their columns (IsRow) and invoices as some sequence   *)
(* (IsSequence).                                                           *)
(*                                                                         *)
(* Subscriptions, from RowsTypeOK on, for any subscriptions,               *)
(* organizations, requests and days.  What a subscription is billed for    *)
(* and how its invoices are numbered are proved one after the other: no    *)
(* variable belongs to both.                                               *)
(*                                                                         *)
(* At the end the forecast of renewals: its recursion over dates has a     *)
(* solution, and billing takes one date out of it, for dates that are in   *)
(* the calendar (CalendarInv).                                             *)
(***************************************************************************)
EXTENDS StockTransactions, Quotations, RevenueForecast, SumTheorems, FiniteSetTheorems,
        SequenceTheorems, TLAPS

(* A worker inside a transaction executes a call of its block. *)
LEMMA CallTyped ==
    ASSUME NEW w \in Worker, Session(w), pc[w] # "idle"
    PROVE  ThisCall(w) \in Call
BY BlocksAssumption DEF Session, ThisCall

LEMMA CellTyped ==
    ASSUME NEW w \in Worker, Acceptable(ThisCall(w))
    PROVE  ThisCell(w) \in Key
BY DEF Acceptable, ThisCell

LEMMA DeltaTyped ==
    ASSUME NEW w \in Worker, ThisCall(w) \in Call, current[w] \in Int
    PROVE  Delta(w) \in Int
BY DEF Delta, MovementQuantity, Call, Operation

-----------------------------------------------------------------------------
(* What a step of one worker does to the others: nothing of their sessions, *)
(* no lock of theirs, no item they have locked.                             *)
SessionKept(v) ==
    /\ block'[v] = block[v] /\ at'[v] = at[v] /\ pc'[v] = pc[v]
    /\ found'[v] = found[v] /\ current'[v] = current[v]
    /\ wrote'[v] = wrote[v] /\ draft'[v] = draft[v] /\ moved'[v] = moved[v]

LocksKept(v) ==
    \A k \in Key : lock[k] = v => lock'[k] = v /\ quantity'[k] = quantity[k]

LEMMA OtherWorkerInv ==
    ASSUME TypeOK, NEW v \in Worker, WorkerInv(v), SessionKept(v), LocksKept(v)
    PROVE  WorkerInv(v)'
<1>1. ThisCall(v)' = ThisCall(v) /\ ThisCell(v)' = ThisCell(v) /\ Delta(v)' = Delta(v)
  BY DEF SessionKept, ThisCall, ThisCell, Delta
<1>2. Session(v)' /\ ArgumentsChecked(v)' /\ IssueCovered(v)' /\ DraftsNonNegative(v)'
  BY <1>1 DEF WorkerInv, SessionKept, Session, ArgumentsChecked, IssueCovered,
              DraftsNonNegative
<1>3. wrote[v] \subseteq Key
  BY DEF TypeOK
<1>4. OwnsItsDrafts(v)'
  BY <1>3 DEF WorkerInv, SessionKept, LocksKept, OwnsItsDrafts
<1>5. \A k \in wrote[v] : quantity'[k] = quantity[k]
  BY <1>3 DEF WorkerInv, LocksKept, OwnsItsDrafts
<1>6. DraftsBalance(v)'
  <2>1. SUFFICES ASSUME NEW k \in Key
                 PROVE  moved'[v][k] = Drafted(v, k)' + Pending(v, k)'
    BY DEF DraftsBalance
  <2>2. Drafted(v, k)' = Drafted(v, k)
    BY <1>5 DEF SessionKept, Drafted
  <2>3. Pending(v, k)' = Pending(v, k)
    BY <1>1 DEF SessionKept, Pending, HalfPosted
  <2>4. QED
    BY <2>2, <2>3 DEF WorkerInv, DraftsBalance, SessionKept
<1>7. SeenIsTrue(v)'
  <2>1. SUFFICES ASSUME Selected(v)
                 PROVE  IF found[v]
                        THEN /\ lock'[ThisCell(v)] = v
                             /\ current[v] = VisibleQuantity(v, ThisCell(v))'
                        ELSE current[v] = 0 /\ ThisCell(v) \notin wrote[v]
    BY <1>1 DEF SeenIsTrue, Selected, SessionKept
  <2>2. ThisCell(v) \in Key
    BY <2>1, CellTyped DEF WorkerInv, ArgumentsChecked, Selected
  <2>3. CASE ~found[v]
    BY <2>1, <2>3 DEF WorkerInv, SeenIsTrue
  <2>4. CASE found[v]
    <3>1. lock[ThisCell(v)] = v /\ current[v] = VisibleQuantity(v, ThisCell(v))
      BY <2>1, <2>4 DEF WorkerInv, SeenIsTrue
    <3>2. VisibleQuantity(v, ThisCell(v))' = VisibleQuantity(v, ThisCell(v))
      BY <1>1, <2>2, <3>1 DEF VisibleQuantity, SessionKept, LocksKept
    <3>3. QED
      BY <2>2, <2>4, <3>1, <3>2 DEF LocksKept
  <2>5. QED
    BY <2>3, <2>4
<1>8. QED
  BY <1>2, <1>4, <1>6, <1>7 DEF WorkerInv

(* To carry the invariant over a step of w it is enough to look at w. *)
LEMMA StepOfOneWorker ==
    ASSUME IInv, NEW w \in Worker,
           \A v \in Worker \ {w} : SessionKept(v) /\ LocksKept(v),
           TypeOK', WorkerInv(w)', Reconciled', NonNegative'
    PROVE  IInv'
<1>1. ASSUME NEW v \in Worker PROVE WorkerInv(v)'
  BY OtherWorkerInv DEF IInv
<1>2. QED
  BY <1>1 DEF IInv

LEMMA StockUnchanged ==
    ASSUME IInv, UNCHANGED stock
    PROVE  Reconciled' /\ NonNegative'
BY DEF IInv, stock, Reconciled, NonNegative

-----------------------------------------------------------------------------
LEMMA BeginInv == ASSUME IInv, NEW w \in Worker, Begin(w) PROVE IInv'
<1> USE DEF IInv
<1>1. PICK b \in Blocks : block' = [block EXCEPT ![w] = b]
  BY DEF Begin
<1>2. b \in Seq(Call) /\ b # <<>> /\ Len(b) \in Nat \ {0}
  BY BlocksAssumption
<1>3. TypeOK'
  BY <1>1 DEF Begin, TypeOK, Statement, stock, seen, work
<1>4. at[w] = 1
  BY DEF Begin, WorkerInv, Session
<1>5. Session(w)'
  BY <1>1, <1>2, <1>4 DEF Begin, TypeOK, Session
<1>6. Selected(w)' = FALSE /\ HalfPosted(w)' = FALSE /\ pc'[w] = "check"
  BY DEF Begin, TypeOK, Selected, HalfPosted
<1>7. wrote'[w] = {} /\ moved'[w] = [k \in Key |-> 0]
  BY DEF Begin, work, WorkerInv, Session
<1>8. WorkerInv(w)'
  BY <1>5, <1>6, <1>7 DEF WorkerInv, ArgumentsChecked, OwnsItsDrafts, DraftsNonNegative,
     SeenIsTrue, IssueCovered, DraftsBalance, Drafted, Pending
<1>9. \A v \in Worker \ {w} : SessionKept(v) /\ LocksKept(v)
  BY <1>1 DEF Begin, TypeOK, stock, seen, work, SessionKept, LocksKept
<1>10. QED
  BY <1>3, <1>8, <1>9, StepOfOneWorker, StockUnchanged DEF Begin

LEMMA CheckInv == ASSUME IInv, NEW w \in Worker, Check(w) PROVE IInv'
<1> USE DEF IInv
<1>1. ThisCall(w)' = ThisCall(w) /\ pc'[w] \in {"move", "lock"}
  BY DEF Check, script, TypeOK, ThisCall
<1>2. TypeOK'
  BY DEF Check, TypeOK, Statement, stock, script, work
<1>3. Session(w)' /\ ArgumentsChecked(w)' /\ OwnsItsDrafts(w)' /\ DraftsNonNegative(w)'
      /\ IssueCovered(w)'
  BY <1>1 DEF Check, script, work, WorkerInv, Session, ArgumentsChecked,
              OwnsItsDrafts, DraftsNonNegative, IssueCovered
<1>4. Selected(w)' = FALSE /\ HalfPosted(w)' = FALSE
  BY <1>1 DEF Check, TypeOK, Selected, HalfPosted
<1>5. HalfPosted(w) = FALSE
  BY DEF Check, HalfPosted
<1>6. DraftsBalance(w)'
  BY <1>4, <1>5 DEF Check, stock, work, WorkerInv, DraftsBalance, Drafted, Pending
<1>7. WorkerInv(w)'
  BY <1>3, <1>4, <1>6 DEF WorkerInv, SeenIsTrue
<1>8. \A v \in Worker \ {w} : SessionKept(v) /\ LocksKept(v)
  BY DEF Check, TypeOK, stock, script, work, SessionKept, LocksKept
<1>9. QED
  BY <1>2, <1>7, <1>8, StepOfOneWorker, StockUnchanged DEF Check

LEMMA SelectForUpdateInv ==
    ASSUME IInv, NEW w \in Worker, SelectForUpdate(w) PROVE IInv'
<1> USE DEF IInv
<1> DEFINE k == ThisCell(w)
<1>1. pc[w] = "lock" /\ Acceptable(ThisCall(w)) /\ k \in Key /\ ThisCall(w) \in Call
  BY CallTyped, CellTyped DEF SelectForUpdate, WorkerInv, ArgumentsChecked
<1>2. ThisCall(w)' = ThisCall(w) /\ k' = k
  BY DEF SelectForUpdate, script, ThisCall, ThisCell
<1>3. TypeOK'
  <2>1. current' \in [Worker -> Int]
    BY <1>1 DEF SelectForUpdate, TypeOK, VisibleQuantity
  <2>2. found' \in [Worker -> BOOLEAN]
    BY <1>1 DEF SelectForUpdate, TypeOK, Visible
  <2>3. lock' \in [Key -> Worker \cup {NoWorker}]
    BY <1>1 DEF SelectForUpdate, TypeOK
  <2>4. pc' \in [Worker -> Statement]
    BY DEF SelectForUpdate, TypeOK, Statement
  <2>5. QED
    BY <2>1, <2>2, <2>3, <2>4 DEF SelectForUpdate, TypeOK, stock, script, work
<1>4. /\ \A v \in Worker \ {w} : \A c \in Key : lock[c] = v => lock'[c] = v
      /\ \A c \in Key : lock[c] = w => lock'[c] = w
  BY <1>1, WorkerAssumption DEF SelectForUpdate, FreeFor, TypeOK
<1>5. \A v \in Worker \ {w} : SessionKept(v) /\ LocksKept(v)
  BY <1>4 DEF SelectForUpdate, TypeOK, stock, script, work, SessionKept, LocksKept
<1>6. pc'[w] = IF ThisCall(w).op = "receive" THEN "write" ELSE "move"
  BY DEF SelectForUpdate, TypeOK
<1>7. /\ found'[w] = Visible(w, k)
      /\ current'[w] = IF Visible(w, k) THEN VisibleQuantity(w, k) ELSE 0
      /\ Visible(w, k) => lock'[k] = w
      /\ VisibleQuantity(w, k)' = VisibleQuantity(w, k)
  BY <1>1, <1>2 DEF SelectForUpdate, TypeOK, VisibleQuantity, stock, work
<1>8. SeenIsTrue(w)'
  BY <1>1, <1>2, <1>7 DEF SelectForUpdate, work, SeenIsTrue, Visible
<1>9. IssueCovered(w)'
  BY <1>2, <1>6 DEF IssueCovered, Insufficient
<1>10. DraftsBalance(w)'
  <2>1. HalfPosted(w)' = HalfPosted(w)
    BY <1>1, <1>2, <1>6 DEF HalfPosted
  <2>2. HalfPosted(w) => Delta(w)' = Delta(w)
    BY <1>1, <1>2 DEF HalfPosted, Delta, MovementQuantity
  <2>3. \A c \in Key : Pending(w, c)' = Pending(w, c)
    BY <1>2, <2>1, <2>2 DEF Pending
  <2>4. \A c \in Key : Drafted(w, c)' = Drafted(w, c)
    BY DEF SelectForUpdate, stock, work, Drafted
  <2>5. QED
    BY <2>3, <2>4 DEF SelectForUpdate, work, WorkerInv, DraftsBalance
<1>11. Session(w)' /\ ArgumentsChecked(w)' /\ OwnsItsDrafts(w)' /\ DraftsNonNegative(w)'
  <2>1. Session(w)' /\ ArgumentsChecked(w)' /\ DraftsNonNegative(w)'
    BY <1>1, <1>2, <1>6 DEF SelectForUpdate, script, work, WorkerInv, Session,
       ArgumentsChecked, DraftsNonNegative
  <2>2. OwnsItsDrafts(w)'
    BY <1>4 DEF SelectForUpdate, TypeOK, work, WorkerInv, OwnsItsDrafts
  <2>3. QED
    BY <2>1, <2>2
<1>12. QED
  BY <1>3, <1>5, <1>8, <1>9, <1>10, <1>11, StepOfOneWorker, StockUnchanged
     DEF SelectForUpdate, WorkerInv

LEMMA InsertMovementInv ==
    ASSUME IInv, NEW w \in Worker, InsertMovement(w) PROVE IInv'
<1> USE DEF IInv
<1> DEFINE k == ThisCell(w)
<1>1. pc[w] = "move" /\ Acceptable(ThisCall(w)) /\ k \in Key /\ ThisCall(w) \in Call
  BY CallTyped, CellTyped DEF InsertMovement, WorkerInv, ArgumentsChecked
<1>2. ThisCall(w)' = ThisCall(w) /\ k' = k /\ Delta(w)' = Delta(w)
  BY DEF InsertMovement, script, seen, ThisCall, ThisCell, Delta
<1>3. Delta(w) \in Int
  BY <1>1, DeltaTyped DEF TypeOK
<1>4. TypeOK'
  <2>1. moved' \in [Worker -> [Key -> Int]]
    BY <1>1, <1>3 DEF InsertMovement, TypeOK
  <2>2. pc' \in [Worker -> Statement]
    BY DEF InsertMovement, TypeOK, Statement
  <2>3. QED
    BY <2>1, <2>2 DEF InsertMovement, TypeOK, stock, script, seen
<1>5. \A v \in Worker \ {w} : SessionKept(v) /\ LocksKept(v)
  BY DEF InsertMovement, TypeOK, stock, script, seen, SessionKept, LocksKept
<1>6. pc'[w] = IF ThisCall(w).op = "receive" THEN "lock" ELSE "write"
  BY DEF InsertMovement, TypeOK
<1>7. \A c \in Key : moved'[w][c] = moved[w][c] + (IF c = k THEN Delta(w) ELSE 0)
  BY <1>1, <1>3 DEF InsertMovement, TypeOK
<1>8. DraftsBalance(w)'
  <2>1. SUFFICES ASSUME NEW c \in Key
                 PROVE  moved'[w][c] = Drafted(w, c)' + Pending(w, c)'
    BY DEF DraftsBalance
  <2>2. Pending(w, c) = 0
    BY <1>1 DEF Pending, HalfPosted
  <2>3. Pending(w, c)' = IF c = k THEN Delta(w) ELSE 0
    BY <1>2, <1>6 DEF Pending, HalfPosted
  <2>4. Drafted(w, c)' = Drafted(w, c) /\ Drafted(w, c) \in Int
    BY DEF InsertMovement, TypeOK, stock, Drafted
  <2>5. moved[w][c] = Drafted(w, c) + Pending(w, c)
    BY DEF WorkerInv, DraftsBalance
  <2>6. QED
    BY <1>3, <1>7, <2>2, <2>3, <2>4, <2>5
<1>9. SeenIsTrue(w)'
  <2>1. Selected(w)' => Selected(w)
    BY <1>1, <1>2, <1>6 DEF Selected
  <2>2. QED
    BY <1>2, <2>1 DEF InsertMovement, WorkerInv, SeenIsTrue, VisibleQuantity, stock, seen
<1>10. /\ Session(w)' /\ ArgumentsChecked(w)' /\ OwnsItsDrafts(w)'
       /\ DraftsNonNegative(w)' /\ IssueCovered(w)'
  BY <1>1, <1>2, <1>6 DEF InsertMovement, script, seen, WorkerInv, Session,
     ArgumentsChecked, OwnsItsDrafts, DraftsNonNegative, IssueCovered
<1>11. QED
  BY <1>4, <1>5, <1>8, <1>9, <1>10, StepOfOneWorker, StockUnchanged
     DEF InsertMovement, WorkerInv

(* The end of a call keeps the worker at a call of its block, or commits. *)
LEMMA NextCallSession ==
    ASSUME IInv, NEW w \in Worker, pc[w] # "idle", NextCall(w), UNCHANGED block
    PROVE  /\ Session(w)'
           /\ at' \in [Worker -> Nat \ {0}] /\ pc' \in [Worker -> Statement]
           /\ pc'[w] \in {"check", "commit"}
           /\ \A v \in Worker \ {w} : at'[v] = at[v] /\ pc'[v] = pc[v]
<1>1. block[w] \in Seq(Call) /\ at[w] \in 1..Len(block[w]) /\ Len(block[w]) \in Nat
  BY BlocksAssumption DEF IInv, WorkerInv, Session
<1>2. \/ /\ at' = [at EXCEPT ![w] = @ + 1] /\ at[w] + 1 \in 1..Len(block[w])
         /\ pc' = [pc EXCEPT ![w] = "check"]
      \/ at' = at /\ pc' = [pc EXCEPT ![w] = "commit"]
  <2>1. at[w] < Len(block[w]) => at[w] + 1 \in 1..Len(block[w])
    BY <1>1
  <2>2. QED
    BY <2>1 DEF NextCall
<1>3. at' \in [Worker -> Nat \ {0}] /\ pc' \in [Worker -> Statement]
  <2>1. at[w] + 1 \in Nat \ {0}
    BY <1>1
  <2>2. at \in [Worker -> Nat \ {0}] /\ pc \in [Worker -> Statement]
    BY DEF IInv, TypeOK
  <2>3. at' \in [Worker -> Nat \ {0}]
    BY <1>2, <2>1, <2>2
  <2>4. pc' \in [Worker -> Statement]
    BY <1>2, <2>2 DEF Statement
  <2>5. QED
    BY <2>3, <2>4
<1>4. pc'[w] \in {"check", "commit"} /\ at'[w] \in 1..Len(block[w])
  BY <1>1, <1>2 DEF IInv, TypeOK
<1>5. \A v \in Worker \ {w} : at'[v] = at[v] /\ pc'[v] = pc[v]
  BY <1>2 DEF IInv, TypeOK
<1>6. Session(w)'
  BY <1>4 DEF IInv, WorkerInv, Session
<1>7. QED
  BY <1>3, <1>4, <1>5, <1>6

(* A step that only moves from one call of a block to the next. *)
LEMMA CallEndsInv ==
    ASSUME IInv, NEW w \in Worker, pc[w] \in {"move", "alert"}, ~HalfPosted(w),
           NextCall(w), UNCHANGED <<stock, lock, block, seen, work>>
    PROVE  IInv'
<1> USE DEF IInv
<1>1. /\ Session(w)' /\ pc'[w] \in {"check", "commit"}
      /\ at' \in [Worker -> Nat \ {0}] /\ pc' \in [Worker -> Statement]
      /\ \A v \in Worker \ {w} : at'[v] = at[v] /\ pc'[v] = pc[v]
  BY NextCallSession
<1>2. TypeOK'
  BY <1>1 DEF TypeOK, stock, seen, work
<1>3. Selected(w)' = FALSE /\ HalfPosted(w)' = FALSE
  BY <1>1 DEF Selected, HalfPosted
<1>4. WorkerInv(w)'
  BY <1>1, <1>3 DEF WorkerInv, ArgumentsChecked, OwnsItsDrafts, DraftsNonNegative,
     SeenIsTrue, IssueCovered, DraftsBalance, Drafted, Pending, stock, work
<1>5. \A v \in Worker \ {w} : SessionKept(v) /\ LocksKept(v)
  BY <1>1 DEF TypeOK, stock, seen, work, SessionKept, LocksKept
<1>6. QED
  BY <1>2, <1>4, <1>5, StepOfOneWorker, StockUnchanged

LEMMA NothingToAdjustInv ==
    ASSUME IInv, NEW w \in Worker, NothingToAdjust(w) PROVE IInv'
BY CallEndsInv DEF NothingToAdjust, HalfPosted

LEMMA EvaluateAlertInv ==
    ASSUME IInv, NEW w \in Worker, EvaluateAlert(w) PROVE IInv'
BY CallEndsInv DEF EvaluateAlert, HalfPosted

-----------------------------------------------------------------------------
(* Whichever way the item is written - F("quantity") + delta, the counted   *)
(* quantity, or a new row - it moves by the movement's quantity.            *)
LEMMA NewQuantityMoves ==
    ASSUME IInv, NEW w \in Worker, pc[w] = "write",
           found[w] \/ ThisCell(w) \notin rows
    PROVE  NewQuantity(w) = VisibleQuantity(w, ThisCell(w)) + Delta(w)
<1> USE DEF IInv
<1>1. ThisCall(w) \in Call /\ ThisCell(w) \in Key
  BY CallTyped, CellTyped DEF WorkerInv, ArgumentsChecked
<1>2. VisibleQuantity(w, ThisCell(w)) \in Int
  BY <1>1 DEF TypeOK, VisibleQuantity
<1>3. current[w] = VisibleQuantity(w, ThisCell(w))
  <2>1. CASE found[w]
    BY <2>1 DEF WorkerInv, SeenIsTrue, Selected
  <2>2. CASE ~found[w]
    BY <1>1, <2>2 DEF WorkerInv, SeenIsTrue, Selected, Reconciled, VisibleQuantity
  <2>3. QED
    BY <2>1, <2>2
<1>4. found[w] \/ VisibleQuantity(w, ThisCell(w)) = 0
  BY <1>3 DEF WorkerInv, SeenIsTrue, Selected
<1>5. CASE ThisCall(w).op = "adjust"
  <2>1. Delta(w) = ThisCall(w).quantity - current[w]
    BY <1>5 DEF Delta, MovementQuantity
  <2>2. NewQuantity(w) = ThisCall(w).quantity /\ ThisCall(w).quantity \in Int
    BY <1>1, <1>5 DEF NewQuantity, Call
  <2>3. QED
    BY <1>2, <1>3, <2>1, <2>2
<1>6. CASE ThisCall(w).op # "adjust"
  BY <1>4, <1>6 DEF NewQuantity
<1>7. QED
  BY <1>5, <1>6

LEMMA NewQuantityNonNegative ==
    ASSUME IInv, NEW w \in Worker, pc[w] = "write", ~MayGoNegative,
           found[w] \/ ThisCell(w) \notin rows
    PROVE  NewQuantity(w) \in Nat
<1> USE DEF IInv
<1>1. ThisCall(w) \in Call /\ ThisCell(w) \in Key /\ Acceptable(ThisCall(w))
  BY CallTyped, CellTyped DEF WorkerInv, ArgumentsChecked
<1>2. ThisCall(w).quantity \in Int /\ ThisCall(w).op \in Operation
  BY <1>1 DEF Call
<1>3. NewQuantity(w) = VisibleQuantity(w, ThisCell(w)) + Delta(w)
  BY NewQuantityMoves
<1>4. VisibleQuantity(w, ThisCell(w)) \in Nat
  BY <1>1 DEF TypeOK, WorkerInv, DraftsNonNegative, NonNegative, VisibleQuantity
<1>5. CASE ThisCall(w).op = "receive"
  BY <1>1, <1>2, <1>3, <1>4, <1>5 DEF Delta, MovementQuantity, Acceptable
<1>6. CASE ThisCall(w).op = "adjust"
  BY <1>1, <1>2, <1>6 DEF NewQuantity, Acceptable
<1>7. CASE ThisCall(w).op = "issue"
  <2>1. ~ThisCall(w).allow_negative
    BY BlocksAssumption DEF WorkerInv, Session, MayGoNegative, ThisCall
  <2>2. current[w] \in Int /\ current[w] >= ThisCall(w).quantity
    BY <1>2, <1>7, <2>1 DEF TypeOK, WorkerInv, IssueCovered, Insufficient
  <2>3. ThisCall(w).quantity > 0 /\ Delta(w) = -ThisCall(w).quantity
    BY <1>1, <1>7 DEF Acceptable, Delta, MovementQuantity
  <2>4. found[w] /\ current[w] = VisibleQuantity(w, ThisCell(w))
    BY <1>2, <2>2, <2>3 DEF WorkerInv, SeenIsTrue, Selected
  <2>5. QED
    BY <1>2, <1>3, <2>2, <2>3, <2>4
<1>8. QED
  BY <1>2, <1>5, <1>6, <1>7 DEF Operation

(* Writing the item balances the movement that was pending. *)
LEMMA WriteDraftInv ==
    ASSUME IInv, NEW w \in Worker, pc[w] = "write",
           WriteDraft(w, ThisCell(w)),
           found[w] \/ ThisCell(w) \notin rows,
           lock' = [lock EXCEPT ![ThisCell(w)] = w], FreeFor(w, ThisCell(w))
    PROVE  IInv'
<1> USE DEF IInv
<1> DEFINE k == ThisCell(w)
<1>1. ThisCall(w) \in Call /\ k \in Key /\ Acceptable(ThisCall(w)) /\ Delta(w) \in Int
  BY CallTyped, CellTyped, DeltaTyped DEF WorkerInv, ArgumentsChecked, TypeOK
<1>2. NewQuantity(w) \in Int
  BY MaxQuantityAssumption DEF WriteDraft, Fits
<1>3. TypeOK'
  <2>1. draft' \in [Worker -> [Key -> Int]]
    BY <1>1, <1>2 DEF WriteDraft, TypeOK
  <2>2. wrote' \in [Worker -> SUBSET Key]
    BY <1>1 DEF WriteDraft, TypeOK
  <2>3. pc' \in [Worker -> Statement] /\ lock' \in [Key -> Worker \cup {NoWorker}]
    BY <1>1 DEF WriteDraft, TypeOK, Statement
  <2>4. QED
    BY <2>1, <2>2, <2>3 DEF WriteDraft, TypeOK, stock, script, seen
<1>4. \A v \in Worker \ {w} : SessionKept(v) /\ LocksKept(v)
  BY <1>1, WorkerAssumption DEF WriteDraft, FreeFor, TypeOK, stock, script, seen,
     SessionKept, LocksKept
<1>5. /\ pc'[w] = "alert" /\ wrote'[w] = wrote[w] \cup {k}
      /\ draft'[w] = [draft[w] EXCEPT ![k] = NewQuantity(w)]
      /\ moved' = moved /\ quantity' = quantity
  BY DEF WriteDraft, TypeOK, stock
<1>6. DraftsBalance(w)'
  <2>1. SUFFICES ASSUME NEW c \in Key PROVE moved[w][c] = Drafted(w, c)'
    BY <1>5 DEF DraftsBalance, Pending, HalfPosted, TypeOK
  <2>2. moved[w][c] = Drafted(w, c) + Pending(w, c)
    BY DEF WorkerInv, DraftsBalance
  <2>3. CASE c = k
    <3>1. Pending(w, c) = Delta(w)
      BY <2>3 DEF Pending, HalfPosted
    <3>2. Drafted(w, c)' = NewQuantity(w) - quantity[k]
      BY <1>1, <1>5, <2>3 DEF Drafted, TypeOK
    <3>3. Drafted(w, c) = VisibleQuantity(w, k) - quantity[k]
      BY <1>1, <2>3 DEF Drafted, VisibleQuantity, TypeOK
    <3>4. NewQuantity(w) = VisibleQuantity(w, k) + Delta(w)
      BY NewQuantityMoves
    <3>5. VisibleQuantity(w, k) \in Int /\ quantity[k] \in Int
      BY <1>1 DEF TypeOK, VisibleQuantity
    <3>6. QED
      BY <1>1, <2>2, <3>1, <3>2, <3>3, <3>4, <3>5
  <2>4. CASE c # k
    <3>1. Pending(w, c) = 0 /\ Drafted(w, c)' = Drafted(w, c) /\ Drafted(w, c) \in Int
      BY <1>1, <1>5, <2>4 DEF Pending, Drafted, TypeOK
    <3>2. QED
      BY <2>2, <3>1
  <2>5. QED
    BY <2>3, <2>4
<1>7. DraftsNonNegative(w)'
  <2>1. CASE MayGoNegative
    BY <2>1 DEF DraftsNonNegative
  <2>2. CASE ~MayGoNegative
    <3>1. NewQuantity(w) >= 0
      BY <2>2, NewQuantityNonNegative
    <3>2. \A c \in wrote[w] : c \in Key /\ draft[w][c] >= 0
      BY <2>2 DEF WorkerInv, DraftsNonNegative, TypeOK
    <3>3. QED
      BY <1>1, <1>5, <3>1, <3>2 DEF DraftsNonNegative, TypeOK
  <2>3. QED
    BY <2>1, <2>2
<1>8. OwnsItsDrafts(w)'
  BY <1>1, <1>5 DEF WorkerInv, OwnsItsDrafts, TypeOK
<1>9. Session(w)' /\ ArgumentsChecked(w)' /\ SeenIsTrue(w)' /\ IssueCovered(w)'
  BY <1>5 DEF WriteDraft, script, WorkerInv, Session, ArgumentsChecked, SeenIsTrue,
     Selected, IssueCovered
<1>10. QED
  BY <1>3, <1>4, <1>6, <1>7, <1>8, <1>9, StepOfOneWorker, StockUnchanged
     DEF WriteDraft, WorkerInv

LEMMA UpdateItemInv == ASSUME IInv, NEW w \in Worker, UpdateItem(w) PROVE IInv'
<1>1. lock[ThisCell(w)] = w
  BY DEF UpdateItem, IInv, WorkerInv, SeenIsTrue, Selected
<1>2. ThisCell(w) \in Key
  BY CellTyped DEF UpdateItem, IInv, WorkerInv, ArgumentsChecked
<1>3. lock' = [lock EXCEPT ![ThisCell(w)] = w] /\ FreeFor(w, ThisCell(w))
  BY <1>1, <1>2 DEF UpdateItem, IInv, TypeOK, FreeFor
<1>4. QED
  BY <1>3, WriteDraftInv DEF UpdateItem

LEMMA InsertItemInv == ASSUME IInv, NEW w \in Worker, InsertItem(w) PROVE IInv'
BY WriteDraftInv DEF InsertItem

LEMMA SelectAgainInv == ASSUME IInv, NEW w \in Worker, SelectAgain(w) PROVE IInv'
<1> USE DEF IInv
<1>1. ThisCall(w)' = ThisCall(w) /\ ThisCell(w)' = ThisCell(w) /\ Delta(w)' = Delta(w)
  BY DEF SelectAgain, script, seen, ThisCall, ThisCell, Delta
<1>2. pc[w] = "write" /\ pc'[w] = "lock" /\ ThisCall(w).op = "receive"
  BY DEF SelectAgain, TypeOK
<1>3. TypeOK'
  BY DEF SelectAgain, TypeOK, Statement, stock, script, seen, work
<1>4. \A v \in Worker \ {w} : SessionKept(v) /\ LocksKept(v)
  BY DEF SelectAgain, TypeOK, stock, script, seen, work, SessionKept, LocksKept
<1>5. DraftsBalance(w)'
  <2>1. \A c \in Key : Pending(w, c)' = Pending(w, c) /\ Drafted(w, c)' = Drafted(w, c)
    BY <1>1, <1>2 DEF SelectAgain, stock, work, Pending, HalfPosted, Drafted
  <2>2. QED
    BY <2>1 DEF SelectAgain, work, WorkerInv, DraftsBalance
<1>6. /\ Session(w)' /\ ArgumentsChecked(w)' /\ OwnsItsDrafts(w)'
      /\ DraftsNonNegative(w)' /\ SeenIsTrue(w)' /\ IssueCovered(w)'
  BY <1>1, <1>2 DEF SelectAgain, script, work, WorkerInv, Session, ArgumentsChecked,
     OwnsItsDrafts, DraftsNonNegative, SeenIsTrue, Selected, IssueCovered
<1>7. QED
  BY <1>3, <1>4, <1>5, <1>6, StepOfOneWorker, StockUnchanged DEF SelectAgain, WorkerInv

-----------------------------------------------------------------------------
(* The end of a transaction cleans one session and frees its locks only. *)
LEMMA EndTransactionInv ==
    ASSUME IInv, NEW w \in Worker, EndTransaction(w),
           rows' \subseteq Key, quantity' \in [Key -> Int], ledger' \in [Key -> Int],
           \A k \in Key : Fits(quantity'[k]),
           \A k \in Key : k \notin wrote[w] => quantity'[k] = quantity[k],
           Reconciled', NonNegative'
    PROVE  IInv'
<1> USE DEF IInv
<1>1. TypeOK'
  <2>1. lock' \in [Key -> Worker \cup {NoWorker}]
    BY DEF EndTransaction, TypeOK
  <2>2. block' \in [Worker -> Blocks \cup {<<>>}] /\ at' \in [Worker -> Nat \ {0}]
    BY DEF EndTransaction, TypeOK
  <2>3. pc' \in [Worker -> Statement] /\ found' \in [Worker -> BOOLEAN]
    BY DEF EndTransaction, TypeOK, Statement
  <2>4. current' \in [Worker -> Int] /\ wrote' \in [Worker -> SUBSET Key]
    BY DEF EndTransaction, TypeOK
  <2>5. draft' \in [Worker -> [Key -> Int]] /\ moved' \in [Worker -> [Key -> Int]]
    BY DEF EndTransaction, TypeOK
  <2>6. \A v \in Worker : \A k \in wrote'[v] : Fits(draft'[v][k])
    BY DEF EndTransaction, TypeOK
  <2>7. QED
    BY <2>1, <2>2, <2>3, <2>4, <2>5, <2>6 DEF TypeOK
<1>2. /\ pc'[w] = "idle" /\ block'[w] = <<>> /\ at'[w] = 1
      /\ wrote'[w] = {} /\ moved'[w] = [k \in Key |-> 0]
  BY DEF EndTransaction, TypeOK
<1>3. WorkerInv(w)'
  BY <1>2 DEF WorkerInv, Session, ArgumentsChecked, OwnsItsDrafts, DraftsNonNegative,
     SeenIsTrue, Selected, IssueCovered, DraftsBalance, Drafted, Pending, HalfPosted
<1>4. ASSUME NEW v \in Worker \ {w} PROVE SessionKept(v)
  BY DEF EndTransaction, TypeOK, SessionKept
<1>5. ASSUME NEW v \in Worker \ {w} PROVE LocksKept(v)
  BY DEF EndTransaction, TypeOK, LocksKept, WorkerInv, OwnsItsDrafts
<1>6. QED
  BY <1>1, <1>3, <1>4, <1>5, StepOfOneWorker

LEMMA RollbackInv == ASSUME IInv, NEW w \in Worker, Rollback(w) PROVE IInv'
BY EndTransactionInv, StockUnchanged DEF Rollback, IInv, TypeOK, stock

(* At the commit nothing is pending: the movements are the items' changes. *)
LEMMA CommitPosts ==
    ASSUME IInv, NEW w \in Worker, Commit(w), NEW k \in Key
    PROVE  /\ quantity'[k] = VisibleQuantity(w, k) /\ quantity'[k] \in Int
           /\ moved[w][k] = quantity'[k] - quantity[k]
           /\ ledger'[k] = ledger[k] + (quantity'[k] - quantity[k])
           /\ k \notin wrote[w] => quantity'[k] = quantity[k]
<1>1. quantity'[k] = VisibleQuantity(w, k) /\ ledger'[k] = ledger[k] + moved[w][k]
  BY DEF Commit
<1>2. VisibleQuantity(w, k) \in Int /\ quantity[k] \in Int
  BY DEF IInv, TypeOK, VisibleQuantity
<1>3. moved[w][k] = Drafted(w, k)
  <2>1. moved[w][k] = Drafted(w, k) + Pending(w, k)
    BY DEF IInv, WorkerInv, DraftsBalance
  <2>2. Pending(w, k) = 0
    BY DEF Commit, Pending, HalfPosted
  <2>3. Drafted(w, k) \in Int
    BY DEF IInv, TypeOK, Drafted
  <2>4. QED
    BY <2>1, <2>2, <2>3
<1>4. Drafted(w, k) = VisibleQuantity(w, k) - quantity[k]
  BY <1>2 DEF Drafted, VisibleQuantity
<1>5. QED
  BY <1>1, <1>2, <1>3, <1>4 DEF VisibleQuantity

LEMMA CommitInv == ASSUME IInv, NEW w \in Worker, Commit(w) PROVE IInv'
<1> USE DEF IInv
<1>1. rows' \subseteq Key /\ quantity' \in [Key -> Int]
  BY CommitPosts DEF Commit, TypeOK
<1>2. ledger' \in [Key -> Int] /\ \A k \in Key : Fits(quantity'[k])
  BY CommitPosts DEF Commit, TypeOK, VisibleQuantity
<1>3. Reconciled'
  <2>1. SUFFICES ASSUME NEW k \in Key
                 PROVE  ledger'[k] = quantity'[k] /\ (k \notin rows' => quantity'[k] = 0)
    BY DEF Reconciled
  <2>2. ledger[k] = quantity[k] /\ (k \notin rows => quantity[k] = 0) /\ quantity[k] \in Int
    BY DEF Reconciled, TypeOK
  <2>3. rows' = rows \cup wrote[w]
    BY DEF Commit
  <2>4. QED
    BY <2>2, <2>3, CommitPosts
<1>4. NonNegative'
  <2>1. CASE MayGoNegative
    BY <2>1 DEF NonNegative
  <2>2. CASE ~MayGoNegative
    BY <2>2, CommitPosts DEF NonNegative, WorkerInv, DraftsNonNegative, VisibleQuantity
  <2>3. QED
    BY <2>1, <2>2
<1>5. QED
  BY <1>1, <1>2, <1>3, <1>4, CommitPosts, EndTransactionInv DEF Commit

-----------------------------------------------------------------------------
LEMMA InitInv == Init => IInv
<1> SUFFICES ASSUME Init PROVE IInv
  OBVIOUS
<1>1. TypeOK
  BY MaxQuantityAssumption DEF Init, TypeOK, Statement, Fits
<1>2. ASSUME NEW w \in Worker PROVE WorkerInv(w)
  BY DEF Init, WorkerInv, Session, ArgumentsChecked, OwnsItsDrafts, DraftsNonNegative,
     SeenIsTrue, Selected, IssueCovered, DraftsBalance, Drafted, Pending, HalfPosted
<1>3. Reconciled /\ NonNegative
  BY DEF Init, Reconciled, NonNegative
<1>4. QED
  BY <1>1, <1>2, <1>3 DEF IInv

LEMMA StepInv == IInv /\ [Next]_vars => IInv'
<1> SUFFICES ASSUME IInv, [Next]_vars PROVE IInv'
  OBVIOUS
<1>1. CASE UNCHANGED vars
  <2>1. /\ rows' = rows /\ quantity' = quantity /\ ledger' = ledger /\ lock' = lock
        /\ TypeOK' /\ \A w \in Worker : SessionKept(w) /\ LocksKept(w)
    BY <1>1 DEF vars, IInv, TypeOK, SessionKept, LocksKept
  <2>2. \A w \in Worker : WorkerInv(w)'
    BY <2>1, OtherWorkerInv DEF IInv
  <2>3. QED
    BY <2>1, <2>2, StockUnchanged DEF stock, IInv
<1>2. ASSUME NEW w \in Worker, Step(w) PROVE IInv'
  <2>1. CASE Begin(w)
    BY <2>1, BeginInv
  <2>2. CASE Check(w) \/ SelectForUpdate(w) \/ InsertMovement(w) \/ NothingToAdjust(w)
    BY <2>2, CheckInv, SelectForUpdateInv, InsertMovementInv, NothingToAdjustInv
  <2>3. CASE UpdateItem(w) \/ InsertItem(w) \/ SelectAgain(w) \/ EvaluateAlert(w)
    BY <2>3, UpdateItemInv, InsertItemInv, SelectAgainInv, EvaluateAlertInv
  <2>4. CASE Commit(w)
    BY <2>4, CommitInv
  <2>5. CASE Fail(w) \/ DeadlockVictim(w) \/ Crash(w)
    BY <2>5, RollbackInv DEF Fail, DeadlockVictim, Crash
  <2>6. QED
    BY <1>2, <2>1, <2>2, <2>3, <2>4, <2>5 DEF Step, Advance
<1>3. QED
  BY <1>1, <1>2 DEF Next

THEOREM Invariance == Spec => []IInv
BY InitInv, StepInv, PTL DEF Spec

(* The variables keep their types, and committed balances and uncommitted   *)
(* ones fit the digits of their column for every cell.                      *)
THEOREM TypeCorrect == Spec => []TypeOK
BY Invariance, PTL DEF IInv

(* InventoryItem.quantity is the sum of the cell's StockMovement rows in    *)
(* every committed state, for any number of workers and any blocks.         *)
THEOREM AlwaysReconciled == Spec => []Reconciled
BY Invariance, PTL DEF IInv

(* If no caller passes allow_negative, no committed balance is negative. *)
THEOREM NeverOversold == Spec => []NonNegative
BY Invariance, PTL DEF IInv

-----------------------------------------------------------------------------
(* Every other statement than a commit is invisible. *)
LEMMA OnlyCommitsAreVisible ==
    ASSUME NEW w \in Worker, Step(w), ~Commit(w)
    PROVE  UNCHANGED stock
BY DEF Step, Advance, Begin, Check, SelectForUpdate, InsertMovement, NothingToAdjust,
   UpdateItem, InsertItem, WriteDraft, SelectAgain, EvaluateAlert, Fail, Crash,
   DeadlockVictim, Rollback, stock

-----------------------------------------------------------------------------
(* SerialCommits.  What a block makes of balances is a fold over its calls; *)
(* its recursive definition is solved once (BlockFold) and used one call at *)
(* a time (OneCallMore).                                                    *)

Balances == [Key -> Int]
Reached(call) == [r \in SUBSET Balances |-> UNION {Serial!Outcomes(call, b) : b \in r}]
Chain(b) == [i \in 1..Len(b) |-> Reached(b[i])]

(* What a call does to a balance, in the words of this module. *)
LEMMA OutcomesAre ==
    ASSUME NEW c, NEW b
    PROVE  Serial!Outcomes(c, b) =
             IF /\ Acceptable(c) /\ ~Insufficient(c, b[c.cell])
                /\ Fits(MovementQuantity(c, b[c.cell]))
                /\ Fits(b[c.cell] + MovementQuantity(c, b[c.cell]))
             THEN {[b EXCEPT ![c.cell] = @ + MovementQuantity(c, b[c.cell])]}
                    \cup (IF c.op = "adjust" /\ c.quantity = 0 THEN {b} ELSE {})
             ELSE {}
  <1>1. Serial!Key = Key
    BY DEF Serial!Key, Key, Serial!Cell, Cell, Serial!ValidContext, ValidContext
  <1>2. Serial!Acceptable(c) = Acceptable(c)
    BY <1>1 DEF Serial!Acceptable, Acceptable
  <1>3. \A n : Serial!Fits(n) = Fits(n) /\ Serial!Insufficient(c, n) = Insufficient(c, n)
             /\ Serial!MovementQuantity(c, n) = MovementQuantity(c, n)
    BY DEF Serial!Fits, Fits, Serial!Insufficient, Insufficient, Serial!MovementQuantity,
           MovementQuantity
  <1> QED
    BY <1>2, <1>3 DEF Serial!Outcomes

LEMMA OutcomesTyped ==
    ASSUME NEW c \in Call, NEW b \in Balances
    PROVE  Serial!Outcomes(c, b) \in SUBSET Balances
  <1>1. ASSUME Acceptable(c) PROVE c.cell \in Key /\ b[c.cell] \in Int /\ c.quantity \in Int
    BY <1>1 DEF Balances, Acceptable, Call
  <1>2. ASSUME Acceptable(c) PROVE MovementQuantity(c, b[c.cell]) \in Int
    BY <1>1, <1>2 DEF MovementQuantity, Call, Operation
  <1>3. ASSUME Acceptable(c)
        PROVE  [b EXCEPT ![c.cell] = @ + MovementQuantity(c, b[c.cell])] \in Balances
    BY <1>1, <1>2, <1>3 DEF Balances
  <1> QED
    BY <1>3, OutcomesAre

(* The recursive definition of the fold over a block has a solution, which *)
(* stays within the balances there are.                                    *)
LEMMA BlockFold ==
    ASSUME NEW b \in Seq(Call), NEW x \in Balances
    PROVE  \E h : /\ Chains(h, Chain(b), {x}, Len(b))
                  /\ Serial!BlockOutcomes(b, x) = h[1..Len(b)]
                  /\ h[1..Len(b)] \in SUBSET Balances
  <1> DEFINE Solves(h) == h = [s \in SUBSET DOMAIN b |->
                  IF s = {} THEN {x}
                  ELSE UNION {Serial!Outcomes(b[Max(s)], y) : y \in h[s \ {Max(s)}]}]
             n == Len(b)
             V == SUBSET Balances
             k == CHOOSE h : Solves(h)
  <1>1. Serial!BlockOutcomes(b, x) = k[DOMAIN b]
    BY DEF Serial!BlockOutcomes, Serial!FoldLeft, Serial!MapThenFoldSet, Serial!Max, Max
  <1>2. n \in Nat /\ DOMAIN b = 1..n /\ {x} \in V /\ \A i \in 1..n : b[i] \in Call
    OBVIOUS
  <1>3. Chain(b) \in [1..n -> [V -> V]]
    <2>1. ASSUME NEW i \in 1..n PROVE Reached(b[i]) \in [V -> V]
      <3>1. b[i] \in Call
        BY <1>2
      <3> QED
        BY <3>1, OutcomesTyped DEF Reached
    <2> QED
      BY <2>1 DEF Chain
  <1>4. PICK h \in [SUBSET (1..n) -> V] : Chains(h, Chain(b), {x}, n)
    <2> HIDE DEF n, V
    <2> QED
      BY <1>2, <1>3, ChainsExist
  <1>5. Solves(h)
    <2>1. ASSUME NEW s \in SUBSET (1..n), s # {}
          PROVE  h[s] = UNION {Serial!Outcomes(b[Max(s)], y) : y \in h[s \ {Max(s)}]}
      <3>1. Max(s) \in 1..n /\ s \ {Max(s)} \in SUBSET (1..n)
        BY <2>1, <1>2, WithoutLast
      <3>2. h[s] = Chain(b)[Max(s)][h[s \ {Max(s)}]] /\ h[s \ {Max(s)}] \in V
        BY <1>4, <2>1, <3>1 DEF Chains
      <3> QED
        BY <3>1, <3>2 DEF Chain, Reached
    <2> QED
      BY <1>2, <1>4, <2>1 DEF Chains
  <1>6. Solves(k)
    BY <1>5
  <1>7. \A s \in SUBSET (1..n) : k[s] = h[s]
    <2> DEFINE Bad == {s \in SUBSET (1..n) : k[s] # h[s]}
    <2> SUFFICES ASSUME Bad # {} PROVE FALSE
      OBVIOUS
    <2>1. PICK s \in Bad : \A u \in Bad : ~(u \subseteq s /\ u # s)
      <3> DEFINE N == 1..n
      <3>1. Bad \subseteq SUBSET N
        OBVIOUS
      <3>2. IsFiniteSet(N)
        BY FS_Interval, <1>2
      <3> HIDE DEF Bad, N
      <3> QED
        BY <3>1, <3>2, LeastSubset
    <2>2. s \in SUBSET (1..n)
      BY <2>1
    <2> HIDE DEF k, n
    <2>3. s # {}
      BY <1>2, <1>5, <1>6, <2>1, <2>2
    <2>4. s \ {Max(s)} \in SUBSET (1..n) /\ Max(s) \in s
      BY <1>2, <2>2, <2>3, WithoutLast
    <2>5. k[s \ {Max(s)}] = h[s \ {Max(s)}]
      BY <2>1, <2>4
    <2>6. /\ k[s] = UNION {Serial!Outcomes(b[Max(s)], y) : y \in k[s \ {Max(s)}]}
          /\ h[s] = UNION {Serial!Outcomes(b[Max(s)], y) : y \in h[s \ {Max(s)}]}
      BY <1>2, <1>5, <1>6, <2>2, <2>3
    <2> QED
      BY <2>1, <2>5, <2>6
  <1> HIDE DEF k
  <1> QED
    BY <1>1, <1>2, <1>4, <1>7

(* No call, *)
LEMMA NoCallOutcomes ==
    ASSUME NEW x \in Balances
    PROVE  Serial!BlockOutcomes(<<>>, x) = {x}
  <1>1. <<>> \in Seq(Call) /\ 1..Len(<<>>) = {}
    OBVIOUS
  <1>2. PICK h : Chains(h, Chain(<<>>), {x}, 0) /\ Serial!BlockOutcomes(<<>>, x) = h[{}]
    BY <1>1, BlockFold
  <1> QED
    BY <1>2 DEF Chains

(* and one call more. *)
LEMMA OneCallMore ==
    ASSUME NEW b \in Seq(Call), NEW c \in Call, NEW x \in Balances
    PROVE  /\ Serial!BlockOutcomes(b, x) \in SUBSET Balances
           /\ Serial!BlockOutcomes(Append(b, c), x)
                = UNION {Serial!Outcomes(c, y) : y \in Serial!BlockOutcomes(b, x)}
  <1> DEFINE m == Len(b)
             d == Append(b, c)
  <1>1. m \in Nat /\ d \in Seq(Call) /\ Len(d) = m + 1 /\ d[m + 1] = c
        /\ \A i \in 1..m : d[i] = b[i]
    OBVIOUS
  <1>2. PICK h : /\ Chains(h, Chain(b), {x}, m) /\ Serial!BlockOutcomes(b, x) = h[1..m]
                 /\ h[1..m] \in SUBSET Balances
    BY BlockFold
  <1>3. PICK k : Chains(k, Chain(d), {x}, m + 1) /\ Serial!BlockOutcomes(d, x) = k[1..(m + 1)]
    BY <1>1, BlockFold
  <1>4. \A i \in 1..m : Chain(d)[i] = Chain(b)[i]
    BY <1>1 DEF Chain
  <1>5. k[1..m] = h[1..m]
    <2>1. \A s \in SUBSET (1..m) : k[s] = h[s]
      <3> HIDE DEF m, d
      <3>1. m + 1 \in Nat /\ m \in 0..(m + 1)
        BY <1>1
      <3> QED
        BY <1>2, <1>3, <1>4, <3>1, ChainsAgree
    <2> QED
      BY <2>1
  <1> HIDE DEF m, d
  <1> PICK q : q = m + 1
    OBVIOUS
  <1> PICK N : N = 1..q
    OBVIOUS
  <1>6. q \in Nat /\ N \in SUBSET (1..q) /\ N # {} /\ q \in N /\ N \ {q} = 1..m
    <2>1. m \in Nat
      BY <1>1
    <2>2. q \in 1..q /\ \A i \in 1..q : i = q \/ i \in 1..m
      BY <2>1
    <2>3. \A i \in 1..m : i \in 1..q /\ i # q
      BY <2>1
    <2> QED
      BY <2>1, <2>2, <2>3
  <1>9. Max(N) = q
    <2>1. Max(N) \in N /\ \A i \in N : i <= Max(N)
      BY <1>6, WithoutLast
    <2>2. \A i \in N : i \in Nat /\ i <= q
      BY <1>1
    <2> QED
      BY <1>6, <2>1, <2>2
  <1>7. k[N] = Chain(d)[q][k[1..m]]
    <2>1. N \in SUBSET (1..(q)) /\ N # {} /\ N \ {Max(N)} = 1..m
      BY <1>6, <1>9
    <2>2. k[N] = Chain(d)[Max(N)][k[N \ {Max(N)}]]
      BY <1>3, <2>1 DEF Chains
    <2> QED
      BY <1>9, <2>1, <2>2
  <1>8. Chain(d)[m + 1] = Reached(c)
    BY <1>1 DEF Chain
  <1> QED
    BY <1>2, <1>3, <1>5, <1>6, <1>7, <1>8 DEF Reached, d

-----------------------------------------------------------------------------
(* The calls a transaction has executed. *)
CallsDone(w) == IF pc[w] \in {"alert", "commit"} THEN at[w] ELSE at[w] - 1
Executed(w) == SubSeq(block[w], 1, CallsDone(w))

(* Balances the columns can hold, and how they look to a worker. *)
Fitting(q) == q \in Balances /\ \A k \in Key : Fits(q[k])
Overlay(w, q) == [k \in Key |-> IF k \in wrote[w] THEN draft[w][k] ELSE q[k]]
AgreesWhereLocked(w, q) == \A k \in Key : lock[k] = w => q[k] = quantity[k]

(* What a transaction has drafted is what its calls make of any balances   *)
(* that others may still commit: it has locked all it has read.            *)
SerialSoFar(w) ==
    \A q : Fitting(q) /\ AgreesWhereLocked(w, q) =>
              Overlay(w, q) \in Serial!BlockOutcomes(Executed(w), q)

(* It wrote what its calls name. *)
WroteItsCells(w) ==
    /\ wrote[w] \subseteq Serial!CellsOf(block[w])
    /\ \A i \in 1..CallsDone(w) : block[w][i].op # "adjust" => block[w][i].cell \in wrote[w]

DraftsFit(w) ==
    /\ \A k \in wrote[w] : Fits(draft[w][k])
    /\ HalfPosted(w) => Fits(Delta(w))

(* It commits after the last of its calls. *)
AtTheEnd(w) == pc[w] = "commit" => at[w] = Len(block[w])

SerialWorker(w) == SerialSoFar(w) /\ WroteItsCells(w) /\ DraftsFit(w) /\ AtTheEnd(w)

SerialInv ==
    IInv /\ \A w \in Worker : SerialWorker(w)

(* A step of one worker leaves the others as they are. *)
LEMMA OthersKept ==
    ASSUME IInv, NEW w \in Worker, Step(w)
    PROVE  \A v \in Worker \ {w} : SessionKept(v) /\ LocksKept(v)
  <1> USE DEF IInv
  <1>1. ASSUME Begin(w) PROVE \A v \in Worker \ {w} : SessionKept(v) /\ LocksKept(v)
    BY <1>1 DEF Begin, TypeOK, stock, seen, work, SessionKept, LocksKept
  <1>2. ASSUME Check(w) PROVE \A v \in Worker \ {w} : SessionKept(v) /\ LocksKept(v)
    BY <1>2 DEF Check, TypeOK, stock, script, work, SessionKept, LocksKept
  <1>3. ASSUME SelectForUpdate(w) PROVE \A v \in Worker \ {w} : SessionKept(v) /\ LocksKept(v)
    <2>1. \A v \in Worker \ {w} : \A c \in Key : lock[c] = v => lock'[c] = v
      BY <1>3, WorkerAssumption DEF SelectForUpdate, FreeFor, TypeOK
    <2> QED
      BY <1>3, <2>1 DEF SelectForUpdate, TypeOK, stock, script, work, SessionKept, LocksKept
  <1>4. ASSUME InsertMovement(w) PROVE \A v \in Worker \ {w} : SessionKept(v) /\ LocksKept(v)
    BY <1>4 DEF InsertMovement, TypeOK, stock, script, seen, SessionKept, LocksKept
  <1>5. ASSUME NothingToAdjust(w) \/ EvaluateAlert(w)
        PROVE  \A v \in Worker \ {w} : SessionKept(v) /\ LocksKept(v)
    <2>1. pc[w] # "idle" /\ NextCall(w) /\ UNCHANGED block
      BY <1>5 DEF NothingToAdjust, EvaluateAlert
    <2>2. \A v \in Worker \ {w} : at'[v] = at[v] /\ pc'[v] = pc[v]
      BY <2>1, NextCallSession
    <2> QED
      BY <1>5, <2>2 DEF NothingToAdjust, EvaluateAlert, TypeOK, stock, seen, work, SessionKept,
         LocksKept
  <1>6. ASSUME UpdateItem(w) PROVE \A v \in Worker \ {w} : SessionKept(v) /\ LocksKept(v)
    BY <1>6 DEF UpdateItem, WriteDraft, TypeOK, stock, script, seen, SessionKept, LocksKept
  <1>7. ASSUME InsertItem(w) PROVE \A v \in Worker \ {w} : SessionKept(v) /\ LocksKept(v)
    <2>1. \A v \in Worker \ {w} : \A c \in Key : lock[c] = v => lock'[c] = v
      BY <1>7, WorkerAssumption DEF InsertItem, FreeFor, TypeOK
    <2> QED
      BY <1>7, <2>1 DEF InsertItem, WriteDraft, TypeOK, stock, script, seen, SessionKept, LocksKept
  <1>8. ASSUME SelectAgain(w) PROVE \A v \in Worker \ {w} : SessionKept(v) /\ LocksKept(v)
    BY <1>8 DEF SelectAgain, TypeOK, stock, script, seen, work, SessionKept, LocksKept
  <1>9. ASSUME Commit(w) \/ Rollback(w)
        PROVE  \A v \in Worker \ {w} : SessionKept(v) /\ LocksKept(v)
    <2>1. EndTransaction(w) /\ \A k \in Key : k \notin wrote[w] => quantity'[k] = quantity[k]
      BY <1>9, CommitPosts DEF Commit, Rollback, stock
    <2>2. ASSUME NEW v \in Worker \ {w} PROVE SessionKept(v)
      BY <2>1 DEF EndTransaction, TypeOK, SessionKept
    <2>3. ASSUME NEW v \in Worker \ {w} PROVE LocksKept(v)
      BY <2>1 DEF EndTransaction, TypeOK, LocksKept, WorkerInv, OwnsItsDrafts
    <2> QED
      BY <2>2, <2>3
  <1> QED
    BY <1>1, <1>2, <1>3, <1>4, <1>5, <1>6, <1>7, <1>8, <1>9
       DEF Step, Advance, Fail, DeadlockVictim, Crash

LEMMA OtherSerialWorker ==
    ASSUME IInv, NEW v \in Worker, SerialWorker(v), SessionKept(v), LocksKept(v)
    PROVE  SerialWorker(v)'
  <1>1. /\ CallsDone(v)' = CallsDone(v) /\ ThisCall(v)' = ThisCall(v) /\ Delta(v)' = Delta(v)
        /\ HalfPosted(v)' = HalfPosted(v)
    BY DEF SessionKept, CallsDone, ThisCall, Delta, HalfPosted
  <1>2. WroteItsCells(v)' /\ DraftsFit(v)' /\ AtTheEnd(v)'
    BY <1>1 DEF SerialWorker, SessionKept, WroteItsCells, DraftsFit, AtTheEnd, Serial!CellsOf
  <1>3. Executed(v)' = Executed(v)
    BY <1>1 DEF Executed, SessionKept
  <1>4. ASSUME NEW q, Fitting(q), AgreesWhereLocked(v, q)'
        PROVE  Overlay(v, q)' \in Serial!BlockOutcomes(Executed(v)', q)
    <2>1. AgreesWhereLocked(v, q)
      BY <1>4 DEF AgreesWhereLocked, LocksKept
    <2>2. Overlay(v, q)' = Overlay(v, q)
      BY DEF Overlay, SessionKept
    <2> QED
      BY <1>3, <1>4, <2>1, <2>2 DEF SerialWorker, SerialSoFar
  <1>5. SerialSoFar(v)'
    BY <1>4 DEF SerialSoFar, Fitting
  <1> QED
    BY <1>2, <1>5 DEF SerialWorker

(* It is enough to look at the worker that moves. *)
LEMMA SerialStep ==
    ASSUME SerialInv, NEW w \in Worker, Step(w), IInv', SerialWorker(w)'
    PROVE  SerialInv'
  <1>1. \A v \in Worker \ {w} : SerialWorker(v)'
    BY OthersKept, OtherSerialWorker DEF SerialInv
  <1> QED
    BY <1>1 DEF SerialInv

(* A block up to a place, and one call further. *)
LEMMA OneFurther ==
    ASSUME NEW S, NEW b \in Seq(S), NEW i \in 1..Len(b)
    PROVE  /\ b[i] \in S /\ SubSeq(b, 1, i - 1) \in Seq(S)
           /\ SubSeq(b, 1, i) = Append(SubSeq(b, 1, i - 1), b[i])
  <1>1. i \in Nat /\ i - 1 \in Nat /\ Len(b) \in Nat /\ i <= Len(b)
    OBVIOUS
  <1>2. \A j \in 1..i : b[j] \in S
    BY <1>1
  <1>3. SubSeq(b, 1, i - 1) = [j \in 1..(i - 1) |-> b[j]] /\ SubSeq(b, 1, i) = [j \in 1..i |-> b[j]]
    BY <1>1
  <1>4. SubSeq(b, 1, i - 1) \in Seq(S) /\ Len(SubSeq(b, 1, i - 1)) = i - 1
    BY <1>1, <1>2, <1>3
  <1>5. PICK c : c = SubSeq(b, 1, i - 1)
    OBVIOUS
  <1>6. Append(c, b[i]) = [j \in 1..i |-> b[j]]
    <2>1. c \in Seq(S) /\ Len(c) = i - 1 /\ \A j \in 1..(i - 1) : c[j] = b[j]
      BY <1>1, <1>3, <1>4, <1>5
    <2>2. Append(c, b[i]) = [j \in 1..((i - 1) + 1) |-> IF j = (i - 1) + 1 THEN b[i] ELSE c[j]]
      BY <2>1
    <2>3. (i - 1) + 1 = i
      BY <1>1
    <2>4. \A j \in 1..i : (IF j = i THEN b[i] ELSE c[j]) = b[j]
      BY <1>1, <2>1
    <2> QED
      BY <2>2, <2>3, <2>4
  <1> QED
    BY <1>1, <1>2, <1>3, <1>4, <1>5, <1>6

(* A worker within a call has executed what comes before it. *)
LEMMA WithinCall ==
    ASSUME IInv, NEW w \in Worker, pc[w] # "idle"
    PROVE  /\ block[w] \in Seq(Call) /\ at[w] \in 1..Len(block[w]) /\ at[w] \in Nat
           /\ ThisCall(w) \in Call
           /\ SubSeq(block[w], 1, at[w] - 1) \in Seq(Call)
           /\ SubSeq(block[w], 1, at[w]) = Append(SubSeq(block[w], 1, at[w] - 1), ThisCall(w))
  <1>1. block[w] \in Seq(Call) /\ at[w] \in 1..Len(block[w])
    BY BlocksAssumption DEF IInv, WorkerInv, Session
  <1>2. at[w] \in Nat
    BY <1>1
  <1> QED
    BY <1>1, <1>2, OneFurther DEF ThisCall

(* A step within a call writes nothing; it may lock more. *)
LEMMA SerialWithin ==
    ASSUME SerialInv, NEW w \in Worker, pc[w] # "idle",
           Executed(w)' = Executed(w), CallsDone(w)' = CallsDone(w),
           block'[w] = block[w], wrote'[w] = wrote[w], draft'[w] = draft[w],
           quantity' = quantity, \A k \in Key : lock[k] = w => lock'[k] = w,
           HalfPosted(w)' => Fits(Delta(w)'), AtTheEnd(w)'
    PROVE  SerialWorker(w)'
  <1>1. SerialWorker(w)
    BY DEF SerialInv
  <1>2. WroteItsCells(w)' /\ DraftsFit(w)' /\ AtTheEnd(w)'
    BY <1>1 DEF SerialWorker, WroteItsCells, DraftsFit, Serial!CellsOf
  <1>3. ASSUME NEW q, Fitting(q), AgreesWhereLocked(w, q)'
        PROVE  Overlay(w, q)' \in Serial!BlockOutcomes(Executed(w)', q)
    <2>1. AgreesWhereLocked(w, q)
      BY <1>3 DEF AgreesWhereLocked
    <2>2. Overlay(w, q)' = Overlay(w, q)
      BY DEF Overlay
    <2> QED
      BY <1>1, <1>3, <2>1, <2>2 DEF SerialWorker, SerialSoFar
  <1>4. SerialSoFar(w)'
    BY <1>3 DEF SerialSoFar, Fitting
  <1> QED
    BY <1>2, <1>4 DEF SerialWorker

LEMMA NextCallEnds ==
    ASSUME IInv, NEW w \in Worker, pc[w] # "idle", NextCall(w), UNCHANGED block
    PROVE  AtTheEnd(w)'
  <1>1. at[w] \in 1..Len(block[w]) /\ Len(block[w]) \in Nat /\ TypeOK
    BY WithinCall DEF IInv
  <1>2. pc'[w] = "commit" => at'[w] = at[w] /\ ~(at[w] < Len(block[w]))
    BY <1>1 DEF NextCall, TypeOK
  <1> QED
    BY <1>1, <1>2 DEF AtTheEnd

LEMMA BeginSerial ==
    ASSUME SerialInv, NEW w \in Worker, Begin(w) PROVE SerialWorker(w)'
  <1> USE DEF SerialInv, IInv
  <1>1. PICK b \in Blocks : block' = [block EXCEPT ![w] = b]
    BY DEF Begin
  <1>2. b \in Seq(Call) /\ pc'[w] = "check" /\ at'[w] = 1 /\ block'[w] = b /\ wrote'[w] = {}
    BY <1>1, BlocksAssumption DEF Begin, WorkerInv, Session, work, TypeOK
  <1>3. CallsDone(w)' = 0 /\ Executed(w)' = <<>> /\ HalfPosted(w)' = FALSE
    <2>1. CallsDone(w)' = 0
      BY <1>2 DEF CallsDone
    <2>2. SubSeq(b, 1, 0) = <<>>
      BY <1>2
    <2> QED
      BY <1>2, <2>1, <2>2 DEF Executed, HalfPosted
  <1>4. WroteItsCells(w)' /\ DraftsFit(w)' /\ AtTheEnd(w)'
    BY <1>2, <1>3 DEF WroteItsCells, DraftsFit, AtTheEnd
  <1>5. ASSUME NEW q, Fitting(q) PROVE Overlay(w, q)' \in Serial!BlockOutcomes(Executed(w)', q)
    <2>1. Overlay(w, q)' = q
      BY <1>2, <1>5 DEF Overlay, Fitting, Balances
    <2> QED
      BY <1>3, <1>5, <2>1, NoCallOutcomes DEF Fitting
  <1>6. SerialSoFar(w)'
    BY <1>5 DEF SerialSoFar, Fitting
  <1> QED
    BY <1>4, <1>6 DEF SerialWorker

LEMMA CheckSerial ==
    ASSUME SerialInv, NEW w \in Worker, Check(w) PROVE SerialWorker(w)'
  <1>1. IInv /\ TypeOK
    BY DEF SerialInv, IInv
  <1>2. pc[w] = "check" /\ pc'[w] \in {"move", "lock"} /\ ThisCall(w)' = ThisCall(w)
        /\ (pc'[w] = "lock" => ThisCall(w).op # "receive")
    BY <1>1 DEF Check, script, TypeOK, ThisCall
  <1>3. HalfPosted(w)' = FALSE /\ AtTheEnd(w)'
    BY <1>2 DEF HalfPosted, AtTheEnd
  <1>4. CallsDone(w)' = CallsDone(w)
    BY <1>2 DEF CallsDone, Check, script
  <1>5. Executed(w)' = Executed(w)
    BY <1>4 DEF Executed, Check, script
  <1> QED
    BY <1>2, <1>3, <1>4, <1>5, SerialWithin DEF Check, stock, script, work

LEMMA SelectForUpdateSerial ==
    ASSUME SerialInv, NEW w \in Worker, SelectForUpdate(w) PROVE SerialWorker(w)'
  <1>1. IInv /\ TypeOK
    BY DEF SerialInv, IInv
  <1>2. pc[w] = "lock" /\ pc'[w] = (IF ThisCall(w).op = "receive" THEN "write" ELSE "move")
        /\ ThisCall(w)' = ThisCall(w)
    BY <1>1 DEF SelectForUpdate, script, TypeOK, ThisCall
  <1>3. HalfPosted(w)' => Fits(Delta(w)')
    <2>1. SUFFICES ASSUME HalfPosted(w)' PROVE Fits(Delta(w)')
      OBVIOUS
    <2>2. ThisCall(w).op = "receive" /\ HalfPosted(w)
      BY <1>2, <2>1 DEF HalfPosted
    <2>3. Delta(w)' = Delta(w)
      BY <1>2, <2>2 DEF Delta, MovementQuantity
    <2> QED
      BY <2>2, <2>3 DEF SerialInv, SerialWorker, DraftsFit
  <1>4. CallsDone(w)' = CallsDone(w)
    BY <1>2 DEF CallsDone, SelectForUpdate, script
  <1>5. Executed(w)' = Executed(w)
    BY <1>4 DEF Executed, SelectForUpdate, script
  <1>6. AtTheEnd(w)' /\ \A k \in Key : lock[k] = w => lock'[k] = w
    BY <1>1, <1>2 DEF SelectForUpdate, TypeOK, AtTheEnd
  <1> QED
    BY <1>2, <1>3, <1>4, <1>5, <1>6, SerialWithin DEF SelectForUpdate, stock, script, work

LEMMA InsertMovementSerial ==
    ASSUME SerialInv, NEW w \in Worker, InsertMovement(w) PROVE SerialWorker(w)'
  <1>1. IInv /\ TypeOK
    BY DEF SerialInv, IInv
  <1>2. pc[w] = "move" /\ pc'[w] \in {"lock", "write"} /\ Delta(w)' = Delta(w) /\ Fits(Delta(w))
        /\ AtTheEnd(w)'
    BY <1>1 DEF InsertMovement, script, seen, TypeOK, ThisCall, Delta, AtTheEnd
  <1>3. CallsDone(w)' = CallsDone(w)
    BY <1>2 DEF CallsDone, InsertMovement, script
  <1>4. Executed(w)' = Executed(w)
    BY <1>3 DEF Executed, InsertMovement, script
  <1> QED
    BY <1>2, <1>3, <1>4, SerialWithin DEF InsertMovement, stock, script

LEMMA SelectAgainSerial ==
    ASSUME SerialInv, NEW w \in Worker, SelectAgain(w) PROVE SerialWorker(w)'
  <1>1. IInv /\ TypeOK
    BY DEF SerialInv, IInv
  <1>2. pc[w] = "write" /\ pc'[w] = "lock" /\ Delta(w)' = Delta(w) /\ AtTheEnd(w)'
    BY <1>1 DEF SelectAgain, script, seen, TypeOK, ThisCall, Delta, AtTheEnd
  <1>3. CallsDone(w)' = CallsDone(w)
    BY <1>2 DEF CallsDone, SelectAgain, script
  <1>4. Executed(w)' = Executed(w)
    BY <1>3 DEF Executed, SelectAgain, script
  <1>5. Fits(Delta(w))
    BY <1>2 DEF SerialInv, SerialWorker, DraftsFit, HalfPosted
  <1> QED
    BY <1>2, <1>3, <1>4, <1>5, SerialWithin DEF SelectAgain, stock, script, work

LEMMA EvaluateAlertSerial ==
    ASSUME SerialInv, NEW w \in Worker, EvaluateAlert(w) PROVE SerialWorker(w)'
  <1>1. IInv /\ TypeOK
    BY DEF SerialInv, IInv
  <1>2. pc[w] = "alert" /\ at[w] \in Nat
    BY <1>1 DEF EvaluateAlert, TypeOK
  <1>3. /\ pc'[w] \in {"check", "commit"}
        /\ at'[w] = IF pc'[w] = "commit" THEN at[w] ELSE at[w] + 1
    BY <1>1 DEF EvaluateAlert, NextCall, TypeOK
  <1>4. CallsDone(w)' = CallsDone(w)
    BY <1>2, <1>3 DEF CallsDone
  <1>5. Executed(w)' = Executed(w)
    BY <1>4 DEF Executed, EvaluateAlert
  <1>6. HalfPosted(w)' = FALSE /\ AtTheEnd(w)'
    BY <1>1, <1>2, <1>3, NextCallEnds DEF HalfPosted, EvaluateAlert
  <1> QED
    BY <1>2, <1>4, <1>5, <1>6, SerialWithin DEF EvaluateAlert, stock, work

LEMMA EndTransactionSerial ==
    ASSUME SerialInv, NEW w \in Worker, EndTransaction(w) PROVE SerialWorker(w)'
  <1> USE DEF SerialInv, IInv
  <1>2. pc'[w] = "idle" /\ at'[w] = 1 /\ block'[w] = <<>> /\ wrote'[w] = {}
    BY DEF EndTransaction, TypeOK
  <1>3. CallsDone(w)' = 0 /\ Executed(w)' = <<>> /\ HalfPosted(w)' = FALSE
    BY <1>2 DEF CallsDone, Executed, HalfPosted
  <1>4. WroteItsCells(w)' /\ DraftsFit(w)' /\ AtTheEnd(w)'
    BY <1>2, <1>3 DEF WroteItsCells, DraftsFit, AtTheEnd
  <1>5. ASSUME NEW q, Fitting(q) PROVE Overlay(w, q)' \in Serial!BlockOutcomes(Executed(w)', q)
    <2>1. Overlay(w, q)' = q
      BY <1>2, <1>5 DEF Overlay, Fitting, Balances
    <2> QED
      BY <1>3, <1>5, <2>1, NoCallOutcomes DEF Fitting
  <1>6. SerialSoFar(w)'
    BY <1>5 DEF SerialSoFar, Fitting
  <1> QED
    BY <1>4, <1>6 DEF SerialWorker

(* A call that ends adds its own outcome to what was drafted before. *)
LEMMA SerialGrows ==
    ASSUME SerialInv, NEW w \in Worker, pc[w] \in {"move", "write"},
           block'[w] = block[w], CallsDone(w)' = at[w], ~HalfPosted(w)', AtTheEnd(w)',
           quantity' = quantity, \A k \in Key : lock[k] = w => lock'[k] = w,
           wrote'[w] \subseteq wrote[w] \cup {ThisCell(w)}, wrote[w] \subseteq wrote'[w],
           ThisCall(w).op # "adjust" => ThisCell(w) \in wrote'[w],
           \A k \in wrote'[w] : Fits(draft'[w][k]),
           \A q : Fitting(q) /\ AgreesWhereLocked(w, q)'
                    => Overlay(w, q)' \in Serial!Outcomes(ThisCall(w), Overlay(w, q))
    PROVE  SerialWorker(w)'
  <1> DEFINE b == block[w]
             i == at[w]
  <1>1. IInv /\ SerialWorker(w)
    BY DEF SerialInv
  <1>2. /\ b \in Seq(Call) /\ i \in 1..Len(b) /\ i \in Nat /\ ThisCall(w) \in Call
        /\ SubSeq(b, 1, i - 1) \in Seq(Call)
        /\ SubSeq(b, 1, i) = Append(SubSeq(b, 1, i - 1), ThisCall(w))
    BY <1>1, WithinCall
  <1>3. /\ CallsDone(w) = i - 1 /\ Executed(w) = SubSeq(b, 1, i - 1)
        /\ Executed(w)' = SubSeq(b, 1, i)
    BY DEF CallsDone, Executed
  <1>4. WroteItsCells(w)'
    <2>1. wrote[w] \subseteq Serial!CellsOf(b)
          /\ \A j \in 1..(i - 1) : b[j].op # "adjust" => b[j].cell \in wrote[w]
      BY <1>1, <1>3 DEF SerialWorker, WroteItsCells
    <2>2. ThisCell(w) = b[i].cell /\ ThisCall(w) = b[i]
      BY DEF ThisCell, ThisCall
    <2>6. b[i].cell \in Serial!CellsOf(b)
      <3> HIDE DEF b, i
      <3>1. i \in DOMAIN b
        BY <1>2
      <3> QED
        BY <3>1 DEF Serial!CellsOf
    <2>3. \A j \in 1..i : j \in 1..(i - 1) \/ j = i
      BY <1>2
    <2>4. \A j \in 1..i : b[j].op # "adjust" => b[j].cell \in wrote'[w]
      BY <2>1, <2>2, <2>3
    <2>5. wrote'[w] \subseteq Serial!CellsOf(b)
      BY <2>1, <2>2, <2>6
    <2> QED
      BY <2>4, <2>5 DEF WroteItsCells, Serial!CellsOf
  <1>5. DraftsFit(w)'
    BY DEF DraftsFit
  <1>6. ASSUME NEW q, Fitting(q), AgreesWhereLocked(w, q)'
        PROVE  Overlay(w, q)' \in Serial!BlockOutcomes(Executed(w)', q)
    <2>1. AgreesWhereLocked(w, q)
      BY <1>6 DEF AgreesWhereLocked
    <2>2. Overlay(w, q) \in Serial!BlockOutcomes(SubSeq(b, 1, i - 1), q)
      BY <1>1, <1>3, <1>6, <2>1 DEF SerialWorker, SerialSoFar
    <2>3. Serial!BlockOutcomes(SubSeq(b, 1, i), q)
            = UNION {Serial!Outcomes(ThisCall(w), y) :
                        y \in Serial!BlockOutcomes(SubSeq(b, 1, i - 1), q)}
      <3> PICK p, c : p = SubSeq(b, 1, i - 1) /\ c = ThisCall(w)
        OBVIOUS
      <3>1. p \in Seq(Call) /\ c \in Call /\ q \in Balances /\ SubSeq(b, 1, i) = Append(p, c)
        BY <1>2, <1>6 DEF Fitting
      <3>2. Serial!BlockOutcomes(Append(p, c), q)
              = UNION {Serial!Outcomes(c, y) : y \in Serial!BlockOutcomes(p, q)}
        BY <3>1, OneCallMore
      <3> QED
        BY <3>1, <3>2
    <2> QED
      BY <1>3, <1>6, <2>2, <2>3
  <1>7. SerialSoFar(w)'
    BY <1>6 DEF SerialSoFar, Fitting
  <1> QED
    BY <1>4, <1>5, <1>7 DEF SerialWorker

(* What the call saw is what the worker would see now. *)
LEMMA CurrentIsVisible ==
    ASSUME IInv, NEW w \in Worker, pc[w] = "write", found[w] \/ ThisCell(w) \notin rows
    PROVE  current[w] = VisibleQuantity(w, ThisCell(w))
  <1>1. ThisCell(w) \in Key
    BY CellTyped DEF IInv, WorkerInv, ArgumentsChecked
  <1> QED
    BY <1>1 DEF IInv, WorkerInv, SeenIsTrue, Selected, Reconciled, VisibleQuantity

LEMMA WriteDraftSerial ==
    ASSUME SerialInv, NEW w \in Worker, pc[w] = "write", WriteDraft(w, ThisCell(w)),
           found[w] \/ ThisCell(w) \notin rows,
           lock'[ThisCell(w)] = w, \A c \in Key : lock[c] = w => lock'[c] = w
    PROVE  SerialWorker(w)'
  <1> DEFINE k == ThisCell(w)
             n == NewQuantity(w)
  <1>1. IInv /\ TypeOK /\ WorkerInv(w) /\ SerialWorker(w)
    BY DEF SerialInv, IInv
  <1>2. k \in Key /\ Acceptable(ThisCall(w)) /\ ThisCall(w) \in Call
    BY <1>1, CallTyped, CellTyped DEF WorkerInv, ArgumentsChecked
  <1>3. /\ n = VisibleQuantity(w, k) + Delta(w) /\ current[w] = VisibleQuantity(w, k)
        /\ Fits(n) /\ Fits(Delta(w)) /\ ~Insufficient(ThisCall(w), current[w])
    <2>1. n = VisibleQuantity(w, k) + Delta(w) /\ current[w] = VisibleQuantity(w, k)
      BY <1>1, NewQuantityMoves, CurrentIsVisible
    <2>2. Fits(n) /\ Fits(Delta(w))
      BY <1>1 DEF WriteDraft, SerialWorker, DraftsFit, HalfPosted
    <2>3. ~Insufficient(ThisCall(w), current[w])
      BY <1>1 DEF WorkerInv, IssueCovered
    <2> QED
      BY <2>1, <2>2, <2>3
  <1>4. /\ pc'[w] = "alert" /\ wrote'[w] = wrote[w] \cup {k}
        /\ draft'[w] = [draft[w] EXCEPT ![k] = n]
    BY <1>1 DEF WriteDraft, TypeOK
  <1>5. /\ block'[w] = block[w] /\ at'[w] = at[w] /\ quantity' = quantity
        /\ wrote[w] \in SUBSET Key /\ draft[w] \in [Key -> Int]
    BY <1>1 DEF WriteDraft, TypeOK, stock, script
  <1>6. CallsDone(w)' = at[w] /\ ~HalfPosted(w)' /\ AtTheEnd(w)'
    BY <1>4, <1>5 DEF CallsDone, HalfPosted, AtTheEnd
  <1>7. ASSUME NEW c \in wrote'[w] PROVE Fits(draft'[w][c])
    <2> HIDE DEF n, k
    <2>1. CASE c = k
      BY <1>2, <1>3, <1>4, <1>5, <2>1
    <2>2. CASE c # k
      <3>1. c \in wrote[w] /\ draft'[w][c] = draft[w][c]
        BY <1>4, <1>5, <1>7, <2>2
      <3> QED
        BY <1>1, <3>1 DEF SerialWorker, DraftsFit
    <2> QED
      BY <2>1, <2>2
  <1>8. ASSUME NEW q, Fitting(q), AgreesWhereLocked(w, q)'
        PROVE  Overlay(w, q)' \in Serial!Outcomes(ThisCall(w), Overlay(w, q))
    <2> DEFINE o == Overlay(w, q)
    <2>1. q[k] = quantity[k]
      BY <1>2, <1>5, <1>8 DEF AgreesWhereLocked
    <2>2. o[k] = VisibleQuantity(w, k)
      BY <1>2, <2>1 DEF Overlay, VisibleQuantity
    <2>3. Overlay(w, q)' = [o EXCEPT ![k] = n]
      <3>1. Overlay(w, q)' = [c \in Key |-> IF c \in wrote[w] \cup {k}
                                            THEN [draft[w] EXCEPT ![k] = n][c] ELSE q[c]]
        BY <1>4 DEF Overlay
      <3>2. \A c \in Key : [o EXCEPT ![k] = n][c]
                = IF c \in wrote[w] \cup {k} THEN [draft[w] EXCEPT ![k] = n][c] ELSE q[c]
        BY <1>2, <1>5 DEF Overlay
      <3>3. [o EXCEPT ![k] = n] = [c \in Key |-> [o EXCEPT ![k] = n][c]]
        BY DEF Overlay
      <3> QED
        BY <3>1, <3>2, <3>3
    <2>4. MovementQuantity(ThisCall(w), o[k]) = Delta(w)
      BY <1>3, <2>2 DEF Delta
    <2>5. ThisCall(w).cell = k
      BY DEF ThisCell
    <2>6. n = o[k] + MovementQuantity(ThisCall(w), o[k])
      BY <1>3, <2>2, <2>4
    <2>7. ~Insufficient(ThisCall(w), o[k])
      BY <1>3, <2>2
    <2>8. Fits(MovementQuantity(ThisCall(w), o[k])) /\ Fits(o[k] + MovementQuantity(ThisCall(w), o[k]))
      BY <1>3, <2>4, <2>6
    <2>9. [o EXCEPT ![k] = n] \in Serial!Outcomes(ThisCall(w), o)
      <3> HIDE DEF o, n, k
      <3>1. [o EXCEPT ![k] = n] = [o EXCEPT ![k] = @ + MovementQuantity(ThisCall(w), o[k])]
        BY <2>6
      <3> QED
        BY <1>2, <2>5, <2>7, <2>8, <3>1, OutcomesAre
    <2> QED
      BY <2>3, <2>9
  <1> QED
    BY <1>4, <1>5, <1>6, <1>7, <1>8, SerialGrows

LEMMA UpdateItemSerial ==
    ASSUME SerialInv, NEW w \in Worker, UpdateItem(w) PROVE SerialWorker(w)'
  <1>1. lock[ThisCell(w)] = w
    BY DEF UpdateItem, SerialInv, IInv, WorkerInv, SeenIsTrue, Selected
  <1> QED
    BY <1>1, WriteDraftSerial DEF UpdateItem

LEMMA InsertItemSerial ==
    ASSUME SerialInv, NEW w \in Worker, InsertItem(w) PROVE SerialWorker(w)'
  <1>1. ThisCell(w) \in Key /\ TypeOK
    BY CellTyped DEF InsertItem, SerialInv, IInv, WorkerInv, ArgumentsChecked
  <1>2. lock'[ThisCell(w)] = w /\ \A c \in Key : lock[c] = w => lock'[c] = w
    BY <1>1 DEF InsertItem, TypeOK
  <1> QED
    BY <1>2, WriteDraftSerial DEF InsertItem

(* An adjustment that finds its count does nothing. *)
LEMMA NothingToAdjustSerial ==
    ASSUME SerialInv, NEW w \in Worker, NothingToAdjust(w) PROVE SerialWorker(w)'
  <1> DEFINE k == ThisCell(w)
  <1>1. IInv /\ TypeOK /\ WorkerInv(w) /\ SerialWorker(w)
    BY DEF SerialInv, IInv
  <1>2. pc[w] = "move" /\ Delta(w) = 0
    BY DEF NothingToAdjust
  <1>3. k \in Key /\ Acceptable(ThisCall(w)) /\ ThisCall(w) \in Call
    BY <1>1, <1>2, CallTyped, CellTyped DEF WorkerInv, ArgumentsChecked
  <1>4. ThisCall(w).op = "adjust" /\ current[w] = ThisCall(w).quantity
    BY <1>1, <1>2, <1>3
       DEF Delta, MovementQuantity, Acceptable, Call, Operation, TypeOK
  <1>5. /\ pc'[w] \in {"check", "commit"} /\ block'[w] = block[w] /\ quantity' = quantity
        /\ at'[w] = (IF pc'[w] = "commit" THEN at[w] ELSE at[w] + 1) /\ at[w] \in Nat
        /\ wrote' = wrote /\ draft' = draft /\ lock' = lock
    BY <1>1 DEF NothingToAdjust, NextCall, TypeOK, stock, work
  <1>6. CallsDone(w)' = at[w] /\ ~HalfPosted(w)' /\ AtTheEnd(w)'
    BY <1>1, <1>2, <1>5, NextCallEnds DEF CallsDone, HalfPosted, NothingToAdjust
  <1>7. ASSUME NEW q, Fitting(q), AgreesWhereLocked(w, q)'
        PROVE  Overlay(w, q)' \in Serial!Outcomes(ThisCall(w), Overlay(w, q))
    <2> DEFINE o == Overlay(w, q)
    <2>1. Overlay(w, q)' = o
      BY <1>5 DEF Overlay
    <2>2. Fits(o[k]) /\ o[k] \in Int /\ ThisCall(w).quantity \in Int
      BY <1>1, <1>3, <1>7 DEF Overlay, Fitting, Balances, SerialWorker, DraftsFit, Call, TypeOK
    <2>3. Fits(0) /\ Fits(-o[k])
      BY <2>2, MaxQuantityAssumption DEF Fits
    <2>4. ThisCall(w).cell = k /\ ~Insufficient(ThisCall(w), o[k])
          /\ MovementQuantity(ThisCall(w), o[k]) = ThisCall(w).quantity - o[k]
      BY <1>4 DEF ThisCell, Insufficient, MovementQuantity
    <2>5. CASE found[w]
      <3>1. o[k] = current[w]
        <4>1. lock[k] = w /\ current[w] = VisibleQuantity(w, k)
          BY <1>1, <1>2, <1>4, <2>5 DEF WorkerInv, SeenIsTrue, Selected
        <4>2. q[k] = quantity[k]
          BY <1>3, <1>5, <1>7, <4>1 DEF AgreesWhereLocked
        <4> QED
          BY <1>3, <4>1, <4>2 DEF Overlay, VisibleQuantity
      <3>2. MovementQuantity(ThisCall(w), o[k]) = 0 /\ o[k] + 0 = o[k]
        BY <1>4, <2>2, <2>4, <3>1
      <3>3. [o EXCEPT ![k] = @ + MovementQuantity(ThisCall(w), o[k])] = o
        BY <3>2 DEF Overlay
      <3>4. o \in Serial!Outcomes(ThisCall(w), o)
        <4> HIDE DEF o, k
        <4> QED
          BY <1>3, <2>2, <2>3, <2>4, <3>2, <3>3, OutcomesAre
      <3> QED
        BY <2>1, <3>4
    <2>6. CASE ~found[w]
      <3>1. ThisCall(w).quantity = 0
        BY <1>1, <1>2, <1>4, <2>6 DEF WorkerInv, SeenIsTrue, Selected
      <3>2. MovementQuantity(ThisCall(w), o[k]) = -o[k] /\ o[k] + (-o[k]) = 0
        BY <2>2, <2>4, <3>1
      <3>3. o \in Serial!Outcomes(ThisCall(w), o)
        <4> HIDE DEF o, k
        <4> QED
          BY <1>3, <1>4, <2>3, <2>4, <3>1, <3>2, OutcomesAre
      <3> QED
        BY <2>1, <3>3
    <2> QED
      BY <2>5, <2>6
  <1>8. \A c \in wrote'[w] : Fits(draft'[w][c])
    BY <1>1, <1>5 DEF SerialWorker, DraftsFit
  <1> QED
    BY <1>2, <1>4, <1>5, <1>6, <1>7, <1>8, SerialGrows

(* What is committed is what the whole block makes of the balances at that *)
(* moment.                                                                 *)
LEMMA CommitIsRun ==
    ASSUME SerialInv, NEW w \in Worker, Commit(w)
    PROVE  Serial!Run(block[w])
  <1> DEFINE b == block[w]
  <1>0. Serial!Key = Key
    BY DEF Serial!Key, Key, Serial!Cell, Cell, Serial!ValidContext, ValidContext
  <1>1. IInv /\ TypeOK /\ SerialWorker(w)
    BY DEF SerialInv, IInv
  <1>2. b \in Seq(Call) /\ at[w] = Len(b) /\ Len(b) \in Nat
    BY <1>1, WithinCall DEF Commit, SerialWorker, AtTheEnd
  <1>3. CallsDone(w) = Len(b) /\ Executed(w) = b
    <2>1. CallsDone(w) = Len(b)
      BY <1>2 DEF CallsDone, Commit
    <2>2. SubSeq(b, 1, Len(b)) = b
      <3> HIDE DEF b
      <3> QED
        BY <1>2
    <2> QED
      BY <2>1, <2>2 DEF Executed
  <1>4. quantity' \in Serial!BlockOutcomes(b, quantity)
    <2> PICK q : q = quantity
      OBVIOUS
    <2>1. Fitting(q) /\ AgreesWhereLocked(w, q)
      BY <1>1 DEF SerialInv, Fitting, Balances, TypeOK, AgreesWhereLocked
    <2>2. quantity' = Overlay(w, q)
      BY DEF Commit, Overlay, VisibleQuantity
    <2>3. Overlay(w, q) \in Serial!BlockOutcomes(b, q)
      BY <1>1, <1>3, <2>1 DEF SerialWorker, SerialSoFar
    <2> QED
      BY <2>2, <2>3
  <1>5. ledger' = [k \in Key |-> ledger[k] + (quantity'[k] - quantity[k])]
    BY <1>1, CommitPosts DEF Commit
  <1>6. \E items \in SUBSET Serial!CellsOf(b) : rows' = rows \cup Serial!WrittenBy(b) \cup items
    <2>1. wrote[w] \in SUBSET Serial!CellsOf(b) /\ rows' = rows \cup wrote[w]
      BY <1>1 DEF SerialWorker, WroteItsCells, Commit
    <2>2. Serial!WrittenBy(b) \subseteq wrote[w]
      <3>1. DOMAIN b = 1..CallsDone(w)
        <4> HIDE DEF b
        <4> QED
          BY <1>2, <1>3
      <3> QED
        BY <1>1, <3>1 DEF SerialWorker, WroteItsCells, Serial!WrittenBy
    <2> QED
      BY <2>1, <2>2
  <1>7. \A k \in Key : quantity'[k] # quantity[k] => k \in rows'
    BY <1>1, CommitPosts DEF Commit
  <1> QED
    BY <1>0, <1>4, <1>5, <1>6, <1>7 DEF Serial!Run

LEMMA InitSerial == Init => SerialInv
  <1> SUFFICES ASSUME Init PROVE SerialInv
    OBVIOUS
  <1>1. IInv
    BY InitInv
  <1>2. ASSUME NEW w \in Worker PROVE SerialWorker(w)
    <2>1. pc[w] = "idle" /\ at[w] = 1 /\ block[w] = <<>> /\ wrote[w] = {}
      BY DEF Init
    <2>2. CallsDone(w) = 0 /\ Executed(w) = <<>> /\ HalfPosted(w) = FALSE
      BY <2>1 DEF CallsDone, Executed, HalfPosted
    <2>3. WroteItsCells(w) /\ DraftsFit(w) /\ AtTheEnd(w)
      BY <2>1, <2>2 DEF WroteItsCells, DraftsFit, AtTheEnd
    <2>4. ASSUME NEW q, Fitting(q) PROVE Overlay(w, q) \in Serial!BlockOutcomes(Executed(w), q)
      <3>1. Overlay(w, q) = q
        BY <2>1, <2>4 DEF Overlay, Fitting, Balances
      <3> QED
        BY <2>2, <2>4, <3>1, NoCallOutcomes DEF Fitting
    <2>5. SerialSoFar(w)
      BY <2>4 DEF SerialSoFar
    <2> QED
      BY <2>3, <2>5 DEF SerialWorker
  <1> QED
    BY <1>1, <1>2 DEF SerialInv

LEMMA StepSerial == SerialInv /\ [Next]_vars => SerialInv'
  <1> SUFFICES ASSUME SerialInv, [Next]_vars PROVE SerialInv'
    OBVIOUS
  <1>1. IInv'
    BY StepInv DEF SerialInv
  <1>2. CASE UNCHANGED vars
    <2>1. quantity' = quantity /\ \A w \in Worker : SessionKept(w) /\ LocksKept(w)
      BY <1>2 DEF vars, SessionKept, LocksKept
    <2>2. \A w \in Worker : SerialWorker(w)'
      BY <2>1, OtherSerialWorker DEF SerialInv
    <2> QED
      BY <1>1, <2>2 DEF SerialInv
  <1>3. ASSUME NEW w \in Worker, Step(w) PROVE SerialInv'
    <2>1. SerialWorker(w)'
      <3>1. CASE Begin(w)
        BY <3>1, BeginSerial
      <3>2. CASE Check(w) \/ SelectForUpdate(w) \/ InsertMovement(w) \/ NothingToAdjust(w)
        BY <3>2, CheckSerial, SelectForUpdateSerial, InsertMovementSerial, NothingToAdjustSerial
      <3>3. CASE UpdateItem(w) \/ InsertItem(w) \/ SelectAgain(w) \/ EvaluateAlert(w)
        BY <3>3, UpdateItemSerial, InsertItemSerial, SelectAgainSerial, EvaluateAlertSerial
      <3>4. CASE Commit(w) \/ Fail(w) \/ DeadlockVictim(w) \/ Crash(w)
        BY <3>4, EndTransactionSerial DEF Commit, Fail, DeadlockVictim, Crash, Rollback
      <3> QED
        BY <1>3, <3>1, <3>2, <3>3, <3>4 DEF Step, Advance
    <2> QED
      BY <1>1, <1>3, <2>1, SerialStep DEF SerialInv
  <1> QED
    BY <1>2, <1>3 DEF Next

(* For any workers and any blocks, the drafts of a transaction are always   *)
(* what its calls make of whatever balances it has not locked, and no       *)
(* balance outgrows its column.                                             *)
THEOREM SerialInvariant == Spec => []SerialInv
BY InitSerial, StepSerial, PTL DEF Spec

(* StockTransactions implements SerialStock: a block commits as if it ran   *)
(* alone at that moment, each of its calls on the balance the one before    *)
(* left, and nothing else is visible to others.                             *)
THEOREM BlocksAreSerial == Spec => SerialCommits
  <1>1. Init => Serial!StockInit
    BY DEF Init, Serial!StockInit, Serial!Key, Key, Serial!Cell, Cell, Serial!ValidContext,
       ValidContext
  <1>2. SerialInv /\ [Next]_vars
          => [ /\ \A w \in Worker : Commit(w) => Serial!Run(block[w])
               /\ stock' # stock => \E w \in Worker : Commit(w) ]_vars
    <2> SUFFICES ASSUME SerialInv, Next
                 PROVE  /\ \A w \in Worker : Commit(w) => Serial!Run(block[w])
                        /\ stock' # stock => \E w \in Worker : Commit(w)
      BY DEF vars
    <2>1. \A w \in Worker : Commit(w) => Serial!Run(block[w])
      BY CommitIsRun
    <2>2. stock' # stock => \E w \in Worker : Commit(w)
      BY OnlyCommitsAreVisible DEF Next
    <2> QED
      BY <2>1, <2>2
  <1>3. SerialInv /\ [Next]_vars => [Serial!StockNext]_Serial!stock
    <2> SUFFICES ASSUME SerialInv, [Next]_vars, stock' # stock PROVE Serial!StockNext
      BY DEF Serial!stock, stock
    <2>1. PICK w \in Worker : Commit(w)
      BY OnlyCommitsAreVisible DEF Next, vars, stock
    <2>2. block[w] \in Blocks
      BY <2>1 DEF SerialInv, IInv, WorkerInv, Session, Commit
    <2> QED
      BY <2>1, <2>2, CommitIsRun DEF Serial!StockNext
  <1> QED
    BY <1>1, <1>2, <1>3, SerialInvariant, PTL DEF Spec, SerialCommits, Serial!StockSpec

-----------------------------------------------------------------------------
(* Quotations. *)
Issued == QuotationStatus \ {"DRAFT"}

IsRow(row) ==
    /\ row = [column \in {"status", "vat", "discount", "total"} |-> row[column]]
    /\ row.status \in QuotationStatus \cup Absent

IsSequence(s) == \E S : s \in Seq(S)

Shapes ==
    /\ quotation = [q \in Quotation |-> quotation[q]]
    /\ \A q \in Quotation : IsRow(quotation[q])
    /\ line = [q \in Quotation |-> line[q]]
    /\ invoice = [q \in Quotation |-> invoice[q]]
    /\ \A q \in Quotation : IsSequence(invoice[q])
    /\ request = [r \in Request |-> request[r]]
    /\ \A r \in Request : Working(r) =>
          Of(r) \in Quotation /\ IsRow(Loaded(r)) /\ Loaded(r).status \in QuotationStatus
    /\ finalized \subseteq Quotation

(* A request that is alone with its quotation holds it as it is. *)
QuotationsAreCurrent ==
    \A r \in Request : Working(r) /\ Of(r) \notin contended =>
        /\ Loaded(r) = quotation[Of(r)] /\ request[r].lines = line[Of(r)]
        /\ \A s \in Request : Working(s) /\ Of(s) = Of(r) => s = r

(* A row with its items and invoices: nothing is billed before it is       *)
(* issued; it is converted once unless it was reopened; a finalized one    *)
(* has the total of its lines, and so have its invoices.                   *)
GoodQuotation(row, items, bills, final, again) ==
    /\ row.status \notin Issued => bills = <<>> /\ ~final
    /\ ~again => Len(bills) <= 1 /\ (Len(bills) = 1 => row.status = "CONVERTED")
    /\ final =>
          /\ row.total = TotalOf(items, row.vat, row.discount)
          /\ \A n \in DOMAIN bills :
                bills[n] = [total |-> row.total, vat |-> row.vat, lines |-> InvoiceLines(items)]

InOrder(q) == GoodQuotation(quotation[q], line[q], invoice[q], q \in finalized, q \in reopened)

QuotationsInv ==
    /\ Shapes /\ QuotationsAreCurrent
    /\ \A q \in Quotation \ contended : InOrder(q)

(* What a handler that ends writes to its quotation. *)
Written(r, row, items, bills, final) ==
    /\ Working(r) /\ Done(r)
    /\ IsRow(row) /\ quotation' = [quotation EXCEPT ![Of(r)] = row]
    /\ line' = [line EXCEPT ![Of(r)] = items]
    /\ IsSequence(bills) /\ invoice' = [invoice EXCEPT ![Of(r)] = bills]
    /\ finalized' = finalized \cup final /\ final \subseteq {Of(r)}
    /\ Of(r) \in reopened' <=>
          Of(r) \in reopened \/ (quotation[Of(r)].status = "CONVERTED" /\ row.status # "CONVERTED")
    /\ \A q \in Quotation \ {Of(r)} : q \in reopened' <=> q \in reopened
    /\ contended' = contended

(* If it is alone with it: an issued quotation only changes its status. *)
Keeps(r, row, items) ==
    quotation[Of(r)].status \in Issued =>
        row.status \in Issued /\ row = [quotation[Of(r)] EXCEPT !.status = row.status]
                              /\ items = line[Of(r)]

QuotationHandled(r) ==
    \E row, items, bills, final :
        /\ Written(r, row, items, bills, final)
        /\ Of(r) \notin contended =>
              /\ GoodQuotation(row, items, bills, Of(r) \in finalized', Of(r) \in reopened')
              /\ Keeps(r, row, items)

IssuedKept ==
    \A q \in Quotation \ contended' :
        quotation[q].status \in QuotationStatus \ {"DRAFT"} =>
            /\ quotation'[q].status \in QuotationStatus \ {"DRAFT"}
            /\ quotation'[q] = [quotation[q] EXCEPT !.status = quotation'[q].status]
            /\ line'[q] = line[q]

-----------------------------------------------------------------------------
(* Rows, sequences, and the columns an action leaves alone. *)

LEMMA ChangedRow ==
    ASSUME NEW row, IsRow(row), NEW new \in QuotationStatus
    PROVE  /\ IsRow([row EXCEPT !.status = new])
           /\ [row EXCEPT !.status = new].status = new
           /\ [row EXCEPT !.status = new].vat = row.vat
           /\ [row EXCEPT !.status = new].discount = row.discount
           /\ [row EXCEPT !.status = new].total = row.total
  BY DEF IsRow

LEMMA PricedRow ==
    ASSUME NEW row, IsRow(row), NEW total, NEW vat, NEW discount
    PROVE  /\ IsRow([row EXCEPT !.vat = vat, !.discount = discount, !.total = total])
           /\ [row EXCEPT !.vat = vat, !.discount = discount, !.total = total].status = row.status
  BY DEF IsRow

LEMMA TotaledRow ==
    ASSUME NEW row, IsRow(row), NEW total
    PROVE  LET new == [row EXCEPT !.status = "SENT", !.total = total] IN
           /\ IsRow(new) /\ new.status = "SENT" /\ new.total = total
           /\ new.vat = row.vat /\ new.discount = row.discount
  BY DEF IsRow, QuotationStatus

LEMMA PatchedQuotation ==
    ASSUME NEW row, IsRow(row), row.status \in QuotationStatus, NEW patch \in QuotationPatches
    PROVE  IsRow(Patched(row, patch)) /\ Patched(row, patch).status \in QuotationStatus
  BY QuotationsAssumption DEF IsRow, Patched

LEMMA TypedRow ==
    ASSUME NEW row \in QuotationRow, NEW total
    PROVE  /\ IsRow([row EXCEPT !.total = total])
           /\ [row EXCEPT !.total = total].status = row.status
  BY DEF IsRow, QuotationRow

LEMMA AppendedBills ==
    ASSUME NEW bills, IsSequence(bills), NEW bill
    PROVE  /\ IsSequence(Append(bills, bill))
           /\ Len(bills) \in Nat /\ Len(Append(bills, bill)) = Len(bills) + 1
           /\ \A n \in DOMAIN Append(bills, bill) :
                 \/ n \in DOMAIN bills /\ Append(bills, bill)[n] = bills[n]
                 \/ Append(bills, bill)[n] = bill
  <1>1. PICK S : bills \in Seq(S)
    BY DEF IsSequence
  <1>2. bills \in Seq(S \cup {bill})
    BY <1>1
  <1>3. Append(bills, bill) \in Seq(S \cup {bill})
    BY <1>2
  <1>4. /\ DOMAIN bills = 1..Len(bills) /\ Len(bills) \in Nat
        /\ DOMAIN Append(bills, bill) = 1..(Len(bills) + 1)
    BY <1>2, <1>3
  <1> QED
    BY <1>2, <1>3, <1>4, AppendProperties DEF IsSequence

LEMMA EmptyBills == IsSequence(<<>>) /\ Len(<<>>) = 0
  <1>1. <<>> \in Seq({})
    OBVIOUS
  <1> QED
    BY <1>1 DEF IsSequence

LEMMA UnwrittenColumns ==
    ASSUME Shapes, NEW r \in Request, Working(r)
    PROVE  /\ Of(r) \in Quotation /\ IsRow(quotation[Of(r)])
           /\ IsRow(Loaded(r)) /\ Loaded(r).status \in QuotationStatus
           /\ line = [line EXCEPT ![Of(r)] = line[Of(r)]]
           /\ invoice = [invoice EXCEPT ![Of(r)] = invoice[Of(r)]]
           /\ IsSequence(invoice[Of(r)])
  BY DEF Shapes

(* save() and the end of the request. *)
LEMMA SavedRow ==
    ASSUME Shapes, NEW r \in Request, Working(r), Done(r),
           NEW row, IsRow(row), SaveQuotation(Of(r), row),
           NEW items, line' = [line EXCEPT ![Of(r)] = items],
           NEW bills, IsSequence(bills), invoice' = [invoice EXCEPT ![Of(r)] = bills],
           NEW final, finalized' = finalized \cup final, final \subseteq {Of(r)},
           contended' = contended
    PROVE  Written(r, row, items, bills, final)
  BY DEF SaveQuotation, Written

LEMMA QuotationsInitInv == QuotationsInit => QuotationsInv
  <1> SUFFICES ASSUME QuotationsInit
               PROVE  QuotationsInv
    OBVIOUS
  <1>1. \A q \in Quotation :
          /\ quotation[q] = NoQuotation /\ invoice[q] = <<>> /\ q \notin finalized
          /\ IsRow(NoQuotation) /\ NoQuotation.status = "unborn"
    BY DEF QuotationsInit, NoQuotation, IsRow, Absent
  <1>2. Shapes /\ QuotationsAreCurrent
    BY <1>1, EmptyBills DEF QuotationsInit, Shapes, QuotationsAreCurrent, Working
  <1>3. \A q \in Quotation : InOrder(q)
    BY <1>1, EmptyBills DEF InOrder, GoodQuotation, Issued, QuotationStatus
  <1> QED
    BY <1>2, <1>3 DEF QuotationsInv

-----------------------------------------------------------------------------
(* What a handler that ends leaves in order, whatever it wrote. *)

LEMMA QuotationHandledShapes ==
    ASSUME QuotationsInv, NEW r \in Request, NEW row, NEW items, NEW bills, NEW final,
           Written(r, row, items, bills, final)
    PROVE  Shapes' /\ QuotationsAreCurrent'
  <1> USE DEF QuotationsInv
  <1>1. /\ Of(r) \in Quotation
        /\ quotation' = [quotation EXCEPT ![Of(r)] = row]
        /\ line' = [line EXCEPT ![Of(r)] = items]
        /\ invoice' = [invoice EXCEPT ![Of(r)] = bills]
        /\ request' = [request EXCEPT ![r] = Idle]
        /\ IsRow(row) /\ IsSequence(bills) /\ contended' = contended
        /\ finalized' \subseteq finalized \cup {Of(r)}
    BY UnwrittenColumns DEF Written, Done
  <1>2. \A q \in Quotation : /\ quotation'[q] = IF q = Of(r) THEN row ELSE quotation[q]
                             /\ line'[q] = IF q = Of(r) THEN items ELSE line[q]
                             /\ invoice'[q] = IF q = Of(r) THEN bills ELSE invoice[q]
    BY <1>1 DEF Shapes
  <1>3. \A s \in Request : Working(s)' => s # r /\ Working(s) /\ request'[s] = request[s]
    BY <1>1 DEF Shapes, Working
  <1>4. Shapes'
    <2>1. /\ quotation' = [q \in Quotation |-> quotation'[q]]
          /\ line' = [q \in Quotation |-> line'[q]]
          /\ invoice' = [q \in Quotation |-> invoice'[q]]
          /\ request' = [s \in Request |-> request'[s]]
          /\ finalized' \subseteq Quotation
      BY <1>1 DEF Shapes
    <2>2. \A q \in Quotation : IsRow(quotation'[q]) /\ IsSequence(invoice'[q])
      BY <1>1, <1>2 DEF Shapes
    <2>3. \A s \in Request : Working(s)' =>
            /\ request'[s].on \in Quotation
            /\ IsRow(request'[s].row) /\ request'[s].row.status \in QuotationStatus
      BY <1>3 DEF Shapes, Of, Loaded
    <2> QED
      BY <2>1, <2>2, <2>3 DEF Shapes, Of, Loaded
  <1>5. QuotationsAreCurrent'
    <2> SUFFICES ASSUME NEW s \in Request, Working(s)', request'[s].on \notin contended'
                 PROVE  /\ request'[s].row = quotation'[request'[s].on]
                        /\ request'[s].lines = line'[request'[s].on]
                        /\ \A t \in Request : Working(t)' /\ request'[t].on = request'[s].on => t = s
      BY DEF QuotationsAreCurrent, Of, Loaded
    <2>1. /\ s # r /\ Working(s) /\ request'[s] = request[s] /\ Of(s) \notin contended
          /\ Working(r)
      BY <1>1, <1>3 DEF Of, Written
    <2>2. Of(s) # Of(r) /\ Of(s) \in Quotation
      BY <2>1 DEF QuotationsAreCurrent, Shapes
    <2> QED
      BY <1>2, <1>3, <2>1, <2>2 DEF QuotationsAreCurrent, Of, Loaded
  <1> QED
    BY <1>4, <1>5

LEMMA QuotationHandledInv ==
    ASSUME QuotationsInv, NEW r \in Request, QuotationHandled(r)
    PROVE  QuotationsInv' /\ IssuedKept
  <1>1. PICK row, items, bills, final :
          /\ Written(r, row, items, bills, final)
          /\ Of(r) \notin contended =>
                /\ GoodQuotation(row, items, bills, Of(r) \in finalized', Of(r) \in reopened')
                /\ Keeps(r, row, items)
    BY DEF QuotationHandled
  <1>2. Of(r) \in Quotation /\ contended' = contended
    BY <1>1, UnwrittenColumns DEF QuotationsInv, Written
  <1>3. \A q \in Quotation : /\ quotation'[q] = IF q = Of(r) THEN row ELSE quotation[q]
                             /\ line'[q] = IF q = Of(r) THEN items ELSE line[q]
                             /\ invoice'[q] = IF q = Of(r) THEN bills ELSE invoice[q]
    BY <1>1, <1>2 DEF Written, QuotationsInv, Shapes
  <1>4. \A q \in Quotation \ {Of(r)} : /\ q \in finalized' <=> q \in finalized
                                       /\ q \in reopened' <=> q \in reopened
    BY <1>1 DEF Written
  <1>5. ASSUME NEW q \in Quotation \ contended'
        PROVE  InOrder(q)'
    <2>1. CASE q = Of(r)
      BY <1>1, <1>2, <1>3, <2>1 DEF InOrder, GoodQuotation
    <2>2. CASE q # Of(r)
      BY <1>2, <1>3, <1>4, <2>2 DEF InOrder, GoodQuotation, QuotationsInv
    <2> QED
      BY <2>1, <2>2
  <1>6. IssuedKept
    <2> SUFFICES ASSUME NEW q \in Quotation \ contended',
                        quotation[q].status \in QuotationStatus \ {"DRAFT"}
                 PROVE  /\ quotation'[q].status \in QuotationStatus \ {"DRAFT"}
                        /\ quotation'[q] = [quotation[q] EXCEPT !.status = quotation'[q].status]
                        /\ line'[q] = line[q]
      BY DEF IssuedKept
    <2>1. CASE q = Of(r)
      BY <1>1, <1>2, <1>3, <2>1 DEF Keeps, Issued
    <2>2. CASE q # Of(r)
      BY <1>3, <2>2 DEF QuotationsInv, Shapes, IsRow
    <2> QED
      BY <2>1, <2>2
  <1> QED
    BY <1>1, <1>5, <1>6, QuotationHandledShapes DEF QuotationsInv

-----------------------------------------------------------------------------
(* The handlers, one by one. *)

(* A request that is alone with its quotation, and what it knows of it. *)
LEMMA AloneWithIt ==
    ASSUME QuotationsInv, NEW r \in Request, Working(r), Of(r) \notin contended
    PROVE  /\ Loaded(r) = quotation[Of(r)] /\ ItemsOf(r) = {line[Of(r)]}
           /\ InOrder(Of(r))
           /\ quotation[Of(r)].status = "DRAFT" => invoice[Of(r)] = <<>> /\ Of(r) \notin finalized
  <1>1. /\ Loaded(r) = quotation[Of(r)] /\ request[r].lines = line[Of(r)]
        /\ Of(r) \in Quotation
    BY UnwrittenColumns DEF QuotationsInv, QuotationsAreCurrent
  <1>2. InOrder(Of(r))
    BY <1>1 DEF QuotationsInv
  <1> QED
    BY <1>1, <1>2 DEF ItemsOf, InOrder, GoodQuotation, Issued

(* A handler of a draft: nothing is billed and nothing has to be kept. *)
LEMMA DraftHandled ==
    ASSUME QuotationsInv, NEW r \in Request, Working(r), Loaded(r).status = "DRAFT",
           NEW row, NEW items, Written(r, row, items, invoice[Of(r)], {})
    PROVE  QuotationHandled(r)
  <1> SUFFICES ASSUME Of(r) \notin contended
               PROVE  /\ GoodQuotation(row, items, invoice[Of(r)], Of(r) \in finalized', Of(r) \in reopened')
                      /\ Keeps(r, row, items)
    BY DEF QuotationHandled
  <1>1. /\ quotation[Of(r)].status = "DRAFT" /\ invoice[Of(r)] = <<>>
        /\ Of(r) \notin finalized'
    BY AloneWithIt DEF Written
  <1> QED
    BY <1>1, EmptyBills DEF GoodQuotation, Keeps, Issued

LEMMA UpdateHandled ==
    ASSUME QuotationsInv, NEW r \in Request, Update(r)
    PROVE  QuotationHandled(r)
  <1>1. PICK edit \in Edits :
          LET items == Returned(request[r].lines, Cleaned(edit.lines)) IN
          /\ SaveQuotation(Of(r), [Loaded(r) EXCEPT !.vat = edit.vat, !.discount = edit.discount,
                                           !.total = TotalOf(items, edit.vat, edit.discount)])
          /\ line' = [line EXCEPT ![Of(r)] = items]
    BY DEF Update
  <1> DEFINE items == Returned(request[r].lines, Cleaned(edit.lines))
             total == TotalOf(items, edit.vat, edit.discount)
             row == [Loaded(r) EXCEPT !.vat = edit.vat, !.discount = edit.discount,
                                      !.total = total]
  <1>2. /\ Working(r) /\ Done(r) /\ Loaded(r).status = "DRAFT"
        /\ UNCHANGED <<invoice, contended, finalized>>
        /\ SaveQuotation(Of(r), row) /\ line' = [line EXCEPT ![Of(r)] = items]
    BY <1>1 DEF Update
  <1> HIDE DEF items, total
  <1>3. IsRow(row)
    BY <1>2, UnwrittenColumns, PricedRow DEF QuotationsInv
  <1> HIDE DEF row
  <1>4. Written(r, row, items, invoice[Of(r)], {})
    BY <1>2, <1>3, UnwrittenColumns, SavedRow DEF QuotationsInv
  <1> QED
    BY <1>2, <1>4, DraftHandled

LEMMA QuotationPatchHandled ==
    ASSUME QuotationsInv, NEW r \in Request, PatchQuotation(r)
    PROVE  QuotationHandled(r)
  <1>1. PICK patch \in QuotationPatches : SaveQuotation(Of(r), Patched(Loaded(r), patch))
    BY DEF PatchQuotation
  <1> DEFINE row == Patched(Loaded(r), patch)
  <1>2. /\ Working(r) /\ Done(r) /\ Loaded(r).status = "DRAFT"
        /\ UNCHANGED <<line, invoice, contended, finalized>>
    BY DEF PatchQuotation
  <1>3. IsRow(row)
    BY <1>2, UnwrittenColumns, PatchedQuotation DEF QuotationsInv
  <1> HIDE DEF row
  <1>4. Written(r, row, line[Of(r)], invoice[Of(r)], {})
    BY <1>1, <1>2, <1>3, UnwrittenColumns, SavedRow DEF QuotationsInv, row
  <1> QED
    BY <1>2, <1>4, DraftHandled

LEMMA DeleteHandled ==
    ASSUME QuotationsInv, NEW r \in Request, Delete(r)
    PROVE  QuotationHandled(r)
  <1>1. /\ Working(r) /\ Done(r) /\ Loaded(r).status = "DRAFT" /\ SaveQuotation(Of(r), Gone)
        /\ line' = [line EXCEPT ![Of(r)] = NoLines]
        /\ UNCHANGED <<invoice, contended, finalized>>
    BY DEF Delete
  <1>2. IsRow(Gone)
    BY DEF IsRow, Gone, NoQuotation, Absent
  <1>3. Written(r, Gone, NoLines, invoice[Of(r)], {})
    BY <1>1, <1>2, UnwrittenColumns, SavedRow DEF QuotationsInv
  <1> QED
    BY <1>1, <1>3, DraftHandled

LEMMA EndHandled ==
    ASSUME QuotationsInv, NEW r \in Request, End(r)
    PROVE  QuotationHandled(r)
  <1>1. /\ Working(r) /\ Done(r)
        /\ UNCHANGED <<quotation, line, invoice, contended, finalized, reopened>>
    BY DEF End
  <1>2. Written(r, quotation[Of(r)], line[Of(r)], invoice[Of(r)], {})
    BY <1>1, UnwrittenColumns DEF QuotationsInv, Written, Shapes
  <1>3. ASSUME Of(r) \notin contended
        PROVE  /\ GoodQuotation(quotation[Of(r)], line[Of(r)], invoice[Of(r)],
                       Of(r) \in finalized', Of(r) \in reopened')
               /\ Keeps(r, quotation[Of(r)], line[Of(r)])
    BY <1>1, <1>3, AloneWithIt, UnwrittenColumns
       DEF InOrder, GoodQuotation, Keeps, QuotationsInv, Shapes, IsRow
  <1> QED
    BY <1>2, <1>3 DEF QuotationHandled

(* A handler that only writes another status of an issued quotation. *)
LEMMA StatusHandled ==
    ASSUME QuotationsInv, NEW r \in Request, Working(r),
           NEW new \in {"SENT", "APPROVED", "REJECTED"},
           NEW row, IsRow(row), row.status = new,
           Written(r, row, line[Of(r)], invoice[Of(r)], {}),
           Of(r) \notin contended => row = [quotation[Of(r)] EXCEPT !.status = new]
    PROVE  QuotationHandled(r)
  <1> SUFFICES ASSUME Of(r) \notin contended
               PROVE  /\ GoodQuotation(row, line[Of(r)], invoice[Of(r)],
                              Of(r) \in finalized', Of(r) \in reopened')
                      /\ Keeps(r, row, line[Of(r)])
    BY DEF QuotationHandled
  <1>1. /\ InOrder(Of(r)) /\ IsRow(quotation[Of(r)]) /\ new \in Issued
        /\ row.total = quotation[Of(r)].total /\ row.vat = quotation[Of(r)].vat
        /\ row.discount = quotation[Of(r)].discount
    <2>1. InOrder(Of(r)) /\ row = [quotation[Of(r)] EXCEPT !.status = new]
      BY AloneWithIt
    <2>2. IsRow(quotation[Of(r)]) /\ new \in QuotationStatus /\ new \in Issued
      BY UnwrittenColumns DEF QuotationsInv, Issued, QuotationStatus
    <2> QED
      BY <2>1, <2>2, ChangedRow
  <1>2. /\ Of(r) \in finalized' <=> Of(r) \in finalized
        /\ Of(r) \notin reopened' =>
              Of(r) \notin reopened /\ quotation[Of(r)].status # "CONVERTED"
    BY <1>1 DEF Written
  <1>3. IsSequence(invoice[Of(r)]) /\ Len(invoice[Of(r)]) \in Nat
    BY UnwrittenColumns, AppendedBills DEF QuotationsInv
  <1>4. GoodQuotation(row, line[Of(r)], invoice[Of(r)], Of(r) \in finalized', Of(r) \in reopened')
    BY <1>1, <1>2, <1>3 DEF InOrder, GoodQuotation
  <1>5. Keeps(r, row, line[Of(r)])
    BY <1>1 DEF Keeps
  <1> QED
    BY <1>4, <1>5

LEMMA SendAgainHandled ==
    ASSUME QuotationsInv, NEW r \in Request, SendAgain(r)
    PROVE  QuotationHandled(r)
  <1> DEFINE row == [quotation[Of(r)] EXCEPT !.status = "SENT"]
  <1>1. /\ Working(r) /\ Done(r) /\ SaveQuotation(Of(r), row)
        /\ UNCHANGED <<line, invoice, contended, finalized>>
    BY DEF SendAgain
  <1>2. IsRow(row) /\ row.status = "SENT"
    <2>1. IsRow(quotation[Of(r)]) /\ "SENT" \in QuotationStatus
      BY <1>1, UnwrittenColumns DEF QuotationsInv, QuotationStatus
    <2> QED
      BY <2>1, ChangedRow
  <1>3. Written(r, row, line[Of(r)], invoice[Of(r)], {})
    BY <1>1, <1>2, UnwrittenColumns, SavedRow DEF QuotationsInv
  <1> QED
    BY <1>1, <1>2, <1>3, StatusHandled

LEMMA AnswerHandled ==
    ASSUME QuotationsInv, NEW r \in Request, Answer(r)
    PROVE  QuotationHandled(r)
  <1>1. PICK answer \in {"APPROVED", "REJECTED"} :
          SaveQuotation(Of(r), [Loaded(r) EXCEPT !.status = answer])
    BY DEF Answer
  <1> DEFINE row == [Loaded(r) EXCEPT !.status = answer]
  <1>2. Working(r) /\ Done(r) /\ UNCHANGED <<line, invoice, contended, finalized>>
    BY DEF Answer
  <1>3. IsRow(row) /\ row.status = answer
    <2>1. IsRow(Loaded(r)) /\ answer \in QuotationStatus
      BY <1>2, UnwrittenColumns DEF QuotationsInv, QuotationStatus
    <2> QED
      BY <2>1, ChangedRow
  <1>4. Written(r, row, line[Of(r)], invoice[Of(r)], {})
    BY <1>1, <1>2, <1>3, UnwrittenColumns, SavedRow DEF QuotationsInv
  <1>5. Of(r) \notin contended => row = [quotation[Of(r)] EXCEPT !.status = answer]
    BY <1>2, AloneWithIt
  <1> QED
    BY <1>2, <1>3, <1>4, <1>5, StatusHandled

LEMMA FinalizeHandled ==
    ASSUME QuotationsInv, NEW r \in Request, Finalize(r)
    PROVE  QuotationHandled(r)
  <1>1. PICK lines \in ItemsOf(r) :
          SaveQuotation(Of(r), [Loaded(r) EXCEPT !.status = "SENT",
                          !.total = TotalOf(lines, Loaded(r).vat, Loaded(r).discount)])
    BY DEF Finalize
  <1> DEFINE total == TotalOf(lines, Loaded(r).vat, Loaded(r).discount)
             row == [Loaded(r) EXCEPT !.status = "SENT", !.total = total]
  <1>2. /\ Working(r) /\ Done(r) /\ Loaded(r).status = "DRAFT"
        /\ finalized' = finalized \cup {Of(r)} /\ UNCHANGED <<line, invoice, contended>>
        /\ SaveQuotation(Of(r), row)
    BY <1>1 DEF Finalize
  <1>3. total = TotalOf(lines, Loaded(r).vat, Loaded(r).discount)
    OBVIOUS
  <1> HIDE DEF total
  <1>4. /\ IsRow(row) /\ row.status = "SENT" /\ row.total = total
        /\ row.vat = Loaded(r).vat /\ row.discount = Loaded(r).discount
    <2>1. IsRow(Loaded(r))
      BY <1>2, UnwrittenColumns DEF QuotationsInv
    <2> QED
      BY <2>1, TotaledRow
  <1> HIDE DEF row
  <1>5. Written(r, row, line[Of(r)], invoice[Of(r)], {Of(r)})
    BY <1>2, <1>4, UnwrittenColumns, SavedRow DEF QuotationsInv
  <1>6. ASSUME Of(r) \notin contended
        PROVE  /\ GoodQuotation(row, line[Of(r)], invoice[Of(r)],
                       Of(r) \in finalized', Of(r) \in reopened')
               /\ Keeps(r, row, line[Of(r)])
    <2>1. /\ Loaded(r) = quotation[Of(r)] /\ lines = line[Of(r)]
          /\ invoice[Of(r)] = <<>> /\ quotation[Of(r)].status = "DRAFT"
      BY <1>2, <1>6, AloneWithIt
    <2>2. row.total = TotalOf(line[Of(r)], row.vat, row.discount)
      BY <1>3, <1>4, <2>1
    <2>3. row.status \in Issued
      BY <1>4 DEF Issued, QuotationStatus
    <2> QED
      BY <2>1, <2>2, <2>3, EmptyBills DEF GoodQuotation, Keeps, Issued
  <1> QED
    BY <1>5, <1>6 DEF QuotationHandled

LEMMA ConvertHandled ==
    ASSUME QuotationsInv, NEW r \in Request, Convert(r)
    PROVE  QuotationHandled(r)
  <1>1. PICK lines \in ItemsOf(r) :
          invoice' = [invoice EXCEPT ![Of(r)] = Append(@,
              [total |-> Loaded(r).total, vat |-> Loaded(r).vat, lines |-> InvoiceLines(lines)])]
    BY DEF Convert
  <1> DEFINE bill == [total |-> Loaded(r).total, vat |-> Loaded(r).vat,
                      lines |-> InvoiceLines(lines)]
             bills == Append(invoice[Of(r)], bill)
             row == [Loaded(r) EXCEPT !.status = "CONVERTED"]
  <1>2. /\ Working(r) /\ Done(r) /\ Loaded(r).status \notin {"REJECTED", "EXPIRED", "CONVERTED"}
        /\ SaveQuotation(Of(r), row) /\ UNCHANGED <<line, contended, finalized>>
    BY DEF Convert
  <1>3. invoice' = [invoice EXCEPT ![Of(r)] = bills] /\ IsSequence(invoice[Of(r)])
    BY <1>1, <1>2, UnwrittenColumns DEF QuotationsInv, Shapes
  <1>4. bill = [total |-> Loaded(r).total, vat |-> Loaded(r).vat, lines |-> InvoiceLines(lines)]
    OBVIOUS
  <1> HIDE DEF bill
  <1>5. /\ IsSequence(bills) /\ Len(invoice[Of(r)]) \in Nat
        /\ Len(bills) = Len(invoice[Of(r)]) + 1
        /\ \A n \in DOMAIN bills : \/ n \in DOMAIN invoice[Of(r)] /\ bills[n] = invoice[Of(r)][n]
                                   \/ bills[n] = bill
    BY <1>3, AppendedBills
  <1> HIDE DEF bills
  <1>6. /\ IsRow(row) /\ row.status = "CONVERTED" /\ row.total = Loaded(r).total
        /\ row.vat = Loaded(r).vat /\ row.discount = Loaded(r).discount
    <2>1. IsRow(Loaded(r)) /\ "CONVERTED" \in QuotationStatus
      BY <1>2, UnwrittenColumns DEF QuotationsInv, QuotationStatus
    <2> QED
      BY <2>1, ChangedRow
  <1>7. Written(r, row, line[Of(r)], bills, {})
    BY <1>2, <1>3, <1>5, <1>6, UnwrittenColumns, SavedRow DEF QuotationsInv
  <1>8. ASSUME Of(r) \notin contended
        PROVE  /\ GoodQuotation(row, line[Of(r)], bills, Of(r) \in finalized', Of(r) \in reopened')
               /\ Keeps(r, row, line[Of(r)])
    <2>1. /\ Loaded(r) = quotation[Of(r)] /\ lines = line[Of(r)] /\ InOrder(Of(r))
          /\ quotation[Of(r)].status # "CONVERTED"
      BY <1>2, <1>8, AloneWithIt
    <2>2. row.status \in Issued
      BY <1>6 DEF Issued, QuotationStatus
    <2>3. /\ Of(r) \in finalized' <=> Of(r) \in finalized
          /\ Of(r) \notin reopened' => Of(r) \notin reopened
      BY <1>7 DEF Written
    <2>4. Of(r) \notin reopened => Len(invoice[Of(r)]) = 0
      <3>1. Of(r) \notin reopened =>
              /\ Len(invoice[Of(r)]) <= 1
              /\ Len(invoice[Of(r)]) = 1 => quotation[Of(r)].status = "CONVERTED"
        BY <2>1, Zenon DEF InOrder, GoodQuotation
      <3>2. Len(invoice[Of(r)]) \in Nat /\ quotation[Of(r)].status # "CONVERTED"
        BY <1>5, <2>1, Zenon
      <3> DEFINE n == Len(invoice[Of(r)])
      <3> HIDE DEF n
      <3>3. n \in Nat /\ (Of(r) \notin reopened => n <= 1 /\ n # 1)
        BY <3>1, <3>2, Zenon DEF n
      <3>4. Of(r) \notin reopened => n = 0
        BY <3>3
      <3> QED
        BY <3>4 DEF n
    <2>5. ASSUME Of(r) \in finalized
          PROVE  /\ row.total = TotalOf(line[Of(r)], row.vat, row.discount)
                 /\ \A n \in DOMAIN bills :
                       bills[n] = [total |-> row.total, vat |-> row.vat,
                                   lines |-> InvoiceLines(line[Of(r)])]
      BY <1>4, <1>5, <1>6, <2>1, <2>5 DEF InOrder, GoodQuotation
    <2>6. GoodQuotation(row, line[Of(r)], bills, Of(r) \in finalized', Of(r) \in reopened')
      BY <1>5, <1>6, <2>2, <2>3, <2>4, <2>5 DEF GoodQuotation
    <2>7. Keeps(r, row, line[Of(r)])
      BY <1>6, <2>1, <2>2 DEF Keeps
    <2> QED
      BY <2>6, <2>7
  <1> QED
    BY <1>7, <1>8 DEF QuotationHandled

-----------------------------------------------------------------------------
(* Creating and loading a quotation. *)

LEMMA InsertInv ==
    ASSUME QuotationsInv, NEW q \in Quotation, NEW row \in QuotationRow, row.status \in QuotationStatus,
           NEW lines, NEW total, InsertQuotation(q, row, lines, total)
    PROVE  QuotationsInv' /\ IssuedKept
  <1> DEFINE new == [row EXCEPT !.total = total]
  <1>1. IsRow(new) /\ new.status \in QuotationStatus
    BY TypedRow
  <1>2. /\ quotation[q].status = "unborn"
        /\ quotation' = [quotation EXCEPT ![q] = new] /\ line' = [line EXCEPT ![q] = lines]
        /\ UNCHANGED <<invoice, request, contended, finalized, reopened>>
    BY DEF InsertQuotation
  <1> HIDE DEF new
  <1>3. \A p \in Quotation : /\ quotation'[p] = IF p = q THEN new ELSE quotation[p]
                             /\ line'[p] = IF p = q THEN lines ELSE line[p]
    BY <1>2 DEF QuotationsInv, Shapes
  <1>4. Shapes'
    BY <1>1, <1>2, <1>3 DEF QuotationsInv, Shapes, Working, Of, Loaded
  <1>5. QuotationsAreCurrent'
    <2> SUFFICES ASSUME NEW r \in Request, Working(r), Of(r) \notin contended
                 PROVE  Loaded(r) = quotation'[Of(r)] /\ request[r].lines = line'[Of(r)]
      BY <1>2 DEF QuotationsInv, QuotationsAreCurrent, Working, Of, Loaded
    <2>1. Of(r) \in Quotation /\ Loaded(r).status \in QuotationStatus /\ Loaded(r) = quotation[Of(r)]
      BY DEF QuotationsInv, QuotationsAreCurrent, Shapes
    <2>2. Of(r) # q
      BY <1>2, <2>1 DEF QuotationStatus
    <2> QED
      BY <1>3, <2>1, <2>2 DEF QuotationsInv, QuotationsAreCurrent
  <1>6. ASSUME NEW p \in Quotation \ contended
        PROVE  InOrder(p)'
    <2>1. CASE p = q
      <3>1. invoice[q] = <<>> /\ q \notin finalized
        BY <1>2, <1>6, <2>1 DEF QuotationsInv, InOrder, GoodQuotation, Issued, QuotationStatus
      <3> QED
        BY <1>2, <1>3, <2>1, <3>1, EmptyBills DEF InOrder, GoodQuotation
    <2>2. CASE p # q
      BY <1>2, <1>3, <1>6, <2>2 DEF QuotationsInv, InOrder, GoodQuotation
    <2> QED
      BY <2>1, <2>2
  <1>7. IssuedKept
    BY <1>2, <1>3 DEF IssuedKept, QuotationsInv, Shapes, IsRow, QuotationStatus
  <1> QED
    BY <1>2, <1>4, <1>5, <1>6, <1>7 DEF QuotationsInv

LEMMA LoadInv ==
    ASSUME QuotationsInv, NEW r \in Request, LoadQuotation(r)
    PROVE  QuotationsInv' /\ IssuedKept
  <1>1. PICK q \in Quotation :
          /\ QuotationExists(q)
          /\ request' = [request EXCEPT ![r] = [on |-> q, row |-> quotation[q], lines |-> line[q]]]
          /\ contended' = contended \cup {p \in {q} : \E s \in Request : Working(s) /\ Of(s) = p}
    BY DEF LoadQuotation
  <1>2. /\ request[r] = Idle
        /\ UNCHANGED <<quotation, line, invoice, finalized, reopened>>
    BY DEF LoadQuotation
  <1>3. \A s \in Request : /\ s # r => request'[s] = request[s]
                           /\ s = r => /\ request'[s].on = q /\ request'[s].row = quotation[q]
                                       /\ request'[s].lines = line[q]
    BY <1>1 DEF QuotationsInv, Shapes
  <1>4. IsRow(quotation[q]) /\ quotation[q].status \in QuotationStatus
    BY <1>1 DEF QuotationsInv, Shapes, IsRow, QuotationExists
  <1>5. Shapes'
    <2>1. request' = [s \in Request |-> request'[s]]
      BY <1>1 DEF QuotationsInv, Shapes
    <2>2. \A s \in Request : Working(s)' =>
            /\ request'[s].on \in Quotation
            /\ IsRow(request'[s].row) /\ request'[s].row.status \in QuotationStatus
      BY <1>1, <1>3, <1>4 DEF QuotationsInv, Shapes, Working, Of, Loaded
    <2> QED
      BY <1>2, <2>1, <2>2 DEF QuotationsInv, Shapes, Of, Loaded
  <1>6. QuotationsAreCurrent'
    <2> SUFFICES ASSUME NEW s \in Request, Working(s)', request'[s].on \notin contended'
                 PROVE  /\ request'[s].row = quotation[request'[s].on]
                        /\ request'[s].lines = line[request'[s].on]
                        /\ \A t \in Request : Working(t)' /\ request'[t].on = request'[s].on => t = s
      BY <1>2 DEF QuotationsAreCurrent, Of, Loaded
    <2>1. CASE s = r
      <3>1. \A t \in Request : Working(t) => Of(t) # q
        BY <1>1, <1>3, <2>1
      <3> QED
        BY <1>3, <2>1, <3>1 DEF Working, Of
    <2>2. CASE s # r
      <3>1. Working(s) /\ Of(s) \notin contended /\ request'[s] = request[s]
        BY <1>1, <1>3, <2>2 DEF Working, Of
      <3>2. Of(s) # q
        BY <1>1, <3>1 DEF Of
      <3> QED
        BY <1>3, <3>1, <3>2 DEF QuotationsInv, QuotationsAreCurrent, Working, Of, Loaded
    <2> QED
      BY <2>1, <2>2
  <1>7. \A p \in Quotation \ contended' : InOrder(p)'
    BY <1>1, <1>2 DEF QuotationsInv, InOrder
  <1>8. IssuedKept
    BY <1>2 DEF IssuedKept, QuotationsInv, Shapes, IsRow
  <1> QED
    BY <1>5, <1>6, <1>7, <1>8 DEF QuotationsInv

LEMMA NextInv ==
    ASSUME QuotationsInv, [QuotationsNext]_quotationsVars
    PROVE  QuotationsInv' /\ IssuedKept
  <1>1. ASSUME NEW q \in Quotation, CreateByForm(q) \/ CreateByApi(q)
        PROVE  QuotationsInv' /\ IssuedKept
    <2>1. PICK new \in NewQuotations : \E lines, total : InsertQuotation(q, new.row, lines, total)
      BY <1>1 DEF CreateByForm, CreateByApi
    <2>2. PICK lines, total : InsertQuotation(q, new.row, lines, total)
      BY <2>1
    <2>3. new.row \in QuotationRow /\ new.row.status \in QuotationStatus
      BY QuotationsAssumption
    <2> QED
      BY <2>2, <2>3, InsertInv
  <1>2. ASSUME NEW r \in Request, LoadQuotation(r)
        PROVE  QuotationsInv' /\ IssuedKept
    BY <1>2, LoadInv
  <1>3. ASSUME NEW r \in Request, Issue(r) \/ Change(r) \/ End(r)
        PROVE  QuotationsInv' /\ IssuedKept
    <2>1. QuotationHandled(r)
      BY <1>3, FinalizeHandled, SendAgainHandled, AnswerHandled, ConvertHandled,
         UpdateHandled, QuotationPatchHandled, DeleteHandled, EndHandled DEF Issue, Change
    <2> QED
      BY <2>1, QuotationHandledInv
  <1>4. CASE UNCHANGED quotationsVars
    <2>1. QuotationsInv'
      BY <1>4 DEF quotationsVars, QuotationsInv, Shapes, QuotationsAreCurrent, InOrder, Working, Of, Loaded
    <2>2. IssuedKept
      BY <1>4 DEF quotationsVars, IssuedKept, QuotationsInv, Shapes, IsRow
    <2> QED
      BY <2>1, <2>2
  <1> QED
    BY <1>1, <1>2, <1>3, <1>4 DEF QuotationsNext

-----------------------------------------------------------------------------
(* The inductive invariant: copies are current, and each quotation, with   *)
(* its lines and invoices, is in order unless two requests worked on it.   *)
THEOREM QuotationsInOrder == QuotationsSpec => []QuotationsInv
  <1>1. QuotationsInit => QuotationsInv
    BY QuotationsInitInv
  <1>2. QuotationsInv /\ [QuotationsNext]_quotationsVars => QuotationsInv'
    BY NextInv
  <1> QED
    BY <1>1, <1>2, PTL DEF QuotationsSpec

(* ConvertedOnce: one invoice of a quotation, and CONVERTED from then on. *)
THEOREM ConvertedOnceTheorem == QuotationsSpec => []ConvertedOnce
  <1>1. QuotationsInv => ConvertedOnce
    BY DEF QuotationsInv, InOrder, GoodQuotation, ConvertedOnce
  <1> QED
    BY <1>1, QuotationsInOrder, PTL

(* InvoicedAsIssued: an issued quotation and its invoices bill its lines. *)
THEOREM InvoicedTheorem == QuotationsSpec => []InvoicedAsIssued
  <1>1. QuotationsInv => InvoicedAsIssued
    BY DEF QuotationsInv, InOrder, GoodQuotation, InvoicedAsIssued, Shapes
  <1> QED
    BY <1>1, QuotationsInOrder, PTL

(* IssuedIsFrozen: what is no draft keeps its lines and amounts for good. *)
THEOREM FrozenTheorem == QuotationsSpec => IssuedIsFrozen
  <1>1. QuotationsInv /\ [QuotationsNext]_quotationsVars =>
          [\A q \in Quotation \ contended' :
              quotation[q].status \in QuotationStatus \ {"DRAFT"} =>
                  /\ quotation'[q].status \in QuotationStatus \ {"DRAFT"}
                  /\ quotation'[q] = [quotation[q] EXCEPT !.status = quotation'[q].status]
                  /\ line'[q] = line[q]]_quotationsVars
    BY NextInv DEF IssuedKept
  <1> QED
    BY <1>1, QuotationsInOrder, PTL DEF QuotationsSpec, IssuedIsFrozen

-----------------------------------------------------------------------------
RowsTypeOK ==
    /\ subscription \in [Subscription -> Row]
    /\ began \in [Subscription -> Date]
    /\ billed \in [Subscription -> Seq(Bill)]
    /\ command \subseteq Copy /\ \A c \in command : c.row.status \in Status
    /\ request \in [Request -> Copy \cup {Idle}]
    /\ \A r \in Request : Working(r) => Loaded(r).status \in Status
    /\ contended \subseteq Subscription

(* Who has a subscription alone holds it as it is.  The command reads      *)
(* every subscription once, so that two of its copies are never of one.    *)
CopiesAreCurrent ==
    /\ \A r \in Request : Working(r) /\ Of(r) \notin contended =>
          /\ Loaded(r) = subscription[Of(r)]
          /\ \A q \in Request : Working(q) /\ Of(q) = Of(r) => q = r
          /\ \A c \in command : c.on # Of(r)
    /\ \A c \in command : c.on \notin contended => c.row = subscription[c.on]

(* The bills of a subscription that starts on a day, and the next one.     *)
DueAfter(start, bills, n) ==
    IF n = 0 THEN start ELSE NextBillingDate(bills[n].date, bills[n].cycle)

Series(start, next, bills) ==
    /\ \A n \in DOMAIN bills : bills[n].date = DueAfter(start, bills, n - 1)
    /\ next = DueAfter(start, bills, Len(bills))

Good(start, row, bills) ==
    /\ row.status = "unborn" => bills = <<>>
    /\ row.status \in Status => Series(start, row.next, bills)

BilledInv ==
    /\ RowsTypeOK /\ CopiesAreCurrent
    /\ \A s \in Subscription \ contended : Good(began[s], subscription[s], billed[s])

(* The one who had the subscription in hand lets it go.                    *)
LetsGo(s) ==
    /\ contended' = contended /\ began' = began
    /\ \/ \E r \in Request : Working(r) /\ Of(r) = s /\ Done(r) /\ command' = command
       \/ \E c \in command : c.on = s /\ command' = command \ {c} /\ request' = request

(* What a handler that ends leaves of its subscription.                    *)
Handled(s, row, bills) ==
    /\ s \in Subscription /\ row \in Row /\ bills \in Seq(Bill)
    /\ subscription' = [subscription EXCEPT ![s] = row]
    /\ billed' = [billed EXCEPT ![s] = bills]
    /\ LetsGo(s)
    /\ s \notin contended => Good(began[s], row, bills)

(* An organization that deleted no invoice, and whose clients chose no     *)
(* number, has given away no number beyond its count.                      *)
Number == [organization: Organization, year: Nat, number: Nat]

NumbersInv ==
    /\ today \in Date
    /\ numbered \subseteq Number /\ IsFiniteSet(numbered)
    /\ others \in [Organization -> Nat]
    /\ \A o \in Organization \ irregular : \A i \in numbered :
          i.organization = o => i.number <= Count(o)

-----------------------------------------------------------------------------
(* Dates, rows and series. *)

LEMMA NextDate ==
    ASSUME NEW d \in Date, NEW cycle \in Cycle
    PROVE  NextBillingDate(d, cycle) \in Date
  <1>1. ASSUME NEW y, NEW m
        PROVE  MonthLength(y, m) \in 28..31
    BY DEF MonthLength
  <1>2. ASSUME NEW k \in {1, 3, 6, 12}
        PROVE  YearAfter(d, k) \in Nat /\ MonthAfter(d, k) \in 1..12
    BY DEF YearAfter, MonthAfter, Date
  <1>3. Months(cycle) \in {1, 3, 6, 12}
    BY DEF Months, Cycle
  <1>4. SameDay(d, Months(cycle)) \in Date
    BY <1>1, <1>2, <1>3 DEF SameDay, Date
  <1>5. WeekAfter(d) \in Date
    <2>1. MonthLength(d.year, d.month) \in 28..31
      BY <1>1
    <2>2. YearAfter(d, 1) \in Nat /\ MonthAfter(d, 1) \in 1..12
      BY <1>2
    <2> QED
      BY <2>1, <2>2 DEF WeekAfter, Date
  <1> QED
    BY <1>4, <1>5 DEF NextBillingDate

LEMMA PatchedRow ==
    ASSUME NEW row \in Row, row.status \in Status, NEW patch \in Patches
    PROVE  /\ Patched(row, patch) \in Row /\ Patched(row, patch).status \in Status
           /\ Patched(row, patch).next = row.next
  <1>1. /\ DOMAIN patch \subseteq {"status", "active", "auto", "cycle", "start"}
        /\ "status" \in DOMAIN patch => patch.status \in Status
        /\ "cycle" \in DOMAIN patch => patch.cycle \in Cycle
        /\ "start" \in DOMAIN patch => patch.start \in Date
        /\ "active" \in DOMAIN patch => patch.active \in BOOLEAN
        /\ "auto" \in DOMAIN patch => patch.auto \in BOOLEAN
    BY SubscriptionsAssumption
  <1>2. Patched(row, patch) =
          [status |-> IF "status" \in DOMAIN patch THEN patch.status ELSE row.status,
           active |-> IF "active" \in DOMAIN patch THEN patch.active ELSE row.active,
           auto |-> IF "auto" \in DOMAIN patch THEN patch.auto ELSE row.auto,
           cycle |-> IF "cycle" \in DOMAIN patch THEN patch.cycle ELSE row.cycle,
           start |-> IF "start" \in DOMAIN patch THEN patch.start ELSE row.start,
           next |-> row.next, items |-> row.items]
    BY <1>1 DEF Patched, Row
  <1> QED
    BY <1>1, <1>2 DEF Row

LEMMA SeriesGoesOn ==
    ASSUME NEW start, NEW next, NEW bills \in Seq(Bill), Series(start, next, bills),
           NEW bill \in Bill, bill.date = next
    PROVE  Series(start, NextBillingDate(bill.date, bill.cycle), Append(bills, bill))
  <1> DEFINE more == Append(bills, bill)
  <1>1. /\ Len(bills) \in Nat /\ DOMAIN bills = 1..Len(bills)
        /\ DOMAIN more = 1..(Len(bills) + 1) /\ Len(more) = Len(bills) + 1
        /\ more[Len(bills) + 1] = bill
        /\ \A n \in 1..Len(bills) : more[n] = bills[n]
    BY AppendProperties
  <1> HIDE DEF more
  <1>2. \A n \in 0..Len(bills) : DueAfter(start, more, n) = DueAfter(start, bills, n)
    BY <1>1 DEF DueAfter
  <1>3. ASSUME NEW n \in DOMAIN more
        PROVE  more[n].date = DueAfter(start, more, n - 1)
    <2>1. CASE n \in 1..Len(bills)
      BY <1>1, <1>2, <2>1 DEF Series
    <2>2. CASE n = Len(bills) + 1
      BY <1>1, <1>2, <2>2 DEF Series
    <2> QED
      BY <1>1, <1>3, <2>1, <2>2
  <1>4. DueAfter(start, more, Len(more)) = NextBillingDate(bill.date, bill.cycle)
    BY <1>1 DEF DueAfter
  <1>5. Series(start, NextBillingDate(bill.date, bill.cycle), more)
    BY <1>3, <1>4 DEF Series
  <1> QED
    BY <1>5 DEF more

-----------------------------------------------------------------------------
(* Taking a subscription in hand, and letting it go. *)

LEMMA InitBilled == SubscriptionsInit => BilledInv
  <1> SUFFICES ASSUME SubscriptionsInit PROVE BilledInv
    OBVIOUS
  <1>1. NoRow \in Row
    BY SubscriptionsAssumption DEF NoRow, Row, Absent, Cycle
  <1>2. RowsTypeOK
    BY <1>1, SubscriptionsAssumption DEF SubscriptionsInit, RowsTypeOK, Working
  <1>3. CopiesAreCurrent
    BY DEF SubscriptionsInit, CopiesAreCurrent, Working
  <1>4. \A s \in Subscription : Good(began[s], subscription[s], billed[s])
    BY DEF SubscriptionsInit, Good, NoRow, Status
  <1> QED
    BY <1>2, <1>3, <1>4 DEF BilledInv

LEMMA HandledInv ==
    ASSUME BilledInv, NEW s, NEW row, NEW bills, Handled(s, row, bills)
    PROVE  BilledInv'
  <1>1. /\ s \in Subscription /\ row \in Row /\ bills \in Seq(Bill)
        /\ subscription' = [subscription EXCEPT ![s] = row]
        /\ billed' = [billed EXCEPT ![s] = bills]
        /\ contended' = contended /\ began' = began
        /\ s \notin contended => Good(began[s], row, bills)
    BY DEF Handled, LetsGo
  <1>2. \A p \in Subscription : /\ subscription'[p] = IF p = s THEN row ELSE subscription[p]
                                /\ billed'[p] = IF p = s THEN bills ELSE billed[p]
    BY <1>1 DEF BilledInv, RowsTypeOK
  <1>3. /\ command' \subseteq command
        /\ request' \in [Request -> Copy \cup {Idle}]
        /\ \A r \in Request : Working(r)' => Working(r) /\ request'[r] = request[r]
    BY DEF Handled, LetsGo, Done, BilledInv, RowsTypeOK, Working
  <1>4. RowsTypeOK'
    BY <1>1, <1>3 DEF BilledInv, RowsTypeOK, Loaded
  <1>5. s \notin contended =>
          /\ \A r \in Request : Working(r)' => Of(r) # s
          /\ \A c \in command' : c.on # s
    <2> SUFFICES ASSUME s \notin contended
                 PROVE  /\ \A r \in Request : Working(r)' => Of(r) # s
                        /\ \A c \in command' : c.on # s
      OBVIOUS
    <2>1. CASE \E r \in Request : Working(r) /\ Of(r) = s /\ Done(r) /\ command' = command
      <3>1. PICK r \in Request : Working(r) /\ Of(r) = s /\ Done(r) /\ command' = command
        BY <2>1
      <3>2. request'[r] = Idle
        BY <3>1 DEF Done, BilledInv, RowsTypeOK
      <3> QED
        BY <1>3, <3>1, <3>2 DEF BilledInv, CopiesAreCurrent, Working
    <2>2. CASE \E c \in command : c.on = s /\ command' = command \ {c} /\ request' = request
      <3>1. PICK c \in command : c.on = s /\ command' = command \ {c} /\ request' = request
        BY <2>2
      <3>2. ASSUME NEW d \in command, d.on = s
            PROVE  d = c
        <4>1. d \in Copy /\ c \in Copy
          BY DEF BilledInv, RowsTypeOK
        <4>2. d.row = subscription[s] /\ c.row = subscription[s]
          BY <3>1, <3>2 DEF BilledInv, CopiesAreCurrent
        <4> QED
          BY <3>1, <3>2, <4>1, <4>2 DEF Copy
      <3> QED
        BY <1>3, <3>1, <3>2 DEF BilledInv, CopiesAreCurrent
    <2> QED
      BY <2>1, <2>2 DEF Handled, LetsGo
  <1>6. CopiesAreCurrent'
    <2>1. ASSUME NEW r \in Request, Working(r)', request'[r].on \notin contended
          PROVE  /\ request'[r].row = subscription'[request'[r].on]
                 /\ \A q \in Request : Working(q)' /\ request'[q].on = request'[r].on => q = r
                 /\ \A c \in command' : c.on # request'[r].on
      <3>1. Working(r) /\ request'[r] = request[r] /\ Of(r) \in Subscription \ {s}
        BY <1>3, <1>5, <2>1 DEF BilledInv, RowsTypeOK, Copy, Working, Of
      <3>2. /\ Loaded(r) = subscription[Of(r)]
            /\ \A q \in Request : Working(q) /\ Of(q) = Of(r) => q = r
            /\ \A c \in command : c.on # Of(r)
        BY <2>1, <3>1 DEF BilledInv, CopiesAreCurrent, Of
      <3> QED
        BY <1>2, <1>3, <3>1, <3>2 DEF Of, Loaded
    <2>2. ASSUME NEW c \in command', c.on \notin contended
          PROVE  c.row = subscription'[c.on]
      <3>1. c \in command /\ c.on \in Subscription \ {s}
        BY <1>3, <1>5, <2>2 DEF BilledInv, RowsTypeOK, Copy
      <3> QED
        BY <1>2, <2>2, <3>1 DEF BilledInv, CopiesAreCurrent
    <2> QED
      BY <1>1, <2>1, <2>2 DEF CopiesAreCurrent, Of, Loaded
  <1>7. \A p \in Subscription \ contended' : Good(began'[p], subscription'[p], billed'[p])
    BY <1>1, <1>2 DEF BilledInv
  <1> QED
    BY <1>4, <1>6, <1>7 DEF BilledInv

LEMMA CreateBilled ==
    ASSUME BilledInv, NEW s \in Subscription, Create(s)
    PROVE  BilledInv'
  <1>1. PICK row \in NewRows : Insert(s, row)
    BY DEF Create
  <1>2. /\ subscription[s].status = "unborn"
        /\ subscription' = [subscription EXCEPT ![s] = row]
        /\ began' = [began EXCEPT ![s] = row.start]
        /\ UNCHANGED <<billed, command, request, contended>>
    BY <1>1 DEF Insert, Create
  <1>3. row \in Row /\ row.status = "ACTIVE" /\ row.next = row.start
    BY SubscriptionsAssumption
  <1>4. \A p \in Subscription : /\ subscription'[p] = IF p = s THEN row ELSE subscription[p]
                                /\ began'[p] = IF p = s THEN row.start ELSE began[p]
    BY <1>2 DEF BilledInv, RowsTypeOK
  <1>5. RowsTypeOK'
    <2>1. row.start \in Date
      BY <1>3 DEF Row
    <2> QED
      BY <1>2, <1>3, <2>1 DEF BilledInv, RowsTypeOK, Working, Loaded
  <1>6. CopiesAreCurrent'
    <2>1. \A r \in Request : Working(r) /\ Of(r) \notin contended => Of(r) # s
      BY <1>2 DEF BilledInv, CopiesAreCurrent, RowsTypeOK, Status
    <2>2. \A c \in command : c.on \notin contended => c.on # s
      BY <1>2 DEF BilledInv, CopiesAreCurrent, RowsTypeOK, Status
    <2>3. /\ \A r \in Request : Working(r) => Of(r) \in Subscription
          /\ \A c \in command : c.on \in Subscription
      BY DEF BilledInv, RowsTypeOK, Copy, Working, Of
    <2> QED
      BY <1>2, <1>4, <2>1, <2>2, <2>3 DEF BilledInv, CopiesAreCurrent, Working, Of, Loaded
  <1>7. s \notin contended => Good(row.start, row, billed[s])
    <2>1. s \notin contended => billed[s] = <<>>
      BY <1>2 DEF BilledInv, Good
    <2>2. Series(row.start, row.next, <<>>)
      BY <1>3 DEF Series, DueAfter
    <2> QED
      BY <1>3, <2>1, <2>2 DEF Good
  <1>8. \A p \in Subscription \ contended' : Good(began'[p], subscription'[p], billed'[p])
    BY <1>2, <1>4, <1>7 DEF BilledInv
  <1> QED
    BY <1>5, <1>6, <1>8 DEF BilledInv

LEMMA LoadBilled ==
    ASSUME BilledInv, NEW r \in Request, Load(r)
    PROVE  BilledInv'
  <1>1. PICK s \in Subscription :
          /\ Exists(s)
          /\ request' = [request EXCEPT ![r] = [on |-> s, row |-> subscription[s]]]
          /\ contended' = contended \cup {p \in {s} : InHands(p)}
    BY DEF Load
  <1>2. ~Working(r) /\ UNCHANGED <<subscription, began, billed, command>>
    BY DEF Load
  <1>3. [on |-> s, row |-> subscription[s]] \in Copy /\ subscription[s].status \in Status
    BY <1>1 DEF BilledInv, RowsTypeOK, Copy, Row, Exists
  <1>4. \A q \in Request : /\ q # r => request'[q] = request[q]
                           /\ q = r => request'[q].on = s /\ request'[q].row = subscription[s]
    BY <1>1 DEF BilledInv, RowsTypeOK
  <1>5. RowsTypeOK'
    BY <1>1, <1>2, <1>3, <1>4 DEF BilledInv, RowsTypeOK, Working, Loaded
  <1>6. CopiesAreCurrent'
    <2>1. ASSUME NEW q \in Request, Working(q)', request'[q].on \notin contended'
          PROVE  /\ request'[q].row = subscription[request'[q].on]
                 /\ \A p \in Request : Working(p)' /\ request'[p].on = request'[q].on => p = q
                 /\ \A c \in command : c.on # request'[q].on
      <3>1. CASE q = r
        <4>1. ~InHands(s)
          BY <1>1, <1>4, <2>1, <3>1
        <4> QED
          BY <1>4, <3>1, <4>1 DEF InHands, Working, Of
      <3>2. CASE q # r
        <4>1. Working(q) /\ Of(q) \notin contended /\ request'[q] = request[q]
          BY <1>1, <1>4, <2>1, <3>2 DEF Working, Of
        <4>2. Of(q) # s
          BY <1>1, <2>1, <4>1 DEF InHands, Of
        <4> QED
          BY <1>4, <4>1, <4>2 DEF BilledInv, CopiesAreCurrent, Working, Of, Loaded
      <3> QED
        BY <3>1, <3>2
    <2>2. \A c \in command : c.on \notin contended' => c.row = subscription[c.on]
      BY <1>1 DEF BilledInv, CopiesAreCurrent
    <2> QED
      BY <1>2, <2>1, <2>2 DEF CopiesAreCurrent, Of, Loaded
  <1>7. \A p \in Subscription \ contended' : Good(began'[p], subscription'[p], billed'[p])
    BY <1>1, <1>2 DEF BilledInv
  <1> QED
    BY <1>5, <1>6, <1>7 DEF BilledInv

LEMMA RunCommandBilled ==
    ASSUME BilledInv, RunCommand
    PROVE  BilledInv'
  <1> DEFINE due == {s \in Subscription : IsDue(subscription[s])}
  <1>1. /\ command' = Copies(due) /\ contended' = contended \cup {s \in due : InHands(s)}
        /\ UNCHANGED <<subscription, began, billed, request>>
    BY DEF RunCommand
  <1>2. \A c \in command' : /\ c.on \in due /\ c.row = subscription[c.on] /\ c \in Copy
                            /\ c.row.status \in Status
    <2> SUFFICES ASSUME NEW s \in due
                 PROVE  [on |-> s, row |-> subscription[s]] \in Copy
                        /\ subscription[s].status \in Status
      BY <1>1 DEF Copies
    <2> QED
      BY DEF BilledInv, RowsTypeOK, Copy, IsDue, Status
  <1>3. RowsTypeOK'
    BY <1>1, <1>2 DEF BilledInv, RowsTypeOK, Working, Loaded
  <1>4. CopiesAreCurrent'
    <2>1. ASSUME NEW r \in Request, Working(r), Of(r) \notin contended'
          PROVE  \A c \in command' : c.on # Of(r)
      BY <1>1, <1>2, <2>1 DEF InHands
    <2> QED
      BY <1>1, <1>2, <2>1 DEF BilledInv, CopiesAreCurrent, Working, Of, Loaded
  <1>5. \A p \in Subscription \ contended' : Good(began'[p], subscription'[p], billed'[p])
    BY <1>1 DEF BilledInv
  <1> QED
    BY <1>3, <1>4, <1>5 DEF BilledInv

-----------------------------------------------------------------------------
(* The handlers: what each leaves of the subscription it had in hand. *)

(* A handler's copy is in hand, and true if nobody else had it.            *)
LEMMA InHand ==
    ASSUME BilledInv, NEW r \in Request, Working(r)
    PROVE  /\ Of(r) \in Subscription /\ request[r] \in Copy
           /\ Loaded(r) \in Row /\ Loaded(r).status \in Status
           /\ subscription[Of(r)] \in Row /\ billed[Of(r)] \in Seq(Bill)
           /\ Of(r) \notin contended =>
                 /\ Loaded(r) = subscription[Of(r)]
                 /\ Good(began[Of(r)], subscription[Of(r)], billed[Of(r)])
                 /\ Series(began[Of(r)], Loaded(r).next, billed[Of(r)])
  <1>1. request[r] \in Copy /\ Loaded(r).status \in Status
    BY DEF BilledInv, RowsTypeOK, Working
  <1>2. /\ Of(r) \in Subscription /\ Loaded(r) \in Row
        /\ subscription[Of(r)] \in Row /\ billed[Of(r)] \in Seq(Bill)
    BY <1>1 DEF BilledInv, RowsTypeOK, Copy, Of, Loaded
  <1>3. Of(r) \notin contended =>
           Loaded(r) = subscription[Of(r)] /\ Good(began[Of(r)], subscription[Of(r)], billed[Of(r)])
    BY <1>2 DEF BilledInv, CopiesAreCurrent
  <1> QED
    BY <1>1, <1>2, <1>3 DEF Good

LEMMA GenerateHandled ==
    ASSUME BilledInv, NEW c \in Copy, Generate(c), LetsGo(c.on),
           c.on \notin contended => c.row = subscription[c.on]
    PROVE  \E row, bills : Handled(c.on, row, bills)
  <1> DEFINE bill == [date |-> c.row.next, cycle |-> c.row.cycle]
             bills == Append(billed[c.on], bill)
             next == NextBillingDate(c.row.next, c.row.cycle)
             row == [subscription[c.on] EXCEPT !.next = next]
  <1>1. /\ c.on \in Subscription /\ c.row \in Row
        /\ subscription[c.on] \in Row /\ billed[c.on] \in Seq(Bill)
    BY DEF BilledInv, RowsTypeOK, Copy
  <1>2. bill \in Bill /\ bill.date = c.row.next /\ bill.cycle = c.row.cycle /\ next \in Date
    BY <1>1, NextDate DEF Bill, Row
  <1>3. bills \in Seq(Bill) /\ bills # <<>>
    BY <1>1, <1>2, AppendProperties
  <1>4. /\ row \in Row /\ row.next = next
        /\ row.status = subscription[c.on].status /\ row.status \in Status
    BY <1>1, <1>2 DEF Row, Generate, CanBill, Exists
  <1>5. /\ billed' = [billed EXCEPT ![c.on] = bills]
        /\ subscription' = [subscription EXCEPT ![c.on] = row]
    BY <1>1 DEF Generate
  <1> HIDE DEF row
  <1>6. c.on \notin contended => Good(began[c.on], row, bills)
    <2> SUFFICES ASSUME c.on \notin contended PROVE Good(began[c.on], row, bills)
      OBVIOUS
    <2>1. Series(began[c.on], c.row.next, billed[c.on])
      BY <1>1, <1>4 DEF BilledInv, Good
    <2>2. Series(began[c.on], next, bills)
      BY <1>1, <1>2, <2>1, SeriesGoesOn
    <2> QED
      BY <1>4, <2>2 DEF Good, Status
  <1> HIDE DEF bills
  <1>7. Handled(c.on, row, bills)
    BY <1>1, <1>3, <1>4, <1>5, <1>6 DEF Handled
  <1> QED
    BY <1>7

(* A refusal, a failure: nothing is written. *)
LEMMA NothingHandled ==
    ASSUME BilledInv, NEW s \in Subscription, LetsGo(s), UNCHANGED <<subscription, billed>>
    PROVE  \E row, bills : Handled(s, row, bills)
  <1>1. Handled(s, subscription[s], billed[s])
    BY DEF BilledInv, RowsTypeOK, Handled
  <1> QED
    BY <1>1

LEMMA ByHandHandled ==
    ASSUME BilledInv, NEW r \in Request, GenerateByHand(r)
    PROVE  \E row, bills : Handled(Of(r), row, bills)
  <1>1. Working(r) /\ Generate(request[r]) /\ LetsGo(request[r].on)
    BY DEF GenerateByHand, LetsGo, Of
  <1> QED
    BY <1>1, InHand, GenerateHandled DEF Of, Loaded

LEMMA CommandHandled ==
    ASSUME BilledInv, NEW s \in Subscription, CommandBills(s)
    PROVE  \E row, bills : Handled(s, row, bills)
  <1>1. PICK c \in command :
          /\ c.on = s /\ command' = command \ {c}
          /\ \/ Generate(c)
             \/ ~CanBill(c) /\ UNCHANGED <<subscription, billed, invoices>>
          /\ UNCHANGED <<today, began, request, contended>>
    BY DEF CommandBills
  <1>2. LetsGo(s) /\ c \in Copy /\ (s \notin contended => c.row = subscription[s])
    BY <1>1 DEF LetsGo, BilledInv, RowsTypeOK, CopiesAreCurrent
  <1>3. CASE Generate(c)
    BY <1>1, <1>2, <1>3, GenerateHandled
  <1>4. CASE UNCHANGED <<subscription, billed>>
    BY <1>2, <1>4, NothingHandled
  <1> QED
    BY <1>1, <1>3, <1>4

LEMMA SetStatusHandled ==
    ASSUME BilledInv, NEW r \in Request, NEW status \in Status, SetStatus(r, status)
    PROVE  \E row, bills : Handled(Of(r), row, bills)
  <1> DEFINE active == subscription[Of(r)].active /\ status # "CANCELLED"
             row == [subscription[Of(r)] EXCEPT !.status = status, !.active = active]
  <1>1. Working(r) /\ LetsGo(Of(r)) /\ Exists(Of(r)) /\ UNCHANGED billed
    BY DEF SetStatus, LetsGo
  <1>2. /\ Of(r) \in Subscription /\ subscription[Of(r)] \in Row /\ billed[Of(r)] \in Seq(Bill)
        /\ Of(r) \notin contended => Good(began[Of(r)], subscription[Of(r)], billed[Of(r)])
    BY <1>1, InHand
  <1>3. subscription' = [subscription EXCEPT ![Of(r)] = row]
    BY <1>2 DEF SetStatus, BilledInv, RowsTypeOK, Row
  <1>4. active \in BOOLEAN
    OBVIOUS
  <1> HIDE DEF active
  <1>5. /\ row \in Row /\ row.status = status /\ row.next = subscription[Of(r)].next
    BY <1>2, <1>4 DEF Row
  <1>6. subscription[Of(r)].status \in Status
    BY <1>1, <1>2 DEF Exists, Row
  <1> HIDE DEF row
  <1>7. Of(r) \notin contended => Good(began[Of(r)], row, billed[Of(r)])
    BY <1>2, <1>5, <1>6 DEF Good, Status
  <1>8. billed' = [billed EXCEPT ![Of(r)] = billed[Of(r)]]
    BY <1>1 DEF BilledInv, RowsTypeOK
  <1>9. Handled(Of(r), row, billed[Of(r)])
    BY <1>1, <1>2, <1>3, <1>5, <1>7, <1>8 DEF Handled
  <1> QED
    BY <1>9

LEMMA PatchHandled ==
    ASSUME BilledInv, NEW r \in Request, Patch(r)
    PROVE  \E row, bills : Handled(Of(r), row, bills)
  <1>1. PICK patch \in Patches : Save(Of(r), Patched(Loaded(r), patch))
    BY DEF Patch
  <1> DEFINE patched == Patched(Loaded(r), patch)
             row == [patched EXCEPT !.items = subscription[Of(r)].items]
  <1>2. Working(r) /\ LetsGo(Of(r)) /\ UNCHANGED billed
    BY DEF Patch, LetsGo
  <1>3. /\ Of(r) \in Subscription /\ Loaded(r) \in Row /\ Loaded(r).status \in Status
        /\ subscription[Of(r)] \in Row /\ billed[Of(r)] \in Seq(Bill)
        /\ Of(r) \notin contended => Series(began[Of(r)], Loaded(r).next, billed[Of(r)])
    BY <1>2, InHand
  <1>4. /\ patched \in Row /\ patched.status \in Status /\ patched.next = Loaded(r).next
    BY <1>3, PatchedRow
  <1>5. subscription' = [subscription EXCEPT ![Of(r)] = row]
    BY <1>1 DEF Save
  <1> HIDE DEF patched
  <1>6. /\ row \in Row /\ row.status \in Status /\ row.next = Loaded(r).next
    BY <1>3, <1>4 DEF Row
  <1> HIDE DEF row
  <1>7. Of(r) \notin contended => Good(began[Of(r)], row, billed[Of(r)])
    BY <1>3, <1>6 DEF Good, Status
  <1>8. billed' = [billed EXCEPT ![Of(r)] = billed[Of(r)]]
    BY <1>2 DEF BilledInv, RowsTypeOK
  <1>9. Handled(Of(r), row, billed[Of(r)])
    BY <1>2, <1>3, <1>5, <1>6, <1>7, <1>8 DEF Handled
  <1> QED
    BY <1>9

LEMMA DestroyHandled ==
    ASSUME BilledInv, NEW r \in Request, Destroy(r)
    PROVE  \E row, bills : Handled(Of(r), row, bills)
  <1> DEFINE row == [NoRow EXCEPT !.status = "deleted"]
  <1>1. /\ Working(r) /\ LetsGo(Of(r)) /\ UNCHANGED billed
        /\ subscription' = [subscription EXCEPT ![Of(r)] = row]
    BY DEF Destroy, LetsGo
  <1>2. row \in Row /\ row.status = "deleted"
    BY SubscriptionsAssumption DEF NoRow, Row, Absent, Cycle
  <1> HIDE DEF row
  <1>3. Good(began[Of(r)], row, billed[Of(r)])
    BY <1>2 DEF Good, Status
  <1>4. billed' = [billed EXCEPT ![Of(r)] = billed[Of(r)]]
    BY <1>1 DEF BilledInv, RowsTypeOK
  <1>5. Handled(Of(r), row, billed[Of(r)])
    BY <1>1, <1>2, <1>3, <1>4, InHand DEF Handled
  <1> QED
    BY <1>5

LEMMA FailHandled ==
    ASSUME BilledInv, NEW r \in Request, Refuse(r)
    PROVE  \E row, bills : Handled(Of(r), row, bills)
  <1>1. Working(r) /\ LetsGo(Of(r)) /\ UNCHANGED <<subscription, billed>>
    BY DEF Refuse, LetsGo
  <1> QED
    BY <1>1, InHand, NothingHandled

LEMMA NextBilled ==
    ASSUME BilledInv, [SubscriptionsNext]_subscriptionsVars
    PROVE  BilledInv'
  <1>1. ASSUME UNCHANGED <<subscription, began, billed, command, request, contended>>
        PROVE  BilledInv'
    BY <1>1 DEF BilledInv, RowsTypeOK, CopiesAreCurrent, Working, Of, Loaded
  <1>2. ASSUME NEW r \in Request, Handle(r)
        PROVE  BilledInv'
    <2>1. CASE Load(r)
      BY <2>1, LoadBilled
    <2>2. CASE Pause(r) \/ Resume(r) \/ Cancel(r)
      <3>1. PICK status \in Status : SetStatus(r, status)
        BY <2>2 DEF Pause, Resume, Cancel, Status
      <3> QED
        BY <3>1, SetStatusHandled, HandledInv
    <2>3. CASE GenerateByHand(r) \/ Patch(r) \/ Destroy(r) \/ Refuse(r)
      BY <2>3, ByHandHandled, PatchHandled, DestroyHandled, FailHandled, HandledInv
    <2> QED
      BY <1>2, <2>1, <2>2, <2>3 DEF Handle
  <1>3. ASSUME NEW s \in Subscription, CommandBills(s)
        PROVE  BilledInv'
    BY <1>3, CommandHandled, HandledInv
  <1>4. CASE CommandDies
    <2>1. command' = {} /\ UNCHANGED <<subscription, began, billed, request, contended>>
      BY <1>4 DEF CommandDies
    <2> QED
      BY <2>1 DEF BilledInv, RowsTypeOK, CopiesAreCurrent, Working, Of, Loaded
  <1>5. CASE Tick \/ \E o \in Organization : OtherInvoice(o)
    BY <1>1, <1>5
       DEF Tick, OtherInvoice, InvoiceByApi, InvoiceByForm, InvoiceWithNumber, ChangeNumber,
           DeleteInvoice
  <1>6. CASE UNCHANGED subscriptionsVars
    BY <1>1, <1>6 DEF subscriptionsVars
  <1> QED
    BY <1>2, <1>3, <1>4, <1>5, <1>6, CreateBilled, RunCommandBilled DEF SubscriptionsNext

-----------------------------------------------------------------------------
(* The numbers of invoices. *)

LEMMA InitNumbers == SubscriptionsInit => NumbersInv
  <1> SUFFICES ASSUME SubscriptionsInit PROVE NumbersInv
    OBVIOUS
  <1>1. today \in Date
    BY SubscriptionsAssumption DEF SubscriptionsInit
  <1>2. numbered \subseteq Number /\ IsFiniteSet(numbered) /\ others \in [Organization -> Nat]
    BY FS_EmptySet DEF SubscriptionsInit
  <1> QED
    BY <1>1, <1>2 DEF SubscriptionsInit, NumbersInv

(* An organization's count is a number; one more invoice of it is counted. *)
LEMMA Counted ==
    ASSUME NumbersInv, NEW o \in Organization
    PROVE  /\ Count(o) \in Nat /\ NextNumber(o) \in Number
           /\ {i \in numbered : i.organization = o} \subseteq numbered
           /\ IsFiniteSet({i \in numbered : i.organization = o})
  <1>1. IsFiniteSet({i \in numbered : i.organization = o})
    BY FS_Subset DEF NumbersInv
  <1>2. Cardinality({i \in numbered : i.organization = o}) \in Nat
    BY <1>1, FS_CardinalityType
  <1>3. Count(o) \in Nat
    BY <1>2 DEF Count, NumbersInv
  <1> QED
    BY <1>1, <1>3 DEF NextNumber, Number, NumbersInv, Date

LEMMA NumberedInv ==
    ASSUME NumbersInv, NEW o \in Organization, ~IsTaken(o),
           numbered' = numbered \cup {NextNumber(o)}, UNCHANGED <<today, others, irregular>>
    PROVE  NumbersInv'
  <1> DEFINE new == NextNumber(o)
             Of1(p) == {i \in numbered : i.organization = p}
             Of2(p) == {i \in numbered' : i.organization = p}
  <1>1. /\ new \in Number /\ new.organization = o /\ new.number = Count(o) + 1
        /\ new \notin numbered
    BY Counted DEF NextNumber, IsTaken, SameNumber, WithNumber
  <1>2. IsFiniteSet(numbered') /\ numbered' \subseteq Number
    BY <1>1, FS_AddElement DEF NumbersInv
  <1> HIDE DEF new
  <1>3. ASSUME NEW p \in Organization
        PROVE  /\ Count(p) \in Nat
               /\ Count(p)' = IF p = o THEN Count(p) + 1 ELSE Count(p)
    <2>1. CASE p = o
      <3>1. Of2(p) = Of1(p) \cup {new} /\ new \notin Of1(p)
        BY <1>1, <2>1 DEF new
      <3>2. Cardinality(Of2(p)) = Cardinality(Of1(p)) + 1 /\ Cardinality(Of1(p)) \in Nat
        BY <3>1, Counted, FS_AddElement, FS_CardinalityType
      <3> QED
        BY <2>1, <3>2 DEF Count, NumbersInv
    <2>2. CASE p # o
      <3>1. Of2(p) = Of1(p)
        BY <1>1, <2>2 DEF new
      <3> QED
        BY <2>2, <3>1, Counted DEF Count
    <2> QED
      BY <2>1, <2>2
  <1>4. ASSUME NEW p \in Organization \ irregular', NEW i \in numbered', i.organization = p
        PROVE  i.number <= Count(p)'
    <2>1. CASE i \in numbered
      <3>1. i.number <= Count(p) /\ i.number \in Nat
        BY <1>4, <2>1 DEF NumbersInv, Number
      <3> QED
        BY <1>3, <3>1
    <2>2. CASE i = new
      BY <1>1, <1>3, <1>4, <2>2
    <2> QED
      BY <2>1, <2>2 DEF new
  <1> QED
    BY <1>2, <1>4 DEF NumbersInv

LEMMA FormInv ==
    ASSUME NumbersInv, NEW o \in Organization, InvoiceByForm(o)
    PROVE  NumbersInv'
  <1>1. others' = [others EXCEPT ![o] = @ + 1] /\ UNCHANGED <<today, numbered, irregular>>
    BY DEF InvoiceByForm
  <1>2. others' \in [Organization -> Nat]
    BY <1>1 DEF NumbersInv
  <1>3. ASSUME NEW p \in Organization
        PROVE  Count(p) \in Nat /\ Count(p)' \in Nat /\ Count(p) <= Count(p)'
    <2>1. Cardinality({i \in numbered : i.organization = p}) \in Nat
      BY Counted, FS_CardinalityType
    <2> QED
      BY <1>1, <2>1 DEF Count, NumbersInv
  <1>4. ASSUME NEW p \in Organization \ irregular, NEW i \in numbered, i.organization = p
        PROVE  i.number <= Count(p)'
    <2>1. i.number <= Count(p) /\ i.number \in Nat
      BY <1>4 DEF NumbersInv, Number
    <2> QED
      BY <1>3, <2>1
  <1> QED
    BY <1>1, <1>2, <1>4 DEF NumbersInv

(* An organization that chooses, changes or gives up a number touches no   *)
(* other one's invoices.                                                   *)
LEMMA IrregularInv ==
    ASSUME NumbersInv, NEW o \in Organization,
           InvoiceWithNumber(o) \/ ChangeNumber(o) \/ DeleteInvoice(o)
    PROVE  NumbersInv'
  <1>1. \A i \in Chosen(o) : i \in Number /\ i.organization = o
    BY SubscriptionsAssumption DEF Chosen, Number
  <1>2. /\ irregular' = irregular \cup {o} /\ today' = today
        /\ others' \in [Organization -> Nat]
        /\ \A p \in Organization \ {o} : others'[p] = others[p]
    BY DEF InvoiceWithNumber, ChangeNumber, DeleteInvoice, NumbersInv
  <1>3. \E gone \in SUBSET numbered, more \in SUBSET Chosen(o) :
          /\ numbered' = (numbered \ gone) \cup more
          /\ \A i \in gone : i.organization = o
          /\ IsFiniteSet(more)
    <2>1. CASE numbered' = numbered
      BY <2>1, FS_EmptySet
    <2>2. CASE \E i \in numbered : i.organization = o /\ numbered' = numbered \ {i}
      BY <2>2, FS_EmptySet
    <2>3. CASE \E j \in Chosen(o) : numbered' = numbered \cup {j}
      <3>1. PICK j \in Chosen(o) : numbered' = numbered \cup {j}
        BY <2>3
      <3>2. IsFiniteSet({j}) /\ {j} \in SUBSET Chosen(o) /\ {} \in SUBSET numbered
        BY FS_Singleton
      <3>3. numbered' = (numbered \ {}) \cup {j}
        BY <3>1
      <3> QED
        BY <3>2, <3>3
    <2>4. CASE \E i \in numbered : \E j \in Chosen(o) :
                  i.organization = o /\ numbered' = (numbered \ {i}) \cup {j}
      <3>1. PICK i \in numbered : \E j \in Chosen(o) :
                  i.organization = o /\ numbered' = (numbered \ {i}) \cup {j}
        BY <2>4
      <3>2. PICK j \in Chosen(o) :
                  i.organization = o /\ numbered' = (numbered \ {i}) \cup {j}
        BY <3>1
      <3>3. IsFiniteSet({j}) /\ {j} \in SUBSET Chosen(o) /\ {i} \in SUBSET numbered
        BY FS_Singleton
      <3> QED
        BY <3>2, <3>3
    <2> QED
      BY <2>1, <2>2, <2>3, <2>4 DEF InvoiceWithNumber, ChangeNumber, DeleteInvoice
  <1>4. PICK gone \in SUBSET numbered, more \in SUBSET Chosen(o) :
          /\ numbered' = (numbered \ gone) \cup more
          /\ \A i \in gone : i.organization = o
          /\ IsFiniteSet(more)
    BY <1>3
  <1>5. IsFiniteSet(numbered') /\ numbered' \subseteq Number
    <2>1. IsFiniteSet(numbered \ gone)
      BY FS_Subset DEF NumbersInv
    <2> QED
      BY <1>1, <1>4, <2>1, FS_Union DEF NumbersInv
  <1>6. ASSUME NEW p \in Organization \ irregular', NEW i \in numbered', i.organization = p
        PROVE  i.number <= Count(p)'
    <2>1. {j \in numbered' : j.organization = p} = {j \in numbered : j.organization = p}
      BY <1>1, <1>2, <1>4
    <2>2. Count(p)' = Count(p)
      BY <1>2, <2>1 DEF Count
    <2> QED
      BY <1>1, <1>2, <1>4, <1>6, <2>2 DEF NumbersInv
  <1> QED
    BY <1>2, <1>5, <1>6 DEF NumbersInv

LEMMA NextNumbers ==
    ASSUME BilledInv, NumbersInv, [SubscriptionsNext]_subscriptionsVars
    PROVE  NumbersInv'
  <1>1. ASSUME UNCHANGED <<today, invoices>>
        PROVE  NumbersInv'
    BY <1>1 DEF invoices, NumbersInv, Count
  <1>2. ASSUME NEW c \in Copy, Generate(c), today' = today
        PROVE  NumbersInv'
    <2>1. OwnerOf[c.on] \in Organization
      BY SubscriptionsAssumption DEF Copy
    <2> QED
      BY <1>2, <2>1, NumberedInv DEF Generate, CanBill
  <1>3. ASSUME NEW r \in Request, Handle(r)
        PROVE  NumbersInv'
    <2>1. CASE GenerateByHand(r)
      BY <1>2, <2>1, InHand DEF GenerateByHand
    <2>2. CASE ~GenerateByHand(r)
      BY <1>1, <1>3, <2>2
         DEF Handle, Load, Pause, Resume, Cancel, SetStatus, Patch, Destroy, Refuse
    <2> QED
      BY <2>1, <2>2
  <1>4. ASSUME NEW s \in Subscription, CommandBills(s)
        PROVE  NumbersInv'
    <2>1. PICK c \in command :
            (Generate(c) \/ UNCHANGED invoices) /\ today' = today
      BY <1>4 DEF CommandBills
    <2> QED
      BY <1>1, <1>2, <2>1 DEF BilledInv, RowsTypeOK
  <1>5. CASE Tick
    <2>1. today' \in Date /\ UNCHANGED invoices
      BY <1>5, SubscriptionsAssumption DEF Tick
    <2> QED
      BY <2>1 DEF invoices, NumbersInv, Count
  <1>6. ASSUME NEW o \in Organization, InvoiceByApi(o)
        PROVE  NumbersInv'
    BY <1>6, NumberedInv DEF InvoiceByApi
  <1>7. CASE (\E s \in Subscription : Create(s)) \/ RunCommand \/ CommandDies
    BY <1>1, <1>7 DEF Create, RunCommand, CommandDies
  <1>8. CASE UNCHANGED subscriptionsVars
    BY <1>1, <1>8 DEF subscriptionsVars, invoices
  <1> QED
    BY <1>3, <1>4, <1>5, <1>6, <1>7, <1>8, FormInv, IrregularInv
    DEF SubscriptionsNext, OtherInvoice

-----------------------------------------------------------------------------
(* The inductive invariant: types, copies in hand that are current, and    *)
(* for each subscription that was never in two hands its series of bills.  *)
THEOREM BilledInOrder == SubscriptionsSpec => []BilledInv
  <1>1. BilledInv /\ [SubscriptionsNext]_subscriptionsVars => BilledInv'
    BY NextBilled
  <1> QED
    BY <1>1, InitBilled, PTL DEF SubscriptionsSpec

(* EveryPeriodOnce: bills follow each other, a cycle after a cycle, from   *)
(* the start date of the creation, and next_invoice_date goes on with      *)
(* them.                                                                   *)
THEOREM EveryPeriodTheorem == SubscriptionsSpec => []EveryPeriodOnce
  <1>1. BilledInv => EveryPeriodOnce
    <2> SUFFICES ASSUME BilledInv, NEW s \in Subscription \ contended, Exists(s)
                 PROVE  Series(began[s], subscription[s].next, billed[s])
      BY DEF EveryPeriodOnce, Series, DueAfter
    <2>1. subscription[s].status \in Status
      BY DEF BilledInv, RowsTypeOK, Row, Exists
    <2> QED
      BY <2>1 DEF BilledInv, Good
  <1> QED
    BY <1>1, BilledInOrder, PTL

(* NumbersAreNew: count + 1 is a number the organization never gave away,  *)
(* since none of its invoices has a number beyond its count, unless it     *)
(* deleted an invoice or its clients chose a number.                       *)
THEOREM NumbersTheorem == SubscriptionsSpec => []NumbersAreNew
  <1>1. BilledInv /\ NumbersInv /\ [SubscriptionsNext]_subscriptionsVars => NumbersInv'
    BY NextNumbers
  <1>2. NumbersInv => NumbersAreNew
    <2> SUFFICES ASSUME NumbersInv, NEW o \in Organization \ irregular, NEW i \in SameNumber(o),
                        i.organization = o
                 PROVE  FALSE
      BY DEF NumbersAreNew
    <2>1. i \in numbered /\ i.number = Count(o) + 1 /\ i.number <= Count(o)
      BY DEF SameNumber, WithNumber, NextNumber, NumbersInv
    <2>2. Count(o) \in Nat
      BY Counted
    <2> QED
      BY <2>1, <2>2
  <1> QED
    BY <1>1, <1>2, BilledInOrder, InitNumbers, PTL DEF SubscriptionsSpec

-----------------------------------------------------------------------------
(* Dates in the calendar. *)

MonthNumber(d) == 12 * d.year + d.month

(* Months later, counted from the year 0. *)
LEMMA MonthsLater ==
    ASSUME NEW d, d.year \in Nat, d.month \in 1..12, NEW k \in Nat
    PROVE  /\ YearAfter(d, k) \in Nat /\ MonthAfter(d, k) \in 1..12
           /\ 12 * YearAfter(d, k) + MonthAfter(d, k) = MonthNumber(d) + k
  <1> DEFINE n == d.month + k - 1
  <1>1. n \in Nat /\ n + 1 = d.month + k
    OBVIOUS
  <1>2. YearAfter(d, k) = d.year + (n \div 12) /\ MonthAfter(d, k) = (n % 12) + 1
    BY DEF YearAfter, MonthAfter
  <1> DEFINE q == n \div 12
             r == n % 12
  <1>3. n = 12 * q + r /\ q \in Nat /\ r \in 0..11
    <2> HIDE DEF n
    <2> QED
      BY <1>1
  <1>4. YearAfter(d, k) = d.year + q /\ MonthAfter(d, k) = r + 1
    BY <1>2
  <1> HIDE DEF n, q, r
  <1>5. d.year + q \in Nat /\ r + 1 \in 1..12
    BY <1>3
  <1>6. 12 * (d.year + q) + (r + 1) = 12 * d.year + n + 1
    BY <1>1, <1>3
  <1>7. 12 * (d.year + q) + (r + 1) = MonthNumber(d) + k
    BY <1>1, <1>6 DEF MonthNumber
  <1> QED
    BY <1>4, <1>5, <1>7

(* The parts of a date of the calendar are numbers in their ranges. *)
LEMMA DateFields ==
    ASSUME NEW d \in Date
    PROVE  /\ d.year \in Nat /\ d.month \in 1..12 /\ d.day \in 1..31
           /\ Ordinal(d) = 31 * MonthNumber(d) + d.day /\ Ordinal(d) \in Nat
           /\ MonthNumber(d) \in Nat
  <1>1. d.year \in Nat /\ d.month \in 1..12 /\ d.day \in 1..31
    BY DEF Date
  <1> QED
    BY <1>1 DEF Ordinal, MonthNumber

(* A month has 28 to 31 days. *)
LEMMA LengthOfMonth ==
    ASSUME NEW year, NEW month
    PROVE  MonthLength(year, month) \in 28..31
  BY DEF MonthLength

(* The next date comes later and is in the calendar. *)
LEMMA NextIsLater ==
    ASSUME NEW d \in Date, NEW cycle \in Cycle
    PROVE  /\ Ordinal(d) < Ordinal(NextBillingDate(d, cycle))
           /\ OnCalendar(d) => OnCalendar(NextBillingDate(d, cycle))
  <1> DEFINE e == NextBillingDate(d, cycle)
  <1>1. e \in Date
    BY NextDate
  <1>2. /\ d.year \in Nat /\ d.month \in 1..12 /\ d.day \in 1..31
        /\ Ordinal(d) = 31 * MonthNumber(d) + d.day /\ MonthNumber(d) \in Nat
        /\ Ordinal(e) = 31 * MonthNumber(e) + e.day /\ e.day \in 1..31 /\ MonthNumber(e) \in Nat
    BY <1>1, DateFields
  <1>3. CASE cycle = "WEEKLY"
    <2>1. e = WeekAfter(d)
      BY <1>3 DEF NextBillingDate
    <2>2. MonthLength(d.year, d.month) \in 28..31
      BY LengthOfMonth
    <2>3. CASE d.day + 7 <= MonthLength(d.year, d.month)
      <3>1. e.day = d.day + 7 /\ e.year = d.year /\ e.month = d.month
        BY <1>2, <2>1, <2>3 DEF WeekAfter, Date
      <3> HIDE DEF e
      <3>2. Ordinal(d) < Ordinal(e)
        BY <1>2, <3>1 DEF MonthNumber
      <3> QED
        BY <2>3, <3>1, <3>2 DEF OnCalendar, e
    <2>4. CASE ~(d.day + 7 <= MonthLength(d.year, d.month))
      <3>1. /\ e.day = d.day + 7 - MonthLength(d.year, d.month)
            /\ e.year = YearAfter(d, 1) /\ e.month = MonthAfter(d, 1)
        BY <2>1, <2>4 DEF WeekAfter
      <3>2. 12 * YearAfter(d, 1) + MonthAfter(d, 1) = MonthNumber(d) + 1
        BY <1>2, MonthsLater
      <3> HIDE DEF e
      <3>3. MonthNumber(e) = MonthNumber(d) + 1
        BY <3>1, <3>2 DEF MonthNumber
      <3>4. Ordinal(d) < Ordinal(e)
        BY <1>2, <3>3
      <3>5. MonthLength(e.year, e.month) \in 28..31
        BY LengthOfMonth
      <3>6. OnCalendar(d) => OnCalendar(e)
        BY <1>2, <2>2, <3>1, <3>5 DEF OnCalendar
      <3> QED
        BY <3>4, <3>6 DEF e
    <2> QED
      BY <2>3, <2>4
  <1>4. CASE cycle # "WEEKLY"
    <2> DEFINE k == Months(cycle)
               last == MonthLength(YearAfter(d, k), MonthAfter(d, k))
    <2>1. e = SameDay(d, k) /\ k \in Nat /\ k >= 1
      BY <1>4 DEF NextBillingDate, Months
    <2>2. 12 * YearAfter(d, k) + MonthAfter(d, k) = MonthNumber(d) + k
      BY <1>2, <2>1, MonthsLater
    <2>3. /\ e.year = YearAfter(d, k) /\ e.month = MonthAfter(d, k)
          /\ e.day = IF d.day <= last THEN d.day ELSE last
      BY <2>1 DEF SameDay
    <2>4. last \in 28..31
      BY LengthOfMonth
    <2> HIDE DEF e, k
    <2>5. MonthNumber(e) = MonthNumber(d) + k
      BY <2>2, <2>3 DEF MonthNumber
    <2>6. Ordinal(d) < Ordinal(e)
      BY <1>2, <2>1, <2>5
    <2>7. OnCalendar(e)
      <3> DEFINE l == MonthLength(e.year, e.month)
      <3>1. l = last
        BY <2>3
      <3> HIDE DEF last
      <3>2. e.day <= last
        BY <1>2, <2>3, <2>4
      <3> QED
        BY <3>1, <3>2 DEF OnCalendar
    <2> QED
      BY <2>6, <2>7 DEF e
  <1> QED
    BY <1>3, <1>4

-----------------------------------------------------------------------------
(* The dates the forecast looks through: its recursion has a solution, since *)
(* every date comes after the one before and the month ends.                 *)

Expects(g, cycle, month) ==
    g = [d \in Date |->
            IF ~OnOrBefore(d, LastOf(month)) THEN {}
            ELSE (IF OnOrBefore(FirstOf(month), d) THEN {d} ELSE {})
                     \cup g[NextBillingDate(d, cycle)]]

ExpectedFrom(g, d, cycle, month) ==
    IF ~OnOrBefore(d, LastOf(month)) THEN {}
    ELSE (IF OnOrBefore(FirstOf(month), d) THEN {d} ELSE {}) \cup g[NextBillingDate(d, cycle)]

(* The same for the dates no more than n days before the month's end. *)
ExpectsWithin(g, cycle, month, n) ==
    \A d \in Date : Ordinal(LastOf(month)) < Ordinal(d) + n =>
        g[d] = ExpectedFrom(g, d, cycle, month)

(* By induction over n: the smallest n without one has a predecessor. *)
LEMMA ExpectedSoon ==
    ASSUME NEW cycle \in Cycle, NEW month, Ordinal(LastOf(month)) \in Nat, NEW n \in Nat
    PROVE  \E g : ExpectsWithin(g, cycle, month, n)
  <1> DEFINE Bad == {k \in Nat : ~ \E g : ExpectsWithin(g, cycle, month, k)}
             l == Ordinal(LastOf(month))
  <1> SUFFICES ASSUME Bad # {} PROVE FALSE
    OBVIOUS
  <1>1. PICK m \in Bad : \A k \in Bad : m <= k
    BY LeastNatural
  <1>2. \A d \in Date : Ordinal(d) \in Nat
    BY DateFields
  <1>3. CASE m = 0
    <2> DEFINE g == [d \in Date |-> {}]
    <2>1. ASSUME NEW d \in Date, l < Ordinal(d) + 0
          PROVE  g[d] = ExpectedFrom(g, d, cycle, month)
      <3>1. ~OnOrBefore(d, LastOf(month))
        BY <1>2, <2>1 DEF OnOrBefore
      <3> QED
        BY <3>1 DEF ExpectedFrom
    <2>2. ExpectsWithin(g, cycle, month, 0)
      BY <2>1 DEF ExpectsWithin
    <2> HIDE DEF g
    <2> QED
      BY <1>1, <1>3, <2>2
  <1>4. CASE m # 0
    <2>1. m - 1 \in Nat /\ m - 1 \notin Bad
      BY <1>1, <1>4
    <2>2. PICK g : ExpectsWithin(g, cycle, month, m - 1)
      BY <2>1
    <2> DEFINE h == [d \in Date |-> ExpectedFrom(g, d, cycle, month)]
    <2>3. ASSUME NEW d \in Date, l < Ordinal(d) + m
          PROVE  h[d] = ExpectedFrom(h, d, cycle, month)
      <3> DEFINE e == NextBillingDate(d, cycle)
      <3>1. e \in Date /\ Ordinal(d) < Ordinal(e) /\ Ordinal(e) \in Nat /\ Ordinal(d) \in Nat
        BY <1>2, NextDate, NextIsLater
      <3> HIDE DEF e
      <3>2. l < Ordinal(e) + (m - 1)
        BY <1>1, <2>3, <3>1
      <3>3. g[e] = ExpectedFrom(g, e, cycle, month)
        BY <2>2, <3>1, <3>2 DEF ExpectsWithin
      <3>4. h[e] = g[e]
        BY <3>1, <3>3
      <3>5. h[d] = ExpectedFrom(g, d, cycle, month)
        OBVIOUS
      <3> HIDE DEF h
      <3> QED
        BY <3>4, <3>5 DEF ExpectedFrom, e
    <2>4. ExpectsWithin(h, cycle, month, m)
      BY <2>3 DEF ExpectsWithin
    <2> HIDE DEF h
    <2> QED
      BY <1>1, <2>4
  <1> QED
    BY <1>3, <1>4

(* The recursion that collects expected dates up to some day has a         *)
(* solution: each date is later than the one before it.                    *)
LEMMA ExpectedExist ==
    ASSUME NEW cycle \in Cycle, NEW month, Ordinal(LastOf(month)) \in Nat
    PROVE  \E g : Expects(g, cycle, month)
  <1> DEFINE l == Ordinal(LastOf(month))
  <1>1. PICK g : ExpectsWithin(g, cycle, month, l + 1)
    BY ExpectedSoon
  <1> DEFINE h == [d \in Date |-> g[d]]
  <1>2. \A d \in Date : h[d] = g[d] /\ g[d] = ExpectedFrom(g, d, cycle, month)
    BY <1>1, DateFields DEF ExpectsWithin
  <1>3. \A d \in Date : ExpectedFrom(g, d, cycle, month) = ExpectedFrom(h, d, cycle, month)
    BY <1>2, NextDate DEF ExpectedFrom
  <1>4. h = [d \in Date |-> ExpectedFrom(h, d, cycle, month)]
    <2> DEFINE k == [d \in Date |-> ExpectedFrom(h, d, cycle, month)]
    <2>1. \A d \in Date : h[d] = k[d]
      BY <1>2, <1>3
    <2> QED
      BY <2>1
  <1> HIDE DEF h
  <1>5. Expects(h, cycle, month)
    BY <1>4 DEF Expects, ExpectedFrom
  <1> QED
    BY <1>5

(* What is expected from a date on is none before it, and without the first *)
(* of it what is expected from the next on.                                 *)
LEMMA ExpectedLater ==
    ASSUME NEW cycle \in Cycle, NEW month, Ordinal(LastOf(month)) \in Nat,
           NEW g, Expects(g, cycle, month), NEW d \in Date
    PROVE  \A e \in g[d] : e \in Date /\ Ordinal(d) <= Ordinal(e)
  <1> DEFINE l == Ordinal(LastOf(month))
             Follow(x) == \A e \in g[x] : e \in Date /\ Ordinal(x) <= Ordinal(e)
             Bad == {k \in Nat : \E x \in Date : ~Follow(x) /\ Ordinal(x) + k = l}
  <1>1. \A x \in Date : Ordinal(x) \in Nat
    BY DateFields
  <1>2. \A x \in Date : g[x] = ExpectedFrom(g, x, cycle, month)
    BY DEF Expects, ExpectedFrom
  <1>3. ASSUME NEW x \in Date, ~Follow(x)
        PROVE  Ordinal(x) <= l
    <2>1. OnOrBefore(x, LastOf(month))
      BY <1>2, <1>3 DEF ExpectedFrom
    <2> QED
      BY <2>1 DEF OnOrBefore
  <1> SUFFICES ASSUME ~Follow(d) PROVE FALSE
    OBVIOUS
  <1>4. Bad # {}
    <2>1. Ordinal(d) <= l
      BY <1>3
    <2>2. l - Ordinal(d) \in Nat /\ Ordinal(d) + (l - Ordinal(d)) = l
      BY <1>1, <2>1
    <2> HIDE DEF Follow, l
    <2>3. l - Ordinal(d) \in Bad
      BY <2>2
    <2> QED
      BY <2>3
  <1>5. PICK m \in Bad : \A k \in Bad : m <= k
    BY <1>4, LeastNatural
  <1>6. PICK x \in Date : ~Follow(x) /\ Ordinal(x) + m = l
    BY <1>5
  <1> DEFINE e == NextBillingDate(x, cycle)
  <1>7. e \in Date /\ Ordinal(x) < Ordinal(e) /\ Ordinal(e) \in Nat /\ Ordinal(x) \in Nat
    BY <1>1, NextDate, NextIsLater
  <1>8. Follow(e)
    <2> SUFFICES ASSUME ~Follow(e) PROVE FALSE
      OBVIOUS
    <2>1. Ordinal(e) <= l
      BY <1>3, <1>7
    <2>2. l - Ordinal(e) \in Nat /\ Ordinal(e) + (l - Ordinal(e)) = l /\ l - Ordinal(e) < m
      BY <1>5, <1>6, <1>7, <2>1
    <2> HIDE DEF Follow, l
    <2>3. l - Ordinal(e) \in Bad
      BY <1>7, <2>2
    <2> QED
      BY <1>5, <2>2, <2>3
  <1>9. Follow(x)
    <2> SUFFICES ASSUME NEW y \in g[x] PROVE y \in Date /\ Ordinal(x) <= Ordinal(y)
      OBVIOUS
    <2>1. y = x \/ y \in g[e]
      BY <1>2 DEF ExpectedFrom
    <2>2. y \in g[e] => y \in Date /\ Ordinal(e) <= Ordinal(y) /\ Ordinal(y) \in Nat
      BY <1>1, <1>8
    <2> HIDE DEF e
    <2> QED
      BY <1>7, <2>1, <2>2
  <1> QED
    BY <1>6, <1>9

(* The renewals of a month, before and after one is billed. *)
LEMMA RenewalsGoOn ==
    ASSUME NEW row \in Row, NEW next \in Row, next.cycle = row.cycle,
           next.next = NextBillingDate(row.next, row.cycle),
           NEW month, Ordinal(LastOf(month)) \in Nat
    PROVE  /\ Renewals(next, month) = Renewals(row, month) \ {row.next}
           /\ OnOrBefore(FirstOf(month), row.next) /\ OnOrBefore(row.next, LastOf(month))
                 => row.next \in Renewals(row, month)
  <1> DEFINE c == row.cycle
             d == row.next
             e == NextBillingDate(d, c)
             g == CHOOSE h : Expects(h, c, month)
  <1>1. c \in Cycle /\ d \in Date
    BY DEF Row
  <1>2. Expects(g, c, month)
    BY <1>1, ExpectedExist
  <1>3. Renewals(row, month) = g[d] /\ Renewals(next, month) = g[e]
    BY DEF Renewals, Expects
  <1>4. e \in Date /\ Ordinal(d) < Ordinal(e) /\ Ordinal(e) \in Nat /\ Ordinal(d) \in Nat
    BY <1>1, NextDate, NextIsLater, DateFields
  <1> HIDE DEF g, e
  <1>5. /\ g[d] = ExpectedFrom(g, d, c, month) /\ g[e] = ExpectedFrom(g, e, c, month)
    BY <1>1, <1>2, <1>4 DEF Expects, ExpectedFrom
  <1>6. d \notin g[e]
    <2>1. d \in g[e] => Ordinal(e) <= Ordinal(d)
      BY <1>1, <1>2, <1>4, ExpectedLater
    <2> QED
      BY <1>4, <2>1
  <1>7. CASE OnOrBefore(d, LastOf(month))
    <2>1. g[d] = (IF OnOrBefore(FirstOf(month), d) THEN {d} ELSE {}) \cup g[e]
      BY <1>5, <1>7 DEF ExpectedFrom, e
    <2> QED
      BY <1>3, <1>6, <2>1
  <1>8. CASE ~OnOrBefore(d, LastOf(month))
    <2>1. ~OnOrBefore(e, LastOf(month))
      BY <1>4, <1>8 DEF OnOrBefore
    <2>2. g[d] = {} /\ g[e] = {}
      BY <1>5, <1>8, <2>1 DEF ExpectedFrom
    <2> QED
      BY <1>3, <1>8, <2>2
  <1> QED
    BY <1>7, <1>8

-----------------------------------------------------------------------------
(* Every next_invoice_date is a date of the calendar, in the copies, too. *)
CalendarInv ==
    /\ \A s \in Subscription : OnCalendar(subscription[s].next)
    /\ \A c \in command : OnCalendar(c.row.next)
    /\ \A r \in Request : Working(r) => OnCalendar(Loaded(r).next)

(* The dates of clients are dates of the calendar, and so is each that     *)
(* billing computes from one.                                              *)
LEMMA InitCalendar == SubscriptionsInit => CalendarInv
  <1> SUFFICES ASSUME SubscriptionsInit PROVE CalendarInv
    OBVIOUS
  <1>1. OnCalendar(NoRow.next)
    BY SubscriptionsAssumption DEF NoRow
  <1> QED
    BY <1>1 DEF SubscriptionsInit, CalendarInv, Working

LEMMA CalendarKept ==
    ASSUME CalendarInv,
           \A s \in Subscription : \/ subscription'[s].next = subscription[s].next
                                   \/ OnCalendar(subscription'[s].next),
           \A c \in command' : c \in command \/ OnCalendar(c.row.next),
           \A r \in Request : \/ request'[r] = Idle \/ request'[r] = request[r]
                              \/ OnCalendar(request'[r].row.next)
    PROVE  CalendarInv'
  BY DEF CalendarInv, Working, Loaded

(* What generate_invoice writes. *)
LEMMA GenerateIs ==
    ASSUME BilledInv, NEW c \in Copy, Generate(c)
    PROVE  /\ c.on \in Subscription /\ c.row \in Row /\ c.row.status = "ACTIVE"
           /\ \A s \in Subscription : s # c.on =>
                 subscription'[s] = subscription[s] /\ billed'[s] = billed[s]
           /\ subscription'[c.on].next = NextBillingDate(c.row.next, c.row.cycle)
           /\ subscription'[c.on].status = subscription[c.on].status
           /\ subscription'[c.on].cycle = subscription[c.on].cycle
           /\ Len(billed'[c.on]) = Len(billed[c.on]) + 1
           /\ billed'[c.on][Len(billed'[c.on])].date = c.row.next
  <1> DEFINE bill == [date |-> c.row.next, cycle |-> c.row.cycle]
             more == Append(billed[c.on], bill)
  <1>1. /\ c.on \in Subscription /\ c.row \in Row /\ c.row.status = "ACTIVE"
        /\ subscription[c.on] \in Row /\ billed[c.on] \in Seq(Bill)
        /\ subscription \in [Subscription -> Row] /\ billed \in [Subscription -> Seq(Bill)]
    BY DEF BilledInv, RowsTypeOK, Copy, Generate, CanBill
  <1>2. bill \in Bill /\ bill.date = c.row.next
    BY <1>1 DEF Bill, Row
  <1>3. /\ billed' = [billed EXCEPT ![c.on] = more]
        /\ subscription' = [subscription EXCEPT ![c.on] =
                [subscription[c.on] EXCEPT !.next = NextBillingDate(c.row.next, c.row.cycle)]]
    BY <1>1 DEF Generate
  <1>4. Len(more) = Len(billed[c.on]) + 1 /\ more[Len(billed[c.on]) + 1] = bill
    BY <1>1, <1>2, AppendProperties
  <1> HIDE DEF more, bill
  <1>5. billed'[c.on] = more /\ \A s \in Subscription : s # c.on => billed'[s] = billed[s]
    BY <1>1, <1>3
  <1>6. /\ \A s \in Subscription : s # c.on => subscription'[s] = subscription[s]
        /\ subscription'[c.on].next = NextBillingDate(c.row.next, c.row.cycle)
        /\ subscription'[c.on].status = subscription[c.on].status
        /\ subscription'[c.on].cycle = subscription[c.on].cycle
    BY <1>1, <1>3 DEF Row
  <1> QED
    BY <1>1, <1>2, <1>4, <1>5, <1>6

LEMMA GenerateCalendar ==
    ASSUME BilledInv, NEW c \in Copy, Generate(c), OnCalendar(c.row.next)
    PROVE  \A s \in Subscription : \/ subscription'[s].next = subscription[s].next
                                   \/ OnCalendar(subscription'[s].next)
  <1>1. c.row.next \in Date /\ c.row.cycle \in Cycle
    BY GenerateIs DEF Row
  <1>2. OnCalendar(NextBillingDate(c.row.next, c.row.cycle))
    BY <1>1, NextIsLater
  <1> QED
    BY <1>2, GenerateIs

LEMMA NextCalendar ==
    ASSUME BilledInv, CalendarInv, [SubscriptionsNext]_subscriptionsVars
    PROVE  CalendarInv'
  <1> DEFINE Same == \A s \in Subscription : \/ subscription'[s].next = subscription[s].next
                                             \/ OnCalendar(subscription'[s].next)
  <1>1. ASSUME UNCHANGED <<subscription, command, request>>
        PROVE  CalendarInv'
    BY <1>1 DEF CalendarInv, Working, Loaded
  <1>2. ASSUME NEW r \in Request, Working(r), Done(r), UNCHANGED command, Same
        PROVE  CalendarInv'
    <2>1. \A q \in Request : request'[q] = Idle \/ request'[q] = request[q]
      BY <1>2 DEF Done, BilledInv, RowsTypeOK
    <2> QED
      BY <1>2, <2>1, CalendarKept
  <1>3. ASSUME NEW s \in Subscription, Create(s)
        PROVE  CalendarInv'
    <2>1. PICK row \in NewRows : subscription' = [subscription EXCEPT ![s] = row]
      BY <1>3 DEF Create, Insert
    <2>2. OnCalendar(row.next)
      BY SubscriptionsAssumption
    <2>3. Same /\ UNCHANGED <<command, request>>
      BY <1>3, <2>1, <2>2 DEF BilledInv, RowsTypeOK, Create
    <2> QED
      BY <2>3, CalendarKept
  <1>4. ASSUME NEW r \in Request, Load(r)
        PROVE  CalendarInv'
    <2>1. PICK s \in Subscription :
              request' = [request EXCEPT ![r] = [on |-> s, row |-> subscription[s]]]
      BY <1>4 DEF Load
    <2>2. \A q \in Request : request'[q] = request[q] \/ OnCalendar(request'[q].row.next)
      BY <2>1 DEF BilledInv, RowsTypeOK, CalendarInv
    <2>3. UNCHANGED <<subscription, command>>
      BY <1>4 DEF Load
    <2> QED
      BY <2>2, <2>3, CalendarKept
  <1>5. ASSUME NEW r \in Request, Pause(r) \/ Resume(r) \/ Cancel(r)
        PROVE  CalendarInv'
    <2>1. PICK status : SetStatus(r, status)
      BY <1>5 DEF Pause, Resume, Cancel
    <2>2. Working(r) /\ Done(r) /\ UNCHANGED command /\ Of(r) \in Subscription
      BY <2>1, InHand DEF SetStatus
    <2>3. Same
      BY <2>1, <2>2 DEF SetStatus, BilledInv, RowsTypeOK, Row
    <2> QED
      BY <1>2, <2>2, <2>3
  <1>6. ASSUME NEW r \in Request, GenerateByHand(r)
        PROVE  CalendarInv'
    <2>1. Working(r) /\ Generate(request[r]) /\ Done(r) /\ UNCHANGED command
      BY <1>6 DEF GenerateByHand
    <2>2. request[r] \in Copy /\ OnCalendar(request[r].row.next)
      BY <2>1, InHand DEF CalendarInv, Loaded
    <2>3. Same
      BY <2>1, <2>2, GenerateCalendar
    <2> QED
      BY <1>2, <2>1, <2>3
  <1>7. ASSUME NEW r \in Request, Patch(r)
        PROVE  CalendarInv'
    <2>1. PICK patch \in Patches : Save(Of(r), Patched(Loaded(r), patch))
      BY <1>7 DEF Patch
    <2>2. Working(r) /\ Done(r) /\ UNCHANGED command
      BY <1>7 DEF Patch
    <2> DEFINE patched == Patched(Loaded(r), patch)
               row == [patched EXCEPT !.items = subscription[Of(r)].items]
    <2>3. /\ Of(r) \in Subscription /\ Loaded(r) \in Row /\ Loaded(r).status \in Status
          /\ OnCalendar(Loaded(r).next)
      BY <2>2, InHand DEF CalendarInv
    <2>4. patched \in Row /\ patched.next = Loaded(r).next
      BY <2>3, PatchedRow
    <2>5. subscription' = [subscription EXCEPT ![Of(r)] = row]
      BY <2>1 DEF Save
    <2> HIDE DEF patched
    <2>6. row.next = Loaded(r).next
      BY <2>4 DEF Row
    <2> HIDE DEF row
    <2>7. Same
      BY <2>3, <2>5, <2>6 DEF BilledInv, RowsTypeOK
    <2> QED
      BY <1>2, <2>2, <2>7
  <1>8. ASSUME NEW r \in Request, Destroy(r)
        PROVE  CalendarInv'
    <2> DEFINE row == [NoRow EXCEPT !.status = "deleted"]
    <2>1. Working(r) /\ Done(r) /\ UNCHANGED command
          /\ subscription' = [subscription EXCEPT ![Of(r)] = row]
      BY <1>8 DEF Destroy
    <2>2. row.next = FirstDay /\ OnCalendar(FirstDay)
      BY SubscriptionsAssumption DEF NoRow
    <2> HIDE DEF row
    <2>3. Same
      BY <2>1, <2>2 DEF BilledInv, RowsTypeOK
    <2> QED
      BY <1>2, <2>1, <2>3
  <1>9. ASSUME NEW r \in Request, Refuse(r)
        PROVE  CalendarInv'
    BY <1>2, <1>9 DEF Refuse
  <1>10. CASE RunCommand
    <2>1. UNCHANGED <<subscription, request>>
      BY <1>10 DEF RunCommand
    <2>2. \A c \in command' : OnCalendar(c.row.next)
      BY <1>10 DEF RunCommand, Copies, CalendarInv
    <2> QED
      BY <2>1, <2>2, CalendarKept
  <1>11. ASSUME NEW s \in Subscription, CommandBills(s)
         PROVE  CalendarInv'
    <2>1. PICK c \in command :
            /\ command' = command \ {c} /\ request' = request
            /\ Generate(c) \/ subscription' = subscription
      BY <1>11 DEF CommandBills
    <2>2. c \in Copy /\ OnCalendar(c.row.next)
      BY DEF BilledInv, RowsTypeOK, CalendarInv
    <2>3. Same
      BY <2>1, <2>2, GenerateCalendar
    <2> QED
      BY <2>1, <2>3, CalendarKept
  <1>12. CASE CommandDies
    BY <1>12, CalendarKept DEF CommandDies
  <1>13. CASE Tick \/ \E o \in Organization : OtherInvoice(o)
    BY <1>1, <1>13
       DEF Tick, OtherInvoice, InvoiceByApi, InvoiceByForm, InvoiceWithNumber, ChangeNumber,
           DeleteInvoice
  <1>14. CASE UNCHANGED subscriptionsVars
    BY <1>1, <1>14 DEF subscriptionsVars
  <1> HIDE DEF Same
  <1>15. CASE \E r \in Request : Handle(r)
    BY <1>4, <1>5, <1>6, <1>7, <1>8, <1>9, <1>15 DEF Handle
  <1> QED
    BY <1>3, <1>10, <1>11, <1>12, <1>13, <1>14, <1>15 DEF SubscriptionsNext

-----------------------------------------------------------------------------
(* Months of the forecast. *)

(* The months of the forecast, counted from today's. *)
LEMMA ForecastMonth ==
    ASSUME today \in Date, NEW ahead \in Nat
    PROVE  /\ Month(ahead).year \in Nat /\ Month(ahead).month \in 1..12
           /\ MonthNumber(Month(ahead)) = MonthNumber(today) + ahead
           /\ FirstOf(Month(ahead)) \in Date /\ LastOf(Month(ahead)) \in Date
           /\ Ordinal(LastOf(Month(ahead))) \in Nat
           /\ Ordinal(FirstOf(Month(ahead))) = 31 * MonthNumber(Month(ahead)) + 1
           /\ Ordinal(LastOf(Month(ahead))) = 31 * MonthNumber(Month(ahead))
                 + MonthLength(Month(ahead).year, Month(ahead).month)
  <1> DEFINE m == Month(ahead)
  <1>1. m.year = YearAfter(today, ahead) /\ m.month = MonthAfter(today, ahead)
    BY DEF Month
  <1>2. m.year \in Nat /\ m.month \in 1..12 /\ MonthNumber(m) = MonthNumber(today) + ahead
    BY <1>1, DateFields, MonthsLater DEF MonthNumber
  <1> HIDE DEF m
  <1>3. MonthLength(m.year, m.month) \in 28..31
    BY LengthOfMonth
  <1>4. /\ FirstOf(m) \in Date /\ LastOf(m) \in Date
        /\ FirstOf(m).year = m.year /\ FirstOf(m).month = m.month /\ FirstOf(m).day = 1
        /\ LastOf(m).year = m.year /\ LastOf(m).month = m.month
        /\ LastOf(m).day = MonthLength(m.year, m.month)
    BY <1>2, <1>3 DEF FirstOf, LastOf, Date
  <1>5. MonthNumber(FirstOf(m)) = MonthNumber(m) /\ MonthNumber(LastOf(m)) = MonthNumber(m)
    BY <1>4 DEF MonthNumber
  <1>6. /\ Ordinal(FirstOf(m)) = 31 * MonthNumber(FirstOf(m)) + FirstOf(m).day
        /\ Ordinal(LastOf(m)) = 31 * MonthNumber(LastOf(m)) + LastOf(m).day
        /\ Ordinal(LastOf(m)) \in Nat
    BY <1>4, DateFields
  <1> QED
    BY <1>2, <1>4, <1>5, <1>6 DEF m

(* A date between the first and the last day of the forecast is in one of  *)
(* its months.                                                             *)
LEMMA DateForecast ==
    ASSUME today \in Date, NEW date \in Date, OnCalendar(date),
           ~Before(date, FirstOf(Month(0))), ~Before(LastOf(Month(ForecastMonths - 1)), date)
    PROVE  \E ahead \in 0..ForecastMonths - 1 :
              OnOrBefore(FirstOf(Month(ahead)), date) /\ OnOrBefore(date, LastOf(Month(ahead)))
  <1> DEFINE ahead == MonthNumber(date) - MonthNumber(today)
             most == ForecastMonths - 1
             m == Month(ahead)
  <1>1. /\ date.year \in Nat /\ date.month \in 1..12 /\ date.day \in 1..31
        /\ Ordinal(date) = 31 * MonthNumber(date) + date.day /\ Ordinal(date) \in Nat
        /\ MonthNumber(date) \in Nat /\ MonthNumber(today) \in Nat
    BY DateFields
  <1>2. most \in Nat
    BY ForecastAssumption
  <1>3. /\ MonthNumber(Month(0)) = MonthNumber(today) + 0
        /\ Ordinal(FirstOf(Month(0))) = 31 * MonthNumber(Month(0)) + 1
        /\ MonthNumber(Month(most)) = MonthNumber(today) + most
        /\ Ordinal(LastOf(Month(most))) = 31 * MonthNumber(Month(most))
                 + MonthLength(Month(most).year, Month(most).month)
    BY <1>2, ForecastMonth
  <1>4. MonthLength(Month(most).year, Month(most).month) \in 28..31
    BY LengthOfMonth
  <1> HIDE DEF most
  <1>5. /\ ~(Ordinal(date) < Ordinal(FirstOf(Month(0))))
        /\ ~(Ordinal(LastOf(Month(most))) < Ordinal(date))
    BY DEF Before, most
  <1>6. ahead \in Nat /\ ahead <= most
    <2> DEFINE l == MonthLength(Month(most).year, Month(most).month)
               a == MonthNumber(Month(most))
               b == MonthNumber(Month(0))
    <2>1. /\ l \in 28..31 /\ a = MonthNumber(today) + most /\ b = MonthNumber(today)
          /\ 31 * b + 1 <= 31 * MonthNumber(date) + date.day
          /\ 31 * MonthNumber(date) + date.day <= 31 * a + l
      BY <1>1, <1>2, <1>3, <1>4, <1>5
    <2> HIDE DEF l, a, b
    <2> QED
      BY <1>1, <1>2, <2>1
  <1>7. /\ m.year \in Nat /\ m.month \in 1..12 /\ MonthNumber(m) = MonthNumber(today) + ahead
        /\ Ordinal(FirstOf(m)) = 31 * MonthNumber(m) + 1
        /\ Ordinal(LastOf(m)) = 31 * MonthNumber(m) + MonthLength(m.year, m.month)
    BY <1>6, ForecastMonth
  <1> HIDE DEF m
  <1>8. MonthNumber(m) = MonthNumber(date)
    BY <1>1, <1>7
  <1>9. m.year = date.year /\ m.month = date.month
    <2> DEFINE a == m.year
               b == m.month
               c == date.year
               d == date.month
    <2>1. 12 * a + b = 12 * c + d
      BY <1>8 DEF MonthNumber
    <2>2. a \in Nat /\ b \in 1..12 /\ c \in Nat /\ d \in 1..12
      BY <1>1, <1>7
    <2> HIDE DEF a, b, c, d
    <2>3. a = c /\ b = d
      BY <2>1, <2>2
    <2> QED
      BY <2>3 DEF a, b, c, d
  <1>10. date.day <= MonthLength(m.year, m.month) /\ MonthLength(m.year, m.month) \in 28..31
    BY <1>9, LengthOfMonth DEF OnCalendar
  <1>11. OnOrBefore(FirstOf(m), date) /\ OnOrBefore(date, LastOf(m))
    BY <1>1, <1>7, <1>8, <1>10 DEF OnOrBefore
  <1>12. ahead \in 0..ForecastMonths - 1
    BY <1>2, <1>6 DEF most
  <1> QED
    BY <1>11, <1>12 DEF m

(* What billing it does to the forecast of a subscription. *)
ForecastOf(row) ==
    IF row.status # "ACTIVE" THEN {}
    ELSE UNION {Renewals(row, Month(ahead)) : ahead \in 0..ForecastMonths - 1}

(* Billing takes the date that is billed out of the forecast, and no other *)
(* one.                                                                    *)
LEMMA ForecastGoesOn ==
    ASSUME today \in Date, NEW row \in Row, NEW next \in Row, row.status = "ACTIVE",
           next.status = row.status, next.cycle = row.cycle,
           next.next = NextBillingDate(row.next, row.cycle), OnCalendar(row.next)
    PROVE  /\ ForecastOf(next) = ForecastOf(row) \ {row.next}
           /\ \/ row.next \in ForecastOf(row)
              \/ Before(row.next, FirstOf(Month(0)))
              \/ Before(LastOf(Month(ForecastMonths - 1)), row.next)
  <1>1. ASSUME NEW ahead \in 0..ForecastMonths - 1
        PROVE  /\ Renewals(next, Month(ahead)) = Renewals(row, Month(ahead)) \ {row.next}
               /\ OnOrBefore(FirstOf(Month(ahead)), row.next)
                    /\ OnOrBefore(row.next, LastOf(Month(ahead)))
                    => row.next \in Renewals(row, Month(ahead))
    <2>1. ahead \in Nat
      BY ForecastAssumption
    <2>2. Ordinal(LastOf(Month(ahead))) \in Nat
      BY <2>1, ForecastMonth
    <2> QED
      BY <2>2, RenewalsGoOn
  <1>2. ForecastOf(next) = ForecastOf(row) \ {row.next}
    BY <1>1 DEF ForecastOf
  <1>3. row.next \in Date
    BY DEF Row
  <1>4. \/ row.next \in ForecastOf(row)
        \/ Before(row.next, FirstOf(Month(0)))
        \/ Before(LastOf(Month(ForecastMonths - 1)), row.next)
    <2> SUFFICES ASSUME ~Before(row.next, FirstOf(Month(0))),
                        ~Before(LastOf(Month(ForecastMonths - 1)), row.next)
                 PROVE  row.next \in ForecastOf(row)
      OBVIOUS
    <2>1. PICK ahead \in 0..ForecastMonths - 1 :
              OnOrBefore(FirstOf(Month(ahead)), row.next)
                /\ OnOrBefore(row.next, LastOf(Month(ahead)))
      BY <1>3, DateForecast
    <2>2. row.next \in Renewals(row, Month(ahead))
      BY <1>1, <2>1
    <2> QED
      BY <2>2 DEF ForecastOf
  <1> QED
    BY <1>2, <1>4

(* A session that bills does so with the row it loaded. *)
LEMMA ForecastStep ==
    ASSUME BilledInv, BilledInv', CalendarInv, today \in Date, SubscriptionsNext,
           NEW s \in Subscription \ contended, Len(billed'[s]) > Len(billed[s])
    PROVE  LET date == billed'[s][Len(billed'[s])].date IN
           /\ Forecast(s)' = Forecast(s) \ {date}
           /\ \/ date \in Forecast(s)
              \/ Before(date, FirstOf(Month(0)))
              \/ Before(LastOf(Month(ForecastMonths - 1)), date)
  <1>1. \E c \in Copy : /\ Generate(c) /\ today' = today
                        /\ c.on \notin contended => c.row = subscription[c.on]
    <2>1. CASE \E r \in Request : GenerateByHand(r)
      <3>1. PICK r \in Request : GenerateByHand(r)
        BY <2>1
      <3>2. /\ Working(r) /\ Generate(request[r]) /\ today' = today
        BY <3>1 DEF GenerateByHand
      <3> QED
        BY <3>2, InHand DEF Of, Loaded
    <2>2. CASE \E q \in Subscription : CommandBills(q)
      <3>1. PICK c \in command : /\ Generate(c) \/ UNCHANGED billed
                                 /\ today' = today
        BY <2>2 DEF CommandBills
      <3>2. c \in Copy /\ (c.on \notin contended => c.row = subscription[c.on])
        BY DEF BilledInv, RowsTypeOK, CopiesAreCurrent
      <3>3. Generate(c)
        <4>1. Len(billed[s]) \in Nat
          BY DEF BilledInv, RowsTypeOK
        <4> QED
          BY <3>1, <4>1
      <3> QED
        BY <3>1, <3>2, <3>3
    <2>3. CASE UNCHANGED billed
      <3>1. Len(billed[s]) \in Nat
        BY DEF BilledInv, RowsTypeOK
      <3> QED
        BY <2>3, <3>1
    <2>4. \A r \in Request : Handle(r) => GenerateByHand(r) \/ UNCHANGED billed
      BY DEF Handle, Load, Pause, Resume, Cancel, SetStatus, Patch, Destroy, Refuse
    <2>5. Tick \/ RunCommand \/ CommandDies \/ (\E q \in Subscription : Create(q))
            \/ (\E o \in Organization : OtherInvoice(o))
            => UNCHANGED billed
      BY DEF Tick, RunCommand, CommandDies, Create, OtherInvoice, InvoiceByApi, InvoiceByForm,
             InvoiceWithNumber, ChangeNumber, DeleteInvoice
    <2> QED
      BY <2>1, <2>2, <2>3, <2>4, <2>5 DEF SubscriptionsNext
  <1>2. PICK c \in Copy : /\ Generate(c) /\ today' = today
                          /\ c.on \notin contended => c.row = subscription[c.on]
    BY <1>1
  <1>3. /\ c.on \in Subscription /\ c.row \in Row /\ c.row.status = "ACTIVE"
        /\ \A q \in Subscription : q # c.on =>
              subscription'[q] = subscription[q] /\ billed'[q] = billed[q]
        /\ subscription'[c.on].next = NextBillingDate(c.row.next, c.row.cycle)
        /\ subscription'[c.on].status = subscription[c.on].status
        /\ subscription'[c.on].cycle = subscription[c.on].cycle
        /\ billed'[c.on][Len(billed'[c.on])].date = c.row.next
    BY <1>2, GenerateIs
  <1>4. c.on = s
    <2>1. Len(billed[s]) \in Nat
      BY DEF BilledInv, RowsTypeOK
    <2> QED
      BY <1>3, <2>1
  <1> DEFINE row == subscription[s]
             next == subscription'[s]
  <1>5. /\ row \in Row /\ next \in Row /\ c.row = row /\ OnCalendar(row.next)
        /\ row.status = "ACTIVE" /\ next.status = row.status /\ next.cycle = row.cycle
        /\ next.next = NextBillingDate(row.next, row.cycle)
        /\ billed'[s][Len(billed'[s])].date = row.next
    BY <1>2, <1>3, <1>4 DEF BilledInv, RowsTypeOK, CalendarInv
  <1>6. Forecast(s) = ForecastOf(row)
    BY DEF Forecast, ForecastOf
  <1>7. Forecast(s)' = ForecastOf(next)
    BY <1>2 DEF Forecast, ForecastOf, Renewals, Month
  <1> HIDE DEF row, next
  <1>8. /\ ForecastOf(next) = ForecastOf(row) \ {row.next}
        /\ \/ row.next \in ForecastOf(row)
           \/ Before(row.next, FirstOf(Month(0)))
           \/ Before(LastOf(Month(ForecastMonths - 1)), row.next)
    BY <1>5, ForecastGoesOn
  <1> QED
    BY <1>5, <1>6, <1>7, <1>8

(* ForecastIsBilled: whoever bills a subscription takes the period that is *)
(* billed out of the forecast and leaves every other expected date in it.  *)
THEOREM ForecastTheorem == SubscriptionsSpec => ForecastIsBilled
  <1> DEFINE Billing == \A s \in Subscription \ contended :
                Len(billed'[s]) > Len(billed[s]) =>
                    LET date == billed'[s][Len(billed'[s])].date IN
                    /\ Forecast(s)' = Forecast(s) \ {date}
                    /\ \/ date \in Forecast(s)
                       \/ Before(date, FirstOf(Month(0)))
                       \/ Before(LastOf(Month(ForecastMonths - 1)), date)
  <1>1. BilledInv /\ CalendarInv /\ [SubscriptionsNext]_subscriptionsVars => CalendarInv'
    BY NextCalendar
  <1>2. BilledInv /\ BilledInv' /\ CalendarInv /\ NumbersInv /\ [SubscriptionsNext]_subscriptionsVars => [Billing]_subscriptionsVars
    BY ForecastStep DEF NumbersInv
  <1>3. BilledInv /\ NumbersInv /\ [SubscriptionsNext]_subscriptionsVars => NumbersInv'
    BY NextNumbers
  <1> QED
    BY <1>1, <1>2, <1>3, InitCalendar, InitNumbers, BilledInOrder, PTL
    DEF SubscriptionsSpec, ForecastIsBilled
=============================================================================
