-------------------------- MODULE StockTransactions -------------------------
(***************************************************************************)
(* StockService (inventory/services.py) statement by statement, as several *)
(* requests execute it at once on a database that isolates transactions    *)
(* at READ COMMITTED with row locks (PostgreSQL, the production database). *)
(*                                                                         *)
(* A worker is one request's database connection.  It runs one block: the  *)
(* calls made inside one transaction.atomic.  What it has written is       *)
(* private (wrote, draft, moved) until Commit; SELECT ... FOR UPDATE and   *)
(* the unique index of InventoryItem are what keeps workers apart.         *)
(***************************************************************************)
EXTENDS StockCalls

CONSTANTS Worker, NoWorker,
          Blocks            \* the sequences of calls run in a transaction

ASSUME WorkerAssumption == NoWorker \notin Worker

ASSUME BlocksAssumption == Blocks \subseteq Seq(Call) \ {<<>>}

VARIABLES
    rows,       \* committed: the cells that have an InventoryItem
    quantity,   \* committed: InventoryItem.quantity, 0 where there is no row
    ledger,     \* committed: the sum of the StockMovement rows of a cell
    lock,       \* who holds a cell's row lock or its uncommitted index entry
    block,      \* the calls a worker's transaction makes
    at,         \* the position in block of the call being executed
    pc,         \* the statement the worker executes next
    found,      \* the locking SELECT returned a row
    current,    \* the quantity it returned, 0 for no row
    wrote,      \* the cells whose InventoryItem the transaction has written
    draft,      \* the quantity it wrote there
    moved       \* the sum of the movements it has inserted, by cell

stock == <<rows, quantity, ledger>>
script == <<block, at>>
seen == <<found, current>>
work == <<wrote, draft, moved>>
vars == <<rows, quantity, ledger, lock, block, at, pc, found, current,
          wrote, draft, moved>>

Statement == {"idle", "check", "lock", "move", "write", "alert", "commit"}

-----------------------------------------------------------------------------
ThisCall(w) == block[w][at[w]]
ThisCell(w) == ThisCall(w).cell

(* READ COMMITTED: committed rows and the transaction's own are visible. *)
Visible(w, k) == k \in rows \/ k \in wrote[w]
VisibleQuantity(w, k) == IF k \in wrote[w] THEN draft[w][k] ELSE quantity[k]

FreeFor(w, k) == lock[k] \in {NoWorker, w}

Delta(w) == MovementQuantity(ThisCall(w), current[w])

(* receive and issue write F("quantity") + delta, adjust its target; a row *)
(* that is inserted starts from 0.                                         *)
NewQuantity(w) ==
    IF ThisCall(w).op = "adjust"
    THEN ThisCall(w).quantity
    ELSE (IF found[w] THEN VisibleQuantity(w, ThisCell(w)) ELSE 0) + Delta(w)

(* The end of a service call: the next call of the block, or its commit. *)
NextCall(w) ==
    IF at[w] < Len(block[w])
    THEN at' = [at EXCEPT ![w] = @ + 1] /\ pc' = [pc EXCEPT ![w] = "check"]
    ELSE at' = at /\ pc' = [pc EXCEPT ![w] = "commit"]

(* COMMIT and ROLLBACK end alike: locks are released, the session is clean. *)
EndTransaction(w) ==
    /\ lock' = [k \in Key |-> IF lock[k] = w THEN NoWorker ELSE lock[k]]
    /\ block' = [block EXCEPT ![w] = <<>>]
    /\ at' = [at EXCEPT ![w] = 1]
    /\ pc' = [pc EXCEPT ![w] = "idle"]
    /\ found' = [found EXCEPT ![w] = FALSE]
    /\ current' = [current EXCEPT ![w] = 0]
    /\ wrote' = [wrote EXCEPT ![w] = {}]
    /\ draft' = [draft EXCEPT ![w] = [k \in Key |-> 0]]
    /\ moved' = [moved EXCEPT ![w] = [k \in Key |-> 0]]

Rollback(w) == EndTransaction(w) /\ UNCHANGED stock
-----------------------------------------------------------------------------
Init ==
    /\ rows = {}
    /\ quantity = [k \in Key |-> 0]
    /\ ledger = [k \in Key |-> 0]
    /\ lock = [k \in Key |-> NoWorker]
    /\ block = [w \in Worker |-> <<>>]
    /\ at = [w \in Worker |-> 1]
    /\ pc = [w \in Worker |-> "idle"]
    /\ found = [w \in Worker |-> FALSE]
    /\ current = [w \in Worker |-> 0]
    /\ wrote = [w \in Worker |-> {}]
    /\ draft = [w \in Worker |-> [k \in Key |-> 0]]
    /\ moved = [w \in Worker |-> [k \in Key |-> 0]]

(* A request opens transaction.atomic around the calls of a block. *)
Begin(w) ==
    /\ pc[w] = "idle"
    /\ \E b \in Blocks : block' = [block EXCEPT ![w] = b]
    /\ pc' = [pc EXCEPT ![w] = "check"]
    /\ UNCHANGED <<stock, lock, at, seen, work>>

(* The call's arguments pass.  receive writes its movement first. *)
Check(w) ==
    /\ pc[w] = "check"
    /\ Acceptable(ThisCall(w))
    /\ pc' = [pc EXCEPT ![w] = IF ThisCall(w).op = "receive" THEN "move" ELSE "lock"]
    /\ found' = [found EXCEPT ![w] = FALSE]
    /\ current' = [current EXCEPT ![w] = 0]
    /\ UNCHANGED <<stock, lock, script, work>>

(* Mutant: a plain SELECT, which neither waits nor locks. *)
SelectOnly(w) ==
    LET k == ThisCell(w) IN
    /\ pc[w] = "lock"
    /\ found' = [found EXCEPT ![w] = Visible(w, k)]
    /\ current' = [current EXCEPT ![w] = IF Visible(w, k) THEN VisibleQuantity(w, k) ELSE 0]
    /\ pc' = [pc EXCEPT ![w] = IF ThisCall(w).op = "receive" THEN "write" ELSE "move"]
    /\ UNCHANGED <<stock, lock, script, work>>

(* InventoryItem.objects.select_for_update(): waits for another worker's row *)
(* lock, and sees nothing of a row that is not committed yet.                *)
SelectForUpdate(w) ==
    LET k == ThisCell(w) IN
    /\ pc[w] = "lock"
    /\ Visible(w, k) => FreeFor(w, k)
    /\ found' = [found EXCEPT ![w] = Visible(w, k)]
    /\ current' = [current EXCEPT ![w] = IF Visible(w, k) THEN VisibleQuantity(w, k) ELSE 0]
    /\ lock' = IF Visible(w, k) THEN [lock EXCEPT ![k] = w] ELSE lock
    /\ pc' = [pc EXCEPT ![w] = IF ThisCall(w).op = "receive" THEN "write" ELSE "move"]
    /\ UNCHANGED <<stock, script, work>>

(* StockMovement.objects.create() *)
InsertMovement(w) ==
    LET k == ThisCell(w) IN
    /\ pc[w] = "move"
    /\ ~Insufficient(ThisCall(w), current[w])
    /\ Delta(w) # 0 /\ Fits(Delta(w))
    /\ moved' = [moved EXCEPT ![w][k] = @ + Delta(w)]
    /\ pc' = [pc EXCEPT ![w] = IF ThisCall(w).op = "receive" THEN "lock" ELSE "write"]
    /\ UNCHANGED <<stock, lock, script, seen, wrote, draft>>

(* adjust returns None: the counted quantity is the balance. *)
NothingToAdjust(w) ==
    /\ pc[w] = "move"
    /\ Delta(w) = 0
    /\ NextCall(w)
    /\ UNCHANGED <<stock, lock, block, seen, work>>

(* Mutant: a quantity column that takes any number of digits. *)
WriteDraftAnyDigits(w, k) ==
    /\ draft' = [draft EXCEPT ![w][k] = NewQuantity(w)]
    /\ wrote' = [wrote EXCEPT ![w] = @ \cup {k}]
    /\ pc' = [pc EXCEPT ![w] = "alert"]
    /\ UNCHANGED <<stock, script, seen, moved>>

WriteDraft(w, k) ==
    /\ Fits(NewQuantity(w))
    /\ draft' = [draft EXCEPT ![w][k] = NewQuantity(w)]
    /\ wrote' = [wrote EXCEPT ![w] = @ \cup {k}]
    /\ pc' = [pc EXCEPT ![w] = "alert"]
    /\ UNCHANGED <<stock, script, seen, moved>>

(* item.save(update_fields=["quantity", "updated_at"]) *)
UpdateItem(w) ==
    /\ pc[w] = "write" /\ found[w]
    /\ WriteDraft(w, ThisCell(w))
    /\ UNCHANGED lock

(* Mutant: InventoryItem without its unique constraints. *)
InsertItemAnyway(w) ==
    /\ pc[w] = "write" /\ ~found[w]
    /\ WriteDraft(w, ThisCell(w))
    /\ UNCHANGED lock

(* InventoryItem.objects.create(): waits while another transaction's insert *)
(* of the same key is undecided.                                            *)
InsertItem(w) ==
    LET k == ThisCell(w) IN
    /\ pc[w] = "write" /\ ~found[w]
    /\ k \notin rows /\ FreeFor(w, k)
    /\ lock' = [lock EXCEPT ![k] = w]
    /\ WriteDraft(w, k)

(* Mutant: the INSERT is tried again, not the SELECT. *)
InsertAgain(w) ==
    /\ pc[w] = "write" /\ ~found[w]
    /\ ThisCell(w) \in rows
    /\ ThisCall(w).op = "receive"
    /\ pc' = [pc EXCEPT ![w] = "write"]
    /\ UNCHANGED <<stock, lock, script, seen, work>>

(* The key was committed since the SELECT.  get_or_create (receive) catches *)
(* the IntegrityError and selects again.                                    *)
SelectAgain(w) ==
    /\ pc[w] = "write" /\ ~found[w]
    /\ ThisCell(w) \in rows
    /\ ThisCall(w).op = "receive"
    /\ pc' = [pc EXCEPT ![w] = "lock"]
    /\ UNCHANGED <<stock, lock, script, seen, work>>

(* StockAlertService.evaluate(): reads the items and writes StockAlert rows *)
(* only, so nothing of what is modelled here changes.                       *)
EvaluateAlert(w) ==
    /\ pc[w] = "alert"
    /\ NextCall(w)
    /\ UNCHANGED <<stock, lock, block, seen, work>>

Commit(w) ==
    /\ pc[w] = "commit"
    /\ rows' = rows \cup wrote[w]
    /\ quantity' = [k \in Key |-> VisibleQuantity(w, k)]
    /\ ledger' = [k \in Key |-> ledger[k] + moved[w][k]]
    /\ EndTransaction(w)

(* What leaves transaction.atomic with an exception: a refused argument,    *)
(* InsufficientStockError, a value the column cannot hold, and the          *)
(* IntegrityError of a plain create().                                      *)
Raises(w) ==
    \/ pc[w] = "check" /\ ~Acceptable(ThisCall(w))
    \/ pc[w] = "move" /\ Insufficient(ThisCall(w), current[w])
    \/ pc[w] = "move" /\ ~Fits(Delta(w))
    \/ pc[w] = "write" /\ ~Fits(NewQuantity(w))
    \/ /\ pc[w] = "write" /\ ~found[w]
       /\ ThisCell(w) \in rows
       /\ ThisCall(w).op # "receive"

(* Mutant: without transaction.atomic what was written stays. *)
FailHalfway(w) ==
    /\ Raises(w)
    /\ rows' = rows \cup wrote[w]
    /\ quantity' = [k \in Key |-> VisibleQuantity(w, k)]
    /\ ledger' = [k \in Key |-> ledger[k] + moved[w][k]]
    /\ EndTransaction(w)

Fail(w) == Raises(w) /\ Rollback(w)

(* The process or its connection dies in the middle of a block. *)
Crash(w) == pc[w] # "idle" /\ Rollback(w)

-----------------------------------------------------------------------------
(* v's next statement waits for u to end its transaction. *)
WaitsFor(v, u) ==
    LET k == ThisCell(v) IN
    /\ u # v /\ pc[v] \in {"lock", "write"}
    /\ lock[k] = u
    /\ IF pc[v] = "lock" THEN Visible(v, k) ELSE ~found[v] /\ k \notin rows

(* The workers of S wait for each other in a circle. *)
Deadlocked(S) ==
    /\ \A v \in S : \E u \in S : WaitsFor(v, u)
    /\ \A u \in S : \E v \in S : WaitsFor(v, u)

(* The database's deadlock detector aborts one of them. *)
DeadlockVictim(w) ==
    /\ \E S \in SUBSET Worker : w \in S /\ Deadlocked(S)
    /\ Rollback(w)

Advance(w) ==
    \/ Check(w) \/ SelectForUpdate(w) \/ InsertMovement(w) \/ NothingToAdjust(w)
    \/ UpdateItem(w) \/ InsertItem(w) \/ SelectAgain(w) \/ EvaluateAlert(w)
    \/ Commit(w) \/ Fail(w)

Step(w) == Begin(w) \/ Advance(w) \/ DeadlockVictim(w) \/ Crash(w)

Next == \E w \in Worker : Step(w)

Spec == Init /\ [][Next]_vars

(* A worker that can execute a statement does; lock waiters are woken in    *)
(* turn, so one that can proceed again and again does; the deadlock         *)
(* detector runs.  No fairness for Begin (requests may stop) or Crash.      *)
FairSpec ==
    /\ Spec
    /\ \A w \in Worker : SF_vars(Advance(w)) /\ WF_vars(DeadlockVictim(w))
-----------------------------------------------------------------------------
(* Types, and that a balance fits the 15 digits of its column, be it        *)
(* committed or not: no order of receipts adds up to more than it holds.    *)
TypeOK ==
    /\ rows \subseteq Key
    /\ quantity \in [Key -> Int]
    /\ ledger \in [Key -> Int]
    /\ lock \in [Key -> Worker \cup {NoWorker}]
    /\ block \in [Worker -> Blocks \cup {<<>>}]
    /\ at \in [Worker -> Nat \ {0}]
    /\ pc \in [Worker -> Statement]
    /\ found \in [Worker -> BOOLEAN]
    /\ current \in [Worker -> Int]
    /\ wrote \in [Worker -> SUBSET Key]
    /\ draft \in [Worker -> [Key -> Int]]
    /\ moved \in [Worker -> [Key -> Int]]
    /\ \A k \in Key : Fits(quantity[k])
    /\ \A w \in Worker : \A k \in wrote[w] : Fits(draft[w][k])

(* InventoryReconciliationService.reconcile_item finds every item balanced,  *)
(* and StockLedgerService finds no stock where there is no item: whatever    *)
(* interleaving, crash or lost insert race, the cache is the movements' sum. *)
Reconciled ==
    \A k \in Key :
        /\ ledger[k] = quantity[k]
        /\ k \notin rows => quantity[k] = 0

MayGoNegative == \E b \in Blocks : \E i \in DOMAIN b : b[i].allow_negative

(* issue tests the balance in one statement and writes it in a later one:   *)
(* no two workers sell the same units.                                      *)
NonNegative == MayGoNegative \/ \A k \in Key : quantity[k] >= 0

-----------------------------------------------------------------------------
(* The inductive invariant behind Reconciled and NonNegative, by worker. *)

(* Between transactions a session is clean; within one it is at a call. *)
Session(w) ==
    IF pc[w] = "idle"
    THEN /\ block[w] = <<>> /\ at[w] = 1
         /\ wrote[w] = {} /\ moved[w] = [k \in Key |-> 0]
    ELSE block[w] \in Blocks /\ at[w] \in 1..Len(block[w])

(* The arguments were checked before the first statement of a call. *)
ArgumentsChecked(w) ==
    pc[w] \in {"lock", "move", "write"} => Acceptable(ThisCall(w))

(* An uncommitted InventoryItem is locked by its writer, *)
OwnsItsDrafts(w) == \A k \in wrote[w] : lock[k] = w

(* and its quantity is not negative. *)
DraftsNonNegative(w) == MayGoNegative \/ \A k \in wrote[w] : draft[w][k] >= 0

(* What the locking SELECT returned is still so when it is used: the row is *)
(* locked, or this transaction has written none.                            *)
Selected(w) == pc[w] = "write" \/ (pc[w] = "move" /\ ThisCall(w).op # "receive")

SeenIsTrue(w) ==
    Selected(w) =>
        IF found[w]
        THEN /\ lock[ThisCell(w)] = w
             /\ current[w] = VisibleQuantity(w, ThisCell(w))
        ELSE current[w] = 0 /\ ThisCell(w) \notin wrote[w]

IssueCovered(w) == pc[w] = "write" => ~Insufficient(ThisCall(w), current[w])

(* Inside a transaction, too, movements and items agree, but for the call   *)
(* whose movement is inserted and whose item is not written yet.            *)
HalfPosted(w) == pc[w] = "write" \/ (pc[w] = "lock" /\ ThisCall(w).op = "receive")

Pending(w, k) == IF HalfPosted(w) /\ ThisCell(w) = k THEN Delta(w) ELSE 0

Drafted(w, k) == IF k \in wrote[w] THEN draft[w][k] - quantity[k] ELSE 0

DraftsBalance(w) == \A k \in Key : moved[w][k] = Drafted(w, k) + Pending(w, k)

WorkerInv(w) ==
    /\ Session(w) /\ ArgumentsChecked(w) /\ OwnsItsDrafts(w) /\ DraftsNonNegative(w)
    /\ SeenIsTrue(w) /\ IssueCovered(w) /\ DraftsBalance(w)

IInv == TypeOK /\ (\A w \in Worker : WorkerInv(w)) /\ Reconciled /\ NonNegative

-----------------------------------------------------------------------------
(* The stock tables behave as SerialStock, where blocks run one after the   *)
(* other: a block commits as if it ran alone at that moment, all of its     *)
(* calls, in their order, each on the balance the one before left, or none  *)
(* of them; and nothing but a commit is visible to others.                  *)
Serial ==
    INSTANCE SerialStock WITH Blocks <- Blocks, rows <- rows, quantity <- quantity,
                              ledger <- ledger
SerialCommits ==
    /\ Serial!StockSpec
    /\ [][ /\ \A w \in Worker : Commit(w) => Serial!Run(block[w])
           /\ stock' # stock => \E w \in Worker : Commit(w) ]_vars

(* Every block ends: no worker waits for a lock forever, not even when two  *)
(* opposite transfers lock the same two items in opposite orders.           *)
EveryBlockEnds == \A w \in Worker : pc[w] # "idle" ~> pc[w] = "idle"
=============================================================================
