---------------------------- MODULE StockAlerts ----------------------------
(***************************************************************************)
(* StockAlertService.evaluate(), run at the end of every receive, issue    *)
(* and adjust inside their transaction, next to the REST handlers that     *)
(* change alerts by hand and to edits of a product's levels.               *)
(*                                                                         *)
(* An alert belongs to a site: a product in a warehouse.  evaluate() looks *)
(* at the first InventoryItem of the site only, whatever shelf (location)  *)
(* was changed, reads it twice, reads the alerts and then writes them: one *)
(* action per statement, for two transactions at once, while a client may  *)
(* move an alert to another site.  The rows of the items exist;            *)
(* StockTransactions has their insertion, and the deadlocks of             *)
(* transactions with several calls.                                        *)
(***************************************************************************)
EXTENDS Integers, FiniteSets, SequencesExt, FiniteSetsExt

CONSTANTS
    Site,        \* a product in a warehouse
    Shelf,       \* InventoryItem rows
    Place,       \* what an alert may be for: a site, or a product in no warehouse
    SiteOf,      \* the site of a shelf
    FirstShelf,  \* the InventoryItem of a site with the lowest id
    Article,     \* products
    ProductOf,   \* the product of a site
    Levels,      \* [reorder |->, maximum |->] a product may be given; 0: none
    Alert,       \* bound: ids of alerts
    NewAlert,    \* the rows a client posts by hand
    AlertPatches,  \* the columns it writes by PATCH, with their values
    Worker,      \* database sessions of stock operations
    Quantity,    \* the quantities of calls
    MaxMoves,    \* bound: movements
    MaxEdits,    \* bound: edits of levels and of alerts by hand
    NoWork, NoCopy,
    NoAlert       \* an alert that does not exist

Kind == {"OUT_OF_STOCK", "LOW_STOCK", "OVERSTOCK"}
AlertRow == [site: Place, kind: Kind, level: Int, threshold: Int, active: BOOLEAN]

ASSUME AlertsAssumption ==
    /\ Site \subseteq Place
    /\ SiteOf \in [Shelf -> Site] /\ ProductOf \in [Site -> Article]
    /\ FirstShelf \in [Site -> Shelf] /\ \A s \in Site : SiteOf[FirstShelf[s]] = s
    /\ Levels \subseteq [reorder: Nat, maximum: Nat] /\ NewAlert \subseteq AlertRow
    /\ \A patch \in AlertPatches :
          /\ DOMAIN patch \subseteq {"site", "kind", "level", "threshold", "active"}
          /\ \A column \in DOMAIN patch :
                patch[column] \in CASE column = "site" -> Place
                                    [] column = "kind" -> Kind
                                    [] column = "active" -> BOOLEAN
                                    [] OTHER -> Int
    /\ Quantity \subseteq Nat \ {0} /\ MaxMoves \in Nat /\ MaxEdits \in Nat
    /\ IsFiniteSet(Shelf) /\ IsFiniteSet(Article)

(* What a call of the service knows while it runs, and what a client holds. *)
StockOperation ==
    [op: {"receive", "issue", "adjust"}, shelf: Shelf, n: Nat, new: Nat,
     kind: Kind \cup {"NORMAL"}, level: Int, found: SUBSET Alert,
     levels: [reorder: Nat, maximum: Nat]]
AlertCopy == [alert: Alert, row: AlertRow]

ASSUME NothingAssumption ==
    NoWork \notin StockOperation \cup Worker /\ NoCopy \notin AlertCopy /\ NoAlert \notin AlertRow

VARIABLES
    units,     \* InventoryItem.quantity, committed
    moves,     \* StockMovement rows by created_at; by: their session until it commits
    levels,    \* Product.reorder_level, maximum_stock
    alerts,    \* StockAlert rows, committed
    order,     \* alert ids by created_at
    pc, work,  \* what a session does next; its call and what it has read
    wrote,     \* alert rows of an open transaction
    copy,      \* the alert the client holds that loaded it
    disturbed, \* sessions that read what another write then changed
    edits,     \* how many edits there were
    unsure     \* places nobody evaluated undisturbed since the last write

shelfVars == <<units, moves>>
session == <<pc, work, wrote, disturbed>>
alertsVars == <<shelfVars, levels, alerts, order, session, copy, edits, unsure>>

-----------------------------------------------------------------------------
(* StockLevelService.get_status for a quantity. *)
StatusOf(l, q) ==
    CASE q <= 0 -> "OUT_OF_STOCK"
      [] q > 0 /\ l.reorder > 0 /\ q <= l.reorder -> "LOW_STOCK"
      [] q > 0 /\ q > l.reorder /\ l.maximum > 0 /\ q > l.maximum -> "OVERSTOCK"
      [] OTHER -> "NORMAL"

Threshold(l, kind) == IF kind = "OVERSTOCK" THEN l.maximum ELSE l.reorder

(* READ COMMITTED: committed rows and the session's own; a row somebody    *)
(* wrote in an open transaction is not free.                               *)
Here(w) == SiteOf[work[w].shelf]
Holds(w, shelf) == pc[w] \notin {"idle", "lock"} /\ work[w].shelf = shelf
Seen(w, shelf) == IF Holds(w, shelf) THEN work[w].new ELSE units[shelf]
Free(shelf) == ~\E w \in Worker : Holds(w, shelf)
Changed(w) == {a \in Alert : wrote[w][a] # NoAlert}
Table(w) == [a \in Alert |-> IF a \in Changed(w) THEN wrote[w][a] ELSE alerts[a]]
ActiveIn(table, s) ==
    {a \in Alert : table[a] # NoAlert /\ table[a].site = s /\ table[a].active}
FreeAlert(a) == \A w \in Worker : a \notin Changed(w)
NothingWritten == [a \in Alert |-> NoAlert]

(* Meta.ordering = ["-created_at"], .first() *)
Newest(S) == order[Max({n \in DOMAIN order : order[n] \in S})]

(* Rows that are deleted or rolled back: one, or none there. *)
Without(list, places) == IF places = {} THEN list ELSE RemoveAt(list, Max(places))

(* Ids are not given twice: those somebody still knows are not new. *)
Unused ==
    {a \in Alert : /\ ~Contains(order, a)
                   /\ copy # NoCopy => copy.alert # a
                   /\ \A w \in Worker : work[w] # NoWork => a \notin work[w].found}

(* Sessions of these sites that have read what is now written. *)
Reading(sites, since) == {w \in Worker : pc[w] \in since /\ Here(w) \in sites}
AfterJudging == {"measure", "read", "write", "commit"}
AfterReading == {"write", "commit"}

-----------------------------------------------------------------------------
AlertsInit ==
    /\ units = [s \in Shelf |-> 0] /\ moves = <<>>
    /\ levels \in [Article -> Levels]
    /\ alerts = [a \in Alert |-> NoAlert] /\ order = <<>>
    /\ pc = [w \in Worker |-> "idle"] /\ work = [w \in Worker |-> NoWork]
    /\ wrote = [w \in Worker |-> NothingWritten]
    /\ copy = NoCopy /\ disturbed = {} /\ unsure = Site /\ edits = 0

(* A handler loads product and warehouse and calls the service; receive()  *)
(* starts with its movement.                                               *)
Begin(w) ==
    /\ pc[w] = "idle"
    /\ \E op \in {"receive", "issue", "adjust"}, shelf \in Shelf, n \in Quantity \cup {0} :
        /\ n = 0 => op = "adjust"
        /\ work' = [work EXCEPT ![w] =
              [op |-> op, shelf |-> shelf, n |-> n, new |-> 0, kind |-> "NORMAL", level |-> 0,
               found |-> {}, levels |-> levels[ProductOf[SiteOf[shelf]]]]]
        /\ moves' = IF op = "receive"
                    THEN Append(moves, [shelf |-> shelf, quantity |-> n, by |-> w])
                    ELSE moves
    /\ pc' = [pc EXCEPT ![w] = "lock"]
    /\ Len(moves') <= MaxMoves
    /\ UNCHANGED <<units, levels, alerts, order, wrote, copy, disturbed, edits, unsure>>

(* Mutant: the movement comes first, whatever is done. *)
WrittenFirst(shelf, n, w) == <<[shelf |-> shelf, quantity |-> n, by |-> w]>> \o moves

(* issue, adjust: the movement is written under the lock. *)
WrittenLast(shelf, n, w) == Append(moves, [shelf |-> shelf, quantity |-> n, by |-> w])

(* SELECT ... FOR UPDATE, the checks and what is written under the lock.  An *)
(* adjustment to the same quantity ends the call before it is evaluated.     *)
Lock(w) ==
    LET shelf == work[w].shelf
        new == CASE work[w].op = "receive" -> units[shelf] + work[w].n
                 [] work[w].op = "issue" -> units[shelf] - work[w].n
                 [] OTHER -> work[w].n
    IN  /\ pc[w] = "lock"
        /\ Free(shelf)
        /\ new >= 0 /\ new # units[shelf]
        /\ work' = [work EXCEPT ![w].new = new]
        /\ pc' = [pc EXCEPT ![w] = "judge"]
        /\ moves' = IF work[w].op = "receive" THEN moves
                    ELSE WrittenLast(shelf, new - units[shelf], w)
        /\ Len(moves') <= MaxMoves
        /\ UNCHANGED <<units, levels, alerts, order, wrote, copy, disturbed, edits, unsure>>

(* get_status(product, warehouse): the first item, and the levels of the   *)
(* product as the handler loaded it.                                       *)
Judge(w) ==
    /\ pc[w] = "judge"
    /\ work' = [work EXCEPT ![w].kind = StatusOf(work[w].levels, Seen(w, FirstShelf[Here(w)]))]
    /\ pc' = [pc EXCEPT ![w] = "measure"]
    /\ UNCHANGED <<shelfVars, levels, alerts, order, wrote, copy, disturbed, edits, unsure>>

(* current_qty, read again *)
Measure(w) ==
    /\ pc[w] = "measure"
    /\ work' = [work EXCEPT ![w].level = Seen(w, FirstShelf[Here(w)])]
    /\ pc' = [pc EXCEPT ![w] = "read"]
    /\ UNCHANGED <<shelfVars, levels, alerts, order, wrote, copy, disturbed, edits, unsure>>

(* The newest active alert, or all of them if there is nothing to alert. *)
ReadAlerts(w) ==
    LET active == ActiveIn(alerts, Here(w)) IN
    /\ pc[w] = "read"
    /\ work' = [work EXCEPT ![w].found =
          IF work[w].kind = "NORMAL" \/ active = {} THEN active ELSE {Newest(active)}]
    /\ pc' = [pc EXCEPT ![w] =
          IF work[w].kind = "NORMAL" /\ active = {} THEN "commit" ELSE "write"]
    /\ UNCHANGED <<shelfVars, levels, alerts, order, wrote, copy, disturbed, edits, unsure>>

Write(w, a, row) ==
    /\ wrote' = [wrote EXCEPT ![w][a] = row]
    /\ UNCHANGED <<shelfVars, levels, alerts, copy, disturbed, edits, unsure>>

InsertAlert(w) ==
    /\ pc[w] = "write" /\ work[w].found = {}
    /\ \E a \in Unused :
        /\ order' = Append(order, a)
        /\ Write(w, a, [site |-> Here(w), kind |-> work[w].kind, level |-> work[w].level,
                        threshold |-> Threshold(work[w].levels, work[w].kind), active |-> TRUE])
    /\ pc' = [pc EXCEPT ![w] = "commit"]
    /\ UNCHANGED work

(* Mutant: save() without update_fields, which writes the site back, too. *)
UpdateWholeAlert(w) ==
    /\ pc[w] = "write" /\ work[w].kind # "NORMAL"
    /\ \E a \in work[w].found :
        /\ alerts[a] # NoAlert /\ FreeAlert(a)
        /\ Write(w, a, [site |-> Here(w), kind |-> work[w].kind, level |-> work[w].level,
                        threshold |-> Threshold(work[w].levels, work[w].kind), active |-> TRUE])
    /\ pc' = [pc EXCEPT ![w] = "commit"]
    /\ UNCHANGED <<work, order>>

(* save(update_fields=["alert_type", "current_quantity", "threshold"]) *)
UpdateAlert(w) ==
    /\ pc[w] = "write" /\ work[w].kind # "NORMAL"
    /\ \E a \in work[w].found :
        /\ alerts[a] # NoAlert /\ FreeAlert(a)
        /\ Write(w, a, [alerts[a] EXCEPT !.kind = work[w].kind, !.level = work[w].level,
                        !.threshold = Threshold(work[w].levels, work[w].kind)])
    /\ pc' = [pc EXCEPT ![w] = "commit"]
    /\ UNCHANGED <<work, order>>

(* One turn of the loop over active_alerts: each has what it is left with  *)
(* once all of them are written, in whichever order.                       *)
Resolve(w) ==
    /\ pc[w] = "write" /\ work[w].kind = "NORMAL"
    /\ \E a \in work[w].found :
        /\ alerts[a] # NoAlert /\ FreeAlert(a)
        /\ Write(w, a, [alerts[a] EXCEPT !.active = FALSE, !.level = work[w].level])
        /\ work' = [work EXCEPT ![w].found = @ \ {a}]
        /\ pc' = [pc EXCEPT ![w] = IF work[w].found = {a} THEN "commit" ELSE "write"]
    /\ UNCHANGED order

EndSession(w) ==
    /\ pc' = [pc EXCEPT ![w] = "idle"]
    /\ work' = [work EXCEPT ![w] = NoWork]
    /\ wrote' = [wrote EXCEPT ![w] = NothingWritten]

(* Where its alerts are that a client moved between its two statements. *)
Stray(w) == {wrote[w][a].site : a \in Changed(w)} \ {Here(w)}

Commit(w) ==
    /\ pc[w] = "commit"
    /\ units' = [units EXCEPT ![work[w].shelf] = work[w].new]
    /\ moves' = [n \in DOMAIN moves |->
          IF moves[n].by = w THEN [moves[n] EXCEPT !.by = NoWork] ELSE moves[n]]
    /\ alerts' = Table(w)
    /\ disturbed' = (disturbed \cup Reading({Here(w)}, AfterJudging)
                                \cup Reading(Stray(w), AfterReading)) \ {w}
    /\ unsure' = Stray(w) \cup IF w \in disturbed THEN unsure \cup {Here(w)}
                                                 ELSE unsure \ {Here(w)}
    /\ EndSession(w)
    /\ UNCHANGED <<levels, order, copy, edits>>

(* A refusal, an alert deleted before it is written, a lost connection; or *)
(* an adjustment that changes nothing: the transaction leaves nothing.     *)
FailSession(w) ==
    /\ pc[w] # "idle"
    /\ moves' = Without(moves, {n \in DOMAIN moves : moves[n].by = w})
    /\ order' = Without(order, {n \in DOMAIN order :
                    order[n] \in Changed(w) /\ alerts[order[n]] = NoAlert})
    /\ disturbed' = disturbed \ {w}
    /\ EndSession(w)
    /\ UNCHANGED <<units, levels, alerts, copy, edits, unsure>>

-----------------------------------------------------------------------------
(* PATCH of a product: new levels take effect with the next evaluation. *)
SetLevels(p) ==
    LET sites == {s \in Site : ProductOf[s] = p} IN
    /\ edits < MaxEdits /\ edits' = edits + 1
    /\ \E l \in Levels \ {levels[p]} : levels' = [levels EXCEPT ![p] = l]
    /\ unsure' = unsure \cup sites
    /\ disturbed' = disturbed \cup Reading(sites, AfterJudging \cup {"lock", "judge"})
    /\ UNCHANGED <<shelfVars, alerts, order, pc, work, wrote, copy>>

(* What a client writes stays until the next evaluation. *)
ByHand(sites) ==
    /\ edits < MaxEdits /\ edits' = edits + 1
    /\ unsure' = unsure \cup sites
    /\ disturbed' = disturbed \cup Reading(sites, AfterReading)
    /\ UNCHANGED <<shelfVars, levels, pc, work, wrote>>

PostAlert ==
    \E a \in Unused, row \in NewAlert :
        /\ alerts' = [alerts EXCEPT ![a] = row] /\ order' = Append(order, a)
        /\ ByHand({row.site}) /\ UNCHANGED copy

LoadAlert(a) ==
    /\ copy = NoCopy /\ alerts[a] # NoAlert /\ edits < MaxEdits
    /\ copy' = [alert |-> a, row |-> alerts[a]]
    /\ UNCHANGED <<shelfVars, levels, alerts, order, session, edits, unsure>>

(* PATCH: any column may be replaced, product and warehouse too.  save()    *)
(* writes every column of the copy, and inserts the row again, created     *)
(* now, if it was deleted meanwhile.                                       *)
PatchedAlert(patch) ==
    [column \in DOMAIN copy.row |->
        IF column \in DOMAIN patch THEN patch[column] ELSE copy.row[column]]

PatchAlert ==
    /\ copy # NoCopy /\ FreeAlert(copy.alert)
    /\ \E patch \in AlertPatches :
        LET row == PatchedAlert(patch) IN
        /\ alerts' = [alerts EXCEPT ![copy.alert] = row]
        /\ ByHand({known.site : known \in {row, copy.row, alerts[copy.alert]} \ {NoAlert}})
    /\ order' = IF alerts[copy.alert] = NoAlert THEN Append(order, copy.alert) ELSE order
    /\ copy' = NoCopy

DeleteAlert(a) ==
    /\ alerts[a] # NoAlert /\ FreeAlert(a)
    /\ alerts' = [alerts EXCEPT ![a] = NoAlert]
    /\ order' = Without(order, {n \in DOMAIN order : order[n] = a})
    /\ ByHand({alerts[a].site}) /\ UNCHANGED copy

Evaluate(w) ==
    \/ Judge(w) \/ Measure(w) \/ ReadAlerts(w)
    \/ InsertAlert(w) \/ UpdateAlert(w) \/ Resolve(w)

AlertsNext ==
    \/ \E w \in Worker : Begin(w) \/ Lock(w) \/ Evaluate(w) \/ Commit(w) \/ FailSession(w)
    \/ \E p \in Article : SetLevels(p)
    \/ \E a \in Alert : LoadAlert(a) \/ DeleteAlert(a)
    \/ PostAlert \/ PatchAlert

AlertsSpec == AlertsInit /\ [][AlertsNext]_alertsVars
-----------------------------------------------------------------------------
(* "Evaluates stock thresholds [...] and updates/resolves StockAlert       *)
(* entries": once an evaluation that met no other write about its site is  *)
(* committed, the site's alerts tell the status of its first item: none is *)
(* active if it is normal; else the newest has its kind, its quantity and  *)
(* the level it crossed, until levels or alerts are changed by hand, or an *)
(* evaluation of another site ends with an alert that it read there and a  *)
(* client moved here.                                                      *)
AlertTells ==
    \A s \in Site \ unsure :
        LET q == units[FirstShelf[s]]
            l == levels[ProductOf[s]]
            active == ActiveIn(alerts, s)
        IN  IF StatusOf(l, q) = "NORMAL" THEN active = {}
            ELSE /\ active # {}
                 /\ alerts[Newest(active)].kind = StatusOf(l, q)
                 /\ alerts[Newest(active)].level = q
                 /\ alerts[Newest(active)].threshold = Threshold(l, StatusOf(l, q))
=============================================================================
