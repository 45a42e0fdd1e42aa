---------------------------- MODULE Subscriptions ----------------------------
(***************************************************************************)
(* Recurring invoices: the command that bills what is due, next to         *)
(* the users who create, bill, pause, resume, cancel, patch and delete     *)
(* subscriptions through the web and the REST routes.                      *)
(*                                                                         *)
(* Both work on copies: the command reads every subscription that is due   *)
(* in one query and bills them one after another, a request reads its      *)
(* subscription before the service begins.  generate_invoice advances the  *)
(* next_invoice_date of the copy; a PATCH writes every column of it back.  *)
(*                                                                         *)
(* An invoice gets the number INV-<year>-<count + 1>, which counts the     *)
(* invoices of the organization but has to be new among all of them, those *)
(* whose number a client of the REST API chose included.                   *)
(***************************************************************************)
EXTENDS RowCopies, BillingCalendar, Sequences, FiniteSets, Functions

CONSTANTS
    Subscription,    \* ids of subscriptions
    Organization,    \* their organizations
    OwnerOf,
    Days,            \* the days the command and the users can live on
    FirstDay,
    NewRows,         \* what clients create
    Patches,         \* the columns they write by PATCH, with their values
    ClientNumbers,   \* the INV numbers clients give to invoices themselves
    MaxBilled,       \* bound: periods after which users only watch
    MaxInvoices      \* bound: an organization's invoices before users make no more

Status == {"DRAFT", "ACTIVE", "PAUSED", "CANCELLED", "EXPIRED"}

(* items: whether there are SubscriptionItems to bill. *)
Row == [status: Status \cup Absent, active: BOOLEAN, auto: BOOLEAN, cycle: Cycle,
        start: Date, next: Date, items: BOOLEAN]

Copy == [on: Subscription, row: Row]
Bill == [date: Date, cycle: Cycle]

NoRow == [status |-> "unborn", active |-> FALSE, auto |-> FALSE, cycle |-> "MONTHLY",
          start |-> FirstDay, next |-> FirstDay, items |-> FALSE]

ASSUME SubscriptionsAssumption ==
    /\ OwnerOf \in [Subscription -> Organization]
    /\ Days \subseteq Date /\ FirstDay \in Days /\ \A d \in Days : OnCalendar(d)
    /\ NewRows \subseteq Row
    /\ \A row \in NewRows :
          row.status = "ACTIVE" /\ row.next = row.start /\ OnCalendar(row.start)
    /\ \A patch \in Patches :
          /\ DOMAIN patch \subseteq {"status", "active", "auto", "cycle", "start"}
          /\ \A column \in DOMAIN patch :
                patch[column] \in CASE column = "status" -> Status
                                    [] column = "cycle" -> Cycle
                                    [] column = "start" -> Date
                                    [] OTHER -> BOOLEAN
    /\ ClientNumbers \subseteq [year : Nat, number : Nat]
    /\ MaxBilled \in Nat /\ MaxInvoices \in Nat /\ Idle \notin Copy

VARIABLES
    today,
    subscription,   \* the rows of Subscription
    began,          \* the start date each was created with
    billed,         \* the periods each was billed for, in order
    command,        \* the copies the running command still has to bill
    numbered,       \* the invoices with an INV number
    others,         \* how many others (ANV) an organization has
    irregular       \* the organizations that deleted an invoice or chose a number
subscriptionsVars ==
    <<today, subscription, began, billed, command, request, contended, numbered, others,
      irregular>>
invoices == <<numbered, others, irregular>>

-----------------------------------------------------------------------------
Exists(s) == subscription[s].status \notin Absent

(* Subscription.objects.filter(...) of the command. *)
IsDue(row) ==
    /\ row.status = "ACTIVE" /\ row.active /\ row.auto
    /\ OnOrBefore(row.next, today)

(* Mutant: the invoices of all organizations. *)
CountAll(o) == Cardinality(numbered) + SumFunction(others)

Count(o) == others[o] + Cardinality({i \in numbered : i.organization = o})

NextNumber(o) == [organization |-> o, year |-> today.year, number |-> Count(o) + 1]

(* invoice_no is unique, whichever organization the invoice belongs to. *)
WithNumber(n) == {i \in numbered : i.year = n.year /\ i.number = n.number}
SameNumber(o) == WithNumber(NextNumber(o))
IsTaken(o) == SameNumber(o) # {}

InHands(s) == (\E r \in Request : Working(r) /\ Of(r) = s) \/ (\E c \in command : c.on = s)

(* save(): every column of the copy; a row that is gone is inserted again, *)
(* its items are not.                                                      *)
Save(s, row) ==
    subscription' = [subscription EXCEPT ![s] = [row EXCEPT !.items = subscription[s].items]]

-----------------------------------------------------------------------------
SubscriptionsInit ==
    /\ today = FirstDay
    /\ subscription = [s \in Subscription |-> NoRow]
    /\ began = [s \in Subscription |-> FirstDay]
    /\ billed = [s \in Subscription |-> <<>>]
    /\ command = {}
    /\ request = [r \in Request |-> Idle]
    /\ contended = {} /\ numbered = {} /\ irregular = {}
    /\ others = [o \in Organization |-> 0]

Tick ==
    /\ today' \in {d \in Days : Before(today, d)}
    /\ UNCHANGED <<subscription, began, billed, command, request, contended, invoices>>

(* create_subscription: the first invoice is due on the start date. *)
Insert(s, row) ==
    /\ subscription[s].status = "unborn"
    /\ subscription' = [subscription EXCEPT ![s] = row]
    /\ began' = [began EXCEPT ![s] = row.start]

(* subscription_create and SubscriptionViewSet.create *)
Create(s) ==
    /\ \E row \in NewRows : Insert(s, row)
    /\ UNCHANGED <<today, billed, command, request, contended, invoices>>

Load(r) ==
    /\ ~Working(r)
    /\ \E s \in Subscription :
        /\ Exists(s)
        /\ request' = [request EXCEPT ![r] = [on |-> s, row |-> subscription[s]]]
        /\ contended' = contended \cup {p \in {s} : InHands(p)}
    /\ UNCHANGED <<today, subscription, began, billed, command, invoices>>

-----------------------------------------------------------------------------
(* What generate_invoice refuses, and what the database does. *)
CanBill(c) ==
    /\ c.row.status = "ACTIVE" /\ c.row.items
    /\ ~IsTaken(OwnerOf[c.on])
    /\ Exists(c.on)

(* Mutant: the next period is counted from the day of the invoice. *)
GenerateToday(c) ==
    /\ CanBill(c)
    /\ numbered' = numbered \cup {NextNumber(OwnerOf[c.on])}
    /\ billed' = [billed EXCEPT ![c.on] = Append(@, [date |-> c.row.next, cycle |-> c.row.cycle])]
    /\ subscription' = [subscription EXCEPT ![c.on].next = NextBillingDate(today, c.row.cycle)]
    /\ UNCHANGED <<others, irregular>>

(* generate_invoice *)
Generate(c) ==
    /\ CanBill(c)
    /\ numbered' = numbered \cup {NextNumber(OwnerOf[c.on])}
    /\ billed' = [billed EXCEPT ![c.on] = Append(@, [date |-> c.row.next, cycle |-> c.row.cycle])]
    /\ subscription' = [subscription EXCEPT ![c.on].next = NextBillingDate(c.row.next, c.row.cycle)]
    /\ UNCHANGED <<others, irregular>>

Copies(S) == {[on |-> s, row |-> subscription[s]] : s \in S}

(* Mutant: what falls due today waits for tomorrow. *)
RunCommandLate ==
    LET due == {s \in Subscription : IsDue(subscription[s]) /\ subscription[s].next # today} IN
    /\ command = {} /\ command' = Copies(due)
    /\ contended' = contended \cup {s \in due : InHands(s)}
    /\ UNCHANGED <<today, subscription, began, billed, request, invoices>>

(* generate_recurring_invoices: one query, then one invoice after another. *)
RunCommand ==
    LET due == {s \in Subscription : IsDue(subscription[s])} IN
    /\ command = {} /\ command' = Copies(due)
    /\ contended' = contended \cup {s \in due : InHands(s)}
    /\ UNCHANGED <<today, subscription, began, billed, request, invoices>>

(* What generate_invoice raises is caught, and the next one is billed. *)
CommandBills(s) ==
    \E c \in command :
        /\ c.on = s /\ command' = command \ {c}
        /\ \/ Generate(c)
           \/ ~CanBill(c) /\ UNCHANGED <<subscription, billed, invoices>>
        /\ UNCHANGED <<today, began, request, contended>>

CommandDies ==
    /\ command # {} /\ command' = {}
    /\ UNCHANGED <<today, subscription, began, billed, request, contended, invoices>>

-----------------------------------------------------------------------------
(* The routes of a user.  generate_invoice asks for the status, not for    *)
(* the date.                                                               *)
GenerateByHand(r) ==
    /\ Working(r) /\ Len(billed[Of(r)]) < MaxBilled
    /\ Generate(request[r])
    /\ Done(r)
    /\ UNCHANGED <<today, began, command, contended>>

(* pause, resume and cancel save what they change, whatever the status was; *)
(* only cancel touches is_active.                                           *)
SetStatus(r, status) ==
    /\ Working(r) /\ Exists(Of(r))
    /\ subscription' = [subscription EXCEPT ![Of(r)].status = status,
                                            ![Of(r)].active = @ /\ status # "CANCELLED"]
    /\ Done(r)
    /\ UNCHANGED <<today, began, billed, command, contended, invoices>>

Pause(r) == SetStatus(r, "PAUSED")
Resume(r) == SetStatus(r, "ACTIVE")
Cancel(r) == SetStatus(r, "CANCELLED")

(* SubscriptionViewSet.partial_update: status, is_active and start_date    *)
(* are writable, next_invoice_date is not, and is saved as it was loaded.  *)
Patch(r) ==
    /\ Working(r) /\ Len(billed[Of(r)]) < MaxBilled
    /\ \E patch \in Patches : Save(Of(r), Patched(Loaded(r), patch))
    /\ Done(r)
    /\ UNCHANGED <<today, began, billed, command, contended, invoices>>

Destroy(r) ==
    /\ Working(r)
    /\ subscription' = [subscription EXCEPT ![Of(r)] = [NoRow EXCEPT !.status = "deleted"]]
    /\ Done(r)
    /\ UNCHANGED <<today, began, billed, command, contended, invoices>>

Refuse(r) ==
    /\ Working(r)
    /\ Done(r)
    /\ UNCHANGED <<today, subscription, began, billed, command, contended, invoices>>

-----------------------------------------------------------------------------
(* The other invoices.  Those the REST API creates without a number, and   *)
(* its duplicates, are numbered as generate_invoice does; the form's get   *)
(* ANV numbers, and a client's number may be any other text as well.       *)
InvoiceByApi(o) ==
    /\ Count(o) < MaxInvoices /\ ~IsTaken(o)
    /\ numbered' = numbered \cup {NextNumber(o)}
    /\ UNCHANGED <<today, subscription, began, billed, command, request, contended, others,
                   irregular>>

InvoiceByForm(o) ==
    /\ Count(o) < MaxInvoices
    /\ others' = [others EXCEPT ![o] = @ + 1]
    /\ UNCHANGED <<today, subscription, began, billed, command, request, contended, numbered,
                   irregular>>

(* invoice_no is writable, and has to be new.  An invoice that is to be    *)
(* saved without one gets an ANV number.                                   *)
Chosen(o) ==
    {[organization |-> o, year |-> n.year, number |-> n.number] :
        n \in {n \in ClientNumbers : WithNumber(n) = {}}}

InvoiceWithNumber(o) ==
    /\ Count(o) < MaxInvoices
    /\ \E i \in Chosen(o) : numbered' = numbered \cup {i}
    /\ irregular' = irregular \cup {o}
    /\ UNCHANGED <<today, subscription, began, billed, command, request, contended, others>>

ChangeNumber(o) ==
    /\ \/ \E i \in numbered : \E j \in Chosen(o) :
            /\ i.organization = o
            /\ numbered' = (numbered \ {i}) \cup {j}
            /\ UNCHANGED others
       \/ \E i \in numbered :
            /\ i.organization = o
            /\ numbered' = numbered \ {i}
            /\ others' = [others EXCEPT ![o] = @ + 1]
       \/ \E j \in Chosen(o) :
            /\ others[o] > 0
            /\ numbered' = numbered \cup {j}
            /\ others' = [others EXCEPT ![o] = @ - 1]
    /\ irregular' = irregular \cup {o}
    /\ UNCHANGED <<today, subscription, began, billed, command, request, contended>>

DeleteInvoice(o) ==
    /\ \/ \E i \in numbered : i.organization = o /\ numbered' = numbered \ {i} /\ UNCHANGED others
       \/ others[o] > 0 /\ others' = [others EXCEPT ![o] = @ - 1] /\ UNCHANGED numbered
    /\ irregular' = irregular \cup {o}
    /\ UNCHANGED <<today, subscription, began, billed, command, request, contended>>

OtherInvoice(o) ==
    \/ InvoiceByApi(o) \/ InvoiceByForm(o)
    \/ InvoiceWithNumber(o) \/ ChangeNumber(o) \/ DeleteInvoice(o)

Handle(r) ==
    \/ Load(r) \/ GenerateByHand(r) \/ Pause(r) \/ Resume(r) \/ Cancel(r)
    \/ Patch(r) \/ Destroy(r) \/ Refuse(r)

SubscriptionsNext ==
    \/ Tick
    \/ \E s \in Subscription : Create(s)
    \/ \E r \in Request : Handle(r)
    \/ RunCommand \/ CommandDies \/ \E s \in Subscription : CommandBills(s)
    \/ \E o \in Organization : OtherInvoice(o)

SubscriptionsSpec == SubscriptionsInit /\ [][SubscriptionsNext]_subscriptionsVars

(* The command is run again and again, and not every run dies before it    *)
(* comes to a subscription.                                                *)
FairSubscriptions ==
    /\ SubscriptionsSpec
    /\ WF_subscriptionsVars(RunCommand)
    /\ \A s \in Subscription : SF_subscriptionsVars(CommandBills(s))
-----------------------------------------------------------------------------
(* Every period is billed once and none is left out: a subscription that   *)
(* is never in two hands at once is billed from the start date it was      *)
(* created with on, each bill a cycle after the one before, through        *)
(* pauses, cancellations and changes of the cycle, and next_invoice_date   *)
(* is where this series goes on.  A PATCH of start_date moves no period.   *)
EveryPeriodOnce ==
    \A s \in Subscription \ contended :
        LET bills == billed[s]
            DueAfter(n) == IF n = 0 THEN began[s]
                           ELSE NextBillingDate(bills[n].date, bills[n].cycle)
        IN Exists(s) =>
            /\ \A n \in DOMAIN bills : bills[n].date = DueAfter(n - 1)
            /\ subscription[s].next = DueAfter(Len(bills))

(* A number an organization gives away is new to it, whether the form, the *)
(* REST API or the command made its invoices, as long as it deleted none   *)
(* and its clients chose and changed no number: then only another          *)
(* organization can have taken it.                                         *)
NumbersAreNew ==
    \A o \in Organization \ irregular : \A i \in SameNumber(o) : i.organization # o

(* The command's help, "Generates recurring invoices for subscriptions due *)
(* today or past due": what is due is billed, period after period, unless  *)
(* it is paused or changed, or its invoice's number is taken, although     *)
(* runs die, fail halfway and meet users at work.                          *)
EveryDueIsBilled ==
    \A s \in Subscription :
        (IsDue(subscription[s]) /\ subscription[s].items) ~>
            (~IsDue(subscription[s]) \/ IsTaken(OwnerOf[s]))

(* The same without an excuse: no number may keep a period from being      *)
(* billed.                                                                 *)
NothingStaysDue ==
    \A s \in Subscription :
        (IsDue(subscription[s]) /\ subscription[s].items) ~> ~IsDue(subscription[s])
=============================================================================
