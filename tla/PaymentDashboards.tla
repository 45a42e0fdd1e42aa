------------------------- MODULE PaymentDashboards -------------------------
(***************************************************************************)
(* The dashboards over the same tables: that of the REST API, the payment  *)
(* center, the REST payments dashboard, the sales dashboard and that of    *)
(* the organization.  Each adds up payments and invoices in its own way:   *)
(* some know the newer payments only, some the older ones, some leave out  *)
(* what was reversed and some what was refunded as well.                   *)
(***************************************************************************)
EXTENDS Receivables, BillingCalendar

CONSTANTS
    DateOf,     \* the date of a day of the tables
    ReportDate  \* the dates on which somebody looks at a dashboard

ASSUME DashboardsAssumption ==
    /\ DateOf \in [Day -> Date] /\ \A d, e \in Day : d < e => Before(DateOf[d], DateOf[e])
    /\ ReportDate \subseteq Date
    /\ \A d \in ReportDate : OnCalendar(d)

-----------------------------------------------------------------------------
(* Periods. *)

FirstOfMonth(d) == [d EXCEPT !.day = 1]
FirstOfYear(d) == [d EXCEPT !.month = 1, !.day = 1]

(* d - timedelta(days=n): m months back, with the days those have. *)
DaysBefore(d, n) ==
    LET days == [k \in 1..n |-> MonthLength(YearAfter(d, -k), MonthAfter(d, -k))]
        day(m) == d.day - n + SumFunctionOnSet(days, 1..m)
        m == CHOOSE m \in 0..n : day(m) > 0 /\ \A k \in 0..m - 1 : day(k) <= 0
    IN  [year |-> YearAfter(d, -m), month |-> MonthAfter(d, -m), day |-> day(m)]

(* get_revenue_trend: the month i before that of today. *)
TrendMonth ==
    [today \in ReportDate |-> [i \in 0..5 |->
        IF today.month > i THEN [year |-> today.year, month |-> today.month - i]
        ELSE [year |-> today.year - 1, month |-> today.month - i + 12]]]

(* get_payment_analytics: the month of 30 * i days before today's. *)
CenterMonth ==
    [today \in ReportDate |-> [i \in 0..5 |->
        LET d == DaysBefore(FirstOfMonth(today), 30 * i) IN [year |-> d.year, month |-> d.month]]]

(* PaymentViewSet.dashboard: week_ago *)
WeekAgo == [today \in ReportDate |-> DaysBefore(today, 7)]

-----------------------------------------------------------------------------
(* Payments, and the sum of their amounts. *)

Newer == {x \in Entry : entry[x].kind = "payment" /\ Exists(entry[x])}
Older == {x \in Entry : entry[x].kind = "legacy" /\ Exists(entry[x])}
Collected == {x \in Newer : entry[x].status = "COMPLETED"}
Refunded == {x \in Newer : entry[x].status = "REFUNDED"}

(* Mutant: refunded payments are no revenue either. *)
NotUndone == {x \in Newer : entry[x].status \notin Undone}

(* DashboardAPIService: exclude(status="REVERSED") *)
Revenue == {x \in Newer : entry[x].status # "REVERSED"}

SumOfAmounts(rows) == SumFunctionOnSet([x \in Entry |-> entry[x].amount], rows)
DateOfRow(x) == DateOf[EntryDay[entry[x].kind]]
From(rows, date) == {x \in rows : OnOrBefore(date, DateOfRow(x))}
DatedOn(rows, date) == {x \in rows : DateOfRow(x) = date}
InMonth(rows, month) ==
    {x \in rows : DateOfRow(x).year = month.year /\ DateOfRow(x).month = month.month}

WithStatus(statuses) == {i \in Invoice : status[i] \in statuses}
Invoiced == SumOfTotals(Invoice \ WithStatus({"CANCELLED"}))

(* DashboardAPIService.get_summary *)
Summary(today) ==
    [today |-> SumOfAmounts(DatedOn(Revenue, today)),
     month |-> SumOfAmounts(From(Revenue, FirstOfMonth(today)))]
SummaryOutstanding == AtLeastZero(Invoiced - SumOfAmounts(Revenue))

(* DashboardAPIService.get_revenue_trend *)
RevenueTrend(today) ==
    [i \in 0..5 |-> SumOfAmounts(InMonth(Revenue, TrendMonth[today][i]))]

(* DashboardAPIService.get_receivables: drafts are receivables here. *)
Owing(from, to) ==
    SumOfBalances({i \in Invoice \ WithStatus({"PAID", "CANCELLED"}) :
                        DaysOverdue[i] >= from /\ DaysOverdue[i] <= to})

ApiReceivables ==
    LET longest == SumFunction(DaysOverdue) IN
    [current |-> Owing(0, 0), thirty |-> Owing(1, 30), sixty |-> Owing(31, 60),
     ninety |-> Owing(61, longest)]

(* PaymentSelectors.get_payment_center_stats *)
CenterStats(today) ==
    [today |-> SumOfAmounts(DatedOn(Collected, today)),
     month |-> SumOfAmounts(InMonth(Collected, today))]
RefundsTotal == SumOfAmounts(Refunded)

(* PaymentSelectors.get_payment_analytics: monthly_trend *)
CenterTrend(today) ==
    [i \in 0..5 |-> SumOfAmounts(InMonth(Collected, CenterMonth[today][i]))]

(* PaymentViewSet.dashboard *)
PaymentsDashboard(today) ==
    [today |-> SumOfAmounts(DatedOn(Collected, today)),
     week |-> SumOfAmounts(From(Collected, WeekAgo[today])),
     month |-> SumOfAmounts(From(Collected, FirstOfMonth(today))),
     year |-> SumOfAmounts(From(Collected, FirstOfYear(today)))]

(* sales.services.DashboardService.statistics: the older payments. *)
SalesOutstanding == AtLeastZero(Invoiced - SumOfAmounts(Older))

(* DashboardService.get_payment_kpi: the older payments, or what the paid  *)
(* invoices amount to if that is more.                                     *)
TotalReceived ==
    LET received == SumOfAmounts(Older)
        paid == SumOfTotals(WithStatus({"PAID"}))
    IN  IF received > paid THEN received ELSE paid

-----------------------------------------------------------------------------
(* The two figures called outstanding are what the statement ends at, but  *)
(* for what their dashboards do not know: the notes, and the payments of   *)
(* the other table; the REST one takes refunds for payments.  Neither      *)
(* shows less than nothing.                                                *)
OutstandingExplained ==
    LET owed == CustomerStatement(NoDay, NoDay).closing + Credits - Debits IN
    /\ SummaryOutstanding = AtLeastZero(owed + SumOfAmounts(Older) - RefundsTotal)
    /\ SalesOutstanding = AtLeastZero(owed + SumOfAmounts(Collected))

(* The aging of the API is that of the report with the limits moved by a   *)
(* bucket, and with the drafts.                                            *)
AgingExplained ==
    LET drafts(from, to) ==
            SumOfBalances(
                {i \in WithStatus({"DRAFT"}) : DaysOverdue[i] >= from /\ DaysOverdue[i] <= to})
        longest == SumFunction(DaysOverdue)
        api == ApiReceivables
        report == Aging
    IN  /\ api.current + api.thirty = report.current + drafts(0, 30)
        /\ api.sixty = report.thirty + drafts(31, 60)
        /\ api.ninety = report.sixty + report.ninety + drafts(61, longest)

(* The API's trend has every payment since the first of its months once, up *)
(* to the end of this month; the payment center, whose months are counted   *)
(* in steps of 30 days, shows in each month what the API shows less what    *)
(* was refunded, and shows the refunds in no period.  A longer period has   *)
(* no less than a shorter one, unless a payment is of less than nothing.    *)
TrendsExplained(today) ==
    LET api == RevenueTrend(today)
        center == CenterTrend(today)
        stats == CenterStats(today)
        payments == PaymentsDashboard(today)
        first == [year |-> TrendMonth[today][5].year, month |-> TrendMonth[today][5].month,
                  day |-> 1]
        thisMonthOrBefore == {x \in Revenue : OnOrBefore(DateOfRow(x), today)}
                                 \cup InMonth(Revenue, today)
    IN  /\ SumFunction(api) = SumOfAmounts(From(thisMonthOrBefore, first))
        /\ \A i, j \in 0..5 : CenterMonth[today][i] = TrendMonth[today][j] =>
              center[i] = api[j] - SumOfAmounts(InMonth(Refunded, TrendMonth[today][j]))
        /\ center[0] = stats.month
        /\ stats.today = Summary(today).today - SumOfAmounts(DatedOn(Refunded, today))
        /\ Summary(today).month =
              payments.month + SumOfAmounts(From(Refunded, FirstOfMonth(today)))
        /\ payments.today = stats.today
        /\ NoneNegative =>
              /\ stats.today <= payments.week
              /\ stats.month <= payments.month /\ payments.month <= payments.year

(* The organization's dashboard never claims to have received more than    *)
(* customers paid or were credited, once every status was recomputed: an   *)
(* invoice only counts with its total when that is what it was paid.       *)
ReceivedExplained ==
    unsettled = {} /\ NoneNegative =>
        TotalReceived <= SumFunction([i \in Invoice |-> Paid(entry, i)]) + Credits

(* The dashboards contradict each other, but only by what each of them     *)
(* leaves out: together with that they agree, whatever was paid, refunded, *)
(* reversed, credited and cancelled, on whichever day they are looked at.  *)
DashboardsAgree ==
    Quiet =>
        /\ AgingExplained /\ OutstandingExplained /\ ReceivedExplained
        /\ \A today \in ReportDate : TrendsExplained(today)
=============================================================================
