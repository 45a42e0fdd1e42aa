--------------------------- MODULE RevenueForecast ---------------------------
(***************************************************************************)
(* SubscriptionSelector.get_revenue_forecast: the dates on which an active *)
(* subscription is expected to be billed, for this month and some after    *)
(* it, computed for each month anew from next_invoice_date.                *)
(***************************************************************************)
EXTENDS Subscriptions

CONSTANT ForecastMonths

ASSUME ForecastAssumption == ForecastMonths \in Nat \ {0}

Month(ahead) == [year |-> YearAfter(today, ahead), month |-> MonthAfter(today, ahead)]

FirstOf(month) == [year |-> month.year, month |-> month.month, day |-> 1]
LastOf(month) ==
    [year |-> month.year, month |-> month.month, day |-> MonthLength(month.year, month.month)]

(* Mutant: the months are looked through as long as they last, but the     *)
(* last day is left out.                                                   *)
RenewalsBefore(row, month) ==
    LET from[d \in Date] ==
            IF ~Before(d, LastOf(month)) THEN {}
            ELSE (IF OnOrBefore(FirstOf(month), d) THEN {d} ELSE {})
                     \cup from[NextBillingDate(d, row.cycle)]
    IN from[row.next]

Renewals(row, month) ==
    LET from[d \in Date] ==
            IF ~OnOrBefore(d, LastOf(month)) THEN {}
            ELSE (IF OnOrBefore(FirstOf(month), d) THEN {d} ELSE {})
                     \cup from[NextBillingDate(d, row.cycle)]
    IN from[row.next]

Forecast(s) ==
    IF subscription[s].status # "ACTIVE" THEN {}
    ELSE UNION {Renewals(subscription[s], Month(ahead)) : ahead \in 0..ForecastMonths - 1}

(* Whoever bills a subscription that was in no other hands, takes the      *)
(* period that is billed out of the forecast, where it was unless it was   *)
(* overdue or beyond its months, and leaves every other expected date in   *)
(* it.                                                                     *)
ForecastIsBilled ==
    [][\A s \in Subscription \ contended :
          Len(billed'[s]) > Len(billed[s]) =>
              LET date == billed'[s][Len(billed'[s])].date IN
              /\ Forecast(s)' = Forecast(s) \ {date}
              /\ \/ date \in Forecast(s)
                 \/ Before(date, FirstOf(Month(0)))
                 \/ Before(LastOf(Month(ForecastMonths - 1)), date)]_subscriptionsVars
=============================================================================
