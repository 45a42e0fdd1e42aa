-------------------------- MODULE BillingCalendar --------------------------
(***************************************************************************)
(* The dates of a recurring invoice: next_billing_date in the Gregorian    *)
(* calendar, with month lengths and leap years.                            *)
(***************************************************************************)
EXTENDS Integers

Cycle == {"WEEKLY", "MONTHLY", "QUARTERLY", "SEMI_ANNUAL", "ANNUAL"}

(* date() accepts the years 1 to 9999; nothing here comes near the end. *)
Date == [year: Nat, month: 1..12, day: 1..31]

(* Dates compare by year, month and day. *)
Ordinal(d) == 372 * d.year + 31 * d.month + d.day
OnOrBefore(d, e) == Ordinal(d) <= Ordinal(e)
Before(d, e) == Ordinal(d) < Ordinal(e)

IsLeap(year) == year % 4 = 0 /\ (year % 100 # 0 \/ year % 400 = 0)

(* calendar.monthrange *)
MonthLength(year, month) ==
    IF month = 2 THEN (IF IsLeap(year) THEN 29 ELSE 28)
    ELSE IF month \in {4, 6, 9, 11} THEN 30 ELSE 31

OnCalendar(d) == d.day <= MonthLength(d.year, d.month)

Months(cycle) ==
    CASE cycle = "QUARTERLY" -> 3
      [] cycle = "SEMI_ANNUAL" -> 6
      [] cycle = "ANNUAL" -> 12
      [] OTHER -> 1

YearAfter(d, months) == d.year + (d.month + months - 1) \div 12
MonthAfter(d, months) == ((d.month + months - 1) % 12) + 1

(* The same day of a later month, or the month's last. *)
SameDay(d, months) ==
    LET last == MonthLength(YearAfter(d, months), MonthAfter(d, months)) IN
    [year |-> YearAfter(d, months), month |-> MonthAfter(d, months),
     day |-> IF d.day <= last THEN d.day ELSE last]

WeekAfter(d) ==
    IF d.day + 7 <= MonthLength(d.year, d.month) THEN [d EXCEPT !.day = @ + 7]
    ELSE [year |-> YearAfter(d, 1), month |-> MonthAfter(d, 1),
          day |-> d.day + 7 - MonthLength(d.year, d.month)]

NextBillingDate(d, cycle) ==
    IF cycle = "WEEKLY" THEN WeekAfter(d) ELSE SameDay(d, Months(cycle))
=============================================================================
