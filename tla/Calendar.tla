-------------------------------- MODULE Calendar -------------------------------
(***************************************************************************)
(* Days are numbered from a Monday.  When a follow-up is due               *)
(* (app/services/followup.py); holidays are ignored there too.             *)
(***************************************************************************)
EXTENDS Naturals, FiniteSets

Weekday(d) == d % 7
IsBusinessDay(d) == Weekday(d) < 5

(* The loop of add_business_days: the day moves on until it is a weekday.  *)
NextBusinessDay ==
    [d \in Nat |-> CHOOSE e \in d + 1 .. d + 3 :
                       IsBusinessDay(e) /\ \A x \in d + 1 .. e - 1 : ~ IsBusinessDay(x)]

\* Broken variant.
AddCalendarDays(start, days) == start + days

AddBusinessDays(start, days) ==
    LET after[n \in 0 .. days] == IF n = 0 THEN start ELSE NextBusinessDay[after[n - 1]]
    IN  after[days]

(* What adding business days means: how many of the days after start, up   *)
(* to end, are business days.                                              *)
BusinessDaysBetween(start, end) == Cardinality({d \in start + 1 .. end : IsBusinessDay(d)})
=============================================================================
