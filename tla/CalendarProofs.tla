---------------------------- MODULE CalendarProofs -----------------------------
(***************************************************************************)
(* Adding business days, for every day to start from and every number of   *)
(* days to wait.                                                           *)
(***************************************************************************)
EXTENDS Calendar, Inductions

(* From any day a business day is at most three days away. *)
LEMMA BusinessDayAhead ==
    ASSUME NEW d \in Nat
    PROVE  \E e \in d + 1 .. d + 3 :
             IsBusinessDay(e) /\ \A x \in d + 1 .. e - 1 : ~ IsBusinessDay(x)
<1>1. CASE IsBusinessDay(d + 1)
  BY <1>1
<1>2. CASE ~ IsBusinessDay(d + 1) /\ IsBusinessDay(d + 2)
  <2>1. \A x \in d + 1 .. (d + 2) - 1 : x = d + 1
    OBVIOUS
  <2> QED
    BY <1>2, <2>1
<1>3. CASE ~ IsBusinessDay(d + 1) /\ ~ IsBusinessDay(d + 2)
  <2>1. \A x \in d + 1 .. (d + 3) - 1 : x = d + 1 \/ x = d + 2
    OBVIOUS
  <2>2. IsBusinessDay(d + 3)
    BY <1>3 DEF IsBusinessDay, Weekday
  <2> QED
    BY <1>3, <2>1, <2>2
<1> QED
  BY <1>1, <1>2, <1>3

(* The next business day is one, and there is none before it. *)
LEMMA NextDay ==
    ASSUME NEW d \in Nat
    PROVE  LET e == NextBusinessDay[d]
           IN  /\ e \in Nat /\ e > d
               /\ IsBusinessDay(e)
               /\ \A x \in d + 1 .. e - 1 : ~ IsBusinessDay(x)
<1> DEFINE P(e) == IsBusinessDay(e) /\ \A x \in d + 1 .. e - 1 : ~ IsBusinessDay(x)
<1>1. NextBusinessDay[d] = CHOOSE e \in d + 1 .. d + 3 : P(e)
  BY DEF NextBusinessDay
<1>2. \E e \in d + 1 .. d + 3 : P(e)
  BY BusinessDayAhead
<1> HIDE DEF P
<1>3. NextBusinessDay[d] \in d + 1 .. d + 3 /\ P(NextBusinessDay[d])
  BY <1>1, <1>2
<1> QED
  BY <1>3 DEF P

Between(start, end) == {d \in start + 1 .. end : IsBusinessDay(d)}

(* Going on to the next business day passes exactly one more. *)
LEMMA OneMoreDay ==
    ASSUME NEW start \in Nat, NEW d \in Nat, d >= start
    PROVE  LET e == NextBusinessDay[d]
           IN  BusinessDaysBetween(start, e) = BusinessDaysBetween(start, d) + 1
<1> DEFINE e == NextBusinessDay[d]
<1>1. /\ e \in Nat /\ e > d /\ IsBusinessDay(e)
      /\ \A x \in d + 1 .. e - 1 : ~ IsBusinessDay(x)
  BY NextDay
<1> HIDE DEF e
<1>2. Between(start, e) = Between(start, d) \cup {e}
  <2>1. ASSUME NEW x \in Between(start, e) PROVE x \in Between(start, d) \cup {e}
    <3>1. x \in start + 1 .. e /\ IsBusinessDay(x)
      BY <2>1 DEF Between
    <3>2. x \notin d + 1 .. e - 1
      BY <1>1, <3>1
    <3>3. x = e \/ x \in start + 1 .. d
      BY <1>1, <3>1, <3>2
    <3> QED
      BY <3>1, <3>3 DEF Between
  <2>2. ASSUME NEW x \in Between(start, d) \cup {e} PROVE x \in Between(start, e)
    <3>1. x \in start + 1 .. e /\ IsBusinessDay(x)
      BY <1>1, <2>2 DEF Between
    <3> QED
      BY <3>1 DEF Between
  <2> QED
    BY <2>1, <2>2
<1>3. e \notin Between(start, d)
  BY <1>1 DEF Between
<1>4. IsFiniteSet(Between(start, d))
  <2>1. IsFiniteSet(start + 1 .. d)
    BY FS_Interval
  <2>2. Between(start, d) \subseteq start + 1 .. d
    BY DEF Between
  <2> QED
    BY <2>1, <2>2, FS_Subset
<1>5. Cardinality(Between(start, d) \cup {e}) = Cardinality(Between(start, d)) + 1
  BY <1>3, <1>4, FS_AddElement
<1> QED
  BY <1>2, <1>5 DEF BusinessDaysBetween, Between, e

LEMMA NoDays == \A start \in Nat : BusinessDaysBetween(start, start) = 0
<1> TAKE start \in Nat
<1>1. {d \in start + 1 .. start : IsBusinessDay(d)} = {}
  OBVIOUS
<1> QED
  BY <1>1, FS_EmptySet DEF BusinessDaysBetween

(* What n business days after a day is. *)
Due(start, n, day) ==
    /\ day \in Nat /\ day >= start
    /\ n > 0 => day > start /\ IsBusinessDay(day)
    /\ BusinessDaysBetween(start, day) = n

LEMMA DueNext ==
    ASSUME NEW start \in Nat, NEW n \in Nat, NEW day, Due(start, n, day)
    PROVE  Due(start, n + 1, NextBusinessDay[day])
BY NextDay, OneMoreDay DEF Due

(* What is reached by going on day by day. *)
OnFrom(start, days, f) ==
    f = [n \in 0 .. days |-> IF n = 0 THEN start ELSE NextBusinessDay[f[n - 1]]]

LEMMA OnFromValues ==
    ASSUME NEW start, NEW days \in Nat, NEW f, OnFrom(start, days, f)
    PROVE  /\ f[0] = start
           /\ \A n \in Nat : n + 1 <= days => f[n + 1] = NextBusinessDay[f[n]]
<1>1. \A n \in 0 .. days : f[n] = IF n = 0 THEN start ELSE NextBusinessDay[f[n - 1]]
  BY DEF OnFrom
<1>2. ASSUME NEW n \in Nat, n + 1 <= days PROVE f[n + 1] = NextBusinessDay[f[n]]
  <2>1. n + 1 \in 0 .. days /\ n + 1 # 0 /\ (n + 1) - 1 = n
    BY <1>2
  <2> QED
    BY <1>1, <2>1
<1> QED
  BY <1>1, <1>2

LEMMA Chain ==
    ASSUME NEW start \in Nat, NEW days \in Nat, NEW f, OnFrom(start, days, f)
    PROVE  Due(start, days, f[days])
<1> DEFINE D == {n \in Nat : n <= days => Due(start, n, f[n])}
<1>1. 0 \in D
  BY NoDays, OnFromValues DEF Due
<1>2. ASSUME NEW n \in Nat, n \in D PROVE n + 1 \in D
  <2> SUFFICES ASSUME n + 1 <= days PROVE Due(start, n + 1, f[n + 1])
    OBVIOUS
  <2>1. Due(start, n, f[n])
    BY <1>2
  <2>2. f[n + 1] = NextBusinessDay[f[n]]
    BY OnFromValues
  <2> QED
    BY <2>1, <2>2, DueNext
<1>3. \A n \in Nat : n \in D
  <2> HIDE DEF D
  <2> QED
    BY <1>1, <1>2, Induction
<1> QED
  BY <1>3

(* The recursion of AddBusinessDays has a solution: one for one more day   *)
(* goes on from one for a day less.                                        *)
LEMMA ChainExists ==
    ASSUME NEW start \in Nat
    PROVE  \A days \in Nat : \E f : OnFrom(start, days, f)
<1> DEFINE D == {n \in Nat : \E f : OnFrom(start, n, f)}
<1>1. 0 \in D
  <2> DEFINE f == [n \in 0 .. 0 |-> start]
  <2>1. f = [n \in 0 .. 0 |-> IF n = 0 THEN start ELSE NextBusinessDay[f[n - 1]]]
    <3>1. \A n \in 0 .. 0 : n = 0
      OBVIOUS
    <3>2. \A n \in 0 .. 0 : f[n] = IF n = 0 THEN start ELSE NextBusinessDay[f[n - 1]]
      BY <3>1
    <3> QED
      BY <3>2
  <2> QED
    BY <2>1 DEF OnFrom
<1>2. ASSUME NEW n \in Nat, n \in D PROVE n + 1 \in D
  <2>1. PICK f : OnFrom(start, n, f)
    BY <1>2
  <2> DEFINE g == [m \in 0 .. n + 1 |-> IF m = n + 1 THEN NextBusinessDay[f[n]] ELSE f[m]]
  <2>2. \A m \in 0 .. n + 1 : g[m] = IF m = n + 1 THEN NextBusinessDay[f[n]] ELSE f[m]
    OBVIOUS
  <2>3. \A m \in 0 .. n : f[m] = IF m = 0 THEN start ELSE NextBusinessDay[f[m - 1]]
    BY <2>1 DEF OnFrom
  <2>4. ASSUME NEW m \in 0 .. n + 1
        PROVE  g[m] = IF m = 0 THEN start ELSE NextBusinessDay[g[m - 1]]
    <3>1. m # 0 => m - 1 \in 0 .. n + 1 /\ m - 1 # n + 1
      OBVIOUS
    <3>2. m # 0 => g[m - 1] = f[m - 1]
      BY <2>2, <3>1
    <3>3. CASE m = n + 1
      <4>1. m # 0 /\ m - 1 = n
        BY <3>3
      <4> QED
        BY <2>2, <3>2, <3>3, <4>1
    <3>4. CASE m # n + 1
      <4>1. m \in 0 .. n
        BY <3>4
      <4> HIDE DEF g
      <4> QED
        BY <2>2, <2>3, <3>2, <3>4, <4>1
    <3> QED
      BY <3>3, <3>4
  <2>5. g = [m \in 0 .. n + 1 |-> IF m = 0 THEN start ELSE NextBusinessDay[g[m - 1]]]
    <3>1. g = [m \in 0 .. n + 1 |-> g[m]]
      OBVIOUS
    <3> HIDE DEF g
    <3> QED
      BY <2>4, <3>1
  <2> HIDE DEF g
  <2> QED
    BY <2>5 DEF OnFrom
<1>3. \A n \in Nat : n \in D
  <2> HIDE DEF D
  <2> QED
    BY <1>1, <1>2, Induction
<1> QED
  BY <1>3

(* Any number of business days after any day: a business day, with as many *)
(* of them passed, weekends not counted (followup.py add_business_days).   *)
THEOREM BusinessDaysAdded ==
    ASSUME NEW start \in Nat, NEW days \in Nat \ {0}
    PROVE  /\ AddBusinessDays(start, days) \in Nat
           /\ AddBusinessDays(start, days) > start
           /\ IsBusinessDay(AddBusinessDays(start, days))
           /\ BusinessDaysBetween(start, AddBusinessDays(start, days)) = days
<1> DEFINE after == CHOOSE f : OnFrom(start, days, f)
<1>1. OnFrom(start, days, after)
  BY ChainExists
<1>2. AddBusinessDays(start, days) = after[days]
  BY DEF AddBusinessDays, OnFrom
<1> HIDE DEF after
<1>3. Due(start, days, after[days])
  BY <1>1, Chain
<1> QED
  BY <1>2, <1>3 DEF Due
=============================================================================
