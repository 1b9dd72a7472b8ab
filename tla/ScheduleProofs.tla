--------------------------- MODULE ScheduleProofs ---------------------------
(***************************************************************************)
(* What holds of a scheduled bill for any number of tabs, any plans and     *)
(* edits and any number of calls.  The calendar comes first: its months,    *)
(* its days, their count and the way back from it.  A schedule is stepped   *)
(* forward by every arm of Step, so that what was skipped lies behind; and  *)
(* the step is the next date of the cadence as the forecast computes it.    *)
(***************************************************************************)
EXTENDS Schedule, TLAPS, FiniteSetTheorems, WellFoundedInduction

-----------------------------------------------------------------------------
(* Postings *)

(* Every posting bears the key of its occurrence, and a key is one posting: *)
(* the check of the key refuses another payload and replays the same one.   *)
Keyed ==
  /\ \A p \in postings : p = [key |-> Key(p.due), due |-> p.due, amount |-> p.amount]
  /\ \A p, q \in postings : p.due = q.due => p.amount = q.amount

LEMMA KeyedNext == Keyed /\ [Next]_vars => Keyed'
<1> SUFFICES ASSUME Keyed, [Next]_vars
             PROVE  Keyed'
    OBVIOUS
<1>1. CASE postings' = postings
      BY <1>1 DEF Keyed, Key
<1>2. ASSUME NEW t \in Tabs, Enter(t), postings' # postings
      PROVE  Keyed'
  <2> DEFINE from == shown[t].due
             new == [key |-> Key(from), due |-> from, amount |-> row.amount]
  <2>1. postings' = postings \cup {new} /\ ~ Conflicts(from)
        BY <1>2 DEF Enter
  <2>2. new = [key |-> Key(new.due), due |-> new.due, amount |-> new.amount]
        OBVIOUS
  (* A posting of this occurrence has its key, so the amount is the same.   *)
  <2>3. ASSUME NEW p \in postings, p.due = new.due
        PROVE  p.amount = new.amount
    <3>1. p.key = Key(p.due)
          BY DEF Keyed
    <3> QED
        BY <2>1, <2>3, <3>1 DEF Conflicts
  <2> HIDE DEF new
  <2>4. \A p \in postings' : p = [key |-> Key(p.due), due |-> p.due, amount |-> p.amount]
        BY <2>1, <2>2 DEF Keyed
  <2>5. \A p, q \in postings' : p.due = q.due => p.amount = q.amount
        BY <2>1, <2>3 DEF Keyed
  <2> QED
      BY <2>4, <2>5 DEF Keyed, Key
<1> QED
    BY <1>1, <1>2 DEF Next, Skip, SetStatus, Save, Fetch, vars

(* Whatever the tabs show and repeat, an occurrence has one posting: the    *)
(* economic key of keel_schedule_enter is enough, without the fence on the  *)
(* due date and whatever an edit or a resumption does to it.                *)
THEOREM OnePosting == Spec => []PostedOnce
<1>1. Init => Keyed
      BY DEF Init, Keyed
<1>2. Keyed => PostedOnce
  <2> SUFFICES ASSUME Keyed, NEW p \in postings, NEW q \in postings, p.due = q.due
               PROVE  p = q
      BY DEF PostedOnce
  <2>1. /\ p = [key |-> Key(p.due), due |-> p.due, amount |-> p.amount]
        /\ q = [key |-> Key(q.due), due |-> q.due, amount |-> q.amount]
        /\ p.amount = q.amount
        BY DEF Keyed
  <2> QED
      BY <2>1
<1> QED
    BY <1>1, <1>2, KeyedNext, PTL DEF Spec

-----------------------------------------------------------------------------
(* Months *)

(* A day of any year: the procedures of the database know no last one.      *)
Dated(d) == /\ d \in [year : Nat, month : 1 .. 12, day : 1 .. 31]
            /\ d.day <= DaysInMonth(d.year, d.month)

LEMMA DaysBound ==
  ASSUME NEW y, NEW m
  PROVE  DaysInMonth(y, m) \in 28 .. 31
  BY DEF DaysInMonth

LEMMA LaterMonth ==
  ASSUME NEW a, NEW b, Dated(a), Dated(b), MonthIndex(a) < MonthIndex(b)
  PROVE  Before(a, b)
<1>1. /\ a.year \in Nat /\ a.month \in 1 .. 12
      /\ b.year \in Nat /\ b.month \in 1 .. 12
      BY DEF Dated
<1> QED
    BY <1>1 DEF MonthIndex, Before

LEMMA MonthIndexNat ==
  ASSUME NEW d, Dated(d)
  PROVE  MonthIndex(d) \in Nat
  BY DEF Dated, MonthIndex

LEMMA InMonthDated ==
  ASSUME NEW i \in Nat, NEW a \in 1 .. 31
  PROVE  Dated(InMonth(i, a)) /\ MonthIndex(InMonth(i, a)) = i
<1> DEFINE y == i \div 12
           m == (i % 12) + 1
           last == DaysInMonth(y, m)
           day == IF a <= last THEN a ELSE last
           d == [year |-> y, month |-> m, day |-> day]
<1>1. y \in Nat /\ m \in 1 .. 12 /\ i = y * 12 + m - 1
      OBVIOUS
<1>2. last \in 28 .. 31
      BY DaysBound
<1>3. day \in 1 .. 31 /\ day <= last
      BY <1>2
<1>4. d.year = y /\ d.month = m /\ d.day = day /\ d \in [year : Nat, month : 1 .. 12, day : 1 .. 31]
      BY <1>1, <1>3
<1>5. InMonth(i, a) = d
      BY Zenon DEF InMonth, Date
<1> HIDE DEF y, m, day, d
<1> QED
    BY <1>1, <1>3, <1>4, <1>5 DEF Dated, MonthIndex

LEMMA FirstDay ==
  ASSUME NEW i
  PROVE  InMonth(i, 1).day = 1
<1> DEFINE l == DaysInMonth(i \div 12, (i % 12) + 1)
<1>1. l \in 28 .. 31
      BY DaysBound
<1>2. InMonth(i, 1) = Date(i \div 12, (i % 12) + 1, IF 1 <= l THEN 1 ELSE l)
      BY Zenon DEF InMonth
<1> HIDE DEF l
<1> QED
    BY <1>1, <1>2 DEF Date

LEMMA NotBeforeItself ==
  ASSUME NEW d, Dated(d)
  PROVE  ~ Before(d, d)
  BY DEF Dated, Before

LEMMA BeforeTransitive ==
  ASSUME NEW a, NEW b, NEW c, Dated(a), Dated(b), Dated(c), Before(a, b), Before(b, c)
  PROVE  Before(a, c)
<1>1. /\ a.year \in Nat /\ a.month \in Nat /\ a.day \in Nat
      /\ b.year \in Nat /\ b.month \in Nat /\ b.day \in Nat
      /\ c.year \in Nat /\ c.month \in Nat /\ c.day \in Nat
      BY DEF Dated
<1> QED
    BY <1>1 DEF Before

LEMMA BeforeTotal ==
  ASSUME NEW a, NEW b, Dated(a), Dated(b), ~ Before(a, b), ~ Before(b, a)
  PROVE  a = b
<1>1. /\ a.year \in Nat /\ a.month \in Nat /\ a.day \in Nat
      /\ b.year \in Nat /\ b.month \in Nat /\ b.day \in Nat
      BY DEF Dated
<1>2. a.year = b.year /\ a.month = b.month /\ a.day = b.day
      BY <1>1 DEF Before
<1> QED
    BY <1>2 DEF Dated

(* Natural numbers are well founded: the intervals up to them are, by       *)
(* inclusion.                                                               *)
LEMMA LeastNat ==
  ASSUME NEW T, T \subseteq Nat, T # {}
  PROVE  \E n \in T : \A k \in T : n <= k
<1>1. PICK t \in T : TRUE
      OBVIOUS
<1> DEFINE S == 0 .. t
           U == {0 .. k : k \in {j \in T : j <= t}}
           R == StrictSubsetOrdering(S)
           F == FiniteSubsetsOf(S)
<1>2. t \in Nat /\ IsFiniteSet(S)
      BY <1>1, FS_Interval
<1>3. IsWellFoundedOn(R, F)
      BY FS_StrictSubsetOrderingWellFounded
<1>4. F = SUBSET S
      BY <1>2, FS_FiniteSubsetsOfFinite
<1>5. U \subseteq F /\ U # {}
  <2>1. \A k \in Nat : k <= t => 0 .. k \subseteq 0 .. t
        BY <1>2
  <2>2. 0 .. t \in U
        BY <1>1, <1>2
  <2> QED
      BY <1>4, <2>1, <2>2
<1>6. PICK x \in U : \A y \in U : <<y, x>> \notin R
  <2> HIDE DEF R, F, U
  <2> QED
      BY <1>3, <1>5, WFMin, Zenon
<1>7. PICK n \in T : n <= t /\ x = 0 .. n
      BY <1>6
<1>8. ASSUME NEW k \in T, k < n
      PROVE  FALSE
  <2>1. k \in Nat /\ n \in Nat /\ k <= t
        BY <1>2, <1>7, <1>8
  <2>2. 0 .. k \in U
        BY <2>1
  <2>3. 0 .. k \subseteq 0 .. n /\ 0 .. n \subseteq 0 .. t /\ 0 .. k \subseteq 0 .. t
        BY <2>1, <1>2, <1>7, <1>8
  <2>4. n \in 0 .. n /\ n \notin 0 .. k
        BY <2>1, <1>8
  <2>5. 0 .. k # 0 .. n
        BY <2>4
  <2>6. <<0 .. k, 0 .. n>> \in R
        BY <2>3, <2>5 DEF StrictSubsetOrdering
  <2> QED
      BY <1>6, <1>7, <2>2, <2>6
<1>9. \A k \in T : k \in Nat /\ n \in Nat
      OBVIOUS
<1> QED
    BY <1>8, <1>9

-----------------------------------------------------------------------------
(* Days *)

LEMMA NextDayDated ==
  ASSUME NEW d, Dated(d)
  PROVE  /\ Dated(NextDay(d)) /\ Before(d, NextDay(d))
         /\ \/ /\ MonthIndex(NextDay(d)) = MonthIndex(d)
               /\ NextDay(d).day = d.day + 1
            \/ /\ MonthIndex(NextDay(d)) = MonthIndex(d) + 1
               /\ NextDay(d).day = 1
<1> DEFINE last == DaysInMonth(d.year, d.month)
           up == [d EXCEPT !.day = @ + 1]
           over == InMonth(MonthIndex(d) + 1, 1)
<1>1. /\ d \in [year : Nat, month : 1 .. 12, day : 1 .. 31] /\ d.day <= last
      /\ last \in 28 .. 31 /\ MonthIndex(d) \in Nat
      BY DaysBound, MonthIndexNat DEF Dated
<1>2. CASE d.day < last
  <2>1. NextDay(d) = up
        BY <1>2, Zenon DEF NextDay
  <2>2. /\ up.year = d.year /\ up.month = d.month /\ up.day = d.day + 1
        /\ up \in [year : Nat, month : 1 .. 12, day : 1 .. 31]
        BY <1>1, <1>2
  <2> HIDE DEF up
  <2>3. up.day <= last
        BY <2>2, <1>1, <1>2
  <2> QED
      BY <2>1, <2>2, <2>3, <1>1 DEF Dated, Before, MonthIndex
<1>3. CASE ~ (d.day < last)
  <2>1. NextDay(d) = over
        BY <1>3, Zenon DEF NextDay
  <2>2. Dated(over) /\ MonthIndex(over) = MonthIndex(d) + 1
        BY <1>1, InMonthDated
  <2>3. Before(d, over)
        BY <2>2, <1>1, LaterMonth
  <2>4. over.day = 1
        BY <1>1, FirstDay
  <2> QED
      BY <2>1, <2>2, <2>3, <2>4
<1> QED
    BY <1>2, <1>3

Walks(f, d, n) == f = [k \in 0 .. n |-> IF k = 0 THEN d ELSE NextDay(f[k - 1])]

LEMMA WalkExists ==
  ASSUME NEW d, NEW n \in Nat
  PROVE  \E f : Walks(f, d, n)
<1> DEFINE T == {k \in Nat : ~ \E f : Walks(f, d, k)}
<1> SUFFICES ASSUME T # {} PROVE FALSE
    OBVIOUS
<1>1. PICK m \in T : \A k \in T : m <= k
      BY LeastNat
<1>2. m # 0
  <2> DEFINE f == [k \in 0 .. 0 |-> d]
  <2>1. Walks(f, d, 0)
        BY DEF Walks
  <2> QED
      BY <2>1
<1>3. m - 1 \in Nat /\ m - 1 \notin T
      BY <1>1, <1>2
<1>4. PICK f : Walks(f, d, m - 1)
      BY <1>3
<1> DEFINE g == [k \in 0 .. m |-> IF k = m THEN NextDay(f[m - 1]) ELSE f[k]]
<1>5. \A k \in 0 .. m - 1 : g[k] = f[k]
      BY <1>3
<1>6. \A k \in 0 .. m : g[k] = IF k = 0 THEN d ELSE NextDay(g[k - 1])
  <2> TAKE k \in 0 .. m
  <2>1. CASE k = m
    <3>1. g[m] = NextDay(f[m - 1]) /\ g[m - 1] = f[m - 1]
          BY <1>3, <1>5
    <3> HIDE DEF g
    <3> QED
        BY <3>1, <2>1, <1>2
  <2>2. CASE k # m
    <3>1. k \in 0 .. m - 1 /\ (k # 0 => k - 1 \in 0 .. m - 1)
          BY <2>2, <1>3
    <3>2. g[k] = f[k] /\ (k # 0 => g[k - 1] = f[k - 1])
          BY <3>1, <1>5
    <3>3. f[k] = IF k = 0 THEN d ELSE NextDay(f[k - 1])
          BY <1>4, <3>1 DEF Walks
    <3> HIDE DEF g
    <3> QED
        BY <3>2, <3>3
  <2> QED
      BY <2>1, <2>2
<1>7. g = [k \in 0 .. m |-> IF k = 0 THEN d ELSE NextDay(g[k - 1])]
  <2>1. g = [k \in 0 .. m |-> g[k]]
        OBVIOUS
  <2> HIDE DEF g
  <2> QED
      BY <2>1, <1>6
<1> HIDE DEF g
<1> QED
    BY <1>1, <1>7 DEF Walks

LEMMA WalksAgree ==
  ASSUME NEW d, NEW m \in Nat, NEW n \in Nat, NEW f, NEW g, Walks(f, d, m), Walks(g, d, n)
  PROVE  \A k \in Nat : k <= m /\ k <= n => f[k] = g[k]
<1> DEFINE T == {k \in Nat : k <= m /\ k <= n /\ f[k] # g[k]}
<1> SUFFICES ASSUME T # {} PROVE FALSE
    OBVIOUS
<1>1. PICK k \in T : \A j \in T : k <= j
      BY LeastNat
<1>2. /\ f[k] = IF k = 0 THEN d ELSE NextDay(f[k - 1])
      /\ g[k] = IF k = 0 THEN d ELSE NextDay(g[k - 1])
      BY DEF Walks
<1>3. k # 0
      BY <1>2
<1>4. k - 1 \in Nat /\ k - 1 <= m /\ k - 1 <= n /\ ~ (k <= k - 1)
      BY <1>3
<1>5. f[k - 1] = g[k - 1]
      BY <1>4, <1>1
<1> QED
    BY <1>2, <1>3, <1>5

Walk(d, n) == CHOOSE f : Walks(f, d, n)

LEMMA DaysAfterWalks ==
  ASSUME NEW d, NEW n \in Nat
  PROVE  DaysAfter(d, n) = Walk(d, n)[n] /\ Walks(Walk(d, n), d, n)
<1>1. Walks(Walk(d, n), d, n)
      BY WalkExists DEF Walk
<1>2. DaysAfter(d, n) = Walk(d, n)[n]
      BY DEF DaysAfter, Walk, Walks
<1> QED
    BY <1>1, <1>2

(* Days are counted one by one.                                             *)
LEMMA OneMoreDay ==
  ASSUME NEW d
  PROVE  /\ DaysAfter(d, 0) = d
         /\ \A n \in Nat : DaysAfter(d, n + 1) = NextDay(DaysAfter(d, n))
<1>1. DaysAfter(d, 0) = d
      BY DaysAfterWalks DEF Walks
<1>2. ASSUME NEW n \in Nat
      PROVE  DaysAfter(d, n + 1) = NextDay(DaysAfter(d, n))
  <2> DEFINE f == Walk(d, n)
             g == Walk(d, n + 1)
  <2>1. /\ DaysAfter(d, n) = f[n] /\ Walks(f, d, n)
        /\ DaysAfter(d, n + 1) = g[n + 1] /\ Walks(g, d, n + 1)
        BY DaysAfterWalks
  <2> HIDE DEF f, g
  <2>2. f[n] = g[n]
        BY <2>1, WalksAgree
  <2>3. g[n + 1] = NextDay(g[n + 1 - 1]) /\ n + 1 - 1 = n
        BY <2>1 DEF Walks
  <2> QED
      BY <2>1, <2>2, <2>3
<1> QED
    BY <1>1, <1>2

LEMMA DaysLater ==
  ASSUME NEW d, Dated(d), NEW n \in Nat
  PROVE  Dated(DaysAfter(d, n)) /\ (n > 0 => Before(d, DaysAfter(d, n)))
<1> DEFINE P(k) == Dated(DaysAfter(d, k)) /\ (k > 0 => Before(d, DaysAfter(d, k)))
           T == {k \in Nat : ~ P(k)}
<1> SUFFICES ASSUME T # {} PROVE FALSE
    OBVIOUS
<1>1. PICK k \in T : \A j \in T : k <= j
      BY LeastNat
<1>2. k # 0
      BY OneMoreDay
<1>3. k - 1 \in Nat /\ ~ (k <= k - 1) /\ k = (k - 1) + 1
      BY <1>2
<1>4. P(k - 1)
      BY <1>1, <1>3
<1>5. DaysAfter(d, k) = NextDay(DaysAfter(d, k - 1))
      BY <1>3, OneMoreDay
<1>6. /\ Dated(DaysAfter(d, k))
      /\ Before(DaysAfter(d, k - 1), DaysAfter(d, k))
      BY <1>4, <1>5, NextDayDated
<1>7. Before(d, DaysAfter(d, k))
  <2>1. CASE k - 1 = 0
        BY <2>1, <1>6, OneMoreDay
  <2>2. CASE k - 1 > 0
        BY <2>2, <1>4, <1>6, BeforeTransitive
  <2> QED
      BY <2>1, <2>2, <1>3
<1> QED
    BY <1>6, <1>7

(* Two weeks on it is at most the next month.                               *)
LEMMA WeeksWithin ==
  ASSUME NEW d, Dated(d), NEW n \in Nat, n <= 28
  PROVE  MonthIndex(DaysAfter(d, n)) <= MonthIndex(d) + 1
<1> DEFINE a(k) == DaysAfter(d, k)
           P(k) == k <= 28 =>
                     \/ MonthIndex(a(k)) = MonthIndex(d)
                     \/ MonthIndex(a(k)) = MonthIndex(d) + 1 /\ a(k).day <= k
           T == {k \in Nat : ~ P(k)}
<1>1. P(n)
  <2> SUFFICES ASSUME T # {} PROVE FALSE
      OBVIOUS
  <2>1. PICK k \in T : \A j \in T : k <= j
        BY LeastNat
  <2>2. k # 0
        BY OneMoreDay
  <2>3. k - 1 \in Nat /\ ~ (k <= k - 1) /\ k = (k - 1) + 1 /\ k <= 28
        BY <2>1, <2>2
  <2>4. P(k - 1)
        BY <2>1, <2>3
  <2>5. a(k) = NextDay(a(k - 1)) /\ Dated(a(k - 1)) /\ Dated(a(k))
        BY <2>3, OneMoreDay, DaysLater
  <2>6. \/ MonthIndex(a(k)) = MonthIndex(a(k - 1)) /\ a(k).day = a(k - 1).day + 1
        \/ MonthIndex(a(k)) = MonthIndex(a(k - 1)) + 1 /\ a(k).day = 1
        BY <2>5, NextDayDated
  <2>7. ASSUME MonthIndex(a(k - 1)) = MonthIndex(d) + 1, a(k - 1).day <= k - 1
        PROVE  MonthIndex(a(k)) = MonthIndex(a(k - 1)) /\ a(k).day = a(k - 1).day + 1
    <3> DEFINE b == a(k - 1)
               last == DaysInMonth(b.year, b.month)
    <3>1. last \in 28 .. 31 /\ b.day \in 1 .. 31 /\ b \in [year : Nat, month : 1 .. 12, day : 1 .. 31]
          BY <2>5, DaysBound DEF Dated
    <3>2. b.day < last
          BY <3>1, <2>3, <2>7
    <3> HIDE DEF b
    <3>3. NextDay(b) = [b EXCEPT !.day = @ + 1]
          BY <3>2, Zenon DEF NextDay
    <3>4. NextDay(b).year = b.year /\ NextDay(b).month = b.month /\ NextDay(b).day = b.day + 1
          BY <3>3, <3>1
    <3> QED
        BY <3>4, <2>5 DEF MonthIndex, b
  <2>8. MonthIndex(d) \in Nat /\ a(k).day \in Nat /\ a(k - 1).day \in Nat
        BY <2>5, MonthIndexNat DEF Dated
  <2> HIDE DEF a
  <2>9. CASE MonthIndex(a(k - 1)) = MonthIndex(d)
        BY <2>9, <2>6, <2>3, <2>8, <2>2
  <2>10. CASE MonthIndex(a(k - 1)) = MonthIndex(d) + 1 /\ a(k - 1).day <= k - 1
        BY <2>10, <2>7, <2>3, <2>8, <2>2
  <2> QED
      BY <2>3, <2>4, <2>9, <2>10
<1>2. MonthIndex(d) \in Nat
      BY MonthIndexNat
<1> QED
    BY <1>1, <1>2

-----------------------------------------------------------------------------
(* Counting the days *)

(* A year that begins in March, and the months of it.                       *)
MarchYear(d) == d.year - (IF d.month <= 2 THEN 1 ELSE 0)
MarchMonth(d) == d.month + (IF d.month > 2 THEN -3 ELSE 9)
Elapsed(m) == (153 * m + 2) \div 5
Leaps(y) == y \div 4 - y \div 100 + y \div 400

LEMMA ElapsedTable ==
  /\ Elapsed(0) = 0 /\ Elapsed(1) = 31 /\ Elapsed(2) = 61 /\ Elapsed(3) = 92
  /\ Elapsed(4) = 122 /\ Elapsed(5) = 153 /\ Elapsed(6) = 184 /\ Elapsed(7) = 214
  /\ Elapsed(8) = 245 /\ Elapsed(9) = 275 /\ Elapsed(10) = 306 /\ Elapsed(11) = 337
  BY DEF Elapsed

LEMMA LeapsNext ==
  ASSUME NEW y \in Int
  PROVE  Leaps(y + 1) = Leaps(y) + (IF IsLeapYear(y + 1) THEN 1 ELSE 0)
  BY DEF Leaps, IsLeapYear

LEMMA LeapsOfEra ==
  ASSUME NEW e \in Int, NEW k \in Int
  PROVE  Leaps(400 * e + k) = 97 * e + Leaps(k)
  BY DEF Leaps

LEMMA YearOfEra ==
  ASSUME NEW k \in Int, NEW doy \in Int, 0 <= k, k <= 399, 0 <= doy,
         IF IsLeapYear(k + 1) THEN doy <= 365 ELSE doy <= 364
  PROVE  LET doe == k * 365 + k \div 4 - k \div 100 + doy
         IN  /\ 0 <= doe /\ doe <= 146096
             /\ (doe - doe \div 1460 + doe \div 36524 - doe \div 146096) \div 365 = k
  BY SMTT(120) DEF IsLeapYear

LEMMA MonthOfYear ==
  ASSUME NEW m \in 0 .. 11, NEW day \in 1 .. 31,
         m \in {1, 3, 6, 8} => day <= 30, m = 11 => day <= 29
  PROVE  (5 * (Elapsed(m) + day - 1) + 2) \div 153 = m
  BY ElapsedTable, SMTT(60)

(* The numbers of a date, its day of the year and the bounds of it.         *)
LEMMA DateNumbers ==
  ASSUME NEW d, Dated(d)
  PROVE  /\ MarchYear(d) \in Int /\ MarchMonth(d) \in 0 .. 11 /\ d.day \in 1 .. 31
         /\ MarchMonth(d) \in {1, 3, 6, 8} => d.day <= 30
         /\ MarchMonth(d) = 11 => d.day <= (IF IsLeapYear(MarchYear(d) + 1) THEN 29 ELSE 28)
         /\ 0 <= Elapsed(MarchMonth(d)) + d.day - 1
         /\ Elapsed(MarchMonth(d)) + d.day - 1
              <= (IF IsLeapYear(MarchYear(d) + 1) THEN 365 ELSE 364)
<1>1. /\ d.year \in Nat /\ d.month \in 1 .. 12 /\ d.day \in 1 .. 31
      /\ d.day <= DaysInMonth(d.year, d.month)
      BY DEF Dated
<1>2. MarchYear(d) \in Int /\ MarchMonth(d) \in 0 .. 11
      BY <1>1 DEF MarchYear, MarchMonth
<1>3. MarchMonth(d) \in {1, 3, 6, 8} => d.month \in {4, 6, 9, 11}
      BY <1>1 DEF MarchMonth
<1>4. MarchMonth(d) \in {1, 3, 6, 8} => d.day <= 30
      BY <1>1, <1>3 DEF DaysInMonth
<1>5. MarchMonth(d) = 11 => d.month = 2 /\ MarchYear(d) + 1 = d.year
      BY <1>1 DEF MarchMonth, MarchYear
<1>6. MarchMonth(d) = 11 => d.day <= (IF IsLeapYear(MarchYear(d) + 1) THEN 29 ELSE 28)
      BY <1>1, <1>5 DEF DaysInMonth
<1> HIDE DEF MarchYear, MarchMonth
<1>7. /\ 0 <= Elapsed(MarchMonth(d)) + d.day - 1
      /\ Elapsed(MarchMonth(d)) + d.day - 1
           <= (IF IsLeapYear(MarchYear(d) + 1) THEN 365 ELSE 364)
      BY <1>1, <1>2, <1>6, ElapsedTable
<1> QED
    BY <1>1, <1>2, <1>4, <1>6, <1>7

(* The count of days, without the eras.                                     *)
LEMMA EpochDayIs ==
  ASSUME NEW d, Dated(d)
  PROVE  EpochDay(d) = 365 * MarchYear(d) + Leaps(MarchYear(d))
                         + Elapsed(MarchMonth(d)) + d.day - 1 - 719468
<1> DEFINE y == MarchYear(d)
           e == y \div 400
           k == y - e * 400
<1>1. y \in Int /\ MarchMonth(d) \in Int /\ d.day \in Int
      BY DateNumbers
<1>2. EpochDay(d) = e * 146097 + k * 365 + k \div 4 - k \div 100
                      + (Elapsed(MarchMonth(d)) + d.day - 1) - 719468
      BY SMT DEF EpochDay, MarchYear, MarchMonth, Elapsed
<1> HIDE DEF MarchYear, MarchMonth
<1>3. Elapsed(MarchMonth(d)) \in Int
      BY <1>1 DEF Elapsed
<1> HIDE DEF y
<1>4. e \in Int /\ k \in Int /\ 0 <= k /\ k < 400 /\ y = 400 * e + k
      BY <1>1
<1> HIDE DEF e, k
<1>5. Leaps(y) = 97 * e + Leaps(k) /\ Leaps(k) = k \div 4 - k \div 100
      BY <1>4, LeapsOfEra DEF Leaps
<1> QED
    BY <1>1, <1>2, <1>3, <1>4, <1>5, SMT DEF y

LEMMA EpochInt ==
  ASSUME NEW d, Dated(d)
  PROVE  EpochDay(d) \in Int
<1>1. MarchYear(d) \in Int /\ MarchMonth(d) \in Int /\ d.day \in Int
      BY DateNumbers
<1> QED
    BY <1>1, EpochDayIs, SMT DEF Leaps, Elapsed

(* The count of days names the date: what civilDateToEpochDay counts,       *)
(* epochDayToCivilDate reads back, for every date of every year.            *)
THEOREM CivilOfEpoch ==
  ASSUME NEW d, Dated(d)
  PROVE  CivilDate(EpochDay(d)) = d
<1> DEFINE y == MarchYear(d)
           m == MarchMonth(d)
           e == y \div 400
           k == y - e * 400
           doy == Elapsed(m) + d.day - 1
           doe == k * 365 + k \div 4 - k \div 100 + doy
           shifted == EpochDay(d) + 719468
<1>1. y \in Int /\ m \in 0 .. 11 /\ d.day \in 1 .. 31 /\ 0 <= doy
      /\ doy <= (IF IsLeapYear(y + 1) THEN 365 ELSE 364)
      /\ (m \in {1, 3, 6, 8} => d.day <= 30) /\ (m = 11 => d.day <= 29)
      BY DateNumbers
<1>2. EpochDay(d) = e * 146097 + k * 365 + k \div 4 - k \div 100 + doy - 719468
      BY SMT DEF EpochDay, MarchYear, MarchMonth, Elapsed
<1>3. /\ d.month = m + (IF m < 10 THEN 3 ELSE -9)
      /\ d.year = y + (IF d.month <= 2 THEN 1 ELSE 0)
      /\ d.year \in Int /\ d.month \in Int
  <2>1. d.year \in Nat /\ d.month \in 1 .. 12
        BY DEF Dated
  <2> QED
      BY <2>1 DEF MarchYear, MarchMonth
<1> HIDE DEF y, m
<1>4. e \in Int /\ k \in Int /\ 0 <= k /\ k <= 399 /\ y = 400 * e + k
      BY <1>1
<1>5. IsLeapYear(k + 1) <=> IsLeapYear(y + 1)
      BY <1>4 DEF IsLeapYear
<1>6. doy \in Int
      BY <1>1 DEF Elapsed
<1>7. (5 * doy + 2) \div 153 = m
      BY <1>1, MonthOfYear
<1>8. doy - (153 * m + 2) \div 5 + 1 = d.day
      BY <1>1 DEF Elapsed
<1> HIDE DEF e, k, doy
<1>9. /\ 0 <= doe /\ doe <= 146096 /\ doe \in Int
      /\ (doe - doe \div 1460 + doe \div 36524 - doe \div 146096) \div 365 = k
  <2>1. IF IsLeapYear(k + 1) THEN doy <= 365 ELSE doy <= 364
        BY <1>1, <1>5
  <2> QED
      BY <2>1, <1>1, <1>4, <1>6, YearOfEra, SMT
<1>10. shifted = e * 146097 + doe
       BY <1>2, <1>4, <1>6, SMT
<1>11. doe - (365 * k + k \div 4 - k \div 100) = doy
       BY <1>4, <1>6
<1> HIDE DEF doe, shifted
<1>12. shifted \div 146097 = e /\ shifted - e * 146097 = doe
       BY <1>4, <1>9, <1>10, SMT
<1> DEFINE month == m + (IF m < 10 THEN 3 ELSE -9)
<1>13. CivilDate(EpochDay(d)) =
         Date(k + e * 400 + (IF month <= 2 THEN 1 ELSE 0), month, doy - (153 * m + 2) \div 5 + 1)
       BY <1>12, <1>9, <1>11, <1>7, SMT DEF CivilDate, shifted
<1>14. CivilDate(EpochDay(d)) = Date(d.year, d.month, d.day)
  <2>1. month = d.month /\ k + e * 400 + (IF month <= 2 THEN 1 ELSE 0) = d.year
        BY <1>3, <1>4, <1>1
  <2> HIDE DEF month
  <2> QED
      BY <1>13, <1>8, <2>1, SMT
<1> QED
    BY <1>14 DEF Date, Dated

(* The next day is counted one more.                                        *)
LEMMA EpochOfNextDay ==
  ASSUME NEW d, Dated(d)
  PROVE  EpochDay(NextDay(d)) = EpochDay(d) + 1
<1> DEFINE n == NextDay(d)
<1>1. Dated(n)
      BY NextDayDated
<1>2. /\ EpochDay(d) = 365 * MarchYear(d) + Leaps(MarchYear(d))
                         + Elapsed(MarchMonth(d)) + d.day - 1 - 719468
      /\ EpochDay(n) = 365 * MarchYear(n) + Leaps(MarchYear(n))
                         + Elapsed(MarchMonth(n)) + n.day - 1 - 719468
      BY <1>1, EpochDayIs
<1>3. /\ d.year \in Nat /\ d.month \in 1 .. 12 /\ d.day \in 1 .. 31
      /\ n.year \in Nat /\ n.month \in 1 .. 12
      /\ d.day <= DaysInMonth(d.year, d.month)
      BY <1>1 DEF Dated
<1>4. \/ d.day < DaysInMonth(d.year, d.month) /\ n = [d EXCEPT !.day = @ + 1]
      \/ d.day = DaysInMonth(d.year, d.month) /\ n = InMonth(MonthIndex(d) + 1, 1)
  <2>1. DaysInMonth(d.year, d.month) \in 28 .. 31
        BY DaysBound
  <2>2. CASE d.day < DaysInMonth(d.year, d.month)
        BY <2>2, Zenon DEF NextDay
  <2>3. CASE ~ (d.day < DaysInMonth(d.year, d.month))
    <3>1. n = InMonth(MonthIndex(d) + 1, 1)
          BY <2>3, Zenon DEF NextDay
    <3>2. d.day = DaysInMonth(d.year, d.month)
          BY <2>3, <2>1, <1>3
    <3> QED
        BY <3>1, <3>2
  <2> QED
      BY <2>2, <2>3
<1>5. Leaps(MarchYear(d)) \in Int /\ Elapsed(MarchMonth(d)) \in Int /\ MarchYear(d) \in Int
      BY <1>3 DEF Leaps, Elapsed, MarchYear, MarchMonth
<1>8. ASSUME NEW y \in Int, NEW l \in Int, NEW e \in Int, NEW day \in Int
      PROVE  /\ 365 * y + l + e + (day + 1) - 1 - 719468
                  = (365 * y + l + e + day - 1 - 719468) + 1
             /\ 365 * y + l + (e + day) + 1 - 1 - 719468
                  = (365 * y + l + e + day - 1 - 719468) + 1
      OBVIOUS
<1>6. CASE d.day < DaysInMonth(d.year, d.month) /\ n = [d EXCEPT !.day = @ + 1]
  <2>1. n.year = d.year /\ n.month = d.month /\ n.day = d.day + 1
        BY <1>6 DEF Dated
  <2> HIDE DEF n
  <2>2. MarchYear(n) = MarchYear(d) /\ MarchMonth(n) = MarchMonth(d)
        BY <2>1 DEF MarchYear, MarchMonth
  <2>3. EpochDay(n) = 365 * MarchYear(d) + Leaps(MarchYear(d))
                        + Elapsed(MarchMonth(d)) + (d.day + 1) - 1 - 719468
        BY <1>2, <2>1, <2>2
  <2> QED
      BY <1>8, <1>2, <1>3, <1>5, <2>3, SMT DEF n
<1>7. CASE d.day = DaysInMonth(d.year, d.month) /\ n = InMonth(MonthIndex(d) + 1, 1)
  <2>1. MonthIndex(n) = MonthIndex(d) + 1 /\ n.day = 1
    <3>1. MonthIndex(d) + 1 \in Nat
          BY MonthIndexNat
    <3>2. MonthIndex(n) = MonthIndex(d) + 1
          BY <1>7, <3>1, InMonthDated
    <3> QED
        BY <3>2, <1>7, FirstDay
  <2> HIDE DEF n
  <2>2. \/ d.month \in 1 .. 11 /\ n.month = d.month + 1 /\ n.year = d.year
        \/ d.month = 12 /\ n.month = 1 /\ n.year = d.year + 1
        BY <2>1, <1>3 DEF MonthIndex
  <2>3. CASE d.month # 2
    <3>1. MarchYear(n) = MarchYear(d) /\ MarchMonth(n) = MarchMonth(d) + 1
          BY <2>2, <2>3, <1>3 DEF MarchYear, MarchMonth
    <3>2. Elapsed(MarchMonth(d) + 1) = Elapsed(MarchMonth(d)) + DaysInMonth(d.year, d.month)
          BY <2>3, <1>3, ElapsedTable DEF MarchMonth, DaysInMonth
    <3>3. EpochDay(n) = 365 * MarchYear(d) + Leaps(MarchYear(d))
                          + (Elapsed(MarchMonth(d)) + d.day) + 1 - 1 - 719468
          BY <1>2, <1>7, <2>1, <3>1, <3>2
    <3> QED
        BY <1>8, <1>2, <1>3, <1>5, <3>3, SMT DEF n
  <2>4. CASE d.month = 2
    <3>1. /\ MarchYear(n) = MarchYear(d) + 1 /\ MarchYear(n) = d.year
          /\ MarchMonth(d) = 11 /\ MarchMonth(n) = 0
          BY <2>2, <2>4, <1>3 DEF MarchYear, MarchMonth
    <3>2. Leaps(MarchYear(n)) = Leaps(MarchYear(d)) + (IF IsLeapYear(d.year) THEN 1 ELSE 0)
          BY <3>1, <1>5, LeapsNext
    <3>3. d.day = (IF IsLeapYear(d.year) THEN 29 ELSE 28)
          BY <1>7, <2>4 DEF DaysInMonth
    <3>4. /\ EpochDay(d) = 365 * MarchYear(d) + Leaps(MarchYear(d)) + 337 + d.day - 1 - 719468
          /\ EpochDay(n) = 365 * (MarchYear(d) + 1)
                             + (Leaps(MarchYear(d)) + (IF IsLeapYear(d.year) THEN 1 ELSE 0))
                             + 0 + 1 - 1 - 719468
          BY <1>2, <2>1, <3>1, <3>2, ElapsedTable
    <3> QED
        BY <1>8, <1>3, <1>5, <3>3, <3>4, SMT DEF n
  <2> QED
      BY <2>3, <2>4
<1> QED
    BY <1>4, <1>6, <1>7

(* The days that follow a date are those whose counts follow its count.     *)
LEMMA EpochOfDays ==
  ASSUME NEW d, Dated(d), NEW n \in Nat
  PROVE  /\ EpochDay(DaysAfter(d, n)) = EpochDay(d) + n
         /\ CivilDate(EpochDay(d) + n) = DaysAfter(d, n)
<1> DEFINE P(k) == EpochDay(DaysAfter(d, k)) = EpochDay(d) + k
           T == {k \in Nat : ~ P(k)}
<1>1. EpochDay(d) \in Int
      BY EpochInt
<1>2. P(n)
  <2> SUFFICES ASSUME T # {} PROVE FALSE
      OBVIOUS
  <2>1. PICK k \in T : \A j \in T : k <= j
        BY LeastNat
  <2>2. k # 0
        BY <1>1, OneMoreDay
  <2>3. k - 1 \in Nat /\ ~ (k <= k - 1) /\ k = (k - 1) + 1
        BY <2>2
  <2>4. P(k - 1)
        BY <2>1, <2>3
  <2>5. DaysAfter(d, k) = NextDay(DaysAfter(d, k - 1)) /\ Dated(DaysAfter(d, k - 1))
        BY <2>3, OneMoreDay, DaysLater
  <2> QED
      BY <2>3, <2>4, <2>5, <1>1, EpochOfNextDay
<1>3. CivilDate(EpochDay(DaysAfter(d, n))) = DaysAfter(d, n)
      BY DaysLater, CivilOfEpoch
<1> QED
    BY <1>2, <1>3

LEMMA LeapsGrow ==
  ASSUME NEW y \in Int, NEW z \in Int, y <= z
  PROVE  Leaps(y) <= Leaps(z)
<1>1. ASSUME NEW u \in Int, NEW v \in Int, u <= v
      PROVE  u \div 4 - u \div 100 <= v \div 4 - v \div 100
  <2> DEFINE a == u \div 100
             b == v \div 100
             r == u - 100 * a
             s == v - 100 * b
  <2>1. a \in Int /\ b \in Int /\ a <= b
        BY <1>1
  <2>2. r \in Int /\ s \in Int /\ 0 <= r /\ r <= 99 /\ 0 <= s /\ s <= 99
        BY <1>1
  <2>3. u = 100 * a + r /\ v = 100 * b + s
        BY <2>1
  <2>7. u \div 100 = a /\ v \div 100 = b
        OBVIOUS
  <2> HIDE DEF a, b, r, s
  <2>4. u \div 4 = 25 * a + r \div 4 /\ v \div 4 = 25 * b + s \div 4
        BY <2>1, <2>2, <2>3
  <2>5. CASE a = b
    <3>1. r <= s
          BY <2>1, <2>2, <2>3, <2>5, <1>1
    <3> QED
        BY <2>1, <2>2, <2>4, <2>5, <2>7, <3>1
  <2>6. CASE a < b
    <3>1. r \div 4 <= 24 /\ 0 <= s \div 4 /\ r \div 4 \in Int /\ s \div 4 \in Int
          BY <2>2
    <3>2. ASSUME NEW p \in Int, NEW q \in Int, p <= 24, 0 <= q,
                 NEW c \in Int, NEW d \in Int, c < d
          PROVE  25 * c + p - c <= 25 * d + q - d
          BY <3>2
    <3>3. 25 * a + r \div 4 - a <= 25 * b + s \div 4 - b
          BY <2>1, <2>6, <3>1, <3>2
    <3> QED
        BY <2>1, <2>4, <2>7, <3>1, <3>3
  <2> QED
      BY <2>1, <2>5, <2>6
<1>2. y \div 400 <= z \div 400
      OBVIOUS
<1>3. y \div 4 - y \div 100 <= z \div 4 - z \div 100
      BY <1>1
<1> QED
    BY <1>2, <1>3 DEF Leaps

LEMMA EpochOrder ==
  ASSUME NEW a, NEW b, Dated(a), Dated(b), Before(a, b)
  PROVE  EpochDay(a) < EpochDay(b)
<1> DEFINE ya == MarchYear(a)
           yb == MarchYear(b)
           ma == MarchMonth(a)
           mb == MarchMonth(b)
           ta == Elapsed(ma) + a.day - 1
           tb == Elapsed(mb) + b.day - 1
<1>1. /\ ya \in Int /\ ma \in 0 .. 11 /\ a.day \in 1 .. 31 /\ 0 <= ta
      /\ ta <= (IF IsLeapYear(ya + 1) THEN 365 ELSE 364)
      /\ ma \in {1, 3, 6, 8} => a.day <= 30
      BY DateNumbers
<1>2. yb \in Int /\ mb \in 0 .. 11 /\ b.day \in 1 .. 31 /\ 0 <= tb
      BY DateNumbers
<1>3. /\ EpochDay(a) = 365 * ya + Leaps(ya) + Elapsed(ma) + a.day - 1 - 719468
      /\ EpochDay(b) = 365 * yb + Leaps(yb) + Elapsed(mb) + b.day - 1 - 719468
      BY EpochDayIs
<1>4. \/ ya < yb
      \/ ya = yb /\ ma < mb
      \/ ya = yb /\ ma = mb /\ a.day < b.day
  <2>1. /\ a.year \in Nat /\ a.month \in 1 .. 12 /\ b.year \in Nat /\ b.month \in 1 .. 12
        BY DEF Dated
  <2> QED
      BY <2>1 DEF Before, MarchYear, MarchMonth
<1> HIDE DEF ya, yb, ma, mb
<1>5. Elapsed(ma) \in Int /\ Elapsed(mb) \in Int /\ Leaps(ya) \in Int /\ Leaps(yb) \in Int
      BY <1>1, <1>2 DEF Elapsed, Leaps
<1>6. CASE ya < yb
  <2>1. Leaps(ya + 1) <= Leaps(yb)
        BY <1>1, <1>2, <1>6, LeapsGrow
  <2>2. Leaps(ya + 1) = Leaps(ya) + (IF IsLeapYear(ya + 1) THEN 1 ELSE 0)
        BY <1>1, LeapsNext
  <2>3. 365 * ya + Leaps(ya) + ta < 365 * yb + Leaps(yb) + tb
        BY <1>1, <1>2, <1>5, <1>6, <2>1, <2>2
  <2> QED
      BY <1>1, <1>2, <1>3, <1>5, <2>3, SMT
<1>7. CASE ya = yb /\ ma < mb
  <2>1. Elapsed(ma) + a.day - 1 < Elapsed(mb)
        BY <1>1, <1>2, <1>7, ElapsedTable, SMTT(60)
  <2>2. 365 * ya + Leaps(ya) + ta < 365 * yb + Leaps(yb) + tb
        BY <1>1, <1>2, <1>5, <1>7, <2>1
  <2> QED
      BY <1>1, <1>2, <1>3, <1>5, <2>2, SMT
<1>8. CASE ya = yb /\ ma = mb /\ a.day < b.day
      BY <1>1, <1>2, <1>3, <1>5, <1>8, SMT
<1> QED
    BY <1>4, <1>6, <1>7, <1>8

LEMMA NextIsNext ==
  ASSUME NEW d, NEW e, Dated(d), Dated(e), Before(d, e)
  PROVE  ~ Before(e, NextDay(d))
<1>1. Dated(NextDay(d))
      BY NextDayDated
<1>2. EpochDay(d) < EpochDay(e) /\ EpochDay(NextDay(d)) = EpochDay(d) + 1
      BY EpochOrder, EpochOfNextDay
<1>3. Before(e, NextDay(d)) => EpochDay(e) < EpochDay(NextDay(d))
      BY <1>1, EpochOrder
<1>4. EpochDay(d) \in Int /\ EpochDay(e) \in Int
      BY EpochInt
<1> QED
    BY <1>2, <1>3, <1>4

(* The earliest of a set of dates is the one before all others.             *)
LEMMA EarliestIs ==
  ASSUME NEW S, \A d \in S : Dated(d), NEW m \in S, \A e \in S : e # m => Before(m, e)
  PROVE  Earliest(S) = m
<1>1. \A e \in S : ~ Before(e, m)
  <2> TAKE e \in S
  <2>1. CASE e = m
        BY <2>1, NotBeforeItself
  <2>2. CASE e # m
    <3>1. Before(m, e) /\ ~ Before(m, m)
          BY <2>2, NotBeforeItself
    <3> QED
        BY <3>1, BeforeTransitive
  <2> QED
      BY <2>1, <2>2
<1>2. \A d \in S : (\A e \in S : ~ Before(e, d)) => d = m
      OBVIOUS
<1> QED
    BY <1>1, <1>2 DEF Earliest

-----------------------------------------------------------------------------
(* Stepping *)

Schedules == [frequency : Frequencies, due : [year : Nat, month : 1 .. 12, day : 1 .. 31],
              anchor : 1 .. 31, anchor2 : 0 .. 31, amount : Amounts,
              status : {"active", "paused", "ended"}]
Proper(s) == s \in Schedules /\ Dated(s.due) /\ AnchorsOK(s)

(* The arms of Step exclude each other.                                     *)
LEMMA StepArms ==
  ASSUME NEW s
  PROVE  /\ s.frequency = "semimonthly" => Step(s) = StepSemimonthly(s)
         /\ s.frequency \in DOMAIN Months =>
              Step(s) = InMonth(MonthIndex(s.due) + Months[s.frequency], s.anchor)
         /\ s.frequency \in DOMAIN Weeks => Step(s) = DaysAfter(s.due, Weeks[s.frequency])
         /\ s.frequency = "once" => Step(s) = s.due
<1>1. /\ \A f : f = "semimonthly" => f \notin DOMAIN Months /\ f \notin DOMAIN Weeks /\ f # "once"
      /\ \A f : f \in DOMAIN Months => f # "semimonthly" /\ f \notin DOMAIN Weeks /\ f # "once"
      /\ \A f : f \in DOMAIN Weeks => f # "semimonthly" /\ f \notin DOMAIN Months /\ f # "once"
      /\ \A f : f = "once" => f # "semimonthly" /\ f \notin DOMAIN Months /\ f \notin DOMAIN Weeks
      BY DEF Months, Weeks
<1>2. CASE s.frequency = "semimonthly"
      BY <1>1, <1>2, Zenon DEF Step
<1>3. CASE s.frequency \in DOMAIN Months
  <2>1. Step(s) = StepMonths(s, Months[s.frequency])
        BY <1>1, <1>3, Zenon DEF Step
  <2> QED
      BY <1>1, <1>3, <2>1, Zenon DEF StepMonths
<1>4. CASE s.frequency \in DOMAIN Weeks
      BY <1>1, <1>4, Zenon DEF Step
<1>5. CASE s.frequency = "once"
      BY <1>1, <1>5, Zenon DEF Step
<1> QED
    BY <1>2, <1>3, <1>4, <1>5

(* The next occurrence lies after this one, by a year and a month at most.  *)
LEMMA StepIsLater ==
  ASSUME NEW s, Proper(s), s.frequency # "once"
  PROVE  /\ Dated(Step(s)) /\ Before(s.due, Step(s))
         /\ MonthIndex(Step(s)) <= MonthIndex(s.due) + 12
<1>1. /\ Dated(s.due) /\ MonthIndex(s.due) \in Nat /\ s.anchor \in 1 .. 31
      /\ s.frequency \in Frequencies
      BY MonthIndexNat DEF Proper, Schedules
<1>2. ASSUME NEW n \in 1 .. 12, NEW a \in 1 .. 31
      PROVE  /\ Dated(InMonth(MonthIndex(s.due) + n, a))
             /\ Before(s.due, InMonth(MonthIndex(s.due) + n, a))
             /\ MonthIndex(InMonth(MonthIndex(s.due) + n, a)) = MonthIndex(s.due) + n
  <2>1. MonthIndex(s.due) + n \in Nat /\ MonthIndex(s.due) < MonthIndex(s.due) + n
        BY <1>1
  <2>2. /\ Dated(InMonth(MonthIndex(s.due) + n, a))
        /\ MonthIndex(InMonth(MonthIndex(s.due) + n, a)) = MonthIndex(s.due) + n
        BY <2>1, InMonthDated
  <2>3. Before(s.due, InMonth(MonthIndex(s.due) + n, a))
        BY <1>1, <2>1, <2>2, LaterMonth
  <2> QED
      BY <2>2, <2>3
<1>3. CASE s.frequency = "semimonthly"
  <2> DEFINE larger == InMonth(MonthIndex(s.due), s.anchor2)
             over == InMonth(MonthIndex(s.due) + 1, s.anchor)
  <2>1. s.anchor2 \in 1 .. 31
        BY <1>3 DEF Proper, AnchorsOK
  <2>2. Dated(larger) /\ MonthIndex(larger) = MonthIndex(s.due)
        BY <1>1, <2>1, InMonthDated
  <2>3. Dated(over) /\ Before(s.due, over) /\ MonthIndex(over) = MonthIndex(s.due) + 1
    <3>1. 1 \in 1 .. 12 /\ s.anchor \in 1 .. 31
          BY <1>1
    <3> QED
        BY <3>1, <1>2
  <2>4. Step(s) = IF Before(s.due, larger) THEN larger ELSE over
    <3>1. Step(s) = StepSemimonthly(s)
          BY <1>3, StepArms
    <3> QED
        BY <3>1, Zenon DEF StepSemimonthly
  <2>7. MonthIndex(larger) = MonthIndex(s.due) => MonthIndex(larger) <= MonthIndex(s.due) + 12
        BY <1>1
  <2> HIDE DEF larger, over
  <2>5. CASE Before(s.due, larger)
        BY <2>2, <2>4, <2>5, <2>7, <1>1
  <2>6. CASE ~ Before(s.due, larger)
        BY <2>3, <2>4, <2>6, <1>1
  <2> QED
      BY <2>5, <2>6
<1>4. CASE s.frequency \in DOMAIN Months
  <2>1. Months[s.frequency] \in 1 .. 12 /\ s.frequency # "semimonthly"
        BY <1>4 DEF Months
  <2>2. Step(s) = InMonth(MonthIndex(s.due) + Months[s.frequency], s.anchor)
        BY <1>4, StepArms
  <2> DEFINE n == Months[s.frequency]
  <2> HIDE DEF n
  <2>3. n \in 1 .. 12 /\ Step(s) = InMonth(MonthIndex(s.due) + n, s.anchor)
        BY <2>1, <2>2 DEF n
  <2>4. /\ Dated(Step(s)) /\ Before(s.due, Step(s))
        /\ MonthIndex(Step(s)) = MonthIndex(s.due) + n
        BY <2>3, <1>1, <1>2
  <2> QED
      BY <2>3, <2>4, <1>1
<1>5. CASE s.frequency \in DOMAIN Weeks
  <2>1. /\ Weeks[s.frequency] \in {7, 14} /\ s.frequency # "semimonthly"
        /\ s.frequency \notin DOMAIN Months
        BY <1>5 DEF Weeks, Months
  <2> DEFINE n == Weeks[s.frequency]
  <2>2. Step(s) = DaysAfter(s.due, n)
        BY <1>5, StepArms
  <2> HIDE DEF n
  <2>3. n \in {7, 14}
        BY <2>1 DEF n
  <2>4. /\ Dated(DaysAfter(s.due, n)) /\ Before(s.due, DaysAfter(s.due, n))
        /\ MonthIndex(DaysAfter(s.due, n)) <= MonthIndex(s.due) + 1
        BY <2>3, <1>1, DaysLater, WeeksWithin
  <2>5. MonthIndex(DaysAfter(s.due, n)) \in Nat
        BY <2>4, MonthIndexNat
  <2> QED
      BY <2>2, <2>4, <2>5, <1>1
<1> QED
    BY <1>1, <1>3, <1>4, <1>5 DEF Frequencies, Months, Weeks

(* The step reads the frequency, the date and the anchors, and the second   *)
(* anchor of a pair only.                                                   *)
LEMMA StepReads ==
  ASSUME NEW s, NEW u, s.frequency \in Frequencies,
         s.frequency = u.frequency, s.due = u.due, s.anchor = u.anchor,
         s.frequency = "semimonthly" => s.anchor2 = u.anchor2
  PROVE  Step(s) = Step(u)
<1>1. CASE s.frequency = "semimonthly"
      BY <1>1, StepArms, Zenon DEF StepSemimonthly
<1>2. CASE s.frequency # "semimonthly"
  <2>1. s.frequency \in DOMAIN Months \/ s.frequency \in DOMAIN Weeks \/ s.frequency = "once"
        BY <1>2 DEF Frequencies, Months, Weeks
  <2> QED
      BY <2>1, StepArms
<1> QED
    BY <1>1, <1>2

(* Nothing but a call of an enter or a skip steps the schedule, and it      *)
(* steps the occurrence that is due.                                        *)
LEMMA AdvanceSteps ==
  ASSUME NEW from, Proper(row), Current(from), Advance(from)
  PROVE  /\ row' = [row EXCEPT !.due = Step(row),
                               !.status = IF row.frequency = "once" THEN "ended" ELSE @]
         /\ row.frequency = "once" => row'.due = row.due /\ row'.status = "ended"
         /\ row.frequency # "once" => row'.due = Step(row) /\ row'.status = row.status
         /\ row'.frequency = row.frequency /\ row'.anchor = row.anchor
         /\ row'.anchor2 = row.anchor2 /\ row'.amount = row.amount
         /\ Proper(row') /\ MonthIndex(row'.due) <= MonthIndex(row.due) + 12
<1> DEFINE s == [row EXCEPT !.due = from]
<1>1. row.due = from
      BY DEF Current
<1>2. s = row
      BY <1>1 DEF Proper, Schedules
<1>3. row' = [row EXCEPT !.due = Step(row),
                         !.status = IF row.frequency = "once" THEN "ended" ELSE @]
      BY <1>2, Zenon DEF Advance
<1> HIDE DEF s
<1> DEFINE next == Step(row)
<1>4. row.frequency = "once" => next = row.due
      BY StepArms
<1>5. row.frequency # "once" => Dated(next) /\ MonthIndex(next) <= MonthIndex(row.due) + 12
      BY StepIsLater
<1>6. Dated(next) /\ MonthIndex(next) <= MonthIndex(row.due) + 12
      BY <1>4, <1>5, MonthIndexNat DEF Proper
<1> HIDE DEF next
<1>7. /\ row.frequency \in Frequencies /\ row.anchor \in 1 .. 31 /\ row.anchor2 \in 0 .. 31
      /\ row.amount \in Amounts /\ row.status \in {"active", "paused", "ended"}
      /\ AnchorsOK(row)
      BY DEF Proper, Schedules
<1>8. /\ row'.frequency = row.frequency /\ row'.due = next /\ row'.anchor = row.anchor
      /\ row'.anchor2 = row.anchor2 /\ row'.amount = row.amount
      /\ row'.status = (IF row.frequency = "once" THEN "ended" ELSE row.status)
      BY <1>3 DEF Proper, Schedules, next
<1>9. row' \in Schedules
      BY <1>3, <1>6, <1>7 DEF Proper, Schedules, Dated, next
<1>10. AnchorsOK(row')
      BY <1>7, <1>8 DEF AnchorsOK
<1> QED
    BY <1>3, <1>4, <1>6, <1>8, <1>9, <1>10 DEF Proper, next

Rows == Proper(row) /\ shown \in [Tabs -> Schedules] /\ \A t \in Tabs : Proper(shown[t])

LEMMA DateDated ==
  ASSUME NEW d, IsDate(d)
  PROVE  Dated(d)
<1> DEFINE Y == 1 .. 9999
           M == 1 .. 12
           D == 1 .. 31
<1>1. d \in [year : Y, month : M, day : D] /\ \A y \in Y : y \in Nat
      BY DEF IsDate
<1> HIDE DEF Y, M, D
<1>2. d \in [year : Nat, month : M, day : D]
      BY <1>1
<1> QED
    BY <1>2 DEF IsDate, Dated, M, D

(* An edit leaves anchors that fit the frequency it sets.                   *)
LEMMA SaveProper ==
  ASSUME Rows, NEW t \in Tabs, NEW due \in {shown[t].due} \cup Redates, NEW amount \in Amounts,
         NEW p \in {shown[t]} \cup Recasts,
         row' = [row EXCEPT !.frequency = p.frequency, !.due = due, !.amount = amount,
                            !.anchor = Anchored(p, due), !.anchor2 = SecondAnchor(p)]
  PROVE  /\ Proper(row')
         /\ row'.frequency = p.frequency /\ row'.due = due /\ row'.amount = amount
         /\ row'.anchor = Anchored(p, due) /\ row'.status = row.status
<1> DEFINE a1 == Anchored(p, due)
           a2 == SecondAnchor(p)
<1>1. Dated(due)
      BY ScheduleAssumption, DateDated DEF Rows, Proper
<1>2. /\ p.frequency \in Frequencies
      /\ p.frequency = "semimonthly" =>
           p.anchor \in 1 .. 31 /\ p.anchor2 \in 1 .. 31 /\ p.anchor # p.anchor2
  <2>1. CASE p \in Recasts
        BY <2>1, ScheduleAssumption
  <2>2. CASE p = shown[t]
        BY <2>2 DEF Rows, Proper, Schedules, AnchorsOK
  <2> QED
      BY <2>1, <2>2
<1>3. /\ row.frequency \in Frequencies /\ row.anchor \in 1 .. 31 /\ row.anchor2 \in 0 .. 31
      /\ row.amount \in Amounts /\ row.status \in {"active", "paused", "ended"}
      /\ due.day \in 1 .. 31
      BY <1>1 DEF Rows, Proper, Schedules, Dated
<1>4. IF p.frequency = "semimonthly" THEN a1 \in 1 .. 30 /\ a2 \in a1 + 1 .. 31
                                     ELSE a1 \in 1 .. 31 /\ a2 = 0
  <2>1. CASE p.frequency = "semimonthly"
    <3>1. a1 = Lesser(p.anchor, p.anchor2) /\ a2 = Greater(p.anchor, p.anchor2)
          BY <2>1 DEF Anchored, SecondAnchor
    <3> QED
        BY <3>1, <1>2, <2>1 DEF Lesser, Greater
  <2>2. CASE p.frequency # "semimonthly"
    <3>1. a1 \in {due.day, row.anchor} /\ a2 = 0
          BY <2>2 DEF Anchored, SecondAnchor
    <3> QED
        BY <3>1, <1>3, <2>2
  <2> QED
      BY <2>1, <2>2
<1> HIDE DEF a1, a2
<1>5. row' = [row EXCEPT !.frequency = p.frequency, !.due = due, !.amount = amount,
                         !.anchor = a1, !.anchor2 = a2]
      BY DEF a1, a2
<1>6. a1 \in 1 .. 31 /\ a2 \in 0 .. 31
      BY <1>4
<1>7. /\ row'.frequency = p.frequency /\ row'.due = due /\ row'.amount = amount
      /\ row'.anchor = a1 /\ row'.anchor2 = a2 /\ row'.status = row.status
      BY <1>5 DEF Rows, Proper, Schedules
<1>8. row' \in Schedules
  <2>1. due \in [year : Nat, month : 1 .. 12, day : 1 .. 31] /\ p.frequency \in Frequencies
        BY <1>1, <1>2 DEF Dated
  <2>2. row \in Schedules
        BY DEF Rows, Proper
  <2> DEFINE D == [year : Nat, month : 1 .. 12, day : 1 .. 31]
             I == 1 .. 31
             J == 0 .. 31
  <2> HIDE DEF D, I, J
  <2>3. Schedules = [frequency : Frequencies, due : D, anchor : I, anchor2 : J, amount : Amounts,
                     status : {"active", "paused", "ended"}]
        BY DEF Schedules, D, I, J
  <2>4. due \in D /\ a1 \in I /\ a2 \in J
        BY <2>1, <1>6 DEF D, I, J
  <2> QED
      BY <1>5, <2>1, <2>2, <2>3, <2>4
<1>9. AnchorsOK(row')
      BY <1>4, <1>7 DEF AnchorsOK
<1> QED
    BY <1>1, <1>7, <1>8, <1>9 DEF Proper, a1

(* The rows are well formed, whatever the tabs hold: an edit may send back  *)
(* what a tab shows, so what they show is part of the invariant.            *)
LEMMA RowsInit == Init => Rows
<1> SUFFICES ASSUME Init PROVE Rows
    OBVIOUS
<1>1. PICK p \in Plans, a \in Amounts :
        row = [frequency |-> p.frequency, due |-> p.due, anchor |-> p.anchor,
               anchor2 |-> p.anchor2, amount |-> a, status |-> "active"]
      BY DEF Init
<1>2. p.frequency \in Frequencies /\ Dated(p.due) /\ AnchorsOK(p)
      BY ScheduleAssumption, DateDated
<1>3. p.anchor \in 1 .. 31 /\ p.anchor2 \in 0 .. 31
      BY <1>2 DEF AnchorsOK
<1>4. row \in Schedules
      BY <1>1, <1>2, <1>3 DEF Schedules, Dated
<1>5. Proper(row)
      BY <1>1, <1>2, <1>4 DEF Proper, AnchorsOK
<1> QED
    BY <1>4, <1>5 DEF Rows, Init

(* What a call does to the row.                                             *)
LEMMA SetStatusProper ==
  ASSUME Rows, NEW status \in {"active", "paused", "ended"}, row' = [row EXCEPT !.status = status]
  PROVE  Proper(row') /\ row' = [row EXCEPT !.status = status] /\ row'.due = row.due
         /\ row'.status = status /\ row'.frequency = row.frequency /\ row'.anchor = row.anchor
         /\ row'.anchor2 = row.anchor2
<1>1. /\ row'.due = row.due /\ row'.status = status /\ row'.frequency = row.frequency
      /\ row'.anchor = row.anchor /\ row'.anchor2 = row.anchor2
      BY DEF Rows, Proper, Schedules
<1>2. row' \in Schedules
      BY DEF Rows, Proper, Schedules
<1> QED
    BY <1>1, <1>2 DEF Rows, Proper, AnchorsOK

(* An enter or a skip steps the occurrence that is due, or does nothing.    *)
LEMMA EnterDoes ==
  ASSUME NEW t \in Tabs, Enter(t)
  PROVE  /\ shown' = shown /\ skipped' = skipped
         /\ \/ row' = row /\ postings' = postings
            \/ /\ row.status = "active" /\ Current(shown[t].due) /\ Advance(shown[t].due)
               /\ postings' = postings \cup
                    {[key |-> Key(shown[t].due), due |-> shown[t].due, amount |-> row.amount]}
<1> DEFINE from == shown[t].due
<1>1. shown' = shown /\ skipped' = skipped
      BY Zenon DEF Enter
<1>2. CASE row.status = "active" /\ Current(from) /\ ~ Conflicts(from)
      BY <1>1, <1>2, Zenon DEF Enter
<1>3. CASE ~ (row.status = "active" /\ Current(from) /\ ~ Conflicts(from))
  <2>1. row' = row /\ postings' = postings
        BY <1>3, Zenon DEF Enter
  <2> QED
      BY <1>1, <2>1
<1> QED
    BY <1>2, <1>3

LEMMA SkipDoes ==
  ASSUME NEW t \in Tabs, Skip(t)
  PROVE  /\ shown' = shown /\ postings' = postings
         /\ \/ row' = row /\ skipped' = skipped
            \/ /\ row.status # "ended" /\ Current(shown[t].due) /\ Advance(shown[t].due)
               /\ skipped' = skipped \cup {row.due}
<1> DEFINE from == shown[t].due
<1>1. shown' = shown /\ postings' = postings
      BY Zenon DEF Skip
<1>2. CASE row.status # "ended" /\ Current(from)
  <2>1. Advance(from) /\ skipped' = skipped \cup {from} /\ from = row.due
        BY <1>2, Zenon DEF Skip, Current
  <2> QED
      BY <1>1, <1>2, <2>1
<1>3. CASE ~ (row.status # "ended" /\ Current(from))
  <2>1. row' = row /\ skipped' = skipped
        BY <1>3, Zenon DEF Skip
  <2> QED
      BY <1>1, <2>1
<1> QED
    BY <1>2, <1>3

LEMMA RowsNext == Rows /\ [Next]_vars => Rows'
<1> SUFFICES ASSUME Rows, [Next]_vars PROVE Rows'
    OBVIOUS
<1>1. ASSUME shown' = shown, Proper(row')
      PROVE  Rows'
      BY <1>1 DEF Rows
<1>2. ASSUME NEW t \in Tabs, Enter(t)
      PROVE  Rows'
  <2>1. shown' = shown /\ (row' = row \/ (Current(shown[t].due) /\ Advance(shown[t].due)))
        BY <1>2, EnterDoes
  <2> QED
      BY <2>1, <1>1, AdvanceSteps DEF Rows
<1>3. ASSUME NEW t \in Tabs, Skip(t)
      PROVE  Rows'
  <2>1. shown' = shown /\ (row' = row \/ (Current(shown[t].due) /\ Advance(shown[t].due)))
        BY <1>3, SkipDoes
  <2> QED
      BY <2>1, <1>1, AdvanceSteps DEF Rows
<1>4. ASSUME NEW t \in Tabs, SetStatus(t)
      PROVE  Rows'
  <2>1. PICK status \in {"active", "paused", "ended"} : row' = [row EXCEPT !.status = status]
        BY <1>4 DEF SetStatus
  <2> QED
      BY <2>1, <1>1, <1>4, SetStatusProper DEF SetStatus
<1>5. ASSUME NEW t \in Tabs, Save(t)
      PROVE  Rows'
      BY <1>5, <1>1, SaveProper DEF Save
<1>6. ASSUME NEW t \in Tabs, Fetch(t)
      PROVE  Rows'
  <2>1. row' = row /\ shown' = [shown EXCEPT ![t] = row]
        BY <1>6 DEF Fetch
  <2>2. shown' \in [Tabs -> Schedules]
        BY <2>1 DEF Rows, Proper
  <2>3. ASSUME NEW u \in Tabs
        PROVE  Proper(shown'[u])
    <3>1. shown'[u] = (IF u = t THEN row ELSE shown[u])
          BY <2>1 DEF Rows
    <3> QED
        BY <3>1 DEF Rows
  <2> QED
      BY <2>1, <2>2, <2>3 DEF Rows
<1>7. CASE UNCHANGED vars
      BY <1>7, <1>1 DEF vars, Rows
<1> QED
    BY <1>2, <1>3, <1>4, <1>5, <1>6, <1>7 DEF Next

-----------------------------------------------------------------------------
(* A skipped occurrence lies before the one that is due, unless it is the   *)
(* due one of a schedule that has ended with it.                            *)
Past ==
  \A d \in skipped : Dated(d) /\ (Before(d, row.due) \/ (row.status = "ended" /\ d = row.due))

LEMMA PastNext == Rows /\ Past /\ [Next]_vars => Past'
<1> SUFFICES ASSUME Rows, Past, [Next]_vars PROVE Past'
    OBVIOUS
<1>1. Dated(row.due) /\ Proper(row)
      BY DEF Rows, Proper
(* A step leaves the occurrence it leaves behind.                           *)
<1>2. ASSUME NEW t \in Tabs, Advance(shown[t].due), Current(shown[t].due),
             row.status # "ended", skipped' \subseteq skipped \cup {row.due}
      PROVE  Past'
  <2>1. CASE row.frequency = "once"
    <3>1. row'.due = row.due /\ row'.status = "ended"
          BY <1>1, <1>2, <2>1, AdvanceSteps
    <3> QED
        BY <1>1, <1>2, <3>1 DEF Past
  <2>2. CASE row.frequency # "once"
    <3>1. row'.due = Step(row) /\ Dated(row'.due) /\ Before(row.due, row'.due)
          BY <1>1, <1>2, <2>2, AdvanceSteps, StepIsLater
    <3>2. ASSUME NEW d \in skipped'
          PROVE  Dated(d) /\ Before(d, row'.due)
      <4>1. Dated(d) /\ (Before(d, row.due) \/ d = row.due)
            BY <1>1, <1>2 DEF Past
      <4> QED
          BY <4>1, <3>1, <1>1, BeforeTransitive
    <3> QED
        BY <3>2 DEF Past
  <2> QED
      BY <2>1, <2>2
<1>3. ASSUME NEW t \in Tabs, Enter(t)
      PROVE  Past'
  <2>1. \/ row' = row /\ skipped' = skipped
        \/ /\ Advance(shown[t].due) /\ Current(shown[t].due)
           /\ row.status # "ended" /\ skipped' = skipped
        BY <1>3, EnterDoes
  <2> QED
      BY <2>1, <1>2 DEF Past
<1>4. ASSUME NEW t \in Tabs, Skip(t)
      PROVE  Past'
  <2>1. \/ row' = row /\ skipped' = skipped
        \/ /\ Advance(shown[t].due) /\ Current(shown[t].due)
           /\ row.status # "ended" /\ skipped' = skipped \cup {row.due}
        BY <1>4, SkipDoes
  <2> QED
      BY <2>1, <1>2 DEF Past
<1>5. ASSUME NEW t \in Tabs, SetStatus(t)
      PROVE  Past'
  <2>1. PICK status \in {"active", "paused", "ended"} :
          /\ row' = [row EXCEPT !.status = status]
          /\ skipped' = IF row.status = "ended" THEN skipped \ {row.due} ELSE skipped
        BY <1>5 DEF SetStatus
  <2>2. row'.due = row.due
        BY <2>1, SetStatusProper
  <2> QED
      BY <2>1, <2>2 DEF Past
<1>6. ASSUME NEW t \in Tabs, Save(t)
      PROVE  Past'
  <2>1. PICK due \in {shown[t].due} \cup Redates, amount \in Amounts,
             p \in {shown[t]} \cup Recasts :
          /\ row' = [row EXCEPT !.frequency = p.frequency, !.due = due, !.amount = amount,
                                !.anchor = Anchored(p, due), !.anchor2 = SecondAnchor(p)]
          /\ skipped' = IF due = row.due THEN skipped ELSE {d \in skipped : Before(d, due)}
        BY <1>6 DEF Save
  <2>2. row'.due = due /\ row'.status = row.status
        BY <2>1, SaveProper
  <2>3. CASE due = row.due
    <3>1. skipped' = skipped /\ row'.due = row.due
          BY <2>1, <2>2, <2>3
    <3> QED
        BY <3>1, <2>2 DEF Past
  <2>4. CASE due # row.due
    <3>1. skipped' = {d \in skipped : Before(d, row'.due)}
          BY <2>1, <2>2, <2>4
    <3>2. \A d \in skipped' : d \in skipped /\ Before(d, row'.due)
          BY <3>1
    <3> QED
        BY <3>2 DEF Past
  <2> QED
      BY <2>3, <2>4
<1>7. CASE row' = row /\ skipped' = skipped
      BY <1>7 DEF Past
<1> QED
    BY <1>3, <1>4, <1>5, <1>6, <1>7 DEF Next, Fetch, vars

(* A tab posts the occurrence that is due, and no skipped one is: the step  *)
(* of a skip leads past it, and where it does not, the schedule has ended.  *)
THEOREM SkipsHold == Spec => SkippedStays
<1>1. Init => Rows /\ Past
      BY RowsInit DEF Init, Past
<1>2. Rows /\ Past /\ [Next]_vars => (Rows /\ Past)'
      BY RowsNext, PastNext
<1>3. Rows /\ Past /\ [Next]_vars => [\A p \in postings' \ postings : p.due \notin skipped]_vars
  <2> SUFFICES ASSUME Rows, Past, [Next]_vars, NEW p \in postings' \ postings
               PROVE  p.due \notin skipped
      OBVIOUS
  <2>1. PICK t \in Tabs : Enter(t)
        BY DEF Next, Skip, SetStatus, Save, Fetch, vars
  <2>2. /\ row.status = "active" /\ Current(shown[t].due)
        /\ p = [key |-> Key(shown[t].due), due |-> shown[t].due, amount |-> row.amount]
        BY <2>1, EnterDoes
  <2>3. p.due = row.due
        BY <2>2 DEF Current
  <2>4. ~ Before(row.due, row.due)
        BY NotBeforeItself DEF Rows, Proper
  <2> QED
      BY <2>2, <2>3, <2>4 DEF Past
<1> QED
    BY <1>1, <1>2, <1>3, PTL DEF Spec, SkippedStays

(* An edit that names the date it was shown keeps the anchor of the row, so *)
(* the next date is the one it would have been.                             *)
THEOREM EditsHold == Spec => EditKeepsCadence
<1>1. Rows /\ [Next]_vars =>
        [(row'.due = row.due /\ row'.frequency = row.frequency /\ row.frequency # "semimonthly")
           => Step(row') = Step(row)]_vars
  <2> SUFFICES ASSUME Rows, [Next]_vars, row'.due = row.due, row'.frequency = row.frequency,
                      row.frequency # "semimonthly"
               PROVE  Step(row') = Step(row)
      OBVIOUS
  <2>1. Proper(row) /\ row.frequency \in Frequencies
        BY DEF Rows, Proper, Schedules
  <2>2. ASSUME row'.anchor = row.anchor
        PROVE  Step(row') = Step(row)
        BY <2>1, <2>2, StepReads
  <2>3. ASSUME NEW t \in Tabs, Enter(t) \/ Skip(t)
        PROVE  row'.anchor = row.anchor
    <3>1. row' = row \/ (Current(shown[t].due) /\ Advance(shown[t].due))
          BY <2>3, EnterDoes, SkipDoes
    <3> QED
        BY <3>1, <2>1, AdvanceSteps
  <2>4. ASSUME NEW t \in Tabs, SetStatus(t)
        PROVE  row'.anchor = row.anchor
        BY <2>4, SetStatusProper DEF SetStatus
  <2>5. ASSUME NEW t \in Tabs, Save(t)
        PROVE  row'.anchor = row.anchor
    <3>1. PICK due \in {shown[t].due} \cup Redates, amount \in Amounts,
               p \in {shown[t]} \cup Recasts :
            row' = [row EXCEPT !.frequency = p.frequency, !.due = due, !.amount = amount,
                               !.anchor = Anchored(p, due), !.anchor2 = SecondAnchor(p)]
          BY <2>5 DEF Save
    <3>2. row'.due = due /\ row'.frequency = p.frequency /\ row'.anchor = Anchored(p, due)
          BY <3>1, SaveProper
    <3>3. Anchored(p, due) = row.anchor
          BY <3>2 DEF Anchored
    <3> QED
        BY <3>2, <3>3
  <2>6. CASE row' = row
        BY <2>6
  <2> QED
      BY <2>2, <2>3, <2>4, <2>5, <2>6 DEF Next, Fetch, vars
<1> QED
    BY <1>1, RowsInit, RowsNext, PTL DEF Spec, EditKeepsCadence

-----------------------------------------------------------------------------
(* Types *)

(* A schedule that can be stepped by the calls that are left, a year each,  *)
(* and is still due in a year of four digits.                               *)
WithinCalendar ==
  /\ \A p \in Plans : p.due.year + MaxCalls <= 9999
  /\ \A d \in Redates : d.year + MaxCalls <= 9999

Near(d, n) ==
  MonthIndex(d) \in Nat /\ 12 <= MonthIndex(d) /\ MonthIndex(d) + 12 * (MaxCalls - n) < 120000

Typed ==
  /\ calls \in 0 .. MaxCalls
  /\ Near(row.due, calls) /\ \A t \in Tabs : Near(shown[t].due, calls)
  /\ \A p \in postings : IsDate(p.due) /\ p.amount \in Amounts

LEMMA NearIsDate ==
  ASSUME NEW d, NEW n \in 0 .. MaxCalls, Dated(d), Near(d, n)
  PROVE  IsDate(d)
<1> DEFINE M == 1 .. 12
           D == 1 .. 31
           Y == 1 .. 9999
<1>1. MaxCalls \in Nat
      BY ScheduleAssumption
<1>2. /\ d \in [year : Nat, month : M, day : D] /\ d.day <= DaysInMonth(d.year, d.month)
      /\ d.year \in Nat /\ d.month \in 1 .. 12
      BY DEF Dated
<1>3. 12 <= d.year * 12 + d.month - 1 /\ d.year * 12 + d.month - 1 < 120000
  <2>1. \A i \in Nat : i + 12 * (MaxCalls - n) < 120000 => i < 120000
        BY <1>1
  <2> QED
      BY <1>2, <2>1 DEF Near, MonthIndex
<1>4. d.year \in Y
  <2>1. ASSUME NEW y \in Nat, NEW m \in 1 .. 12, 12 <= y * 12 + m - 1, y * 12 + m - 1 < 120000
        PROVE  1 <= y /\ y <= 9999
        BY <2>1
  <2>2. 1 <= d.year /\ d.year <= 9999
        BY <1>2, <1>3, <2>1
  <2>3. \A y \in Nat : 1 <= y /\ y <= 9999 => y \in Y
        OBVIOUS
  <2> HIDE DEF Y
  <2> QED
      BY <1>2, <2>2, <2>3
<1> HIDE DEF M, D, Y
<1>5. d \in [year : Y, month : M, day : D]
      BY <1>2, <1>4
<1> QED
    BY <1>2, <1>5 DEF IsDate, M, D, Y

LEMMA NearAtFirst ==
  ASSUME NEW d, IsDate(d), d.year + MaxCalls <= 9999, NEW n \in 0 .. MaxCalls
  PROVE  Near(d, n)
<1>1. MaxCalls \in Nat
      BY ScheduleAssumption
<1>2. d.year \in Nat /\ d.year >= 1 /\ d.month \in 1 .. 12
  <2> DEFINE Y == 1 .. 9999
  <2>1. \A y \in Y : y \in Nat /\ y >= 1
        OBVIOUS
  <2> HIDE DEF Y
  <2>2. d.year \in Y /\ d.month \in 1 .. 12
        BY DEF IsDate, Y
  <2> QED
      BY <2>1, <2>2
<1>3. ASSUME NEW y \in Nat, NEW m \in 1 .. 12, y >= 1, y + MaxCalls <= 9999
      PROVE  /\ y * 12 + m - 1 \in Nat /\ 12 <= y * 12 + m - 1
             /\ y * 12 + m - 1 + 12 * (MaxCalls - n) < 120000
      BY <1>1, <1>3
<1> QED
    BY <1>1, <1>2, <1>3 DEF Near, MonthIndex

(* A call uses one of the calls left.                                       *)
LEMMA StaysNear ==
  ASSUME NEW n \in 0 .. MaxCalls, n < MaxCalls, NEW a, NEW b, Dated(a), Dated(b), Near(a, n),
         MonthIndex(a) <= MonthIndex(b), MonthIndex(b) <= MonthIndex(a) + 12
  PROVE  Near(b, n + 1)
<1>1. MaxCalls \in Nat /\ MonthIndex(a) \in Nat /\ MonthIndex(b) \in Nat
      BY ScheduleAssumption, MonthIndexNat
<1> HIDE DEF MonthIndex
<1> QED
    BY <1>1 DEF Near

LEMMA BeforeMonths ==
  ASSUME NEW a, NEW b, Dated(a), Dated(b), Before(a, b)
  PROVE  MonthIndex(a) <= MonthIndex(b)
<1>1. /\ a.year \in Nat /\ a.month \in 1 .. 12
      /\ b.year \in Nat /\ b.month \in 1 .. 12
      BY DEF Dated
<1> QED
    BY <1>1 DEF MonthIndex, Before

LEMMA TypedNext ==
  ASSUME WithinCalendar, Rows, Typed, [Next]_vars
  PROVE  Typed'
<1>1. /\ Dated(row.due) /\ Proper(row) /\ \A t \in Tabs : Dated(shown[t].due)
      /\ MaxCalls \in Nat /\ calls \in 0 .. MaxCalls /\ IsDate(row.due) /\ row.amount \in Amounts
  <2>1. Dated(row.due) /\ calls \in 0 .. MaxCalls /\ Near(row.due, calls)
        BY DEF Rows, Typed, Proper
  <2>2. IsDate(row.due)
        BY <2>1, NearIsDate
  <2> QED
      BY <2>1, <2>2, ScheduleAssumption DEF Rows, Proper, Schedules
(* A call that leaves the row due where it was, or at most a year later.    *)
<1>2. ASSUME Called, shown' = shown, Dated(row'.due), Near(row'.due, calls'),
             postings' \subseteq postings
               \cup {[key |-> Key(row.due), due |-> row.due, amount |-> row.amount]}
      PROVE  Typed'
  <2>1. calls' = calls + 1 /\ calls' \in 0 .. MaxCalls /\ calls < MaxCalls
        BY <1>1, <1>2 DEF Called
  <2>2. \A t \in Tabs : Near(shown[t].due, calls')
    <3> TAKE t \in Tabs
    <3>1. Dated(shown[t].due) /\ Near(shown[t].due, calls)
          BY <1>1 DEF Typed
    <3>2. MonthIndex(shown[t].due) \in Nat
          BY <3>1, MonthIndexNat
    <3>3. Near(shown[t].due, calls + 1)
          BY <2>1, <1>1, <3>1, <3>2, StaysNear
    <3> QED
        BY <3>3, <2>1
  <2>3. \A p \in postings' : IsDate(p.due) /\ p.amount \in Amounts
    <3> TAKE p \in postings'
    <3>1. CASE p \in postings
          BY <3>1 DEF Typed
    <3>2. CASE p = [key |-> Key(row.due), due |-> row.due, amount |-> row.amount]
          BY <3>2, <1>1
    <3> QED
        BY <1>2, <3>1, <3>2
  <2> QED
      BY <1>2, <2>1, <2>2, <2>3 DEF Typed
(* The same due date is near with a call less.                              *)
<1>3. ASSUME Called, NEW d, Dated(d), Near(d, calls)
      PROVE  Near(d, calls')
  <2>1. calls' = calls + 1 /\ calls < MaxCalls /\ MonthIndex(d) \in Nat
        BY <1>3, MonthIndexNat DEF Called
  <2>2. Near(d, calls + 1)
        BY <2>1, <1>1, <1>3, StaysNear
  <2> QED
      BY <2>1, <2>2
<1>4. ASSUME NEW from, Called, Current(from), Advance(from)
      PROVE  Dated(row'.due) /\ Near(row'.due, calls')
  <2>1. Dated(row'.due) /\ MonthIndex(row'.due) <= MonthIndex(row.due) + 12
        BY <1>1, <1>4, AdvanceSteps DEF Proper
  <2>2. MonthIndex(row.due) <= MonthIndex(row'.due)
    <3>1. CASE row.frequency = "once"
      <4>1. row'.due = row.due
            BY <1>1, <1>4, <3>1, AdvanceSteps
      <4> QED
          BY <4>1, <1>1, MonthIndexNat
    <3>2. CASE row.frequency # "once"
      <4>1. Before(row.due, row'.due)
            BY <1>1, <1>4, <3>2, AdvanceSteps, StepIsLater
      <4> QED
          BY <4>1, <1>1, <2>1, BeforeMonths
    <3> QED
        BY <3>1, <3>2
  <2>3. calls' = calls + 1 /\ calls < MaxCalls /\ Near(row.due, calls)
        BY <1>4 DEF Called, Typed
  <2>4. Near(row'.due, calls + 1)
        BY <2>1, <2>2, <2>3, <1>1, StaysNear
  <2> QED
      BY <2>1, <2>3, <2>4
<1>5. ASSUME NEW t \in Tabs, Enter(t)
      PROVE  Typed'
  <2>1. Called /\ shown' = shown
        BY <1>5, Zenon DEF Enter
  <2>2. CASE row' = row /\ postings' = postings
        BY <2>1, <2>2, <1>1, <1>2, <1>3 DEF Typed
  <2>3. CASE /\ Current(shown[t].due) /\ Advance(shown[t].due)
             /\ postings' = postings \cup
                  {[key |-> Key(shown[t].due), due |-> shown[t].due, amount |-> row.amount]}
    <3>1. shown[t].due = row.due
          BY <2>3 DEF Current
    <3>2. Dated(row'.due) /\ Near(row'.due, calls')
          BY <2>1, <2>3, <1>4
    <3>3. postings' = postings \cup
            {[key |-> Key(row.due), due |-> row.due, amount |-> row.amount]}
          BY <2>3, <3>1
    <3> QED
        BY <2>1, <3>2, <3>3, <1>2
  <2> QED
      BY <1>5, <2>2, <2>3, EnterDoes
<1>6. ASSUME NEW t \in Tabs, Skip(t)
      PROVE  Typed'
  <2>1. Called /\ shown' = shown /\ postings' = postings
        BY <1>6, Zenon DEF Skip
  <2>2. CASE row' = row
        BY <2>1, <2>2, <1>1, <1>2, <1>3 DEF Typed
  <2>3. CASE Current(shown[t].due) /\ Advance(shown[t].due)
    <3>1. Dated(row'.due) /\ Near(row'.due, calls')
          BY <2>1, <2>3, <1>4
    <3> QED
        BY <2>1, <3>1, <1>2
  <2> QED
      BY <1>6, <2>2, <2>3, SkipDoes
<1>7. ASSUME NEW t \in Tabs, SetStatus(t)
      PROVE  Typed'
  <2>1. PICK status \in {"active", "paused", "ended"} : row' = [row EXCEPT !.status = status]
        BY <1>7 DEF SetStatus
  <2>2. row'.due = row.due
        BY <2>1, SetStatusProper
  <2>3. Called /\ shown' = shown /\ postings' = postings
        BY <1>7 DEF SetStatus
  <2>4. Near(row.due, calls')
        BY <2>3, <1>1, <1>3 DEF Typed
  <2> QED
      BY <2>2, <2>3, <2>4, <1>1, <1>2
<1>8. ASSUME NEW t \in Tabs, Save(t)
      PROVE  Typed'
  <2>1. PICK due \in {shown[t].due} \cup Redates, amount \in Amounts,
             p \in {shown[t]} \cup Recasts :
          row' = [row EXCEPT !.frequency = p.frequency, !.due = due, !.amount = amount,
                             !.anchor = Anchored(p, due), !.anchor2 = SecondAnchor(p)]
        BY <1>8 DEF Save
  <2>2. row'.due = due /\ Dated(row'.due)
        BY <2>1, SaveProper DEF Proper
  <2>3. Called /\ shown' = shown /\ postings' = postings
        BY <1>8 DEF Save
  <2>4. Near(due, calls)
    <3>1. CASE due = shown[t].due
          BY <3>1 DEF Typed
    <3>2. CASE due \in Redates
      <4>1. IsDate(due) /\ due.year + MaxCalls <= 9999
            BY <3>2, ScheduleAssumption DEF WithinCalendar
      <4> QED
          BY <4>1, <1>1, NearAtFirst
    <3> QED
        BY <3>1, <3>2
  <2>5. Near(due, calls')
        BY <2>2, <2>3, <2>4, <1>3
  <2> QED
      BY <2>2, <2>3, <2>5, <1>2
<1>9. ASSUME NEW t \in Tabs, Fetch(t)
      PROVE  Typed'
  <2>1. /\ shown' = [shown EXCEPT ![t] = row]
        /\ row' = row /\ postings' = postings /\ calls' = calls
        BY <1>9 DEF Fetch
  <2>2. \A u \in Tabs : shown'[u] = (IF u = t THEN row ELSE shown[u])
        BY <2>1 DEF Rows
  <2>3. \A u \in Tabs : Near(shown'[u].due, calls)
        BY <2>2 DEF Typed
  <2> QED
      BY <2>1, <2>3 DEF Typed
<1>10. CASE UNCHANGED vars
       BY <1>10 DEF vars, Typed
<1> QED
    BY <1>5, <1>6, <1>7, <1>8, <1>9, <1>10 DEF Next

(* Every due date is a day of the calendar: the steps, the clamped month    *)
(* ends and the edits name no 31st of a month of 30 days.                   *)
THEOREM ScheduleTypeCorrect == WithinCalendar => (Spec => []TypeOK)
<1> SUFFICES ASSUME WithinCalendar PROVE Spec => []TypeOK
    OBVIOUS
<1>1. Init => Rows /\ Typed
  <2> SUFFICES ASSUME Init PROVE Rows /\ Typed
      OBVIOUS
  <2>1. PICK p \in Plans : row.due = p.due
        BY DEF Init
  <2>2. IsDate(row.due) /\ row.due.year + MaxCalls <= 9999 /\ 0 \in 0 .. MaxCalls
        BY <2>1, ScheduleAssumption DEF WithinCalendar
  <2>3. Near(row.due, 0)
        BY <2>2, NearAtFirst
  <2>4. /\ calls = 0 /\ postings = {}
        /\ \A t \in Tabs : shown[t] = row
        BY DEF Init
  <2> QED
      BY <2>2, <2>3, <2>4, RowsInit DEF Typed
<1>2. Rows /\ Typed /\ [Next]_vars => (Rows /\ Typed)'
      BY RowsNext, TypedNext
<1>3. Rows /\ Typed => TypeOK
  <2> SUFFICES ASSUME Rows, Typed PROVE TypeOK
      OBVIOUS
  <2>1. IsDate(row.due)
        BY NearIsDate DEF Rows, Typed, Proper
  <2> QED
      BY <2>1 DEF Rows, Typed, TypeOK, Proper, Schedules
<1> QED
    BY <1>1, <1>2, <1>3, PTL DEF Spec

-----------------------------------------------------------------------------
(* The cadence *)

LEMMA LaterDays ==
  ASSUME NEW i \in Nat, NEW a \in 1 .. 31, NEW b \in 1 .. 31, a <= b
  PROVE  ~ Before(InMonth(i, b), InMonth(i, a))
<1> DEFINE y == i \div 12
           m == (i % 12) + 1
           l == DaysInMonth(y, m)
<1>1. l \in 28 .. 31 /\ y \in Int /\ m \in Int
      BY DaysBound
<1>2. /\ InMonth(i, a) = Date(y, m, IF a <= l THEN a ELSE l)
      /\ InMonth(i, b) = Date(y, m, IF b <= l THEN b ELSE l)
      BY Zenon DEF InMonth
<1> HIDE DEF y, m, l
<1> QED
    BY <1>1, <1>2 DEF Date, Before

(* The dates of a month grid from the day after a date to a year on.        *)
Horizon(d) == InMonth(MonthIndex(d) + 12, 31)
Ahead(d, days, n, phase) ==
  {e \in {InMonth(i, day) :
            i \in {j \in MonthIndex(NextDay(d)) .. MonthIndex(Horizon(d)) :
                     (j % n) = phase},
            day \in days} :
     ~ Before(e, NextDay(d)) /\ ~ Before(Horizon(d), e)}

LEMMA AheadIn ==
  ASSUME NEW d, Dated(d), NEW n \in 1 .. 12, NEW phase, NEW days \in SUBSET (1 .. 31), NEW e
  PROVE  e \in Ahead(d, days, n, phase) <=>
           \E i \in Nat, day \in days :
             /\ e = InMonth(i, day) /\ MonthIndex(d) <= i /\ i <= MonthIndex(d) + 12
             /\ (i % n) = phase /\ Before(d, e)
<1>1. /\ Dated(NextDay(d)) /\ Before(d, NextDay(d)) /\ MonthIndex(d) \in Nat
      /\ MonthIndex(NextDay(d)) \in Nat
      /\ MonthIndex(d) <= MonthIndex(NextDay(d))
      /\ MonthIndex(NextDay(d)) <= MonthIndex(d) + 1
      /\ Dated(Horizon(d)) /\ MonthIndex(Horizon(d)) = MonthIndex(d) + 12
  <2>1. MonthIndex(d) \in Nat /\ 31 \in 1 .. 31
        BY MonthIndexNat
  <2>2. Dated(NextDay(d)) /\ Before(d, NextDay(d))
        BY NextDayDated
  <2>3. MonthIndex(NextDay(d)) = MonthIndex(d) \/ MonthIndex(NextDay(d)) = MonthIndex(d) + 1
        BY NextDayDated
  <2>4. MonthIndex(d) + 12 \in Nat
        BY <2>1
  <2>5. Dated(Horizon(d)) /\ MonthIndex(Horizon(d)) = MonthIndex(d) + 12
        BY <2>1, <2>4, InMonthDated DEF Horizon
  <2> QED
      BY <2>1, <2>2, <2>3, <2>5
<1>2. ASSUME NEW i \in Nat, NEW day \in days, e = InMonth(i, day)
      PROVE  /\ Dated(e) /\ MonthIndex(e) = i
             /\ i <= MonthIndex(d) + 12 => ~ Before(Horizon(d), e)
             /\ Before(d, e) <=> ~ Before(e, NextDay(d))
             /\ Before(d, e) => MonthIndex(NextDay(d)) <= i
  <2>1. Dated(e) /\ MonthIndex(e) = i /\ day \in 1 .. 31
        BY <1>2, InMonthDated
  <2>2. ASSUME i <= MonthIndex(d) + 12
        PROVE  ~ Before(Horizon(d), e)
    <3>1. CASE i < MonthIndex(d) + 12
      <4>1. Before(e, Horizon(d))
            BY <1>1, <2>1, <3>1, LaterMonth
      <4> QED
          BY <4>1, <1>1, <2>1, BeforeTransitive, NotBeforeItself
    <3>2. CASE i = MonthIndex(d) + 12
          BY <1>2, <2>1, <3>2, LaterDays DEF Horizon
    <3> QED
        BY <2>2, <3>1, <3>2, <1>1
  <2>3. ASSUME Before(d, e)
        PROVE  ~ Before(e, NextDay(d))
        BY <2>3, <2>1, NextIsNext
  <2>4. ASSUME ~ Before(e, NextDay(d))
        PROVE  Before(d, e)
    <3>1. Before(NextDay(d), e) \/ e = NextDay(d)
          BY <2>1, <2>4, <1>1, BeforeTotal
    <3> QED
        BY <3>1, <2>1, <1>1, BeforeTransitive
  <2>5. ASSUME Before(d, e)
        PROVE  MonthIndex(NextDay(d)) <= i
    <3>1. ~ Before(e, NextDay(d))
          BY <2>5, <2>3
    <3>2. ~ (MonthIndex(e) < MonthIndex(NextDay(d)))
          BY <3>1, <2>1, <1>1, LaterMonth
    <3> QED
        BY <3>2, <2>1, <1>1
  <2> QED
      BY <2>1, <2>2, <2>3, <2>4, <2>5
<1>3. ASSUME e \in Ahead(d, days, n, phase)
      PROVE  \E i \in Nat, day \in days :
               /\ e = InMonth(i, day) /\ MonthIndex(d) <= i /\ i <= MonthIndex(d) + 12
               /\ (i % n) = phase /\ Before(d, e)
  <2>1. PICK i \in MonthIndex(NextDay(d)) .. MonthIndex(Horizon(d)), day \in days :
          /\ (i % n) = phase /\ e = InMonth(i, day)
          /\ ~ Before(e, NextDay(d)) /\ ~ Before(Horizon(d), e)
        BY <1>3 DEF Ahead
  <2>2. i \in Nat /\ MonthIndex(d) <= i /\ i <= MonthIndex(d) + 12
        BY <1>1
  <2>3. Before(d, e)
        BY <1>2, <2>1, <2>2
  <2> QED
      BY <2>1, <2>2, <2>3
<1>4. ASSUME NEW i \in Nat, NEW day \in days,
             e = InMonth(i, day), MonthIndex(d) <= i, i <= MonthIndex(d) + 12,
             (i % n) = phase, Before(d, e)
      PROVE  e \in Ahead(d, days, n, phase)
  <2>1. /\ ~ Before(e, NextDay(d)) /\ ~ Before(Horizon(d), e)
        /\ MonthIndex(NextDay(d)) <= i
        BY <1>2, <1>4
  <2>2. i \in MonthIndex(NextDay(d)) .. MonthIndex(Horizon(d))
        BY <1>1, <1>4, <2>1
  <2> QED
      BY <1>4, <2>1, <2>2 DEF Ahead
<1> QED
    BY <1>3, <1>4

LEMMA MonthsApart ==
  ASSUME NEW n \in {1, 3, 6, 12}, NEW i \in Nat, NEW j \in Nat, i < j, j % n = i % n
  PROVE  i + n <= j
  BY SMTT(60)

LEMMA MonthsOn ==
  ASSUME NEW n \in {1, 3, 6, 12}, NEW i \in Nat
  PROVE  (i + n) % n = i % n
  BY SMTT(60)

LEMMA MonthGrid ==
  ASSUME NEW c, c.kind # "epoch_grid", NEW from, NEW to, NEW e
  PROVE  e \in CadenceDatesBetween(c, from, to) <=>
           \E i \in MonthIndex(from) .. MonthIndex(to), day \in c.days :
              /\ (i % c.interval) = c.phase /\ e = InMonth(i, day)
              /\ ~ Before(e, from) /\ ~ Before(to, e)
  BY SMTT(60) DEF CadenceDatesBetween

LEMMA DayGrid ==
  ASSUME NEW c, c.kind = "epoch_grid", NEW from, NEW to, NEW e, NEW steps, NEW first,
         steps = - ((c.day - EpochDay(from)) \div c.interval),
         first = c.day + steps * c.interval
  PROVE  e \in CadenceDatesBetween(c, from, to) <=>
           \E k \in 0 .. (EpochDay(to) - first) \div c.interval :
              e = CivilDate(first + k * c.interval)
  BY SMTT(60) DEF CadenceDatesBetween

LEMMA CadenceArms ==
  ASSUME NEW s
  PROVE  /\ s.frequency = "semimonthly" => CadenceOf(s) = DayPair(s.anchor, s.anchor2)
         /\ s.frequency \in DOMAIN Months =>
              CadenceOf(s) = DayOfMonth(s.anchor, Months[s.frequency],
                                        MonthIndex(s.due) % Months[s.frequency])
         /\ s.frequency \in DOMAIN Weeks =>
              CadenceOf(s) = EpochGrid(Weeks[s.frequency], EpochDay(s.due))
<1>1. /\ \A f : f = "semimonthly" => f \notin DOMAIN Months /\ f \notin DOMAIN Weeks
      /\ \A f : f \in DOMAIN Months => f # "semimonthly" /\ f \notin DOMAIN Weeks
      /\ \A f : f \in DOMAIN Weeks => f # "semimonthly" /\ f \notin DOMAIN Months
      BY DEF Months, Weeks
<1>2. CASE s.frequency = "semimonthly"
      BY <1>1, <1>2, Zenon DEF CadenceOf
<1>3. CASE s.frequency \in DOMAIN Months
      BY <1>1, <1>3, Zenon DEF CadenceOf
<1>4. CASE s.frequency \in DOMAIN Weeks
      BY <1>1, <1>4, Zenon DEF CadenceOf
<1> QED
    BY <1>2, <1>3, <1>4

(* A schedule on a grid of months is due on one of its days, and the grid   *)
(* after it is the dates ahead.                                             *)
LEMMA OnMonthGrid ==
  ASSUME NEW s, NEW c, CadenceOf(s) = c, Dated(s.due), c.kind # "epoch_grid"
  PROVE  /\ OnCadence(s) => \E day \in c.days : s.due = InMonth(MonthIndex(s.due), day)
         /\ NextOnCadence(s) = Earliest(Ahead(s.due, c.days, c.interval, c.phase))
<1>1. ASSUME OnCadence(s)
      PROVE  \E day \in c.days : s.due = InMonth(MonthIndex(s.due), day)
  <2>1. s.due \in CadenceDatesBetween(c, s.due, s.due)
        BY <1>1, Zenon DEF OnCadence
  <2>2. \E i \in MonthIndex(s.due) .. MonthIndex(s.due), day \in c.days : s.due = InMonth(i, day)
    <3>1. ASSUME NEW d, d \in CadenceDatesBetween(c, d, d)
          PROVE  \E i \in MonthIndex(d) .. MonthIndex(d), day \in c.days : d = InMonth(i, day)
          BY <3>1, SMTT(60) DEF CadenceDatesBetween
    <3> QED
        BY <2>1, <3>1
  <2>3. \A i \in MonthIndex(s.due) .. MonthIndex(s.due) : i = MonthIndex(s.due)
        BY MonthIndexNat
  <2> QED
      BY <2>2, <2>3
<1>2. NextOnCadence(s) = Earliest(Ahead(s.due, c.days, c.interval, c.phase))
  <2>1. CadenceDatesBetween(c, NextDay(s.due), Horizon(s.due))
          = Ahead(s.due, c.days, c.interval, c.phase)
    <3>1. \A e : e \in CadenceDatesBetween(c, NextDay(s.due), Horizon(s.due)) <=>
            \E i \in MonthIndex(NextDay(s.due)) .. MonthIndex(Horizon(s.due)), day \in c.days :
               /\ (i % c.interval) = c.phase /\ e = InMonth(i, day)
               /\ ~ Before(e, NextDay(s.due)) /\ ~ Before(Horizon(s.due), e)
          BY MonthGrid
    <3>2. \A e : e \in Ahead(s.due, c.days, c.interval, c.phase) <=>
            \E i \in MonthIndex(NextDay(s.due)) .. MonthIndex(Horizon(s.due)), day \in c.days :
               /\ (i % c.interval) = c.phase /\ e = InMonth(i, day)
               /\ ~ Before(e, NextDay(s.due)) /\ ~ Before(Horizon(s.due), e)
          BY SMTT(60) DEF Ahead
    <3>3. \A e : e \in CadenceDatesBetween(c, NextDay(s.due), Horizon(s.due)) <=>
                 e \in Ahead(s.due, c.days, c.interval, c.phase)
          BY <3>1, <3>2
    <3> QED
        BY <3>3
  <2>2. NextOnCadence(s) = Earliest(CadenceDatesBetween(c, NextDay(s.due), Horizon(s.due)))
        BY Zenon DEF NextOnCadence, Horizon
  <2> QED
      BY <2>1, <2>2, Zenon
<1> QED
    BY <1>1, <1>2

(* The next occurrence of a bill of one day in so many months.              *)
LEMMA MonthsOnCadence ==
  ASSUME NEW s, Proper(s), s.frequency \in DOMAIN Months, OnCadence(s)
  PROVE  Step(s) = NextOnCadence(s)
<1> DEFINE n == Months[s.frequency]
           mi == MonthIndex(s.due)
           a == s.anchor
           c == DayOfMonth(a, n, mi % n)
           next == InMonth(mi + n, a)
<1>1. n \in {1, 3, 6, 12} /\ n \in 1 .. 12
      BY DEF Months
<1>2. Dated(s.due) /\ mi \in Nat /\ a \in 1 .. 31
      BY MonthIndexNat DEF Proper, Schedules
<1>3. CadenceOf(s) = c /\ Step(s) = next
      BY CadenceArms, StepArms
<1> HIDE DEF n, mi, a
<1>4. c.kind # "epoch_grid" /\ c.days = {a} /\ c.interval = n /\ c.phase = mi % n
      BY DEF DayOfMonth
<1> HIDE DEF c
<1> USE DEF mi, a
<1>5. NextOnCadence(s) = Earliest(Ahead(s.due, {a}, n, mi % n)) /\ s.due = InMonth(mi, a)
  <2>1. /\ \E day \in c.days : s.due = InMonth(mi, day)
        /\ NextOnCadence(s) = Earliest(Ahead(s.due, c.days, c.interval, c.phase))
        BY <1>2, <1>3, <1>4, OnMonthGrid
  <2> QED
      BY <2>1, <1>4
<1>6. /\ {a} \in SUBSET (1 .. 31) /\ mi + n \in Nat /\ mi < mi + n
      /\ mi + n <= mi + 12 /\ (mi + n) % n = mi % n
      BY <1>1, <1>2, MonthsOn
<1>7. Dated(next) /\ MonthIndex(next) = mi + n /\ Before(s.due, next)
      BY <1>2, <1>6, InMonthDated, LaterMonth
<1>8. next \in Ahead(s.due, {a}, n, mi % n)
      BY <1>1, <1>2, <1>6, <1>7, AheadIn
<1>9. ASSUME NEW e \in Ahead(s.due, {a}, n, mi % n)
      PROVE  Dated(e) /\ (e # next => Before(next, e))
  <2>1. PICK i \in Nat : /\ e = InMonth(i, a) /\ mi <= i /\ (i % n) = mi % n
                         /\ Before(s.due, e)
        BY <1>1, <1>2, <1>6, AheadIn
  <2>2. Dated(e) /\ MonthIndex(e) = i
        BY <2>1, <1>2, InMonthDated
  <2>3. i # mi
        BY <2>1, <1>5, <1>2, NotBeforeItself
  <2>4. mi + n <= i
        BY <2>1, <2>3, <1>1, <1>2, MonthsApart
  <2>5. CASE i = mi + n
        BY <2>5, <2>1, <2>2
  <2>6. CASE mi + n < i
        BY <2>6, <2>2, <1>7, LaterMonth
  <2> QED
      BY <2>2, <2>4, <2>5, <2>6, <1>6
<1> HIDE DEF next
<1>10. Earliest(Ahead(s.due, {a}, n, mi % n)) = next
       BY <1>8, <1>9, EarliestIs
<1> QED
    BY <1>3, <1>5, <1>10

(* The next occurrence of a bill of two days a month.                       *)
LEMMA PairOnCadence ==
  ASSUME NEW s, Proper(s), s.frequency = "semimonthly", OnCadence(s)
  PROVE  Step(s) = NextOnCadence(s)
<1> DEFINE a == s.anchor
           b == s.anchor2
           mi == MonthIndex(s.due)
           c == DayPair(a, b)
           first == InMonth(mi, a)
           larger == InMonth(mi, b)
           over == InMonth(mi + 1, a)
<1>1. Dated(s.due) /\ mi \in Nat /\ mi + 1 \in Nat /\ a \in 1 .. 31 /\ b \in 1 .. 31 /\ a <= b
      BY MonthIndexNat DEF Proper, AnchorsOK
<1>2. Step(s) = IF Before(s.due, larger) THEN larger ELSE over
  <2>1. Step(s) = StepSemimonthly(s)
        BY StepArms
  <2> QED
      BY <2>1, Zenon DEF StepSemimonthly
<1>3. CadenceOf(s) = c
      BY CadenceArms
<1>4. c.kind # "epoch_grid" /\ c.days = {a, b} /\ c.interval = 1 /\ c.phase = 0
      BY DEF DayPair
<1> HIDE DEF c
<1>5. /\ NextOnCadence(s) = Earliest(Ahead(s.due, {a, b}, 1, 0))
      /\ \E day \in {a, b} : s.due = InMonth(mi, day)
  <2>1. /\ \E day \in c.days : s.due = InMonth(mi, day)
        /\ NextOnCadence(s) = Earliest(Ahead(s.due, c.days, c.interval, c.phase))
        BY <1>1, <1>3, <1>4, OnMonthGrid
  <2> QED
      BY <2>1, <1>4
<1>6. /\ Dated(first) /\ Dated(larger) /\ Dated(over)
      /\ MonthIndex(first) = mi /\ MonthIndex(larger) = mi /\ MonthIndex(over) = mi + 1
      BY <1>1, InMonthDated
<1>7. ~ Before(larger, first)
      BY <1>1, LaterDays
<1>8. /\ s.due \in {first, larger} /\ {a, b} \in SUBSET (1 .. 31)
      /\ \A i \in Nat : (i % 1) = 0
      BY <1>1, <1>5
<1>9. ASSUME NEW e
      PROVE  e \in Ahead(s.due, {a, b}, 1, 0) <=>
               \E i \in Nat, day \in {a, b} :
                 /\ e = InMonth(i, day) /\ mi <= i /\ i <= mi + 12 /\ Before(s.due, e)
      BY <1>1, <1>8, AheadIn
<1>10. CASE Before(s.due, larger)
  <2>1. s.due = first
        BY <1>8, <1>10, <1>6, NotBeforeItself
  <2>2. larger \in Ahead(s.due, {a, b}, 1, 0)
    <3>1. b \in {a, b} /\ mi <= mi /\ mi <= mi + 12
          BY <1>1
    <3> QED
        BY <3>1, <1>1, <1>9, <1>10
  <2>3. ASSUME NEW e \in Ahead(s.due, {a, b}, 1, 0)
        PROVE  Dated(e) /\ (e # larger => Before(larger, e))
    <3>1. PICK i \in Nat, day \in {a, b} :
            e = InMonth(i, day) /\ mi <= i /\ Before(s.due, e)
          BY <1>9
    <3>2. Dated(e) /\ MonthIndex(e) = i
          BY <3>1, <1>1, InMonthDated
    <3>3. CASE i = mi
      <4>1. e \in {first, larger} /\ e # first
            BY <3>1, <3>2, <3>3, <2>1, NotBeforeItself
      <4> QED
          BY <4>1, <3>2
    <3>4. CASE i # mi
      <4>1. mi < i
            BY <3>1, <3>4, <1>1
      <4> QED
          BY <4>1, <3>2, <1>6, LaterMonth
    <3> QED
        BY <3>3, <3>4
  <2> HIDE DEF larger
  <2>4. Earliest(Ahead(s.due, {a, b}, 1, 0)) = larger
        BY <2>2, <2>3, EarliestIs
  <2> QED
      BY <2>4, <1>2, <1>5, <1>10
<1>11. CASE ~ Before(s.due, larger)
  <2>1. s.due = larger
        BY <1>6, <1>7, <1>8, <1>11, BeforeTotal
  <2>2. over \in Ahead(s.due, {a, b}, 1, 0)
    <3>1. a \in {a, b} /\ mi <= mi + 1 /\ mi + 1 <= mi + 12 /\ mi < mi + 1
          BY <1>1
    <3>2. Before(s.due, over)
          BY <3>1, <1>1, <1>6, LaterMonth
    <3> QED
        BY <3>1, <3>2, <1>1, <1>9
  <2>3. ASSUME NEW e \in Ahead(s.due, {a, b}, 1, 0)
        PROVE  Dated(e) /\ (e # over => Before(over, e))
    <3>1. PICK i \in Nat, day \in {a, b} :
            e = InMonth(i, day) /\ mi <= i /\ Before(s.due, e)
          BY <1>9
    <3>2. Dated(e) /\ MonthIndex(e) = i
          BY <3>1, <1>1, InMonthDated
    <3>3. i # mi
      <4>1. ASSUME i = mi
            PROVE  FALSE
        <5>1. e \in {first, larger}
              BY <3>1, <4>1
        <5> QED
            BY <5>1, <3>1, <2>1, <1>6, <1>7, NotBeforeItself
      <4> QED
          BY <4>1
    <3>4. CASE i = mi + 1
      <4>1. e = over \/ e = InMonth(mi + 1, b)
            BY <3>1, <3>4
      <4>2. ~ Before(InMonth(mi + 1, b), over)
            BY <1>1, LaterDays
      <4> QED
          BY <4>1, <4>2, <3>2, <1>6, BeforeTotal
    <3>5. CASE mi + 1 < i
          BY <3>5, <3>2, <1>6, LaterMonth
    <3> QED
        BY <3>1, <3>3, <3>4, <3>5, <1>1
  <2> HIDE DEF over
  <2>4. Earliest(Ahead(s.due, {a, b}, 1, 0)) = over
        BY <2>2, <2>3, EarliestIs
  <2> QED
      BY <2>4, <1>2, <1>5, <1>11
<1> QED
    BY <1>10, <1>11

LEMMA EpochBefore ==
  ASSUME NEW a, NEW b, Dated(a), Dated(b), EpochDay(a) < EpochDay(b)
  PROVE  Before(a, b)
<1>1. EpochDay(a) \in Int /\ EpochDay(b) \in Int
      BY EpochInt
<1>2. a # b /\ ~ Before(b, a)
      BY <1>1, EpochOrder
<1> QED
    BY <1>2, BeforeTotal

(* The next occurrence of a bill of one day in so many weeks.               *)
LEMMA WeeksOnCadence ==
  ASSUME NEW s, Proper(s), s.frequency \in DOMAIN Weeks
  PROVE  Step(s) = NextOnCadence(s)
<1> DEFINE n == Weeks[s.frequency]
           d == s.due
           ed == EpochDay(d)
           c == EpochGrid(n, ed)
           next == DaysAfter(d, n)
           to == Horizon(d)
           dates == CadenceDatesBetween(c, NextDay(d), to)
<1>1. n \in {7, 14} /\ n \in Nat
      BY DEF Weeks
<1>2. Dated(d) /\ MonthIndex(d) \in Nat /\ ed \in Int
      BY MonthIndexNat, EpochInt DEF Proper
<1>3. CadenceOf(s) = c /\ Step(s) = next
      BY CadenceArms, StepArms
<1> HIDE DEF n, ed, d
<1>4. c.kind = "epoch_grid" /\ c.day = ed /\ c.interval = n
      BY DEF EpochGrid
<1>5. EpochDay(NextDay(d)) = ed + 1
      BY <1>2, EpochOfNextDay DEF ed
<1>6. NextOnCadence(s) = Earliest(dates)
      BY <1>3, Zenon DEF NextOnCadence, Horizon, d
<1> HIDE DEF c
<1>7. Dated(to) /\ MonthIndex(to) = MonthIndex(d) + 12
  <2>1. MonthIndex(d) + 12 \in Nat /\ 31 \in 1 .. 31
        BY <1>2
  <2> QED
      BY <2>1, InMonthDated DEF Horizon
<1> DEFINE first == ed + n
           last == (EpochDay(to) - first) \div n
<1>8. ASSUME NEW e
      PROVE  e \in dates <=> \E k \in 0 .. last : e = CivilDate(first + k * n)
  <2>1. - ((c.day - EpochDay(NextDay(d))) \div c.interval) = 1
    <3>1. c.day - EpochDay(NextDay(d)) = -1
          BY <1>2, <1>4, <1>5
    <3>2. - ((-1) \div n) = 1
          BY <1>1
    <3> QED
        BY <3>1, <3>2, <1>4
  <2>2. first = c.day + 1 * c.interval
        BY <1>1, <1>2, <1>4
  <2> HIDE DEF first, dates, to
  <2>3. e \in CadenceDatesBetween(c, NextDay(d), to) <=>
          \E k \in 0 .. (EpochDay(to) - first) \div c.interval :
             e = CivilDate(first + k * c.interval)
        BY <2>1, <2>2, <1>4, DayGrid
  <2> QED
      BY <2>3, <1>4 DEF dates
<1>9. /\ Dated(next) /\ EpochDay(next) = ed + n
      /\ \A j \in Nat : CivilDate(ed + j) = DaysAfter(d, j) /\ Dated(DaysAfter(d, j))
                        /\ EpochDay(DaysAfter(d, j)) = ed + j
      BY <1>1, <1>2, DaysLater, EpochOfDays DEF ed
<1>10. last \in Nat
  <2>1. MonthIndex(next) <= MonthIndex(d) + 1 /\ MonthIndex(next) \in Nat
        BY <1>1, <1>2, <1>9, WeeksWithin, MonthIndexNat
  <2>2. MonthIndex(next) < MonthIndex(to)
        BY <2>1, <1>2, <1>7
  <2>3. EpochDay(next) < EpochDay(to)
        BY <2>2, <1>7, <1>9, LaterMonth, EpochOrder
  <2>4. EpochDay(to) \in Int
        BY <1>7, EpochInt
  <2> HIDE DEF next, to
  <2>5. EpochDay(to) - first \in Nat
        BY <2>3, <2>4, <1>1, <1>2, <1>9
  <2> HIDE DEF first
  <2> QED
      BY <2>5, <1>1
<1> HIDE DEF next, dates, last, to
<1>11. next \in dates
  <2>1. 0 \in 0 .. last /\ first + 0 * n = ed + n
        BY <1>10, <1>1, <1>2
  <2>2. next = CivilDate(first + 0 * n)
        BY <2>1, <1>1, <1>9 DEF next
  <2> QED
      BY <2>1, <2>2, <1>8
<1>12. ASSUME NEW e \in dates
       PROVE  Dated(e) /\ (e # next => Before(next, e))
  <2>1. PICK k \in 0 .. last : e = CivilDate(first + k * n)
        BY <1>8
  <2>2. k \in Nat /\ n + k * n \in Nat /\ first + k * n = ed + (n + k * n)
        BY <1>1, <1>2, <1>10
  <2>3. e = DaysAfter(d, n + k * n) /\ Dated(e) /\ EpochDay(e) = ed + (n + k * n)
        BY <2>1, <2>2, <1>9
  <2>4. CASE k = 0
    <3>1. n + k * n = n
          BY <2>4, <1>1
    <3> QED
        BY <3>1, <2>3 DEF next
  <2>5. CASE k # 0
    <3>1. k * n > 0 /\ k * n \in Nat
          BY <2>5, <2>2, <1>1
    <3>2. EpochDay(next) < EpochDay(e)
          BY <3>1, <2>3, <1>1, <1>2, <1>9
    <3> QED
        BY <3>2, <2>3, <1>9, EpochBefore
  <2> QED
      BY <2>4, <2>5
<1>13. Earliest(dates) = next
       BY <1>11, <1>12, EarliestIs
<1> QED
    BY <1>3, <1>6, <1>13 DEF next

(* No occurrence is jumped, none comes twice and no month end drifts, for   *)
(* every frequency, every date and every pair of anchors.                   *)
THEOREM CadenceHolds == Spec => StepsOnCadence
<1>1. Rows /\ [Next]_vars =>
        [(row'.due # row.due /\ \E t \in Tabs : Enter(t) \/ Skip(t)) =>
           (OnCadence(row) => row'.due = NextOnCadence(row))]_vars
  <2> SUFFICES ASSUME Rows, NEW t \in Tabs, Enter(t) \/ Skip(t), row'.due # row.due, OnCadence(row)
               PROVE  row'.due = NextOnCadence(row)
      OBVIOUS
  <2>1. Proper(row) /\ row.frequency \in Frequencies
        BY DEF Rows, Proper, Schedules
  <2>2. Current(shown[t].due) /\ Advance(shown[t].due)
        BY EnterDoes, SkipDoes
  <2>3. row.frequency # "once" /\ row'.due = Step(row)
        BY <2>1, <2>2, AdvanceSteps
  <2>4. \/ row.frequency = "semimonthly"
        \/ row.frequency \in DOMAIN Months
        \/ row.frequency \in DOMAIN Weeks
        BY <2>1, <2>3 DEF Frequencies, Months, Weeks
  <2> QED
      BY <2>1, <2>3, <2>4, MonthsOnCadence, PairOnCadence, WeeksOnCadence
<1> QED
    BY <1>1, RowsInit, RowsNext, PTL DEF Spec, StepsOnCadence
=============================================================================
