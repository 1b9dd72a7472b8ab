------------------------------ MODULE Schedule ------------------------------
(***************************************************************************)
(* One scheduled bill of a household: the tabs that show it, enter or skip *)
(* its next occurrence, pause, resume, end or edit it, and the procedures  *)
(* that post an occurrence and step the due date in one transaction.       *)
(*                                                                         *)
(* A tab acts on what it last fetched, so any number of calls of other     *)
(* tabs may lie between what a member saw and what the server does.  A tab *)
(* whose answer was lost still shows the old row and may repeat the call.  *)
(***************************************************************************)
EXTENDS Calendar, FiniteSets

CONSTANTS
  Tabs,
  Plans,      \* schedules a member may create: frequency, due date and anchors
  Amounts,    \* amounts in minor units
  Redates,    \* due dates an edit may set
  Recasts,    \* frequencies and anchors an edit may set
  MaxCalls    \* bound: calls that reach the server

VARIABLES
  row,        \* the row of scheduled_transactions
  shown,      \* the row as each tab last fetched it
  postings,   \* the transactions posted, each under its economic key
  skipped,    \* history: occurrences skipped, and not re-dated since
  calls

vars == <<row, shown, postings, skipped, calls>>

-----------------------------------------------------------------------------
(* State *)

Frequencies == {"once", "weekly", "biweekly", "semimonthly",
                "monthly", "quarterly", "semiannual", "annual"}
Months == [monthly |-> 1, quarterly |-> 3, semiannual |-> 6, annual |-> 12]
Weeks == [weekly |-> 7, biweekly |-> 14]

(* Only a semimonthly schedule has a second anchor; the first of a pair is  *)
(* the smaller.                                                             *)
AnchorsOK(s) ==
  IF s.frequency = "semimonthly" THEN s.anchor \in 1 .. 30 /\ s.anchor2 \in s.anchor + 1 .. 31
                                 ELSE s.anchor \in 1 .. 31 /\ s.anchor2 = 0

(* What the procedures refuse, no tab sends: a date that is none, a pair of *)
(* days that is not two days of a month.                                    *)
ASSUME ScheduleAssumption ==
  /\ MaxCalls \in Nat
  /\ \A p \in Plans : p.frequency \in Frequencies /\ IsDate(p.due) /\ AnchorsOK(p)
  /\ \A d \in Redates : IsDate(d)
  /\ \A p \in Recasts :
       /\ p.frequency \in Frequencies
       /\ p.frequency = "semimonthly" =>
            p.anchor \in 1 .. 31 /\ p.anchor2 \in 1 .. 31 /\ p.anchor # p.anchor2

Init ==
  /\ \E p \in Plans, a \in Amounts :
       row = [frequency |-> p.frequency, due |-> p.due, anchor |-> p.anchor,
              anchor2 |-> p.anchor2, amount |-> a, status |-> "active"]
  /\ shown = [t \in Tabs |-> row]
  /\ postings = {}
  /\ skipped = {}
  /\ calls = 0

-----------------------------------------------------------------------------
(* Stepping *)

(* The calendar of the database: a day is the next one of its month or the  *)
(* first of the next month.                                                 *)
NextDay(d) ==
  IF d.day < DaysInMonth(d.year, d.month) THEN [d EXCEPT !.day = @ + 1]
                                          ELSE InMonth(MonthIndex(d) + 1, 1)

DaysAfter(d, n) ==
  LET walk[k \in 0 .. n] == IF k = 0 THEN d ELSE NextDay(walk[k - 1])
  IN  walk[n]

\* Mutant of StepMonths: from the day the date was clamped to.
StepMonthsDrifting(s, n) == InMonth(MonthIndex(s.due) + n, s.due.day)

(* The anchor day n months on, clamped: a 31st comes back after February.   *)
StepMonths(s, n) == InMonth(MonthIndex(s.due) + n, s.anchor)

StepSemimonthly(s) ==
  LET larger == InMonth(MonthIndex(s.due), s.anchor2)
  IN  IF Before(s.due, larger) THEN larger ELSE InMonth(MonthIndex(s.due) + 1, s.anchor)

Step(s) ==
  CASE s.frequency = "semimonthly" -> StepSemimonthly(s)
    [] s.frequency \in DOMAIN Months -> StepMonths(s, Months[s.frequency])
    [] s.frequency \in DOMAIN Weeks -> DaysAfter(s.due, Weeks[s.frequency])
    [] s.frequency = "once" -> s.due

-----------------------------------------------------------------------------
(* Calls *)

Called == calls < MaxCalls /\ calls' = calls + 1

\* Mutant of Current: no fence on the due date.
CurrentEver(from) == TRUE

(* The fence: the caller must have seen the occurrence that is due.         *)
Current(from) == row.due = from

Advance(from) ==
  row' = [row EXCEPT !.due = Step([row EXCEPT !.due = from]),
                     !.status = IF row.frequency = "once" THEN "ended" ELSE @]

\* Mutant of Key: a key of its own for every command.
KeyPerCommand(from) == <<from, calls>>

(* One economic key per occurrence, whatever the command id.                *)
Key(from) == <<from, 0>>

(* The command that posts: a key used before with the same payload answers  *)
(* as it did then, with another payload it fails and so does the call.      *)
Replayed(from) == [key |-> Key(from), due |-> from, amount |-> row.amount] \in postings
Conflicts(from) == \E p \in postings : p.key = Key(from) /\ p.amount # row.amount

Enter(t) ==
  LET from == shown[t].due
  IN  /\ shown[t].status = "active"
      /\ Called
      /\ IF row.status = "active" /\ Current(from) /\ ~ Conflicts(from)
         THEN /\ postings' = postings \cup
                   {[key |-> Key(from), due |-> from, amount |-> row.amount]}
              /\ Advance(from)
         ELSE UNCHANGED <<row, postings>>
      /\ UNCHANGED <<shown, skipped>>

(* A skip is refused by no status but "ended": a tab that shows an active   *)
(* schedule steps a paused one.                                             *)
Skip(t) ==
  LET from == shown[t].due
  IN  /\ shown[t].status = "active"
      /\ Called
      /\ IF row.status # "ended" /\ Current(from)
         THEN Advance(from) /\ skipped' = skipped \cup {from}
         ELSE UNCHANGED <<row, skipped>>
      /\ UNCHANGED <<shown, postings>>

(* Pause or resume, as the tab shows it, and end.  No fence: a tab that     *)
(* still shows a paused schedule resumes one that was ended.                *)
SetStatus(t) ==
  /\ shown[t].status # "ended"
  /\ Called
  /\ \E status \in {IF shown[t].status = "paused" THEN "active" ELSE "paused", "ended"} :
       /\ row' = [row EXCEPT !.status = status]
       /\ skipped' = IF row.status = "ended" THEN skipped \ {row.due} ELSE skipped
  /\ UNCHANGED <<shown, postings>>

Lesser(d1, d2) == IF d1 <= d2 THEN d1 ELSE d2
Greater(d1, d2) == IF d1 <= d2 THEN d2 ELSE d1

\* Mutants of Anchored: always from the date given; the pair as it was sent.
AnchoredAfresh(p, due) ==
  IF p.frequency = "semimonthly" THEN Lesser(p.anchor, p.anchor2) ELSE due.day
AnchoredAsSent(p, due) ==
  CASE p.frequency = "semimonthly" -> p.anchor
    [] p.frequency # "semimonthly" /\ due # row.due -> due.day
    [] OTHER -> row.anchor

(* The anchor an edit leaves: the smaller of the pair, or the date's own    *)
(* day if the date changed.                                                 *)
Anchored(p, due) ==
  CASE p.frequency = "semimonthly" -> Lesser(p.anchor, p.anchor2)
    [] p.frequency # "semimonthly" /\ due # row.due -> due.day
    [] OTHER -> row.anchor
SecondAnchor(p) ==
  IF p.frequency = "semimonthly" THEN Greater(p.anchor, p.anchor2) ELSE 0

(* The update of an existing schedule: the frequency and the due date the   *)
(* tab shows or others, a pair of days if it is semimonthly, any amount.    *)
Save(t) ==
  /\ shown[t].status # "ended"
  /\ Called
  /\ \E due \in {shown[t].due} \cup Redates, amount \in Amounts,
        p \in {shown[t]} \cup Recasts :
       /\ row' = [row EXCEPT !.frequency = p.frequency, !.due = due, !.amount = amount,
                             !.anchor = Anchored(p, due), !.anchor2 = SecondAnchor(p)]
       /\ skipped' = IF due = row.due THEN skipped ELSE {d \in skipped : Before(d, due)}
  /\ UNCHANGED <<shown, postings>>

Fetch(t) ==
  /\ shown[t] # row
  /\ shown' = [shown EXCEPT ![t] = row]
  /\ UNCHANGED <<row, postings, skipped, calls>>

Next == \E t \in Tabs : Enter(t) \/ Skip(t) \/ SetStatus(t) \/ Save(t) \/ Fetch(t)

Spec == Init /\ [][Next]_vars

-----------------------------------------------------------------------------
(* Properties *)

(* Every due date is a day of the calendar, and the anchors are as the      *)
(* stepping assumes them.                                                   *)
TypeOK ==
  /\ row.frequency \in Frequencies /\ IsDate(row.due) /\ AnchorsOK(row)
  /\ row.amount \in Amounts /\ row.status \in {"active", "paused", "ended"}
  /\ \A p \in postings : IsDate(p.due) /\ p.amount \in Amounts
  /\ calls \in 0 .. MaxCalls

(* An occurrence is never posted twice: not by two tabs, not by a repeated  *)
(* call, not when the schedule is resumed after it ended, not when an edit  *)
(* takes the due date back.                                                 *)
PostedOnce == \A p, q \in postings : p.due = q.due => p = q

(* An occurrence a member skipped is not posted by a tab that still shows   *)
(* it, unless an edit re-dates the schedule to it or it is resumed there.   *)
SkippedStays == [][\A p \in postings' \ postings : p.due \notin skipped]_vars

(* The cadence of the forecast that a schedule on its own date belongs to.  *)
CadenceOf(s) ==
  CASE s.frequency = "semimonthly" -> DayPair(s.anchor, s.anchor2)
    [] s.frequency \in DOMAIN Months ->
         DayOfMonth(s.anchor, Months[s.frequency], MonthIndex(s.due) % Months[s.frequency])
    [] s.frequency \in DOMAIN Weeks -> EpochGrid(Weeks[s.frequency], EpochDay(s.due))

OnCadence(s) == s.due \in CadenceDatesBetween(CadenceOf(s), s.due, s.due)
NextOnCadence(s) ==
  Earliest(CadenceDatesBetween(CadenceOf(s), NextDay(s.due), InMonth(MonthIndex(s.due) + 12, 31)))

(* Entering or skipping an occurrence leads to the next date of the same    *)
(* cadence as the detector and the forecast compute it: no occurrence is    *)
(* jumped, none comes twice, and a month end does not drift.                *)
StepsOnCadence ==
  [][(row'.due # row.due /\ \E t \in Tabs : Enter(t) \/ Skip(t)) =>
       (OnCadence(row) => row'.due = NextOnCadence(row))]_vars

(* An edit that leaves the frequency and the date as they are leaves the    *)
(* dates that follow as they are: a bill of the 31st edited while it is due *)
(* on the 28th is due on the 31st again.                                    *)
EditKeepsCadence ==
  [][(row'.due = row.due /\ row'.frequency = row.frequency /\ row.frequency # "semimonthly")
       => Step(row') = Step(row)]_vars

(* In no run, the code does not keep them.  A monthly schedule is due on    *)
(* its anchor: an edit that changes the frequency only keeps the anchor of  *)
(* the old one.  The step leads to the next of the two days of the month: a *)
(* date before the first of them is followed by the second.                 *)
DueOnAnchor == row.frequency \in DOMAIN Months => OnCadence(row)
NextOfTheTwo ==
  [][(row'.due # row.due /\ row.frequency = "semimonthly" /\ \E t \in Tabs : Enter(t) \/ Skip(t))
       => row'.due = NextOnCadence(row)]_vars
=============================================================================
