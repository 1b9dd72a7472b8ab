-------------------------- MODULE RecurringSeries --------------------------
(***************************************************************************)
(* One recurring series: the daily detector job that suggests, refreshes   *)
(* and withdraws it, the members who confirm, pause, resume, cancel,       *)
(* reject or correct it, its timeline of status events and its forecast.   *)
(*                                                                         *)
(* A command is one transaction; the timeline is ordered by the date the   *)
(* client put into the command and then by the time its transaction began, *)
(* not by the order in which the transactions got the lock of the series.  *)
(***************************************************************************)
EXTENDS Integers, Sequences, FiniteSets

CONSTANTS
  Members,
  Amounts,     \* amounts a member may set
  Horizon,     \* days a confirmation projects (90 in the code); a correction projects more
  MaxDay,      \* bound: days observed
  MaxCalls,    \* bound: commands sent
  MaxFaults,   \* bound: job runs killed
  Overlap      \* TRUE: transactions on the series may begin before another ended

ASSUME RecurringAssumption ==
  /\ Horizon \in Nat /\ MaxDay \in Nat \ {0} /\ MaxCalls \in Nat /\ MaxFaults \in Nat
  /\ Overlap \in BOOLEAN

VARIABLES
  today,
  st,        \* recurring_series.status; "none": no row yet
  cur,       \* current_candidate_version_id
  versions,  \* recurring_candidate_versions
  events,    \* recurring_status_events
  occ,       \* recurring_occurrences
  done,      \* the keys in command_executions
  call,      \* the members' commands; one answered with success is in done
  run,       \* today's recurring_detector_runs row, and whether its message is settled
  job,       \* local state of the detector job
  clock,     \* transactions begun
  sent,      \* commands sent
  faults     \* what is left of MaxFaults

vars == <<today, st, cur, versions, events, occ, done, call, run, job, clock, sent, faults>>

-----------------------------------------------------------------------------
(* State *)

Days == 0 .. MaxDay
Moves == {"confirm", "pause", "resume", "cancel", "reject"}
Recorded == {"confirmed", "paused", "resumed", "cancelled", "rejected", "withdrawn"}
Decided == {"confirmed", "paused", "cancelled", "rejected"}

(* A version: the day of the detector's, and the amounts set on top of it.  *)
Version == [day : Days, edits : UNION {[1 .. n -> Amounts] : n \in 0 .. MaxCalls}]
NoVersion == [day |-> 0, edits |-> <<>>]
StatusEvent == [to : Recorded, day : Days, at : 0 .. MaxCalls + MaxDay + MaxFaults, run : Days]
Command == [op : Moves \cup {"set_amount"}, amount : Amounts \cup {0}, day : Days]
Idle == [pc |-> "idle", cmd |-> [op |-> "none", amount |-> 0, day |-> 0], at |-> 0]

(* What a run emits: a new candidate of this series, one made of the inputs  *)
(* of a version before, only those of other series, or none.                 *)
Emission == {"this", "again", "others", "nothing"}
NoRun == [emits |-> {}, over |-> FALSE]
NoJob == [pc |-> "idle", emits |-> "nothing", at |-> 0, stale |-> FALSE]

TypeOK ==
  /\ today \in Days
  /\ st \in {"none", "suggested", "withdrawn"} \cup Decided
  /\ cur \in Version /\ versions \subseteq Version
  /\ (st # "none" => cur \in versions)
  /\ events \subseteq StatusEvent
  /\ \A e, f \in events : e.at = f.at => e = f
  /\ \A o \in occ : o.version \in versions /\ o.day \in 0 .. MaxDay + Horizon + 1
  /\ done \subseteq Command
  /\ \A m \in Members :
       call[m] = Idle \/ (call[m].pc \in {"sent", "open"} /\ call[m].cmd \in Command)
  /\ run.emits \subseteq Emission /\ Cardinality(run.emits) <= 1 /\ run.over \in BOOLEAN
  /\ job.pc \in {"idle", "read", "upserted", "reaping"}
  /\ sent \in 0 .. MaxCalls /\ faults \in 0 .. MaxFaults

Init ==
  /\ today = 1 /\ st = "none" /\ cur = NoVersion
  /\ versions = {} /\ events = {} /\ occ = {} /\ done = {}
  /\ call = [m \in Members |-> Idle]
  /\ run = NoRun
  /\ job = NoJob /\ clock = 0 /\ sent = 0 /\ faults = MaxFaults

-----------------------------------------------------------------------------
(* The timeline and the forecast *)

Before(e, f) == e.day < f.day \/ (e.day = f.day /\ e.at < f.at)

(* The transition in force on day d, by the events evs. *)
InForce(evs, d) ==
  LET past == {e \in evs : e.day <= d}
  IN IF past = {} THEN "none" ELSE (CHOOSE e \in past : \A f \in past : ~Before(e, f)).to

Latest(evs) == InForce(evs, MaxDay)
StatusOf(to) == CASE to \in {"confirmed", "resumed"} -> "confirmed"
                  [] to \in {"paused", "cancelled", "rejected"} -> to
                  [] OTHER -> "suggested"
Running(evs, d) == InForce(evs, d) \in {"confirmed", "resumed"}

(* keel_recurring_cadence_dates from lastSeen on, where each day is one slot. *)
Projected(v, evs, until) ==
  {[version |-> v, day |-> d] : d \in {d \in v.day + 1 .. until : Running(evs, d)}}

(* What keel_list_recurring shows as expected. *)
Expected(d) == [version |-> cur, day |-> d] \in occ /\ Running(events, d)

-----------------------------------------------------------------------------
(* Members *)

Done(op) == CASE op = "confirm" -> "confirmed" [] op = "pause" -> "paused"
              [] op = "resume" -> "resumed" [] op = "cancel" -> "cancelled"
              [] op = "reject" -> "rejected"

AllowedFrom(op) ==
  CASE op = "confirm" -> {"suggested", "rejected", "cancelled", "withdrawn"}
    [] op = "pause" -> {"confirmed"}
    [] op = "resume" -> {"paused"}
    [] op = "cancel" -> {"confirmed", "paused"}
    [] op = "reject" -> {"suggested"}

(* RECURRING_ACTIONS and the edit dialog: what the card of a series offers.   *)
Offered(status) ==
  {op \in Moves \ {"confirm"} : status \in AllowedFrom(op)}
    \cup (IF status \in {"suggested", "withdrawn"} THEN {"confirm"} ELSE {})
    \cup (IF status \in {"suggested", "confirmed", "paused"} THEN {"set_amount"} ELSE {})

AmountOf(v) == IF v.edits = <<>> THEN 0 ELSE v.edits[Len(v.edits)]

(* The series is as the command asked. *)
Effective(c, status, version) ==
  IF c.op = "set_amount" THEN AmountOf(version) = c.amount ELSE status = StatusOf(Done(c.op))

(* economicEventKey *)
Key(c) == c

(* A member acts on the list as loaded; the command is sent at once, and by   *)
(* the time it is carried out another member or the job may have come first.  *)
Send(m, op, amount) ==
  LET c == [op |-> op, amount |-> amount, day |-> today]
  IN /\ call[m].pc = "idle" /\ op \in Offered(st) /\ sent < MaxCalls /\ sent' = sent + 1
     /\ call' = [call EXCEPT ![m] = [pc |-> "sent", cmd |-> c, at |-> 0]]
  /\ UNCHANGED <<today, st, cur, versions, events, occ, done, run, job, clock, faults>>

Quiet == (\A m \in Members : call[m].pc # "open") /\ job.pc # "reaping"

(* The transaction begins, and waits for the lock of the series. *)
Arrive(m) ==
  /\ call[m].pc = "sent" /\ (Overlap \/ Quiet)
  /\ clock' = clock + 1
  /\ call' = [call EXCEPT ![m].pc = "open", ![m].at = clock]
  /\ UNCHANGED <<today, st, cur, versions, events, occ, done, run, job, sent, faults>>

Answered(m) == call' = [call EXCEPT ![m] = Idle]

(* keel_idempotency_check: the answer of the first execution is given again.  *)
Replay(m) ==
  /\ call[m].pc = "open" /\ Key(call[m].cmd) \in done
  /\ Answered(m)
  /\ UNCHANGED <<today, st, cur, versions, events, occ, done, run, job, clock, sent, faults>>

NotBackdatedEver(c) == TRUE   \* mutant: the date of the command is not looked at

NotBackdated(c) == \A e \in events : e.day <= c.day

(* keel_recurring_transition_core *)
Transition(m) ==
  LET c == call[m].cmd
      e == [to |-> Done(c.op), day |-> c.day, at |-> call[m].at, run |-> 0]
  IN /\ call[m].pc = "open" /\ c.op \in Moves /\ Key(c) \notin done
     /\ IF NotBackdated(c) /\ st \in AllowedFrom(c.op)
          THEN /\ events' = events \cup {e}
               /\ st' = StatusOf(Latest(events'))
               /\ occ' = IF c.op \in {"confirm", "resume"}
                           THEN occ \cup Projected(cur, events', c.day + Horizon) ELSE occ
               /\ done' = done \cup {Key(c)}
          ELSE UNCHANGED <<events, st, occ, done>>
     /\ Answered(m)
  /\ UNCHANGED <<today, cur, versions, run, job, clock, sent, faults>>

SetAmountUnprojected(m) ==   \* mutant: the forecast is left to the next confirmation
  LET c == call[m].cmd
      v == [cur EXCEPT !.edits = Append(@, c.amount)]
  IN /\ call[m].pc = "open" /\ c.op = "set_amount" /\ Key(c) \notin done
     /\ cur' = v /\ versions' = versions \cup {v}
     /\ done' = done \cup {Key(c)}
     /\ Answered(m)
  /\ UNCHANGED <<today, st, events, occ, run, job, clock, sent, faults>>

(* keel_recurring_set_amount; a new cadence is set in the same way. *)
SetAmount(m) ==
  LET c == call[m].cmd
      v == [cur EXCEPT !.edits = Append(@, c.amount)]
  IN /\ call[m].pc = "open" /\ c.op = "set_amount" /\ Key(c) \notin done
     /\ IF st \in {"suggested", "confirmed", "paused"}
          THEN /\ cur' = v /\ versions' = versions \cup {v}
               /\ occ' = IF st = "confirmed"
                           THEN occ \cup Projected(v, events, c.day + Horizon + 1) ELSE occ
               /\ done' = done \cup {Key(c)}
          ELSE UNCHANGED <<cur, versions, occ, done>>
     /\ Answered(m)
  /\ UNCHANGED <<today, st, events, run, job, clock, sent, faults>>

-----------------------------------------------------------------------------
(* The detector job *)

(* keel_recurring_read_txns and detectRecurringSeries: whether this series   *)
(* and whether any other is seen in today's transactions.                    *)
ReadTxns ==
  /\ job.pc = "idle" /\ ~run.over
  /\ \E emits \in Emission :
       /\ emits = "again" => versions # {}
       /\ job' = [NoJob EXCEPT !.pc = "read", !.emits = emits]
  /\ UNCHANGED <<today, st, cur, versions, events, occ, done, call, run, clock, sent, faults>>

RefreshableEver(status) == status \in {"suggested", "rejected", "withdrawn"}   \* mutant

RefreshableConfirmed(status) ==   \* mutant: a series in use follows the detector
  status \in {"suggested", "withdrawn", "confirmed"}

(* The statuses in which a new version of the detector takes over. *)
Refreshable(status) == status \in {"suggested", "withdrawn"}

(* keel_recurring_upsert_candidates *)
UpsertCandidates ==
  /\ job.pc = "read"
  /\ LET v == [day |-> today, edits |-> <<>>]
         fresh == job.emits = "this" /\ v \notin versions
     IN IF run.emits \subseteq {job.emits}
          THEN /\ run' = [run EXCEPT !.emits = {job.emits}]
               /\ job' = [job EXCEPT !.pc = "upserted"]
               /\ versions' = IF fresh THEN versions \cup {v} ELSE versions
               /\ IF fresh /\ (st = "none" \/ Refreshable(st))
                    THEN st' = "suggested" /\ cur' = v ELSE UNCHANGED <<st, cur>>
          ELSE /\ job' = NoJob
               /\ \/ run' = [run EXCEPT !.over = TRUE] \/ UNCHANGED run
               /\ UNCHANGED <<versions, st, cur>>
  /\ UNCHANGED <<today, events, occ, done, call, clock, sent, faults>>

ReapReadAny ==   \* mutant: whatever the detector no longer sees is stale
  /\ job.pc = "upserted" /\ (Overlap \/ Quiet)
  /\ job' = [job EXCEPT !.pc = "reaping", !.at = clock, !.stale = job.emits = "others"]
  /\ clock' = clock + 1
  /\ UNCHANGED <<today, st, cur, versions, events, occ, done, call, run, sent, faults>>

(* keel_recurring_reap_stale_suggestions: which suggestions are stale ... *)
ReapRead ==
  /\ job.pc = "upserted" /\ (Overlap \/ Quiet)
  /\ job' = [job EXCEPT !.pc = "reaping", !.at = clock,
                        !.stale = st = "suggested" /\ job.emits = "others"]
  /\ clock' = clock + 1
  /\ UNCHANGED <<today, st, cur, versions, events, occ, done, call, run, sent, faults>>

(* ... each of which is withdrawn, if it is still a suggestion. *)
ReapApply ==
  /\ job.pc = "reaping"
  /\ events' = IF job.stale /\ ~\E e \in events : e.run = today
                 THEN events \cup {[to |-> "withdrawn", day |-> today, at |-> job.at,
                                    run |-> today]}
                 ELSE events
  /\ st' = IF job.stale /\ st = "suggested" THEN "withdrawn" ELSE st
  /\ run' = [run EXCEPT !.over = TRUE]
  /\ job' = NoJob
  /\ UNCHANGED <<today, cur, versions, occ, done, call, clock, sent, faults>>

(* The run is killed; its message comes again the same day. *)
JobDies ==
  /\ job.pc # "idle" /\ faults > 0
  /\ faults' = faults - 1 /\ job' = NoJob
  /\ UNCHANGED <<today, st, cur, versions, events, occ, done, call, run, clock, sent>>

(* A run ends within its day, a request within the day that follows. *)
NewDay ==
  /\ today < MaxDay /\ today' = today + 1
  /\ job.pc = "idle" /\ run' = NoRun
  /\ \A m \in Members : call[m].pc = "idle" \/ call[m].cmd.day = today
  /\ UNCHANGED <<st, cur, versions, events, occ, done, call, job, clock, sent, faults>>

-----------------------------------------------------------------------------
Next ==
  \/ \E m \in Members :
       \/ \E op \in Moves : Send(m, op, 0)
       \/ \E amount \in Amounts : Send(m, "set_amount", amount)
       \/ Arrive(m) \/ Replay(m) \/ Transition(m) \/ SetAmount(m)
  \/ ReadTxns \/ UpsertCandidates \/ ReapRead \/ ReapApply \/ JobDies
  \/ NewDay

Spec == Init /\ [][Next]_vars

-----------------------------------------------------------------------------
(* Properties *)

(* A series a member dismissed stays dismissed, whatever the detector sees,  *)
(* until a member confirms it.                                               *)
DismissalStands ==
  [][st = "rejected" => st' \in {"rejected", "confirmed"}]_vars

(* What a member decided is what the timeline says: the list, which shows    *)
(* the forecast by the timeline, and the status never contradict each other. *)
StatusIsLatest == st \in Decided => st = StatusOf(Latest(events))

(* However transactions overlap, the two disagree only where the timeline    *)
(* ends in a withdrawal: the reaper, whose event is written before the       *)
(* conditional update of the status, is alone in contradicting a member.     *)
OnlyReaperContradicts ==
  st \in Decided => \/ st = StatusOf(Latest(events))
                    \/ Latest(events) = "withdrawn"

(* A series in use or put aside changes its candidate only by a member's     *)
(* correction of it: the detector never takes a correction back.             *)
CandidateLocked ==
  [][(st \in Decided /\ cur' # cur)
       => (cur'.day = cur.day /\ Len(cur'.edits) > Len(cur.edits))]_vars

(* A confirmed series has its forecast, at the amount in force: no day of    *)
(* the horizon of its latest confirmation on which it runs is missing.       *)
ForecastWhole ==
  st = "confirmed" =>
    \A e \in events : e.to \in {"confirmed", "resumed"} =>
      \A d \in cur.day + 1 .. e.day + Horizon : Running(events, d) => Expected(d)

(* A command that is carried out, and not refused, takes effect, also when   *)
(* another member or the detector came first: what it asked for is what the  *)
(* series then is, and not only a date in the timeline.                      *)
TakesEffect == [][\A c \in done' \ done : Effective(c, st', cur')]_vars

(* The same of every answer of success one member gets, a replay included:   *)
(* "a same-day transition IS allowed" (changedToday).                        *)
AnswerTrue ==
  [][\A m \in Members :
       (call[m].pc = "open" /\ call'[m].pc = "idle" /\ Key(call[m].cmd) \in done')
         => Effective(call[m].cmd, st', cur')]_vars
=============================================================================
