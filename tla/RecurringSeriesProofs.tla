------------------------ MODULE RecurringSeriesProofs ------------------------
(***************************************************************************)
(* What members decide about a recurring series takes effect and stands,   *)
(* and a confirmed series has its whole forecast, for any number of        *)
(* members, days and commands. What depends on the order of the timeline   *)
(* is shown for transactions on the series that begin after the last one   *)
(* ended (Overlap = FALSE); ReaperAlone and CorrectionKept hold however    *)
(* they overlap.                                                           *)
(*                                                                         *)
(* The order of the timeline is the reason: the event of the one           *)
(* transaction that is open comes after all others, so the status it       *)
(* computes from the timeline is the one it was asked for, and what it     *)
(* projects reaches beyond the horizon of every event before it.           *)
(***************************************************************************)
EXTENDS RecurringSeries, TLAPS

CallRow == [pc : {"idle", "sent", "open"}, at : Nat,
            cmd : [op : Moves \cup {"set_amount", "none"}, amount : Amounts \cup {0}, day : 0 .. MaxDay]]
JobRow == [pc : {"idle", "read", "upserted", "reaping"}, emits : Emission, at : Nat, stale : BOOLEAN]
EventRow == [to : Recorded, day : 0 .. MaxDay, at : Nat, run : 0 .. MaxDay]

Rows == /\ today \in 0 .. MaxDay /\ clock \in Nat
        /\ call \in [Members -> CallRow] /\ job \in JobRow /\ events \subseteq EventRow

(* One transaction is open at most, and it began after every event.         *)
Serial ==
  /\ \A e \in events : e.at < clock
  /\ \A m \in Members : call[m].pc = "open" =>
       /\ call[m].at < clock /\ \A e \in events : e.at < call[m].at
       /\ job.pc # "reaping" /\ \A n \in Members : call[n].pc = "open" => n = m
  /\ job.pc = "reaping" =>
       /\ job.at < clock /\ \A e \in events : e.at < job.at
       /\ job.stale => st = "suggested"

SeriesInv == Overlap = FALSE /\ Rows /\ Serial /\ StatusIsLatest

-----------------------------------------------------------------------------
(* An event after all others is the latest. *)
LEMMA NewIsLatest ==
  ASSUME MaxDay \in Nat, NEW evs \in SUBSET EventRow, NEW e \in EventRow,
         \A f \in evs : f.day <= e.day /\ f.at < e.at
  PROVE  Latest(evs \cup {e}) = e.to
<1> DEFINE all == evs \cup {e}
           latest == CHOOSE x \in all : \A f \in all : ~ Before(x, f)
<1>1. {f \in all : f.day <= MaxDay} = all
      BY DEF EventRow
<1>2. \A f \in all : ~ Before(e, f)
      BY DEF Before, EventRow
<1>3. ASSUME NEW x \in all, \A f \in all : ~ Before(x, f) PROVE x = e
      BY <1>3 DEF Before, EventRow
<1>4. latest = e
      BY <1>2, <1>3
<1>5. Latest(all) = latest.to
      BY <1>1 DEF Latest, InForce
<1> QED
    BY <1>4, <1>5

LEMMA SeriesInit == RecurringAssumption /\ Overlap = FALSE /\ Init => SeriesInv
BY DEF RecurringAssumption, Init, SeriesInv, Rows, Serial, StatusIsLatest, Decided,
       CallRow, JobRow, EventRow, Idle, NoJob, Emission

LEMMA SendKeeps ==
  ASSUME RecurringAssumption, SeriesInv, NEW m \in Members, NEW op \in Moves \cup {"set_amount"},
         NEW amount \in Amounts \cup {0}, Send(m, op, amount)
  PROVE  SeriesInv'
<1> DEFINE n == [pc |-> "sent", cmd |-> [op |-> op, amount |-> amount, day |-> today], at |-> 0]
<1>1. n \in CallRow /\ n.pc = "sent"
      BY DEF CallRow, SeriesInv, Rows
<1>2. call' = [call EXCEPT ![m] = n]
      BY DEF Send
<1> HIDE DEF n
<1>3. \A k \in Members : call'[k] = IF k = m THEN n ELSE call[k]
      BY <1>2 DEF SeriesInv, Rows
<1>4. Rows'
      BY <1>1, <1>2 DEF Send, SeriesInv, Rows
<1>5. Serial'
      BY <1>1, <1>3 DEF Send, SeriesInv, Serial
<1> QED
    BY <1>4, <1>5 DEF Send, SeriesInv, StatusIsLatest

LEMMA ArriveKeeps ==
  ASSUME RecurringAssumption, SeriesInv, NEW m \in Members, Arrive(m)
  PROVE  SeriesInv'
<1> DEFINE n == [call[m] EXCEPT !.pc = "open", !.at = clock]
<1>1. call[m] \in CallRow /\ call \in [Members -> CallRow] /\ clock \in Nat
      BY DEF SeriesInv, Rows
<1>2. n \in CallRow /\ n.pc = "open" /\ n.at = clock
      BY <1>1 DEF CallRow
<1>3. call' = [call EXCEPT ![m] = n]
      BY <1>1 DEF Arrive
<1> HIDE DEF n
<1>4. \A k \in Members : call'[k] = IF k = m THEN n ELSE call[k]
      BY <1>1, <1>3
<1>5. clock' = clock + 1 /\ Quiet /\ UNCHANGED <<today, st, events, job>>
      BY DEF Arrive, SeriesInv
<1>6. Rows'
      BY <1>1, <1>2, <1>3, <1>5 DEF SeriesInv, Rows
<1>7. \A e \in events : e.at \in Nat
      BY DEF SeriesInv, Rows, EventRow
<1>8. Serial'
      BY <1>1, <1>2, <1>4, <1>5, <1>7 DEF SeriesInv, Serial, Quiet
<1> QED
    BY <1>5, <1>6, <1>8 DEF SeriesInv, StatusIsLatest

(* What a transition does: nothing, or its event is the latest.             *)
LEMMA TransitionDoes ==
  ASSUME RecurringAssumption, SeriesInv, NEW m \in Members, Transition(m)
  PROVE  LET c == call[m].cmd
             e == [to |-> Done(c.op), day |-> c.day, at |-> call[m].at, run |-> 0]
         IN /\ Answered(m) /\ UNCHANGED <<today, cur, job, clock>>
            /\ \/ UNCHANGED <<events, st>>
               \/ /\ events' = events \cup {e} /\ e \in EventRow
                  /\ Latest(events') = Done(c.op)
                  /\ st \in AllowedFrom(c.op) /\ st' = StatusOf(Done(c.op))
<1> DEFINE c == call[m].cmd
           e == [to |-> Done(c.op), day |-> c.day, at |-> call[m].at, run |-> 0]
<1>1. call[m] \in CallRow /\ c.day \in 0 .. MaxDay /\ call[m].at \in Nat /\ c.op \in Moves
      BY DEF SeriesInv, Rows, CallRow, Transition
<1>2. Done(c.op) \in Recorded
      BY <1>1 DEF Done, Moves, Recorded
<1>3. e \in EventRow /\ e.to = Done(c.op) /\ e.day = c.day /\ e.at = call[m].at
      BY <1>1, <1>2 DEF EventRow, RecurringAssumption
<1>4. /\ Answered(m) /\ UNCHANGED <<today, cur, job, clock>>
      /\ \/ UNCHANGED <<events, st>>
         \/ /\ events' = events \cup {e} /\ NotBackdated(c)
            /\ st \in AllowedFrom(c.op) /\ st' = StatusOf(Latest(events'))
      BY DEF Transition
<1>5. call[m].pc = "open"
      BY DEF Transition
<1> HIDE DEF e
<1>6. NotBackdated(c) => \A f \in events : f.day <= e.day /\ f.at < e.at
      BY <1>3, <1>5 DEF NotBackdated, SeriesInv, Serial
<1>7. NotBackdated(c) => Latest(events \cup {e}) = Done(c.op)
      BY <1>3, <1>6, NewIsLatest DEF SeriesInv, Rows, RecurringAssumption
<1> QED
    BY <1>3, <1>4, <1>7 DEF e

LEMMA AnsweredKeeps ==
  ASSUME RecurringAssumption, SeriesInv, NEW m \in Members, Answered(m)
  PROVE  /\ call' \in [Members -> CallRow]
         /\ \A n \in Members : call'[n].pc = "open" => n # m /\ call'[n] = call[n]
<1>1. Idle \in CallRow /\ Idle.pc = "idle"
      BY DEF Idle, CallRow, RecurringAssumption
<1> QED
    BY <1>1 DEF Answered, SeriesInv, Rows

LEMMA CallKeeps ==
  ASSUME RecurringAssumption, SeriesInv, NEW m \in Members,
         Replay(m) \/ Transition(m) \/ SetAmount(m)
  PROVE  SeriesInv'
<1>1. CASE Replay(m) \/ SetAmount(m)
  <2>1. Answered(m) /\ UNCHANGED <<today, st, events, job, clock>>
        BY <1>1 DEF Replay, SetAmount
  <2> QED
      BY <2>1, AnsweredKeeps DEF SeriesInv, Rows, Serial, StatusIsLatest
<1>2. CASE Transition(m)
  <2> DEFINE c == call[m].cmd
             e == [to |-> Done(c.op), day |-> c.day, at |-> call[m].at, run |-> 0]
  <2>1. /\ Answered(m) /\ UNCHANGED <<today, job, clock>>
        /\ \/ UNCHANGED <<events, st>>
           \/ /\ events' = events \cup {e} /\ e \in EventRow
              /\ st' = StatusOf(Latest(events'))
        BY <1>2, TransitionDoes
  <2>2. call[m].pc = "open" /\ e.at = call[m].at
        BY <1>2 DEF Transition
  <2> HIDE DEF e
  <2>3. Rows'
        BY <2>1, AnsweredKeeps DEF SeriesInv, Rows
  <2>4. \A n \in Members : call'[n].pc # "open"
        BY <2>1, <2>2, AnsweredKeeps DEF SeriesInv, Serial
  <2>5. Serial'
        BY <2>1, <2>2, <2>4 DEF SeriesInv, Serial
  <2>6. StatusIsLatest'
        BY <2>1 DEF SeriesInv, StatusIsLatest
  <2> QED
      BY <2>3, <2>5, <2>6 DEF SeriesInv
<1> QED
    BY <1>1, <1>2

LEMMA JobKeeps ==
  ASSUME RecurringAssumption, SeriesInv, ReadTxns \/ UpsertCandidates \/ ReapRead \/ ReapApply \/ JobDies
  PROVE  SeriesInv'
<1> DEFINE r(emits) == [NoJob EXCEPT !.pc = "read", !.emits = emits]
           u == [job EXCEPT !.pc = "upserted"]
           reads == [job EXCEPT !.pc = "reaping", !.at = clock,
                                !.stale = st = "suggested" /\ job.emits = "others"]
           w == [to |-> "withdrawn", day |-> today, at |-> job.at, run |-> today]
<1>1. job \in JobRow /\ NoJob \in JobRow /\ NoJob.pc = "idle" /\ clock \in Nat
      BY DEF SeriesInv, Rows, NoJob, JobRow, Emission
<1>2. CASE ReadTxns
  <2>1. PICK emits \in Emission : job' = r(emits)
        BY <1>2 DEF ReadTxns
  <2>2. r(emits) \in JobRow /\ r(emits).pc = "read"
        BY DEF NoJob, JobRow
  <2> HIDE DEF r
  <2> QED
      BY <1>2, <2>1, <2>2 DEF ReadTxns, SeriesInv, Rows, Serial, StatusIsLatest
<1>3. CASE UpsertCandidates
  <2>1. job' \in {u, NoJob} /\ UNCHANGED <<today, events, call, clock>> /\ (st' = st \/ st' = "suggested")
        BY <1>3 DEF UpsertCandidates
  <2>2. u \in JobRow /\ u.pc = "upserted"
        BY <1>1 DEF JobRow
  <2> HIDE DEF u
  <2>3. job' \in JobRow /\ job'.pc # "reaping"
        BY <1>1, <2>1, <2>2
  <2>4. Rows' /\ Serial'
        BY <2>1, <2>3 DEF SeriesInv, Rows, Serial
  <2> QED
      BY <2>1, <2>4 DEF SeriesInv, StatusIsLatest, Decided
<1>4. CASE ReapRead
  <2>1. /\ job' = reads /\ clock' = clock + 1 /\ Quiet
        /\ UNCHANGED <<today, st, events, call>>
        BY <1>4 DEF ReapRead, SeriesInv
  <2>2. /\ reads \in JobRow /\ reads.pc = "reaping" /\ reads.at = clock
        /\ reads.stale => st = "suggested"
        BY <1>1 DEF JobRow
  <2> HIDE DEF reads
  <2>3. \A e \in events : e.at \in Nat
        BY DEF SeriesInv, Rows, EventRow
  <2>4. Rows'
        BY <1>1, <2>1, <2>2 DEF SeriesInv, Rows
  <2>5. Serial'
        BY <1>1, <2>1, <2>2, <2>3 DEF SeriesInv, Serial, Quiet
  <2> QED
      BY <2>1, <2>4, <2>5 DEF SeriesInv, StatusIsLatest
<1>5. CASE ReapApply
  <2>1. /\ job.pc = "reaping" /\ job' = NoJob /\ UNCHANGED <<today, call, clock>>
        /\ events' \in {events, events \cup {w}}
        /\ \/ job.stale /\ st = "suggested" /\ st' = "withdrawn"
           \/ ~ job.stale /\ st' = st /\ events' = events
        BY <1>5 DEF ReapApply, SeriesInv, Serial
  <2>2. w \in EventRow /\ w.at = job.at
        BY <1>1 DEF EventRow, JobRow, Recorded, SeriesInv, Rows
  <2> HIDE DEF w
  <2>3. \A m \in Members : call[m].pc # "open"
        BY <2>1 DEF SeriesInv, Serial
  <2>4. Rows' /\ Serial'
        BY <1>1, <2>1, <2>2, <2>3 DEF SeriesInv, Rows, Serial
  <2> QED
      BY <2>1, <2>4 DEF SeriesInv, StatusIsLatest, Decided
<1>6. CASE JobDies
      BY <1>1, <1>6 DEF JobDies, SeriesInv, Rows, Serial, StatusIsLatest
<1> QED
    BY <1>2, <1>3, <1>4, <1>5, <1>6

LEMMA SeriesNext == RecurringAssumption /\ SeriesInv /\ [Next]_vars => SeriesInv'
<1> SUFFICES ASSUME RecurringAssumption, SeriesInv, [Next]_vars
             PROVE  SeriesInv'
    OBVIOUS
<1>1. CASE NewDay
      BY <1>1 DEF NewDay, SeriesInv, Rows, Serial, StatusIsLatest, RecurringAssumption
<1>2. CASE UNCHANGED vars
      BY <1>2 DEF vars, SeriesInv, Rows, Serial, StatusIsLatest
<1>3. ASSUME NEW m \in Members, NEW op \in Moves, Send(m, op, 0) PROVE SeriesInv'
      BY <1>3, SendKeeps
<1>4. ASSUME NEW m \in Members, NEW amount \in Amounts, Send(m, "set_amount", amount) PROVE SeriesInv'
      BY <1>4, SendKeeps
<1> QED
    BY <1>1, <1>2, <1>3, <1>4, ArriveKeeps, CallKeeps, JobKeeps DEF Next

LEMMA SeriesKept == Overlap = FALSE /\ Spec => []SeriesInv
BY SeriesInit, SeriesNext, RecurringAssumption, PTL DEF Spec

-----------------------------------------------------------------------------
(* However transactions overlap *)

(* Each transaction has a time of its own, and the timeline has a last       *)
(* event.                                                                    *)
Stamped ==
  /\ \A e, f \in events : e.at = f.at => e = f
  /\ \A e \in events : e.at < clock
  /\ \A m \in Members : call[m].pc = "open" =>
       /\ call[m].at < clock /\ \A e \in events : e.at # call[m].at
       /\ \A n \in Members : call[n].pc = "open" /\ call[n].at = call[m].at => n = m
       /\ job.pc = "reaping" => call[m].at # job.at
  /\ job.pc = "reaping" => job.at < clock /\ \A e \in events : e.at # job.at

IsLast(e, evs) == e \in evs /\ \A f \in evs : ~ Before(e, f)
HasLast(evs) == evs = {} \/ \E e \in evs : IsLast(e, evs)

TimelineInv == Rows /\ Stamped /\ HasLast(events) /\ OnlyReaperContradicts

(* The last event is unique, and is the one in force.                        *)
LEMMA LastIsLatest ==
  ASSUME MaxDay \in Nat, NEW evs \in SUBSET EventRow, NEW e \in evs, IsLast(e, evs),
         \A f, g \in evs : f.at = g.at => f = g
  PROVE  Latest(evs) = e.to
<1>1. {f \in evs : f.day <= MaxDay} = evs
      BY DEF EventRow
<1>2. ASSUME NEW x \in evs, \A f \in evs : ~ Before(x, f) PROVE x = e
      BY <1>2 DEF Before, EventRow, IsLast
<1>3. (CHOOSE x \in evs : \A f \in evs : ~ Before(x, f)) = e
      BY <1>2 DEF IsLast
<1> QED
    BY <1>1, <1>3 DEF Latest, InForce

(* Another event comes last, or leaves the last one in its place.            *)
LEMMA OneMore ==
  ASSUME MaxDay \in Nat, NEW evs \in SUBSET EventRow, HasLast(evs),
         \A f, g \in evs : f.at = g.at => f = g,
         NEW w \in EventRow, \A f \in evs : f.at # w.at
  PROVE  /\ HasLast(evs \cup {w})
         /\ Latest(evs \cup {w}) \in {w.to, Latest(evs)}
<1> DEFINE all == evs \cup {w}
<1>1. all \in SUBSET EventRow /\ \A f, g \in all : f.at = g.at => f = g
      OBVIOUS
<1>2. CASE IsLast(w, all)
      BY <1>1, <1>2, LastIsLatest DEF HasLast
<1>3. CASE ~ IsLast(w, all)
  <2>1. PICK f \in evs : Before(w, f)
        BY <1>3 DEF IsLast, Before, EventRow
  <2>2. PICK e \in evs : IsLast(e, evs)
        BY <2>1 DEF HasLast
  <2>3. ~ Before(e, w)
        BY <2>1, <2>2 DEF IsLast, Before, EventRow
  <2>4. IsLast(e, all)
        BY <2>2, <2>3 DEF IsLast
  <2>5. Latest(all) = e.to /\ Latest(evs) = e.to
        BY <1>1, <2>2, <2>4, LastIsLatest
  <2> QED
      BY <2>4, <2>5 DEF HasLast
<1> QED
    BY <1>2, <1>3

LEMMA TimelineInit == RecurringAssumption /\ Init => TimelineInv
BY DEF RecurringAssumption, Init, TimelineInv, Rows, Stamped, HasLast, OnlyReaperContradicts,
       Decided, CallRow, JobRow, EventRow, Idle, NoJob, Emission

LEMMA MemberTimeline ==
  ASSUME RecurringAssumption, TimelineInv, NEW m \in Members,
         \/ \E op \in Moves \cup {"set_amount"}, amount \in Amounts \cup {0} : Send(m, op, amount)
         \/ Arrive(m) \/ Replay(m) \/ SetAmount(m)
  PROVE  TimelineInv'
<1> DEFINE s(op, amount) ==
             [pc |-> "sent", cmd |-> [op |-> op, amount |-> amount, day |-> today], at |-> 0]
           a == [call[m] EXCEPT !.pc = "open", !.at = clock]
<1>1. /\ call \in [Members -> CallRow] /\ call[m] \in CallRow /\ clock \in Nat
      /\ Idle \in CallRow /\ Idle.pc = "idle" /\ a \in CallRow /\ a.at = clock
  <2>1. call \in [Members -> CallRow] /\ call[m] \in CallRow /\ clock \in Nat
        BY DEF TimelineInv, Rows
  <2>2. Idle \in CallRow /\ Idle.pc = "idle"
        BY DEF Idle, CallRow, RecurringAssumption
  <2>3. a \in CallRow /\ a.at = clock
        BY <2>1 DEF CallRow
  <2> HIDE DEF a
  <2> QED
      BY <2>1, <2>2, <2>3
<1>2. \A op \in Moves \cup {"set_amount"}, amount \in Amounts \cup {0} :
        s(op, amount) \in CallRow /\ s(op, amount).pc = "sent"
      BY DEF CallRow, TimelineInv, Rows
<1>3. PICK c \in CallRow :
        /\ call' = [call EXCEPT ![m] = c] /\ UNCHANGED <<today, st, events, job>>
        /\ \/ clock' = clock /\ c.pc # "open"
           \/ clock' = clock + 1 /\ c.at = clock
  <2>1. CASE \E op \in Moves \cup {"set_amount"}, amount \in Amounts \cup {0} : Send(m, op, amount)
    <3>1. PICK op \in Moves \cup {"set_amount"}, amount \in Amounts \cup {0} : Send(m, op, amount)
          BY <2>1
    <3>2. call' = [call EXCEPT ![m] = s(op, amount)] /\ UNCHANGED <<today, st, events, job, clock>>
          BY <3>1 DEF Send
    <3>3. s(op, amount) \in CallRow /\ s(op, amount).pc # "open"
          BY <1>2
    <3> HIDE DEF s
    <3> QED
        BY <3>2, <3>3
  <2>2. CASE Arrive(m)
        BY <1>1, <2>2 DEF Arrive
  <2>3. CASE Replay(m) \/ SetAmount(m)
    <3>1. call' = [call EXCEPT ![m] = Idle] /\ UNCHANGED <<today, st, events, job, clock>>
          BY <2>3 DEF Replay, SetAmount, Answered
    <3> QED
        BY <1>1, <3>1
  <2> QED
      BY <2>1, <2>2, <2>3
<1> HIDE DEF a, s
<1>4. \A k \in Members : call'[k] = IF k = m THEN c ELSE call[k]
      BY <1>1, <1>3
<1>5. Rows'
      BY <1>1, <1>3 DEF TimelineInv, Rows
<1>6. \A e \in events : e.at \in Nat
      BY DEF TimelineInv, Rows, EventRow
<1>7. Stamped'
  <2>1. job.at \in Nat /\ \A k \in Members : call[k].at \in Nat
        BY <1>1 DEF TimelineInv, Rows, CallRow, JobRow
  <2>2. CASE clock' = clock /\ c.pc # "open"
        BY <1>3, <1>4, <2>2 DEF TimelineInv, Stamped
  <2>3. CASE clock' = clock + 1 /\ c.at = clock
    <3>1. /\ \A e \in events' : e.at < clock'
          /\ job'.pc = "reaping" => job'.at < clock' /\ \A e \in events' : e.at # job'.at
          BY <1>1, <1>3, <1>6, <2>1, <2>3 DEF TimelineInv, Stamped
    <3>2. ASSUME NEW k \in Members, call'[k].pc = "open"
          PROVE  /\ call'[k].at < clock' /\ \A e \in events' : e.at # call'[k].at
                 /\ \A n \in Members : call'[n].pc = "open" /\ call'[n].at = call'[k].at => n = k
                 /\ job'.pc = "reaping" => call'[k].at # job'.at
      <4>1. CASE k = m
            BY <1>1, <1>3, <1>4, <1>6, <2>1, <2>3, <4>1 DEF TimelineInv, Stamped
      <4>2. CASE k # m
            BY <1>1, <1>3, <1>4, <1>6, <2>1, <2>3, <3>2, <4>2 DEF TimelineInv, Stamped
      <4> QED
          BY <4>1, <4>2
    <3>3. \A e, f \in events' : e.at = f.at => e = f
          BY <1>3 DEF TimelineInv, Stamped
    <3> QED
        BY <3>1, <3>2, <3>3 DEF Stamped
  <2> QED
      BY <1>3, <2>2, <2>3
<1> QED
    BY <1>3, <1>5, <1>7 DEF TimelineInv, OnlyReaperContradicts

LEMMA TransitionTimeline ==
  ASSUME RecurringAssumption, TimelineInv, NEW m \in Members, Transition(m)
  PROVE  TimelineInv'
<1> DEFINE c == call[m].cmd
           e == [to |-> Done(c.op), day |-> c.day, at |-> call[m].at, run |-> 0]
<1>1. /\ call \in [Members -> CallRow] /\ call[m] \in CallRow /\ clock \in Nat
      /\ c.day \in 0 .. MaxDay /\ call[m].at \in Nat /\ c.op \in Moves /\ call[m].pc = "open"
      /\ events \in SUBSET EventRow /\ MaxDay \in Nat
      /\ Idle \in CallRow /\ Idle.pc = "idle"
      BY DEF TimelineInv, Rows, CallRow, Transition, RecurringAssumption, Idle
<1>2. Done(c.op) \in Recorded
      BY <1>1 DEF Done, Moves, Recorded
<1>3. e \in EventRow /\ e.at = call[m].at
      BY <1>1, <1>2 DEF EventRow
<1>4. /\ call' = [call EXCEPT ![m] = Idle] /\ UNCHANGED <<today, job, clock>>
      /\ \/ UNCHANGED <<events, st>>
         \/ events' = events \cup {e} /\ st' = StatusOf(Latest(events'))
      BY DEF Transition, Answered
<1> HIDE DEF c, e
<1>5. \A k \in Members : call'[k] = IF k = m THEN Idle ELSE call[k]
      BY <1>1, <1>4
<1>6. Rows'
      BY <1>1, <1>3, <1>4 DEF TimelineInv, Rows
<1>7. \A f \in events : f.at # e.at
      BY <1>1, <1>3 DEF TimelineInv, Stamped
<1>8. Stamped'
  <2>1. CASE events' = events
        BY <1>1, <1>4, <1>5, <2>1 DEF TimelineInv, Stamped
  <2>2. CASE events' = events \cup {e}
        BY <1>1, <1>3, <1>4, <1>5, <1>7, <2>2 DEF TimelineInv, Stamped
  <2> QED
      BY <1>4, <2>1, <2>2
<1>9. \A f, g \in events : f.at = g.at => f = g
      BY DEF TimelineInv, Stamped
<1>10. HasLast(events \cup {e})
       BY <1>1, <1>3, <1>7, <1>9, OneMore DEF TimelineInv
<1> QED
    BY <1>4, <1>6, <1>8, <1>10 DEF TimelineInv, OnlyReaperContradicts

LEMMA JobTimeline ==
  ASSUME RecurringAssumption, TimelineInv,
         ReadTxns \/ UpsertCandidates \/ ReapRead \/ ReapApply \/ JobDies
  PROVE  TimelineInv'
<1> DEFINE r(emits) == [NoJob EXCEPT !.pc = "read", !.emits = emits]
           u == [job EXCEPT !.pc = "upserted"]
           reads == [job EXCEPT !.pc = "reaping", !.at = clock,
                                !.stale = st = "suggested" /\ job.emits = "others"]
           w == [to |-> "withdrawn", day |-> today, at |-> job.at, run |-> today]
<1>1. /\ job \in JobRow /\ NoJob \in JobRow /\ NoJob.pc = "idle" /\ clock \in Nat
      /\ events \in SUBSET EventRow /\ MaxDay \in Nat /\ today \in 0 .. MaxDay
      /\ call \in [Members -> CallRow]
      BY DEF TimelineInv, Rows, NoJob, JobRow, Emission, RecurringAssumption
<1>2. \A e \in events : e.at \in Nat
      BY <1>1 DEF EventRow
<1>3. CASE ReadTxns \/ UpsertCandidates \/ JobDies
  <2>1. /\ UNCHANGED <<today, events, call, clock>> /\ (st' = st \/ st' = "suggested")
        /\ job' \in {u, NoJob} \/ \E emits \in Emission : job' = r(emits)
        BY <1>3 DEF ReadTxns, UpsertCandidates, JobDies
  <2>2. u \in JobRow /\ u.pc # "reaping"
        BY <1>1 DEF JobRow
  <2>3. \A emits \in Emission : r(emits) \in JobRow /\ r(emits).pc # "reaping"
        BY DEF NoJob, JobRow
  <2> HIDE DEF u, r
  <2>4. job' \in JobRow /\ job'.pc # "reaping"
        BY <1>1, <2>1, <2>2, <2>3
  <2>5. Rows' /\ Stamped'
        BY <2>1, <2>4 DEF TimelineInv, Rows, Stamped
  <2> QED
      BY <2>1, <2>5 DEF TimelineInv, OnlyReaperContradicts, Decided
<1>4. CASE ReapRead
  <2>1. /\ job' = reads /\ clock' = clock + 1 /\ UNCHANGED <<today, st, events, call>>
        BY <1>4 DEF ReapRead
  <2>2. reads \in JobRow /\ reads.pc = "reaping" /\ reads.at = clock
        BY <1>1 DEF JobRow
  <2> HIDE DEF reads
  <2>3. Rows'
        BY <1>1, <2>1, <2>2 DEF TimelineInv, Rows
  <2>4. \A m \in Members : call[m].at \in Nat
        BY <1>1 DEF CallRow
  <2>5. Stamped'
        BY <1>1, <1>2, <2>1, <2>2, <2>4 DEF TimelineInv, Stamped
  <2> QED
      BY <2>1, <2>3, <2>5 DEF TimelineInv, OnlyReaperContradicts
<1>5. CASE ReapApply
  <2>1. /\ job.pc = "reaping" /\ job' = NoJob /\ UNCHANGED <<today, call, clock>>
        /\ events' \in {events, events \cup {w}} /\ (st' = st \/ st' = "withdrawn")
        BY <1>5 DEF ReapApply
  <2>2. w \in EventRow /\ w.at = job.at /\ w.to = "withdrawn"
        BY <1>1 DEF EventRow, JobRow, Recorded
  <2> HIDE DEF w
  <2>3. \A f \in events : f.at # w.at
        BY <2>1, <2>2 DEF TimelineInv, Stamped
  <2>4. \A f, g \in events : f.at = g.at => f = g
        BY DEF TimelineInv, Stamped
  <2>5. HasLast(events \cup {w}) /\ Latest(events \cup {w}) \in {"withdrawn", Latest(events)}
        BY <1>1, <2>2, <2>3, <2>4, OneMore DEF TimelineInv
  <2>6. Rows'
        BY <1>1, <2>1, <2>2 DEF TimelineInv, Rows
  <2>7. Stamped'
        BY <1>1, <2>1, <2>2, <2>3 DEF TimelineInv, Stamped
  <2>8. Latest(events') \in {"withdrawn", Latest(events)} /\ HasLast(events')
        BY <2>1, <2>5 DEF TimelineInv
  <2> QED
      BY <2>1, <2>6, <2>7, <2>8 DEF TimelineInv, OnlyReaperContradicts, Decided
<1> QED
    BY <1>3, <1>4, <1>5

LEMMA TimelineNext == RecurringAssumption /\ TimelineInv /\ [Next]_vars => TimelineInv'
<1> SUFFICES ASSUME RecurringAssumption, TimelineInv, [Next]_vars
             PROVE  TimelineInv'
    OBVIOUS
<1>1. CASE NewDay
      BY <1>1 DEF NewDay, TimelineInv, Rows, Stamped, OnlyReaperContradicts, RecurringAssumption
<1>2. CASE UNCHANGED vars
      BY <1>2 DEF vars, TimelineInv, Rows, Stamped, OnlyReaperContradicts
<1>3. ASSUME NEW m \in Members, NEW op \in Moves, Send(m, op, 0) PROVE TimelineInv'
      BY <1>3, MemberTimeline
<1>4. ASSUME NEW m \in Members, NEW amount \in Amounts, Send(m, "set_amount", amount)
      PROVE  TimelineInv'
      BY <1>4, MemberTimeline
<1> QED
    BY <1>1, <1>2, <1>3, <1>4, MemberTimeline, TransitionTimeline, JobTimeline DEF Next

LEMMA TimelineKept == Spec => []TimelineInv
BY TimelineInit, TimelineNext, RecurringAssumption, PTL DEF Spec

LEMMA RowsKept == Spec => []Rows
<1>1. TimelineInv => Rows
      BY DEF TimelineInv
<1> QED
    BY <1>1, TimelineKept, PTL

-----------------------------------------------------------------------------
(* Theorems *)

(* What a member decided and the timeline the list is drawn from disagree   *)
(* only by a withdrawal of the reaper, however many transactions on the     *)
(* series overlap and in whatever order they get its lock.                  *)
THEOREM ReaperAlone == Spec => []OnlyReaperContradicts
<1>1. TimelineInv => OnlyReaperContradicts
      BY DEF TimelineInv
<1> QED
    BY <1>1, TimelineKept, PTL

(* A rejected series is left only by a confirmation: the detector refreshes *)
(* no rejected series, the reaper withdraws only suggestions, and of the    *)
(* transitions only a confirmation is allowed from it.                      *)
THEOREM DismissalDurable == Overlap = FALSE /\ Spec => DismissalStands
<1>1. SeriesInv /\ [Next]_vars => [st = "rejected" => st' \in {"rejected", "confirmed"}]_vars
  <2> SUFFICES ASSUME SeriesInv, Next, st = "rejected"
               PROVE  st' \in {"rejected", "confirmed"}
      BY DEF vars
  <2>1. ASSUME NEW m \in Members, Transition(m)
        PROVE  st' \in {"rejected", "confirmed"}
    <3>1. call[m].cmd.op \in Moves
          BY <2>1 DEF Transition
    <3>2. \/ st' = st
          \/ st \in AllowedFrom(call[m].cmd.op) /\ st' = StatusOf(Done(call[m].cmd.op))
          BY <2>1, TransitionDoes, RecurringAssumption
    <3>3. st \in AllowedFrom(call[m].cmd.op) => call[m].cmd.op = "confirm"
          BY <3>1 DEF AllowedFrom, Moves
    <3> QED
        BY <3>2, <3>3 DEF StatusOf, Done
  <2>2. CASE UpsertCandidates
        BY <2>2 DEF UpsertCandidates, Refreshable
  <2>3. CASE ReapApply
        BY <2>3 DEF ReapApply
  <2> QED
      BY <2>1, <2>2, <2>3 DEF Next, Send, Arrive, Replay, SetAmount, ReadTxns, ReapRead, JobDies, NewDay
<1> QED
    BY <1>1, SeriesKept, PTL DEF Spec, DismissalStands

(* The candidate is a version with the corrections made of it.              *)
Candidate == [day : 0 .. MaxDay, edits : Seq(Amounts \cup {0})]

LEMMA Corrected ==
  ASSUME Rows, cur \in Candidate, NEW m \in Members, SetAmount(m), cur' # cur
  PROVE  /\ cur' \in Candidate /\ cur'.day = cur.day
         /\ Len(cur'.edits) = Len(cur.edits) + 1
<1> DEFINE longer == Append(cur.edits, call[m].cmd.amount)
           v == [cur EXCEPT !.edits = longer]
<1>1. cur' = v
      BY DEF SetAmount
<1>2. call[m].cmd.amount \in Amounts \cup {0} /\ cur.edits \in Seq(Amounts \cup {0})
      BY DEF Rows, CallRow, Candidate
<1>3. longer \in Seq(Amounts \cup {0}) /\ Len(longer) = Len(cur.edits) + 1
      BY <1>2
<1> HIDE DEF longer
<1> QED
    BY <1>1, <1>3 DEF Candidate

LEMMA CandidateKept == Spec => [](Rows /\ cur \in Candidate)
<1>1. RecurringAssumption /\ Init => cur \in Candidate
      BY DEF Init, NoVersion, Candidate, RecurringAssumption
<1>2. Rows /\ cur \in Candidate /\ [Next]_vars => (cur \in Candidate)'
  <2> SUFFICES ASSUME Rows, cur \in Candidate, [Next]_vars, cur' # cur
               PROVE  cur' \in Candidate
      BY DEF Candidate
  <2>1. CASE UpsertCandidates
    <3> DEFINE v == [day |-> today, edits |-> <<>>]
    <3>1. cur' = v
          BY <2>1 DEF UpsertCandidates
    <3>2. v \in Candidate
          BY DEF Candidate, Rows
    <3> QED
        BY <3>1, <3>2
  <2> QED
      BY <2>1, Corrected DEF Next, vars, Send, Arrive, Replay, Transition, ReadTxns, ReapRead,
                             ReapApply, JobDies, NewDay
<1> QED
    BY <1>1, <1>2, RowsKept, RecurringAssumption, PTL DEF Spec

(* A series in use or put aside keeps its candidate, but for a correction   *)
(* that a member makes of it: a detector run replaces only suggestions.     *)
THEOREM CorrectionKept == Spec => CandidateLocked
<1>1. Rows /\ cur \in Candidate /\ [Next]_vars
        => [(st \in Decided /\ cur' # cur)
              => (cur'.day = cur.day /\ Len(cur'.edits) > Len(cur.edits))]_vars
  <2> SUFFICES ASSUME Rows, cur \in Candidate, Next, st \in Decided, cur' # cur
               PROVE  cur'.day = cur.day /\ Len(cur'.edits) > Len(cur.edits)
      BY DEF vars
  <2>1. ASSUME NEW m \in Members, SetAmount(m)
        PROVE  cur'.day = cur.day /\ Len(cur'.edits) > Len(cur.edits)
    <3>1. Len(cur.edits) \in Nat
          BY DEF Candidate
    <3> QED
        BY <2>1, <3>1, Corrected
  <2>2. ~ UpsertCandidates
        BY DEF UpsertCandidates, Refreshable, Decided
  <2> QED
      BY <2>1, <2>2 DEF Next, Send, Arrive, Replay, Transition, ReadTxns, ReapRead, ReapApply,
                        JobDies, NewDay
<1> QED
    BY <1>1, CandidateKept, PTL DEF Spec, CandidateLocked

-----------------------------------------------------------------------------

(* A command that is carried out, and was not before, is what the series    *)
(* then is: the event of a transition is the latest of the timeline, and a  *)
(* correction is the last of the candidate's.                               *)
THEOREM CommandsEffective == Overlap = FALSE /\ Spec => TakesEffect
<1>1. SeriesInv /\ cur \in Candidate /\ [Next]_vars
        => [\A c \in done' \ done : Effective(c, st', cur')]_vars
  <2> SUFFICES ASSUME SeriesInv, cur \in Candidate, Next, NEW c \in done' \ done
               PROVE  Effective(c, st', cur')
      BY DEF vars
  <2>1. ASSUME NEW m \in Members, Transition(m)
        PROVE  Effective(c, st', cur')
    <3>1. c = call[m].cmd /\ c.op \in Moves /\ events' # events
      <4> DEFINE e == [to |-> Done(call[m].cmd.op), day |-> call[m].cmd.day, at |-> call[m].at,
                       run |-> 0]
      <4>1. /\ call[m].pc = "open" /\ call[m].cmd.op \in Moves
            /\ done' = done \/ (done' = done \cup {call[m].cmd} /\ events' = events \cup {e})
            BY <2>1, Zenon DEF Transition, Key
      <4>2. e.at = call[m].at
            OBVIOUS
      <4>3. \A f \in events : f.at < call[m].at /\ f.at \in Nat /\ call[m].at \in Nat
            BY <4>1 DEF SeriesInv, Serial, Rows, CallRow, EventRow
      <4> HIDE DEF e
      <4>4. c = call[m].cmd /\ events' = events \cup {e}
            BY <4>1
      <4>5. e \notin events
            BY <4>2, <4>3
      <4> QED
          BY <4>1, <4>4, <4>5
    <3>2. st' = StatusOf(Done(c.op))
          BY <2>1, <3>1, TransitionDoes, RecurringAssumption
    <3>3. c.op # "set_amount"
          BY <3>1 DEF Moves
    <3> QED
        BY <3>2, <3>3 DEF Effective
  <2>2. ASSUME NEW m \in Members, SetAmount(m)
        PROVE  Effective(c, st', cur')
    <3> DEFINE a == call[m].cmd.amount
               longer == Append(cur.edits, a)
               v == [cur EXCEPT !.edits = longer]
    <3>1. c = call[m].cmd /\ c.op = "set_amount" /\ cur' = v
          BY <2>2 DEF SetAmount, Key
    <3>2. a \in Amounts \cup {0} /\ cur.edits \in Seq(Amounts \cup {0})
          BY DEF SeriesInv, Rows, CallRow, Candidate
    <3>3. longer # <<>> /\ longer[Len(longer)] = a
          BY <3>2
    <3> HIDE DEF longer
    <3>4. v.edits = longer
          BY DEF Candidate
    <3> QED
        BY <3>1, <3>3, <3>4 DEF Effective, AmountOf
  <2> QED
      BY <2>1, <2>2 DEF Next, Send, Arrive, Replay, ReadTxns, UpsertCandidates, ReapRead,
                        ReapApply, JobDies, NewDay
<1> QED
    BY <1>1, SeriesKept, CandidateKept, PTL DEF Spec, TakesEffect

(* No event lies in the future, and a command is of today or of yesterday.  *)
InTime ==
  /\ \A e \in events : e.day <= today
  /\ \A m \in Members : call[m].pc # "idle" => call[m].cmd.day \in {today - 1, today}

ForecastInv == SeriesInv /\ cur \in Candidate /\ InTime /\ ForecastWhole

LEMMA InTimeNext ==
  ASSUME SeriesInv, InTime, [Next]_vars
  PROVE  InTime'
<1>1. ASSUME NEW m \in Members, Answered(m), today' = today,
             \A e \in events' : e \in events \/ (call[m].pc = "open" /\ e.day = call[m].cmd.day)
      PROVE  InTime'
  <2>1. \A n \in Members : call'[n] = IF n = m THEN Idle ELSE call[n]
        BY <1>1 DEF Answered, SeriesInv, Rows
  <2>2. Idle.pc = "idle"
        BY DEF Idle
  <2>3. today \in Int
        BY DEF SeriesInv, Rows
  <2> QED
      BY <1>1, <2>1, <2>2, <2>3 DEF InTime
<1>2. ASSUME NEW m \in Members, NEW op, NEW amount, Send(m, op, amount)
      PROVE  InTime'
  <2> DEFINE n == [pc |-> "sent", cmd |-> [op |-> op, amount |-> amount, day |-> today], at |-> 0]
  <2>1. call' = [call EXCEPT ![m] = n] /\ today' = today /\ events' = events
        BY <1>2 DEF Send
  <2>2. n.cmd.day = today
        OBVIOUS
  <2> HIDE DEF n
  <2>3. \A k \in Members : call'[k] = IF k = m THEN n ELSE call[k]
        BY <2>1 DEF SeriesInv, Rows
  <2> QED
      BY <2>1, <2>2, <2>3 DEF InTime
<1>3. ASSUME NEW m \in Members, Arrive(m)
      PROVE  InTime'
  <2> DEFINE n == [call[m] EXCEPT !.pc = "open", !.at = clock]
  <2>1. call' = [call EXCEPT ![m] = n] /\ today' = today /\ events' = events /\ call[m].pc = "sent"
        BY <1>3 DEF Arrive, SeriesInv, Rows
  <2>2. n.cmd = call[m].cmd
        BY DEF SeriesInv, Rows, CallRow
  <2> HIDE DEF n
  <2>3. \A k \in Members : call'[k] = IF k = m THEN n ELSE call[k]
        BY <2>1 DEF SeriesInv, Rows
  <2> QED
      BY <2>1, <2>2, <2>3 DEF InTime
<1>4. ASSUME NEW m \in Members, Replay(m) \/ SetAmount(m)
      PROVE  InTime'
      BY <1>1, <1>4 DEF Replay, SetAmount
<1>5. ASSUME NEW m \in Members, Transition(m)
      PROVE  InTime'
  <2> DEFINE e == [to |-> Done(call[m].cmd.op), day |-> call[m].cmd.day, at |-> call[m].at,
                   run |-> 0]
  <2>1. /\ Answered(m) /\ today' = today /\ call[m].pc = "open"
        /\ events' = events \/ events' = events \cup {e}
        BY <1>5 DEF Transition
  <2>2. e.day = call[m].cmd.day
        OBVIOUS
  <2> HIDE DEF e
  <2> QED
      BY <1>1, <2>1, <2>2
<1>6. CASE ReapApply
  <2> DEFINE w == [to |-> "withdrawn", day |-> today, at |-> job.at, run |-> today]
  <2>1. events' \in {events, events \cup {w}} /\ today' = today /\ call' = call
        BY <1>6 DEF ReapApply
  <2>2. w.day = today /\ today \in Int
        BY DEF SeriesInv, Rows
  <2> HIDE DEF w
  <2> QED
      BY <2>1, <2>2 DEF InTime
<1>7. CASE NewDay
  <2>1. /\ today' = today + 1 /\ events' = events /\ call' = call
        /\ \A m \in Members : call[m].pc = "idle" \/ call[m].cmd.day = today
        BY <1>7 DEF NewDay
  <2>2. today \in Int /\ \A e \in events : e.day \in Int
        BY DEF SeriesInv, Rows, EventRow
  <2> QED
      BY <2>1, <2>2 DEF InTime
<1>8. CASE today' = today /\ events' = events /\ call' = call
      BY <1>8 DEF InTime
<1> QED
    BY <1>2, <1>3, <1>4, <1>5, <1>6, <1>7, <1>8
    DEF Next, vars, ReadTxns, UpsertCandidates, ReapRead, JobDies

(* What a projection holds. *)
LEMMA ProjectedHolds ==
  ASSUME NEW v, NEW evs, NEW until, NEW d \in v.day + 1 .. until, Running(evs, d)
  PROVE  [version |-> v, day |-> d] \in Projected(v, evs, until)
  BY DEF Projected

LEMMA ForecastNext ==
  ASSUME RecurringAssumption, ForecastInv, [Next]_vars
  PROVE  ForecastWhole'
<1>1. /\ SeriesInv /\ cur \in Candidate /\ InTime /\ ForecastWhole /\ Horizon \in Nat
      /\ today \in Int /\ cur.day \in Int
      /\ \A e \in events : e.day \in Int /\ e.day <= today
      BY DEF ForecastInv, RecurringAssumption, Candidate, SeriesInv, Rows, EventRow, InTime
(* The projection made at a transition or a correction covers every event's *)
(* horizon.                                                                 *)
<1>2. ASSUME NEW until \in Int, NEW b, b = cur'.day, b \in Int,
             \A e \in events' : e.day \in Int /\ e.day + Horizon <= until,
             Projected(cur', events', until) \subseteq occ'
      PROVE  ForecastWhole'
  <2>1. ASSUME NEW e \in events', NEW d \in b + 1 .. e.day + Horizon, Running(events', d)
        PROVE  [version |-> cur', day |-> d] \in occ'
    <3>1. d \in cur'.day + 1 .. until
          BY <1>1, <1>2, <2>1
    <3> QED
        BY <3>1, <2>1, <1>2, ProjectedHolds
  <2> QED
      BY <2>1, <1>2 DEF ForecastWhole, Expected
<1>3. CASE UNCHANGED <<st, cur, events>> /\ occ \subseteq occ'
      BY <1>1, <1>3 DEF ForecastWhole, Expected
<1>4. CASE st' # "confirmed"
      BY <1>4 DEF ForecastWhole
<1>5. ASSUME NEW m \in Members, Transition(m)
      PROVE  ForecastWhole'
  <2> DEFINE c == call[m].cmd
             e == [to |-> Done(c.op), day |-> c.day, at |-> call[m].at, run |-> 0]
  <2>1. cur' = cur /\ c.op \in Moves
        BY <1>5 DEF Transition
  <2>2. CASE UNCHANGED <<events, st>>
    <3>1. occ \subseteq occ'
          BY <1>5 DEF Transition
    <3> QED
        BY <3>1, <2>1, <2>2, <1>3
  <2>3. CASE ~ UNCHANGED <<events, st>>
    <3>1. /\ events' = events \cup {e} /\ st' = StatusOf(Done(c.op))
          BY <1>1, <1>5, <2>3, TransitionDoes, RecurringAssumption
    <3>2. /\ NotBackdated(c)
          /\ c.op \in {"confirm", "resume"} => Projected(cur, events', c.day + Horizon) \subseteq occ'
          BY <1>5, <2>3 DEF Transition
    <3>3. c.op \notin {"confirm", "resume"} => st' # "confirmed"
          BY <3>1, <2>1 DEF StatusOf, Done, Moves
    <3>4. c.day \in Int /\ e.day = c.day
          BY <1>1 DEF SeriesInv, Rows, CallRow
    <3> HIDE DEF e
    <3>5. \A f \in events' : f.day \in Int /\ f.day + Horizon <= c.day + Horizon
          BY <1>1, <3>1, <3>2, <3>4 DEF NotBackdated
    <3>6. CASE c.op \in {"confirm", "resume"}
          BY <3>6, <3>2, <3>4, <3>5, <2>1, <1>1, <1>2
    <3> QED
        BY <3>3, <3>6, <1>4
  <2> QED
      BY <2>2, <2>3
<1>6. ASSUME NEW m \in Members, SetAmount(m)
      PROVE  ForecastWhole'
  <2>1. /\ call[m].pc = "open" /\ UNCHANGED <<st, events>>
        /\ \/ UNCHANGED <<cur, occ>>
           \/ /\ st = "confirmed" => occ' = occ \cup Projected(cur', events, call[m].cmd.day + Horizon + 1)
              /\ cur' # cur
    <3> DEFINE v == [cur EXCEPT !.edits = Append(@, call[m].cmd.amount)]
    <3>1. v # cur
      <4>1. call[m].cmd.amount \in Amounts \cup {0} /\ cur.edits \in Seq(Amounts \cup {0})
            BY <1>1 DEF SeriesInv, Rows, CallRow, Candidate
      <4>2. Len(Append(cur.edits, call[m].cmd.amount)) # Len(cur.edits)
            BY <4>1
      <4>3. v.edits = Append(cur.edits, call[m].cmd.amount)
            BY <1>1 DEF Candidate
      <4> QED
          BY <4>2, <4>3
    <3>2. call[m].pc = "open" /\ UNCHANGED <<st, events>>
          BY <1>6, Zenon DEF SetAmount
    <3>3. \/ UNCHANGED <<cur, occ>>
          \/ /\ cur' = v
             /\ st = "confirmed" => occ' = occ \cup Projected(v, events, call[m].cmd.day + Horizon + 1)
          BY <1>6, Zenon DEF SetAmount
    <3> HIDE DEF v
    <3> QED
        BY <3>1, <3>2, <3>3
  <2>2. CASE UNCHANGED <<cur, occ>>
        BY <2>1, <2>2, <1>3
  <2>3. CASE st = "confirmed" /\ cur' # cur
    <3>1. Projected(cur', events', call[m].cmd.day + Horizon + 1) \subseteq occ'
          BY <2>1, <2>3
    <3>2. cur'.day = cur.day
          BY <1>1, <1>6, <2>3, Corrected DEF SeriesInv
    <3>3. call[m].cmd.day \in {today - 1, today}
          BY <1>1, <2>1 DEF InTime
    <3> DEFINE until == call[m].cmd.day + Horizon + 1
    <3>4. until \in Int /\ \A e \in events' : e.day \in Int /\ e.day + Horizon <= until
          BY <3>3, <1>1, <2>1
    <3> HIDE DEF until
    <3>5. Projected(cur', events', until) \subseteq occ'
          BY <3>1 DEF until
    <3> QED
        BY <3>2, <3>4, <3>5, <1>1, <1>2
  <2>4. CASE st # "confirmed"
        BY <2>1, <2>4, <1>4
  <2> QED
      BY <2>1, <2>2, <2>3, <2>4
<1>7. CASE UpsertCandidates
  <2>1. /\ UNCHANGED <<events, occ>>
        /\ UNCHANGED <<st, cur>> \/ st' = "suggested"
        BY <1>7 DEF UpsertCandidates
  <2> QED
      BY <2>1, <1>3, <1>4
<1>8. CASE ReapApply
  <2>1. /\ UNCHANGED <<cur, occ>>
        /\ UNCHANGED <<st, events>> \/ st' = "withdrawn"
        BY <1>1, <1>8 DEF ReapApply, SeriesInv, Serial
  <2> QED
      BY <2>1, <1>3, <1>4
<1>9. CASE UNCHANGED <<st, cur, events, occ>>
      BY <1>9, <1>3
<1> QED
    BY <1>5, <1>6, <1>7, <1>8, <1>9
    DEF Next, vars, Send, Arrive, Replay, ReadTxns, ReapRead, JobDies, NewDay

(* A confirmed series has its whole forecast, at the amount in force: the   *)
(* transition or the correction that made it so projected up to the horizon *)
(* of the latest event, also when the correction was sent the day before.   *)
THEOREM ForecastComplete == Overlap = FALSE /\ Spec => []ForecastWhole
<1>1. RecurringAssumption /\ Init => InTime /\ ForecastWhole
      BY DEF Init, InTime, ForecastWhole, Idle
<1>2. SeriesInv /\ cur \in Candidate /\ InTime /\ ForecastWhole /\ [Next]_vars
        => InTime' /\ ForecastWhole'
      BY InTimeNext, ForecastNext, RecurringAssumption DEF ForecastInv
<1> QED
    BY <1>1, <1>2, SeriesKept, CandidateKept, RecurringAssumption, PTL DEF Spec
=============================================================================
