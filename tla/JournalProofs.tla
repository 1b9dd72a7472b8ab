--------------------------- MODULE JournalProofs ---------------------------
(***************************************************************************)
(* What Journal promises for every number of sessions, dates and amounts:  *)
(* its type invariant, one writer of the row, at most one live batch, the  *)
(* live batch's amount, splits that are kept, and, on every date, postings *)
(* that sum to what the live batch posts; the one way in which row and     *)
(* journal come apart; and balances a close recorded that stand.           *)
(***************************************************************************)
EXTENDS Journal, TLAPS, FiniteSetTheorems, WellFoundedInduction

-----------------------------------------------------------------------------
(* The inductive invariant. *)

(* What a command still to be committed relies on: the batch it corrects is    *)
(* there, what it adds is no reversal, and amounts are those of the record.    *)
Wanted(c) ==
  /\ c.old # 0 => c.old \in DOMAIN batches /\ batches[c.old].reverses = 0
  /\ c.new # NoBatch => c.new.reverses = 0
  /\ c.status \in {"keep", "voided"} => c.old # 0
  /\ c.status \in {"pending", "posted"} => c.date # NoDate
  /\ c.new # NoBatch /\ c.record = NoRecord => c.locking /\ c.new.cash = record.cash
  /\ c.new # NoBatch /\ c.record # NoRecord => c.new.cash = c.record.cash
  /\ c.new = NoBatch /\ c.record # NoRecord => c.record.cash = record.cash

Busy(c) == c.pc \in {"write", "commit"}
Creates(c) == c.old = 0 /\ c.new # NoBatch

Commands ==
  \A p \in Procs : Busy(proc[p]) =>
    /\ Wanted(proc[p])
    /\ proc[p].record # NoRecord => proc[p].sync \/ Creates(proc[p])
    /\ Creates(proc[p]) => batches = <<>> /\ \A q \in Procs \ {p} : ~Busy(proc[q])

OneSync ==
  /\ \A p \in Procs : proc[p].sync => Busy(proc[p])
  /\ \A p, q \in Procs : proc[p].sync /\ proc[q].sync => p = q

Closing == \A p \in Procs : proc[p].pc = "close" => proc[p].date \in Dates

Unborn == row.status = "none" => batches = <<>>

IInv ==
  /\ TypeOK /\ OneWriter /\ OneLive /\ SourceAmount
  /\ Commands /\ OneSync /\ Closing /\ Unborn

-----------------------------------------------------------------------------
(* The values that stand for nothing are none of the others. *)
LEMMA Nothing ==
  /\ NoBatch \notin Batch
  /\ NoRecord \notin Record
  /\ NoDate \notin Dates
<1>1. NoBatch \notin Batch
  BY DEF NoBatch, Batch, Shapes
<1>2. NoRecord \notin Record
  BY DEF NoRecord, Record
<1>3. NoDate \notin Dates
  BY JournalAssumption DEF NoDate
<1> QED BY <1>1, <1>2, <1>3

LEMMA IdleTyped == Idle \in Session /\ ~Busy(Idle) /\ ~Idle.sync /\ Idle.pc = "idle"
BY DEF Idle, Session, Busy, NoBatch, NoRecord, NoDate

(* A correction, as its procedure begins it. *)
LEMMA CorrectionFields ==
  ASSUME NEW b \in Nat, NEW new \in Batch \cup {NoBatch}
  PROVE  LET c == Correction(b, new)
         IN /\ c \in Session
            /\ c.pc = "write" /\ c.old = b /\ c.new = new
            /\ c.status = "keep" /\ c.date = NoDate /\ c.record = NoRecord
            /\ ~c.sync /\ ~c.locking
BY DEF Correction, Idle, Session, NoBatch, NoRecord, NoDate

LEMMA AppliedFields ==
  ASSUME NEW b \in Nat, NEW new \in Batch \cup {NoBatch}, NEW rec \in Record
  PROVE  LET c == Applied(rec, b, new)
         IN /\ c \in Session
            /\ c.pc = "write" /\ c.old = b /\ c.new = new
            /\ c.status = rec.status /\ c.date = rec.date /\ c.record = rec
            /\ c.sync /\ ~c.locking
BY JournalAssumption DEF Applied, Correction, Idle, Session, Record, NoBatch, NoRecord, NoDate

LEMMA FlatBatch ==
  ASSUME NEW rec \in Record
  PROVE  Flat(rec) \in Batch /\ Flat(rec).cash = rec.cash /\ Flat(rec).reverses = 0
BY DEF Flat, Batch, Record, Shapes

-----------------------------------------------------------------------------
(* Every command that begins is one the invariant allows in flight. *)

Begins(p, c) ==
  /\ c \in Session /\ c.pc = "write" /\ Wanted(c)
  /\ c.record # NoRecord => c.sync \/ Creates(c)
  /\ Creates(c) => NoCommand /\ row.status = "none"
  /\ ~Creates(c) => DOMAIN batches # {}
  /\ c.sync => NoSync \/ NoCommand
  /\ c.locking => RowFree
  /\ Begin(p, c)

LEMMA SyncBegins ==
  ASSUME IInv, NEW p \in Procs, Sync(p)
  PROVE  \E c : Begins(p, c)
<1> USE DEF IInv
<1>1. CASE \E rec \in Record : SyncCreate(p, rec)
  <2>1. PICK rec \in Record : SyncCreate(p, rec)
    BY <1>1
  <2>2. Flat(rec) \in Batch /\ Flat(rec).cash = rec.cash /\ Flat(rec).reverses = 0
    BY FlatBatch
  <2> DEFINE c == Applied(rec, 0, Flat(rec))
  <2>3. /\ c \in Session /\ c.pc = "write" /\ c.old = 0 /\ c.new = Flat(rec)
        /\ c.status = rec.status /\ c.date = rec.date /\ c.record = rec
        /\ c.sync /\ ~c.locking
    BY <2>2, AppliedFields
  <2>4. Begin(p, c) /\ NoCommand /\ row.status = "none"
    BY <2>1 DEF SyncCreate
  <2> HIDE DEF c
  <2>5. rec.status \in {"pending", "posted"} /\ rec.date \in Dates
    BY JournalAssumption DEF Record
  <2> QED BY <2>2, <2>3, <2>4, <2>5, Nothing DEF Begins, Wanted, Creates
<1>2. CASE \E rec \in Record, b \in DOMAIN batches : SyncRevise(p, b, rec)
  <2>1. PICK rec \in Record, b \in DOMAIN batches : SyncRevise(p, b, rec)
    BY <1>2
  <2>2. NoSync /\ Live(b) /\ Begin(p, Revision(b, rec))
    BY <2>1 DEF SyncRevise
  <2>3. b \in Nat /\ b # 0 /\ batches[b] \in Batch /\ batches[b].reverses = 0
    BY <2>2 DEF Live, TypeOK
  <2>4. batches[b].cash = record.cash
    BY <2>2 DEF SourceAmount, LiveSet
  <2>5. rec.status \in {"pending", "posted"} /\ rec.date \in Dates
    BY JournalAssumption DEF Record
  <2>6. CASE UserAuthored(b) /\ batches[b].cash = rec.cash /\ batches[b].date = rec.date
    <3> DEFINE d == Applied(rec, 0, NoBatch)
               c == [d EXCEPT !.kept = b]
    <3>1. Begin(p, c)
      BY <2>2, <2>6 DEF Revision
    <3>2. /\ d \in Session /\ d.pc = "write" /\ d.old = 0 /\ d.new = NoBatch
          /\ d.status = rec.status /\ d.date = rec.date /\ d.record = rec
          /\ d.sync /\ ~d.locking
      BY AppliedFields
    <3> HIDE DEF d
    <3>3. /\ c \in Session /\ c.pc = "write" /\ c.old = 0 /\ c.new = NoBatch
          /\ c.status = rec.status /\ c.date = rec.date /\ c.record = rec
          /\ c.sync /\ ~c.locking
      BY <2>3, <3>2 DEF Session
    <3> HIDE DEF c
    <3> QED BY <2>2, <2>4, <2>5, <2>6, <3>1, <3>3, Nothing DEF Begins, Wanted, Creates
  <2>7. CASE UserAuthored(b) /\ batches[b].cash = rec.cash /\ batches[b].date # rec.date
    <3> DEFINE new == [batches[b] EXCEPT !.date = rec.date, !.edited = TRUE]
               c == Applied(rec, b, new)
    <3>1. Begin(p, c)
      BY <2>2, <2>7 DEF Revision
    <3>2. new \in Batch /\ new.cash = batches[b].cash /\ new.reverses = 0
      BY <2>3, <2>5 DEF Batch
    <3> HIDE DEF new
    <3>3. /\ c \in Session /\ c.pc = "write" /\ c.old = b /\ c.new = new
          /\ c.status = rec.status /\ c.date = rec.date /\ c.record = rec
          /\ c.sync /\ ~c.locking
      BY <2>3, <3>2, AppliedFields
    <3> HIDE DEF c
    <3> QED BY <2>2, <2>3, <2>5, <2>7, <3>1, <3>2, <3>3, Nothing DEF Begins, Wanted, Creates
  <2>8. CASE ~(UserAuthored(b) /\ batches[b].cash = rec.cash)
    <3> DEFINE c == Applied(rec, b, Flat(rec))
    <3>1. Begin(p, c)
      BY <2>2, <2>8 DEF Revision
    <3>2. Flat(rec) \in Batch /\ Flat(rec).cash = rec.cash /\ Flat(rec).reverses = 0
      BY FlatBatch
    <3>3. /\ c \in Session /\ c.pc = "write" /\ c.old = b /\ c.new = Flat(rec)
          /\ c.status = rec.status /\ c.date = rec.date /\ c.record = rec
          /\ c.sync /\ ~c.locking
      BY <2>3, <3>2, AppliedFields
    <3> HIDE DEF c
    <3> QED BY <2>2, <2>3, <2>5, <3>1, <3>2, <3>3, Nothing DEF Begins, Wanted, Creates
  <2> QED BY <2>6, <2>7, <2>8
<1>3. CASE \E b \in DOMAIN batches : SyncVoid(p, b)
  <2>1. PICK b \in DOMAIN batches : SyncVoid(p, b)
    BY <1>3
  <2>2. b \in Nat /\ b # 0 /\ batches[b].reverses = 0
    BY <2>1 DEF SyncVoid, Live, TypeOK
  <2> DEFINE d == Correction(b, NoBatch)
             c == [d EXCEPT !.status = "voided", !.sync = TRUE]
  <2>3. NoSync /\ Begin(p, c)
    BY <2>1 DEF SyncVoid
  <2>4. /\ d \in Session
        /\ d.pc = "write" /\ d.old = b /\ d.new = NoBatch /\ d.record = NoRecord /\ ~d.locking
    BY <2>2, CorrectionFields
  <2> HIDE DEF d
  <2>5. /\ c \in Session
        /\ c.pc = "write" /\ c.old = b /\ c.new = NoBatch /\ c.record = NoRecord
        /\ c.status = "voided" /\ c.sync /\ ~c.locking
    BY <2>4 DEF Session
  <2> HIDE DEF c
  <2> QED BY <2>2, <2>3, <2>5 DEF Begins, Wanted, Creates
<1> QED BY <1>1, <1>2, <1>3 DEF Sync

LEMMA MemberBegins ==
  ASSUME IInv, NEW p \in Procs, Member(p)
  PROVE  \E c : Begins(p, c)
<1> USE DEF IInv
<1>1. CASE \E rec \in Record, shape \in Shapes \ {"flat"} : ManualTransaction(p, rec, shape)
  <2>1. PICK rec \in Record, shape \in Shapes \ {"flat"} : ManualTransaction(p, rec, shape)
    BY <1>1
  <2> DEFINE new == [Flat(rec) EXCEPT !.shape = shape]
             d == Applied(rec, 0, new)
             c == [d EXCEPT !.sync = FALSE]
  <2>2. Begin(p, c) /\ NoCommand /\ row.status = "none"
    BY <2>1 DEF ManualTransaction
  <2>3. new \in Batch /\ new.cash = rec.cash /\ new.reverses = 0
    <3>1. Flat(rec) \in Batch /\ Flat(rec).cash = rec.cash /\ Flat(rec).reverses = 0
      BY FlatBatch
    <3> QED BY <3>1 DEF Batch
  <2> HIDE DEF new
  <2>4. /\ d \in Session /\ d.pc = "write" /\ d.old = 0 /\ d.new = new
        /\ d.status = rec.status /\ d.date = rec.date /\ d.record = rec /\ ~d.locking
    BY <2>3, AppliedFields
  <2> HIDE DEF d
  <2>5. /\ c \in Session /\ c.pc = "write" /\ c.old = 0 /\ c.new = new
        /\ c.status = rec.status /\ c.date = rec.date /\ c.record = rec
        /\ ~c.sync /\ ~c.locking
    BY <2>4 DEF Session
  <2> HIDE DEF c
  <2>6. rec.status \in {"pending", "posted"} /\ rec.date \in Dates
    BY JournalAssumption DEF Record
  <2> QED BY <2>2, <2>3, <2>5, <2>6, Nothing DEF Begins, Wanted, Creates
<1>2. CASE \E b \in DOMAIN batches, shape \in Shapes \ {"flat"} : SetSplits(p, b, shape)
  <2>1. PICK b \in DOMAIN batches, shape \in Shapes \ {"flat"} : SetSplits(p, b, shape)
    BY <1>2
  <2> DEFINE new == [batches[b] EXCEPT !.shape = shape, !.edited = TRUE]
             d == Correction(b, new)
             c == [d EXCEPT !.locking = TRUE]
  <2>2. Begin(p, c) /\ RowFree /\ Live(b)
    BY <2>1 DEF SetSplits, Corrects
  <2>3. b \in Nat /\ b # 0 /\ batches[b] \in Batch /\ batches[b].reverses = 0
        /\ batches[b].cash = record.cash
    BY <2>2 DEF Live, TypeOK, SourceAmount, LiveSet
  <2>4. new \in Batch /\ new.cash = record.cash /\ new.reverses = 0
    BY <2>3 DEF Batch
  <2> HIDE DEF new
  <2>5. /\ d \in Session /\ d.pc = "write" /\ d.old = b /\ d.new = new
        /\ d.status = "keep" /\ d.record = NoRecord /\ ~d.sync
    BY <2>3, <2>4, CorrectionFields
  <2> HIDE DEF d
  <2>6. /\ c \in Session /\ c.pc = "write" /\ c.old = b /\ c.new = new
        /\ c.status = "keep" /\ c.record = NoRecord /\ ~c.sync /\ c.locking
    BY <2>5 DEF Session
  <2> HIDE DEF c
  <2> QED BY <2>2, <2>3, <2>4, <2>6 DEF Begins, Wanted, Creates
<1>3. CASE \E b \in DOMAIN batches, d \in Dates : SetDate(p, b, d)
  <2>1. PICK b \in DOMAIN batches, date \in Dates : SetDate(p, b, date)
    BY <1>3
  <2> DEFINE new == [batches[b] EXCEPT !.date = date, !.edited = FALSE]
             d == Correction(b, new)
             c == [d EXCEPT !.date = date, !.locking = TRUE]
  <2>2. Begin(p, c) /\ RowFree /\ Live(b)
    BY <2>1 DEF SetDate, Corrects
  <2>3. b \in Nat /\ b # 0 /\ batches[b] \in Batch /\ batches[b].reverses = 0
        /\ batches[b].cash = record.cash
    BY <2>2 DEF Live, TypeOK, SourceAmount, LiveSet
  <2>4. new \in Batch /\ new.cash = record.cash /\ new.reverses = 0
    BY <2>3 DEF Batch
  <2> HIDE DEF new
  <2>5. /\ d \in Session /\ d.pc = "write" /\ d.old = b /\ d.new = new
        /\ d.status = "keep" /\ d.record = NoRecord /\ ~d.sync
    BY <2>3, <2>4, CorrectionFields
  <2> HIDE DEF d
  <2>6. /\ c \in Session /\ c.pc = "write" /\ c.old = b /\ c.new = new
        /\ c.status = "keep" /\ c.record = NoRecord /\ ~c.sync /\ c.locking
    BY <2>5 DEF Session
  <2> HIDE DEF c
  <2> QED BY <2>2, <2>3, <2>4, <2>6 DEF Begins, Wanted, Creates
<1>4. CASE \E b \in DOMAIN batches : ManualVoid(p, b)
  <2>1. PICK b \in DOMAIN batches : ManualVoid(p, b)
    BY <1>4
  <2> DEFINE d == Correction(b, NoBatch)
             c == [d EXCEPT !.status = "voided", !.locking = TRUE]
  <2>2. Begin(p, c) /\ RowFree /\ Live(b)
    BY <2>1 DEF ManualVoid, Corrects
  <2>3. b \in Nat /\ b # 0 /\ batches[b].reverses = 0
    BY <2>2 DEF Live, TypeOK
  <2>4. /\ d \in Session /\ d.pc = "write" /\ d.old = b /\ d.new = NoBatch
        /\ d.record = NoRecord /\ ~d.sync
    BY <2>3, CorrectionFields
  <2> HIDE DEF d
  <2>5. /\ c \in Session /\ c.pc = "write" /\ c.old = b /\ c.new = NoBatch
        /\ c.status = "voided" /\ c.record = NoRecord /\ ~c.sync /\ c.locking
    BY <2>4 DEF Session
  <2> HIDE DEF c
  <2> QED BY <2>2, <2>3, <2>5 DEF Begins, Wanted, Creates
<1>5. CASE \E b \in DOMAIN batches : ReverseBatch(p, b)
  <2>1. PICK b \in DOMAIN batches : ReverseBatch(p, b)
    BY <1>5
  <2> DEFINE d == Correction(b, NoBatch)
             c == [d EXCEPT !.status = "voided"]
  <2>2. Begin(p, c) /\ Live(b)
    BY <2>1 DEF ReverseBatch
  <2>3. b \in Nat /\ b # 0 /\ batches[b].reverses = 0
    BY <2>2 DEF Live, TypeOK
  <2>4. /\ d \in Session /\ d.pc = "write" /\ d.old = b /\ d.new = NoBatch
        /\ d.record = NoRecord /\ ~d.sync /\ ~d.locking
    BY <2>3, CorrectionFields
  <2> HIDE DEF d
  <2>5. /\ c \in Session /\ c.pc = "write" /\ c.old = b /\ c.new = NoBatch
        /\ c.status = "voided" /\ c.record = NoRecord /\ ~c.sync /\ ~c.locking
    BY <2>4 DEF Session
  <2> HIDE DEF c
  <2> QED BY <2>2, <2>3, <2>5 DEF Begins, Wanted, Creates
<1> QED BY <1>1, <1>2, <1>3, <1>4, <1>5 DEF Member

-----------------------------------------------------------------------------
(* The invariant is kept by every kind of step. *)

LEMMA BeginKeeps ==
  ASSUME IInv, NEW p \in Procs, NEW c, Begins(p, c)
  PROVE  IInv'
<1> USE DEF IInv
<1>1. /\ c \in Session /\ c.pc = "write" /\ Wanted(c)
      /\ proc[p].pc = "idle" /\ proc' = [proc EXCEPT ![p] = c]
      /\ UNCHANGED <<row, batches, revs, record, locks>>
  BY DEF Begins, Begin, ledger
<1>2. /\ proc'[p] = c
      /\ \A q \in Procs \ {p} : proc'[q] = proc[q]
  BY <1>1 DEF TypeOK
<1>3. TypeOK'
  BY <1>1 DEF TypeOK
<1>4. HoldsRow(p)' => c.locking /\ RowFree
  BY <1>1, <1>2 DEF HoldsRow, Begins
<1>5. \A q \in Procs \ {p} : HoldsRow(q)' <=> HoldsRow(q)
  BY <1>2 DEF HoldsRow
<1>6. \A b : Live(b)' <=> Live(b)
  BY <1>1 DEF Live, Revised
<1>7. OneWriter'
  <2>1. \A q, r \in Procs : HoldsRow(q)' /\ HoldsRow(r)' => q = r
    BY <1>4, <1>5 DEF OneWriter, RowFree
  <2>2. ASSUME NEW q \in Procs, proc'[q].pc = "commit", proc'[q].old # 0
        PROVE  Live(proc[q].old)'
    BY <1>1, <1>2, <2>2 DEF OneWriter, Live, Revised
  <2> QED BY <2>1, <2>2 DEF OneWriter
<1>8. Creates(c) => batches = <<>> /\ \A q \in Procs \ {p} : ~Busy(proc[q])
  BY <1>1 DEF Begins, NoCommand, Busy, Unborn
<1>9. ~Creates(c) => batches # <<>>
  BY DEF Begins
<1>10. Commands'
  <2> SUFFICES ASSUME NEW q \in Procs, Busy(proc[q])'
               PROVE  /\ Wanted(proc[q])'
                      /\ proc'[q].record # NoRecord => proc'[q].sync \/ Creates(proc'[q])
                      /\ Creates(proc'[q]) =>
                           batches' = <<>> /\ \A r \in Procs \ {q} : ~Busy(proc'[r])
    BY DEF Commands, Creates, Busy
  <2>1. CASE q = p
    <3>1. Wanted(proc[q])'
      BY <1>1, <1>2, <2>1 DEF Wanted
    <3> QED BY <1>1, <1>2, <1>8, <2>1, <3>1 DEF Begins, Creates, Busy
  <2>2. CASE q # p
    <3>1. Busy(proc[q]) /\ proc'[q] = proc[q]
      BY <1>2, <2>2 DEF Busy
    <3>2. Wanted(proc[q])'
      BY <1>1, <3>1 DEF Commands, Wanted
    <3>3. ~Creates(c)
      BY <1>8, <2>2, <3>1
    <3>4. ~Creates(proc[q])
      BY <1>9, <3>1, <3>3 DEF Commands
    <3> QED BY <3>1, <3>2, <3>4 DEF Commands
  <2> QED BY <2>1, <2>2
<1>11. OneSync'
  <2>1. \A q \in Procs : proc'[q].sync => Busy(proc'[q])
    BY <1>1, <1>2 DEF OneSync, Busy
  <2>2. c.sync => \A q \in Procs : ~proc[q].sync
    BY DEF Begins, NoSync, NoCommand, OneSync, Busy
  <2> QED BY <1>2, <2>1, <2>2 DEF OneSync, Busy
<1>12. Unborn' /\ OneLive' /\ SourceAmount'
  BY <1>1, <1>6 DEF Unborn, OneLive, SourceAmount, LiveSet
<1>13. Closing'
  BY <1>1, <1>2 DEF Closing
<1> QED BY <1>3, <1>7, <1>10, <1>11, <1>12, <1>13

(* A session that gives up, or has nothing to do with the row, disturbs nothing. *)
LEMMA QuietKeeps ==
  ASSUME IInv, NEW p \in Procs, NEW c \in Session, ~Busy(c), ~c.sync,
         c.pc = "close" => c.date \in Dates,
         proc' = [proc EXCEPT ![p] = c], UNCHANGED ledger, locks' \in Seq(Lock)
  PROVE  IInv'
<1> USE DEF IInv
<1>1. /\ UNCHANGED <<row, batches, revs, record>>
      /\ proc'[p] = c /\ \A q \in Procs \ {p} : proc'[q] = proc[q]
  BY DEF TypeOK, ledger
<1>2. TypeOK'
  BY <1>1 DEF TypeOK
<1>3. OneWriter'
  <2>1. \A q \in Procs : HoldsRow(q)' => HoldsRow(q)
    BY <1>1 DEF HoldsRow, Busy
  <2>2. ASSUME NEW q \in Procs, proc'[q].pc = "commit", proc'[q].old # 0
        PROVE  Live(proc[q].old)' /\ proc'[q] = proc[q]
    BY <1>1, <2>2 DEF OneWriter, Live, Revised, Busy
  <2> QED BY <2>1, <2>2 DEF OneWriter
<1>4. Commands'
  <2>1. ASSUME NEW q \in Procs, Busy(proc'[q])
        PROVE  Busy(proc[q]) /\ proc'[q] = proc[q] /\ Wanted(proc[q])'
    BY <1>1, <2>1 DEF Commands, Wanted
  <2> QED BY <1>1, <2>1 DEF Commands
<1>5. OneSync' /\ Closing'
  BY <1>1 DEF OneSync, Closing
<1> QED BY <1>1, <1>2, <1>3, <1>4, <1>5
     DEF Unborn, OneLive, SourceAmount, LiveSet, Live, Revised

LEMMA WriteKeeps ==
  ASSUME IInv, NEW p \in Procs, Write(p)
  PROVE  IInv'
<1> USE DEF IInv
<1>1. /\ proc[p].pc = "write" /\ (proc[p].locking \/ RowFree)
      /\ UNCHANGED <<row, batches, revs, record, locks>>
      /\ proc' = [proc EXCEPT ![p] = IF PeriodsOpen(@) /\ CorrectsOnce(@)
                                       THEN [@ EXCEPT !.pc = "commit"] ELSE Idle]
  BY DEF Write, MayWrite, ledger
<1>2. \A q \in Procs \ {p} : proc'[q] = proc[q]
  BY <1>1 DEF TypeOK
<1>3. proc[p] \in Session /\ proc \in [Procs -> Session]
  BY DEF TypeOK
<1>6. proc[p].pc = "write" /\ Busy(proc[p])
  BY DEF Write, Busy
<1>4. CASE CorrectsOnce(proc[p]) /\ proc'[p] = [proc[p] EXCEPT !.pc = "commit"]
  <2>1. /\ proc'[p] \in Session /\ proc'[p].pc = "commit"
        /\ proc'[p].old = proc[p].old /\ proc'[p].new = proc[p].new
        /\ proc'[p].status = proc[p].status /\ proc'[p].date = proc[p].date
        /\ proc'[p].record = proc[p].record /\ proc'[p].sync = proc[p].sync
        /\ proc'[p].locking = proc[p].locking
    BY <1>3, <1>4 DEF Session
  <2>2. Commands'
    <3>1. ASSUME NEW q \in Procs, Busy(proc[q])
          PROVE  Wanted(proc[q])'
      BY <1>1, <1>2, <2>1, <3>1 DEF Commands, Wanted
    <3>2. ASSUME NEW q \in Procs
          PROVE  Busy(proc'[q]) <=> Busy(proc[q])
      <4>1. CASE q = p
        BY <1>6, <2>1, <4>1 DEF Busy
      <4>2. CASE q # p
        BY <1>2, <4>2
      <4> QED BY <4>1, <4>2
    <3>3. ASSUME NEW q \in Procs
          PROVE  /\ Creates(proc'[q]) <=> Creates(proc[q])
                 /\ proc'[q].record = proc[q].record /\ proc'[q].sync = proc[q].sync
      BY <1>2, <2>1 DEF Creates
    <3> QED BY <1>1, <3>1, <3>2, <3>3 DEF Commands
  <2>3. OneWriter'
    <3>1. \A q \in Procs : HoldsRow(q)' => HoldsRow(q) \/ q = p
      BY <1>2 DEF HoldsRow
    <3>2. HoldsRow(p) \/ RowFree
      BY <1>1 DEF HoldsRow
    <3>3. proc[p].old # 0 => Live(proc[p].old)'
      <4> SUFFICES ASSUME proc[p].old # 0
                   PROVE  Live(proc[p].old)'
        OBVIOUS
      <4>1. Wanted(proc[p])
        BY <1>6 DEF Commands
      <4>2. Live(proc[p].old)
        BY <1>4, <4>1 DEF Wanted, Live, CorrectsOnce
      <4> QED BY <1>1, <2>1, <4>2 DEF Live, Revised
    <3>4. ASSUME NEW q \in Procs \ {p}, proc[q].pc = "commit", proc[q].old # 0
          PROVE  Live(proc[q].old)'
      BY <1>1, <1>2, <3>4 DEF OneWriter, Live, Revised
    <3> QED BY <1>2, <2>1, <3>1, <3>2, <3>3, <3>4 DEF OneWriter, RowFree
  <2>4. OneSync' /\ Closing'
    BY <1>1, <1>2, <2>1 DEF OneSync, Busy, Closing
  <2>5. TypeOK'
    BY <1>1, <1>2, <1>3, <2>1 DEF TypeOK
  <2> QED BY <1>1, <2>2, <2>3, <2>4, <2>5
       DEF Unborn, OneLive, SourceAmount, LiveSet, Live, Revised
<1>5. CASE proc'[p] = Idle
  <2>1. proc' = [proc EXCEPT ![p] = Idle]
    BY <1>1, <1>3, <1>5
  <2> QED BY <1>1, <2>1, IdleTyped, QuietKeeps DEF TypeOK, ledger
<1> QED BY <1>1, <1>3, <1>4, <1>5

(* What a commit leaves of the journal: older batches stand, and no other batch *)
(* than the one it adds becomes live.                                           *)
LEMMA CommitGrows ==
  ASSUME IInv, NEW p \in Procs, Commit(p)
  PROVE  /\ batches' \in Seq(Batch) /\ revs' \subseteq Rev
         /\ DOMAIN batches \subseteq DOMAIN batches'
         /\ \A b \in DOMAIN batches : batches'[b] = batches[b]
         /\ \A b : Live(b)' => \/ Live(b) /\ (proc[p].old # 0 => b # proc[p].old)
                               \/ proc[p].new # NoBatch /\ batches'[b] = proc[p].new
                                    /\ b = Len(batches')
<1> USE DEF IInv
<1> DEFINE s == proc[p]
           old == s.old
           new == s.new
<1>1. s \in Session /\ Wanted(s) /\ batches \in Seq(Batch) /\ revs \subseteq Rev
  BY DEF Commands, Busy, Commit, TypeOK
<1>2. /\ batches' = batches \o Reversal(s) \o Addition(s)
      /\ revs' = RevsAfter(s, Len(batches'))
  BY DEF Commit
<1>3. old \in Nat /\ new \in Batch \cup {NoBatch}
  BY <1>1 DEF Session
<1>4. Addition(s) \in Seq(Batch) /\ (new = NoBatch => Addition(s) = <<>>)
      /\ (new # NoBatch => Addition(s) = <<new>>)
  BY <1>3 DEF Addition
<1>5. CASE old = 0
  <2>1. Reversal(s) = <<>> /\ revs' = revs
    BY <1>2, <1>5 DEF Reversal, RevsAfter
  <2>2. batches' = batches \o Addition(s)
    BY <1>1, <1>2, <2>1
  <2>3. CASE new = NoBatch
    <3>1. batches' = batches
      BY <1>1, <1>4, <2>2, <2>3
    <3> QED BY <1>1, <1>5, <2>1, <3>1 DEF Live, Revised
  <2>4. CASE new # NoBatch
    <3>1. batches' = Append(batches, new) /\ new \in Batch
      BY <1>1, <1>3, <1>4, <2>2, <2>4
    <3> QED BY <1>1, <1>5, <2>1, <2>4, <3>1 DEF Live, Revised
  <2> QED BY <2>3, <2>4
<1>6. CASE old # 0
  <2> DEFINE back == [batches[old] EXCEPT !.reverses = old, !.edited = FALSE]
             rev == [original |-> old, replacement |-> IF new = NoBatch THEN 0 ELSE Len(batches')]
  <2>1. old \in DOMAIN batches /\ batches[old] \in Batch
    BY <1>1, <1>6 DEF Wanted
  <2>2. Reversal(s) = <<back>> /\ revs' = revs \cup {rev} /\ rev.original = old
    BY <1>2, <1>6 DEF Reversal, RevsAfter
  <2>3. back \in Batch /\ back.reverses = old
    BY <1>3, <2>1 DEF Batch
  <2> HIDE DEF back
  <2>4. batches \o Reversal(s) = Append(batches, back)
    BY <1>1, <2>2, <2>3
  <2>5. CASE new = NoBatch
    <3>1. batches' = Append(batches, back)
      BY <1>1, <1>2, <1>4, <2>3, <2>4, <2>5
    <3>2. rev \in Rev
      BY <1>3, <2>5 DEF Rev
    <3> HIDE DEF rev
    <3>3. \A b : Live(b)' => Live(b) /\ b # old
      BY <1>1, <1>3, <1>6, <2>2, <2>3, <3>1 DEF Live, Revised
    <3> QED BY <1>1, <2>2, <2>3, <3>1, <3>2, <3>3
  <2>6. CASE new # NoBatch
    <3>1. batches' = Append(Append(batches, back), new) /\ new \in Batch
      <4>1. new \in Batch /\ Append(batches, back) \in Seq(Batch)
        BY <1>1, <1>3, <2>3, <2>6
      <4>2. batches' = Append(batches, back) \o <<new>>
        BY <1>2, <1>4, <2>4, <2>6
      <4> QED BY <4>1, <4>2
    <3>2. rev \in Rev
      BY <1>1, <1>3, <2>3, <2>6, <3>1 DEF Rev
    <3> HIDE DEF rev
    <3>3. \A b : Live(b)' => \/ Live(b) /\ b # old
                             \/ batches'[b] = new /\ b = Len(batches')
      BY <1>1, <1>3, <1>6, <2>2, <2>3, <3>1 DEF Live, Revised
    <3> QED BY <1>1, <2>2, <2>3, <2>6, <3>1, <3>2, <3>3
  <2> QED BY <2>5, <2>6
<1> QED BY <1>5, <1>6

LEMMA CommitKeeps ==
  ASSUME IInv, NEW p \in Procs, Commit(p)
  PROVE  IInv'
<1> USE DEF IInv
<1>1. /\ proc[p].pc = "commit" /\ Busy(proc[p]) /\ HoldsRow(p)
      /\ proc' = [proc EXCEPT ![p] = Idle] /\ locks' = locks
      /\ row' = RowAfter(proc[p])
      /\ record' = IF proc[p].record = NoRecord THEN record ELSE proc[p].record
  BY DEF Commit, Busy, HoldsRow
<1>2. /\ proc'[p] = Idle /\ \A q \in Procs \ {p} : proc'[q] = proc[q]
      /\ proc[p] \in Session /\ Wanted(proc[p])
  BY <1>1 DEF TypeOK, Commands
<1>3. \A q \in Procs \ {p} : ~HoldsRow(q)
  BY <1>1 DEF OneWriter
<1>4. row'.status # "none" /\ row'.date # NoDate /\
      row' \in [status : {"none", "pending", "posted", "voided"}, date : Dates \cup {NoDate},
                source : {"sync", "manual"}]
  <2>1. row.status # "none" \/ (proc[p].status \in {"pending", "posted"} /\ proc[p].date # NoDate)
    BY <1>2 DEF Session, Wanted, Unborn
  <2>2. proc[p].status \in {"keep", "pending", "posted", "voided"}
        /\ proc[p].date \in Dates \cup {NoDate}
    BY <1>2 DEF Session
  <2> QED BY <1>1, <2>1, <2>2 DEF RowAfter, TypeOK
<1>5. record' \in Record \cup {NoRecord}
  BY <1>1, <1>2 DEF TypeOK, Session
<1>6. TypeOK'
  BY <1>1, <1>4, <1>5, CommitGrows, IdleTyped DEF TypeOK
<1>7. OneWriter'
  BY <1>2, <1>3, IdleTyped DEF OneWriter, HoldsRow, Busy
<1>8. Commands'
  <2> SUFFICES ASSUME NEW q \in Procs, Busy(proc'[q])
               PROVE  /\ Wanted(proc[q])'
                      /\ proc[q].record # NoRecord => proc[q].sync
                      /\ ~Creates(proc[q])
                      /\ proc'[q] = proc[q]
    BY DEF Commands
  <2>1. q # p /\ proc'[q] = proc[q] /\ Busy(proc[q]) /\ Wanted(proc[q])
    BY <1>2, IdleTyped DEF Commands
  <2>2. ~proc[q].locking
    BY <1>3, <2>1 DEF HoldsRow, Busy
  <2>3. ~Creates(proc[q]) /\ ~Creates(proc[p])
    BY <1>1, <2>1 DEF Commands
  <2>4. proc[q].record # NoRecord => proc[q].sync
    BY <2>1, <2>3 DEF Commands
  <2>5. proc[q].record # NoRecord => proc[p].record = NoRecord
    BY <1>1, <2>1, <2>3, <2>4 DEF Commands, OneSync
  <2>6. Wanted(proc[q])'
    BY <1>1, <2>1, <2>2, <2>5, CommitGrows DEF Wanted
  <2> QED BY <2>1, <2>3, <2>4, <2>6
<1>9. OneSync' /\ Closing'
  BY <1>2, IdleTyped DEF OneSync, Closing
<1>10. Unborn'
  BY <1>4 DEF Unborn
<1>11. proc[p].new # NoBatch => \A b : Live(b) => b = proc[p].old /\ proc[p].old # 0
  <2>1. proc[p].old # 0 => Live(proc[p].old)
    BY <1>1 DEF OneWriter
  <2>2. Creates(proc[p]) => batches = <<>>
    BY <1>1 DEF Commands
  <2> QED BY <2>1, <2>2 DEF OneLive, LiveSet, Live, Creates
<1>12. OneLive'
  <2>1. CASE proc[p].new = NoBatch
    BY <2>1, CommitGrows DEF OneLive, LiveSet, Live
  <2>2. CASE proc[p].new # NoBatch
    <3>1. \A b : Live(b)' => b = Len(batches')
      BY <1>11, <2>2, CommitGrows
    <3> QED BY <3>1 DEF OneLive, LiveSet
  <2> QED BY <2>1, <2>2
<1>13. SourceAmount'
  <2> SUFFICES ASSUME NEW b, Live(b)'
               PROVE  batches'[b].cash = record'.cash
    BY DEF SourceAmount, LiveSet
  <2>1. CASE proc[p].new = NoBatch
    <3>1. Live(b) /\ b \in DOMAIN batches /\ batches'[b] = batches[b]
      BY <2>1, CommitGrows DEF Live
    <3>2. batches[b].cash = record.cash
      BY <3>1 DEF SourceAmount, LiveSet
    <3> QED BY <1>1, <1>2, <2>1, <3>1, <3>2 DEF Wanted
  <2>2. CASE proc[p].new # NoBatch
    <3>1. batches'[b] = proc[p].new
      BY <1>11, <2>2, CommitGrows
    <3> QED BY <1>1, <1>2, <2>2, <3>1 DEF Wanted
  <2> QED BY <2>1, <2>2
<1> QED BY <1>6, <1>7, <1>8, <1>9, <1>10, <1>12, <1>13

LEMMA CloseKeeps ==
  ASSUME IInv, NEW p \in Procs, CloseCommit(p) \/ \E d \in Dates : CloseBegin(p, d)
  PROVE  IInv'
<1> USE DEF IInv
<1>1. ASSUME NEW d \in Dates, CloseBegin(p, d)
      PROVE  IInv'
  <2> DEFINE c == [Idle EXCEPT !.pc = "close", !.date = d, !.seen = Len(batches)]
  <2>1. proc' = [proc EXCEPT ![p] = c] /\ UNCHANGED ledger /\ locks' = locks
    BY <1>1 DEF CloseBegin
  <2>2. Len(batches) \in Nat /\ locks \in Seq(Lock)
    BY DEF TypeOK
  <2>3. c \in Session /\ ~Busy(c) /\ ~c.sync /\ c.date \in Dates
    BY <2>2 DEF Idle, Session, Busy, NoBatch, NoRecord, NoDate
  <2> HIDE DEF c
  <2> QED BY <2>1, <2>2, <2>3, QuietKeeps
<1>2. ASSUME CloseCommit(p)
      PROVE  IInv'
  <2>1. /\ proc[p].pc = "close" /\ proc' = [proc EXCEPT ![p] = Idle] /\ UNCHANGED ledger
        /\ locks' = Append(locks, [date |-> proc[p].date, seen |-> proc[p].seen,
                                   overlapped |-> Overlapped(proc[p].date, proc[p].seen),
                                   open |-> TRUE])
    BY <1>2 DEF CloseCommit
  <2>2. proc[p].date \in Dates /\ proc[p].seen \in Nat
    BY <2>1 DEF TypeOK, Closing, Session
  <2>3. Overlapped(proc[p].date, proc[p].seen) \in BOOLEAN
    BY DEF Overlapped
  <2>4. locks' \in Seq(Lock)
    BY <2>1, <2>2, <2>3 DEF TypeOK, Lock
  <2> QED BY <2>1, <2>4, IdleTyped, QuietKeeps
<1> QED BY <1>1, <1>2

LEMMA ReopenKeeps ==
  ASSUME IInv, NEW l \in DOMAIN locks, Reopen(l)
  PROVE  IInv'
<1> USE DEF IInv
<1>1. /\ UNCHANGED <<row, batches, revs, record, proc>>
      /\ locks' = [locks EXCEPT ![l].open = FALSE]
  BY DEF Reopen, ledger
<1>2. locks \in Seq(Lock) /\ [locks[l] EXCEPT !.open = FALSE] \in Lock
  <2>1. locks \in Seq(Lock) /\ locks[l] \in Lock
    BY DEF TypeOK
  <2> QED BY <2>1 DEF Lock
<1> DEFINE lock == [locks[l] EXCEPT !.open = FALSE]
<1>3. locks' = [locks EXCEPT ![l] = lock] /\ lock \in Lock
  BY <1>1, <1>2
<1> HIDE DEF lock
<1>4. locks' \in Seq(Lock)
  BY <1>2, <1>3
<1> QED BY <1>1, <1>4
     DEF TypeOK, OneWriter, HoldsRow, Commands, Wanted, OneSync, Closing, Unborn, OneLive,
         SourceAmount, LiveSet, Live, Revised

-----------------------------------------------------------------------------
(* Every reachable state satisfies the invariant. *)

LEMMA IInvInit == Init => IInv
<1> SUFFICES ASSUME Init
             PROVE  IInv
  OBVIOUS
<1> USE DEF Init
<1>1. TypeOK
  BY IdleTyped DEF TypeOK
<1>2. OneWriter /\ Commands /\ OneSync /\ Closing
  BY IdleTyped DEF OneWriter, HoldsRow, Commands, Busy, OneSync, Closing, Idle
<1>3. Unborn /\ OneLive /\ SourceAmount
  BY DEF Unborn, OneLive, SourceAmount, LiveSet, Live
<1> QED BY <1>1, <1>2, <1>3 DEF IInv

LEMMA IInvNext == IInv /\ [Next]_vars => IInv'
<1> SUFFICES ASSUME IInv, [Next]_vars
             PROVE  IInv'
  OBVIOUS
<1>1. ASSUME NEW p \in Procs, Sync(p) \/ Member(p)
      PROVE  IInv'
  BY <1>1, SyncBegins, MemberBegins, BeginKeeps
<1>2. ASSUME NEW p \in Procs, Write(p)
      PROVE  IInv'
  BY <1>2, WriteKeeps
<1>3. ASSUME NEW p \in Procs, Commit(p)
      PROVE  IInv'
  BY <1>3, CommitKeeps
<1>4. ASSUME NEW p \in Procs, CloseCommit(p) \/ \E d \in Dates : CloseBegin(p, d)
      PROVE  IInv'
  BY <1>4, CloseKeeps
<1>5. ASSUME NEW l \in DOMAIN locks, Reopen(l)
      PROVE  IInv'
  BY <1>5, ReopenKeeps
<1>6. CASE UNCHANGED vars
  BY <1>6 DEF vars, ledger, IInv, TypeOK, OneWriter, HoldsRow, Commands, Wanted, OneSync,
              Closing, Unborn, OneLive, SourceAmount, LiveSet, Live, Revised
<1> QED BY <1>1, <1>2, <1>3, <1>4, <1>5, <1>6 DEF Next

LEMMA IInvAlways == Spec => []IInv
BY IInvInit, IInvNext, PTL DEF Spec

(* Rows, batches, revisions, sessions and locks have their types. *)
THEOREM TypeCorrect == Spec => []TypeOK
<1>1. IInv => TypeOK
  BY DEF IInv
<1> QED BY <1>1, IInvAlways, PTL

(* keel_worker_apply_action, the members' corrections and reverse_batch never   *)
(* hold the row together, and correct only what is live.                        *)
THEOREM WritersExclude == Spec => []OneWriter
<1>1. IInv => OneWriter
  BY DEF IInv
<1> QED BY <1>1, IInvAlways, PTL

(* However their reads and writes interleave, a transaction has at most one     *)
(* live batch.                                                                  *)
THEOREM AtMostOneLive == Spec => []OneLive
<1>1. IInv => OneLive
  BY DEF IInv
<1> QED BY <1>1, IInvAlways, PTL

(* Neither a split nor a re-dating that meets a revision under way brings an    *)
(* older amount back.                                                           *)
THEOREM AmountFollowsRecord == Spec => []SourceAmount
<1>1. IInv => SourceAmount
  BY DEF IInv
<1> QED BY <1>1, IInvAlways, PTL

-----------------------------------------------------------------------------
(* Finite sums, by least counterexample in the inclusion of finite sets. *)

Pick(s) == CHOOSE x \in s : TRUE
Adds(f, S, g) ==
  g = [s \in SUBSET S |-> IF s = {} THEN 0 ELSE f[Pick(s)] + g[s \ {Pick(s)}]]
SumOf(f, S) == (CHOOSE g : Adds(f, S, g))[S]

LEMMA PickIn == \A s : s # {} => Pick(s) \in s
BY DEF Pick

LEMMA LeastSet ==
  ASSUME NEW S, IsFiniteSet(S), NEW T, T \subseteq SUBSET S, T # {}
  PROVE  \E x \in T : \A y \in T : y \subseteq x => y = x
<1> DEFINE R == StrictSubsetOrdering(S)
           F == FiniteSubsetsOf(S)
<1>1. IsWellFoundedOn(R, F)
  BY FS_StrictSubsetOrderingWellFounded
<1>2. \A x \in SUBSET S : x \in F
  BY FS_Subset DEF FiniteSubsetsOf
<1>3. PICK x \in T : \A y \in T : <<y, x>> \notin R
  <2>1. T \subseteq F
    BY <1>2
  <2>2. T # {}
    OBVIOUS
  <2> HIDE DEF R, F
  <2> QED BY <1>1, <2>1, <2>2, WFMin, Zenon
<1>4. ASSUME NEW y \in T, y \subseteq x, y # x PROVE <<y, x>> \in R
  BY <1>4 DEF StrictSubsetOrdering
<1> HIDE DEF R, F
<1>5. ASSUME NEW y \in T, y \subseteq x PROVE y = x
  BY <1>3, <1>4, <1>5
<1> QED BY <1>5

LEMMA AddsOnce ==
  ASSUME NEW f, NEW S, NEW T, IsFiniteSet(S), NEW g, NEW h, Adds(f, S, g), Adds(f, T, h)
  PROVE  \A s \in SUBSET S : s \in SUBSET T => g[s] = h[s]
<1> DEFINE Bad == {s \in SUBSET S : s \in SUBSET T /\ g[s] # h[s]}
<1> SUFFICES ASSUME Bad # {} PROVE FALSE
  OBVIOUS
<1>1. PICK s \in Bad : \A y \in Bad : y \subseteq s => y = s
  <2>1. Bad \subseteq SUBSET S
    OBVIOUS
  <2> HIDE DEF Bad
  <2> QED BY <2>1, LeastSet
<1>2. /\ g[s] = IF s = {} THEN 0 ELSE f[Pick(s)] + g[s \ {Pick(s)}]
      /\ h[s] = IF s = {} THEN 0 ELSE f[Pick(s)] + h[s \ {Pick(s)}]
  BY Zenon DEF Adds
<1>3. s # {}
  BY <1>2
<1>4. Pick(s) \in s
  BY <1>3, PickIn
<1>5. g[s \ {Pick(s)}] # h[s \ {Pick(s)}]
  BY <1>2, <1>3
<1>6. s \ {Pick(s)} \in Bad
  BY <1>5
<1> QED
  BY <1>1, <1>4, <1>6

LEMMA AddsSome ==
  ASSUME NEW f, NEW S, IsFiniteSet(S)
  PROVE  \E g : Adds(f, S, g)
<1> DEFINE Bad == {s \in SUBSET S : ~ \E g : Adds(f, s, g)}
<1> SUFFICES ASSUME Bad # {} PROVE FALSE
  OBVIOUS
<1>1. PICK T \in Bad : \A y \in Bad : y \subseteq T => y = T
  <2>1. Bad \subseteq SUBSET S
    OBVIOUS
  <2> HIDE DEF Bad
  <2> QED BY <2>1, LeastSet
<1> DEFINE val(s) == (CHOOSE g : Adds(f, s, g))[s]
           next(s) == IF s = {} THEN 0 ELSE f[Pick(s)] + val(s \ {Pick(s)})
           G == [s \in SUBSET T |-> next(s)]
<1>2. ASSUME NEW s \in SUBSET T, s # T PROVE Adds(f, s, CHOOSE g : Adds(f, s, g))
  <2>1. s \notin Bad
    BY <1>1, <1>2
  <2>2. \E g : Adds(f, s, g)
    BY <2>1
  <2> QED BY <2>2
<1>3. ASSUME NEW s \in SUBSET T, s # T PROVE val(s) = next(s)
  <2> DEFINE g == CHOOSE g : Adds(f, s, g)
  <2>1. Adds(f, s, g)
    BY <1>2, <1>3
  <2> HIDE DEF g
  <2>2. g[s] = IF s = {} THEN 0 ELSE f[Pick(s)] + g[s \ {Pick(s)}]
    BY <2>1, Zenon DEF Adds
  <2>3. CASE s # {}
    <3> DEFINE u == s \ {Pick(s)}
               h == CHOOSE h : Adds(f, u, h)
    <3>1. Pick(s) \in s
      BY <2>3, PickIn
    <3>2. u \in SUBSET T /\ u # T /\ u \in SUBSET s
      BY <3>1
    <3>3. Adds(f, u, h)
      BY <1>2, <3>2
    <3>4. IsFiniteSet(u)
      BY <3>2, FS_Subset
    <3> HIDE DEF h
    <3>5. g[u] = h[u]
      BY <2>1, <3>2, <3>3, <3>4, AddsOnce
    <3> QED
      BY <2>2, <2>3, <3>5 DEF g, h
  <2> QED BY <2>2, <2>3 DEF g
<1>4. ASSUME NEW s \in SUBSET T PROVE G[s] = IF s = {} THEN 0 ELSE f[Pick(s)] + G[s \ {Pick(s)}]
  <2>1. CASE s # {}
    <3> DEFINE u == s \ {Pick(s)}
    <3>1. Pick(s) \in s
      BY <2>1, PickIn
    <3>2. u \in SUBSET T /\ u # T
      BY <3>1
    <3>3. val(u) = next(u)
      BY <1>3, <3>2
    <3>4. G[u] = next(u) /\ G[s] = next(s)
      BY <3>2
    <3>5. next(s) = f[Pick(s)] + val(u)
      BY <2>1
    <3> QED
      BY <2>1, <3>3, <3>4, <3>5
  <2> QED BY <2>1
<1>5. G = [s \in SUBSET T |-> IF s = {} THEN 0 ELSE f[Pick(s)] + G[s \ {Pick(s)}]]
  <2>1. G = [s \in SUBSET T |-> G[s]]
    OBVIOUS
  <2> HIDE DEF G
  <2> QED BY <1>4, <2>1
<1> QED
  BY <1>5 DEF Adds

LEMMA SumIs ==
  ASSUME NEW f, NEW S, IsFiniteSet(S), NEW T \in SUBSET S, NEW h, Adds(f, S, h)
  PROVE  SumOf(f, T) = h[T]
<1>1. IsFiniteSet(T)
  BY FS_Subset
<1>2. Adds(f, T, CHOOSE g : Adds(f, T, g))
  BY <1>1, AddsSome
<1>3. (CHOOSE g : Adds(f, T, g))[T] = h[T]
  BY <1>1, <1>2, AddsOnce
<1> QED
  BY <1>3 DEF SumOf

LEMMA SumStep ==
  ASSUME NEW f, NEW S, IsFiniteSet(S)
  PROVE  SumOf(f, S) = IF S = {} THEN 0 ELSE f[Pick(S)] + SumOf(f, S \ {Pick(S)})
<1>1. PICK g : Adds(f, S, g)
  BY AddsSome
<1>2. g[S] = IF S = {} THEN 0 ELSE f[Pick(S)] + g[S \ {Pick(S)}]
  BY <1>1, Zenon DEF Adds
<1>3. SumOf(f, S) = g[S] /\ SumOf(f, S \ {Pick(S)}) = g[S \ {Pick(S)}]
  BY <1>1, SumIs
<1> QED
  BY <1>2, <1>3

LEMMA SumInt ==
  ASSUME NEW f, NEW S, IsFiniteSet(S), \A x \in S : f[x] \in Int
  PROVE  SumOf(f, S) \in Int
<1> DEFINE Bad == {s \in SUBSET S : SumOf(f, s) \notin Int}
<1> SUFFICES ASSUME Bad # {} PROVE FALSE
  OBVIOUS
<1>1. PICK T \in Bad : \A y \in Bad : y \subseteq T => y = T
  <2>1. Bad \subseteq SUBSET S
    OBVIOUS
  <2> HIDE DEF Bad
  <2> QED BY <2>1, LeastSet
<1>2. SumOf(f, T) = IF T = {} THEN 0 ELSE f[Pick(T)] + SumOf(f, T \ {Pick(T)})
  BY SumStep, FS_Subset
<1>3. T # {} /\ Pick(T) \in T
  BY <1>2, PickIn
<1>4. SumOf(f, T \ {Pick(T)}) \in Int
  BY <1>1, <1>3
<1> QED
  BY <1>2, <1>3, <1>4

LEMMA SumSplit ==
  ASSUME NEW f, NEW S, IsFiniteSet(S), \A x \in S : f[x] \in Int, NEW x \in S
  PROVE  SumOf(f, S) = f[x] + SumOf(f, S \ {x})
<1> DEFINE Bad == {s \in SUBSET S : \E y \in s : SumOf(f, s) # f[y] + SumOf(f, s \ {y})}
<1> SUFFICES ASSUME Bad # {} PROVE FALSE
  OBVIOUS
<1>1. PICK T \in Bad : \A y \in Bad : y \subseteq T => y = T
  <2>1. Bad \subseteq SUBSET S
    OBVIOUS
  <2> HIDE DEF Bad
  <2> QED BY <2>1, LeastSet
<1>2. PICK y \in T : SumOf(f, T) # f[y] + SumOf(f, T \ {y})
  OBVIOUS
<1> DEFINE z == Pick(T)
<1>3. z \in T /\ SumOf(f, T) = f[z] + SumOf(f, T \ {z})
  BY <1>2, SumStep, FS_Subset, PickIn
<1> HIDE DEF z
<1>4. y # z
  BY <1>2, <1>3
<1>5. T \ {y} \notin Bad /\ T \ {z} \notin Bad
  BY <1>1, <1>2, <1>3
<1>6. SumOf(f, T \ {z}) = f[y] + SumOf(f, (T \ {z}) \ {y})
  BY <1>4, <1>5
<1>7. SumOf(f, T \ {y}) = f[z] + SumOf(f, (T \ {y}) \ {z})
  BY <1>3, <1>4, <1>5
<1>8. (T \ {y}) \ {z} = (T \ {z}) \ {y}
  OBVIOUS
<1>9. SumOf(f, (T \ {y}) \ {z}) \in Int /\ f[y] \in Int /\ f[z] \in Int
  BY <1>3, SumInt, FS_Subset
<1> QED
  BY <1>2, <1>3, <1>6, <1>7, <1>8, <1>9

LEMMA SumSame ==
  ASSUME NEW f, NEW h, NEW S, IsFiniteSet(S), \A x \in S : f[x] = h[x]
  PROVE  SumOf(f, S) = SumOf(h, S)
<1>1. PICK g : Adds(f, S, g)
  BY AddsSome
<1>2. \A s \in SUBSET S : s # {} => f[Pick(s)] = h[Pick(s)]
  BY PickIn
<1>3. Adds(h, S, g)
  <2>1. g = [s \in SUBSET S |-> IF s = {} THEN 0 ELSE f[Pick(s)] + g[s \ {Pick(s)}]]
    BY <1>1 DEF Adds
  <2>2. g = [s \in SUBSET S |-> IF s = {} THEN 0 ELSE h[Pick(s)] + g[s \ {Pick(s)}]]
    BY <1>2, <2>1
  <2> QED BY <2>2 DEF Adds
<1> QED
  BY <1>1, <1>3, SumIs

(* Two sets of the same sum keep it when both gain the same element, and when  *)
(* one gains the opposite of what the other loses.                             *)
LEMMA SumGain ==
  ASSUME NEW f, NEW S, NEW L, IsFiniteSet(S), IsFiniteSet(L), NEW x, x \notin S, x \notin L,
         \A y \in S \cup L \cup {x} : f[y] \in Int,
         SumOf(f, S) = SumOf(f, L)
  PROVE  SumOf(f, S \cup {x}) = SumOf(f, L \cup {x})
<1>1. IsFiniteSet(S \cup {x}) /\ IsFiniteSet(L \cup {x})
  BY FS_AddElement
<1>2. (S \cup {x}) \ {x} = S /\ (L \cup {x}) \ {x} = L
  OBVIOUS
<1>3. SumOf(f, S \cup {x}) = f[x] + SumOf(f, S)
  <2>1. SumOf(f, S \cup {x}) = f[x] + SumOf(f, (S \cup {x}) \ {x})
    BY <1>1, SumSplit
  <2> QED BY <1>2, <2>1
<1>4. SumOf(f, L \cup {x}) = f[x] + SumOf(f, L)
  <2>1. SumOf(f, L \cup {x}) = f[x] + SumOf(f, (L \cup {x}) \ {x})
    BY <1>1, SumSplit
  <2> QED BY <1>2, <2>1
<1> QED
  BY <1>3, <1>4

LEMMA SumOpposite ==
  ASSUME NEW f, NEW S, NEW L, IsFiniteSet(S), IsFiniteSet(L), NEW x, x \notin S, NEW o \in L,
         \A y \in S \cup L \cup {x} : f[y] \in Int, f[x] = -f[o],
         SumOf(f, S) = SumOf(f, L)
  PROVE  SumOf(f, S \cup {x}) = SumOf(f, L \ {o})
<1>1. IsFiniteSet(S \cup {x})
  BY FS_AddElement
<1>2. (S \cup {x}) \ {x} = S
  OBVIOUS
<1>3. SumOf(f, S \cup {x}) = f[x] + SumOf(f, S)
  <2>1. SumOf(f, S \cup {x}) = f[x] + SumOf(f, (S \cup {x}) \ {x})
    BY <1>1, SumSplit
  <2> QED BY <1>2, <2>1
<1>4. SumOf(f, L) = f[o] + SumOf(f, L \ {o})
  BY SumSplit
<1>5. SumOf(f, L \ {o}) \in Int /\ f[o] \in Int
  BY SumInt, FS_Subset
<1> QED
  BY <1>3, <1>4, <1>5

(* A sum of postings is the sum of any function that agrees with them. *)
LEMMA SignedSum ==
  ASSUME NEW f, NEW S, IsFiniteSet(S), \A x \in S : f[x] = Signed(x)
  PROVE  MapThenSumSet(Signed, S) = SumOf(f, S)
<1> DEFINE Body(g) == [s \in SUBSET S |-> IF s = {} THEN 0 ELSE
                         LET x == CHOOSE x \in s : TRUE IN Signed(x) + g[s \ {x}]]
           h == CHOOSE g : g = Body(g)
<1>1. MapThenSumSet(Signed, S) = h[S]
  BY DEF MapThenSumSet, MapThenFoldSet
<1>2. ASSUME NEW g
      PROVE  Body(g) = [s \in SUBSET S |-> IF s = {} THEN 0 ELSE f[Pick(s)] + g[s \ {Pick(s)}]]
  <2>1. \A s \in SUBSET S : s # {} => f[Pick(s)] = Signed(Pick(s))
    BY PickIn
  <2>2. Body(g) = [s \in SUBSET S |-> IF s = {} THEN 0 ELSE Signed(Pick(s)) + g[s \ {Pick(s)}]]
    BY DEF Pick
  <2> HIDE DEF Body
  <2> QED BY <2>1, <2>2
<1>3. \E g : g = Body(g)
  <2>1. PICK g : Adds(f, S, g)
    BY AddsSome
  <2>2. g = [s \in SUBSET S |-> IF s = {} THEN 0 ELSE f[Pick(s)] + g[s \ {Pick(s)}]]
    BY <2>1 DEF Adds
  <2> HIDE DEF Body
  <2>3. g = Body(g)
    BY <1>2, <2>2
  <2> QED BY <2>3
<1>4. h = Body(h)
  <2> HIDE DEF Body
  <2> QED BY <1>3
<1> HIDE DEF Body, h
<1>5. Adds(f, S, h)
  BY <1>2, <1>4 DEF Adds
<1> QED
  BY <1>1, <1>5, SumIs

-----------------------------------------------------------------------------
(* Revisions name batches that are there. *)
RevsKnown ==
  \A r \in revs : /\ r.original \in DOMAIN batches
                  /\ r.replacement # 0 => r.replacement \in DOMAIN batches

(* The journal after a commit, in the four forms of a command. *)
LEMMA CommitExact ==
  ASSUME IInv, RevsKnown, NEW p \in Procs, Commit(p)
  PROVE  LET c == proc[p]
             n == Len(batches)
             back == batches'[n + 1]
         IN /\ n \in Nat /\ DOMAIN batches = 1 .. n
            /\ \A b \in 1 .. n : batches'[b] = batches[b] /\ batches[b] \in Batch
            /\ c.old = 0 \/ c.old \in LiveSet
            /\ c.old = 0 /\ c.new = NoBatch =>
                 batches' = batches /\ revs' = revs /\ LiveSet' = LiveSet
            /\ c.old = 0 /\ c.new # NoBatch =>
                 /\ DOMAIN batches' = 1 .. n + 1 /\ batches'[n + 1] = c.new
                 /\ revs' = revs /\ LiveSet' = LiveSet \cup {n + 1}
            /\ c.old # 0 =>
                 /\ back.date = batches[c.old].date /\ back.cash = batches[c.old].cash
                 /\ back.reverses = c.old
            /\ c.old # 0 /\ c.new = NoBatch =>
                 /\ DOMAIN batches' = 1 .. n + 1 /\ LiveSet' = LiveSet \ {c.old}
                 /\ revs' = revs \cup {[original |-> c.old, replacement |-> 0]}
            /\ c.old # 0 /\ c.new # NoBatch =>
                 /\ DOMAIN batches' = 1 .. n + 2 /\ batches'[n + 2] = c.new
                 /\ LiveSet' = (LiveSet \ {c.old}) \cup {n + 2}
                 /\ revs' = revs \cup {[original |-> c.old, replacement |-> n + 2]}
            /\ c.new # NoBatch => c.new \in Batch /\ c.new.reverses = 0
<1> USE DEF IInv
<1> DEFINE s == proc[p]
           old == s.old
           new == s.new
           n == Len(batches)
<1>1. s \in Session /\ Wanted(s) /\ batches \in Seq(Batch) /\ revs \subseteq Rev
  BY DEF Commands, Busy, Commit, TypeOK
<1>2. /\ batches' = batches \o Reversal(s) \o Addition(s)
      /\ revs' = RevsAfter(s, Len(batches'))
  BY DEF Commit
<1>3. old \in Nat /\ new \in Batch \cup {NoBatch} /\ n \in Nat /\ DOMAIN batches = 1 .. n
      /\ \A b \in 1 .. n : batches[b] \in Batch
  BY <1>1 DEF Session
<1>4. Addition(s) \in Seq(Batch) /\ (new = NoBatch => Addition(s) = <<>>)
      /\ (new # NoBatch => Addition(s) = <<new>>)
  BY <1>3 DEF Addition
<1>5. old = 0 \/ old \in LiveSet
  BY DEF OneWriter, Commit, LiveSet, Live
<1>6. new # NoBatch => new \in Batch /\ new.reverses = 0
  BY <1>1, <1>3 DEF Wanted
<1>7. \A r \in revs : r.original \in 1 .. n
  BY <1>3 DEF RevsKnown
<1>8. CASE old = 0
  <2>1. Reversal(s) = <<>> /\ revs' = revs
    BY <1>2, <1>8 DEF Reversal, RevsAfter
  <2>2. batches' = batches \o Addition(s)
    BY <1>1, <1>2, <2>1
  <2>3. CASE new = NoBatch
    <3>1. batches' = batches
      BY <1>1, <1>4, <2>2, <2>3
    <3>2. LiveSet' = LiveSet
      BY <2>1, <3>1 DEF LiveSet, Live, Revised
    <3> QED BY <1>3, <1>8, <2>1, <2>3, <3>1, <3>2
  <2>4. CASE new # NoBatch
    <3>1. batches' = Append(batches, new) /\ new \in Batch
      BY <1>1, <1>3, <1>4, <2>2, <2>4
    <3>2. /\ DOMAIN batches' = 1 .. n + 1 /\ batches'[n + 1] = new
          /\ \A b \in 1 .. n : batches'[b] = batches[b]
      BY <1>1, <3>1
    <3>3. LiveSet' = LiveSet \cup {n + 1}
      BY <1>3, <1>6, <1>7, <2>1, <2>4, <3>2 DEF LiveSet, Live, Revised
    <3> QED BY <1>3, <1>6, <1>8, <2>1, <2>4, <3>2, <3>3
  <2> QED BY <2>3, <2>4
<1>9. CASE old # 0
  <2> DEFINE back == [batches[old] EXCEPT !.reverses = old, !.edited = FALSE]
             rev == [original |-> old, replacement |-> IF new = NoBatch THEN 0 ELSE Len(batches')]
  <2>1. old \in 1 .. n /\ batches[old] \in Batch
    BY <1>1, <1>3, <1>9 DEF Wanted
  <2>2. Reversal(s) = <<back>> /\ revs' = revs \cup {rev} /\ rev.original = old
    BY <1>2, <1>9 DEF Reversal, RevsAfter
  <2>3. back \in Batch /\ back.reverses = old
        /\ back.date = batches[old].date /\ back.cash = batches[old].cash
    BY <1>3, <2>1 DEF Batch
  <2> HIDE DEF back
  <2>4. batches \o Reversal(s) = Append(batches, back)
    BY <1>1, <2>2, <2>3
  <2>5. CASE new = NoBatch
    <3>1. batches' = Append(batches, back)
      BY <1>1, <1>2, <1>4, <2>3, <2>4, <2>5
    <3>2. /\ DOMAIN batches' = 1 .. n + 1 /\ batches'[n + 1] = back
          /\ \A b \in 1 .. n : batches'[b] = batches[b]
      BY <1>1, <2>3, <3>1
    <3>3. rev = [original |-> old, replacement |-> 0]
      BY <2>5
    <3> HIDE DEF rev
    <3>4. LiveSet' = LiveSet \ {old}
      BY <1>3, <1>9, <2>2, <2>3, <3>2 DEF LiveSet, Live, Revised
    <3> QED BY <1>3, <1>5, <1>9, <2>2, <2>3, <2>5, <3>2, <3>3, <3>4
  <2>6. CASE new # NoBatch
    <3>1. batches' = Append(Append(batches, back), new) /\ new \in Batch
      <4>1. new \in Batch /\ Append(batches, back) \in Seq(Batch)
        BY <1>1, <1>3, <2>3, <2>6
      <4>2. batches' = Append(batches, back) \o <<new>>
        BY <1>2, <1>4, <2>4, <2>6
      <4> QED BY <4>1, <4>2
    <3>2. /\ DOMAIN batches' = 1 .. n + 2 /\ batches'[n + 1] = back /\ batches'[n + 2] = new
          /\ Len(batches') = n + 2
          /\ \A b \in 1 .. n : batches'[b] = batches[b]
      BY <1>1, <1>3, <2>3, <3>1
    <3>3. rev = [original |-> old, replacement |-> n + 2]
      BY <2>6, <3>2
    <3> HIDE DEF rev
    <3>4. LiveSet' = (LiveSet \ {old}) \cup {n + 2}
      <4>1. \A b : Revised(b)' <=> Revised(b) \/ b = old
        BY <2>2 DEF Revised
      <4>2. ~Revised(n + 2) /\ n + 2 # old
        BY <1>3, <1>7, <2>1 DEF Revised
      <4>3. \A b : b \in LiveSet' <=> b \in DOMAIN batches' /\ batches'[b].reverses = 0 /\ ~Revised(b)'
        BY DEF LiveSet, Live
      <4>4. \A b : b \in LiveSet <=> b \in 1 .. n /\ batches[b].reverses = 0 /\ ~Revised(b)
        BY <1>3 DEF LiveSet, Live
      <4>5. ASSUME NEW b PROVE b \in LiveSet' <=> b \in (LiveSet \ {old}) \cup {n + 2}
        <5>1. CASE b \in 1 .. n
          BY <1>3, <3>2, <4>1, <4>3, <4>4, <5>1
        <5>2. CASE b = n + 1
          BY <1>3, <1>9, <2>3, <3>2, <4>3, <4>4, <5>2
        <5>3. CASE b = n + 2
          BY <1>3, <1>6, <2>6, <3>2, <4>1, <4>2, <4>3, <5>3
        <5>4. CASE b \notin 1 .. n + 2
          BY <1>3, <3>2, <4>3, <4>4, <5>4
        <5> QED BY <1>3, <5>1, <5>2, <5>3, <5>4
      <4> QED BY <4>5
    <3> QED BY <1>3, <1>5, <1>6, <1>9, <2>2, <2>3, <2>6, <3>2, <3>3, <3>4
  <2> QED BY <2>5, <2>6
<1> QED BY <1>8, <1>9

-----------------------------------------------------------------------------
(* Only a commit writes the ledger. *)
LEMMA LedgerMoves ==
  ASSUME [Next]_vars, ledger' # ledger
  PROVE  \E p \in Procs : Commit(p)
BY DEF Next, Sync, Member, SyncCreate, SyncRevise, SyncVoid, ManualTransaction, SetSplits, SetDate,
       ManualVoid, ReverseBatch, Begin, Write, CloseBegin, CloseCommit, Reopen, vars

LEMMA LedgerStays ==
  ASSUME [Next]_vars, ~ \E p \in Procs : Commit(p)
  PROVE  UNCHANGED <<row, batches, revs, record>>
BY LedgerMoves DEF ledger

LEMMA RevsStep == IInv /\ RevsKnown /\ [Next]_vars => RevsKnown'
<1> SUFFICES ASSUME IInv, RevsKnown, [Next]_vars PROVE RevsKnown'
  OBVIOUS
<1>1. CASE \E p \in Procs : Commit(p)
  <2>1. PICK p \in Procs : Commit(p)
    BY <1>1
  <2> DEFINE n == Len(batches)
             old == proc[p].old
  <2>2. n \in Nat /\ DOMAIN batches = 1 .. n /\ (old = 0 \/ old \in 1 .. n)
    BY <2>1, CommitExact DEF LiveSet
  <2>3. \/ revs' = revs /\ 1 .. n \subseteq DOMAIN batches'
        \/ /\ revs' = revs \cup {[original |-> old, replacement |-> 0]}
           /\ DOMAIN batches' = 1 .. n + 1 /\ old # 0
        \/ /\ revs' = revs \cup {[original |-> old, replacement |-> n + 2]}
           /\ DOMAIN batches' = 1 .. n + 2 /\ old # 0
    <3>1. CASE old = 0
      BY <2>1, <2>2, <3>1, CommitExact
    <3>2. CASE old # 0 /\ proc[p].new = NoBatch
      BY <2>1, <2>2, <3>2, CommitExact
    <3>3. CASE old # 0 /\ proc[p].new # NoBatch
      BY <2>1, <2>2, <3>3, CommitExact
    <3> QED BY <3>1, <3>2, <3>3
  <2> HIDE DEF n, old
  <2> QED BY <2>2, <2>3 DEF RevsKnown
<1>2. CASE ~ \E p \in Procs : Commit(p)
  BY <1>2, LedgerStays DEF RevsKnown
<1> QED BY <1>1, <1>2

-----------------------------------------------------------------------------
(* Splits are kept *)

(* A command that rebuilds the uncategorized pair corrects no split, unless    *)
(* the amount changes.                                                         *)
Rebuilds(c) ==
  c.old # 0 /\ c.new # NoBatch /\ c.new.shape = "flat"
    => batches[c.old].shape # "split" \/ batches[c.old].cash # c.new.cash

SplitsSafe == \A p \in Procs : Busy(proc[p]) => Rebuilds(proc[p])

LEMMA SplitBegins ==
  ASSUME IInv, SplitsSafe, NEW p \in Procs, Sync(p) \/ Member(p)
  PROVE  /\ \A q \in Procs \ {p} : proc'[q] = proc[q]
         /\ UNCHANGED ledger
         /\ Rebuilds(proc'[p])
<1> USE DEF IInv
<1>0. ASSUME NEW c, Begin(p, c), Rebuilds(c)
      PROVE  /\ \A q \in Procs \ {p} : proc'[q] = proc[q]
             /\ UNCHANGED ledger
             /\ Rebuilds(proc'[p])
  <2>1. proc'[p] = c /\ \A q \in Procs \ {p} : proc'[q] = proc[q]
    BY <1>0 DEF Begin, TypeOK
  <2> QED BY <1>0, <2>1 DEF Begin
<1>1. \A b \in DOMAIN batches : b \in Nat /\ batches[b] \in Batch
  BY DEF TypeOK
<1>2. ASSUME NEW rec \in Record, SyncCreate(p, rec) PROVE \E c : Begin(p, c) /\ Rebuilds(c)
  <2>1. Applied(rec, 0, Flat(rec)).old = 0
    BY FlatBatch, AppliedFields
  <2> QED BY <1>2, <2>1 DEF SyncCreate, Rebuilds
<1>3. ASSUME NEW rec \in Record, NEW b \in DOMAIN batches, SyncRevise(p, b, rec)
      PROVE  \E c : Begin(p, c) /\ Rebuilds(c)
  <2>1. Begin(p, Revision(b, rec))
    BY <1>3 DEF SyncRevise
  <2>2. CASE UserAuthored(b) /\ batches[b].cash = rec.cash /\ batches[b].date = rec.date
    <3> DEFINE d == Applied(rec, 0, NoBatch)
    <3>1. Begin(p, [d EXCEPT !.kept = b])
      BY <2>1, <2>2 DEF Revision
    <3>2. d \in Session /\ d.old = 0
      BY AppliedFields
    <3> HIDE DEF d
    <3>3. [d EXCEPT !.kept = b].old = 0
      BY <3>2 DEF Session
    <3> QED BY <3>1, <3>3 DEF Rebuilds
  <2>3. CASE UserAuthored(b) /\ batches[b].cash = rec.cash /\ batches[b].date # rec.date
    <3> DEFINE new == [batches[b] EXCEPT !.date = rec.date, !.edited = TRUE]
    <3>1. new \in Batch /\ new.shape = batches[b].shape
      BY <1>1 DEF Batch, Record
    <3> HIDE DEF new
    <3>2. Applied(rec, b, new).old = b /\ Applied(rec, b, new).new = new
      BY <1>1, <3>1, AppliedFields
    <3>3. Rebuilds(Applied(rec, b, new))
      BY <3>1, <3>2 DEF Rebuilds
    <3> QED BY <2>1, <2>3, <3>3 DEF Revision, new
  <2>4. CASE ~(UserAuthored(b) /\ batches[b].cash = rec.cash)
    <3>1. /\ Applied(rec, b, Flat(rec)).old = b /\ Applied(rec, b, Flat(rec)).new = Flat(rec)
          /\ Flat(rec).cash = rec.cash
      BY <1>1, FlatBatch, AppliedFields
    <3>2. Rebuilds(Applied(rec, b, Flat(rec)))
      BY <2>4, <3>1 DEF Rebuilds, UserAuthored
    <3> QED BY <2>1, <2>4, <3>2 DEF Revision
  <2> QED BY <2>2, <2>3, <2>4
<1>4. ASSUME NEW b \in DOMAIN batches, SyncVoid(p, b) \/ ManualVoid(p, b) \/ ReverseBatch(p, b)
      PROVE  \E c : Begin(p, c) /\ Rebuilds(c)
  <2> DEFINE d == Correction(b, NoBatch)
  <2>1. d \in Session /\ d.new = NoBatch
    BY <1>1, CorrectionFields
  <2>2. \/ Begin(p, [d EXCEPT !.status = "voided", !.sync = TRUE])
        \/ Begin(p, [d EXCEPT !.status = "voided", !.locking = TRUE])
        \/ Begin(p, [d EXCEPT !.status = "voided"])
    BY <1>4 DEF SyncVoid, ManualVoid, ReverseBatch
  <2> HIDE DEF d
  <2>3. /\ [d EXCEPT !.status = "voided", !.sync = TRUE].new = NoBatch
        /\ [d EXCEPT !.status = "voided", !.locking = TRUE].new = NoBatch
        /\ [d EXCEPT !.status = "voided"].new = NoBatch
    BY <2>1 DEF Session
  <2> QED BY <2>2, <2>3 DEF Rebuilds
<1>5. ASSUME NEW rec \in Record, NEW shape \in Shapes \ {"flat"}, ManualTransaction(p, rec, shape)
      PROVE  \E c : Begin(p, c) /\ Rebuilds(c)
  <2> DEFINE new == [Flat(rec) EXCEPT !.shape = shape]
             d == Applied(rec, 0, new)
  <2>1. Begin(p, [d EXCEPT !.sync = FALSE])
    BY <1>5 DEF ManualTransaction
  <2>2. new \in Batch
    BY FlatBatch DEF Batch
  <2> HIDE DEF new
  <2>3. d \in Session /\ d.old = 0
    BY <2>2, AppliedFields
  <2> HIDE DEF d
  <2>4. [d EXCEPT !.sync = FALSE].old = 0
    BY <2>3 DEF Session
  <2> QED BY <2>1, <2>4 DEF Rebuilds
<1>6. ASSUME NEW b \in DOMAIN batches, NEW shape \in Shapes \ {"flat"}, SetSplits(p, b, shape)
      PROVE  \E c : Begin(p, c) /\ Rebuilds(c)
  <2> DEFINE new == [batches[b] EXCEPT !.shape = shape, !.edited = TRUE]
             d == Correction(b, new)
  <2>1. Begin(p, [d EXCEPT !.locking = TRUE])
    BY <1>6 DEF SetSplits
  <2>2. new \in Batch /\ new.shape # "flat"
    BY <1>1 DEF Batch
  <2> HIDE DEF new
  <2>3. d \in Session /\ d.new = new
    BY <1>1, <2>2, CorrectionFields
  <2> HIDE DEF d
  <2>4. [d EXCEPT !.locking = TRUE].new = new
    BY <2>3 DEF Session
  <2> QED BY <2>1, <2>2, <2>4 DEF Rebuilds
<1>7. ASSUME NEW b \in DOMAIN batches, NEW date \in Dates, SetDate(p, b, date)
      PROVE  \E c : Begin(p, c) /\ Rebuilds(c)
  <2> DEFINE new == [batches[b] EXCEPT !.date = date, !.edited = FALSE]
             d == Correction(b, new)
             c == [d EXCEPT !.date = date, !.locking = TRUE]
  <2>1. Begin(p, c)
    BY <1>7 DEF SetDate
  <2>2. new \in Batch /\ new.shape = batches[b].shape
    BY <1>1 DEF Batch
  <2> HIDE DEF new
  <2>3. d \in Session /\ d.old = b /\ d.new = new
    BY <1>1, <2>2, CorrectionFields
  <2> HIDE DEF d
  <2>4. c.old = b /\ c.new = new
    BY <2>3 DEF Session
  <2> HIDE DEF c
  <2> QED BY <2>1, <2>2, <2>4 DEF Rebuilds
<1> QED
  BY <1>0, <1>2, <1>3, <1>4, <1>5, <1>6, <1>7 DEF Sync, Member

(* What a step does to the sessions, when it begins no command. *)
LEMMA SessionMoves ==
  ASSUME IInv, [Next]_vars, NEW p \in Procs, Busy(proc'[p])
  PROVE  \/ Sync(p) \/ Member(p)
         \/ /\ Busy(proc[p])
            /\ proc'[p].old = proc[p].old /\ proc'[p].new = proc[p].new
            /\ proc'[p].status = proc[p].status /\ proc'[p].date = proc[p].date
            /\ proc'[p].record = proc[p].record /\ proc'[p].kept = proc[p].kept
            /\ \/ proc'[p].pc = proc[p].pc
               \/ Write(p) /\ PeriodsOpen(proc[p]) /\ CorrectsOnce(proc[p])
<1>0. proc \in [Procs -> Session]
  BY DEF IInv, TypeOK
<1>1. CASE proc'[p] = proc[p]
  BY <1>1
<1>2. CASE proc'[p] # proc[p]
  <2>1. Sync(p) \/ Member(p) \/ Write(p) \/ Commit(p) \/ CloseCommit(p) \/ \E d \in Dates : CloseBegin(p, d)
    <3>1. ASSUME NEW q \in Procs, q # p, NEW c, proc' = [proc EXCEPT ![q] = c] PROVE FALSE
      BY <1>0, <1>2, <3>1
    <3>2. ASSUME NEW q \in Procs, q # p, Sync(q) \/ Member(q) \/ Write(q) \/ Commit(q) \/ CloseCommit(q)
                                           \/ \E d \in Dates : CloseBegin(q, d)
          PROVE  \E c : proc' = [proc EXCEPT ![q] = c]
      BY <3>2, Zenon
      DEF Sync, Member, SyncCreate, SyncRevise, SyncVoid, ManualTransaction, SetSplits, SetDate,
          ManualVoid, ReverseBatch, Begin, Write, Commit, CloseBegin, CloseCommit
    <3> QED BY <1>2, <3>1, <3>2 DEF Next, Reopen, vars
  <2>2. ~(Commit(p) \/ CloseCommit(p) \/ \E d \in Dates : CloseBegin(p, d))
    <3>1. ASSUME Commit(p) \/ CloseCommit(p) PROVE FALSE
      BY <1>0, <3>1, IdleTyped DEF Commit, CloseCommit, Busy
    <3>2. ASSUME NEW d \in Dates, CloseBegin(p, d) PROVE FALSE
      <4> DEFINE c == [Idle EXCEPT !.pc = "close", !.date = d, !.seen = Len(batches)]
      <4>1. c.pc = "close"
        BY DEF Idle
      <4>2. proc' = [proc EXCEPT ![p] = c]
        BY <3>2 DEF CloseBegin
      <4> HIDE DEF c
      <4> QED BY <1>0, <4>1, <4>2 DEF Busy
    <3> QED BY <3>1, <3>2
  <2>3. CASE Write(p)
    <3>1. proc[p].pc = "write" /\ proc[p] \in Session
      BY <1>0, <2>3 DEF Write
    <3>2. proc'[p] = IF PeriodsOpen(proc[p]) /\ CorrectsOnce(proc[p])
                       THEN [proc[p] EXCEPT !.pc = "commit"] ELSE Idle
      BY <1>0, <2>3 DEF Write
    <3>3. proc'[p] # Idle
      BY IdleTyped
    <3>4. /\ proc'[p] = [proc[p] EXCEPT !.pc = "commit"] /\ PeriodsOpen(proc[p]) /\ CorrectsOnce(proc[p])
      BY <3>2, <3>3
    <3> QED BY <2>3, <3>1, <3>4 DEF Session, Busy
  <2> QED BY <2>1, <2>2, <2>3
<1> QED BY <1>1, <1>2

LEMMA SplitStep == IInv /\ RevsKnown /\ SplitsSafe /\ SplitKept /\ [Next]_vars => SplitsSafe' /\ SplitKept'
<1> SUFFICES ASSUME IInv, RevsKnown, SplitsSafe, SplitKept, [Next]_vars PROVE SplitsSafe' /\ SplitKept'
  OBVIOUS
<1>1. ASSUME NEW p \in Procs, Commit(p) PROVE \A b \in DOMAIN batches : batches'[b] = batches[b]
  BY <1>1, CommitExact
<1>2. \A b \in DOMAIN batches : batches'[b] = batches[b]
  BY <1>1, LedgerStays
<1>3. SplitsSafe'
  <2> SUFFICES ASSUME NEW p \in Procs, Busy(proc'[p])
               PROVE  /\ proc'[p].old # 0 /\ proc'[p].new # NoBatch /\ proc'[p].new.shape = "flat"
                         => \/ batches'[proc'[p].old].shape # "split"
                            \/ batches'[proc'[p].old].cash # proc'[p].new.cash
    BY DEF SplitsSafe, Rebuilds
  <2>1. CASE Sync(p) \/ Member(p)
    <3>1. Rebuilds(proc'[p]) /\ UNCHANGED ledger
      BY <2>1, SplitBegins
    <3> QED BY <3>1 DEF Rebuilds, ledger
  <2>2. CASE ~(Sync(p) \/ Member(p))
    <3>1. Busy(proc[p]) /\ proc'[p].old = proc[p].old /\ proc'[p].new = proc[p].new
      BY <2>2, SessionMoves
    <3>2. Rebuilds(proc[p]) /\ (proc[p].old # 0 => proc[p].old \in DOMAIN batches)
      BY <3>1 DEF SplitsSafe, IInv, Commands, Wanted
    <3> QED BY <1>2, <3>1, <3>2 DEF Rebuilds
  <2> QED BY <2>1, <2>2
<1>4. SplitKept'
  <2> SUFFICES ASSUME NEW r \in revs', r.replacement # 0, batches'[r.original].shape = "split",
                      batches'[r.replacement].shape = "flat",
                      batches'[r.replacement].cash = batches'[r.original].cash
               PROVE  FALSE
    BY DEF SplitKept, Flattened
  <2>1. CASE r \in revs
    <3>1. r.original \in DOMAIN batches /\ r.replacement \in DOMAIN batches
      BY <2>1 DEF RevsKnown
    <3> QED BY <1>2, <2>1, <3>1 DEF SplitKept, Flattened
  <2>2. CASE r \notin revs
    <3>1. PICK p \in Procs : Commit(p)
      BY <2>2, LedgerStays
    <3>2. proc[p].old # 0 /\ proc[p].new # NoBatch
          /\ r = [original |-> proc[p].old, replacement |-> Len(batches) + 2]
      <4>1. CASE proc[p].old = 0
        BY <2>2, <3>1, <4>1, CommitExact
      <4>2. CASE proc[p].old # 0 /\ proc[p].new = NoBatch
        <5>1. r = [original |-> proc[p].old, replacement |-> 0]
          BY <2>2, <3>1, <4>2, CommitExact
        <5> QED BY <5>1
      <4>3. CASE proc[p].old # 0 /\ proc[p].new # NoBatch
        BY <2>2, <3>1, <4>3, CommitExact
      <4> QED BY <4>1, <4>2, <4>3
    <3>3. r.original = proc[p].old /\ r.replacement = Len(batches) + 2
      BY <3>2
    <3>4. batches'[r.replacement] = proc[p].new /\ proc[p].old \in DOMAIN batches
      BY <3>1, <3>2, <3>3, CommitExact DEF LiveSet
    <3>5. Rebuilds(proc[p])
      BY <3>1 DEF SplitsSafe, Busy, Commit
    <3> QED BY <1>2, <3>2, <3>3, <3>4, <3>5 DEF Rebuilds
  <2> QED BY <2>1, <2>2
<1> QED BY <1>3, <1>4

(* A split of several legs outlives every revision that keeps its amount, and  *)
(* every interleaving of the worker with members.                              *)
THEOREM SplitsKept == Spec => []SplitKept
<1>1. Init => RevsKnown /\ SplitsSafe /\ SplitKept
  BY IdleTyped DEF Init, RevsKnown, SplitsSafe, SplitKept, Flattened
<1> QED
  BY <1>1, IInvAlways, RevsStep, SplitStep, PTL DEF Spec

-----------------------------------------------------------------------------
(* Nothing is half undone *)

Posted == [b \in DOMAIN batches |-> Signed(b)]
On(d, S) == {b \in S : batches[b].date = d}
Net == \A d \in Dates : SumOf(Posted, On(d, DOMAIN batches)) = SumOf(Posted, On(d, LiveSet))

LEMMA BatchesFinite ==
  ASSUME TypeOK, NEW S, S \subseteq DOMAIN batches
  PROVE  IsFiniteSet(S)
<1>1. DOMAIN batches = 1 .. Len(batches) /\ Len(batches) \in Nat
  BY DEF TypeOK
<1>2. IsFiniteSet(1 .. Len(batches))
  BY <1>1, FS_Interval
<1> QED BY <1>1, <1>2, FS_Subset

LEMMA NetSums == TypeOK /\ Net => NetIsLive
<1> SUFFICES ASSUME TypeOK, Net, NEW d \in Dates
             PROVE  MapThenSumSet(Signed, On(d, DOMAIN batches)) = MapThenSumSet(Signed, On(d, LiveSet))
  BY DEF NetIsLive, On
<1>1. On(d, DOMAIN batches) \subseteq DOMAIN batches /\ On(d, LiveSet) \subseteq DOMAIN batches
  BY DEF On, LiveSet
<1>2. /\ MapThenSumSet(Signed, On(d, DOMAIN batches)) = SumOf(Posted, On(d, DOMAIN batches))
      /\ MapThenSumSet(Signed, On(d, LiveSet)) = SumOf(Posted, On(d, LiveSet))
  BY <1>1, BatchesFinite, SignedSum DEF Posted
<1> QED BY <1>2 DEF Net

LEMMA NetStep == IInv /\ RevsKnown /\ Net /\ [Next]_vars => Net'
<1> SUFFICES ASSUME IInv, RevsKnown, Net, [Next]_vars PROVE Net'
  OBVIOUS
<1>1. CASE ~ \E p \in Procs : Commit(p)
  BY <1>1, LedgerStays DEF Net, Posted, On, LiveSet, Live, Revised, Signed
<1>2. ASSUME NEW p \in Procs, Commit(p) PROVE Net'
  <2> DEFINE n == Len(batches)
             old == proc[p].old
             new == proc[p].new
             F == Posted'
             LS == LiveSet
             all == DOMAIN batches'
             live == LiveSet'
             date(b) == batches'[b].date
             In(d, X) == {b \in X : date(b) = d}
  <2>0. TypeOK /\ TypeOK'
    BY <1>2, CommitKeeps DEF IInv
  <2>1. n \in Nat /\ DOMAIN batches = 1 .. n /\ (\A b \in 1 .. n : batches'[b] = batches[b])
        /\ LS \subseteq 1 .. n
    BY <1>2, CommitExact DEF LiveSet
  <2>2. \A b \in all :
          F[b] = (IF batches'[b].reverses = 0 THEN batches'[b].cash ELSE -batches'[b].cash)
    BY DEF Posted, Signed
  <2>3. \A b \in all : batches'[b].cash \in Int
    <3>1. \A b \in all : batches'[b] \in Batch
      BY <2>0 DEF TypeOK
    <3> QED BY <3>1, JournalAssumption DEF Batch
  <2>4. \A b \in all : F[b] \in Int
    <3> HIDE DEF F, all
    <3> QED BY <2>2, <2>3
  <2>5. 1 .. n \subseteq all
    BY <1>2, <2>1, CommitExact
  <2>6. \A b \in 1 .. n : F[b] = Posted[b]
    <3>1. \A b \in 1 .. n : Posted[b] = Signed(b)
      BY <2>1 DEF Posted
    <3> QED BY <2>1, <2>2, <2>5, <3>1 DEF Signed
  <2>7. old = 0 /\ new = NoBatch => batches' = batches /\ live = LS
    BY <1>2, CommitExact
  <2>8. old = 0 /\ new # NoBatch => all = 1 .. n + 1 /\ live = LS \cup {n + 1}
    BY <1>2, CommitExact
  <2>9. old # 0 => /\ old \in LS /\ old \in 1 .. n /\ n + 1 \in all
                   /\ date(n + 1) = date(old) /\ F[n + 1] = -F[old]
    <3> SUFFICES ASSUME old # 0
                 PROVE  /\ old \in LS /\ old \in 1 .. n /\ n + 1 \in all
                        /\ date(n + 1) = date(old) /\ F[n + 1] = -F[old]
      OBVIOUS
    <3>1. old \in LS /\ old \in 1 .. n
      BY <1>2, <2>1, CommitExact
    <3>2. all = 1 .. n + 1 \/ all = 1 .. n + 2
      <4>1. CASE new = NoBatch
        BY <1>2, <4>1, CommitExact
      <4>2. CASE new # NoBatch
        BY <1>2, <4>2, CommitExact
      <4> QED BY <4>1, <4>2
    <3>3. /\ batches'[n + 1].date = batches[old].date /\ batches'[n + 1].reverses = old
          /\ batches'[n + 1].cash = batches[old].cash
      BY <1>2, CommitExact
    <3>4. batches[old].reverses = 0
      BY <3>1 DEF LiveSet, Live
    <3>5. n + 1 \in all
      BY <2>1, <3>2
    <3>6. F[n + 1] = -batches[old].cash /\ F[old] = batches[old].cash
      <4> HIDE DEF F, all, n, old
      <4> QED BY <2>1, <2>2, <2>5, <3>1, <3>3, <3>4, <3>5
    <3> HIDE DEF F
    <3> QED BY <2>1, <3>1, <3>3, <3>5, <3>6
  <2>10. old # 0 /\ new = NoBatch => all = 1 .. n + 1 /\ live = LS \ {old}
    BY <1>2, CommitExact
  <2>11. old # 0 /\ new # NoBatch => all = 1 .. n + 2 /\ live = (LS \ {old}) \cup {n + 2}
    BY <1>2, CommitExact
  <2> SUFFICES ASSUME NEW d \in Dates
               PROVE  SumOf(F, In(d, all)) = SumOf(F, In(d, live))
    BY DEF Net, On
  <2> DEFINE S == In(d, 1 .. n)
             L == In(d, LS)
  <2>12. /\ S = On(d, DOMAIN batches) /\ L = On(d, LiveSet)
         /\ IsFiniteSet(S) /\ IsFiniteSet(L)
    <3>1. S = On(d, DOMAIN batches) /\ L = On(d, LiveSet)
      BY <2>1 DEF On
    <3>2. S \subseteq DOMAIN batches /\ L \subseteq DOMAIN batches
      BY <2>1
    <3> QED BY <2>0, <3>1, <3>2, BatchesFinite
  <2>13. SumOf(F, S) = SumOf(F, L)
    <3>1. SumOf(Posted, S) = SumOf(Posted, L)
      BY <2>12 DEF Net
    <3>2. \A x \in S : F[x] = Posted[x]
      BY <2>6
    <3>3. \A x \in L : F[x] = Posted[x]
      BY <2>1, <2>6
    <3> HIDE DEF F, S, L
    <3>4. SumOf(F, S) = SumOf(Posted, S) /\ SumOf(F, L) = SumOf(Posted, L)
      BY <2>12, <3>2, <3>3, SumSame
    <3> QED BY <3>1, <3>4
  <2> HIDE DEF F, LS, all, live, n, old, new, date
  <2>14. CASE old = 0 /\ new = NoBatch
    <3>1. all = 1 .. n /\ live = LS
      BY <2>1, <2>7, <2>14 DEF all
    <3> QED BY <2>13, <3>1
  <2>15. CASE old = 0 /\ new # NoBatch
    <3>1. n + 1 \notin S /\ n + 1 \notin L
      BY <2>1
    <3>2. CASE date(n + 1) = d
      <4>1. In(d, all) = S \cup {n + 1} /\ In(d, live) = L \cup {n + 1}
        BY <2>1, <2>8, <2>15, <3>2
      <4>2. \A y \in S \cup L \cup {n + 1} : F[y] \in Int
        BY <2>1, <2>4, <2>5, <2>8, <2>15
      <4> HIDE DEF S, L, In
      <4> QED BY <2>12, <2>13, <3>1, <4>1, <4>2, SumGain
    <3>3. CASE date(n + 1) # d
      <4>1. In(d, all) = S /\ In(d, live) = L
        BY <2>1, <2>8, <2>15, <3>3
      <4> QED BY <2>13, <4>1
    <3> QED BY <3>2, <3>3
  <2>16. CASE old # 0
    <3> DEFINE S1 == In(d, 1 .. n + 1)
               L1 == In(d, LS \ {old})
    <3>1. n + 1 \notin S /\ n + 2 \notin S1 /\ n + 2 \notin L1
      BY <2>1
    <3>2. SumOf(F, S1) = SumOf(F, L1) /\ IsFiniteSet(S1) /\ IsFiniteSet(L1)
      <4>1. CASE date(old) = d
        <5>1. S1 = S \cup {n + 1} /\ L1 = L \ {old} /\ old \in L
          BY <2>1, <2>9, <2>16, <4>1
        <5>2. \A y \in S \cup L \cup {n + 1} : F[y] \in Int
          BY <2>1, <2>4, <2>5, <2>9, <2>16
        <5>3. F[n + 1] = -F[old]
          BY <2>9, <2>16
        <5> HIDE DEF S, L, S1, L1
        <5>4. SumOf(F, S \cup {n + 1}) = SumOf(F, L \ {old})
          BY <2>12, <2>13, <3>1, <5>1, <5>2, <5>3, SumOpposite
        <5>5. IsFiniteSet(S \cup {n + 1}) /\ IsFiniteSet(L \ {old})
          BY <2>12, FS_AddElement, FS_RemoveElement
        <5> QED BY <5>1, <5>4, <5>5
      <4>2. CASE date(old) # d
        <5>1. S1 = S /\ L1 = L
          BY <2>1, <2>9, <2>16, <4>2
        <5> HIDE DEF S, L, S1, L1
        <5> QED BY <2>12, <2>13, <5>1
      <4> QED BY <4>1, <4>2
    <3>3. CASE new = NoBatch
      <4>1. In(d, all) = S1 /\ In(d, live) = L1
        BY <2>10, <2>16, <3>3
      <4> QED BY <3>2, <4>1
    <3>4. CASE new # NoBatch /\ date(n + 2) = d
      <4>1. In(d, all) = S1 \cup {n + 2} /\ In(d, live) = L1 \cup {n + 2}
        BY <2>1, <2>11, <2>16, <3>4
      <4>2. \A y \in S1 \cup L1 \cup {n + 2} : F[y] \in Int
        <5>1. all = 1 .. n + 2
          BY <2>11, <2>16, <3>4
        <5>2. S1 \subseteq 1 .. n + 1 /\ L1 \subseteq 1 .. n
          BY <2>1
        <5>3. 1 .. n + 1 \subseteq 1 .. n + 2 /\ 1 .. n \subseteq 1 .. n + 2 /\ n + 2 \in 1 .. n + 2
          BY <2>1
        <5> HIDE DEF S1, L1, all
        <5> QED BY <2>4, <5>1, <5>2, <5>3
      <4> HIDE DEF S1, L1, In
      <4> QED BY <3>1, <3>2, <4>1, <4>2, SumGain
    <3>5. CASE new # NoBatch /\ date(n + 2) # d
      <4>1. In(d, all) = S1 /\ In(d, live) = L1
        BY <2>1, <2>11, <2>16, <3>5
      <4> QED BY <3>2, <4>1
    <3> QED BY <3>3, <3>4, <3>5
  <2> QED BY <2>14, <2>15, <2>16
<1> QED BY <1>1, <1>2

(* On every date, what all postings and reversals sum to is what the live      *)
(* batch posts, for any number of corrections and sessions.                    *)
THEOREM NetStands == Spec => []NetIsLive
<1>1. Init => RevsKnown /\ Net
  BY DEF Init, RevsKnown, Net, On, LiveSet, Live
<1>2. IInv => TypeOK
  BY DEF IInv
<1> QED
  BY <1>1, <1>2, IInvAlways, RevsStep, NetStep, NetSums, PTL DEF Spec

-----------------------------------------------------------------------------
(* Row and journal *)

(* A command does to the row what it does to the journal: a replacement bears  *)
(* the date the row gets, or that of the batch it replaces; a command that      *)
(* replaces nothing has read a batch of the date it writes.                      *)
Agrees(c) ==
  /\ c.new # NoBatch => /\ c.status # "voided"
                        /\ \/ c.date # NoDate /\ c.new.date = c.date
                           \/ c.date = NoDate /\ c.old # 0 /\ c.new.date = batches[c.old].date
  /\ c.new = NoBatch /\ c.old # 0 => c.status = "voided"
  /\ c.new = NoBatch /\ c.old = 0 =>
       /\ c.status \in {"pending", "posted"}
       /\ c.kept \in DOMAIN batches \ {0} /\ batches[c.kept].date = c.date

CommandsAgree == \A p \in Procs : Busy(proc[p]) => Agrees(proc[p])

LEMMA AgreeBegins ==
  ASSUME IInv, NEW p \in Procs, Sync(p) \/ Member(p)
  PROVE  /\ proc'[p].pc = "write" /\ Agrees(proc'[p])
         /\ UNCHANGED <<ledger, locks>>
<1> USE DEF IInv
<1>0. ASSUME NEW c, Begin(p, c), c.pc = "write", Agrees(c)
      PROVE  /\ proc'[p].pc = "write" /\ Agrees(proc'[p])
             /\ UNCHANGED <<ledger, locks>>
  <2>1. proc'[p] = c
    BY <1>0 DEF Begin, TypeOK
  <2> QED BY <1>0, <2>1 DEF Begin
<1>1. \A b \in DOMAIN batches : b \in Nat /\ b # 0 /\ batches[b] \in Batch
  BY DEF TypeOK
<1>3. ASSUME NEW rec \in Record
      PROVE  /\ rec.status \in {"pending", "posted"} /\ rec.date \in Dates /\ rec.date # NoDate
             /\ Flat(rec) \in Batch /\ Flat(rec).date = rec.date /\ Flat(rec) # NoBatch
  <2>1. rec.status \in {"pending", "posted"} /\ rec.date \in Dates /\ Flat(rec).date = rec.date
    BY JournalAssumption DEF Record, Flat
  <2> QED BY <2>1, FlatBatch, Nothing
<1>4. ASSUME NEW rec \in Record, SyncCreate(p, rec) PROVE \E c : Begin(p, c) /\ c.pc = "write" /\ Agrees(c)
  <2> DEFINE c == Applied(rec, 0, Flat(rec))
  <2>1. c.pc = "write" /\ c.old = 0 /\ c.new = Flat(rec) /\ c.status = rec.status /\ c.date = rec.date
    BY <1>3, AppliedFields
  <2>2. Begin(p, c)
    BY <1>4 DEF SyncCreate
  <2> HIDE DEF c
  <2>3. Agrees(c)
    BY <1>3, <2>1 DEF Agrees
  <2> QED BY <2>1, <2>2, <2>3
<1>5. ASSUME NEW rec \in Record, NEW b \in DOMAIN batches, SyncRevise(p, b, rec)
      PROVE  \E c : Begin(p, c) /\ c.pc = "write" /\ Agrees(c)
  <2>1. Begin(p, Revision(b, rec)) /\ Live(b)
    BY <1>5 DEF SyncRevise
  <2>2. ASSUME NEW new \in Batch, new.date = rec.date, Begin(p, Applied(rec, b, new))
        PROVE  \E c : Begin(p, c) /\ c.pc = "write" /\ Agrees(c)
    <3> DEFINE c == Applied(rec, b, new)
    <3>1. c.pc = "write" /\ c.old = b /\ c.new = new /\ c.status = rec.status /\ c.date = rec.date
      BY <1>1, AppliedFields
    <3>2. Begin(p, c) /\ new # NoBatch
      BY <2>2, Nothing
    <3> HIDE DEF c
    <3>3. Agrees(c)
      BY <1>1, <1>3, <2>1, <2>2, <3>1, <3>2 DEF Agrees
    <3> QED BY <3>1, <3>2, <3>3
  <2>3. CASE UserAuthored(b) /\ batches[b].cash = rec.cash /\ batches[b].date = rec.date
    <3> DEFINE d == Applied(rec, 0, NoBatch)
               c == [d EXCEPT !.kept = b]
    <3>1. /\ d \in Session /\ d.pc = "write" /\ d.old = 0 /\ d.new = NoBatch
          /\ d.status = rec.status /\ d.date = rec.date
      BY AppliedFields
    <3>2. Begin(p, c)
      BY <2>1, <2>3 DEF Revision
    <3> HIDE DEF d
    <3>3. /\ c.pc = "write" /\ c.old = 0 /\ c.new = NoBatch /\ c.status = rec.status
          /\ c.date = rec.date /\ c.kept = b
      BY <3>1 DEF Session
    <3> HIDE DEF c
    <3>4. Agrees(c)
      BY <1>1, <1>3, <2>3, <3>3 DEF Agrees
    <3> QED BY <3>2, <3>3, <3>4
  <2>4. CASE UserAuthored(b) /\ batches[b].cash = rec.cash /\ batches[b].date # rec.date
    <3> DEFINE new == [batches[b] EXCEPT !.date = rec.date, !.edited = TRUE]
    <3>1. new \in Batch /\ new.date = rec.date
      BY <1>1, <1>3 DEF Batch
    <3>2. Begin(p, Applied(rec, b, new))
      BY <2>1, <2>4 DEF Revision
    <3> HIDE DEF new
    <3> QED BY <2>2, <3>1, <3>2
  <2>5. CASE ~(UserAuthored(b) /\ batches[b].cash = rec.cash)
    <3>1. Begin(p, Applied(rec, b, Flat(rec)))
      BY <2>1, <2>5 DEF Revision
    <3> QED BY <1>3, <2>2, <3>1
  <2> QED BY <2>3, <2>4, <2>5
<1>6. ASSUME NEW b \in DOMAIN batches, SyncVoid(p, b) \/ ManualVoid(p, b) \/ ReverseBatch(p, b)
      PROVE  \E c : Begin(p, c) /\ c.pc = "write" /\ Agrees(c)
  <2> DEFINE d == Correction(b, NoBatch)
  <2>1. d \in Session /\ d.pc = "write" /\ d.old = b /\ d.new = NoBatch
    BY <1>1, CorrectionFields
  <2>2. /\ Live(b)
        /\ \/ Begin(p, [d EXCEPT !.status = "voided", !.sync = TRUE])
           \/ Begin(p, [d EXCEPT !.status = "voided", !.locking = TRUE])
           \/ Begin(p, [d EXCEPT !.status = "voided"])
    BY <1>6 DEF SyncVoid, ManualVoid, ReverseBatch, Corrects
  <2> HIDE DEF d
  <2>3. ASSUME NEW c, c.pc = "write", c.old = b, c.new = NoBatch, c.status = "voided"
        PROVE  c.pc = "write" /\ Agrees(c)
    BY <1>1, <2>2, <2>3 DEF Agrees
  <2>4. ASSUME NEW c, \/ c = [d EXCEPT !.status = "voided", !.sync = TRUE]
                      \/ c = [d EXCEPT !.status = "voided", !.locking = TRUE]
                      \/ c = [d EXCEPT !.status = "voided"]
        PROVE  c.pc = "write" /\ c.old = b /\ c.new = NoBatch /\ c.status = "voided"
    BY <2>1, <2>4 DEF Session
  <2> QED BY <2>2, <2>3, <2>4
<1>7. ASSUME NEW rec \in Record, NEW shape \in Shapes \ {"flat"}, ManualTransaction(p, rec, shape)
      PROVE  \E c : Begin(p, c) /\ c.pc = "write" /\ Agrees(c)
  <2> DEFINE new == [Flat(rec) EXCEPT !.shape = shape]
             d == Applied(rec, 0, new)
             c == [d EXCEPT !.sync = FALSE]
  <2>1. Begin(p, c)
    BY <1>7 DEF ManualTransaction
  <2>2. new \in Batch /\ new.date = rec.date
    BY <1>3 DEF Batch
  <2>3. new # NoBatch
    BY <2>2, Nothing
  <2> HIDE DEF new
  <2>4. d \in Session /\ d.pc = "write" /\ d.old = 0 /\ d.new = new /\ d.status = rec.status /\ d.date = rec.date
    BY <2>2, AppliedFields
  <2> HIDE DEF d
  <2>5. c.pc = "write" /\ c.old = 0 /\ c.new = new /\ c.status = rec.status /\ c.date = rec.date
    BY <2>4 DEF Session
  <2> HIDE DEF c
  <2>6. Agrees(c)
    BY <1>3, <2>2, <2>3, <2>5 DEF Agrees
  <2> QED BY <2>1, <2>5, <2>6
<1>8. ASSUME NEW b \in DOMAIN batches, NEW shape \in Shapes \ {"flat"}, SetSplits(p, b, shape)
      PROVE  \E c : Begin(p, c) /\ c.pc = "write" /\ Agrees(c)
  <2> DEFINE new == [batches[b] EXCEPT !.shape = shape, !.edited = TRUE]
             d == Correction(b, new)
             c == [d EXCEPT !.locking = TRUE]
  <2>1. Begin(p, c) /\ Live(b)
    BY <1>8 DEF SetSplits, Corrects
  <2>2. new \in Batch /\ new.date = batches[b].date
    BY <1>1 DEF Batch
  <2>3. new # NoBatch
    BY <2>2, Nothing
  <2> HIDE DEF new
  <2>4. d \in Session /\ d.pc = "write" /\ d.old = b /\ d.new = new /\ d.status = "keep" /\ d.date = NoDate
    BY <1>1, <2>2, CorrectionFields
  <2> HIDE DEF d
  <2>5. c.pc = "write" /\ c.old = b /\ c.new = new /\ c.status = "keep" /\ c.date = NoDate
    BY <2>4 DEF Session
  <2> HIDE DEF c
  <2>6. Agrees(c)
    BY <1>1, <2>1, <2>2, <2>3, <2>5 DEF Agrees
  <2> QED BY <2>1, <2>5, <2>6
<1>9. ASSUME NEW b \in DOMAIN batches, NEW date \in Dates, SetDate(p, b, date)
      PROVE  \E c : Begin(p, c) /\ c.pc = "write" /\ Agrees(c)
  <2> DEFINE new == [batches[b] EXCEPT !.date = date, !.edited = FALSE]
             d == Correction(b, new)
             c == [d EXCEPT !.date = date, !.locking = TRUE]
  <2>1. Begin(p, c) /\ Live(b)
    BY <1>9 DEF SetDate, Corrects
  <2>2. new \in Batch /\ new.date = date
    BY <1>1 DEF Batch
  <2>3. new # NoBatch /\ date # NoDate
    BY <2>2, Nothing
  <2> HIDE DEF new
  <2>4. d \in Session /\ d.pc = "write" /\ d.old = b /\ d.new = new /\ d.status = "keep"
    BY <1>1, <2>2, CorrectionFields
  <2> HIDE DEF d
  <2>5. c.pc = "write" /\ c.old = b /\ c.new = new /\ c.status = "keep" /\ c.date = date
    BY <2>4 DEF Session
  <2> HIDE DEF c
  <2>6. Agrees(c)
    BY <1>1, <2>1, <2>2, <2>3, <2>5 DEF Agrees
  <2> QED BY <2>1, <2>5, <2>6
<1> QED
  BY <1>0, <1>4, <1>5, <1>6, <1>7, <1>8, <1>9 DEF Sync, Member

(* What is in flight refers to batches that stay as they are. *)
LEMMA BatchesStay ==
  ASSUME IInv, RevsKnown, [Next]_vars
  PROVE  \A b \in DOMAIN batches : b \in DOMAIN batches' /\ batches'[b] = batches[b]
<1>1. ASSUME NEW p \in Procs, Commit(p)
      PROVE  \A b \in DOMAIN batches : b \in DOMAIN batches' /\ batches'[b] = batches[b]
  BY <1>1, CommitGrows
<1> QED BY <1>1, LedgerStays

LEMMA AgreeStep ==
  ASSUME IInv, RevsKnown, CommandsAgree, [Next]_vars
  PROVE  CommandsAgree'
<1> SUFFICES ASSUME NEW p \in Procs, Busy(proc'[p])
             PROVE  Agrees(proc[p])'
  BY DEF CommandsAgree
<1>1. CASE Sync(p) \/ Member(p)
  <2>1. Agrees(proc'[p]) /\ UNCHANGED batches
    BY <1>1, AgreeBegins DEF ledger
  <2> QED BY <2>1 DEF Agrees
<1>2. CASE ~(Sync(p) \/ Member(p))
  <2>1. /\ Busy(proc[p])
        /\ proc'[p].old = proc[p].old /\ proc'[p].new = proc[p].new
        /\ proc'[p].status = proc[p].status /\ proc'[p].date = proc[p].date
        /\ proc'[p].kept = proc[p].kept
    BY <1>2, SessionMoves
  <2>2. Agrees(proc[p]) /\ (proc[p].old # 0 => proc[p].old \in DOMAIN batches)
    BY <2>1 DEF CommandsAgree, IInv, Commands, Wanted
  <2>3. \A b \in DOMAIN batches : b \in DOMAIN batches' /\ batches'[b] = batches[b]
    BY BatchesStay
  <2> QED BY <2>1, <2>2, <2>3 DEF Agrees
<1> QED BY <1>1, <1>2

LEMMA RowStep ==
  ASSUME IInv, RevsKnown, CommandsAgree, RowMatchesJournal, [Next]_vars,
         ~ \E p \in Procs : StaleTouch(p)
  PROVE  RowMatchesJournal'
<1>1. CASE ~ \E p \in Procs : Commit(p)
  BY <1>1, LedgerStays DEF RowMatchesJournal, LiveSet, Live, Revised
<1>2. ASSUME NEW p \in Procs, Commit(p) PROVE RowMatchesJournal'
  <2> DEFINE c == proc[p]
             n == Len(batches)
             old == c.old
             new == c.new
  <2>1. /\ Agrees(c) /\ Wanted(c) /\ (Creates(c) => batches = <<>>)
        /\ c \in Session /\ row' = RowAfter(c)
    BY <1>2 DEF CommandsAgree, IInv, TypeOK, Commands, Commit, Busy
  <2>2. /\ row'.status = IF c.status = "keep" THEN row.status ELSE c.status
        /\ row'.date = IF c.date = NoDate THEN row.date ELSE c.date
    BY <2>1 DEF RowAfter, IInv, TypeOK
  <2>3. /\ n \in Nat /\ LiveSet \subseteq 1 .. n
        /\ \A b \in 1 .. n : batches'[b] = batches[b]
    BY <1>2, CommitExact DEF LiveSet
  <2>4. c.status \in {"keep", "pending", "posted", "voided"}
    BY <2>1 DEF Session
  <2>5. old # 0 => /\ LiveSet = {old} /\ row.status \in {"pending", "posted"}
                   /\ batches[old].date = row.date
    BY <1>2, CommitExact DEF IInv, OneLive, RowMatchesJournal
  <2>6. old = 0 => c.status # "keep"
    BY <2>1 DEF Wanted
  <2>7. CASE old = 0 /\ new = NoBatch
    <3>1. LiveSet' = LiveSet /\ batches' = batches
      BY <1>2, <2>7, CommitExact
    <3>2. /\ c.date # NoDate /\ c.status \in {"pending", "posted"}
          /\ c.kept # 0 /\ batches[c.kept].date = c.date
      BY <2>1, <2>7 DEF Agrees, Wanted
    <3>3. Live(c.kept)
      <4>1. proc[p].pc = "commit" /\ proc'[p] = Idle
        BY <1>2 DEF Commit, IInv, TypeOK
      <4> QED BY <3>2, <4>1 DEF StaleTouch
    <3>4. LiveSet = {c.kept}
      BY <3>3 DEF IInv, OneLive, LiveSet, Live
    <3> HIDE DEF c
    <3> QED BY <2>2, <3>1, <3>2, <3>4 DEF RowMatchesJournal
  <2>8. CASE old = 0 /\ new # NoBatch
    <3>1. LiveSet' = LiveSet \cup {n + 1} /\ batches'[n + 1] = new
      BY <1>2, <2>8, CommitExact
    <3>2. LiveSet = {}
      BY <2>1, <2>8 DEF Creates, LiveSet
    <3>3. c.status # "voided" /\ new.date = row'.date
      BY <2>1, <2>2, <2>8 DEF Agrees
    <3> HIDE DEF c, n, new, old
    <3> QED BY <2>2, <2>4, <2>6, <2>8, <3>1, <3>2, <3>3 DEF RowMatchesJournal
  <2>9. CASE old # 0 /\ new = NoBatch
    <3>1. LiveSet' = LiveSet \ {old}
      BY <1>2, <2>9, CommitExact
    <3>2. c.status = "voided"
      BY <2>1, <2>9 DEF Agrees
    <3> HIDE DEF c, n, new, old
    <3> QED BY <2>2, <2>5, <2>9, <3>1, <3>2 DEF RowMatchesJournal
  <2>10. CASE old # 0 /\ new # NoBatch
    <3>1. LiveSet' = (LiveSet \ {old}) \cup {n + 2} /\ batches'[n + 2] = new
      BY <1>2, <2>10, CommitExact
    <3>2. c.status # "voided" /\ new.date = row'.date
      BY <2>1, <2>2, <2>5, <2>10 DEF Agrees
    <3> HIDE DEF c, n, new, old
    <3> QED BY <2>2, <2>4, <2>5, <2>10, <3>1, <3>2 DEF RowMatchesJournal
  <2> QED BY <2>7, <2>8, <2>9, <2>10
<1> QED BY <1>1, <1>2

(* Row and journal agree about whether the transaction stands, and on which     *)
(* date, until a revise that keeps the batch it read commits after another       *)
(* command has replaced or reversed that batch; no other command, however        *)
(* sessions interleave, takes them apart.                                         *)
THEOREM RowFollows == Spec => RowFollowsJournal
<1>1. Init => RevsKnown /\ CommandsAgree
  BY IdleTyped DEF Init, RevsKnown, CommandsAgree
<1>2. IInv /\ RevsKnown /\ CommandsAgree /\ [Next]_vars => CommandsAgree'
  BY AgreeStep
<1>3. IInv /\ RevsKnown /\ CommandsAgree /\ [Next]_vars
        => [RowMatchesJournal => RowMatchesJournal' \/ \E p \in Procs : StaleTouch(p)]_vars
  BY RowStep
<1> QED
  BY <1>1, <1>2, <1>3, IInvAlways, RevsStep, PTL DEF Spec, RowFollowsJournal

-----------------------------------------------------------------------------
(* Closed periods *)

(* What a command adds bears the dates it is checked for. *)
LEMMA PostingsDated ==
  ASSUME IInv, RevsKnown, NEW p \in Procs, Commit(p), NEW b \in DOMAIN batches' \ DOMAIN batches
  PROVE  batches'[b].date \in PostingDates(proc[p])
<1> DEFINE c == proc[p]
           n == Len(batches)
<1>1. n \in Nat /\ DOMAIN batches = 1 .. n
  BY CommitExact
<1>2. CASE c.old = 0 /\ c.new = NoBatch
  BY <1>2, CommitExact
<1>3. CASE c.old = 0 /\ c.new # NoBatch
  <2>1. DOMAIN batches' = 1 .. n + 1 /\ batches'[n + 1] = c.new
    BY <1>3, CommitExact
  <2>2. b = n + 1
    BY <1>1, <2>1
  <2> QED BY <1>3, <2>1, <2>2 DEF PostingDates
<1>4. CASE c.old # 0 /\ c.new = NoBatch
  <2>1. DOMAIN batches' = 1 .. n + 1 /\ batches'[n + 1].date = batches[c.old].date
    BY <1>4, CommitExact
  <2>2. b = n + 1
    BY <1>1, <2>1
  <2> QED BY <1>4, <2>1, <2>2 DEF PostingDates
<1>5. CASE c.old # 0 /\ c.new # NoBatch
  <2>1. DOMAIN batches' = 1 .. n + 2 /\ batches'[n + 1].date = batches[c.old].date
        /\ batches'[n + 2] = c.new
    BY <1>5, CommitExact
  <2>2. b = n + 1 \/ b = n + 2
    BY <1>1, <2>1
  <2> QED BY <1>5, <2>1, <2>2 DEF PostingDates
<1> QED BY <1>2, <1>3, <1>4, <1>5

(* Of a close that overlapped no posting: nothing was posted to its period     *)
(* since, and nothing is about to be.                                           *)
Untouched(l) ==
  /\ locks[l].seen <= Len(batches)
  /\ \A b \in locks[l].seen + 1 .. Len(batches) : batches[b].date # locks[l].date
  /\ \A q \in Procs : proc[q].pc = "commit" => locks[l].date \notin PostingDates(proc[q])

Figures ==
  /\ \A p \in Procs : proc[p].pc = "close" => proc[p].seen <= Len(batches)
  /\ \A l \in DOMAIN locks : locks[l].open /\ ~locks[l].overlapped => Untouched(l)

(* A step keeps what stands of one lock. *)
LEMMA UntouchedStep ==
  ASSUME IInv, RevsKnown, [Next]_vars, NEW l \in DOMAIN locks, locks[l].open, Untouched(l),
         l \in DOMAIN locks', locks'[l].date = locks[l].date, locks'[l].seen = locks[l].seen
  PROVE  Untouched(l)'
<1>0. /\ proc \in [Procs -> Session] /\ locks[l] \in Lock
      /\ Len(batches) \in Nat /\ DOMAIN batches = 1 .. Len(batches)
  BY DEF IInv, TypeOK
<1>1. locks[l].seen \in Nat
  BY <1>0 DEF Lock
<1>2. \A b \in DOMAIN batches : b \in DOMAIN batches' /\ batches'[b] = batches[b]
  BY BatchesStay
<1>3. /\ Len(batches') \in Nat /\ DOMAIN batches' = 1 .. Len(batches')
      /\ Len(batches) <= Len(batches')
  <2>1. IInv'
    BY IInvNext
  <2>2. Len(batches') \in Nat /\ DOMAIN batches' = 1 .. Len(batches')
    BY <2>1 DEF IInv, TypeOK
  <2> QED BY <1>0, <1>2, <2>2
<1>4. \A b \in DOMAIN batches' \ DOMAIN batches : batches'[b].date # locks[l].date
  <2>1. ASSUME NEW p \in Procs, Commit(p), NEW b \in DOMAIN batches' \ DOMAIN batches
        PROVE  batches'[b].date # locks[l].date
    <3>1. batches'[b].date \in PostingDates(proc[p])
      BY <2>1, PostingsDated
    <3> QED BY <2>1, <3>1 DEF Untouched, Commit
  <2> QED BY <2>1, LedgerStays
<1>5. ASSUME NEW b \in locks[l].seen + 1 .. Len(batches')
      PROVE  batches'[b].date # locks[l].date
  <2>1. CASE b \in DOMAIN batches
    <3>1. b \in locks[l].seen + 1 .. Len(batches)
      BY <1>0, <1>1, <1>5, <2>1
    <3> QED BY <1>2, <2>1, <3>1 DEF Untouched
  <2>2. CASE b \notin DOMAIN batches
    <3>1. b \in DOMAIN batches'
      BY <1>1, <1>3, <1>5
    <3> QED BY <1>4, <2>2, <3>1
  <2> QED BY <2>1, <2>2
<1>6. ASSUME NEW q \in Procs, proc'[q].pc = "commit"
      PROVE  locks[l].date \notin PostingDates(proc[q])'
  <2>1. Busy(proc'[q]) /\ ~(Sync(q) \/ Member(q))
    BY <1>6, AgreeBegins DEF Busy
  <2>2. /\ Busy(proc[q]) /\ proc'[q].old = proc[q].old /\ proc'[q].new = proc[q].new
        /\ proc'[q].pc = proc[q].pc \/ PeriodsOpen(proc[q])
    BY <2>1, SessionMoves
  <2>3. locks[l].date \notin PostingDates(proc[q])
    <3>1. CASE proc[q].pc = "commit"
      BY <3>1 DEF Untouched
    <3>2. CASE PeriodsOpen(proc[q])
      BY <3>2 DEF PeriodsOpen, Locked
    <3> QED BY <1>6, <2>2, <3>1, <3>2
  <2>4. proc[q].old # 0 => proc[q].old \in DOMAIN batches
    BY <2>2 DEF IInv, Commands, Wanted
  <2> QED BY <1>2, <2>2, <2>3, <2>4 DEF PostingDates
<1>7. locks[l].seen <= Len(batches')
  BY <1>0, <1>1, <1>3 DEF Untouched
<1> QED BY <1>5, <1>6, <1>7 DEF Untouched

LEMMA FiguresStep ==
  ASSUME IInv, RevsKnown, Figures, [Next]_vars
  PROVE  Figures'
<1>0. /\ proc \in [Procs -> Session] /\ locks \in Seq(Lock)
      /\ Len(batches) \in Nat /\ \A l \in DOMAIN locks : locks[l] \in Lock
  BY DEF IInv, TypeOK
<1>1. Len(batches') \in Nat /\ Len(batches) <= Len(batches')
  <2>1. IInv'
    BY IInvNext
  <2>2. Len(batches') \in Nat /\ DOMAIN batches' = 1 .. Len(batches')
    BY <2>1 DEF IInv, TypeOK
  <2>3. \A b \in DOMAIN batches : b \in DOMAIN batches'
    BY BatchesStay
  <2>4. DOMAIN batches = 1 .. Len(batches)
    BY DEF IInv, TypeOK
  <2> QED BY <1>0, <2>2, <2>3, <2>4
<1>2. ASSUME NEW p \in Procs, CloseCommit(p) PROVE Figures'
  <2> DEFINE lock == [date |-> proc[p].date, seen |-> proc[p].seen,
                      overlapped |-> Overlapped(proc[p].date, proc[p].seen), open |-> TRUE]
  <2>1. /\ proc[p].pc = "close" /\ proc' = [proc EXCEPT ![p] = Idle]
        /\ locks' = Append(locks, lock) /\ batches' = batches
    BY <1>2 DEF CloseCommit, ledger
  <2>2. \A q \in Procs : proc'[q] = Idle \/ proc'[q] = proc[q]
    BY <1>0, <2>1
  <2>3. \A l \in DOMAIN locks' : locks'[l] = lock \/ (l \in DOMAIN locks /\ locks'[l] = locks[l])
    BY <1>0, <2>1
  <2>4. /\ lock.date = proc[p].date /\ lock.seen = proc[p].seen
        /\ lock.overlapped = Overlapped(proc[p].date, proc[p].seen)
    OBVIOUS
  <2> HIDE DEF lock
  <2>5. ASSUME NEW l \in DOMAIN locks', locks'[l] = lock, ~lock.overlapped
        PROVE  Untouched(l)'
    <3>1. /\ \A b \in lock.seen + 1 .. Len(batches) : batches[b].date # lock.date
          /\ \A q \in Procs : proc[q].pc = "commit" => lock.date \notin PostingDates(proc[q])
      BY <2>4, <2>5 DEF Overlapped
    <3>2. lock.seen <= Len(batches)
      BY <2>1, <2>4 DEF Figures
    <3>3. \A q \in Procs : proc'[q].pc = "commit" => proc'[q] = proc[q]
      BY <2>2, IdleTyped
    <3> QED BY <2>1, <2>5, <3>1, <3>2, <3>3 DEF Untouched, PostingDates
  <2>6. ASSUME NEW l \in DOMAIN locks', l \in DOMAIN locks, locks'[l] = locks[l],
               locks'[l].open, ~locks'[l].overlapped
        PROVE  Untouched(l)'
    BY <2>6, UntouchedStep DEF Figures
  <2>7. \A q \in Procs : proc'[q].pc = "close" => proc'[q].seen <= Len(batches')
    BY <2>1, <2>2, IdleTyped DEF Figures
  <2> QED BY <2>3, <2>5, <2>6, <2>7 DEF Figures
<1>3. ASSUME NEW m \in DOMAIN locks, Reopen(m) PROVE Figures'
  <2>1. /\ proc' = proc /\ batches' = batches /\ locks' = [locks EXCEPT ![m].open = FALSE]
    BY <1>3 DEF Reopen, ledger
  <2>2. \A l \in DOMAIN locks' : l \in DOMAIN locks /\ (l # m => locks'[l] = locks[l])
                                /\ (l = m => ~locks'[l].open)
    BY <1>0, <2>1 DEF Lock
  <2>3. ASSUME NEW l \in DOMAIN locks', locks'[l].open, ~locks'[l].overlapped
        PROVE  Untouched(l)'
    BY <2>2, <2>3, UntouchedStep DEF Figures
  <2> QED BY <2>1, <2>3 DEF Figures
<1>4. CASE locks' = locks
  <2>1. ASSUME NEW p \in Procs, proc'[p].pc = "close" PROVE proc'[p].seen <= Len(batches')
    <3>1. CASE proc'[p] = proc[p]
      <4>1. proc[p].seen <= Len(batches) /\ proc[p].seen \in Nat
        BY <1>0, <2>1, <3>1 DEF Figures, Session
      <4> QED BY <1>0, <1>1, <3>1, <4>1
    <3>2. ASSUME NEW d \in Dates, CloseBegin(p, d) PROVE proc'[p].seen <= Len(batches')
      <4> DEFINE c == [Idle EXCEPT !.pc = "close", !.date = d, !.seen = Len(batches)]
      <4>1. c.seen = Len(batches)
        BY DEF Idle
      <4>2. proc' = [proc EXCEPT ![p] = c]
        BY <3>2 DEF CloseBegin
      <4> HIDE DEF c
      <4> QED BY <1>0, <1>1, <4>1, <4>2
    <3>3. ASSUME proc'[p] # proc[p], ~ \E d \in Dates : CloseBegin(p, d) PROVE FALSE
      <4>1. \/ Sync(p) \/ Member(p) \/ Write(p) \/ Commit(p) \/ CloseCommit(p)
        <5>1. ASSUME NEW q \in Procs, q # p, NEW c, proc' = [proc EXCEPT ![q] = c] PROVE FALSE
          BY <1>0, <3>3, <5>1
        <5>2. ASSUME NEW q \in Procs, q # p, Sync(q) \/ Member(q) \/ Write(q) \/ Commit(q) \/ CloseCommit(q)
                                               \/ \E d \in Dates : CloseBegin(q, d)
              PROVE  \E c : proc' = [proc EXCEPT ![q] = c]
          BY <5>2, Zenon
          DEF Sync, Member, SyncCreate, SyncRevise, SyncVoid, ManualTransaction, SetSplits, SetDate,
              ManualVoid, ReverseBatch, Begin, Write, Commit, CloseBegin, CloseCommit
        <5> QED BY <3>3, <5>1, <5>2 DEF Next, Reopen, vars
      <4>2. ~(Commit(p) \/ CloseCommit(p))
        BY <1>0, <2>1, IdleTyped DEF Commit, CloseCommit
      <4>3. ~(Sync(p) \/ Member(p))
        BY <2>1, AgreeBegins
      <4>4. ~Write(p)
        <5>1. Write(p) => proc'[p] = Idle \/ proc'[p] = [proc[p] EXCEPT !.pc = "commit"]
          BY <1>0, Zenon DEF Write
        <5>2. [proc[p] EXCEPT !.pc = "commit"].pc = "commit"
          BY <1>0 DEF Session
        <5> QED BY <2>1, <5>1, <5>2, IdleTyped
      <4> QED BY <4>1, <4>2, <4>3, <4>4
    <3> QED BY <3>1, <3>2, <3>3
  <2>2. ASSUME NEW l \in DOMAIN locks', locks'[l].open, ~locks'[l].overlapped
        PROVE  Untouched(l)'
    BY <1>4, <2>2, UntouchedStep DEF Figures
  <2> QED BY <2>1, <2>2 DEF Figures
<1> QED
  BY <1>2, <1>3, <1>4
  DEF Next, Sync, Member, SyncCreate, SyncRevise, SyncVoid, ManualTransaction, SetSplits, SetDate,
      ManualVoid, ReverseBatch, Begin, Write, Commit, CloseBegin, vars

LEMMA FiguresStand == IInv /\ Figures => ClosedFigureStands
<1> SUFFICES ASSUME IInv, Figures, NEW l \in DOMAIN locks, locks[l].open, ~locks[l].overlapped,
                    \A d \in Dates : locks[l].date <= d
             PROVE  Balance(locks[l].date, Len(batches)) = Balance(locks[l].date, locks[l].seen)
  BY DEF ClosedFigureStands
<1> DEFINE day == locks[l].date
           at(n) == {b \in 1 .. n : batches[b].date <= day}
<1>1. locks[l] \in Lock /\ Len(batches) \in Nat /\ \A b \in 1 .. Len(batches) : batches[b] \in Batch
  BY DEF IInv, TypeOK
<1>2. /\ locks[l].seen \in Nat /\ day \in Nat
      /\ \A b \in 1 .. Len(batches) : batches[b].date \in Dates /\ batches[b].date \in Nat
  BY <1>1, JournalAssumption DEF Lock, Batch
<1>3. /\ locks[l].seen <= Len(batches)
      /\ \A b \in locks[l].seen + 1 .. Len(batches) : batches[b].date # day
  BY DEF Figures, Untouched
<1>4. ASSUME NEW b \in locks[l].seen + 1 .. Len(batches) PROVE ~(batches[b].date <= day)
  <2>1. b \in 1 .. Len(batches)
    BY <1>1, <1>2
  <2>2. day <= batches[b].date /\ batches[b].date \in Nat /\ batches[b].date # day
    BY <1>2, <1>3, <2>1
  <2>3. ASSUME NEW d \in Nat, NEW e \in Nat, d <= e, e # d PROVE ~(e <= d)
    BY <2>3
  <2> HIDE DEF day
  <2> QED BY <1>2, <2>2, <2>3
<1>5. at(Len(batches)) = at(locks[l].seen)
  <2>1. \A b : b \in 1 .. Len(batches) => b \in 1 .. locks[l].seen \/ b \in locks[l].seen + 1 .. Len(batches)
    BY <1>1, <1>2
  <2>2. \A b : b \in 1 .. locks[l].seen => b \in 1 .. Len(batches)
    BY <1>1, <1>2, <1>3
  <2> QED BY <1>4, <2>1, <2>2
<1> QED
  BY <1>5 DEF Balance

(* However sessions interleave, the balance a close of the first period recorded *)
(* stands while the period is locked, unless a posting to that period was under   *)
(* way when the balance was read or the lock committed.                            *)
THEOREM FigureStands == Spec => []ClosedFigureStands
<1>1. Init => RevsKnown /\ Figures
  BY IdleTyped DEF Init, RevsKnown, Figures
<1>2. IInv /\ RevsKnown /\ Figures /\ [Next]_vars => Figures'
  BY FiguresStep
<1> QED
  BY <1>1, <1>2, IInvAlways, RevsStep, FiguresStand, PTL DEF Spec
=============================================================================
