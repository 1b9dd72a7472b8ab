------------------------------ MODULE Journal ------------------------------
(***************************************************************************)
(* One canonical transaction and its journal under concurrent database     *)
(* transactions at READ COMMITTED: the sync worker that creates, revises   *)
(* and voids it, members who split, re-date, reverse or void it, and the   *)
(* statement close that locks periods.                                     *)
(*                                                                         *)
(* A command is a process in three steps.  It begins by reading what its   *)
(* procedure reads; it writes, where it waits for whoever has locked the   *)
(* row or written it, and the triggers and the unique index check it; and  *)
(* it commits, which is when others see it.  A command that fails changes  *)
(* nothing.                                                                *)
(***************************************************************************)
EXTENDS Integers, Sequences, FiniteSets, FiniteSetsExt

CONSTANTS
  Procs,       \* database sessions
  Statuses,    \* what the provider may say of it: "pending", "posted"
  Dates,       \* effective dates, each a statement period of its own
  Amounts,     \* amounts of the account's posting
  MaxBatches,  \* bound: journal batches before a command begins
  MaxLocks     \* bound: statement closes

ASSUME JournalAssumption ==
  /\ Statuses \subseteq {"pending", "posted"}
  /\ Dates \subseteq Nat \ {0} /\ Amounts \subseteq Int
  /\ MaxBatches \in Nat /\ MaxLocks \in Nat

VARIABLES
  row,      \* the canonical_transactions row
  batches,  \* journal_batches with their postings, append-only
  revs,     \* journal_revisions: original and replacement batch
  record,   \* the record last applied to it: the provider's or the member's own
  proc,     \* the sessions
  locks     \* period_locks: how many batches the recorded balance was read from, and
            \* (a ghost) whether a posting to the period was under way meanwhile

ledger == <<row, batches, revs, record>>
vars == <<ledger, proc, locks>>

-----------------------------------------------------------------------------
(* A batch posts cash to the account, and to Uncategorized ("flat"), to one   *)
(* leg a member chose, or to several.  edited: the revision that made it says *)
(* 'splits edited'.                                                            *)
Shapes == {"flat", "leg", "split"}
Batch  == [date : Dates, cash : Amounts, shape : Shapes, edited : BOOLEAN, reverses : Nat]
Rev    == [original : Nat, replacement : Nat]
Record == [status : Statuses, cash : Amounts, date : Dates]
Lock   == [date : Dates, seen : Nat, overlapped : BOOLEAN, open : BOOLEAN]

NoBatch  == [shape |-> "none"]
NoRecord == [status |-> "none"]
NoDate   == 0

(* What a command will write: the batch it reverses and the one it adds, the *)
(* new status and date of the row, the record it applies; or the batch it     *)
(* read and keeps.                                                             *)
Idle == [pc |-> "idle", old |-> 0, new |-> NoBatch, kept |-> 0, status |-> "keep",
         date |-> NoDate, record |-> NoRecord, sync |-> FALSE, locking |-> FALSE, seen |-> 0]

Session == [pc : {"idle", "write", "commit", "close"}, old : Nat, new : Batch \cup {NoBatch},
            kept : Nat, status : {"keep", "pending", "posted", "voided"},
            date : Dates \cup {NoDate}, record : Record \cup {NoRecord}, sync : BOOLEAN,
            locking : BOOLEAN, seen : Nat]

Init ==
  /\ row = [status |-> "none", date |-> NoDate, source |-> "sync"]
  /\ batches = <<>> /\ revs = {} /\ record = NoRecord
  /\ proc = [p \in Procs |-> Idle]
  /\ locks = <<>>

TypeOK ==
  /\ row \in [status : {"none", "pending", "posted", "voided"}, date : Dates \cup {NoDate},
              source : {"sync", "manual"}]
  /\ row.date = NoDate <=> row.status = "none"
  /\ batches \in Seq(Batch)
  /\ revs \subseteq Rev
  /\ record \in Record \cup {NoRecord}
  /\ proc \in [Procs -> Session]
  /\ locks \in Seq(Lock)

-----------------------------------------------------------------------------
Revised(b) == \E r \in revs : r.original = b
Live(b) == b \in DOMAIN batches /\ batches[b].reverses = 0 /\ ~Revised(b)
Locked(d) == \E l \in DOMAIN locks : locks[l].date = d /\ locks[l].open

(* The account's balance at the end of period d, read when n batches exist. *)
Signed(b) == IF batches[b].reverses = 0 THEN batches[b].cash ELSE -batches[b].cash
Balance(d, n) == MapThenSumSet(Signed, {b \in 1 .. n : batches[b].date <= d})

(* keel_worker_apply_action: a composition its rebuild must not lose *)
UserAuthored(b) == batches[b].edited \/ batches[b].shape = "split"

(* Who has locked the row, or has written it and not committed.  Inserting a   *)
(* batch or a source link locks it shared, updating it exclusively: whoever   *)
(* has written has done the second.                                            *)
HoldsRow(q) == proc[q].pc = "commit" \/ (proc[q].locking /\ proc[q].pc = "write")
RowFree == \A q \in Procs : ~HoldsRow(q)

(* The connection's row is locked by the one sync action in progress. *)
NoSync == \A q \in Procs : ~proc[q].sync
NoCommand == \A q \in Procs : proc[q].pc \in {"idle", "close"}

-----------------------------------------------------------------------------
(* Reading: what each procedure reads and decides before it writes. *)

Correction(b, new) == [Idle EXCEPT !.pc = "write", !.old = b, !.new = new]

Begin(p, command) ==
  /\ proc[p].pc = "idle"
  /\ Len(batches) + 2 <= MaxBatches
  /\ proc' = [proc EXCEPT ![p] = command]
  /\ UNCHANGED <<ledger, locks>>

Applied(rec, b, new) ==
  [Correction(b, new) EXCEPT !.status = rec.status, !.date = rec.date, !.record = rec,
                             !.sync = TRUE]

Flat(rec) == [date |-> rec.date, cash |-> rec.cash, shape |-> "flat", edited |-> FALSE,
              reverses |-> 0]

(* keel_worker_apply_action, create: one row for each economic key *)
SyncCreate(p, rec) ==
  /\ NoCommand /\ row.status = "none"
  /\ Begin(p, Applied(rec, 0, Flat(rec)))

(* Mutant: a revision always rebuilds the pair of postings. *)
RevisionRebuilds(b, rec) == Applied(rec, b, Flat(rec))

(* Mutant: a member's composition is kept whatever the amount. *)
RevisionKeepsAmount(b, rec) ==
  IF UserAuthored(b) THEN Applied(rec, b, [batches[b] EXCEPT !.date = rec.date, !.edited = TRUE])
  ELSE Applied(rec, b, Flat(rec))

(* keel_worker_apply_action, revise: a member's composition whose amount stands *)
(* is kept, re-dated when the date moved; anything else is rebuilt.             *)
Revision(b, rec) ==
  IF UserAuthored(b) /\ batches[b].cash = rec.cash
    THEN IF batches[b].date = rec.date
           THEN [Applied(rec, 0, NoBatch) EXCEPT !.kept = b]
           ELSE Applied(rec, b, [batches[b] EXCEPT !.date = rec.date, !.edited = TRUE])
    ELSE Applied(rec, b, Flat(rec))

SyncRevise(p, b, rec) ==
  /\ NoSync /\ row.source = "sync"
  /\ Live(b)
  /\ Begin(p, Revision(b, rec))

(* keel_worker_apply_action, void *)
SyncVoid(p, b) ==
  /\ NoSync /\ row.source = "sync"
  /\ Live(b)
  /\ Begin(p, [Correction(b, NoBatch) EXCEPT !.status = "voided", !.sync = TRUE])

(* keel_cmd_manual_transaction *)
ManualTransaction(p, rec, shape) ==
  /\ NoCommand /\ row.status = "none" /\ ~Locked(rec.date)
  /\ Begin(p, [Applied(rec, 0, [Flat(rec) EXCEPT !.shape = shape]) EXCEPT !.sync = FALSE])

(* A member's correction locks the row first, then reads the live batch. *)
Corrects(b) == RowFree /\ row.status \in {"pending", "posted"} /\ Live(b)

(* keel_cmd_set_splits *)
SetSplits(p, b, shape) ==
  /\ Corrects(b) /\ ~Locked(batches[b].date)
  /\ Begin(p, [Correction(b, [batches[b] EXCEPT !.shape = shape, !.edited = TRUE])
                 EXCEPT !.locking = TRUE])

(* keel_cmd_set_date *)
SetDate(p, b, d) ==
  /\ Corrects(b) /\ d # row.date
  /\ ~Locked(batches[b].date) /\ ~Locked(d)
  /\ Begin(p, [Correction(b, [batches[b] EXCEPT !.date = d, !.edited = FALSE])
                 EXCEPT !.date = d, !.locking = TRUE])

(* keel_cmd_manual_void *)
ManualVoid(p, b) ==
  /\ Corrects(b) /\ row.source = "manual"
  /\ Begin(p, [Correction(b, NoBatch) EXCEPT !.status = "voided", !.locking = TRUE])

(* keel_cmd_reverse_batch: reads the batch without a lock *)
ReverseBatch(p, b) ==
  /\ Live(b)
  /\ Begin(p, [Correction(b, NoBatch) EXCEPT !.status = "voided"])

-----------------------------------------------------------------------------
(* Writing and committing, the same for every command. *)

(* Mutant: the reversal's date is not checked. *)
PostingDatesOfNew(s) == IF s.new = NoBatch THEN {} ELSE {s.new.date}

PostingDates(s) == (IF s.old = 0 THEN {} ELSE {batches[s.old].date})
                     \cup (IF s.new = NoBatch THEN {} ELSE {s.new.date})

(* Mutant: the unique index of revisions is missing. *)
CorrectsOnceAlways(s) == TRUE

(* keel_check_period_lock, on every posting *)
PeriodsOpen(s) == \A d \in PostingDates(s) : ~Locked(d)

(* journal_revisions_original_once *)
CorrectsOnce(s) == s.old # 0 => ~Revised(s.old)

(* A session that has not locked the row waits until nobody holds it. *)
MayWrite(p) == proc[p].locking \/ RowFree

Write(p) ==
  /\ proc[p].pc = "write" /\ MayWrite(p)
  /\ proc' = [proc EXCEPT ![p] = IF PeriodsOpen(@) /\ CorrectsOnce(@)
                                   THEN [@ EXCEPT !.pc = "commit"] ELSE Idle]
  /\ UNCHANGED <<ledger, locks>>

(* Mutant: the reversal is dated as the replacement. *)
ReversalRedated(s) ==
  IF s.old = 0 THEN <<>>
  ELSE <<[batches[s.old] EXCEPT !.reverses = s.old, !.edited = FALSE,
                                !.date = IF s.new = NoBatch THEN @ ELSE s.new.date]>>

Reversal(s) == IF s.old = 0 THEN <<>>
               ELSE <<[batches[s.old] EXCEPT !.reverses = s.old, !.edited = FALSE]>>
Addition(s) == IF s.new = NoBatch THEN <<>> ELSE <<s.new>>

RevsAfter(s, n) ==
  IF s.old = 0 THEN revs
  ELSE revs \cup {[original |-> s.old, replacement |-> IF s.new = NoBatch THEN 0 ELSE n]}

(* Mutant: a re-dating leaves the row's date. *)
RowAfterKeepsDate(s) ==
  [row EXCEPT !.status = IF s.status = "keep" THEN @ ELSE s.status,
              !.date   = IF s.date = NoDate \/ s.locking THEN @ ELSE s.date,
              !.source = IF row.status = "none" /\ ~s.sync THEN "manual" ELSE @]

RowAfter(s) ==
  [row EXCEPT !.status = IF s.status = "keep" THEN @ ELSE s.status,
              !.date   = IF s.date = NoDate THEN @ ELSE s.date,
              !.source = IF row.status = "none" /\ ~s.sync THEN "manual" ELSE @]

Commit(p) ==
  /\ proc[p].pc = "commit"
  /\ batches' = batches \o Reversal(proc[p]) \o Addition(proc[p])
  /\ revs' = RevsAfter(proc[p], Len(batches'))
  /\ row' = RowAfter(proc[p])
  /\ record' = IF proc[p].record = NoRecord THEN record ELSE proc[p].record
  /\ proc' = [proc EXCEPT ![p] = Idle]
  /\ UNCHANGED locks

-----------------------------------------------------------------------------
(* keel_reconciliation_close: reads the balance, then inserts the lock; the    *)
(* one lock it takes is on its statement.                                       *)
CloseBegin(p, d) ==
  /\ proc[p].pc = "idle" /\ Len(locks) < MaxLocks
  /\ proc' = [proc EXCEPT ![p] = [Idle EXCEPT !.pc = "close", !.date = d, !.seen = Len(batches)]]
  /\ UNCHANGED <<ledger, locks>>

(* A posting to period d committed after n batches were read, or is about to. *)
Overlapped(d, n) ==
  \/ \E b \in n + 1 .. Len(batches) : batches[b].date = d
  \/ \E q \in Procs : proc[q].pc = "commit" /\ d \in PostingDates(proc[q])

CloseCommit(p) ==
  /\ proc[p].pc = "close"
  /\ locks' = Append(locks, [date |-> proc[p].date, seen |-> proc[p].seen,
                             overlapped |-> Overlapped(proc[p].date, proc[p].seen),
                             open |-> TRUE])
  /\ proc' = [proc EXCEPT ![p] = Idle]
  /\ UNCHANGED ledger

(* keel_reconciliation_reopen *)
Reopen(l) ==
  /\ locks[l].open
  /\ locks' = [locks EXCEPT ![l].open = FALSE]
  /\ UNCHANGED <<ledger, proc>>

-----------------------------------------------------------------------------
Sync(p) ==
  \/ \E rec \in Record : SyncCreate(p, rec) \/ \E b \in DOMAIN batches : SyncRevise(p, b, rec)
  \/ \E b \in DOMAIN batches : SyncVoid(p, b)

Member(p) ==
  \/ \E rec \in Record, shape \in Shapes \ {"flat"} : ManualTransaction(p, rec, shape)
  \/ \E b \in DOMAIN batches :
       \/ \E shape \in Shapes \ {"flat"} : SetSplits(p, b, shape)
       \/ \E d \in Dates : SetDate(p, b, d)
       \/ ManualVoid(p, b)
       \/ ReverseBatch(p, b)

Next ==
  \/ \E p \in Procs : Sync(p) \/ Member(p) \/ Write(p) \/ Commit(p) \/ CloseCommit(p)
  \/ \E p \in Procs, d \in Dates : CloseBegin(p, d)
  \/ \E l \in DOMAIN locks : Reopen(l)

Spec == Init /\ [][Next]_vars

-----------------------------------------------------------------------------
(* Properties *)

LiveSet == {b \in DOMAIN batches : Live(b)}

(* One session at a time holds the row, and what it is about to correct is a   *)
(* live batch still, however long ago it was read.                              *)
OneWriter ==
  /\ \A p, q \in Procs : HoldsRow(p) /\ HoldsRow(q) => p = q
  /\ \A p \in Procs : proc[p].pc = "commit" /\ proc[p].old # 0 => Live(proc[p].old)

(* However corrections of the worker and of members interleave, at most one   *)
(* batch of the transaction is neither a reversal nor revised.                 *)
OneLive == \A a, b \in LiveSet : a = b

(* On each date, what all batches and reversals post sums to what the live     *)
(* batch posts there: no correction is half undone or undone twice.             *)
NetIsLive ==
  \A d \in Dates : MapThenSumSet(Signed, {b \in DOMAIN batches : batches[b].date = d})
                     = MapThenSumSet(Signed, {b \in LiveSet : batches[b].date = d})

(* The live batch posts the amount of the record last applied, whoever split   *)
(* or re-dated it since.                                                        *)
SourceAmount == \A b \in LiveSet : batches[b].cash = record.cash

Flattened(shape) ==
  \E r \in revs : /\ r.replacement # 0 /\ batches[r.original].shape = shape
                  /\ batches[r.replacement].shape = "flat"
                  /\ batches[r.replacement].cash = batches[r.original].cash

(* A revision by the worker never replaces a split of several legs by the      *)
(* uncategorized pair while the amount stands.                                  *)
SplitKept == ~Flattened("split")

(* The same of a single leg a member chose.                                    *)
LegKept == ~Flattened("leg")

(* The row says the transaction stands exactly when a live batch does, and     *)
(* bears its date: lists and reports agree.                                     *)
RowMatchesJournal ==
  /\ row.status \in {"pending", "posted"} <=> LiveSet # {}
  /\ \A b \in LiveSet : batches[b].date = row.date

StaleTouch(p) ==
  /\ proc[p].pc = "commit" /\ proc'[p] = Idle
  /\ proc[p].kept # 0 /\ ~Live(proc[p].kept)

(* Row and journal come apart in one way only: a revise that keeps the batch   *)
(* it read, and so waits for no unique index, commits when that batch was       *)
(* replaced or reversed.                                                         *)
RowFollowsJournal ==
  [][RowMatchesJournal => RowMatchesJournal' \/ \E p \in Procs : StaleTouch(p)]_vars

(* No posting lands in a period whose lock is open.                             *)
NoPostingIntoLocked ==
  [][\A b \in DOMAIN batches' \ DOMAIN batches : ~Locked(batches'[b].date)]_vars

(* While the first period is locked, the balance at its end is the figure its  *)
(* reconciliation recorded, whatever sessions had read or begun before it: only *)
(* a posting that was under way between the reading and the lock changes it.    *)
ClosedFigureStands ==
  \A l \in DOMAIN locks :
    locks[l].open /\ ~locks[l].overlapped /\ (\A d \in Dates : locks[l].date <= d)
      => Balance(locks[l].date, Len(batches)) = Balance(locks[l].date, locks[l].seen)

(* A revision that brings no new date leaves the date a member gave.            *)
MemberDateKept ==
  [][record # NoRecord /\ record' # record /\ record'.date = record.date
       => row'.date = row.date]_vars
=============================================================================
