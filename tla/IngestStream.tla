---------------------------- MODULE IngestStream ----------------------------
(***************************************************************************)
(* The planner of packages/ingest over a stream of provider updates: what  *)
(* becomes of a purchase that is first pending under one provider id and   *)
(* then posted under another, when the stream is cut into windows, each    *)
(* window is planned as one batch against the canonical transactions, and  *)
(* an attempt may die after any of its actions.                            *)
(*                                                                         *)
(* One attempt at a time (SyncEngine has the concurrent ones).  A conflict *)
(* of apply keys fails an action as a crash does, and is not told from it. *)
(***************************************************************************)
EXTENDS Naturals, Sequences, FiniteSets, Folds

CONSTANTS
  Ids,        \* provider transaction ids; their order is the sort order of the ids
  None,       \* no id
  PendingOf,  \* pending_transaction_id of each id
  Drained,    \* TRUE: every window reaches has_more = false
  MaxFeed,    \* bound: provider updates
  MaxMods,    \* bound: modifications among them
  MaxCrashes  \* bound: attempts that die

ASSUME IngestAssumption ==
  /\ Ids \subseteq Nat /\ None \notin Ids
  /\ PendingOf \in [Ids -> Ids \cup {None}]
  /\ Drained \in BOOLEAN
  /\ MaxFeed \in Nat /\ MaxMods \in Nat /\ MaxCrashes \in Nat

VARIABLES
  feed,    \* the provider's updates
  cursor,  \* sync_checkpoints.cursor, as a position in feed
  txn,     \* canonical transaction of each economic key, with its latest source record
  link,    \* the transaction a provider id's source record is linked to
  att,     \* the attempt: its window and the actions left to apply
  crashes

vars == <<feed, cursor, txn, link, att, crashes>>

-----------------------------------------------------------------------------
(* An economic key is made from the provider id that created it. *)

Statuses == {"none", "pending", "posted", "voided"}
Kinds    == {"create", "revise", "void"}
Record   == [status : Statuses, id : Ids \cup {None}, at : Nat]
Action   == [kind : Kinds, key : Ids, id : Ids, status : Statuses, at : Nat]
Idle     == [pc |-> "idle", upto |-> 0, todo |-> <<>>]

Init ==
  /\ feed = <<>> /\ cursor = 0
  /\ txn = [k \in Ids |-> [status |-> "none", id |-> None, at |-> 0]]
  /\ link = [t \in Ids |-> None]
  /\ att = Idle
  /\ crashes = 0

TypeOK ==
  /\ feed \in Seq([id : Ids, op : {"add", "mod", "rem"}])
  /\ cursor \in 0 .. Len(feed)
  /\ txn \in [Ids -> Record]
  /\ link \in [Ids -> Ids \cup {None}]
  /\ att.pc \in {"idle", "plan", "apply"} /\ att.upto \in 0 .. Len(feed)
  /\ att.todo \in Seq(Action)
  /\ crashes \in 0 .. MaxCrashes

-----------------------------------------------------------------------------
(* The provider. *)

Happened(op, t, lo, hi) == \E i \in lo + 1 .. hi : feed[i] = [id |-> t, op |-> op]
Listed(t, n) == Happened("add", t, 0, n) /\ ~Happened("rem", t, 0, n)
Changes(t, n) == {i \in 1 .. n : feed[i].id = t /\ feed[i].op # "rem"}
LastChange(t, n) == CHOOSE i \in Changes(t, n) : \A j \in Changes(t, n) : j <= i
IsPending(t) == \E q \in Ids : PendingOf[q] = t

Provide(updates) ==
  /\ Len(feed) + Len(updates) <= MaxFeed
  /\ feed' = feed \o updates
  /\ UNCHANGED <<cursor, txn, link, att, crashes>>

Appears(t) ==
  /\ PendingOf[t] = None /\ ~Happened("add", t, 0, Len(feed))
  /\ Provide(<<[id |-> t, op |-> "add"]>>)

Modified(t) ==
  /\ Listed(t, Len(feed))
  /\ Cardinality({i \in DOMAIN feed : feed[i].op = "mod"}) < MaxMods
  /\ Provide(<<[id |-> t, op |-> "mod"]>>)

Removed(t) ==
  /\ Listed(t, Len(feed))
  /\ Provide(<<[id |-> t, op |-> "rem"]>>)

(* Posting: the pending id is removed and the posted one added, in one update. *)
Posts(q) ==
  /\ PendingOf[q] # None /\ ~Happened("add", q, 0, Len(feed))
  /\ Listed(PendingOf[q], Len(feed))
  /\ LET gone == [id |-> PendingOf[q], op |-> "rem"]
         new  == [id |-> q, op |-> "add"]
     IN Provide(<<gone, new>>) \/ Provide(<<new, gone>>)

(* A window (lo, hi] as the provider delivers it: one event for each id. *)
Event(t, lo, hi) ==
  [id |-> t, ref |-> PendingOf[t],
   kind |-> IF Happened("rem", t, lo, hi) THEN "removed"
            ELSE IF Happened("add", t, lo, hi) THEN "added" ELSE "modified",
   status |-> IF IsPending(t) THEN "pending" ELSE "posted",
   at |-> IF Changes(t, hi) = {} THEN 0 ELSE LastChange(t, hi)]

Touched(lo, hi) == {feed[i].id : i \in lo + 1 .. hi}
Window(lo, hi) == {Event(t, lo, hi) : t \in Touched(lo, hi)}

-----------------------------------------------------------------------------
(* The planner.  A state maps provider ids to views of canonical            *)
(* transactions; a plan is the state it leads to and the actions that are   *)
(* not noops.                                                               *)

ViewOf(e, key) == [key |-> key, id |-> e.id, status |-> e.status, at |-> e.at]

Replace(state, view) ==
  [t \in DOMAIN state |-> IF state[t].key = view.key THEN view ELSE state[t]]
With(state, t, view) == [u \in DOMAIN state \cup {t} |-> IF u = t THEN view ELSE state[u]]

Acting(plan, kind, view, state) ==
  [acts |-> Append(plan.acts, [kind |-> kind, key |-> view.key, id |-> view.id,
                               status |-> view.status, at |-> view.at]),
   state |-> state]

(* Mutant: the posted transaction gets a key of its own. *)
SupersedesNever(state, e) == FALSE

(* The transaction this addition settles: a known one, still pending. *)
Supersedes(state, e) == e.ref \in DOMAIN state /\ state[e.ref].status = "pending"

(* Mutant: a known addition is planned as a modification would be. *)
PlanAddedAgain(plan, e) ==
  LET state == plan.state
      new   == ViewOf(e, e.id)
  IN IF e.id \in DOMAIN state
       THEN Acting(plan, "revise", ViewOf(e, state[e.id].key), state)
       ELSE Acting(plan, "create", new, With(state, e.id, new))

PlanAdded(plan, e) ==
  LET state == plan.state
      next  == ViewOf(e, state[e.ref].key)
      new   == ViewOf(e, e.id)
  IN IF e.id \in DOMAIN state THEN plan
     ELSE IF Supersedes(state, e)
       THEN Acting(plan, "revise", next, With(Replace(state, next), e.id, next))
       ELSE Acting(plan, "create", new, With(state, e.id, new))

(* Mutant: modifications are never planned. *)
PlanModifiedNever(plan, e) == plan

PlanModified(plan, e) ==
  LET prev == plan.state[e.id]
      next == ViewOf(e, prev.key)
  IN IF e.id \notin DOMAIN plan.state THEN plan
     ELSE IF prev.status = "voided" \/ prev.id # e.id \/ prev = next THEN plan
     ELSE Acting(plan, "revise", next, Replace(plan.state, next))

PlanRemoved(plan, e) ==
  LET voided == [plan.state[e.id] EXCEPT !.status = "voided"]
  IN IF e.id \notin DOMAIN plan.state THEN plan
     ELSE IF plan.state[e.id].status = "voided" THEN plan
     ELSE Acting(plan, "void", voided, Replace(plan.state, voided))

PlanEvent(plan, e) ==
  CASE e.kind = "added"    -> PlanAdded(plan, e)
    [] e.kind = "modified" -> PlanModified(plan, e)
    [] e.kind = "removed"  -> PlanRemoved(plan, e)

(* Events of one kind are planned in the order of their ids. *)
LastOf(events) == CHOOSE e \in events : \A f \in events : f.id <= e.id

FoldEvents(plan, events) ==
  MapThenFoldSet(LAMBDA e, p : PlanEvent(p, e), plan, LAMBDA e : e, LAMBDA s : LastOf(s), events)

(* Mutant: no addition is paired, every removal stands alone. *)
PairedNever(events) == {}

(* An addition paired with the removal of the pending id it settles. *)
Paired(events) ==
  {e \in events : /\ e.kind = "added"
                  /\ \E r \in events : r.kind = "removed" /\ r.id = e.ref
                  /\ ~\E f \in events : f.kind = "added" /\ f.ref = e.ref /\ f.id < e.id}

(* Mutant: removals come first, paired or not. *)
ReconcileRemovalsFirst(events, state) ==
  LET removals == {e \in events : e.kind = "removed"}
      plan     == [acts |-> <<>>, state |-> state]
  IN FoldEvents(FoldEvents(plan, removals), events \ removals)

ReconcileBatch(events, state) ==
  LET pairs    == Paired(events)
      adds     == {e \in events : e.kind = "added"} \ pairs
      mods     == {e \in events : e.kind = "modified"}
      removals == {e \in events : e.kind = "removed" /\ \A p \in pairs : p.ref # e.id}
      plan     == [acts |-> <<>>, state |-> state]
  IN FoldEvents(FoldEvents(FoldEvents(FoldEvents(plan, adds), pairs), mods), removals)

-----------------------------------------------------------------------------
(* The attempt. *)

(* keel_worker_lookup_state: the view of an id is its transaction's latest record *)
Lookup(ids) ==
  [t \in {u \in ids : link[u] # None} |-> ViewOf(txn[link[t]], link[t])]

(* A void leaves a tombstone without an amount as latest record. *)
Readable(ids) == \A t \in ids : link[t] # None => txn[link[t]].status # "voided"

PullWindow ==
  /\ att.pc = "idle"
  /\ \E upto \in cursor + 1 .. Len(feed) :
       /\ Drained => upto = Len(feed)
       /\ att' = [pc |-> "plan", upto |-> upto, todo |-> <<>>]
  /\ UNCHANGED <<feed, cursor, txn, link, crashes>>

PlanWindow ==
  /\ att.pc = "plan"
  /\ LET ids == Touched(cursor, att.upto)
     IN att' = IF Readable(ids)
                 THEN [att EXCEPT !.pc = "apply",
                         !.todo = ReconcileBatch(Window(cursor, att.upto), Lookup(ids)).acts]
                 ELSE Idle
  /\ UNCHANGED <<feed, cursor, txn, link, crashes>>

(* keel_worker_apply_action: a create needs a new key, a correction a live batch. *)
ApplyAction ==
  /\ att.pc = "apply" /\ att.todo # <<>>
  /\ LET a    == Head(att.todo)
         live == txn[a.key].status \in {"pending", "posted"}
         ok   == IF a.kind = "create" THEN txn[a.key].status = "none" ELSE live
     IN IF ok
          THEN /\ txn' = [txn EXCEPT ![a.key] = [status |-> a.status, id |-> a.id, at |-> a.at]]
               /\ link' = IF a.kind = "void" THEN link ELSE [link EXCEPT ![a.id] = a.key]
               /\ att' = [att EXCEPT !.todo = Tail(@)]
          ELSE att' = Idle /\ UNCHANGED <<txn, link>>
  /\ UNCHANGED <<feed, cursor, crashes>>

CompleteAttempt ==
  /\ att.pc = "apply" /\ att.todo = <<>>
  /\ cursor' = att.upto
  /\ att' = Idle
  /\ UNCHANGED <<feed, txn, link, crashes>>

Crash ==
  /\ att.pc # "idle" /\ crashes < MaxCrashes
  /\ crashes' = crashes + 1
  /\ att' = Idle
  /\ UNCHANGED <<feed, cursor, txn, link>>

Provider == \E t \in Ids : Appears(t) \/ Modified(t) \/ Removed(t) \/ Posts(t)

Next == Provider \/ PullWindow \/ PlanWindow \/ ApplyAction \/ CompleteAttempt \/ Crash

Spec == Init /\ [][Next]_vars

-----------------------------------------------------------------------------
(* Properties *)

Live == {k \in Ids : txn[k].status \in {"pending", "posted"}}
Shown == {txn[k].id : k \in Live}
Ready == att.pc = "apply" /\ att.todo = <<>>

(* When an attempt is about to move the cursor, the book shows exactly the     *)
(* transactions the provider lists there, whatever earlier attempts applied    *)
(* before they died: reconcileSyncBatch neither drops a posted transaction     *)
(* with the removal of its pending id, nor keeps a transaction that is gone.   *)
MirrorsProvider == Ready => Shown = {t \in Ids : Listed(t, att.upto)}

(* The same, asked only of attempts that catch up with the provider.           *)
CaughtUpMirrors ==
  Ready /\ att.upto = Len(feed) => Shown = {t \in Ids : Listed(t, Len(feed))}

(* At no time, not even between two actions of a batch, does a purchase count  *)
(* twice, once pending and once posted.                                        *)
OneEntryPerPurchase ==
  \A k, j \in Live : PendingOf[txn[k].id] # txn[j].id

(* A posted transaction lives on under the economic key of the pending one it  *)
(* settles, so that what a member attached to it is kept.                      *)
KeyKept ==
  \A q \in Ids : LET p == PendingOf[q]
                 IN p # None /\ link[q] # None => link[p] \in {None, link[q]}

(* A window planned again at any moment of its application leads to exactly    *)
(* the actions the attempt has left: what it applied before dying is neither   *)
(* done a second time nor forgotten.  Where the window holds an applied void   *)
(* the lookup answers null and no second plan is made, so nothing is said.     *)
RetryResumes ==
  att.pc = "apply" =>
    LET ids   == Touched(cursor, att.upto)
        again == ReconcileBatch(Window(cursor, att.upto), Lookup(ids)).acts
    IN Readable(ids) =>
         {again[i] : i \in DOMAIN again} = {att.todo[i] : i \in DOMAIN att.todo}

(* Without crashes, what the book shows of a transaction is the provider's     *)
(* latest word on it, when the cursor moves past it.                           *)
ContentCurrent ==
  Ready /\ crashes = 0 =>
    \A k \in Live : /\ txn[k].at = LastChange(txn[k].id, att.upto)
                    /\ txn[k].status = IF IsPending(txn[k].id) THEN "pending" ELSE "posted"
=============================================================================
