------------------------- MODULE SyncCoverageProofs -------------------------
(***************************************************************************)
(* No transaction of the provider is skipped, no signal of it is lost, and  *)
(* no entry of the book is a ghost unless a run wrote after its lease had    *)
(* passed to another.                                                        *)
(*                                                                         *)
(* Skipping: the inductive invariant joins the windows (the run that may    *)
(* complete starts at the cursor), the plans (what a run still has to do,   *)
(* and the book, cover its window) and the order of the feed.  Ghosts: the  *)
(* plan of the owner and the feed up to the cursor account for the book.    *)
(***************************************************************************)
EXTENDS SyncEngineProofs

-----------------------------------------------------------------------------
(* Frames *)

(* Only an action that its connection's status admits writes the book. *)
LEMMA BookMoves ==
  ASSUME [Next]_vars, book' # book
  PROVE  \E r \in Runs : ApplyAction(r) /\ Applicable(r)
BY DEF Next, Environment, Work, Pull, Promote, ProviderUpdates, RequestConnectionSync,
       CronEnqueueActiveSyncs, ReauthWebhook, DisconnectBegin, DisconnectComplete,
       WebhookRecordDelivery, LeaseExpires, VisibilityTimeout, Drain, Crash, ReadConnection,
       BumpGeneration, RefuseLease, AcquireLease, OpenAttempt, RenewLease, FetchPage,
       FetchMutated, FetchFails, FetchDisabled, ArchivePages, LookupState,
       CreateNormalized, ApplyAction, CompleteAttempt, Complete, EnqueueContinuation,
       AbandonAndRelease, MarkReauth, Settle, dataVars, vars

(* While a connection is not active, no run moves its book or its cursor.     *)
THEOREM FencedOff == Spec => FencedWhileInactive
<1>1. [Next]_vars => [conn.status # "active" => UNCHANGED <<book, cursor>>]_<<book, cursor, conn>>
  <2> SUFFICES ASSUME [Next]_vars, conn.status # "active" PROVE UNCHANGED <<book, cursor>>
    OBVIOUS
  <2>1. book' = book
    BY BookMoves DEF Applicable
  <2>2. cursor' = cursor
    BY CursorMoves DEF CompleteAttempt, HoldsLease, connVars
  <2> QED
    BY <2>1, <2>2
<1> QED
  BY <1>1, PTL DEF Spec, FencedWhileInactive

LEMMA FeedGrows ==
  ASSUME TypeOK, [Next]_vars
  PROVE  /\ Len(feed) \in Nat /\ Len(feed') \in Nat /\ Len(feed) <= Len(feed')
         /\ \A i \in 1 .. Len(feed) : feed'[i] = feed[i]
         /\ feed' # feed => \E t \in Txns, op \in Ops : ProviderUpdates(t, op)
<1>1. feed' = feed \/ \E t \in Txns, op \in Ops : ProviderUpdates(t, op)
  BY WorkSteps
  DEF Next, Environment, RequestConnectionSync, WorkShape,
      CronEnqueueActiveSyncs, ReauthWebhook, DisconnectBegin, DisconnectComplete,
      WebhookRecordDelivery, LeaseExpires, VisibilityTimeout, Drain, Crash, envVars, vars
<1>2. ASSUME NEW t \in Txns, NEW op \in Ops, ProviderUpdates(t, op)
      PROVE  feed' = Append(feed, [txn |-> t, op |-> op])
  BY <1>2 DEF ProviderUpdates
<1>3. feed \in Seq(Update)
  BY DEF TypeOK
<1>4. CASE feed' = feed
  BY <1>3, <1>4
<1>5. CASE feed' # feed
  <2>1. PICK t \in Txns, op \in Ops : ProviderUpdates(t, op)
    BY <1>1, <1>5
  <2> DEFINE x == [txn |-> t, op |-> op]
  <2>2. feed' = Append(feed, x)
    BY <1>2, <2>1
  <2> HIDE DEF x
  <2>3. Len(feed') = Len(feed) + 1 /\ \A i \in 1 .. Len(feed) : feed'[i] = feed[i]
    BY <1>3, <2>2
  <2> QED
    BY <1>3, <2>1, <2>3
<1> QED
  BY <1>4, <1>5

(* What a step does to the runs. *)
LEMMA RunMoves ==
  ASSUME TypeOK, [Next]_vars, run' # run
  PROVE  \E r \in Runs :
           /\ \A q \in Runs \ {r} : run'[q] = run[q]
           /\ feed' = feed
           /\ \/ Work(r)
              \/ run'[r].pc = "idle" /\ UNCHANGED <<conn, cursor, queue, book>>
              \/ /\ run'[r].pc = "read" /\ run'[r].msg \in 1 .. Len(queue)
                 /\ run[r].pc = "idle" /\ ~(conn.owner = r /\ conn.leased)
                 /\ UNCHANGED <<conn, cursor, book>>
<1>1. \/ \E r \in Runs : Work(r) \/ Crash(r)
      \/ \E m \in 1 .. Len(queue), r \in Runs : Drain(r, m)
  BY DEF Next, Environment, ProviderUpdates, RequestConnectionSync,
         CronEnqueueActiveSyncs, ReauthWebhook, DisconnectBegin, DisconnectComplete,
         WebhookRecordDelivery, LeaseExpires, VisibilityTimeout, vars
<1>2. ASSUME NEW r \in Runs, Work(r)
      PROVE  feed' = feed /\ \A q \in Runs \ {r} : run'[q] = run[q]
  BY <1>2, WorkSteps DEF WorkShape
<1>3. ASSUME NEW r \in Runs, Crash(r)
      PROVE  /\ \A q \in Runs \ {r} : run'[q] = run[q]
             /\ run'[r].pc = "idle" /\ UNCHANGED <<conn, cursor, queue, book, feed>>
  <2>1. IdleRun.pc = "idle"
    BY DEF IdleRun, Entering
  <2> QED
    BY <1>3, <2>1, BecomeOf DEF Crash, connVars, dataVars, envVars
<1>4. ASSUME NEW r \in Runs, NEW m \in 1 .. Len(queue), Drain(r, m)
      PROVE  /\ \A q \in Runs \ {r} : run'[q] = run[q]
             /\ run'[r].pc = "read" /\ run'[r].msg = m
             /\ run[r].pc = "idle" /\ ~(conn.owner = r /\ conn.leased)
             /\ UNCHANGED <<conn, cursor, book, feed>>
  <2> DEFINE s == Entering("read", m, queue'[m].reads)
  <2>1. s.pc = "read" /\ s.msg = m
    BY DEF Entering
  <2> HIDE DEF s
  <2> QED
    BY <1>4, <2>1, BecomeOf DEF Drain, s, connVars, dataVars, envVars
<1> QED
  BY <1>1, <1>2, <1>3, <1>4

-----------------------------------------------------------------------------
(* Nothing is skipped *)

(* The provider removes a transaction after it added it. *)
FeedOK ==
  \A i, j \in 1 .. Len(feed) :
    feed[i].txn = feed[j].txn /\ feed[i].op = "add" /\ feed[j].op = "rem" => i < j

LEMMA FeedStep == TypeOK /\ FeedOK /\ [Next]_vars => FeedOK'
<1> SUFFICES ASSUME TypeOK, FeedOK, [Next]_vars PROVE FeedOK'
  OBVIOUS
<1>1. ASSUME NEW t \in Txns, NEW op \in Ops, ProviderUpdates(t, op) PROVE FeedOK'
  <2>1. /\ Len(feed') = Len(feed) + 1 /\ Len(feed) \in Nat
        /\ \A i \in 1 .. Len(feed) : feed'[i] = feed[i]
        /\ feed'[Len(feed) + 1] = [txn |-> t, op |-> op]
    BY <1>1 DEF ProviderUpdates, TypeOK
  <2>2. ASSUME NEW i \in 1 .. Len(feed'), NEW j \in 1 .. Len(feed'),
               feed'[i].txn = feed'[j].txn, feed'[i].op = "add", feed'[j].op = "rem"
        PROVE  i < j
    <3>1. CASE i <= Len(feed) /\ j <= Len(feed)
      BY <2>1, <2>2, <3>1 DEF FeedOK
    <3>2. CASE i <= Len(feed) /\ j > Len(feed)
      BY <2>1, <3>2
    <3>3. CASE i > Len(feed) /\ j <= Len(feed)
      <4>1. feed[j].txn = t /\ feed[j].op = "rem"
        BY <2>1, <2>2, <3>3
      <4>2. Happened("rem", t, 0, Len(feed))
        BY <2>1, <3>3, <4>1 DEF Happened
      <4> QED
        BY <1>1, <4>2 DEF ProviderUpdates
    <3>4. CASE i > Len(feed) /\ j > Len(feed)
      BY <2>1, <2>2, <3>4
    <3> QED
      BY <2>1, <3>1, <3>2, <3>3, <3>4
  <2> QED
    BY <2>2 DEF FeedOK
<1>2. CASE UNCHANGED feed
  BY <1>2 DEF FeedOK
<1>3. UNCHANGED feed \/ \E t \in Txns, op \in Ops : ProviderUpdates(t, op)
  BY FeedGrows
<1> QED
  BY <1>1, <1>2, <1>3

-----------------------------------------------------------------------------
(* Plans *)

(* What the book knows it goes on knowing. *)
LEMMA BookKeeps ==
  ASSUME TypeOK, [Next]_vars
  PROVE  \A t \in Txns : Known(t) => Known(t)'
<1>1. ASSUME NEW r \in Runs, ApplyAction(r), Applicable(r), NEW t \in Txns, Known(t)
      PROVE  Known(t)'
  BY <1>1 DEF ApplyAction, Known, TypeOK
<1> QED
  BY <1>1, BookMoves DEF Known

(* What a step must respect to keep every plan. *)
LEMMA PlansKept ==
  ASSUME TypeOK, WindowsOK, PlansCover, NEW r \in Runs,
         \A q \in Runs \ {r} : run'[q] = run[q],
         feed' = feed,
         \A t \in Txns : Known(t) => Known(t)',
         run'[r].pc \in Planning =>
           \A t \in Txns :
             /\ Happened("add", t, run'[r].base, run'[r].upto)
             /\ ~Happened("rem", t, run'[r].base, run'[r].upto)
             => Known(t)' \/ Planned(r, t)'
  PROVE  PlansCover'
<1> SUFFICES ASSUME NEW q \in Runs, NEW t \in Txns, run'[q].pc \in Planning,
                    Happened("add", t, run[q].base, run[q].upto)',
                    ~Happened("rem", t, run[q].base, run[q].upto)'
             PROVE  Known(t)' \/ Planned(q, t)'
  BY DEF PlansCover, Planning
<1>1. /\ Happened("add", t, run'[q].base, run'[q].upto)
      /\ ~Happened("rem", t, run'[q].base, run'[q].upto)
  BY DEF Happened
<1>2. CASE q = r
  BY <1>1, <1>2
<1>3. CASE q # r
  <2>1. run'[q] = run[q]
    BY <1>3
  <2>2. Known(t) \/ Planned(q, t)
    BY <1>1, <2>1 DEF PlansCover, Planning
  <2> QED
    BY <2>1, <2>2 DEF Planned
<1> QED
  BY <1>2, <1>3

(* A plan made from the book covers its window. *)
LEMMA PlanCovers ==
  ASSUME TypeOK, NEW t \in Txns, NEW lo, NEW hi, Happened("add", t, lo, hi),
         ~Happened("rem", t, lo, hi), ~Known(t)
  PROVE  [txn |-> t, kind |-> "create"] \in Plan(lo, hi)
<1>1. t \in Touched(lo, hi)
  BY DEF Touched, Happened
<1>2. Delivered(t, lo, hi) = "added"
  BY DEF Delivered
<1>3. [txn |-> t, kind |-> "create"] \in PlanAdded(t)
  BY DEF PlanAdded, Known
<1>4. PlanEvent(t, lo, hi) = PlanAdded(t)
  BY <1>2 DEF PlanEvent
<1> QED
  BY <1>1, <1>3, <1>4 DEF Plan

LEMMA PlansStep == TypeOK /\ WindowsOK /\ PlansCover /\ [Next]_vars => PlansCover'
<1> SUFFICES ASSUME TypeOK, WindowsOK, PlansCover, [Next]_vars PROVE PlansCover'
  OBVIOUS
<1> USE SyncAssumption
<1>1. \A t \in Txns : Known(t) => Known(t)'
  BY BookKeeps
<1>2. CASE run' = run
  <2>1. ASSUME NEW r \in Runs, run[r].pc \in Planning, NEW i \in run[r].base + 1 .. run[r].upto
        PROVE  feed'[i] = feed[i]
    <3>1. run[r].base \in Nat /\ run[r].upto \in Nat /\ run[r].upto <= Len(feed)
      BY <2>1 DEF WindowsOK, Pulling, Planning, TypeOK, RunState
    <3> QED
      BY <3>1, FeedGrows
  <2>2. ASSUME NEW r \in Runs, NEW t \in Txns, run[r].pc \in Planning,
               Happened("add", t, run[r].base, run[r].upto)',
               ~Happened("rem", t, run[r].base, run[r].upto)'
        PROVE  Known(t)' \/ Planned(r, t)'
    <3>1. /\ Happened("add", t, run[r].base, run[r].upto)
          /\ ~Happened("rem", t, run[r].base, run[r].upto)
      BY <1>2, <2>1, <2>2 DEF Happened
    <3> QED
      BY <1>1, <1>2, <2>2, <3>1 DEF PlansCover, Planned, Planning
  <2> QED
    BY <1>2, <2>2 DEF PlansCover, Planning
<1>3. CASE run' # run
  <2>1. PICK r \in Runs :
           /\ \A q \in Runs \ {r} : run'[q] = run[q]
           /\ feed' = feed
           /\ Work(r) \/ run'[r].pc \in {"idle", "read"}
    BY <1>3, RunMoves
  <2>2. CASE run'[r].pc \notin Planning
    BY <1>1, <2>1, <2>2, PlansKept
  <2>3. ASSUME run'[r].base = run[r].base, run'[r].upto = run[r].upto,
               \A t \in Txns :
                 /\ Happened("add", t, run[r].base, run[r].upto)
                 /\ ~Happened("rem", t, run[r].base, run[r].upto)
                 => Known(t)' \/ Planned(r, t)'
        PROVE  PlansCover'
    BY <1>1, <2>1, <2>3, PlansKept
  <2>4. CASE Plans(r)
    <3>1. \A t \in Txns :
            /\ Happened("add", t, run[r].base, run[r].upto)
            /\ ~Happened("rem", t, run[r].base, run[r].upto)
            => Known(t) \/ [txn |-> t, kind |-> "create"] \in run'[r].todo
      <4>1. run'[r].todo = Plan(run[r].base, run[r].upto)
        BY <2>4 DEF Plans
      <4> QED
        BY <4>1, PlanCovers, Zenon
    <3>2. \A t \in Txns :
            /\ Happened("add", t, run[r].base, run[r].upto)
            /\ ~Happened("rem", t, run[r].base, run[r].upto)
            => Known(t)' \/ Planned(r, t)'
      BY <1>1, <3>1 DEF Planned
    <3> QED
      BY <2>3, <2>4, <3>2 DEF Plans, SameWindow
  <2>5. CASE Renews(r) \/ \E a \in Actions : Takes(r, a)
    BY <1>1, <2>3, <2>5 DEF PlansCover, Planned, Renews, Takes, SameWindow
  <2>6. CASE Applies(r)
    <3> DEFINE a == run[r].cur
    <3>1. /\ \A t \in Txns : a = [txn |-> t, kind |-> "create"] => Known(t)'
      <4>1. ASSUME NEW t \in Txns, a = [txn |-> t, kind |-> "create"] PROVE Known(t)'
        <5>1. a.txn = t
          BY <4>1
        <5> QED
          BY <2>6, <5>1 DEF Applies, Known, TypeOK
      <4> QED
        BY <4>1
    <3> QED
      BY <1>1, <2>3, <2>6, <3>1 DEF PlansCover, Planned, Applies, SameWindow
  <2>7. ASSUME Off(r) \/ Acquires(r) \/ Fetches(r) PROVE run'[r].pc \notin Planning
    BY <2>7 DEF Off, Acquires, Fetches, Planning, Pulling
  <2>8. Work(r) => \/ Off(r) \/ Acquires(r) \/ Fetches(r) \/ Plans(r) \/ Renews(r)
                   \/ (\E a \in Actions : Takes(r, a)) \/ Applies(r)
    BY WorkSteps DEF WorkShape
  <2> QED
    BY <2>1, <2>2, <2>4, <2>5, <2>6, <2>7, <2>8 DEF Planning
<1> QED
  BY <1>2, <1>3

-----------------------------------------------------------------------------
(* The cursor only passes what the plan of its run has put into the book. *)
LEMMA NothingSkippedStep ==
  TypeOK /\ WindowsOK /\ PlansCover /\ FeedOK /\ NothingSkipped /\ [Next]_vars => NothingSkipped'
<1> SUFFICES ASSUME TypeOK, WindowsOK, PlansCover, FeedOK, NothingSkipped, [Next]_vars
             PROVE  NothingSkipped'
  OBVIOUS
<1>1. \A t \in Txns : Known(t) => Known(t)'
  BY BookKeeps
<1>2. /\ Len(feed) \in Nat /\ Len(feed') \in Nat /\ Len(feed) <= Len(feed')
      /\ \A i \in 1 .. Len(feed) : feed'[i] = feed[i] /\ feed[i].txn \in Txns
      /\ cursor \in Nat
  <2>1. cursor \in Nat /\ \A i \in 1 .. Len(feed) : feed[i] \in Update
    BY DEF TypeOK
  <2> QED
    BY <2>1, FeedGrows DEF Update
<1>3. CASE cursor' = cursor
  BY <1>1, <1>2, <1>3 DEF NothingSkipped, WindowsOK, Happened
<1>4. CASE cursor' # cursor
  <2>1. PICK r \in Runs : CompleteAttempt(r)
    BY <1>4, CursorMoves
  <2>2. /\ HoldsLease(r) /\ run[r].pc = "normalize" /\ cursor' = run[r].upto
        /\ run[r].todo = {} /\ feed' = feed
    BY <1>4, <2>1 DEF CompleteAttempt, Complete, connVars, envVars
  <2>3. run[r].base = cursor /\ cursor <= run[r].upto /\ run[r].upto \in Nat
    BY <2>2 DEF WindowsOK, Pulling, HoldsLease, TypeOK, RunState
  <2>4. ASSUME NEW i \in 1 .. run[r].upto, feed[i].op = "add"
        PROVE  Known(feed[i].txn)' \/ Happened("rem", feed[i].txn, i, run[r].upto)
    <3>1. CASE i <= cursor
      <4>1. Known(feed[i].txn) \/ Happened("rem", feed[i].txn, i, cursor)
        BY <1>2, <2>4, <3>1 DEF NothingSkipped
      <4> QED
        BY <1>1, <1>2, <2>2, <2>3, <3>1, <4>1 DEF Happened, WindowsOK
    <3>2. CASE i > cursor
      <4>1. Happened("add", feed[i].txn, run[r].base, run[r].upto)
        BY <1>2, <2>3, <2>4, <3>2 DEF Happened
      <4>2. CASE Happened("rem", feed[i].txn, run[r].base, run[r].upto)
        <5>1. PICK j \in cursor + 1 .. run[r].upto :
                feed[j].txn = feed[i].txn /\ feed[j].op = "rem"
          BY <2>3, <4>2 DEF Happened
        <5>2. i < j
          BY <1>2, <2>2, <2>3, <2>4, <5>1 DEF FeedOK, WindowsOK, Pulling
        <5> QED
          BY <1>2, <2>3, <5>1, <5>2 DEF Happened
      <4>3. CASE ~Happened("rem", feed[i].txn, run[r].base, run[r].upto)
        <5>1. feed[i].txn \in Txns
          BY <1>2, <2>2, <2>3 DEF WindowsOK, Pulling
        <5>2. Known(feed[i].txn)
          BY <2>2, <4>1, <4>3, <5>1 DEF PlansCover, Planned
        <5> QED
          BY <1>1, <2>2, <5>1, <5>2
      <4> QED
        BY <4>2, <4>3
    <3> QED
      BY <1>2, <3>1, <3>2
  <2> QED
    BY <2>2, <2>4 DEF NothingSkipped, Happened
<1> QED
  BY <1>3, <1>4

(* Whatever the provider added at or before the committed cursor is in the    *)
(* book or was removed again before it, for every number of runs, messages,   *)
(* crashes, outages and page sizes.                                           *)
THEOREM NoneSkipped == Spec => []NothingSkipped
<1>1. Init => PlansCover /\ FeedOK /\ NothingSkipped
  BY DEF Init, PlansCover, FeedOK, NothingSkipped, IdleRun, Entering
<1> QED
  BY <1>1, TypeCorrect, Windows, FeedStep, PlansStep, NothingSkippedStep, PTL DEF Spec

-----------------------------------------------------------------------------
(* No signal is lost *)

(* A message is answered for when the cursor has passed what it announced,    *)
(* when a later message is not handled yet, or after the disconnect.          *)
Answered(m) ==
  \/ queue[m].asOf <= cursor
  \/ \E n \in m + 1 .. Len(queue) : queue[n].st # "done"
  \/ conn.status = "disconnected"

QueueOrdered ==
  /\ \A i, j \in 1 .. Len(queue) : i <= j => queue[i].asOf <= queue[j].asOf
  /\ \A i \in 1 .. Len(queue) : queue[i].asOf <= Len(feed)
  /\ \A r \in Runs : run[r].pc # "idle" => run[r].msg \in 1 .. Len(queue)

(* A window that is not partial reaches what its message announced; whoever   *)
(* is about to archive a message, or has done so, has answered for it.        *)
Reaches(r) ==
  run[r].pc \in {"archive", "lookup", "normalize", "apply"} /\ ~run[r].partial
    => queue[run[r].msg].asOf <= run[r].upto \/ conn.status = "disconnected"

SignalKept ==
  /\ \A r \in Runs : Reaches(r)
  /\ \A r \in Runs, m \in 1 .. Len(queue) : run[r].pc = "ok" /\ run[r].msg = m => Answered(m)
  /\ \A m \in 1 .. Len(queue) : queue[m].st = "done" => Answered(m)

LEMMA QueueTypes ==
  ASSUME TypeOK
  PROVE  /\ queue \in Seq(Message) /\ Len(queue) \in Nat /\ Len(feed) \in Nat /\ cursor \in Nat
         /\ \A i \in 1 .. Len(queue) : queue[i].asOf \in Nat
         /\ \A r \in Runs : run[r].upto \in Nat /\ run[r].msg \in Nat
<1>1. queue \in Seq(Message) /\ feed \in Seq(Update) /\ cursor \in Nat
      /\ \A r \in Runs : run[r] \in RunState
  BY DEF TypeOK
<1>2. \A i \in 1 .. Len(queue) : queue[i] \in Message
  BY <1>1
<1> QED
  BY <1>1, <1>2 DEF Message, RunState

LEMMA MarkKeeps ==
  ASSUME NEW q \in Seq(Message), NEW m \in Nat, NEW how
  PROVE  LET s == [q EXCEPT ![m].st = how]
         IN /\ Len(s) = Len(q)
            /\ \A i \in 1 .. Len(q) : s[i].asOf = q[i].asOf
            /\ \A i \in 1 .. Len(q) : i # m => s[i] = q[i]
            /\ m \in 1 .. Len(q) => s[m].st = how
<1> DEFINE s == [q EXCEPT ![m].st = how]
<1>1. \A i \in 1 .. Len(q) : s[i] = IF i = m THEN [q[i] EXCEPT !.st = how] ELSE q[i]
  OBVIOUS
<1>2. \A i \in 1 .. Len(q) : q[i] \in Message
  OBVIOUS
<1>3. \A x \in Message : [x EXCEPT !.st = how].asOf = x.asOf /\ [x EXCEPT !.st = how].st = how
  BY DEF Message
<1>4. Len(s) = Len(q)
  OBVIOUS
<1> HIDE DEF s
<1>5. \A i \in 1 .. Len(q) : s[i].asOf = q[i].asOf
  BY <1>1, <1>2, <1>3
<1>6. m \in 1 .. Len(q) => s[m].st = how
  BY <1>1, <1>2, <1>3
<1> QED
  BY <1>1, <1>4, <1>5, <1>6 DEF s

(* What a step does to the queue: it appends a message as recent as the feed, *)
(* or changes one message, which becomes done only when its run settles it.   *)
LEMMA QueueMoves ==
  ASSUME TypeOK, [Next]_vars
  PROVE  \/ /\ Len(queue') = Len(queue) + 1
            /\ \A i \in 1 .. Len(queue) : queue'[i] = queue[i]
            /\ queue'[Len(queue')].st = "visible" /\ queue'[Len(queue')].asOf = Len(feed)
         \/ /\ Len(queue') = Len(queue)
            /\ \A i \in 1 .. Len(queue) : queue'[i].asOf = queue[i].asOf
            /\ \/ \A i \in 1 .. Len(queue) : queue'[i].st = "done" => queue[i].st = "done"
               \/ \E r \in Runs :
                    /\ run[r].pc = "ok"
                    /\ \A i \in 1 .. Len(queue) : i # run[r].msg => queue'[i] = queue[i]
<1> DEFINE Grows == /\ Len(queue') = Len(queue) + 1
                    /\ \A i \in 1 .. Len(queue) : queue'[i] = queue[i]
                    /\ queue'[Len(queue')].st = "visible" /\ queue'[Len(queue')].asOf = Len(feed)
           Stays == /\ Len(queue') = Len(queue)
                    /\ \A i \in 1 .. Len(queue) : queue'[i].asOf = queue[i].asOf
                    /\ \/ \A i \in 1 .. Len(queue) : queue'[i].st = "done" => queue[i].st = "done"
                       \/ \E r \in Runs :
                            /\ run[r].pc = "ok"
                            /\ \A i \in 1 .. Len(queue) : i # run[r].msg => queue'[i] = queue[i]
<1>1. CASE queue' = Enqueued
  <2> DEFINE x == [st |-> "visible", reads |-> 0, asOf |-> Len(feed)]
  <2>1. x.st = "visible" /\ x.asOf = Len(feed)
    OBVIOUS
  <2>2. queue' = Append(queue, x)
    BY <1>1 DEF Enqueued
  <2> HIDE DEF x
  <2> QED
    BY <2>1, <2>2, QueueTypes
<1>2. ASSUME queue' = queue PROVE Stays
  BY <1>2
<1>3. ASSUME NEW m \in Nat, NEW how, queue' = [queue EXCEPT ![m].st = how],
             how # "done" \/ \E r \in Runs : run[r].pc = "ok" /\ run[r].msg = m
      PROVE  Stays
  BY <1>3, QueueTypes, MarkKeeps
<1>4. ASSUME NEW r \in Runs, NEW m \in 1 .. Len(queue), Drain(r, m) PROVE Stays
  <2> DEFINE n == IF queue[m].reads < MaxAttempts THEN queue[m].reads + 1 ELSE queue[m].reads
             y == [queue[m] EXCEPT !.st = "hidden", !.reads = n]
  <2>1. queue[m] \in Message
    BY QueueTypes
  <2>2. y.st = "hidden" /\ y.asOf = queue[m].asOf
    BY <2>1 DEF Message
  <2>3. queue' = [queue EXCEPT ![m] = y]
    BY <1>4 DEF Drain
  <2> HIDE DEF y
  <2> QED
    BY <2>2, <2>3, QueueTypes
<1>5. ASSUME NEW m \in 1 .. Len(queue), VisibilityTimeout(m) PROVE Stays
  BY <1>3, <1>5, QueueTypes DEF VisibilityTimeout
<1>6. ASSUME NEW r \in Runs, Settle(r) PROVE Stays
  <2>1. \/ queue' = queue
        \/ queue' = [queue EXCEPT ![run[r].msg].st = "done"] /\ run[r].pc = "ok"
        \/ queue' = [queue EXCEPT ![run[r].msg].st = "dead"]
    BY <1>6 DEF Settle, Archived
  <2>2. run[r].msg \in Nat /\ "dead" # "done"
    BY QueueTypes
  <2>3. CASE queue' = queue
    BY <1>2, <2>3
  <2>4. CASE queue' = [queue EXCEPT ![run[r].msg].st = "done"] /\ run[r].pc = "ok"
    BY <1>3, <2>2, <2>4
  <2>5. CASE queue' = [queue EXCEPT ![run[r].msg].st = "dead"]
    BY <1>3, <2>2, <2>5
  <2> QED
    BY <2>1, <2>3, <2>4, <2>5
<1>7. \/ queue' \in {queue, Enqueued}
      \/ \E r \in Runs : Settle(r)
      \/ \E m \in 1 .. Len(queue) : VisibilityTimeout(m) \/ \E r \in Runs : Drain(r, m)
  BY DEF Next, Environment, Work, Pull, Promote, ProviderUpdates, RequestConnectionSync,
         CronEnqueueActiveSyncs, ReauthWebhook, DisconnectBegin, DisconnectComplete,
         WebhookRecordDelivery, LeaseExpires, Crash, ReadConnection,
         BumpGeneration, RefuseLease, AcquireLease, OpenAttempt, RenewLease, FetchPage,
         FetchMutated, FetchFails, FetchDisabled, ArchivePages, LookupState,
         CreateNormalized, ApplyAction, CompleteAttempt, Complete, EnqueueContinuation,
         AbandonAndRelease, MarkReauth, vars
<1> QED
  BY <1>1, <1>2, <1>4, <1>5, <1>6, <1>7

(* A connection that was disconnected stays so. *)
LEMMA StaysDisconnected ==
  ASSUME TypeOK, [Next]_vars, conn.status = "disconnected"
  PROVE  conn'.status = "disconnected"
<1>0. conn \in Connection
  BY DEF TypeOK
<1>1. \A required \in BOOLEAN : Reauth(conn, required) = conn
  BY DEF Reauth
<1>2. conn'.status = conn.status \/ \E required \in BOOLEAN : conn' = Reauth(conn, required)
  BY <1>0
  DEF Next, Environment, Work, Pull, Promote, ProviderUpdates, RequestConnectionSync,
      CronEnqueueActiveSyncs, ReauthWebhook, DisconnectBegin, DisconnectComplete,
      WebhookRecordDelivery, LeaseExpires, VisibilityTimeout, Drain, Crash, ReadConnection,
      BumpGeneration, RefuseLease, AcquireLease, OpenAttempt, RenewLease, FetchPage,
      FetchMutated, FetchFails, FetchDisabled, ArchivePages, LookupState,
      CreateNormalized, ApplyAction, CompleteAttempt, Complete, EnqueueContinuation,
      AbandonAndRelease, MarkReauth, Settle, connVars, vars, Connection, Unleased, HoldsLease
<1> QED
  BY <1>1, <1>2

LEMMA CursorStep == ASSUME TypeOK, WindowsOK, [Next]_vars PROVE cursor <= cursor'
<1>1. CASE cursor' = cursor
  BY <1>1 DEF TypeOK
<1>2. CASE cursor' # cursor
  <2>1. PICK r \in Runs : CompleteAttempt(r)
    BY <1>2, CursorMoves
  <2>2. HoldsLease(r) /\ run[r].pc = "normalize" /\ cursor' = run[r].upto
    BY <1>2, <2>1 DEF CompleteAttempt, Complete, connVars
  <2> QED
    BY <2>2 DEF WindowsOK, Pulling, HoldsLease
<1> QED
  BY <1>1, <1>2

LEMMA QueueOrderStep == TypeOK /\ QueueOrdered /\ [Next]_vars => QueueOrdered'
<1> SUFFICES ASSUME TypeOK, QueueOrdered, [Next]_vars PROVE QueueOrdered'
  OBVIOUS
<1>1. /\ \A i, j \in 1 .. Len(queue') : i <= j => queue'[i].asOf <= queue'[j].asOf
      /\ \A i \in 1 .. Len(queue') : queue'[i].asOf <= Len(feed')
      /\ Len(queue) <= Len(queue')
  <2>0. /\ Len(queue) \in Nat /\ Len(feed) \in Nat /\ Len(feed') \in Nat /\ Len(feed) <= Len(feed')
        /\ \A i \in 1 .. Len(queue) : queue[i].asOf \in Nat
    BY QueueTypes, FeedGrows
  <2>1. CASE /\ Len(queue') = Len(queue) + 1
             /\ \A i \in 1 .. Len(queue) : queue'[i] = queue[i]
             /\ queue'[Len(queue')].asOf = Len(feed)
    <3>1. \A i \in 1 .. Len(queue') : i \in 1 .. Len(queue) \/ i = Len(queue')
      BY <2>0, <2>1
    <3>2. ASSUME NEW i \in 1 .. Len(queue'), NEW j \in 1 .. Len(queue'), i <= j
          PROVE  queue'[i].asOf <= queue'[j].asOf
      <4>1. CASE j \in 1 .. Len(queue)
        BY <2>0, <2>1, <3>2, <4>1 DEF QueueOrdered
      <4>2. CASE j = Len(queue')
        BY <2>0, <2>1, <3>1, <4>2 DEF QueueOrdered
      <4> QED
        BY <3>1, <4>1, <4>2
    <3> QED
      BY <2>0, <2>1, <3>1, <3>2 DEF QueueOrdered
  <2>2. CASE /\ Len(queue') = Len(queue)
             /\ \A i \in 1 .. Len(queue) : queue'[i].asOf = queue[i].asOf
    BY <2>0, <2>2 DEF QueueOrdered
  <2> QED
    BY <2>1, <2>2, QueueMoves
<1>2. ASSUME NEW r \in Runs, run'[r].pc # "idle" PROVE run'[r].msg \in 1 .. Len(queue)
  <2>1. CASE run'[r] = run[r]
    BY <1>2, <2>1 DEF QueueOrdered
  <2>2. CASE run'[r] # run[r]
    <3>1. Work(r) \/ run'[r].pc = "idle" \/ run'[r].msg \in 1 .. Len(queue)
      BY <2>2, RunMoves
    <3>2. CASE Work(r)
      <4>1. WorkShape(r) /\ run[r].pc # "idle"
        BY <3>2, WorkSteps DEF Work, Pull, Promote, ReadConnection,
           BumpGeneration, RefuseLease, AcquireLease, OpenAttempt, RenewLease, FetchPage, Fetching,
           FetchMutated, FetchFails, FetchDisabled, ArchivePages, LookupState,
           CreateNormalized, ApplyAction, CompleteAttempt, EnqueueContinuation,
           AbandonAndRelease, MarkReauth, Settle
      <4>2. run'[r].msg = run[r].msg
        BY <1>2, <4>1 DEF WorkShape, Off, Acquires, Fetches, Plans, Renews, Takes, Applies, SameWindow
      <4> QED
        BY <4>1, <4>2 DEF QueueOrdered
    <3> QED
      BY <1>2, <3>1, <3>2
  <2> QED
    BY <2>1, <2>2
<1> QED
  BY <1>1, <1>2, QueueTypes, QueueMoves DEF QueueOrdered

(* Whatever answers for a message goes on doing so. *)
LEMMA AnsweredKept ==
  ASSUME TypeOK, WindowsOK, QueueOrdered, SignalKept, [Next]_vars,
         NEW m \in 1 .. Len(queue), Answered(m)
  PROVE  Answered(m)'
<1>0. cursor <= cursor' /\ cursor' \in Nat /\ queue'[m].asOf = queue[m].asOf
      /\ Len(queue) <= Len(queue') /\ Len(queue') \in Nat
  BY CursorStep, QueueMoves, QueueTypes, TypeStep DEF TypeOK
<1>1. CASE queue[m].asOf <= cursor
  BY <1>0, <1>1, QueueTypes DEF Answered
<1>2. CASE conn.status = "disconnected"
  BY <1>2, StaysDisconnected DEF Answered
<1>3. CASE \E n \in m + 1 .. Len(queue) : queue[n].st # "done"
  <2>1. PICK n \in m + 1 .. Len(queue) : queue[n].st # "done"
    BY <1>3
  <2>2. n \in 1 .. Len(queue) /\ n > m /\ n \in m + 1 .. Len(queue')
    BY <1>0, <2>1, QueueTypes
  <2>3. CASE queue'[n].st # "done"
    BY <2>2, <2>3 DEF Answered
  <2>4. CASE queue'[n].st = "done"
    <3>1. PICK r \in Runs : /\ run[r].pc = "ok"
                            /\ \A i \in 1 .. Len(queue) : i # run[r].msg => queue'[i] = queue[i]
      BY <2>1, <2>2, <2>4, QueueMoves
    <3>2. run[r].msg = n
      BY <2>1, <2>2, <2>4, <3>1
    <3>3. Answered(n)
      BY <3>1, <3>2 DEF SignalKept
    <3>4. CASE queue[n].asOf <= cursor
      <4>1. queue[m].asOf <= queue[n].asOf
        BY <2>2 DEF QueueOrdered
      <4> QED
        BY <1>0, <2>2, <3>4, <4>1, QueueTypes DEF Answered
    <3>5. CASE conn.status = "disconnected"
      BY <3>5, StaysDisconnected DEF Answered
    <3>6. CASE \E k \in n + 1 .. Len(queue) : queue[k].st # "done"
      <4>1. PICK k \in n + 1 .. Len(queue) : queue[k].st # "done"
        BY <3>6
      <4>2. k \in 1 .. Len(queue) /\ k # n /\ k \in m + 1 .. Len(queue')
        BY <1>0, <2>2, <4>1, QueueTypes
      <4>3. queue'[k] = queue[k]
        BY <3>1, <3>2, <4>2
      <4> QED
        BY <4>1, <4>2, <4>3 DEF Answered
    <3> QED
      BY <3>3, <3>4, <3>5, <3>6 DEF Answered
  <2> QED
    BY <2>3, <2>4
<1> QED
  BY <1>1, <1>2, <1>3 DEF Answered

(* A step of the environment, of the queue or of another run leaves the       *)
(* window of r as it is.                                                      *)
LEMMA ReachesKept ==
  ASSUME TypeOK, QueueOrdered, [Next]_vars, NEW r \in Runs, Reaches(r), run'[r] = run[r]
  PROVE  Reaches(r)'
<1> SUFFICES ASSUME run[r].pc \in {"archive", "lookup", "normalize", "apply"}, ~run[r].partial,
                    conn'.status # "disconnected"
             PROVE  queue'[run[r].msg].asOf <= run[r].upto
  BY DEF Reaches
<1>1. run[r].msg \in 1 .. Len(queue)
  BY DEF QueueOrdered
<1>2. queue'[run[r].msg].asOf = queue[run[r].msg].asOf
  BY <1>1, QueueMoves
<1> QED
  BY <1>2, StaysDisconnected DEF Reaches

LEMMA SignalStep == TypeOK /\ WindowsOK /\ QueueOrdered /\ SignalKept /\ [Next]_vars => SignalKept'
<1> SUFFICES ASSUME TypeOK, WindowsOK, QueueOrdered, SignalKept, [Next]_vars PROVE SignalKept'
  OBVIOUS
<1>0. \A m \in 1 .. Len(queue) : queue'[m].asOf = queue[m].asOf
  BY QueueMoves
<1>1. ASSUME NEW m \in 1 .. Len(queue'), queue'[m].st = "done" PROVE Answered(m)'
  <2>1. m \in 1 .. Len(queue)
    BY <1>1, QueueMoves, QueueTypes
  <2>2. Answered(m)
    <3>1. CASE queue[m].st = "done"
      BY <2>1, <3>1 DEF SignalKept
    <3>2. CASE queue[m].st # "done"
      <4>1. PICK r \in Runs : /\ run[r].pc = "ok"
                              /\ \A i \in 1 .. Len(queue) : i # run[r].msg => queue'[i] = queue[i]
        BY <1>1, <2>1, <3>2, QueueMoves, QueueTypes
      <4>2. run[r].msg = m
        BY <1>1, <2>1, <3>2, <4>1
      <4> QED
        BY <2>1, <4>1, <4>2 DEF SignalKept
    <3> QED
      BY <3>1, <3>2
  <2> QED
    BY <2>1, <2>2, AnsweredKept
<1>2. ASSUME NEW r \in Runs, run'[r] = run[r]
      PROVE  Reaches(r)' /\ \A m : run'[r].pc = "ok" /\ run'[r].msg = m => Answered(m)'
  <2>1. Reaches(r)'
    BY <1>2, ReachesKept DEF SignalKept
  <2>2. ASSUME NEW m, run[r].pc = "ok", run[r].msg = m PROVE Answered(m)'
    <3>1. m \in 1 .. Len(queue) /\ Answered(m)
      BY <2>2 DEF QueueOrdered, SignalKept
    <3> QED
      BY <3>1, AnsweredKept
  <2> QED
    BY <1>2, <2>1, <2>2
<1>3. ASSUME NEW r \in Runs, run'[r] # run[r]
      PROVE  Reaches(r)' /\ \A m : run'[r].pc = "ok" /\ run'[r].msg = m => Answered(m)'
  <2>1. Work(r) \/ run'[r].pc \in {"idle", "read"}
    BY <1>3, RunMoves
  <2>2. CASE run'[r].pc \in {"idle", "read"}
    BY <2>2 DEF Reaches
  <2>3. CASE Work(r) /\ Off(r)
    <3>1. Reaches(r)'
      BY <2>3 DEF Off, Reaches, Pulling
    <3>2. ASSUME NEW m, run'[r].pc = "ok", run'[r].msg = m PROVE Answered(m)'
      <4>1. run[r].msg = m /\ Ends(r)
        BY <2>3, <3>2 DEF Off
      <4>2. run[r].pc # "idle"
        BY <2>3 DEF Work, Pull, Promote, ReadConnection,
           BumpGeneration, RefuseLease, AcquireLease, OpenAttempt, RenewLease, FetchPage, Fetching,
           FetchMutated, FetchFails, FetchDisabled, ArchivePages, LookupState,
           CreateNormalized, ApplyAction, CompleteAttempt, EnqueueContinuation,
           AbandonAndRelease, MarkReauth, Settle
      <4>3. m \in 1 .. Len(queue)
        BY <4>1, <4>2 DEF QueueOrdered
      <4>4. CASE conn.status = "disconnected"
        BY <4>4, StaysDisconnected DEF Answered
      <4>5. CASE queue' = Enqueued
        <5> DEFINE x == [st |-> "visible", reads |-> 0, asOf |-> Len(feed)]
        <5>1. queue' = Append(queue, x) /\ x.st = "visible"
          BY <4>5 DEF Enqueued
        <5> HIDE DEF x
        <5>2. Len(queue') = Len(queue) + 1 /\ queue'[Len(queue')].st # "done"
          BY <5>1, QueueTypes
        <5>3. Len(queue') \in m + 1 .. Len(queue')
          BY <4>3, <5>2, QueueTypes
        <5> QED
          BY <5>2, <5>3 DEF Answered
      <4>6. CASE /\ run[r].pc = "normalize" /\ ~run[r].partial /\ conn.status = "active"
                 /\ cursor' = run[r].upto
        <5>1. queue[m].asOf <= run[r].upto
          BY <4>1, <4>6 DEF SignalKept, Reaches
        <5> QED
          BY <1>0, <4>3, <4>6, <5>1 DEF Answered
      <4> QED
        BY <4>1, <4>4, <4>5, <4>6 DEF Ends
    <3> QED
      BY <3>1, <3>2
  <2>4. CASE Work(r) /\ ~Off(r)
    <3>1. \/ Acquires(r) \/ Fetches(r) \/ Plans(r) \/ Renews(r)
          \/ (\E a \in Actions : Takes(r, a)) \/ Applies(r)
      BY <2>4, WorkSteps DEF WorkShape
    <3>2. run'[r].pc # "ok"
      BY <3>1 DEF Acquires, Fetches, Plans, Renews, Takes, Applies, Pulling, Planning
    <3>3. run[r].pc # "idle"
      BY <3>1 DEF Acquires, AcquireLease, Fetches, Plans, Renews, Takes, Applies, Pulling, Planning
    <3>4. run[r].msg \in 1 .. Len(queue)
      BY <3>3 DEF QueueOrdered
    <3>5. CASE SameWindow(r) /\ run[r].pc \in {"archive", "lookup", "normalize", "apply"}
      <4>1. Reaches(r)
        BY DEF SignalKept
      <4> QED
        BY <1>0, <3>2, <3>4, <3>5, <4>1, StaysDisconnected DEF Reaches, SameWindow
    <3>6. CASE run'[r].pc \in {"open", "fetch"}
      BY <3>6 DEF Reaches
    <3>7. CASE /\ run[r].pc = "fetch" /\ run'[r].pc = "archive" /\ run'[r].msg = run[r].msg
               /\ (~run'[r].partial => run'[r].upto = Len(feed))
      <4>1. queue[run[r].msg].asOf <= Len(feed)
        BY <3>4 DEF QueueOrdered
      <4> QED
        BY <1>0, <3>4, <3>7, <4>1 DEF Reaches
    <3>8. CASE conn.status = "disconnected" /\ run'[r].pc = "lookup"
      BY <3>8, StaysDisconnected DEF Reaches
    <3>9. \/ SameWindow(r) /\ run[r].pc \in {"archive", "lookup", "normalize", "apply"}
          \/ run'[r].pc \in {"open", "fetch"}
          \/ /\ run[r].pc = "fetch" /\ run'[r].pc = "archive" /\ run'[r].msg = run[r].msg
             /\ (~run'[r].partial => run'[r].upto = Len(feed))
          \/ conn.status = "disconnected" /\ run'[r].pc = "lookup"
      BY <3>1 DEF Acquires, Fetches, Plans, Renews, Takes, Applies
    <3> QED
      BY <3>2, <3>5, <3>6, <3>7, <3>8, <3>9
  <2> QED
    BY <2>1, <2>2, <2>3, <2>4
<1>4. /\ \A r \in Runs : Reaches(r)'
      /\ \A r \in Runs, m \in 1 .. Len(queue') :
           run'[r].pc = "ok" /\ run'[r].msg = m => Answered(m)'
      /\ \A m \in 1 .. Len(queue') : queue'[m].st = "done" => Answered(m)'
  BY <1>1, <1>2, <1>3
<1> QED
  BY <1>4 DEF SignalKept

(* No signal is lost, whatever crashes, stalls and is fenced: a message is    *)
(* archived only after what it announced is behind the cursor, or when a      *)
(* later one is still to be handled.                                          *)
THEOREM NoSignalLost == Spec => []SignalNotLost
<1>1. Init => QueueOrdered /\ SignalKept
  <2> SUFFICES ASSUME Init PROVE QueueOrdered /\ SignalKept
    OBVIOUS
  <2>1. \A r \in Runs : run[r].pc = "idle"
    BY DEF Init, IdleRun, Entering
  <2> QED
    BY <2>1 DEF Init, QueueOrdered, SignalKept, Reaches
<1>2. TypeOK /\ QueueOrdered /\ SignalKept => SignalNotLost
  <2> SUFFICES ASSUME TypeOK, QueueOrdered, SignalKept, NEW m \in 1 .. Len(queue),
                      queue[m].st = "done", queue[m].asOf > cursor,
                      conn.status # "disconnected"
               PROVE  \E n \in 1 .. Len(queue) : queue[n].st # "done" /\ queue[n].asOf >= queue[m].asOf
    BY QueueTypes DEF SignalNotLost
  <2>1. PICK n \in m + 1 .. Len(queue) : queue[n].st # "done"
    BY QueueTypes DEF SignalKept, Answered
  <2>2. n \in 1 .. Len(queue) /\ m <= n
    BY <2>1, QueueTypes
  <2>3. queue[m].asOf <= queue[n].asOf
    BY <2>2 DEF QueueOrdered
  <2> QED
    BY <2>1, <2>2, <2>3, QueueTypes
<1> QED
  BY <1>1, <1>2, TypeCorrect, Windows, QueueOrderStep, SignalStep, PTL DEF Spec

-----------------------------------------------------------------------------
(* No transaction that was removed stays live *)

(* A run that writes the book owns the lease row. *)
OwnerWrites ==
  \A r \in Runs : run[r].pc = "apply" /\ run'[r].pc = "normalize" => conn.owner = r

Voids(r, t) ==
  \/ [txn |-> t, kind |-> "void"] \in run[r].todo
  \/ run[r].pc = "apply" /\ run[r].cur = [txn |-> t, kind |-> "void"]

(* A run creates nothing that the provider removed within its window or       *)
(* before, and the owner voids what is live and was removed within its own.   *)
GhostFree ==
  \A r \in Runs, t \in Txns : run[r].pc \in Planning =>
    /\ Planned(r, t) => ~Happened("rem", t, 0, run[r].upto)
    /\ conn.owner = r /\ Happened("rem", t, run[r].base, run[r].upto) /\ book[t].st = "live"
         => Voids(r, t)

LEMMA PlanKinds ==
  ASSUME TypeOK, FeedOK, NEW t \in Txns, NEW lo \in Nat, NEW hi \in Nat, lo <= hi, hi <= Len(feed)
  PROVE  /\ [txn |-> t, kind |-> "create"] \in Plan(lo, hi) => ~Happened("rem", t, 0, hi)
         /\ Happened("rem", t, lo, hi) /\ book[t].st = "live"
              => [txn |-> t, kind |-> "void"] \in Plan(lo, hi)
<1>0. Len(feed) \in Nat
  BY DEF TypeOK
<1>1. ASSUME [txn |-> t, kind |-> "create"] \in Plan(lo, hi), Happened("rem", t, 0, hi)
      PROVE  FALSE
  <2> DEFINE c == [txn |-> t, kind |-> "create"]
  <2>1. PICK u \in Touched(lo, hi) : c \in PlanEvent(u, lo, hi)
    BY <1>1 DEF Plan
  <2>2. c.txn = t /\ c.kind = "create"
    OBVIOUS
  <2> HIDE DEF c
  <2>3. PlanEvent(u, lo, hi) \in {PlanAdded(u), PlanModified(u, hi), PlanRemoved(u)}
        /\ (Delivered(u, lo, hi) # "added" => PlanEvent(u, lo, hi) \in {PlanModified(u, hi), PlanRemoved(u)})
    BY DEF PlanEvent, Delivered
  <2>4. c \notin PlanModified(u, hi) /\ c \notin PlanRemoved(u)
    <3>1. \A x \in PlanModified(u, hi) : x.kind = "revise"
      BY DEF PlanModified
    <3>2. \A x \in PlanRemoved(u) : x.kind = "void"
      BY DEF PlanRemoved
    <3> QED
      BY <2>2, <3>1, <3>2
  <2>5. u = t
    <3>1. c \in PlanAdded(u)
      BY <2>1, <2>3, <2>4
    <3>2. \A x \in PlanAdded(u) : x.txn = u
      BY DEF PlanAdded
    <3> QED
      BY <2>2, <3>1, <3>2
  <2>6. Delivered(t, lo, hi) = "added"
    BY <2>1, <2>3, <2>4, <2>5
  <2>7. ~Happened("rem", t, lo, hi) /\ Happened("add", t, lo, hi)
    BY <2>6 DEF Delivered
  <2>8. PICK i \in lo + 1 .. hi : feed[i].txn = t /\ feed[i].op = "add"
    BY <2>7 DEF Happened
  <2>9. PICK j \in 1 .. hi : feed[j].txn = t /\ feed[j].op = "rem"
    BY <1>1 DEF Happened
  <2>10. i < j
    BY <1>0, <2>8, <2>9 DEF FeedOK
  <2> QED
    BY <2>7, <2>8, <2>9, <2>10 DEF Happened
<1>2. ASSUME Happened("rem", t, lo, hi), book[t].st = "live"
      PROVE  [txn |-> t, kind |-> "void"] \in Plan(lo, hi)
  <2>1. t \in Touched(lo, hi)
    BY <1>2 DEF Touched, Happened
  <2>2. PlanEvent(t, lo, hi) = PlanRemoved(t)
    BY <1>2 DEF PlanEvent, Delivered
  <2>3. [txn |-> t, kind |-> "void"] \in PlanRemoved(t)
    BY <1>2 DEF PlanRemoved
  <2> QED
    BY <2>1, <2>2, <2>3 DEF Plan
<1> QED
  BY <1>1, <1>2

(* Whoever owns the lease while it plans has owned it from the start. *)
LEMMA OwnerKeeps ==
  ASSUME TypeOK, [Next]_vars, NEW r \in Runs, conn'.owner = r, run'[r].pc \in Planning
  PROVE  conn.owner = r
<1>0. conn \in Connection /\ r # None
  BY SyncAssumption DEF TypeOK
<1>1. \A required \in BOOLEAN : Reauth(conn, required).owner \in {conn.owner, None}
  BY <1>0 DEF Reauth, Unleased, Connection
<1>2. \/ conn' = conn \/ LeaseExpires \/ DisconnectBegin \/ DisconnectComplete
      \/ \E required \in BOOLEAN : conn' = Reauth(conn, required)
      \/ \E q \in Runs : \/ AcquireLease(q) \/ BumpGeneration(q) \/ RenewLease(q)
                         \/ CompleteAttempt(q) \/ AbandonAndRelease(q)
  BY DEF Next, Environment, Work, Pull, Promote, ProviderUpdates, RequestConnectionSync,
      CronEnqueueActiveSyncs, ReauthWebhook, WebhookRecordDelivery, VisibilityTimeout, Drain, Crash,
      ReadConnection, RefuseLease, OpenAttempt, FetchPage, FetchMutated, FetchFails, FetchDisabled,
      ArchivePages, LookupState, CreateNormalized, ApplyAction, EnqueueContinuation, MarkReauth,
      Settle, connVars, vars
<1>4. LeaseExpires \/ DisconnectBegin \/ DisconnectComplete => conn'.owner \in {conn.owner, None}
  BY <1>0 DEF LeaseExpires, DisconnectBegin, DisconnectComplete, Unleased, Connection
<1>5. ASSUME NEW q \in Runs, BumpGeneration(q) \/ RenewLease(q) \/ AbandonAndRelease(q)
      PROVE  conn'.owner \in {conn.owner, None}
  BY <1>0, <1>5 DEF BumpGeneration, RenewLease, AbandonAndRelease, Unleased, Connection
<1>6. ASSUME NEW q \in Runs, CompleteAttempt(q) PROVE conn'.owner \in {conn.owner, None}
  <2> DEFINE c == [Unleased(conn) EXCEPT !.committed = run[q].gen, !.continuation = run[q].partial]
  <2>1. conn' = conn \/ conn' = c
    BY <1>6, Zenon DEF CompleteAttempt, Complete, connVars
  <2>2. c.owner = None
    BY <1>0 DEF Unleased, Connection
  <2> HIDE DEF c
  <2> QED
    BY <2>1, <2>2
<1>3. ASSUME NEW q \in Runs, AcquireLease(q) PROVE conn'.owner = q /\ run'[q].pc = "open"
  <2> DEFINE s == [run[q] EXCEPT !.pc = "open", !.base = cursor, !.upto = cursor]
  <2>1. s.pc = "open"
    BY DEF TypeOK, RunState
  <2>2. run'[q] = s /\ conn' = [conn EXCEPT !.owner = q, !.leased = TRUE]
    BY <1>3, BecomeOf DEF AcquireLease
  <2> HIDE DEF s
  <2> QED
    BY <1>0, <2>1, <2>2 DEF Connection
<1>7. conn'.owner \in {conn.owner, None} \/ \E q \in Runs : AcquireLease(q)
  BY <1>1, <1>2, <1>4, <1>5, <1>6
<1> QED
  BY <1>0, <1>3, <1>7 DEF Planning

(* The window of a run that plans; that of the owner starts at the cursor. *)
LEMMA PlannerIs ==
  ASSUME TypeOK, WindowsOK, NEW r \in Runs, run[r].pc \in Planning
  PROVE  /\ run[r].base <= run[r].upto /\ run[r].upto <= Len(feed)
         /\ run[r].base \in Nat /\ run[r].upto \in Nat /\ cursor \in Nat /\ Len(feed) \in Nat
         /\ conn.owner = r => run[r].base = cursor /\ cursor <= run[r].upto
<1>1. run[r].base \in Nat /\ run[r].upto \in Nat /\ cursor \in Nat /\ Len(feed) \in Nat
  BY DEF TypeOK, RunState
<1> QED
  BY <1>1 DEF WindowsOK, Pulling, Planning

LEMMA GhostStep ==
  ASSUME TypeOK, WindowsOK, FeedOK, GhostFree, NoGhost, [Next]_vars, [OwnerWrites]_run
  PROVE  GhostFree' /\ NoGhost'
<1> USE SyncAssumption
<1>0. /\ Len(feed) \in Nat /\ cursor \in Nat /\ cursor <= Len(feed)
      /\ \A i \in 1 .. Len(feed) : feed'[i] = feed[i] /\ feed[i].txn \in Txns
      /\ \A r \in Runs : run[r].upto \in Nat /\ run[r].base \in Nat
  <2>1. /\ Len(feed) \in Nat /\ cursor \in Nat /\ \A i \in 1 .. Len(feed) : feed[i] \in Update
        /\ \A r \in Runs : run[r] \in RunState
    BY DEF TypeOK
  <2> QED
    BY <2>1, FeedGrows DEF WindowsOK, Update, RunState
<1>1. CASE run' = run
  <2>1. book' = book
    <3>1. ASSUME NEW r \in Runs, ApplyAction(r), Applicable(r) PROVE FALSE
      <4> DEFINE s == [run[r] EXCEPT !.pc = "normalize", !.cur = None]
      <4>1. run[r].pc = "apply" /\ Become(r, s)
        BY <3>1 DEF ApplyAction
      <4>2. s.pc = "normalize"
        BY DEF TypeOK, RunState
      <4> HIDE DEF s
      <4> QED
        BY <1>1, <4>1, <4>2, BecomeOf
    <3> QED
      BY <3>1, BookMoves
  <2>2. cursor' = cursor
    <3>1. ASSUME NEW r \in Runs, CompleteAttempt(r), cursor' # cursor PROVE FALSE
      <4>1. run[r].pc = "normalize" /\ (Return(r, "continue") \/ Return(r, "ok"))
        BY <3>1 DEF CompleteAttempt, Complete, connVars
      <4>2. Leave(r, "continue").pc = "continue" /\ Leave(r, "ok").pc = "ok"
        BY DEF Leave, Entering
      <4> QED
        BY <1>1, <4>1, <4>2, BecomeOf DEF Return
    <3> QED
      BY <3>1, CursorMoves
  <2>3. NoGhost'
    BY <1>0, <2>1, <2>2 DEF NoGhost
  <2>4. ASSUME NEW r \in Runs, NEW t \in Txns, run[r].pc \in Planning
        PROVE  /\ Planned(r, t)' => ~Happened("rem", t, 0, run[r].upto)'
               /\ conn'.owner = r /\ Happened("rem", t, run[r].base, run[r].upto)' /\ book'[t].st = "live"
                    => Voids(r, t)'
    <3>1. Planned(r, t)' = Planned(r, t) /\ Voids(r, t)' = Voids(r, t) /\ (conn'.owner = r => conn.owner = r)
      BY <1>1, <2>4, OwnerKeeps DEF Planned, Voids
    <3>2. /\ Happened("rem", t, 0, run[r].upto)' => Happened("rem", t, 0, run[r].upto)
          /\ Happened("rem", t, run[r].base, run[r].upto)' => Happened("rem", t, run[r].base, run[r].upto)
      BY <1>0, <1>1, <2>4, PlannerIs DEF Happened
    <3> QED
      BY <2>1, <2>4, <3>1, <3>2 DEF GhostFree
  <2> QED
    BY <1>1, <2>3, <2>4 DEF GhostFree
<1>2. CASE run' # run
  <2>1. PICK r \in Runs :
           /\ \A q \in Runs \ {r} : run'[q] = run[q]
           /\ feed' = feed
           /\ \/ Work(r)
              \/ run'[r].pc = "idle" /\ UNCHANGED <<conn, cursor, queue, book>>
              \/ /\ run'[r].pc = "read" /\ UNCHANGED <<conn, cursor, book>>
    BY <1>2, RunMoves
  <2>2. ASSUME NEW q \in Runs, q # r, NEW t \in Txns, run[q].pc \in Planning, book' = book
        PROVE  /\ Planned(q, t)' => ~Happened("rem", t, 0, run[q].upto)'
               /\ conn'.owner = q /\ Happened("rem", t, run[q].base, run[q].upto)' /\ book'[t].st = "live"
                    => Voids(q, t)'
    <3>1. run'[q] = run[q] /\ (conn'.owner = q => conn.owner = q)
      BY <2>1, <2>2, OwnerKeeps
    <3>2. /\ Planned(q, t)' = Planned(q, t) /\ Voids(q, t)' = Voids(q, t)
          /\ Happened("rem", t, 0, run[q].upto)' <=> Happened("rem", t, 0, run[q].upto)
          /\ Happened("rem", t, run[q].base, run[q].upto)' <=> Happened("rem", t, run[q].base, run[q].upto)
      BY <2>1, <3>1 DEF Planned, Voids, Happened
    <3> QED
      BY <2>2, <3>1, <3>2 DEF GhostFree
  <2>3. CASE run'[r].pc \notin Planning /\ book' = book
    <3>1. GhostFree'
      <4> SUFFICES ASSUME NEW q \in Runs, NEW t \in Txns, run'[q].pc \in Planning
                   PROVE  /\ Planned(q, t)' => ~Happened("rem", t, 0, run[q].upto)'
                          /\ conn'.owner = q /\ Happened("rem", t, run[q].base, run[q].upto)'
                               /\ book'[t].st = "live" => Voids(q, t)'
        BY DEF GhostFree
      <4> QED
        BY <2>1, <2>2, <2>3
    <3>2. CASE cursor' = cursor
      BY <2>1, <2>3, <3>1, <3>2 DEF NoGhost
    <3>3. CASE cursor' # cursor
      <4>1. PICK q \in Runs : CompleteAttempt(q)
        BY <3>3, CursorMoves
      <4>2. run[q].pc = "normalize" /\ run[q].todo = {} /\ cursor' = run[q].upto /\ conn.owner = q
        BY <3>3, <4>1 DEF CompleteAttempt, Complete, HoldsLease, connVars
      <4>3. /\ run[q].base = cursor /\ cursor <= run[q].upto /\ run[q].upto <= Len(feed)
            /\ run[q].base \in Nat /\ run[q].upto \in Nat
        BY <4>2, PlannerIs DEF Planning
      <4>4. ASSUME NEW i \in 1 .. run[q].upto, feed[i].op = "rem"
            PROVE  book[feed[i].txn].st # "live"
        <5>1. CASE i <= cursor
          BY <1>0, <4>4, <5>1 DEF NoGhost
        <5>2. CASE i > cursor
          <6>1. Happened("rem", feed[i].txn, run[q].base, run[q].upto)
            BY <1>0, <4>3, <4>4, <5>2 DEF Happened
          <6>2. feed[i].txn \in Txns
            BY <1>0, <4>3, <4>4
          <6> QED
            BY <4>2, <6>1, <6>2 DEF GhostFree, Voids, Planning
        <5> QED
          BY <1>0, <4>4, <5>1, <5>2
      <4> QED
        BY <2>1, <2>3, <3>1, <4>2, <4>4 DEF NoGhost
    <3> QED
      BY <3>2, <3>3
  <2>4. ASSUME WorkShape(r), run'[r].pc \in Planning, cursor' = cursor, book' = book,
               run'[r].upto = run[r].upto, run'[r].base = run[r].base,
               \A t \in Txns : /\ Planned(r, t)' => ~Happened("rem", t, 0, run[r].upto)
                               /\ conn'.owner = r /\ Happened("rem", t, run[r].base, run[r].upto)
                                    /\ book[t].st = "live" => Voids(r, t)'
        PROVE  GhostFree' /\ NoGhost'
    <3>1. NoGhost'
      BY <2>1, <2>4 DEF NoGhost
    <3>2. \A t \in Txns : /\ Planned(r, t)' => ~Happened("rem", t, 0, run[r].upto)'
                          /\ conn'.owner = r /\ Happened("rem", t, run[r].base, run[r].upto)'
                               /\ book'[t].st = "live" => Voids(r, t)'
      BY <2>1, <2>4 DEF Happened
    <3>3. GhostFree'
      <4> SUFFICES ASSUME NEW q \in Runs, NEW t \in Txns, run'[q].pc \in Planning
                   PROVE  /\ Planned(q, t)' => ~Happened("rem", t, 0, run[q].upto)'
                          /\ conn'.owner = q /\ Happened("rem", t, run[q].base, run[q].upto)'
                               /\ book'[t].st = "live" => Voids(q, t)'
        BY DEF GhostFree
      <4> QED
        BY <2>1, <2>2, <2>4, <3>2
    <3> QED
      BY <3>1, <3>3
  <2>5. CASE Plans(r) /\ WorkShape(r)
    <3>1. run[r].base <= run[r].upto /\ run[r].upto <= Len(feed)
      BY <2>5 DEF WindowsOK, Plans, Pulling
    <3>2. \A t \in Txns :
            /\ [txn |-> t, kind |-> "create"] \in Plan(run[r].base, run[r].upto)
                 => ~Happened("rem", t, 0, run[r].upto)
            /\ Happened("rem", t, run[r].base, run[r].upto) /\ book[t].st = "live"
                 => [txn |-> t, kind |-> "void"] \in Plan(run[r].base, run[r].upto)
      BY <1>0, <3>1, PlanKinds
    <3> QED
      BY <2>4, <2>5, <3>2 DEF Plans, SameWindow, Planning, Planned, Voids
  <2>6. CASE Renews(r) /\ WorkShape(r)
    <3>1. conn'.owner = r => conn.owner = r
      BY <2>6, OwnerKeeps DEF Renews, Planning
    <3> QED
      BY <2>4, <2>6, <3>1 DEF Renews, SameWindow, Planning, Planned, Voids, GhostFree
  <2>7. ASSUME NEW a \in Actions, Takes(r, a), WorkShape(r) PROVE GhostFree' /\ NoGhost'
    <3>1. conn'.owner = r => conn.owner = r
      BY <2>7, OwnerKeeps DEF Takes, Planning
    <3> QED
      BY <2>4, <2>7, <3>1 DEF Takes, SameWindow, Planning, Planned, Voids, GhostFree
  <2>8. CASE Applies(r) /\ WorkShape(r)
    <3> DEFINE a == run[r].cur
               e == [st |-> IF a.kind = "void" THEN "voided" ELSE "live", asOf |-> run[r].upto]
    <3>1. a \in Actions
      BY <2>8 DEF Applies, TypeOK, RunState
    <3>2. /\ a.txn \in Txns /\ a.kind \in {"create", "revise", "void"}
          /\ a = [txn |-> a.txn, kind |-> a.kind]
      BY <3>1 DEF Actions
    <3>3. /\ book'[a.txn].st = IF a.kind = "void" THEN "voided" ELSE "live"
          /\ \A t \in Txns \ {a.txn} : book'[t] = book[t]
      <4>1. book' = [book EXCEPT ![a.txn] = e] /\ book \in [Txns -> Entry]
        BY <2>8, Zenon DEF Applies, TypeOK
      <4>2. e.st = IF a.kind = "void" THEN "voided" ELSE "live"
        OBVIOUS
      <4> HIDE DEF a, e
      <4> QED
        BY <3>2, <4>1, <4>2
    <3>4. book[a.txn].st = IF a.kind = "create" THEN "none" ELSE "live"
      BY <2>8 DEF Applies, Applicable
    <3>5. /\ run[r].pc = "apply" /\ run'[r].pc = "normalize" /\ run'[r].todo = run[r].todo
          /\ run'[r].upto = run[r].upto /\ run'[r].base = run[r].base /\ cursor' = cursor
      BY <2>8 DEF Applies, SameWindow
    <3>11. conn.owner = r
      <4>1. run' # run
        BY <3>5
      <4> QED
        BY <3>5, <4>1 DEF OwnerWrites
    <3>6. /\ run[r].base = cursor /\ cursor <= run[r].upto
      BY <3>5, <3>11, PlannerIs DEF Planning
    <3> HIDE DEF a, e
    <3>7. a.kind = "create" => Planned(r, a.txn) /\ ~Happened("rem", a.txn, 0, run[r].upto)
      <4>1. a.kind = "create" => Planned(r, a.txn)
        BY <3>2, <3>5 DEF Planned, a
      <4> QED
        BY <3>2, <3>5, <4>1 DEF GhostFree, Planning
    <3>8. NoGhost'
      <4> SUFFICES ASSUME NEW i \in 1 .. cursor, feed[i].op = "rem"
                   PROVE  book'[feed[i].txn].st # "live"
        BY <2>1, <3>5 DEF NoGhost
      <4>1. book[feed[i].txn].st # "live" /\ feed[i].txn \in Txns
        BY <1>0 DEF NoGhost
      <4>2. CASE feed[i].txn = a.txn
        <5>1. Happened("rem", a.txn, 0, run[r].upto)
          BY <1>0, <3>6, <4>2 DEF Happened
        <5> QED
          BY <3>2, <3>3, <3>4, <3>7, <4>1, <4>2, <5>1
      <4> QED
        BY <3>3, <4>1, <4>2
    <3>9. ASSUME NEW t \in Txns
          PROVE  /\ Planned(r, t)' => ~Happened("rem", t, 0, run[r].upto)'
                 /\ conn'.owner = r /\ Happened("rem", t, run[r].base, run[r].upto)' /\ book'[t].st = "live"
                      => Voids(r, t)'
      <4>1. Planned(r, t)' => Planned(r, t)
        BY <3>5 DEF Planned
      <4>2. /\ Happened("rem", t, 0, run[r].upto)' <=> Happened("rem", t, 0, run[r].upto)
            /\ Happened("rem", t, run[r].base, run[r].upto)' <=> Happened("rem", t, run[r].base, run[r].upto)
        BY <2>1, <3>5 DEF Happened
      <4>3. ASSUME Happened("rem", t, run[r].base, run[r].upto), book'[t].st = "live"
            PROVE  Voids(r, t)'
        <5>1. book[t].st = "live"
          <6>1. CASE t = a.txn
            <7>1. Happened("rem", a.txn, 0, run[r].upto)
              BY <1>0, <4>3, <6>1 DEF Happened
            <7> QED
              BY <3>2, <3>3, <3>4, <3>7, <6>1, <7>1
          <6> QED
            BY <3>3, <4>3, <6>1
        <5>2. Voids(r, t)
          BY <3>5, <3>11, <4>3, <5>1 DEF GhostFree, Planning
        <5>3. a # [txn |-> t, kind |-> "void"]
          <6>1. ASSUME a = [txn |-> t, kind |-> "void"] PROVE FALSE
            <7>1. a.txn = t /\ a.kind = "void"
              BY <6>1
            <7> QED
              BY <3>3, <4>3, <7>1
          <6> QED
            BY <6>1
        <5> QED
          BY <3>5, <5>2, <5>3 DEF Voids, a
      <4> QED
        BY <3>5, <4>1, <4>2, <4>3 DEF GhostFree, Planning
    <3>10. GhostFree'
      <4> SUFFICES ASSUME NEW q \in Runs, NEW t \in Txns, run'[q].pc \in Planning
                   PROVE  /\ Planned(q, t)' => ~Happened("rem", t, 0, run[q].upto)'
                          /\ conn'.owner = q /\ Happened("rem", t, run[q].base, run[q].upto)'
                               /\ book'[t].st = "live" => Voids(q, t)'
        BY DEF GhostFree
      <4>1. CASE q = r
        BY <3>5, <3>9, <4>1
      <4>2. CASE q # r
        <5>1. run'[q] = run[q] /\ conn'.owner # q
          BY <2>1, <3>11, <4>2, OwnerKeeps
        <5>2. Planned(q, t)' = Planned(q, t)
              /\ (Happened("rem", t, 0, run[q].upto)' <=> Happened("rem", t, 0, run[q].upto))
          BY <2>1, <5>1 DEF Planned, Happened
        <5> QED
          BY <5>1, <5>2 DEF GhostFree
      <4> QED
        BY <4>1, <4>2
    <3> QED
      BY <3>8, <3>10
  <2>9. ASSUME WorkShape(r), Off(r) \/ Acquires(r) \/ Fetches(r)
        PROVE  run'[r].pc \notin Planning /\ book' = book
    BY <2>9 DEF Off, Acquires, Fetches, Planning, Pulling
  <2>10. Work(r) => WorkShape(r)
    BY WorkSteps
  <2>11. WorkShape(r) => \/ Off(r) \/ Acquires(r) \/ Fetches(r) \/ Plans(r) \/ Renews(r)
                         \/ (\E a \in Actions : Takes(r, a)) \/ Applies(r)
    BY DEF WorkShape
  <2>12. ASSUME run'[r].pc \in {"idle", "read"}, book' = book PROVE GhostFree' /\ NoGhost'
    BY <2>3, <2>12 DEF Planning
  <2> QED
    BY <2>1, <2>3, <2>5, <2>6, <2>7, <2>8, <2>9, <2>10, <2>11, <2>12
<1> QED
  BY <1>1, <1>2

(* In every behaviour, stalls and outages included, a transaction that the    *)
(* provider removed before the committed cursor and that is still live is the *)
(* work of a run that wrote when the lease was no longer its own: while every *)
(* keel_worker_apply_action is called by the owner of the lease, there is none.*)
THEOREM GhostsAreStaleWrites == Spec => (OnlyHolderWrites => []NoGhost)
<1>1. Init => FeedOK /\ GhostFree /\ NoGhost
  BY DEF Init, FeedOK, GhostFree, NoGhost, IdleRun, Entering, Planning
<1>2. OnlyHolderWrites => [][OwnerWrites]_run
  BY PTL DEF OnlyHolderWrites, OwnerWrites
<1> QED
  BY <1>1, <1>2, TypeCorrect, Windows, FeedStep, GhostStep, PTL DEF Spec
=============================================================================
