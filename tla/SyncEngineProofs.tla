-------------------------- MODULE SyncEngineProofs --------------------------
(***************************************************************************)
(* Proofs about SyncEngine for every number of runs and transactions and   *)
(* every page size, bound and choice of stalls: type correctness, and the  *)
(* safety of the cursor under overlapping, crashed and stalled runs.       *)
(***************************************************************************)
EXTENDS SyncEngine, TLAPS

(* The record a run enters a place with is of the declared type. *)
LEMMA EnteringType ==
  ASSUME NEW place \in Places \ {"apply"}, NEW m \in Nat, NEW n \in Nat
  PROVE  /\ Entering(place, m, n) \in RunState
         /\ Entering(place, m, n).pc = place
BY DEF Entering, RunState, Places

LEMMA BecomeType ==
  ASSUME TypeOK, NEW r \in Runs, NEW s \in RunState, Become(r, s)
  PROVE  /\ run' \in [Runs -> RunState]
         /\ run'[r] = s
         /\ \A q \in Runs \ {r} : run'[q] = run[q]
BY DEF TypeOK, Become

LEMMA BecomeOf ==
  ASSUME TypeOK, NEW r \in Runs, NEW s, Become(r, s)
  PROVE  run'[r] = s /\ \A q \in Runs \ {r} : run'[q] = run[q]
BY DEF TypeOK, Become

LEMMA LeaveType ==
  ASSUME TypeOK, NEW r \in Runs, NEW place \in Places \ {"apply"}
  PROVE  Leave(r, place) \in RunState /\ Leave(r, place).pc = place
<1>1. run[r].msg \in Nat /\ run[r].reads \in Nat
  BY DEF TypeOK, RunState
<1> QED
  BY <1>1, EnteringType DEF Leave

LEMMA ReturnType ==
  ASSUME TypeOK, NEW r \in Runs, NEW place \in Places \ {"apply"}, Return(r, place)
  PROVE  /\ run' \in [Runs -> RunState]
         /\ run'[r].pc = place
         /\ \A q \in Runs \ {r} : run'[q] = run[q]
BY LeaveType, BecomeType DEF Return

LEMMA ThrowType ==
  ASSUME TypeOK, NEW r \in Runs, NEW code \in BOOLEAN, Throw(r, code)
  PROVE  /\ run' \in [Runs -> RunState]
         /\ run'[r].pc = "abandon"
         /\ \A q \in Runs \ {r} : run'[q] = run[q]
<1> DEFINE l == Leave(r, "abandon")
<1>1. l \in RunState /\ l.pc = "abandon"
  BY LeaveType DEF Places
<1> HIDE DEF l
<1>2. [l EXCEPT !.reauth = code] \in RunState /\ [l EXCEPT !.reauth = code].pc = "abandon"
  BY <1>1 DEF RunState
<1> QED
  BY <1>2, BecomeType DEF Throw, l

LEMMA GotoType ==
  ASSUME TypeOK, NEW r \in Runs, NEW place \in Places \ {"apply"}, Goto(r, place)
  PROVE  /\ run' \in [Runs -> RunState]
         /\ run'[r] = [run[r] EXCEPT !.pc = place]
         /\ \A q \in Runs \ {r} : run'[q] = run[q]
<1>1. [run[r] EXCEPT !.pc = place] \in RunState
  BY DEF TypeOK, RunState
<1> QED
  BY <1>1, BecomeType DEF Goto

LEMMA EnqueuedType == ASSUME TypeOK PROVE Enqueued \in Seq(Message)
BY DEF TypeOK, Enqueued, Message

(* Setting the state of one message keeps a queue a queue. *)
LEMMA MarkedType ==
  ASSUME NEW q \in Seq(Message), NEW m \in Nat, NEW how \in {"visible", "hidden", "done", "dead"}
  PROVE  [q EXCEPT ![m].st = how] \in Seq(Message)
<1> DEFINE s == [q EXCEPT ![m].st = how]
<1>1. ASSUME NEW i \in 1 .. Len(q)
      PROVE  s[i] \in Message
  <2>1. q[i] \in Message
    OBVIOUS
  <2>2. [q[i] EXCEPT !.st = how] \in Message
    BY <2>1 DEF Message
  <2>3. s[i] = IF i = m THEN [q[i] EXCEPT !.st = how] ELSE q[i]
    OBVIOUS
  <2> QED
    BY <2>1, <2>2, <2>3
<1>2. s = [i \in 1 .. Len(q) |-> s[i]]
  OBVIOUS
<1> HIDE DEF s
<1>3. s \in Seq(Message)
  BY <1>1, <1>2
<1> QED
  BY <1>3 DEF s

LEMMA SetType ==
  ASSUME NEW q \in Seq(Message), NEW m \in 1 .. Len(q), NEW x \in Message
  PROVE  [q EXCEPT ![m] = x] \in Seq(Message) /\ [q EXCEPT ![m] = x][m] = x
OBVIOUS

LEMMA ArchivedType ==
  ASSUME TypeOK, NEW m \in Nat, NEW how \in {"done", "dead"}
  PROVE  Archived(m, how) \in Seq(Message)
BY MarkedType DEF TypeOK, Archived

LEMMA BudgetType == ASSUME TypeOK, Send \/ Fault \/ Outage PROVE budget' \in Budget
<1>1. budget.sends \in Nat /\ budget.faults \in Nat /\ budget.outages \in Nat
  BY DEF TypeOK, Budget
<1>2. \A n \in Nat : /\ [budget EXCEPT !.sends = n] \in Budget
                     /\ [budget EXCEPT !.faults = n] \in Budget
                     /\ [budget EXCEPT !.outages = n] \in Budget
  BY DEF TypeOK, Budget
<1>3. CASE Fault
  <2> DEFINE n == budget.faults - 1
  <2>1. n \in Nat
    BY <1>1, <1>3 DEF Fault
  <2>2. budget' = [budget EXCEPT !.faults = n]
    BY <1>3 DEF Fault
  <2> QED
    BY <2>1, <2>2, <1>2
<1>4. CASE Outage
  <2> DEFINE n == budget.outages - 1
  <2>1. n \in Nat
    BY <1>1, <1>4 DEF Outage
  <2>2. budget' = [budget EXCEPT !.outages = n]
    BY <1>4 DEF Outage
  <2> QED
    BY <2>1, <2>2, <1>2
<1>5. CASE Send
  <2> DEFINE n == budget.sends - 1
  <2>1. n \in Nat
    BY <1>1, <1>5 DEF Send
  <2>2. budget' = [budget EXCEPT !.sends = n]
    BY <1>5 DEF Send
  <2> QED
    BY <2>1, <2>2, <1>2
<1> QED
  BY <1>3, <1>4, <1>5

(* The two ways the connection row changes that take several fields at once.  *)
LEMMA FenceType ==
  ASSUME NEW c \in Connection
  PROVE  /\ Unleased(c) \in Connection
         /\ [c EXCEPT !.desired = @ + 1] \in Connection
         /\ \A required \in BOOLEAN : Reauth(c, required) \in Connection
         /\ [Unleased(c) EXCEPT !.status = "disconnecting", !.desired = @ + 1,
                                !.removal = "pending"] \in Connection
         /\ \A g \in Nat, b \in BOOLEAN :
              [Unleased(c) EXCEPT !.committed = g, !.continuation = b] \in Connection
<1>1. Unleased(c) \in Connection
  BY DEF Unleased, Connection
<1>2. ASSUME NEW u \in Connection
      PROVE  /\ [u EXCEPT !.desired = @ + 1] \in Connection
             /\ [u EXCEPT !.status = "disconnecting", !.desired = @ + 1,
                          !.removal = "pending"] \in Connection
             /\ [u EXCEPT !.status = "reauth_required", !.desired = @ + 1] \in Connection
             /\ [u EXCEPT !.status = "active"] \in Connection
             /\ \A g \in Nat, b \in BOOLEAN :
                  [u EXCEPT !.committed = g, !.continuation = b] \in Connection
  <2> DEFINE n == u.desired + 1
  <2>1. n \in Nat
    BY DEF Connection
  <2> HIDE DEF n
  <2>2. /\ [u EXCEPT !.desired = n] \in Connection
        /\ [u EXCEPT !.status = "disconnecting", !.desired = n, !.removal = "pending"] \in Connection
        /\ [u EXCEPT !.status = "reauth_required", !.desired = n] \in Connection
        /\ [u EXCEPT !.status = "active"] \in Connection
        /\ \A g \in Nat, b \in BOOLEAN :
             [u EXCEPT !.committed = g, !.continuation = b] \in Connection
    BY <2>1 DEF Connection, Statuses
  <2> QED
    BY <2>2 DEF n
<1> QED
  BY <1>1, <1>2 DEF Reauth

LEMMA PlanType ==
  ASSUME NEW t \in Txns, NEW lo, NEW hi
  PROVE  PlanEvent(t, lo, hi) \subseteq Actions
<1>1. Delivered(t, lo, hi) \in {"added", "modified", "removed"}
  BY DEF Delivered
<1> QED
  BY <1>1 DEF PlanEvent, PlanAdded, PlanModified, PlanRemoved, Actions

LEMMA PlannedType == ASSUME NEW lo, NEW hi PROVE Plan(lo, hi) \in SUBSET Actions
<1>1. Touched(lo, hi) \subseteq Txns
  BY DEF Touched
<1> QED
  BY <1>1, PlanType DEF Plan

(* Fetching and archiving the pages of a window. *)
LEMMA PullType ==
  ASSUME TypeOK, NEW r \in Runs, Pull(r)
  PROVE  TypeOK'
<1> USE SyncAssumption
<1>1. run[r] \in RunState
  BY DEF TypeOK
<1>2. CASE FetchPage(r)
  <2> DEFINE end      == PageEnd(r)
             more     == end < Len(feed)
             last     == ~more \/ run[r].pages + 1 = MaxPages
             pages    == IF last THEN 0 ELSE run[r].pages + 1
             restarts == IF last THEN 0 ELSE run[r].restarts
             place    == IF last THEN "archive" ELSE "fetch"
             s == [run[r] EXCEPT !.upto = end, !.renewed = FALSE, !.partial = more,
                                 !.pages = pages, !.restarts = restarts, !.pc = place]
  <2>1. end \in Nat /\ more \in BOOLEAN
    BY <1>1 DEF PageEnd, TypeOK, RunState
  <2>2. pages \in Nat /\ restarts \in Nat /\ place \in {"archive", "fetch"}
    BY <1>1 DEF RunState
  <2>3. Become(r, s)
    BY <1>2, Zenon DEF FetchPage
  <2> HIDE DEF end, more, pages, restarts, place
  <2>4. s \in RunState
    BY <1>1, <2>1, <2>2 DEF RunState, Places
  <2> HIDE DEF s
  <2> QED
    BY <1>2, <2>3, <2>4, BecomeType DEF FetchPage, TypeOK, connVars, dataVars, envVars
<1>3. CASE FetchMutated(r)
  <2>1. [run[r] EXCEPT !.upto = run[r].base, !.pages = 0, !.renewed = FALSE,
                       !.restarts = @ + 1] \in RunState
    <3> DEFINE n == run[r].restarts + 1
    <3>1. n \in Nat
      BY <1>1 DEF RunState
    <3> HIDE DEF n
    <3>2. [run[r] EXCEPT !.upto = run[r].base, !.pages = 0, !.renewed = FALSE,
                         !.restarts = n] \in RunState
      BY <1>1, <3>1 DEF RunState
    <3> QED
      BY <3>2 DEF n
  <2> QED
    BY <1>3, <2>1, BecomeType, ThrowType, BudgetType
    DEF FetchMutated, TypeOK, connVars, dataVars, envVars
<1>4. ASSUME NEW code \in BOOLEAN, FetchFails(r, code) PROVE TypeOK'
  BY <1>4, ThrowType, BudgetType DEF FetchFails, TypeOK, connVars, dataVars, envVars
<1>5. CASE FetchDisabled(r)
  BY <1>5, GotoType DEF FetchDisabled, Places, TypeOK, connVars, dataVars, envVars
<1>6. CASE ArchivePages(r)
  <2>1. [run[r] EXCEPT !.pc = "lookup", !.renewed = FALSE] \in RunState
    BY <1>1 DEF RunState, Places
  <2> QED
    BY <1>6, <2>1, BecomeType, ThrowType DEF ArchivePages, TypeOK, connVars, dataVars, envVars
<1> QED
  BY <1>2, <1>3, <1>4, <1>5, <1>6 DEF Pull

(* Planning, applying and committing a window. *)
LEMMA PromoteType ==
  ASSUME TypeOK, NEW r \in Runs, Promote(r)
  PROVE  TypeOK'
<1> USE SyncAssumption
<1>1. run[r] \in RunState
  BY DEF TypeOK
<1>2. CASE LookupState(r)
  <2> DEFINE plan == Plan(run[r].base, run[r].upto)
  <2>1. plan \in SUBSET Actions
    BY PlannedType
  <2> HIDE DEF plan
  <2>2. [run[r] EXCEPT !.pc = "normalize", !.todo = plan] \in RunState
    BY <1>1, <2>1 DEF RunState, Places
  <2> QED
    BY <1>2, <2>2, BecomeType, ThrowType
    DEF LookupState, plan, TypeOK, connVars, dataVars, envVars
<1>3. ASSUME NEW a \in Actions, CreateNormalized(r, a) PROVE TypeOK'
  <2>1. [run[r] EXCEPT !.pc = "apply", !.cur = a, !.renewed = FALSE, !.todo = @ \ {a}] \in RunState
    BY <1>1 DEF RunState, Places
  <2> QED
    BY <1>3, <2>1, BecomeType, ThrowType
    DEF CreateNormalized, TypeOK, connVars, dataVars, envVars
<1>4. CASE ApplyAction(r)
  <2>1. [run[r] EXCEPT !.pc = "normalize", !.cur = None] \in RunState
    BY <1>1 DEF RunState, Places
  <2>2. run' \in [Runs -> RunState]
    BY <1>4, <2>1, BecomeType, ThrowType DEF ApplyAction
  <2>3. book' \in [Txns -> Entry]
    <3>1. run[r].upto \in Nat
      BY <1>1 DEF RunState
    <3>2. \A st \in {"voided", "live"} : [st |-> st, asOf |-> run[r].upto] \in Entry
      BY <3>1 DEF Entry
    <3> QED
      BY <1>4, <3>2 DEF ApplyAction, TypeOK, dataVars
  <2>4. cmds' \subseteq Nat \X Txns
    <3>1. run[r].msg \in Nat /\ run[r].cur.txn \in Txns
      BY <1>1, <1>4 DEF ApplyAction, RunState, Actions
    <3>2. cmds' = cmds \/ cmds' = cmds \cup {<<run[r].msg, run[r].cur.txn>>}
      BY <1>4 DEF ApplyAction, dataVars
    <3>3. cmds \subseteq Nat \X Txns
      BY DEF TypeOK
    <3> QED
      BY <3>1, <3>2, <3>3
  <2> QED
    BY <1>4, <2>2, <2>3, <2>4 DEF ApplyAction, TypeOK, connVars, envVars
<1>5. CASE CompleteAttempt(r)
  <2>1. run' \in [Runs -> RunState]
    BY <1>5, ThrowType, ReturnType DEF CompleteAttempt, Complete, Places
  <2>2. conn' \in Connection /\ cursor' \in Nat
    <3>1. conn \in Connection /\ cursor \in Nat
      BY DEF TypeOK
    <3>2. run[r].gen \in Nat /\ run[r].partial \in BOOLEAN /\ run[r].upto \in Nat
      BY <1>1 DEF RunState
    <3>3. \/ UNCHANGED connVars
          \/ /\ cursor' = run[r].upto
             /\ conn' = [Unleased(conn) EXCEPT !.committed = run[r].gen,
                                               !.continuation = run[r].partial]
      BY <1>5 DEF CompleteAttempt, Complete
    <3>4. [Unleased(conn) EXCEPT !.committed = run[r].gen, !.continuation = run[r].partial]
            \in Connection
      BY <3>1, <3>2, FenceType
    <3> QED
      BY <3>1, <3>2, <3>3, <3>4 DEF connVars
  <2> QED
    BY <1>5, <2>1, <2>2 DEF CompleteAttempt, Complete, TypeOK, dataVars, envVars
<1>6. CASE EnqueueContinuation(r)
  <2>1. run' \in [Runs -> RunState]
    BY <1>6, ReturnType DEF EnqueueContinuation, Places
  <2>2. queue' \in Seq(Message) /\ budget' \in Budget
    BY <1>6, EnqueuedType, BudgetType DEF EnqueueContinuation, TypeOK
  <2> QED
    BY <1>6, <2>1, <2>2 DEF EnqueueContinuation, TypeOK, connVars, dataVars, envVars
<1> QED
  BY <1>2, <1>3, <1>4, <1>5, <1>6 DEF Promote

(* Every action of the provider, the queue, the workers and the commands      *)
(* keeps every variable in its type.                                          *)
LEMMA TypeStep == TypeOK /\ [Next]_vars => TypeOK'
<1> SUFFICES ASSUME TypeOK, [Next]_vars PROVE TypeOK'
  OBVIOUS
<1> USE SyncAssumption
<1>1. ASSUME NEW t \in Txns, NEW op \in Ops, ProviderUpdates(t, op) PROVE TypeOK'
  <2>1. [txn |-> t, op |-> op] \in Update
    BY DEF Update
  <2>2. feed' \in Seq(Update)
    BY <1>1, <2>1 DEF ProviderUpdates, TypeOK
  <2> QED
    BY <1>1, <2>2 DEF ProviderUpdates, TypeOK, connVars, dataVars
<1>2. CASE RequestConnectionSync
  BY <1>2, EnqueuedType, BudgetType DEF RequestConnectionSync, TypeOK, connVars, dataVars, envVars
<1>3. CASE CronEnqueueActiveSyncs
  BY <1>3, EnqueuedType, BudgetType DEF CronEnqueueActiveSyncs, TypeOK, connVars, dataVars, envVars
<1>4. ASSUME NEW required \in BOOLEAN, ReauthWebhook(required) PROVE TypeOK'
  BY <1>4, BudgetType, FenceType DEF ReauthWebhook, TypeOK, dataVars, envVars
<1>5. CASE DisconnectBegin
  BY <1>5, BudgetType, FenceType DEF DisconnectBegin, TypeOK, dataVars, envVars
<1>6. CASE DisconnectComplete
  <2>1. budget' \in Budget
    BY <1>6, BudgetType DEF DisconnectComplete, TypeOK
  <2>2. conn' \in Connection
    BY <1>6 DEF DisconnectComplete, Connection, Statuses, TypeOK
  <2> QED
    BY <1>6, <2>1, <2>2 DEF DisconnectComplete, TypeOK, dataVars, envVars
<1>7. CASE WebhookRecordDelivery
  BY <1>7, EnqueuedType DEF WebhookRecordDelivery, TypeOK, connVars, dataVars
<1>8. CASE LeaseExpires
  BY <1>8 DEF LeaseExpires, TypeOK, Connection, dataVars, envVars
<1>9. ASSUME NEW m \in 1 .. Len(queue), VisibilityTimeout(m) PROVE TypeOK'
  <2>1. queue' \in Seq(Message)
    <3>1. queue \in Seq(Message) /\ m \in Nat
      BY DEF TypeOK
    <3> QED
      BY <1>9, <3>1, MarkedType DEF VisibilityTimeout
  <2> QED
    BY <1>9, <2>1 DEF VisibilityTimeout, TypeOK, connVars, dataVars, envVars
<1>10. ASSUME NEW m \in 1 .. Len(queue), NEW r \in Runs, Drain(r, m) PROVE TypeOK'
  <2> DEFINE n == IF queue[m].reads < MaxAttempts THEN queue[m].reads + 1 ELSE queue[m].reads
             q == [queue EXCEPT ![m] = [@ EXCEPT !.st = "hidden", !.reads = n]]
  <2>1. queue[m] \in Message /\ n \in Nat
    <3>1. queue[m] \in Message
      BY DEF TypeOK
    <3>2. queue[m].reads \in Nat
      BY <3>1 DEF Message
    <3> QED
      BY <3>1, <3>2
  <2>2. queue' = q
    BY <1>10 DEF Drain
  <2>3. [queue[m] EXCEPT !.st = "hidden", !.reads = n] \in Message
    BY <2>1 DEF Message
  <2> HIDE DEF n
  <2>4. queue' \in Seq(Message) /\ queue'[m].reads \in Nat
    <3>1. queue' \in Seq(Message) /\ queue'[m] \in Message
      BY <2>2, <2>3, SetType DEF TypeOK
    <3> QED
      BY <3>1 DEF Message
  <2>5. Entering("read", m, queue'[m].reads) \in RunState
    BY <2>4, EnteringType DEF Places
  <2> QED
    BY <1>10, <2>4, <2>5, BecomeType DEF Drain, TypeOK, connVars, dataVars, envVars
<1>11. ASSUME NEW r \in Runs, Crash(r) PROVE TypeOK'
  BY <1>11, BudgetType, EnteringType, BecomeType
  DEF Crash, IdleRun, Places, TypeOK, connVars, dataVars, envVars
<1>12. ASSUME NEW r \in Runs, Work(r) PROVE TypeOK'
  <2>0. run[r] \in RunState /\ conn \in Connection /\ conn.desired \in Nat /\ cursor \in Nat
    BY DEF TypeOK, Connection
  <2>1. CASE ReadConnection(r)
    BY <2>1, GotoType DEF ReadConnection, Places, TypeOK, connVars, dataVars, envVars
  <2>2. CASE BumpGeneration(r)
    <3>1. conn' \in Connection
      BY <2>2, FenceType DEF BumpGeneration, TypeOK
    <3> QED
      BY <2>2, <3>1, GotoType DEF BumpGeneration, Places, TypeOK, dataVars, envVars
  <2>3. CASE RefuseLease(r)
    BY <2>3, ReturnType DEF RefuseLease, Places, TypeOK, connVars, dataVars, envVars
  <2>4. CASE AcquireLease(r)
    <3>1. [run[r] EXCEPT !.pc = "open", !.base = cursor, !.upto = cursor] \in RunState
      BY <2>0 DEF RunState, Places
    <3>2. conn' \in Connection
      BY <2>4 DEF AcquireLease, TypeOK, Connection
    <3> QED
      BY <2>4, <3>1, <3>2, BecomeType DEF AcquireLease, TypeOK, dataVars, envVars
  <2>5. CASE OpenAttempt(r)
    <3>1. [run[r] EXCEPT !.pc = "fetch", !.gen = conn.desired] \in RunState
      BY <2>0 DEF RunState, Places
    <3> QED
      BY <2>5, <3>1, BecomeType, ReturnType
      DEF OpenAttempt, Places, TypeOK, connVars, dataVars, envVars
  <2>6. CASE RenewLease(r)
    <3>1. [run[r] EXCEPT !.renewed = TRUE] \in RunState
      BY <2>0 DEF RunState
    <3>2. conn' \in Connection
      BY <2>6 DEF RenewLease, TypeOK, Connection
    <3> QED
      BY <2>6, <3>1, <3>2, BecomeType, ThrowType DEF RenewLease, TypeOK, dataVars, envVars
  <2>7. CASE Pull(r)
    BY <2>7, PullType DEF TypeOK
  <2>8. CASE Promote(r)
    BY <2>8, PromoteType
  <2>9. CASE AbandonAndRelease(r)
    <3>1. conn' \in Connection
      BY <2>9, FenceType DEF AbandonAndRelease, TypeOK
    <3> QED
      BY <2>9, <3>1, ReturnType DEF AbandonAndRelease, Places, TypeOK, dataVars, envVars
  <2>10. CASE MarkReauth(r)
    BY <2>10, FenceType, ReturnType DEF MarkReauth, Places, TypeOK, dataVars, envVars
  <2>11. CASE Settle(r)
    <3>1. run[r].msg \in Nat /\ IdleRun \in RunState
      BY EnteringType DEF TypeOK, RunState, IdleRun, Places
    <3>2. queue' \in Seq(Message)
      BY <2>11, <3>1, ArchivedType DEF Settle, TypeOK
    <3> QED
      BY <2>11, <3>1, <3>2, BecomeType DEF Settle, TypeOK, connVars, dataVars, envVars
  <2> QED
    BY <1>12, <2>1, <2>2, <2>3, <2>4, <2>5, <2>6, <2>7, <2>8, <2>9, <2>10, <2>11 DEF Work
<1>13. CASE UNCHANGED vars
  BY <1>13 DEF vars, TypeOK
<1> QED
  BY <1>1, <1>2, <1>3, <1>4, <1>5, <1>6, <1>7, <1>8, <1>9, <1>10, <1>11, <1>12, <1>13
  DEF Next, Environment

(* Every variable keeps its type in every reachable state. *)
THEOREM TypeCorrect == Spec => []TypeOK
<1>1. Init => TypeOK
  <2> SUFFICES ASSUME Init PROVE TypeOK
    OBVIOUS
  <2> USE SyncAssumption DEF Init
  <2>1. conn \in Connection
    BY DEF Connection, Statuses
  <2>2. run \in [Runs -> RunState]
    BY EnteringType DEF IdleRun, Places
  <2>3. book \in [Txns -> Entry]
    BY DEF Entry
  <2>4. budget \in Budget
    BY DEF Budget
  <2>5. queue \in Seq(Message) /\ feed \in Seq(Update) /\ cmds \subseteq Nat \X Txns
    OBVIOUS
  <2> QED
    BY <2>1, <2>2, <2>3, <2>4, <2>5, Zenon DEF TypeOK
<1> QED
  BY <1>1, TypeStep, PTL DEF Spec

-----------------------------------------------------------------------------
(* The windows of the runs *)

(* A step that leaves the cursor and the feed alone, gives the lease to no    *)
(* one, and changes at most the run r, whose window it keeps inside the feed. *)
LEMMA WindowsKept ==
  ASSUME TypeOK, WindowsOK, NEW r \in Runs,
         \A q \in Runs \ {r} : run'[q] = run[q],
         cursor' = cursor, feed' = feed, conn'.owner \in {conn.owner, None},
         run'[r].pc \in Pulling =>
           /\ run[r].pc \in Pulling
           /\ run'[r].base = run[r].base
           /\ run[r].base <= run'[r].upto /\ run'[r].upto <= Len(feed)
  PROVE  WindowsOK'
<1>1. cursor' <= Len(feed')
  BY DEF WindowsOK
<1>2. ASSUME NEW q \in Runs, run'[q].pc \in Pulling
      PROVE  /\ run'[q].base <= run'[q].upto /\ run'[q].upto <= Len(feed')
             /\ conn'.owner = q => run'[q].base = cursor'
  <2>1. conn'.owner = q => conn.owner = q
    BY SyncAssumption
  <2> QED
    BY <1>2, <2>1 DEF WindowsOK
<1> QED
  BY <1>1, <1>2 DEF WindowsOK

LEMMA WindowStep == TypeOK /\ WindowsOK /\ [Next]_vars => WindowsOK'
<1> SUFFICES ASSUME TypeOK, WindowsOK, [Next]_vars PROVE WindowsOK'
  OBVIOUS
<1> USE SyncAssumption
<1>1. ASSUME NEW t \in Txns, NEW op \in Ops, ProviderUpdates(t, op) PROVE WindowsOK'
  <2>1. Len(feed') = Len(feed) + 1 /\ UNCHANGED <<conn, cursor, run>>
    BY <1>1 DEF ProviderUpdates, TypeOK, connVars
  <2>2. cursor \in Nat /\ Len(feed) \in Nat /\ \A r \in Runs : run[r].upto \in Nat
    BY DEF TypeOK, RunState
  <2> QED
    BY <2>1, <2>2 DEF WindowsOK
<1>2. CASE RequestConnectionSync \/ CronEnqueueActiveSyncs \/ WebhookRecordDelivery
  BY <1>2 DEF RequestConnectionSync, CronEnqueueActiveSyncs, WebhookRecordDelivery,
              WindowsOK, connVars, envVars
<1>3. ASSUME UNCHANGED <<cursor, run, feed>>, conn'.owner \in {conn.owner, None} PROVE WindowsOK'
  BY <1>3 DEF WindowsOK
<1>4. ASSUME NEW c \in Connection
      PROVE  /\ Unleased(c).owner = None
             /\ \A required \in BOOLEAN : Reauth(c, required).owner \in {c.owner, None}
  BY DEF Unleased, Reauth, Connection
<1>5. ASSUME NEW required \in BOOLEAN, ReauthWebhook(required) PROVE WindowsOK'
  BY <1>3, <1>4, <1>5 DEF ReauthWebhook, TypeOK, envVars
<1>6. CASE DisconnectBegin
  BY <1>3, <1>4, <1>6 DEF DisconnectBegin, TypeOK, Connection, Unleased, envVars
<1>7. CASE DisconnectComplete \/ LeaseExpires
  BY <1>3, <1>7 DEF DisconnectComplete, LeaseExpires, TypeOK, Connection, envVars
<1>8. ASSUME NEW m \in 1 .. Len(queue), VisibilityTimeout(m) PROVE WindowsOK'
  BY <1>3, <1>8 DEF VisibilityTimeout, connVars, envVars
<1>9. ASSUME NEW r \in Runs, NEW m, Drain(r, m) PROVE WindowsOK'
  <2>1. run'[r].pc = "read" /\ \A q \in Runs \ {r} : run'[q] = run[q]
    BY <1>9 DEF Drain, Become, Entering, TypeOK
  <2> QED
    BY <1>9, <2>1, WindowsKept DEF Drain, Pulling, connVars, envVars
<1>10. ASSUME NEW r \in Runs, Crash(r) \/ Settle(r) PROVE WindowsOK'
  <2>1. run'[r].pc = "idle" /\ \A q \in Runs \ {r} : run'[q] = run[q]
    BY <1>10 DEF Crash, Settle, Become, IdleRun, Entering, TypeOK
  <2> QED
    BY <1>10, <2>1, WindowsKept DEF Crash, Settle, Pulling, connVars, envVars
<1>11. ASSUME NEW r \in Runs, ReadConnection(r) \/ BumpGeneration(r) PROVE WindowsOK'
  <2>1. run'[r].pc \in {"bump", "acquire"} /\ \A q \in Runs \ {r} : run'[q] = run[q]
    BY <1>11 DEF ReadConnection, BumpGeneration, Goto, Become, TypeOK, RunState
  <2>2. conn'.owner = conn.owner /\ UNCHANGED <<cursor, feed>>
    BY <1>11 DEF ReadConnection, BumpGeneration, connVars, envVars, TypeOK, Connection
  <2> QED
    BY <2>1, <2>2, WindowsKept DEF Pulling
<1>12. ASSUME NEW r \in Runs, RefuseLease(r) PROVE WindowsOK'
  <2>1. run'[r].pc \in {"ok", "fail", "retry"} /\ \A q \in Runs \ {r} : run'[q] = run[q]
    BY <1>12, ReturnType DEF RefuseLease, Places
  <2> QED
    BY <1>12, <2>1, WindowsKept DEF RefuseLease, Pulling, connVars, envVars
<1>13. ASSUME NEW r \in Runs, AcquireLease(r) PROVE WindowsOK'
  <2> DEFINE s == [run[r] EXCEPT !.pc = "open", !.base = cursor, !.upto = cursor]
  <2>1. run[r] \in RunState
    BY DEF TypeOK
  <2>2. s \in RunState /\ s.base = cursor /\ s.upto = cursor
    BY <2>1 DEF RunState, Places, TypeOK
  <2>3. run'[r] = s /\ \A q \in Runs \ {r} : run'[q] = run[q]
    BY <1>13, <2>2, BecomeType DEF AcquireLease
  <2>4. conn'.owner = r /\ UNCHANGED <<cursor, feed>>
    BY <1>13 DEF AcquireLease, TypeOK, Connection, envVars
  <2> HIDE DEF s
  <2>5. cursor \in Nat
    BY DEF TypeOK
  <2> QED
    BY <2>2, <2>3, <2>4, <2>5 DEF WindowsOK
<1>14. ASSUME NEW r \in Runs, NEW s, Become(r, s), s.base = run[r].base, s.upto = run[r].upto,
              run[r].pc \in Pulling, UNCHANGED <<cursor, feed>>, conn'.owner = conn.owner
       PROVE  WindowsOK'
  <2>1. run'[r] = s /\ \A q \in Runs \ {r} : run'[q] = run[q]
    BY <1>14, BecomeOf
  <2>2. run[r].base <= run[r].upto /\ run[r].upto <= Len(feed)
    BY <1>14 DEF WindowsOK
  <2> HIDE DEF WindowsOK
  <2> QED
    BY <1>14, <2>1, <2>2, WindowsKept
<1>15. ASSUME NEW r \in Runs, NEW code \in BOOLEAN, Throw(r, code),
              UNCHANGED <<cursor, feed>>, conn'.owner = conn.owner
       PROVE  WindowsOK'
  BY <1>15, ThrowType, WindowsKept DEF Pulling
<1>16. ASSUME NEW r \in Runs, OpenAttempt(r) PROVE WindowsOK'
  <2> DEFINE s == [run[r] EXCEPT !.pc = "fetch", !.gen = conn.desired]
  <2>1. s.base = run[r].base /\ s.upto = run[r].upto
    BY DEF TypeOK, RunState
  <2>2. run[r].pc = "open" /\ UNCHANGED <<conn, cursor, feed>>
    BY <1>16 DEF OpenAttempt, connVars, envVars
  <2>3. CASE Become(r, s)
    BY <1>14, <2>1, <2>2, <2>3 DEF Pulling
  <2>4. CASE Return(r, "fail")
    BY <2>2, <2>4, ReturnType, WindowsKept DEF Pulling, Places
  <2> QED
    BY <1>16, <2>3, <2>4 DEF OpenAttempt
<1>17. ASSUME NEW r \in Runs, RenewLease(r) PROVE WindowsOK'
  <2> DEFINE s == [run[r] EXCEPT !.renewed = TRUE]
  <2>1. s.base = run[r].base /\ s.upto = run[r].upto
    BY DEF TypeOK, RunState
  <2>2. run[r].pc \in Pulling /\ UNCHANGED <<cursor, feed>> /\ conn'.owner = conn.owner
    BY <1>17 DEF RenewLease, Pulling, TypeOK, Connection, envVars
  <2>3. Become(r, s) \/ Throw(r, FALSE)
    BY <1>17 DEF RenewLease
  <2> QED
    BY <1>14, <1>15, <2>1, <2>2, <2>3
<1>18. ASSUME NEW r \in Runs, FetchPage(r) PROVE WindowsOK'
  <2> DEFINE end      == PageEnd(r)
             more     == end < Len(feed)
             last     == ~more \/ run[r].pages + 1 = MaxPages
             pages    == IF last THEN 0 ELSE run[r].pages + 1
             restarts == IF last THEN 0 ELSE run[r].restarts
             place    == IF last THEN "archive" ELSE "fetch"
             s == [run[r] EXCEPT !.upto = end, !.renewed = FALSE, !.partial = more,
                                 !.pages = pages, !.restarts = restarts, !.pc = place]
  <2>0. Become(r, s)
    BY <1>18, Zenon DEF FetchPage
  <2>1. end = PageEnd(r)
    OBVIOUS
  <2> HIDE DEF end, more, last, pages, restarts, place
  <2>7. s.base = run[r].base /\ s.upto = end
    BY DEF TypeOK, RunState
  <2> HIDE DEF s
  <2>2. run[r].pc = "fetch" /\ UNCHANGED <<conn, cursor, feed>>
    BY <1>18 DEF FetchPage, Fetching, connVars, envVars
  <2>3. run[r].base <= run[r].upto /\ run[r].upto <= Len(feed)
    BY <2>2 DEF WindowsOK, Pulling
  <2>4. run[r].base \in Nat /\ run[r].upto \in Nat /\ Len(feed) \in Nat
    BY DEF TypeOK, RunState
  <2>5. run[r].base <= PageEnd(r) /\ PageEnd(r) <= Len(feed)
    BY <2>3, <2>4 DEF PageEnd
  <2>6. run'[r] = s /\ \A q \in Runs \ {r} : run'[q] = run[q]
    BY <2>0, BecomeOf
  <2> QED
    BY <2>1, <2>2, <2>5, <2>6, <2>7, WindowsKept DEF Pulling
<1>19. ASSUME NEW r \in Runs, FetchMutated(r) PROVE WindowsOK'
  <2> DEFINE s == [run[r] EXCEPT !.upto = run[r].base, !.pages = 0, !.renewed = FALSE,
                                 !.restarts = @ + 1]
  <2>1. s.base = run[r].base /\ s.upto = run[r].base
    BY DEF TypeOK, RunState
  <2>2. run[r].pc = "fetch" /\ UNCHANGED <<conn, cursor, feed>>
    BY <1>19 DEF FetchMutated, Fetching, connVars, envVars
  <2>3. run[r].base <= run[r].upto /\ run[r].upto <= Len(feed)
    BY <2>2 DEF WindowsOK, Pulling
  <2>4. run[r].base \in Nat /\ run[r].upto \in Nat /\ Len(feed) \in Nat
    BY DEF TypeOK, RunState
  <2>5. Become(r, s) \/ Throw(r, FALSE)
    BY <1>19 DEF FetchMutated
  <2> HIDE DEF s
  <2>6. CASE Become(r, s)
    <3>1. run'[r] = s /\ \A q \in Runs \ {r} : run'[q] = run[q]
      BY <2>6, BecomeOf
    <3> QED
      BY <2>1, <2>2, <2>3, <2>4, <3>1, WindowsKept DEF Pulling
  <2> QED
    BY <1>15, <2>2, <2>5, <2>6
<1>20. ASSUME NEW r \in Runs, NEW code \in BOOLEAN, FetchFails(r, code) PROVE WindowsOK'
  BY <1>15, <1>20 DEF FetchFails, connVars, envVars
<1>21. ASSUME NEW r \in Runs, FetchDisabled(r) PROVE WindowsOK'
  <2> DEFINE s == [run[r] EXCEPT !.pc = "lookup"]
  <2>1. s.base = run[r].base /\ s.upto = run[r].upto
    BY DEF TypeOK, RunState
  <2> QED
    BY <1>14, <1>21, <2>1 DEF FetchDisabled, Goto, Pulling, connVars, envVars
<1>22. ASSUME NEW r \in Runs, ArchivePages(r) PROVE WindowsOK'
  <2> DEFINE s == [run[r] EXCEPT !.pc = "lookup", !.renewed = FALSE]
  <2>1. s.base = run[r].base /\ s.upto = run[r].upto
    BY DEF TypeOK, RunState
  <2>2. Become(r, s) \/ Throw(r, FALSE)
    BY <1>22 DEF ArchivePages
  <2> QED
    BY <1>14, <1>15, <1>22, <2>1, <2>2 DEF ArchivePages, Pulling, connVars, envVars
<1>23. ASSUME NEW r \in Runs, LookupState(r) PROVE WindowsOK'
  <2> DEFINE s == [run[r] EXCEPT !.pc = "normalize", !.todo = Plan(run[r].base, run[r].upto)]
  <2>1. s.base = run[r].base /\ s.upto = run[r].upto
    BY DEF TypeOK, RunState
  <2>2. Become(r, s) \/ Throw(r, FALSE)
    BY <1>23 DEF LookupState
  <2> QED
    BY <1>14, <1>15, <1>23, <2>1, <2>2 DEF LookupState, Pulling, connVars, envVars
<1>24. ASSUME NEW r \in Runs, NEW a, CreateNormalized(r, a) PROVE WindowsOK'
  <2> DEFINE s == [run[r] EXCEPT !.pc = "apply", !.cur = a, !.renewed = FALSE, !.todo = @ \ {a}]
  <2>1. s.base = run[r].base /\ s.upto = run[r].upto
    BY DEF TypeOK, RunState
  <2>2. Become(r, s) \/ Throw(r, FALSE)
    BY <1>24 DEF CreateNormalized
  <2> QED
    BY <1>14, <1>15, <1>24, <2>1, <2>2 DEF CreateNormalized, Pulling, connVars, envVars
<1>25. ASSUME NEW r \in Runs, ApplyAction(r) PROVE WindowsOK'
  <2> DEFINE s == [run[r] EXCEPT !.pc = "normalize", !.cur = None]
  <2>1. s.base = run[r].base /\ s.upto = run[r].upto
    BY DEF TypeOK, RunState
  <2>2. Become(r, s) \/ Throw(r, FALSE)
    BY <1>25 DEF ApplyAction
  <2> QED
    BY <1>14, <1>15, <1>25, <2>1, <2>2 DEF ApplyAction, Pulling, connVars, envVars
<1>26. ASSUME NEW r \in Runs, CompleteAttempt(r) PROVE WindowsOK'
  <2>1. CASE HoldsLease(r) /\ run[r].gen >= conn.desired
    <3>1. /\ cursor' = run[r].upto /\ feed' = feed
          /\ \/ Return(r, "continue")
             \/ Return(r, "ok")
      BY <1>26, <2>1 DEF CompleteAttempt, Complete, envVars
    <3>2. run[r].pc = "normalize" /\ run[r].upto <= Len(feed)
      BY <1>26 DEF CompleteAttempt, WindowsOK, Pulling
    <3>3. conn'.owner = None
      BY <1>26, <2>1 DEF CompleteAttempt, Complete, Unleased, TypeOK, Connection
    <3>4. run'[r].pc \notin Pulling /\ \A q \in Runs \ {r} : run'[q] = run[q]
      BY <3>1, ReturnType DEF Pulling, Places
    <3> QED
      BY <3>1, <3>2, <3>3, <3>4 DEF WindowsOK
  <2>2. CASE ~(HoldsLease(r) /\ run[r].gen >= conn.desired)
    BY <1>15, <1>26, <2>2 DEF CompleteAttempt, connVars, envVars
  <2> QED
    BY <2>1, <2>2
<1>27. ASSUME NEW r \in Runs, EnqueueContinuation(r) PROVE WindowsOK'
  <2>1. run'[r].pc \notin Pulling /\ \A q \in Runs \ {r} : run'[q] = run[q]
    BY <1>27, ReturnType DEF EnqueueContinuation, Pulling, Places
  <2> QED
    BY <1>27, <2>1, WindowsKept DEF EnqueueContinuation, connVars, envVars
<1>28. ASSUME NEW r \in Runs, AbandonAndRelease(r) \/ MarkReauth(r) PROVE WindowsOK'
  <2>1. run'[r].pc \notin Pulling /\ \A q \in Runs \ {r} : run'[q] = run[q]
    <3>1. Return(r, "reauth") \/ Return(r, "retry") \/ Return(r, "fail")
      BY <1>28 DEF AbandonAndRelease, MarkReauth
    <3> QED
      BY <3>1, ReturnType DEF Pulling, Places
  <2>2. conn'.owner \in {conn.owner, None}
    BY <1>4, <1>28 DEF AbandonAndRelease, MarkReauth, TypeOK
  <2> QED
    BY <1>28, <2>1, <2>2, WindowsKept DEF AbandonAndRelease, MarkReauth, envVars
<1>29. CASE UNCHANGED vars
  BY <1>29 DEF vars, WindowsOK
<1> QED
  BY <1>1, <1>2, <1>5, <1>6, <1>7, <1>8, <1>9, <1>10, <1>11, <1>12, <1>13, <1>16, <1>17, <1>18,
     <1>19, <1>20, <1>21, <1>22, <1>23, <1>24, <1>25, <1>26, <1>27, <1>28, <1>29
  DEF Next, Environment, Work, Pull, Promote

(* Every run's window stays inside the feed, and the owner of the lease works *)
(* from the committed cursor.                                                 *)
THEOREM Windows == Spec => []WindowsOK
<1>1. Init => WindowsOK
  BY EnteringType DEF Init, WindowsOK, IdleRun, Entering, Pulling
<1> QED
  BY <1>1, TypeCorrect, WindowStep, PTL DEF Spec

(* Only the completion of an attempt moves the cursor. *)
LEMMA CursorMoves ==
  ASSUME [Next]_vars, cursor' # cursor
  PROVE  \E r \in Runs : CompleteAttempt(r)
BY DEF Next, Environment, Work, Pull, Promote, ProviderUpdates, RequestConnectionSync,
       CronEnqueueActiveSyncs, ReauthWebhook, DisconnectBegin, DisconnectComplete,
       WebhookRecordDelivery, LeaseExpires, VisibilityTimeout, Drain, Crash, ReadConnection,
       BumpGeneration, RefuseLease, AcquireLease, OpenAttempt, RenewLease, FetchPage,
       FetchMutated, FetchFails, FetchDisabled, ArchivePages, LookupState,
       CreateNormalized, ApplyAction, EnqueueContinuation, AbandonAndRelease, MarkReauth,
       Settle, connVars, vars

(* The committed cursor never moves back: a completion that passes the lease  *)
(* check of keel_worker_complete_attempt commits a window that starts at it.  *)
THEOREM CursorNeverBack == Spec => CursorMonotone
<1>1. TypeOK /\ WindowsOK /\ [Next]_vars => [cursor' >= cursor]_cursor
  <2> SUFFICES ASSUME TypeOK, WindowsOK, Next, cursor' # cursor PROVE cursor' >= cursor
    BY DEF vars
  <2>1. PICK r \in Runs : CompleteAttempt(r)
    BY CursorMoves
  <2>2. HoldsLease(r) /\ run[r].pc = "normalize" /\ cursor' = run[r].upto
    BY <2>1 DEF CompleteAttempt, Complete, connVars
  <2>3. run[r].base = cursor /\ run[r].base <= run[r].upto
    BY <2>2 DEF WindowsOK, Pulling, HoldsLease
  <2> QED
    BY <2>2, <2>3
<1> QED
  BY <1>1, TypeCorrect, Windows, PTL DEF Spec, CursorMonotone

-----------------------------------------------------------------------------
(* Steps by what they do to the generations and the status. *)

(* An entered or left run answers for no generation. *)
LEMMA ReturnGen ==
  ASSUME TypeOK, NEW r \in Runs, NEW place, NEW code,
         Return(r, place) \/ Throw(r, code) \/ Become(r, IdleRun)
         \/ \E m, n : Become(r, Entering("read", m, n))
  PROVE  run'[r].gen = 0 /\ \A q \in Runs \ {r} : run'[q] = run[q]
<1>1. Leave(r, place).gen = 0 /\ [Leave(r, "abandon") EXCEPT !.reauth = code].gen = 0
      /\ IdleRun.gen = 0 /\ \A m, n : Entering("read", m, n).gen = 0
  BY DEF Leave, Entering, IdleRun
<1>2. PICK s : Become(r, s) /\ s.gen = 0
  BY <1>1 DEF Return, Throw
<1> QED
  BY <1>2, BecomeOf

LEMMA GenerationStep == TypeOK /\ GenerationsOrdered /\ [Next]_vars => GenerationsOrdered'
<1> SUFFICES ASSUME TypeOK, GenerationsOrdered, [Next]_vars PROVE GenerationsOrdered'
  OBVIOUS
<1> USE SyncAssumption
<1>0. /\ conn \in Connection /\ conn.desired \in Nat /\ conn.committed \in Nat
      /\ \A r \in Runs : run[r] \in RunState /\ run[r].gen \in Nat
  BY DEF TypeOK, Connection, RunState
<1>1. ASSUME conn'.desired \in Nat, conn.desired <= conn'.desired, conn'.committed <= conn'.desired,
             NEW r \in Runs, \A q \in Runs \ {r} : run'[q] = run[q],
             run'[r].gen \in {0, run[r].gen, conn.desired}
      PROVE  GenerationsOrdered'
  BY <1>0, <1>1 DEF GenerationsOrdered
<1>2. ASSUME conn'.desired \in Nat, conn.desired <= conn'.desired, conn'.committed <= conn'.desired, run' = run
      PROVE  GenerationsOrdered'
  BY <1>0, <1>2 DEF GenerationsOrdered
<1>3. conn.committed <= conn.desired /\ \A r \in Runs : run[r].gen <= conn.desired
  BY DEF GenerationsOrdered
<1>4. ASSUME NEW r \in Runs, NEW place, NEW code, conn' = conn,
             Return(r, place) \/ Throw(r, code) \/ Become(r, IdleRun)
             \/ \E m, n : Become(r, Entering("read", m, n))
      PROVE  GenerationsOrdered'
  BY <1>0, <1>1, <1>3, <1>4, ReturnGen
<1>5. ASSUME NEW r \in Runs, NEW s, Become(r, s), s.gen = run[r].gen, conn' = conn
      PROVE  GenerationsOrdered'
  BY <1>0, <1>1, <1>3, <1>5, BecomeOf
<1>6. ASSUME NEW r \in Runs, NEW place, Goto(r, place)
      PROVE  run'[r].gen = run[r].gen /\ \A q \in Runs \ {r} : run'[q] = run[q]
  <2>1. [run[r] EXCEPT !.pc = place].gen = run[r].gen
    BY <1>0 DEF RunState
  <2> QED
    BY <1>6, <2>1, BecomeOf DEF Goto
<1>7. ASSUME NEW c \in Connection
      PROVE  /\ Unleased(c).desired = c.desired /\ Unleased(c).committed = c.committed
             /\ \A required \in BOOLEAN :
                  /\ Reauth(c, required).desired \in {c.desired, c.desired + 1}
                  /\ Reauth(c, required).committed = c.committed
  BY DEF Unleased, Reauth, Connection
<1>8. CASE \E t \in Txns, op \in Ops : ProviderUpdates(t, op)
  BY <1>0, <1>2, <1>3, <1>8 DEF ProviderUpdates, connVars
<1>9. CASE RequestConnectionSync \/ CronEnqueueActiveSyncs \/ WebhookRecordDelivery
  BY <1>0, <1>2, <1>3, <1>9
  DEF RequestConnectionSync, CronEnqueueActiveSyncs, WebhookRecordDelivery, connVars
<1>10. ASSUME NEW required \in BOOLEAN, ReauthWebhook(required) PROVE GenerationsOrdered'
  <2>1. conn' = Reauth(conn, required) /\ run' = run
    BY <1>10 DEF ReauthWebhook
  <2> QED
    BY <1>0, <1>2, <1>3, <1>7, <2>1
<1>11. CASE DisconnectBegin
  BY <1>0, <1>2, <1>3, <1>11 DEF DisconnectBegin, Unleased, Connection
<1>12. CASE DisconnectComplete \/ LeaseExpires
  <2>1. conn'.desired = conn.desired /\ conn'.committed = conn.committed /\ run' = run
    BY <1>0, <1>12 DEF DisconnectComplete, LeaseExpires, Connection
  <2> QED
    BY <1>0, <1>2, <1>3, <2>1
<1>13. ASSUME NEW m \in 1 .. Len(queue), VisibilityTimeout(m) PROVE GenerationsOrdered'
  BY <1>0, <1>2, <1>3, <1>13 DEF VisibilityTimeout, connVars
<1>14. ASSUME NEW r \in Runs, NEW m, Drain(r, m) PROVE GenerationsOrdered'
  BY <1>4, <1>14 DEF Drain, connVars
<1>15. ASSUME NEW r \in Runs, Crash(r) \/ Settle(r) PROVE GenerationsOrdered'
  BY <1>4, <1>15 DEF Crash, Settle, connVars
<1>16. ASSUME NEW r \in Runs, ReadConnection(r) \/ BumpGeneration(r) PROVE GenerationsOrdered'
  <2>1. run'[r].gen = run[r].gen /\ \A q \in Runs \ {r} : run'[q] = run[q]
    BY <1>6, <1>16 DEF ReadConnection, BumpGeneration
  <2>2. conn'.desired \in {conn.desired, conn.desired + 1} /\ conn'.committed = conn.committed
    BY <1>0, <1>16 DEF ReadConnection, BumpGeneration, Connection, connVars
  <2> QED
    BY <1>0, <1>1, <1>3, <2>1, <2>2
<1>17. ASSUME NEW r \in Runs, RefuseLease(r) PROVE GenerationsOrdered'
  BY <1>4, <1>17 DEF RefuseLease, connVars
<1>18. ASSUME NEW r \in Runs, AcquireLease(r) PROVE GenerationsOrdered'
  <2> DEFINE s == [run[r] EXCEPT !.pc = "open", !.base = cursor, !.upto = cursor]
  <2>1. s.gen = run[r].gen
    BY <1>0 DEF RunState
  <2>2. Become(r, s) /\ conn'.desired = conn.desired /\ conn'.committed = conn.committed
    BY <1>0, <1>18 DEF AcquireLease, Connection
  <2> HIDE DEF s
  <2>3. run'[r].gen = run[r].gen /\ \A q \in Runs \ {r} : run'[q] = run[q]
    BY <2>1, <2>2, BecomeOf
  <2> QED
    BY <1>0, <1>1, <1>3, <2>2, <2>3
<1>19. ASSUME NEW r \in Runs, OpenAttempt(r) PROVE GenerationsOrdered'
  <2> DEFINE s == [run[r] EXCEPT !.pc = "fetch", !.gen = conn.desired]
  <2>1. s.gen = conn.desired
    BY <1>0 DEF RunState
  <2>2. conn' = conn /\ (Become(r, s) \/ Return(r, "fail"))
    BY <1>19 DEF OpenAttempt, connVars
  <2> HIDE DEF s
  <2>3. CASE Become(r, s)
    <3>1. run'[r].gen = conn.desired /\ \A q \in Runs \ {r} : run'[q] = run[q]
      BY <2>1, <2>3, BecomeOf
    <3> QED
      BY <1>0, <1>1, <1>3, <2>2, <3>1
  <2> QED
    BY <1>4, <2>2, <2>3
<1>20. ASSUME NEW r \in Runs, RenewLease(r) PROVE GenerationsOrdered'
  <2> DEFINE s == [run[r] EXCEPT !.renewed = TRUE]
  <2>1. s.gen = run[r].gen
    BY <1>0 DEF RunState
  <2>2. conn'.desired = conn.desired /\ conn'.committed = conn.committed
    BY <1>0, <1>20 DEF RenewLease, Connection
  <2>3. Become(r, s) \/ Throw(r, FALSE)
    BY <1>20 DEF RenewLease
  <2> HIDE DEF s
  <2>4. run'[r].gen \in {0, run[r].gen} /\ \A q \in Runs \ {r} : run'[q] = run[q]
    BY <2>1, <2>3, BecomeOf, ReturnGen
  <2> QED
    BY <1>0, <1>1, <1>3, <2>2, <2>4
<1>21. ASSUME NEW r \in Runs, FetchPage(r) PROVE GenerationsOrdered'
  <2> DEFINE end      == PageEnd(r)
             more     == end < Len(feed)
             last     == ~more \/ run[r].pages + 1 = MaxPages
             pages    == IF last THEN 0 ELSE run[r].pages + 1
             restarts == IF last THEN 0 ELSE run[r].restarts
             place    == IF last THEN "archive" ELSE "fetch"
             s == [run[r] EXCEPT !.upto = end, !.renewed = FALSE, !.partial = more,
                                 !.pages = pages, !.restarts = restarts, !.pc = place]
  <2>1. Become(r, s) /\ conn' = conn
    BY <1>21, Zenon DEF FetchPage, connVars
  <2> HIDE DEF end, more, last, pages, restarts, place
  <2>2. s.gen = run[r].gen
    BY <1>0 DEF RunState
  <2> HIDE DEF s
  <2> QED
    BY <1>5, <2>1, <2>2
<1>22. ASSUME NEW r \in Runs, FetchMutated(r) PROVE GenerationsOrdered'
  <2> DEFINE n == run[r].restarts + 1
             s == [run[r] EXCEPT !.upto = run[r].base, !.pages = 0, !.renewed = FALSE,
                                 !.restarts = n]
  <2>1. conn' = conn /\ (Become(r, s) \/ Throw(r, FALSE))
    BY <1>22 DEF FetchMutated, connVars
  <2> HIDE DEF n
  <2>2. s.gen = run[r].gen
    BY <1>0 DEF RunState
  <2> HIDE DEF s
  <2> QED
    BY <1>4, <1>5, <2>1, <2>2
<1>23. ASSUME NEW r \in Runs, NEW code \in BOOLEAN, FetchFails(r, code) PROVE GenerationsOrdered'
  BY <1>4, <1>23 DEF FetchFails, connVars
<1>24. ASSUME NEW r \in Runs, FetchDisabled(r) PROVE GenerationsOrdered'
  BY <1>0, <1>1, <1>3, <1>6, <1>24 DEF FetchDisabled, connVars
<1>25. ASSUME NEW r \in Runs, ArchivePages(r) PROVE GenerationsOrdered'
  <2> DEFINE s == [run[r] EXCEPT !.pc = "lookup", !.renewed = FALSE]
  <2>1. s.gen = run[r].gen
    BY <1>0 DEF RunState
  <2>2. conn' = conn /\ (Become(r, s) \/ Throw(r, FALSE))
    BY <1>25 DEF ArchivePages, connVars
  <2> HIDE DEF s
  <2> QED
    BY <1>4, <1>5, <2>1, <2>2
<1>26. ASSUME NEW r \in Runs, LookupState(r) PROVE GenerationsOrdered'
  <2> DEFINE s == [run[r] EXCEPT !.pc = "normalize", !.todo = Plan(run[r].base, run[r].upto)]
  <2>1. s.gen = run[r].gen
    BY <1>0 DEF RunState
  <2>2. conn' = conn /\ (Become(r, s) \/ Throw(r, FALSE))
    BY <1>26 DEF LookupState, connVars
  <2> HIDE DEF s
  <2> QED
    BY <1>4, <1>5, <2>1, <2>2
<1>27. ASSUME NEW r \in Runs, NEW a, CreateNormalized(r, a) PROVE GenerationsOrdered'
  <2> DEFINE s == [run[r] EXCEPT !.pc = "apply", !.cur = a, !.renewed = FALSE, !.todo = @ \ {a}]
  <2>1. s.gen = run[r].gen
    BY <1>0 DEF RunState
  <2>2. conn' = conn /\ (Become(r, s) \/ Throw(r, FALSE))
    BY <1>27 DEF CreateNormalized, connVars
  <2> HIDE DEF s
  <2> QED
    BY <1>4, <1>5, <2>1, <2>2
<1>28. ASSUME NEW r \in Runs, ApplyAction(r) PROVE GenerationsOrdered'
  <2> DEFINE s == [run[r] EXCEPT !.pc = "normalize", !.cur = None]
  <2>1. s.gen = run[r].gen
    BY <1>0 DEF RunState
  <2>2. conn' = conn /\ (Become(r, s) \/ Throw(r, FALSE))
    BY <1>28 DEF ApplyAction, connVars
  <2> HIDE DEF s
  <2> QED
    BY <1>4, <1>5, <2>1, <2>2
<1>29. ASSUME NEW r \in Runs, CompleteAttempt(r) PROVE GenerationsOrdered'
  <2>1. CASE HoldsLease(r) /\ run[r].gen >= conn.desired
    <3>1. /\ Return(r, "continue") \/ Return(r, "ok")
          /\ conn' = [Unleased(conn) EXCEPT !.committed = run[r].gen, !.continuation = run[r].partial]
      BY <1>29, <2>1 DEF CompleteAttempt, Complete
    <3>2. conn'.desired = conn.desired /\ conn'.committed = run[r].gen
      BY <1>0, <3>1 DEF Unleased, Connection
    <3>3. run'[r].gen = 0 /\ \A q \in Runs \ {r} : run'[q] = run[q]
      BY <3>1, ReturnGen
    <3> QED
      BY <1>0, <1>1, <1>3, <3>2, <3>3
  <2>2. CASE ~(HoldsLease(r) /\ run[r].gen >= conn.desired)
    BY <1>4, <1>29, <2>2 DEF CompleteAttempt, connVars
  <2> QED
    BY <2>1, <2>2
<1>30. ASSUME NEW r \in Runs, EnqueueContinuation(r) PROVE GenerationsOrdered'
  BY <1>4, <1>30 DEF EnqueueContinuation, connVars
<1>31. ASSUME NEW r \in Runs, AbandonAndRelease(r) \/ MarkReauth(r) PROVE GenerationsOrdered'
  <2>1. Return(r, "reauth") \/ Return(r, "retry") \/ Return(r, "fail")
    BY <1>31 DEF AbandonAndRelease, MarkReauth
  <2>2. conn'.desired \in {conn.desired, conn.desired + 1} /\ conn'.committed = conn.committed
    BY <1>0, <1>7, <1>31 DEF AbandonAndRelease, MarkReauth
  <2>3. run'[r].gen = 0 /\ \A q \in Runs \ {r} : run'[q] = run[q]
    BY <2>1, ReturnGen
  <2> QED
    BY <1>0, <1>1, <1>3, <2>2, <2>3
<1>32. CASE UNCHANGED vars
  BY <1>32 DEF vars, connVars, GenerationsOrdered
<1> QED
  BY <1>8, <1>9, <1>10, <1>11, <1>12, <1>13, <1>14, <1>15, <1>16, <1>17, <1>18, <1>19, <1>20, <1>21,
     <1>22, <1>23, <1>24, <1>25, <1>26, <1>27, <1>28, <1>29, <1>30, <1>31, <1>32
  DEF Next, Environment, Work, Pull, Promote

(* A generation is committed only after it was asked for, through crashes,    *)
(* fences and attempts opened for a generation that is superseded since.      *)
THEOREM GenerationsInOrder == Spec => []GenerationsOrdered
<1>1. Init => GenerationsOrdered
  BY DEF Init, GenerationsOrdered, IdleRun, Entering
<1> QED
  BY <1>1, TypeCorrect, GenerationStep, PTL DEF Spec

-----------------------------------------------------------------------------
(* The steps of a run, by what they do to its window and its plan. *)

Planning == {"normalize", "apply"}

SameWindow(r) ==
  /\ run'[r].msg = run[r].msg /\ run'[r].base = run[r].base
  /\ run'[r].upto = run[r].upto /\ run'[r].partial = run[r].partial

(* It reports success: after the disconnect, with the rest of the pull        *)
(* scheduled, or with the whole of it committed.                              *)
Ends(r) ==
  \/ conn.status = "disconnected"
  \/ queue' = Enqueued
  \/ run[r].pc = "normalize" /\ ~run[r].partial /\ conn.status = "active" /\ cursor' = run[r].upto

(* It is outside the pull. *)
Off(r) ==
  /\ run'[r].pc \notin Pulling
  /\ run'[r].pc # "idle" => run'[r].msg = run[r].msg
  /\ run'[r].pc = "ok" => Ends(r)
  /\ book' = book

Acquires(r) ==
  /\ AcquireLease(r)
  /\ run'[r].pc = "open" /\ run'[r].msg = run[r].msg
  /\ book' = book /\ cursor' = cursor

(* Fetching: the window of a run that archives it is known to be partial, or  *)
(* reached the end of the feed.                                               *)
Fetches(r) ==
  /\ run[r].pc \in Pulling \ Planning /\ run'[r].pc \in Pulling \ Planning
  /\ run'[r].msg = run[r].msg /\ run'[r].base = run[r].base
  /\ \/ run'[r].pc = "fetch"
     \/ run[r].pc = "fetch" /\ run'[r].pc = "archive" /\ (~run'[r].partial => run'[r].upto = Len(feed))
     \/ run[r].pc = "fetch" /\ run'[r].pc = "lookup" /\ conn.status = "disconnected"
     \/ run[r].pc = "archive" /\ run'[r].pc \in {"archive", "lookup"} /\ SameWindow(r)
  /\ book' = book /\ cursor' = cursor

Plans(r) ==
  /\ run[r].pc = "lookup" /\ run'[r].pc = "normalize" /\ SameWindow(r)
  /\ run'[r].todo = Plan(run[r].base, run[r].upto)
  /\ book' = book /\ cursor' = cursor

Renews(r) ==
  /\ run[r].pc = "normalize" /\ run'[r].pc = "normalize" /\ SameWindow(r)
  /\ run'[r].todo = run[r].todo
  /\ book' = book /\ cursor' = cursor

Takes(r, a) ==
  /\ run[r].pc = "normalize" /\ run'[r].pc = "apply" /\ SameWindow(r)
  /\ a \in run[r].todo /\ run'[r].todo = run[r].todo \ {a} /\ run'[r].cur = a
  /\ book' = book /\ cursor' = cursor

Applies(r) ==
  /\ run[r].pc = "apply" /\ run'[r].pc = "normalize" /\ SameWindow(r)
  /\ run'[r].todo = run[r].todo
  /\ Applicable(r)
  /\ book' = [book EXCEPT ![run[r].cur.txn] =
                [st |-> IF run[r].cur.kind = "void" THEN "voided" ELSE "live",
                 asOf |-> run[r].upto]]
  /\ cursor' = cursor

WorkShape(r) ==
  /\ \A q \in Runs \ {r} : run'[q] = run[q]
  /\ feed' = feed
  /\ \/ Off(r) \/ Acquires(r) \/ Fetches(r) \/ Plans(r) \/ Renews(r)
     \/ (\E a \in Actions : Takes(r, a)) \/ Applies(r)

LEMMA WorkSteps ==
  ASSUME TypeOK, NEW r \in Runs, Work(r)
  PROVE  WorkShape(r)
<1> USE SyncAssumption
<1>0. run[r] \in RunState
  BY DEF TypeOK
<1>1. ASSUME NEW place \in Places \ {"apply"}, Return(r, place), place \notin Pulling,
             place = "ok" => Ends(r), UNCHANGED <<feed, book>>
      PROVE  WorkShape(r)
  <2>1. Leave(r, place).pc = place /\ Leave(r, place).msg = run[r].msg
    BY DEF Leave, Entering
  <2>2. run'[r] = Leave(r, place) /\ \A q \in Runs \ {r} : run'[q] = run[q]
    BY <1>1, BecomeOf DEF Return
  <2> QED
    BY <1>1, <2>1, <2>2 DEF WorkShape, Off
<1>2. ASSUME NEW code \in BOOLEAN, Throw(r, code), UNCHANGED <<feed, book>>
      PROVE  WorkShape(r)
  <2> DEFINE s == [Leave(r, "abandon") EXCEPT !.reauth = code]
  <2>1. s.pc = "abandon" /\ s.msg = run[r].msg
    BY DEF Leave, Entering
  <2> HIDE DEF s
  <2>2. run'[r] = s /\ \A q \in Runs \ {r} : run'[q] = run[q]
    BY <1>2, BecomeOf DEF Throw, s
  <2> QED
    BY <1>2, <2>1, <2>2 DEF WorkShape, Off, Pulling
<1>3. ASSUME NEW place \in {"bump", "acquire", "lookup"}, Goto(r, place), UNCHANGED <<feed, book>>
      PROVE  /\ run'[r].pc = place /\ SameWindow(r)
             /\ \A q \in Runs \ {r} : run'[q] = run[q]
  <2> DEFINE s == [run[r] EXCEPT !.pc = place]
  <2>1. /\ s.pc = place /\ s.msg = run[r].msg /\ s.base = run[r].base
        /\ s.upto = run[r].upto /\ s.partial = run[r].partial
    BY <1>0 DEF RunState
  <2> HIDE DEF s
  <2>2. run'[r] = s /\ \A q \in Runs \ {r} : run'[q] = run[q]
    BY <1>3, BecomeOf DEF Goto, s
  <2> QED
    BY <2>1, <2>2 DEF SameWindow
<1>4. CASE ReadConnection(r) \/ BumpGeneration(r)
  <2>1. UNCHANGED <<feed, book>> /\ \E place \in {"bump", "acquire"} : Goto(r, place)
    BY <1>4 DEF ReadConnection, BumpGeneration, dataVars, envVars
  <2> QED
    BY <1>3, <2>1 DEF WorkShape, Off, Pulling, SameWindow
<1>5. CASE RefuseLease(r)
  BY <1>1, <1>5 DEF RefuseLease, Places, Pulling, Ends, dataVars, envVars
<1>6. CASE AcquireLease(r)
  <2> DEFINE s == [run[r] EXCEPT !.pc = "open", !.base = cursor, !.upto = cursor]
  <2>1. s.pc = "open" /\ s.msg = run[r].msg
    BY <1>0 DEF RunState
  <2> HIDE DEF s
  <2>2. run'[r] = s /\ \A q \in Runs \ {r} : run'[q] = run[q]
    BY <1>6, BecomeOf DEF AcquireLease, s
  <2> QED
    BY <1>6, <2>1, <2>2 DEF WorkShape, Acquires, AcquireLease, dataVars, envVars
<1>7. CASE OpenAttempt(r)
  <2> DEFINE s == [run[r] EXCEPT !.pc = "fetch", !.gen = conn.desired]
  <2>1. s.pc = "fetch" /\ s.msg = run[r].msg /\ s.base = run[r].base
    BY <1>0 DEF RunState
  <2>2. run[r].pc = "open" /\ UNCHANGED <<feed, book, cursor>> /\ (Become(r, s) \/ Return(r, "fail"))
    BY <1>7 DEF OpenAttempt, connVars, dataVars, envVars
  <2> HIDE DEF s
  <2>3. CASE Become(r, s)
    <3>1. run'[r] = s /\ \A q \in Runs \ {r} : run'[q] = run[q]
      BY <2>3, BecomeOf
    <3> QED
      BY <2>1, <2>2, <3>1 DEF WorkShape, Fetches, Pulling, Planning
  <2>4. CASE Return(r, "fail")
    BY <1>1, <2>2, <2>4 DEF Places, Pulling
  <2> QED
    BY <2>2, <2>3, <2>4
<1>8. CASE RenewLease(r)
  <2> DEFINE s == [run[r] EXCEPT !.renewed = TRUE]
  <2>1. /\ s.pc = run[r].pc /\ s.msg = run[r].msg /\ s.base = run[r].base
        /\ s.upto = run[r].upto /\ s.partial = run[r].partial /\ s.todo = run[r].todo
    BY <1>0 DEF RunState
  <2>2. /\ run[r].pc \in {"fetch", "archive", "normalize"} /\ UNCHANGED <<feed, book, cursor>>
        /\ Become(r, s) \/ Throw(r, FALSE)
    BY <1>8 DEF RenewLease, dataVars, envVars
  <2> HIDE DEF s
  <2>3. CASE Become(r, s)
    <3>1. run'[r] = s /\ \A q \in Runs \ {r} : run'[q] = run[q]
      BY <2>3, BecomeOf
    <3> QED
      BY <2>1, <2>2, <3>1 DEF WorkShape, Fetches, Renews, SameWindow, Pulling, Planning
  <2> QED
    BY <1>2, <2>2, <2>3
<1>9. CASE FetchPage(r)
  <2> DEFINE end      == PageEnd(r)
             more     == end < Len(feed)
             last     == ~more \/ run[r].pages + 1 = MaxPages
             pages    == IF last THEN 0 ELSE run[r].pages + 1
             restarts == IF last THEN 0 ELSE run[r].restarts
             place    == IF last THEN "archive" ELSE "fetch"
             s == [run[r] EXCEPT !.upto = end, !.renewed = FALSE, !.partial = more,
                                 !.pages = pages, !.restarts = restarts, !.pc = place]
  <2>1. Become(r, s)
    BY <1>9, Zenon DEF FetchPage
  <2>2. place \in {"archive", "fetch"} /\ (~more => end = Len(feed))
    BY <1>0 DEF PageEnd, TypeOK, RunState
  <2>3. run[r].pc = "fetch" /\ UNCHANGED <<feed, book, cursor>>
    BY <1>9 DEF FetchPage, Fetching, connVars, dataVars, envVars
  <2> HIDE DEF end, more, last, pages, restarts, place
  <2>4. /\ s.pc = place /\ s.msg = run[r].msg /\ s.base = run[r].base
        /\ s.upto = end /\ s.partial = more
    BY <1>0 DEF RunState
  <2> HIDE DEF s
  <2>5. run'[r] = s /\ \A q \in Runs \ {r} : run'[q] = run[q]
    BY <2>1, BecomeOf
  <2> QED
    BY <2>2, <2>3, <2>4, <2>5 DEF WorkShape, Fetches, Pulling, Planning
<1>10. CASE FetchMutated(r)
  <2> DEFINE n == run[r].restarts + 1
             s == [run[r] EXCEPT !.upto = run[r].base, !.pages = 0, !.renewed = FALSE,
                                 !.restarts = n]
  <2>1. /\ run[r].pc = "fetch" /\ UNCHANGED <<feed, book, cursor>>
        /\ Become(r, s) \/ Throw(r, FALSE)
    BY <1>10 DEF FetchMutated, Fetching, connVars, dataVars, envVars
  <2> HIDE DEF n
  <2>2. s.pc = run[r].pc /\ s.msg = run[r].msg /\ s.base = run[r].base
    BY <1>0 DEF RunState
  <2> HIDE DEF s
  <2>3. CASE Become(r, s)
    <3>1. run'[r] = s /\ \A q \in Runs \ {r} : run'[q] = run[q]
      BY <2>3, BecomeOf
    <3> QED
      BY <2>1, <2>2, <3>1 DEF WorkShape, Fetches, Pulling, Planning
  <2> QED
    BY <1>2, <2>1, <2>3
<1>11. ASSUME NEW code \in BOOLEAN, FetchFails(r, code) PROVE WorkShape(r)
  BY <1>2, <1>11 DEF FetchFails, dataVars, envVars
<1>12. CASE FetchDisabled(r)
  <2>1. /\ run[r].pc = "fetch" /\ conn.status = "disconnected" /\ Goto(r, "lookup")
        /\ UNCHANGED <<feed, book, cursor>>
    BY <1>12 DEF FetchDisabled, connVars, dataVars, envVars
  <2> QED
    BY <1>3, <2>1 DEF WorkShape, Fetches, SameWindow, Pulling, Planning
<1>13. CASE ArchivePages(r)
  <2> DEFINE s == [run[r] EXCEPT !.pc = "lookup", !.renewed = FALSE]
  <2>1. /\ s.pc = "lookup" /\ s.msg = run[r].msg /\ s.base = run[r].base
        /\ s.upto = run[r].upto /\ s.partial = run[r].partial
    BY <1>0 DEF RunState
  <2>2. /\ run[r].pc = "archive" /\ UNCHANGED <<feed, book, cursor>>
        /\ Become(r, s) \/ Throw(r, FALSE)
    BY <1>13 DEF ArchivePages, connVars, dataVars, envVars
  <2> HIDE DEF s
  <2>3. CASE Become(r, s)
    <3>1. run'[r] = s /\ \A q \in Runs \ {r} : run'[q] = run[q]
      BY <2>3, BecomeOf
    <3> QED
      BY <2>1, <2>2, <3>1 DEF WorkShape, Fetches, SameWindow, Pulling, Planning
  <2> QED
    BY <1>2, <2>2, <2>3
<1>14. CASE LookupState(r)
  <2> DEFINE p == Plan(run[r].base, run[r].upto)
             s == [run[r] EXCEPT !.pc = "normalize", !.todo = p]
  <2>1. /\ run[r].pc = "lookup" /\ UNCHANGED <<feed, book, cursor>>
        /\ Become(r, s) \/ Throw(r, FALSE)
    BY <1>14 DEF LookupState, connVars, dataVars, envVars
  <2> HIDE DEF p
  <2>2. /\ s.pc = "normalize" /\ s.msg = run[r].msg /\ s.base = run[r].base
        /\ s.upto = run[r].upto /\ s.partial = run[r].partial /\ s.todo = p
    BY <1>0 DEF RunState
  <2> HIDE DEF s
  <2>3. CASE Become(r, s)
    <3>1. run'[r] = s /\ \A q \in Runs \ {r} : run'[q] = run[q]
      BY <2>3, BecomeOf
    <3> QED
      BY <2>1, <2>2, <3>1 DEF WorkShape, Plans, SameWindow, p
  <2> QED
    BY <1>2, <2>1, <2>3
<1>15. ASSUME NEW a \in Actions, CreateNormalized(r, a) PROVE WorkShape(r)
  <2> DEFINE todo == run[r].todo \ {a}
             s == [run[r] EXCEPT !.pc = "apply", !.cur = a, !.renewed = FALSE, !.todo = todo]
  <2>1. /\ run[r].pc = "normalize" /\ a \in run[r].todo /\ UNCHANGED <<feed, book, cursor>>
        /\ Become(r, s) \/ Throw(r, FALSE)
    BY <1>15 DEF CreateNormalized, NextAction, connVars, dataVars, envVars
  <2> HIDE DEF todo
  <2>2. /\ s.pc = "apply" /\ s.msg = run[r].msg /\ s.base = run[r].base /\ s.cur = a
        /\ s.upto = run[r].upto /\ s.partial = run[r].partial /\ s.todo = todo
    BY <1>0 DEF RunState
  <2> HIDE DEF s
  <2>3. CASE Become(r, s)
    <3>1. run'[r] = s /\ \A q \in Runs \ {r} : run'[q] = run[q]
      BY <2>3, BecomeOf
    <3> QED
      BY <2>1, <2>2, <3>1 DEF WorkShape, Takes, SameWindow, todo
  <2> QED
    BY <1>2, <2>1, <2>3
<1>16. CASE ApplyAction(r)
  <2> DEFINE s == [run[r] EXCEPT !.pc = "normalize", !.cur = None]
  <2>1. /\ s.pc = "normalize" /\ s.msg = run[r].msg /\ s.base = run[r].base
        /\ s.upto = run[r].upto /\ s.partial = run[r].partial /\ s.todo = run[r].todo
    BY <1>0 DEF RunState
  <2>2. run[r].pc = "apply" /\ UNCHANGED <<feed, cursor>>
    BY <1>16 DEF ApplyAction, connVars, envVars
  <2>3. CASE Applicable(r)
    <3>1. /\ Become(r, s)
          /\ book' = [book EXCEPT ![run[r].cur.txn] =
                [st |-> IF run[r].cur.kind = "void" THEN "voided" ELSE "live",
                 asOf |-> run[r].upto]]
      BY <1>16, <2>3, Zenon DEF ApplyAction
    <3> HIDE DEF s
    <3>2. run'[r] = s /\ \A q \in Runs \ {r} : run'[q] = run[q]
      BY <3>1, BecomeOf
    <3> QED
      BY <2>1, <2>2, <2>3, <3>1, <3>2 DEF WorkShape, Applies, SameWindow
  <2>4. CASE ~Applicable(r)
    BY <1>2, <1>16, <2>4 DEF ApplyAction, dataVars, envVars
  <2> QED
    BY <2>3, <2>4
<1>17. CASE CompleteAttempt(r)
  <2>1. CASE HoldsLease(r) /\ run[r].gen >= conn.desired
    BY <1>1, <1>17, <2>1
    DEF CompleteAttempt, Complete, HoldsLease, Ends, Places, Pulling, dataVars, envVars
  <2>2. CASE ~(HoldsLease(r) /\ run[r].gen >= conn.desired)
    BY <1>2, <1>17, <2>2 DEF CompleteAttempt, dataVars, envVars
  <2> QED
    BY <2>1, <2>2
<1>18. CASE EnqueueContinuation(r) \/ AbandonAndRelease(r) \/ MarkReauth(r)
  <2>1. /\ UNCHANGED <<feed, book>>
        /\ \E place \in {"ok", "retry", "reauth", "fail"} :
             Return(r, place) /\ (place = "ok" => Ends(r))
    BY <1>18 DEF Ends, EnqueueContinuation, AbandonAndRelease, MarkReauth, dataVars, envVars
  <2> QED
    BY <1>1, <2>1 DEF Places, Pulling
<1>19. CASE Settle(r)
  <2>1. IdleRun.pc = "idle"
    BY DEF IdleRun, Entering
  <2>2. run'[r] = IdleRun /\ \A q \in Runs \ {r} : run'[q] = run[q]
    BY <1>19, BecomeOf DEF Settle
  <2> QED
    BY <1>19, <2>1, <2>2 DEF Settle, WorkShape, Off, Pulling, dataVars, envVars
<1> QED
  BY <1>4, <1>5, <1>6, <1>7, <1>8, <1>9, <1>10, <1>11, <1>12, <1>13, <1>14, <1>15, <1>16, <1>17,
     <1>18, <1>19
  DEF Work, Pull, Promote
=============================================================================
