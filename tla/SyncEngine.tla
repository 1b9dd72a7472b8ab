----------------------------- MODULE SyncEngine -----------------------------
(***************************************************************************)
(* The pull side of one bank connection: the queue of sync notifications,  *)
(* the drain workers that handle them, the lease, generation and cursor    *)
(* kept on the connection row, and the canonical book the workers write.   *)
(*                                                                         *)
(* A "run" is one invocation of processSyncNotification for one message.   *)
(* Its name stands for the uuid it draws as lease owner and for the one    *)
(* sync attempt it may open; a name is drawn again only while it holds no  *)
(* lease, when nothing tells it from a fresh uuid.  Every RPC is a         *)
(* database transaction, hence one action; a run may stop between any two  *)
(* of them.                                                                *)
(***************************************************************************)
EXTENDS Integers, Sequences, FiniteSets

CONSTANTS
  Runs,          \* names of concurrent worker invocations
  Txns,          \* provider transaction ids
  None,          \* "no owner", "no action"
  PageSize,      \* provider updates per page
  MaxPages,      \* MAX_PAGES_PER_INVOCATION
  MaxRestarts,   \* MAX_LIVE_RESTARTS
  MaxAttempts,   \* MAX_ATTEMPTS before a message is dead-lettered
  Ops,           \* which provider updates occur: subset of {"add","mod","rem"}
  Stalls,        \* TRUE: a running worker may outlast its lease
  MaxFeed,       \* bound: provider updates
  MaxSends,      \* bound: manual and cron enqueues
  MaxFaults,     \* bound: crashes and failed calls
  MaxOutages     \* bound: reauthentications demanded, disconnects asked

ASSUME SyncAssumption ==
  /\ None \notin Runs /\ None \notin [txn : Txns, kind : {"create", "revise", "void"}]
  /\ PageSize \in Nat \ {0} /\ MaxPages \in Nat \ {0}
  /\ MaxRestarts \in Nat /\ MaxAttempts \in Nat \ {0}
  /\ Ops \subseteq {"add", "mod", "rem"}
  /\ Stalls \in BOOLEAN
  /\ MaxFeed \in Nat /\ MaxSends \in Nat /\ MaxFaults \in Nat /\ MaxOutages \in Nat

VARIABLES
  conn,     \* the connections row
  cursor,   \* sync_checkpoints.cursor, as a position in the provider's feed
  run,      \* the local state of each invocation, with its sync_attempts row
  queue,    \* pgmq queue sync_events, in msg_id order
  book,     \* canonical transaction of each provider id
  cmds,     \* command_executions: apply keys <<message, provider id>> used
  feed,     \* the provider's history of updates
  hooks,    \* TRUE: the provider has an update notification to deliver
  budget    \* what is left of the bounds on sends, faults and outages

connVars == <<conn, cursor>>
dataVars == <<book, cmds>>
envVars  == <<feed, hooks>>
vars == <<conn, cursor, run, queue, book, cmds, feed, hooks, budget>>

-----------------------------------------------------------------------------
(* State *)

Statuses == {"active", "reauth_required", "disconnecting", "disconnected"}
Actions  == [txn : Txns, kind : {"create", "revise", "void"}]
Places   == {"idle", "read", "bump", "acquire", "open", "fetch", "archive", "lookup",
             "normalize", "apply", "continue", "abandon", "reauth",
             "ok", "retry", "fail"}

Connection == [status : Statuses, desired : Nat, committed : Nat, owner : Runs \cup {None},
               leased : BOOLEAN, continuation : BOOLEAN,
               removal : {"none", "pending", "failed", "succeeded"}]
RunState == {s \in [pc : Places, msg : Nat, reads : Nat, base : Nat, upto : Nat, pages : Nat,
                    restarts : Nat, renewed : BOOLEAN, partial : BOOLEAN, reauth : BOOLEAN,
                    todo : SUBSET Actions, cur : Actions \cup {None}, gen : Nat] :
               s.pc = "apply" => s.cur \in Actions}
Message  == [st : {"visible", "hidden", "done", "dead"}, reads : Nat, asOf : Nat]
Entry    == [st : {"none", "live", "voided"}, asOf : Nat]
Budget   == [sends : Nat, faults : Nat, outages : Nat]
Update   == [txn : Txns, op : {"add", "mod", "rem"}]

Entering(place, m, n) ==
  [pc |-> place, msg |-> m, reads |-> n, base |-> 0, upto |-> 0, pages |-> 0,
   restarts |-> 0, renewed |-> FALSE, partial |-> FALSE, reauth |-> FALSE,
   todo |-> {}, cur |-> None, gen |-> 0]
IdleRun == Entering("idle", 0, 0)

Init ==
  /\ conn = [status |-> "active", desired |-> 0, committed |-> 0, owner |-> None,
             leased |-> FALSE, continuation |-> FALSE, removal |-> "none"]
  /\ cursor = 0
  /\ run = [r \in Runs |-> IdleRun]
  /\ queue = <<>>
  /\ book = [t \in Txns |-> [st |-> "none", asOf |-> 0]]
  /\ cmds = {}
  /\ feed = <<>> /\ hooks = FALSE
  /\ budget = [sends |-> MaxSends, faults |-> MaxFaults, outages |-> MaxOutages]

TypeOK ==
  /\ conn \in Connection
  /\ cursor \in Nat
  /\ run \in [Runs -> RunState]
  /\ queue \in Seq(Message)
  /\ book \in [Txns -> Entry]
  /\ cmds \subseteq Nat \X Txns
  /\ feed \in Seq(Update)
  /\ hooks \in BOOLEAN
  /\ budget \in Budget

Become(r, state) == run' = [run EXCEPT ![r] = state]
Goto(r, place) == Become(r, [run[r] EXCEPT !.pc = place])

(* Leave the pull: what it computed goes out of scope, the message stays. *)
Leave(r, place) == Entering(place, run[r].msg, run[r].reads)
Return(r, outcome) == Become(r, Leave(r, outcome))
Throw(r, code) == Become(r, [Leave(r, "abandon") EXCEPT !.reauth = code])

Send == /\ budget.sends > 0
        /\ budget' = [budget EXCEPT !.sends = @ - 1]
Fault == /\ budget.faults > 0
         /\ budget' = [budget EXCEPT !.faults = @ - 1]
Outage == /\ budget.outages > 0
          /\ budget' = [budget EXCEPT !.outages = @ - 1]

(* keel_enqueue / pgmq.send: asOf remembers how long the feed was. *)
Enqueued == Append(queue, [st |-> "visible", reads |-> 0, asOf |-> Len(feed)])

-----------------------------------------------------------------------------
(* The provider: each transaction is added, then modified, then removed.   *)
(* A window (lo, hi] of the feed is delivered as the net change of each     *)
(* transaction since the cursor lo, so it names a transaction at most once. *)

Happened(op, t, lo, hi) == \E i \in lo + 1 .. hi : feed[i].txn = t /\ feed[i].op = op
Touched(lo, hi) == {t \in Txns : \E i \in lo + 1 .. hi : feed[i].txn = t}
Unchanged(t, a, b) == \A i \in 1 .. Len(feed) :
                        (a < i /\ i <= b) \/ (b < i /\ i <= a) => feed[i].txn # t

Delivered(t, lo, hi) ==
  IF Happened("rem", t, lo, hi) THEN "removed"
  ELSE IF Happened("add", t, lo, hi) THEN "added" ELSE "modified"

ProviderUpdates(t, op) ==
  /\ op \in Ops /\ Len(feed) < MaxFeed
  /\ (op = "add") <=> ~Happened("add", t, 0, Len(feed))
  /\ ~Happened("rem", t, 0, Len(feed))
  /\ feed' = Append(feed, [txn |-> t, op |-> op])
  /\ hooks' = TRUE
  /\ UNCHANGED <<connVars, run, queue, dataVars, budget>>

-----------------------------------------------------------------------------
(* Producers of sync notifications. *)

(* keel_webhook_record_delivery: a delivery seen before enqueues nothing,   *)
(* so each notification of the provider becomes one message.                *)
WebhookRecordDelivery ==
  /\ hooks
  /\ hooks' = FALSE
  /\ queue' = Enqueued
  /\ UNCHANGED <<connVars, run, dataVars, feed, budget>>

(* keel_request_connection_sync: a member asks for a sync. *)
RequestConnectionSync ==
  /\ Send
  /\ queue' = Enqueued
  /\ UNCHANGED <<connVars, run, dataVars, envVars>>

CronEligible == /\ conn.status = "active"
                /\ conn.owner = None
                /\ conn.committed = conn.desired

(* keel_cron_enqueue_active_syncs *)
CronEnqueueActiveSyncs ==
  /\ CronEligible
  /\ Send
  /\ queue' = Enqueued
  /\ UNCHANGED <<connVars, run, dataVars, envVars>>

-----------------------------------------------------------------------------
(* The drain loop: read a message, handle it, archive or leave it. *)

(* pgmq.read hides the message for the visibility timeout and counts the read. *)
Drain(r, m) ==
  /\ run[r].pc = "idle" /\ ~(conn.owner = r /\ conn.leased)
  /\ queue[m].st = "visible"
  /\ queue' = [queue EXCEPT ![m].st = "hidden",
                            ![m].reads = IF @ < MaxAttempts THEN @ + 1 ELSE @]
  /\ Become(r, Entering("read", m, queue'[m].reads))
  /\ UNCHANGED <<connVars, dataVars, envVars, budget>>

(* VISIBILITY_TIMEOUT_S passes, shorter than a pull: the message may still  *)
(* be in the hands of a run when another one reads it.                      *)
VisibilityTimeout(m) ==
  /\ queue[m].st = "hidden"
  /\ queue' = [queue EXCEPT ![m].st = "visible"]
  /\ UNCHANGED <<connVars, run, dataVars, envVars, budget>>

Archived(m, how) ==
  IF queue[m].st \in {"visible", "hidden"} THEN [queue EXCEPT ![m].st = how] ELSE queue

(* Mutant: every message is archived, whatever its outcome. *)
SettleAlways(r) ==
  /\ run[r].pc \in {"ok", "retry", "fail"}
  /\ queue' = Archived(run[r].msg, "done")
  /\ Become(r, IdleRun)
  /\ UNCHANGED <<connVars, dataVars, envVars, budget>>

(* The end of the drain loop's body for one message. *)
Settle(r) ==
  /\ run[r].pc \in {"ok", "retry", "fail"}
  /\ queue' = CASE run[r].pc = "ok" -> Archived(run[r].msg, "done")
                [] run[r].pc = "fail" /\ run[r].reads >= MaxAttempts -> Archived(run[r].msg, "dead")
                [] OTHER -> queue
  /\ Become(r, IdleRun)
  /\ UNCHANGED <<connVars, dataVars, envVars, budget>>

(* The invocation dies; what it committed stays, the lease included. *)
Crash(r) ==
  /\ run[r].pc # "idle"
  /\ Fault
  /\ Become(r, IdleRun)
  /\ UNCHANGED <<connVars, queue, dataVars, envVars>>

-----------------------------------------------------------------------------
(* The lease.  Renewal checks the owner only; every other use also checks   *)
(* expiry and status.                                                       *)

HoldsLease(r) == conn.owner = r /\ conn.leased /\ conn.status = "active"
Unleased(c) == [c EXCEPT !.owner = None, !.leased = FALSE]

(* SYNC_LEASE_TTL_S passes without a renewal. *)
LeaseExpires ==
  /\ conn.leased
  /\ Stalls \/ run[conn.owner].pc = "idle"
  /\ conn' = [conn EXCEPT !.leased = FALSE]
  /\ UNCHANGED <<cursor, run, queue, dataVars, envVars, budget>>

(* Read the connection; a first notification asks for a new generation. *)
ReadConnection(r) ==
  /\ run[r].pc = "read"
  /\ Goto(r, IF conn.desired = conn.committed THEN "bump" ELSE "acquire")
  /\ UNCHANGED <<connVars, queue, dataVars, envVars, budget>>

(* keel_worker_bump_generation, in a transaction of its own *)
BumpGeneration(r) ==
  /\ run[r].pc = "bump"
  /\ conn' = [conn EXCEPT !.desired = @ + 1]
  /\ Goto(r, "acquire")
  /\ UNCHANGED <<cursor, queue, dataVars, envVars, budget>>

LeaseFree(r) == conn.owner \in {None, r} \/ ~conn.leased

(* keel_worker_acquire_sync_lease refused, and what the caller makes of it *)
RefuseLease(r) ==
  /\ run[r].pc = "acquire"
  /\ \/ conn.status = "disconnected" /\ Return(r, "ok")
     \/ conn.status \in {"reauth_required", "disconnecting"} /\ Return(r, "fail")
     \/ conn.status = "active" /\ ~LeaseFree(r) /\ Return(r, "retry")
  /\ UNCHANGED <<connVars, queue, dataVars, envVars, budget>>

AcquireLease(r) ==
  /\ run[r].pc = "acquire"
  /\ conn.status = "active" /\ LeaseFree(r)
  /\ conn' = [conn EXCEPT !.owner = r, !.leased = TRUE]
  /\ Become(r, [run[r] EXCEPT !.pc = "open", !.base = cursor, !.upto = cursor])
  /\ UNCHANGED <<cursor, queue, dataVars, envVars, budget>>

(* keel_worker_open_attempt: the attempt answers for the desired generation. *)
(* Its row is used by its own run only, which completes and promotes it in    *)
(* one transaction or abandons it, so the state column adds nothing to pc and *)
(* the promotion barrier of the lease never closes.                           *)
OpenAttempt(r) ==
  /\ run[r].pc = "open"
  /\ IF HoldsLease(r)
       THEN Become(r, [run[r] EXCEPT !.pc = "fetch", !.gen = conn.desired])
       ELSE Return(r, "fail")
  /\ UNCHANGED <<connVars, queue, dataVars, envVars, budget>>

(* renewLiveLease before each page, each action and the completion *)
RenewLease(r) ==
  /\ run[r].pc \in {"fetch", "archive", "normalize"} /\ ~run[r].renewed
  /\ IF conn.owner = r
       THEN /\ conn' = [conn EXCEPT !.leased = TRUE]
            /\ Become(r, [run[r] EXCEPT !.renewed = TRUE])
       ELSE Throw(r, FALSE) /\ UNCHANGED conn
  /\ UNCHANGED <<cursor, queue, dataVars, envVars, budget>>

-----------------------------------------------------------------------------
(* fetchSyncPagesLive: pages from the base cursor, up to the page limit.    *)

Fetching(r) == run[r].pc = "fetch" /\ run[r].renewed

PageEnd(r) == IF run[r].upto + PageSize < Len(feed) THEN run[r].upto + PageSize ELSE Len(feed)

FetchPage(r) ==
  /\ Fetching(r)
  /\ LET end  == PageEnd(r)
         more == end < Len(feed)
         last == ~more \/ run[r].pages + 1 = MaxPages
     IN Become(r, [run[r] EXCEPT !.upto = end, !.renewed = FALSE, !.partial = more,
                                 !.pages = IF last THEN 0 ELSE @ + 1,
                                 !.restarts = IF last THEN 0 ELSE @,
                                 !.pc = IF last THEN "archive" ELSE "fetch"])
  /\ UNCHANGED <<connVars, queue, dataVars, envVars, budget>>

(* TRANSACTIONS_SYNC_MUTATION_DURING_PAGINATION: start over from the base cursor *)
FetchMutated(r) ==
  /\ Fetching(r)
  /\ Fault
  /\ IF run[r].restarts >= MaxRestarts
       THEN Throw(r, FALSE)
       ELSE Become(r, [run[r] EXCEPT !.upto = run[r].base, !.pages = 0, !.renewed = FALSE,
                                     !.restarts = @ + 1])
  /\ UNCHANGED <<connVars, queue, dataVars, envVars>>

(* Any other failure of the call; some carry a reauthentication code. *)
FetchFails(r, code) ==
  /\ Fetching(r)
  /\ IF code THEN Outage ELSE Fault
  /\ Throw(r, code)
  /\ UNCHANGED <<connVars, queue, dataVars, envVars>>

(* The credential is gone: nothing to pull, the window is empty. *)
FetchDisabled(r) ==
  /\ run[r].pc = "fetch" /\ run[r].pages = 0 /\ run[r].restarts = 0 /\ ~run[r].renewed
  /\ conn.status = "disconnected"
  /\ Goto(r, "lookup")
  /\ UNCHANGED <<connVars, queue, dataVars, envVars, budget>>

(* keel_worker_archive_page for the pages of the window *)
ArchivePages(r) ==
  /\ run[r].pc = "archive" /\ run[r].renewed
  /\ IF HoldsLease(r)
       THEN Become(r, [run[r] EXCEPT !.pc = "lookup", !.renewed = FALSE])
       ELSE Throw(r, FALSE)
  /\ UNCHANGED <<connVars, queue, dataVars, envVars, budget>>

-----------------------------------------------------------------------------
(* Planning: reconcileSyncBatch over what keel_worker_lookup_state returns. *)

PlanAdded(t) == IF book[t].st = "none" THEN {[txn |-> t, kind |-> "create"]} ELSE {}

PlanModified(t, hi) ==
  IF book[t].st = "live" /\ ~Unchanged(t, book[t].asOf, hi)
    THEN {[txn |-> t, kind |-> "revise"]} ELSE {}

PlanRemoved(t) == IF book[t].st = "live" THEN {[txn |-> t, kind |-> "void"]} ELSE {}

PlanEvent(t, lo, hi) ==
  CASE Delivered(t, lo, hi) = "added"    -> PlanAdded(t)
    [] Delivered(t, lo, hi) = "modified" -> PlanModified(t, hi)
    [] Delivered(t, lo, hi) = "removed"  -> PlanRemoved(t)

(* The latest source record of a voided transaction is its tombstone, whose *)
(* amount is null; converting it to a BigInt throws.                        *)
Readable(t) == book[t].st # "voided"

Plan(lo, hi) == UNION {PlanEvent(t, lo, hi) : t \in Touched(lo, hi)}

LookupState(r) ==
  LET lo == run[r].base
      hi == run[r].upto
  IN /\ run[r].pc = "lookup"
     /\ IF \A t \in Touched(lo, hi) : Readable(t)
          THEN Become(r, [run[r] EXCEPT !.pc = "normalize", !.todo = Plan(lo, hi)])
          ELSE Throw(r, FALSE)
     /\ UNCHANGED <<connVars, queue, dataVars, envVars, budget>>

(* Creates come first, then revisions, then voids. *)
Rank == [create |-> 1, revise |-> 2, void |-> 3]
NextAction(r, a) == a \in run[r].todo /\ \A b \in run[r].todo : Rank[a.kind] <= Rank[b.kind]

(* keel_worker_create_normalized: the record an action is applied from *)
CreateNormalized(r, a) ==
  /\ run[r].pc = "normalize" /\ run[r].renewed
  /\ NextAction(r, a)
  /\ IF HoldsLease(r)
       THEN Become(r, [run[r] EXCEPT !.pc = "apply", !.cur = a, !.renewed = FALSE,
                                    !.todo = @ \ {a}])
       ELSE Throw(r, FALSE)
  /\ UNCHANGED <<connVars, queue, dataVars, envVars, budget>>

(* keel_worker_apply_action: checks the status of the connection, not the   *)
(* lease.  A create needs an unused economic key, a correction a live batch;*)
(* an apply key used before carries another record's hash and conflicts.    *)
(* Mutant: the status of the connection is not read again under its row lock. *)
ApplicableUnfenced(r) ==
  LET a == run[r].cur
  IN /\ <<run[r].msg, a.txn>> \notin cmds
     /\ book[a.txn].st = IF a.kind = "create" THEN "none" ELSE "live"

Applicable(r) ==
  LET a == run[r].cur
  IN /\ conn.status = "active"
     /\ <<run[r].msg, a.txn>> \notin cmds
     /\ book[a.txn].st = IF a.kind = "create" THEN "none" ELSE "live"

ApplyAction(r) ==
  LET a == run[r].cur
  IN /\ run[r].pc = "apply"
     /\ IF Applicable(r)
          THEN /\ book' = [book EXCEPT ![a.txn] =
                             [st |-> IF a.kind = "void" THEN "voided" ELSE "live",
                              asOf |-> run[r].upto]]
               /\ cmds' = cmds \cup {<<run[r].msg, a.txn>>}
               /\ Become(r, [run[r] EXCEPT !.pc = "normalize", !.cur = None])
          ELSE Throw(r, FALSE) /\ UNCHANGED dataVars
     /\ UNCHANGED <<connVars, queue, envVars, budget>>

-----------------------------------------------------------------------------
(* The end of an attempt. *)

(* keel_worker_complete_attempt: cursor, generation and lease move together *)
Complete(r, committed) ==
  /\ cursor' = run[r].upto
  /\ conn' = [Unleased(conn) EXCEPT !.committed = committed, !.continuation = run[r].partial]
  /\ Return(r, IF run[r].partial THEN "continue" ELSE "ok")
  /\ UNCHANGED <<queue, dataVars, envVars, budget>>

(* Mutant: the cursor may advance before every action is applied. *)
CompleteEarly(r) ==
  /\ run[r].pc = "normalize" /\ run[r].renewed
  /\ HoldsLease(r) /\ run[r].gen >= conn.desired
  /\ Complete(r, run[r].gen)

CompleteAttempt(r) ==
  /\ run[r].pc = "normalize" /\ run[r].renewed /\ run[r].todo = {}
  /\ IF HoldsLease(r) /\ run[r].gen >= conn.desired
       THEN Complete(r, run[r].gen)
       ELSE /\ Throw(r, FALSE)
            /\ UNCHANGED <<connVars, queue, dataVars, envVars, budget>>

(* Mutant: a failed enqueue is reported as success. *)
EnqueueContinuationBestEffort(r) ==
  /\ run[r].pc = "continue"
  /\ \/ queue' = Enqueued /\ UNCHANGED budget
     \/ Fault /\ UNCHANGED queue
  /\ Return(r, "ok")
  /\ UNCHANGED <<connVars, dataVars, envVars>>

(* completeSyncAttempt, second call: schedule the rest of a partial pull *)
EnqueueContinuation(r) ==
  /\ run[r].pc = "continue"
  /\ \/ queue' = Enqueued /\ Return(r, "ok") /\ UNCHANGED budget
     \/ Fault /\ Return(r, "retry") /\ UNCHANGED queue
  /\ UNCHANGED <<connVars, dataVars, envVars>>

(* keel_worker_abandon_and_release; without the lease the cleanup fails *)
AbandonAndRelease(r) ==
  /\ run[r].pc = "abandon"
  /\ IF HoldsLease(r)
       THEN /\ conn' = Unleased(conn)
            /\ Return(r, IF run[r].reauth THEN "reauth" ELSE "retry")
       ELSE Return(r, "retry") /\ UNCHANGED conn
  /\ UNCHANGED <<cursor, queue, dataVars, envVars, budget>>

-----------------------------------------------------------------------------
(* Changes of the connection's status. *)

(* Mutant: fencing starts the generations over. *)
ReauthRestarting(c, required) ==
  IF required /\ c.status = "active"
    THEN [Unleased(c) EXCEPT !.status = "reauth_required", !.desired = 0]
  ELSE IF ~required /\ c.status = "reauth_required"
    THEN [c EXCEPT !.status = "active"] ELSE c

(* keel_set_connection_reauth: required counts only for an active connection, *)
(* repaired only for one that awaits reauthentication.                         *)
Reauth(c, required) ==
  IF required /\ c.status = "active"
    THEN [Unleased(c) EXCEPT !.status = "reauth_required", !.desired = @ + 1]
  ELSE IF ~required /\ c.status = "reauth_required"
    THEN [c EXCEPT !.status = "active"] ELSE c

MarkReauth(r) ==
  /\ run[r].pc = "reauth"
  /\ conn' = Reauth(conn, TRUE)
  /\ Return(r, "fail")
  /\ UNCHANGED <<cursor, queue, dataVars, envVars, budget>>

(* The provider's ITEM webhooks: login required, login repaired *)
ReauthWebhook(required) ==
  /\ Reauth(conn, required) # conn
  /\ conn' = Reauth(conn, required)
  /\ IF required THEN Outage ELSE UNCHANGED budget
  /\ UNCHANGED <<cursor, run, queue, dataVars, envVars>>

(* keel_disconnect_begin: a pending removal is picked up again unchanged *)
DisconnectBegin ==
  /\ conn.status # "disconnected"
  /\ ~(conn.status = "disconnecting" /\ conn.removal = "pending")
  /\ Outage
  /\ conn' = [Unleased(conn) EXCEPT !.status = "disconnecting", !.desired = @ + 1,
                                    !.removal = "pending"]
  /\ UNCHANGED <<cursor, run, queue, dataVars, envVars>>

(* keel_disconnect_complete, with the outcome of /item/remove *)
DisconnectComplete ==
  /\ conn.status = "disconnecting" /\ conn.removal = "pending"
  /\ \/ conn' = [conn EXCEPT !.status = "disconnected", !.removal = "succeeded"] /\ UNCHANGED budget
     \/ conn' = [conn EXCEPT !.removal = "failed"] /\ Fault
  /\ UNCHANGED <<cursor, run, queue, dataVars, envVars>>

-----------------------------------------------------------------------------
Pull(r) ==
  \/ FetchPage(r) \/ FetchMutated(r) \/ (\E code \in BOOLEAN : FetchFails(r, code))
  \/ FetchDisabled(r) \/ ArchivePages(r)

Promote(r) ==
  \/ LookupState(r) \/ (\E a \in Actions : CreateNormalized(r, a)) \/ ApplyAction(r)
  \/ CompleteAttempt(r) \/ EnqueueContinuation(r)

Work(r) ==
  \/ ReadConnection(r) \/ BumpGeneration(r) \/ RefuseLease(r) \/ AcquireLease(r)
  \/ OpenAttempt(r) \/ RenewLease(r) \/ Pull(r) \/ Promote(r)
  \/ AbandonAndRelease(r) \/ MarkReauth(r) \/ Settle(r)

Environment ==
  \/ \E t \in Txns, op \in Ops : ProviderUpdates(t, op)
  \/ RequestConnectionSync \/ CronEnqueueActiveSyncs
  \/ \E required \in BOOLEAN : ReauthWebhook(required)
  \/ DisconnectBegin \/ DisconnectComplete

Next ==
  \/ Environment \/ WebhookRecordDelivery \/ LeaseExpires
  \/ \E m \in 1 .. Len(queue) : VisibilityTimeout(m) \/ \E r \in Runs : Drain(r, m)
  \/ \E r \in Runs : Work(r) \/ Crash(r)

Spec == Init /\ [][Next]_vars

(* Fairness: a run that is not killed goes on; the provider delivers what it  *)
(* announced; leases and visibility timeouts run out; the drain job reads     *)
(* whatever is visible again and again, oldest first, so no message starves.  *)
(* A webhook brings a message, and so does a partial pull, which moves the    *)
(* cursor.                                                                    *)
Messages == 1 .. 2 * MaxFeed + MaxSends

Fairness ==
  /\ WF_vars(WebhookRecordDelivery)
  /\ WF_vars(LeaseExpires)
  /\ \A r \in Runs : WF_vars(Work(r))
  /\ \A m \in Messages :
       /\ WF_vars(m <= Len(queue) /\ VisibilityTimeout(m))
       /\ SF_vars(m <= Len(queue) /\ \E r \in Runs : Drain(r, m))
       /\ SF_vars(\E r \in Runs : run[r].msg = m /\ AcquireLease(r))

FairSpec == Spec /\ Fairness

-----------------------------------------------------------------------------
(* Properties *)

Known(t) == book[t].st # "none"
Waiting(m) == queue[m].st \in {"visible", "hidden"}
Idle == /\ ~hooks
        /\ \A m \in 1 .. Len(queue) : ~Waiting(m)
        /\ \A r \in Runs : run[r].pc = "idle"

(* No transaction is skipped: whatever the provider added at or before the    *)
(* committed cursor is in the book, unless it was removed again before the    *)
(* cursor.  It relates keel_worker_complete_attempt's cursor to every         *)
(* apply_action of every run, crashed, superseded and stale ones included.    *)
NothingSkipped ==
  \A i \in 1 .. cursor :
    feed[i].op = "add" => Known(feed[i].txn) \/ Happened("rem", feed[i].txn, i, cursor)

(* The windows of the runs lie within the feed, and the window of the run     *)
(* that owns the lease row starts at the committed cursor, even after its     *)
(* lease ran out and was renewed by keel_worker_renew_sync_lease, which       *)
(* checks the owner only.                                                     *)
Pulling == {"open", "fetch", "archive", "lookup", "normalize", "apply"}

WindowsOK ==
  /\ cursor <= Len(feed)
  /\ \A r \in Runs : run[r].pc \in Pulling =>
       /\ run[r].base <= run[r].upto /\ run[r].upto <= Len(feed)
       /\ conn.owner = r => run[r].base = cursor

(* A plan covers its window: a transaction added in it and not removed again  *)
(* is in the book, or is still to be created by that run.  Another run may    *)
(* have created it between the lookup and the action.                         *)
Planned(r, t) ==
  \/ [txn |-> t, kind |-> "create"] \in run[r].todo
  \/ run[r].pc = "apply" /\ run[r].cur = [txn |-> t, kind |-> "create"]

PlansCover ==
  \A r \in Runs, t \in Txns :
    /\ run[r].pc \in {"normalize", "apply"}
    /\ Happened("add", t, run[r].base, run[r].upto)
    /\ ~Happened("rem", t, run[r].base, run[r].upto)
    => Known(t) \/ Planned(r, t)

(* The committed cursor never moves back, whoever completes an attempt: the   *)
(* lease and generation checks of keel_worker_complete_attempt order the      *)
(* completions of concurrent runs that read different base cursors.           *)
CursorMonotone == [][cursor' >= cursor]_cursor

(* A generation is committed only after it was asked for. *)
GenerationsOrdered ==
  /\ conn.committed <= conn.desired
  /\ \A r \in Runs : run[r].gen <= conn.desired

(* No signal is lost: when a notification has been archived as handled, the   *)
(* updates that existed when it was sent are behind the cursor, or a message  *)
(* at least as recent is still queued or was dead-lettered, or the connection *)
(* was disconnected.  A crash between completion and the enqueueing of the    *)
(* continuation (worker/sync-completion.ts) must not break it.                *)
SignalNotLost ==
  \A m \in 1 .. Len(queue) :
    queue[m].st = "done" =>
      \/ queue[m].asOf <= cursor
      \/ \E n \in 1 .. Len(queue) : queue[n].st # "done" /\ queue[n].asOf >= queue[m].asOf
      \/ conn.status = "disconnected"

(* While a connection is not active nothing is pulled into it: neither the    *)
(* book nor the cursor changes until it is active again, whatever runs were   *)
(* in flight when keel_set_connection_reauth or keel_disconnect_begin fenced  *)
(* it.                                                                        *)
FencedWhileInactive ==
  [][conn.status # "active" => UNCHANGED <<book, cursor>>]_<<book, cursor, conn>>

(* The book never goes back to an older view of a transaction. *)
BookNotReverted == [][\A t \in Txns : book'[t].asOf >= book[t].asOf]_book

(* A transaction the provider removed before the cursor is not live. *)
NoGhost ==
  \A i \in 1 .. cursor : feed[i].op = "rem" => book[feed[i].txn].st # "live"

(* Only the run that owns the lease writes the book. *)
OnlyHolderWrites ==
  [][\A r \in Runs : run[r].pc = "apply" /\ run'[r].pc = "normalize" => conn.owner = r]_run

(* What the cursor has passed is what the book shows. *)
CommittedIsCurrent ==
  \A t \in Txns : book[t].st = "live" /\ book[t].asOf < cursor => Unchanged(t, book[t].asOf, cursor)

(* When nothing is queued or running on an active connection, the cron job    *)
(* keel_cron_enqueue_active_syncs can pick it up.                             *)
CronCanResume == Idle /\ conn.status = "active" => conn.committed = conn.desired

(* What holds a pull up for good on an active connection: a tombstone lies     *)
(* ahead of the cursor, and the lookup cannot read it; every waiting message   *)
(* has spent an apply key on a transaction ahead of the cursor, whose record   *)
(* is another by now.                                                          *)
Tombstoned == \E t \in Touched(cursor, Len(feed)) : book[t].st = "voided"
KeysSpent ==
  LET waiting == {m \in 1 .. Len(queue) : Waiting(m)}
  IN /\ waiting # {}
     /\ \A m \in waiting : \E t \in Touched(cursor, Len(feed)) : <<m, t>> \in cmds

(* While a connection stays active, every update of the provider is eventually *)
(* behind the committed cursor, through crashes, refused leases, superseded    *)
(* generations and partial pulls, or one of the two holds the pull up from     *)
(* some moment on.                                                             *)
EventuallyPulled ==
  \A n \in 1 .. MaxFeed : Len(feed) >= n ~> (cursor >= n \/ [](Tombstoned \/ KeysSpent))

(* Every message eventually leaves the queue, as handled or dead-lettered.    *)
EveryMessageEnds ==
  \A m \in Messages : m <= Len(queue) ~> m <= Len(queue) /\ ~Waiting(m)
=============================================================================
