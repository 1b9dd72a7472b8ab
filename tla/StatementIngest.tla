--------------------------- MODULE StatementIngest ---------------------------
(***************************************************************************)
(* A bank statement from the uploaded file to the recorded statement: the  *)
(* upload and its confirmation, the draft with its delivery record, the    *)
(* extraction job with its queue and sweeper, and the review in which a    *)
(* member consents to one exact body with an approval token.               *)
(*                                                                         *)
(* A version of a document is named by the upload that made it, and so is  *)
(* its draft.  Each database procedure is one transaction, hence one       *)
(* action; requests and jobs may die between any two.                      *)
(***************************************************************************)
EXTENDS Integers, FiniteSets

CONSTANTS
  Uploads,      \* uploads, each with a document of its own
  Contents,     \* file contents, as their hashes
  Unreadable,   \* the contents that do not look like a statement
  Callers,      \* of "web" (the web application) and "api" (a caller that follows the API)
  Jobs,         \* concurrent runs of the drain loop
  Members,      \* members, each with one review dialog
  Bodies,       \* statement bodies a member may approve
  Tokens,       \* approval tokens
  None,
  MaxEnqueues,  \* p_max_enqueues of the sweeper (8 in the code)
  MaxAttempts,  \* MAX_ATTEMPTS of a message (5 in the code)
  MaxFaults     \* bound: lost calls, failed calls and crashes

ASSUME IngestAssumption ==
  /\ Unreadable \subseteq Contents /\ Callers \subseteq {"web", "api"}
  /\ None \notin Uploads \cup Contents \cup Members \cup Bodies \cup Tokens
  /\ MaxEnqueues \in Nat /\ MaxAttempts \in Nat \ {0} /\ MaxFaults \in Nat

VARIABLES
  up,       \* the upload requests, with the storage objects they made
  first,    \* document_hashes: the version that brought a content
  draft,    \* statement_drafts, with the outcome of the extraction they show
  extr,     \* statement_extractions: the outcomes recorded for a version
  outbox,   \* statement_outbox; due: the grace period has passed
  queue,    \* statement_extract messages on sync_events
  job,      \* local state of the drain loop
  dialog,   \* the members' review dialogs
  token,    \* approval_tokens; over: past expires_at
  stmt,     \* the body of the statement made from a draft
  faults    \* what is left of MaxFaults

vars == <<up, first, draft, extr, outbox, queue, job, dialog, token, stmt, faults>>

-----------------------------------------------------------------------------
(* State *)

Upload == [pc : {"idle", "signed", "put", "promoted", "begun", "done", "refused"},
           by : Callers \cup {None}, content : Contents \cup {None},
           bucket : {"none", "quarantine", "statements"}, kept : BOOLEAN]
Outcomes == {"extracted", "failed"}
Draft == [st : {"none", "pending", "approved", "dismissed"} \cup Outcomes,
          read : Outcomes \cup {"none"}]
OutboxRow == [st : {"none", "pending", "delivered", "abandoned"},
              count : 0 .. MaxEnqueues, due : BOOLEAN]
(* The first message of a version and those of the sweeper, by number.      *)
Messages == Uploads \X (0 .. MaxEnqueues)
Message == [st : {"none", "visible", "held", "archived"}, reads : 0 .. MaxAttempts]
Job == [pc : {"idle", "extract", "persist", "settle"}, msg : Messages \cup {None},
        out : Outcomes \cup {"none"}]
Dialog == [pc : {"closed", "open", "issued"}, draft : Uploads \cup {None},
           body : Bodies \cup {None}, token : Tokens \cup {None},
           shown : {"none", "recorded", "error"}]
Token == [st : {"none", "issued", "redeemed", "expired"}, by : Members \cup {None},
          draft : Uploads \cup {None}, body : Bodies \cup {None}, over : BOOLEAN]

TypeOK ==
  /\ up \in [Uploads -> Upload]
  /\ first \in [Contents -> Uploads \cup {None}]
  /\ draft \in [Uploads -> Draft]
  /\ extr \in [Uploads -> SUBSET Outcomes]
  /\ outbox \in [Uploads -> OutboxRow]
  /\ queue \in [Messages -> Message]
  /\ job \in [Jobs -> Job]
  /\ dialog \in [Members -> Dialog]
  /\ token \in [Tokens -> Token]
  /\ stmt \in [Uploads -> Bodies \cup {None}]
  /\ faults \in 0 .. MaxFaults

NoJob == [pc |-> "idle", msg |-> None, out |-> "none"]
NoDialog == [pc |-> "closed", draft |-> None, body |-> None, token |-> None, shown |-> "none"]

Init ==
  /\ up = [u \in Uploads |-> [pc |-> "idle", by |-> None, content |-> None,
                              bucket |-> "none", kept |-> FALSE]]
  /\ first = [c \in Contents |-> None]
  /\ draft = [u \in Uploads |-> [st |-> "none", read |-> "none"]]
  /\ extr = [u \in Uploads |-> {}]
  /\ outbox = [u \in Uploads |-> [st |-> "none", count |-> 0, due |-> FALSE]]
  /\ queue = [m \in Messages |-> [st |-> "none", reads |-> 0]]
  /\ job = [w \in Jobs |-> NoJob]
  /\ dialog = [m \in Members |-> NoDialog]
  /\ token = [k \in Tokens |-> [st |-> "none", by |-> None, draft |-> None,
                                body |-> None, over |-> FALSE]]
  /\ stmt = [u \in Uploads |-> None]
  /\ faults = MaxFaults

Fault == faults > 0 /\ faults' = faults - 1

-----------------------------------------------------------------------------
(* Upload and confirmation *)

intake == <<draft, extr, outbox, queue, first>>
review == <<dialog, token, stmt>>

(* /documents/upload-url signs an address in the quarantine bucket. *)
RequestUpload(u, by, c) ==
  /\ up[u].pc = "idle"
  /\ up' = [up EXCEPT ![u].pc = "signed", ![u].by = by, ![u].content = c]
  /\ UNCHANGED <<intake, job, review, faults>>

(* The web application puts the file where storageBucket says, which names   *)
(* the canonical bucket; storage may refuse the address.                     *)
PutObject(u) ==
  /\ up[u].pc = "signed"
  /\ \/ up' = [up EXCEPT ![u].pc = "put",
                         ![u].bucket = IF up[u].by = "web" THEN "statements" ELSE "quarantine"]
     \/ up[u].by = "web" /\ up' = [up EXCEPT ![u].pc = "refused"]
  /\ UNCHANGED <<intake, job, review, faults>>

Promotes(c) == c \notin Unreadable

(* The object is taken from quarantine, and kept in statements if it is one. *)
ConfirmUpload(u) ==
  /\ up[u].pc = "put"
  /\ up' = IF up[u].bucket = "quarantine" /\ Promotes(up[u].content)
             THEN [up EXCEPT ![u].pc = "promoted", ![u].kept = TRUE]
             ELSE [up EXCEPT ![u].pc = "refused"]
  /\ UNCHANGED <<intake, job, review, faults>>

BeginIngestUnregistered(u) ==   \* mutant: the content is not looked up by its hash
  /\ up[u].pc = "promoted" /\ draft[u].st = "none"
  /\ first' = [first EXCEPT ![up[u].content] = u]
  /\ draft' = [draft EXCEPT ![u].st = "pending"]
  /\ outbox' = [outbox EXCEPT ![u].st = "pending"]
  /\ up' = [up EXCEPT ![u].pc = "begun"]
  /\ UNCHANGED <<extr, queue, job, review, faults>>

(* keel_statement_ingest_begin: who brings a content first gets the draft    *)
(* and its delivery record; anybody later, a retry too, is a duplicate.      *)
BeginIngest(u) ==
  /\ up[u].pc = "promoted"
  /\ LET c == up[u].content
     IN IF first[c] = None
          THEN /\ first' = [first EXCEPT ![c] = u]
               /\ draft' = [draft EXCEPT ![u].st = "pending"]
               /\ outbox' = [outbox EXCEPT ![u].st = "pending"]
               /\ up' = [up EXCEPT ![u].pc = "begun"]
          ELSE up' = [up EXCEPT ![u].pc = "done"] /\ UNCHANGED <<first, draft, outbox>>
  /\ UNCHANGED <<extr, queue, job, review, faults>>

Sent(m) == [queue EXCEPT ![m].st = "visible"]

(* Best effort: the message may be lost, the answer is given all the same.   *)
EnqueueExtract(u) ==
  /\ up[u].pc = "begun"
  /\ up' = [up EXCEPT ![u].pc = "done"]
  /\ \/ queue' = Sent(<<u, 0>>) /\ UNCHANGED faults
     \/ Fault /\ UNCHANGED queue
  /\ UNCHANGED <<first, draft, extr, outbox, job, review>>

(* The request dies, and its caller confirms the same upload again. *)
ConfirmDies(u) ==
  /\ up[u].pc \in {"promoted", "begun"} /\ Fault
  /\ up' = [up EXCEPT ![u].pc = "put"]
  /\ UNCHANGED <<intake, job, review>>

-----------------------------------------------------------------------------
(* Delivery *)

GracePasses(u) ==
  /\ outbox[u].st = "pending" /\ ~outbox[u].due
  /\ outbox' = [outbox EXCEPT ![u].due = TRUE]
  /\ UNCHANGED <<up, first, draft, extr, queue, job, review, faults>>

Delivered(u) == draft[u].st # "pending"

ExhaustedSilently(u) ==   \* mutant: a record is given up for its age
  outbox[u].due

Exhausted(u) == outbox[u].count >= MaxEnqueues

(* keel_sweep_statement_outbox *)
SweepOutbox(u) ==
  /\ outbox[u].st = "pending" /\ outbox[u].due
  /\ CASE Delivered(u) -> outbox' = [outbox EXCEPT ![u].st = "delivered"] /\ UNCHANGED queue
       [] ~Delivered(u) /\ Exhausted(u) ->
            outbox' = [outbox EXCEPT ![u].st = "abandoned"] /\ UNCHANGED queue
       [] OTHER ->
            /\ queue' = Sent(<<u, outbox[u].count + 1>>)
            /\ outbox' = [outbox EXCEPT ![u].count = @ + 1, ![u].due = FALSE]
  /\ UNCHANGED <<up, first, draft, extr, job, review, faults>>

ReadMessage(w, m) ==
  /\ job[w].pc = "idle" /\ queue[m].st = "visible" /\ queue[m].reads < MaxAttempts
  /\ queue' = [queue EXCEPT ![m].st = "held", ![m].reads = @ + 1]
  /\ job' = [job EXCEPT ![w] = [pc |-> "extract", msg |-> m, out |-> "none"]]
  /\ UNCHANGED <<up, first, draft, extr, outbox, review, faults>>

VisibilityTimeout(m) ==
  /\ queue[m].st = "held" /\ queue[m].reads < MaxAttempts
  /\ queue' = [queue EXCEPT ![m].st = "visible"]
  /\ UNCHANGED <<up, first, draft, extr, outbox, job, review, faults>>

(* The version is resolved, its object downloaded and read; a failure to     *)
(* download, an object too large and an extractor that throws end as failed. *)
Extract(w) ==
  /\ job[w].pc = "extract"
  /\ \/ job' = [job EXCEPT ![w].pc = "persist", ![w].out = "extracted"] /\ UNCHANGED faults
     \/ Fault /\ job' = [job EXCEPT ![w].pc = "persist", ![w].out = "failed"]
  /\ UNCHANGED <<up, intake, review>>

(* Only a draft still pending takes the outcome. *)
Takes(u) == draft[u].st = "pending"

(* keel_worker_persist_statement_extraction; the call itself may fail. *)
Persist(w) ==
  /\ job[w].pc = "persist"
  /\ LET u == job[w].msg[1]
         out == job[w].out
     IN \/ /\ job' = [job EXCEPT ![w].pc = "settle"]
           /\ extr' = [extr EXCEPT ![u] = @ \cup {out}]
           /\ draft' = IF out \notin extr[u] /\ Takes(u)
                         THEN [draft EXCEPT ![u] = [st |-> out, read |-> out]]
                         ELSE draft
           /\ UNCHANGED faults
        \/ Fault /\ job' = [job EXCEPT ![w].pc = "settle", ![w].out = "failed"]
           /\ UNCHANGED <<extr, draft>>
  /\ UNCHANGED <<up, first, outbox, queue, review>>

SettleOnce(w) ==   \* mutant: a message is archived whatever came of it
  /\ job[w].pc = "settle"
  /\ queue' = [queue EXCEPT ![job[w].msg].st = "archived"]
  /\ job' = [job EXCEPT ![w] = NoJob]
  /\ UNCHANGED <<up, first, draft, extr, outbox, review, faults>>

(* What was read is archived; a failure is tried again until MaxAttempts.    *)
Settle(w) ==
  /\ job[w].pc = "settle"
  /\ LET m == job[w].msg
     IN queue' = IF job[w].out = "extracted" \/ queue[m].reads >= MaxAttempts
                   THEN [queue EXCEPT ![m].st = "archived"] ELSE queue
  /\ job' = [job EXCEPT ![w] = NoJob]
  /\ UNCHANGED <<up, first, draft, extr, outbox, review, faults>>

JobDies(w) ==
  /\ job[w].pc # "idle" /\ Fault
  /\ job' = [job EXCEPT ![w] = NoJob]
  /\ UNCHANGED <<up, intake, review>>

-----------------------------------------------------------------------------
(* Review *)

files == <<up, first, extr, outbox, queue, job>>

(* The list the member chose from may be old. *)
ReviewDraft(m, u) ==
  /\ dialog[m].pc = "closed" /\ draft[u].read # "none"
  /\ dialog' = [dialog EXCEPT ![m] = [NoDialog EXCEPT !.pc = "open", !.draft = u]]
  /\ UNCHANGED <<files, draft, token, stmt, faults>>

Minted(k, m, u, b) ==
  [token EXCEPT ![k] = [st |-> "issued", by |-> m, draft |-> u, body |-> b, over |-> FALSE]]

(* keel_cmd_statements_issue_draft_approval; its answer may be lost. *)
IssueApproval(m, k, b) ==
  /\ dialog[m].pc = "open" /\ token[k].st = "none"
  /\ LET u == dialog[m].draft
     IN \/ /\ draft[u].st = "extracted"
           /\ token' = Minted(k, m, u, b)
           /\ dialog' = [dialog EXCEPT ![m].pc = "issued", ![m].body = b, ![m].token = k,
                                       ![m].shown = "none"]
           /\ UNCHANGED faults
        \/ draft[u].st = "extracted" /\ Fault /\ token' = Minted(k, m, u, b)
             /\ dialog' = [dialog EXCEPT ![m].shown = "error"]
        \/ draft[u].st # "extracted" /\ dialog' = [dialog EXCEPT ![m].shown = "error"]
             /\ UNCHANGED <<token, faults>>
  /\ UNCHANGED <<files, draft, stmt>>

RedeemableUnhashed(k, m, u, b) ==   \* mutant: the hash of the body is not compared
  token[k].st = "issued" /\ ~token[k].over /\ token[k].by = m /\ token[k].draft = u

RedeemableLate(k, m, u, b) ==   \* mutant: the expiry is left to the sweeper
  token[k].st = "issued" /\ token[k].by = m /\ token[k].draft = u /\ token[k].body = b

(* keel_approval_token_redeem *)
Redeemable(k, m, u, b) ==
  /\ token[k].st = "issued" /\ ~token[k].over
  /\ token[k].by = m /\ token[k].draft = u /\ token[k].body = b

(* keel_cmd_statements_approve_draft *)
Approvable(k, m, u, b) == draft[u].st = "extracted" /\ Redeemable(k, m, u, b)

Approved(k, m, u, b) ==
  /\ token' = [token EXCEPT ![k].st = "redeemed"]
  /\ stmt' = [stmt EXCEPT ![u] = b]
  /\ draft' = [draft EXCEPT ![u].st = "approved"]

ApproveDraftOptimistic(m) ==   \* mutant: the dialog tells success whatever the answer
  /\ dialog[m].pc = "issued"
  /\ LET d == dialog[m]
     IN IF Approvable(d.token, m, d.draft, d.body)
          THEN Approved(d.token, m, d.draft, d.body)
          ELSE UNCHANGED <<token, stmt, draft>>
  /\ dialog' = [dialog EXCEPT ![m].pc = "closed", ![m].shown = "recorded"]
  /\ UNCHANGED <<files, faults>>

(* The dialog sends the token with the body it was issued for. A draft that  *)
(* could be approved may still be refused when its statement is validated,   *)
(* which undoes the redemption of the token as well.                         *)
ApproveDraft(m) ==
  /\ dialog[m].pc = "issued"
  /\ LET d == dialog[m]
     IN \/ /\ Approvable(d.token, m, d.draft, d.body) /\ Approved(d.token, m, d.draft, d.body)
           /\ dialog' = [dialog EXCEPT ![m].pc = "closed", ![m].shown = "recorded"]
           /\ UNCHANGED faults
        \/ /\ Approvable(d.token, m, d.draft, d.body) /\ Approved(d.token, m, d.draft, d.body)
           /\ Fault /\ dialog' = [dialog EXCEPT ![m].pc = "open", ![m].shown = "error"]
        \/ /\ dialog' = [dialog EXCEPT ![m].pc = "open", ![m].shown = "error"]
           /\ UNCHANGED <<token, stmt, draft, faults>>
  /\ UNCHANGED files

(* The same command from another client of the member, with what it holds.   *)
ApproveElsewhere(m, k, b) ==
  /\ token[k].st # "none"
  /\ Approvable(k, m, token[k].draft, b) /\ Approved(k, m, token[k].draft, b)
  /\ UNCHANGED <<files, dialog, faults>>

CloseDialog(m) ==
  /\ dialog[m].pc = "open"
  /\ dialog' = [dialog EXCEPT ![m] = NoDialog]
  /\ UNCHANGED <<files, draft, token, stmt, faults>>

(* keel_cmd_statements_dismiss_draft *)
DismissDraft(u) ==
  /\ draft[u].st \in {"pending", "extracted", "failed"}
  /\ draft' = [draft EXCEPT ![u].st = "dismissed"]
  /\ UNCHANGED <<files, review, faults>>

TokenLapses(k) ==
  /\ token[k].st = "issued" /\ ~token[k].over
  /\ token' = [token EXCEPT ![k].over = TRUE]
  /\ UNCHANGED <<files, draft, dialog, stmt, faults>>

(* keel_approval_token_expire_sweep *)
ExpireSweep ==
  /\ \E k \in Tokens : token[k].st = "issued" /\ token[k].over
  /\ token' = [k \in Tokens |-> IF token[k].st = "issued" /\ token[k].over
                                  THEN [token[k] EXCEPT !.st = "expired"] ELSE token[k]]
  /\ UNCHANGED <<files, draft, dialog, stmt, faults>>

-----------------------------------------------------------------------------
UploadStep(u) ==
  PutObject(u) \/ ConfirmUpload(u) \/ BeginIngest(u) \/ EnqueueExtract(u)
JobStep(w) == Extract(w) \/ Persist(w) \/ Settle(w)

Next ==
  \/ \E u \in Uploads : (\E by \in Callers, c \in Contents : RequestUpload(u, by, c))
                        \/ UploadStep(u) \/ ConfirmDies(u)
                        \/ GracePasses(u) \/ SweepOutbox(u) \/ DismissDraft(u)
  \/ \E m \in Messages : VisibilityTimeout(m) \/ (\E w \in Jobs : ReadMessage(w, m))
  \/ \E w \in Jobs : JobStep(w) \/ JobDies(w)
  \/ \E m \in Members : \/ \E u \in Uploads : ReviewDraft(m, u)
                        \/ \E k \in Tokens, b \in Bodies : IssueApproval(m, k, b)
                        \/ \E k \in Tokens, b \in Bodies : ApproveElsewhere(m, k, b)
                        \/ ApproveDraft(m) \/ CloseDialog(m)
  \/ \E k \in Tokens : TokenLapses(k)
  \/ ExpireSweep

Spec == Init /\ [][Next]_vars

(* Requests not killed continue, clocks advance, the sweeper runs every five *)
(* minutes and the drain job every minute, and comes to each visible message. *)
Fairness ==
  /\ \A u \in Uploads : WF_vars(UploadStep(u)) /\ WF_vars(GracePasses(u)) /\ WF_vars(SweepOutbox(u))
  /\ \A w \in Jobs : WF_vars(JobStep(w))
  /\ \A m \in Messages : /\ WF_vars(VisibilityTimeout(m))
                         /\ SF_vars(\E w \in Jobs : ReadMessage(w, m))
FairSpec == Spec /\ Fairness

-----------------------------------------------------------------------------
(* Properties *)

(* Two uploads of one content, at once or after each other, make one draft.  *)
OneDraftPerContent ==
  \A u, v \in Uploads : draft[u].st # "none" /\ draft[v].st # "none" /\ u # v
                          => up[u].content # up[v].content

(* The outbox never loses a draft: while nobody has read or decided it, its  *)
(* delivery record is still to be swept, or was given up after MaxEnqueues.  *)
DraftDelivered ==
  \A u \in Uploads : draft[u].st = "pending" =>
    \/ outbox[u].st = "pending"
    \/ outbox[u].st = "abandoned" /\ outbox[u].count = MaxEnqueues

(* Exactly the body that was approved is written: a draft has a statement    *)
(* iff it is approved, by one token, which was issued for that body of it.   *)
WrittenAsApproved ==
  \A u \in Uploads :
    LET used == {k \in Tokens : token[k].st = "redeemed" /\ token[k].draft = u}
    IN /\ stmt[u] # None <=> draft[u].st = "approved"
       /\ Cardinality(used) = IF stmt[u] = None THEN 0 ELSE 1
       /\ \A k \in used : token[k].body = stmt[u]

(* What the dialog says was recorded is recorded, word for word. *)
ShownIsRecorded ==
  \A m \in Members : dialog[m].shown = "recorded" => stmt[dialog[m].draft] = dialog[m].body

(* A draft once decided stays decided, whatever job still reads its file.    *)
DecisionStands ==
  [][\A u \in Uploads : draft[u].st \in {"approved", "dismissed"} => draft'[u] = draft[u]]_vars

(* Approvals keep the promise of Consent.  A token past its expiry lapses    *)
(* at that moment, although the sweeper marks it later.                      *)
ConsentOf(t) ==
  [st |-> CASE t.st = "none" -> "none"
            [] t.st = "redeemed" -> "used"
            [] t.st = "issued" /\ ~t.over -> "given"
            [] OTHER -> "lapsed",
   of |-> t.draft, text |-> t.body]

Promise == INSTANCE Consent WITH
  Consents <- Tokens, Subjects <- Uploads, Texts <- Bodies,
  consent <- [k \in Tokens |-> ConsentOf(token[k])],
  record <- stmt,
  declined <- {u \in Uploads : draft[u].st = "dismissed"}

KeepsPromise == Promise!Spec

(* Every draft is read or decided while faults are fewer than the sweeper's  *)
(* patience: a message lost, a job killed and a call failed only delay it.   *)
EveryDraftRead == \A u \in Uploads : draft[u].st = "pending" ~> draft[u].st # "pending"

(* What /documents/upload-url promises its caller: a file that looks like a  *)
(* statement, uploaded as told, becomes a draft or is known already.         *)
UploadAccepted ==
  \A u \in Uploads : up[u].pc = "refused" => up[u].content \in Unreadable

(* A statement that was read in the end is not shown as failed.              *)
ReadWins == \A u \in Uploads : "extracted" \in extr[u] => draft[u].st # "failed"
=============================================================================
