----------------------- MODULE StatementIngestProofs -----------------------
(***************************************************************************)
(* What holds of StatementIngest for every number of uploads, jobs,        *)
(* members and tokens: its types, that a decision stands, that exactly the *)
(* body approved is written, and that it implements Consent.               *)
(***************************************************************************)
EXTENDS StatementIngest, FiniteSetTheorems, TLAPS

-----------------------------------------------------------------------------
(* Types *)

(* What a job works on and what a dialog and a token are for.               *)
Bound ==
  /\ \A w \in Jobs : job[w].pc # "idle" => job[w].msg \in Messages
  /\ \A w \in Jobs : job[w].pc \in {"persist", "settle"} => job[w].out \in Outcomes
  /\ \A m \in Members : dialog[m].pc # "closed" => dialog[m].draft \in Uploads
  /\ \A m \in Members : dialog[m].pc = "issued" =>
       dialog[m].token \in Tokens /\ dialog[m].body \in Bodies
  /\ \A k \in Tokens : token[k].st # "none" =>
       token[k].draft \in Uploads /\ token[k].body \in Bodies

Typed == TypeOK /\ Bound

LEMMA TypedInit == Init => Typed
  BY IngestAssumption DEF Init, Typed, TypeOK, Bound, Upload, Outcomes, Draft, OutboxRow,
     Messages, Message, Job, Dialog, Token, NoJob, NoDialog

(* A message is sent, and a fault is taken, within their types.             *)
LEMMA SentTyped ==
  ASSUME queue \in [Messages -> Message], NEW m \in Messages
  PROVE  Sent(m) \in [Messages -> Message]
  BY DEF Sent, Message

LEMMA FaultTyped ==
  ASSUME faults \in 0 .. MaxFaults, Fault
  PROVE  faults' \in 0 .. MaxFaults
  BY IngestAssumption DEF Fault

LEMMA TypedIntake ==
  ASSUME Typed, NEW u \in Uploads,
         \/ \E by \in Callers, c \in Contents : RequestUpload(u, by, c)
         \/ UploadStep(u) \/ ConfirmDies(u) \/ GracePasses(u) \/ SweepOutbox(u) \/ DismissDraft(u)
  PROVE  Typed'
  <1> USE DEF Typed, TypeOK, Bound
  <1>0. up[u] \in Upload /\ draft[u] \in Draft /\ outbox[u] \in OutboxRow  OBVIOUS
  <1>1. CASE \E by \in Callers, c \in Contents : RequestUpload(u, by, c)
    <2>1. PICK by \in Callers, c \in Contents : RequestUpload(u, by, c)  BY <1>1
    <2> DEFINE r == [up[u] EXCEPT !.pc = "signed", !.by = by, !.content = c]
    <2>2. r \in Upload  BY <1>0 DEF Upload
    <2>3. up' = [up EXCEPT ![u] = r]  BY <2>1 DEF RequestUpload
    <2> HIDE DEF r
    <2>4. up' \in [Uploads -> Upload]  BY <2>2, <2>3
    <2> QED  BY <2>1, <2>4 DEF RequestUpload, intake, review
  <1>2. CASE PutObject(u)
    <2> DEFINE q == [up[u] EXCEPT !.pc = "put",
                       !.bucket = IF up[u].by = "web" THEN "statements" ELSE "quarantine"]
               r == [up[u] EXCEPT !.pc = "refused"]
    <2>1. q \in Upload /\ r \in Upload  BY <1>0 DEF Upload
    <2>2. up' = [up EXCEPT ![u] = q] \/ up' = [up EXCEPT ![u] = r]  BY <1>2 DEF PutObject
    <2> HIDE DEF q, r
    <2>3. up' \in [Uploads -> Upload]  BY <2>1, <2>2
    <2> QED  BY <1>2, <2>3 DEF PutObject, intake, review
  <1>3. CASE ConfirmUpload(u)
    <2> DEFINE q == [up[u] EXCEPT !.pc = "promoted", !.kept = TRUE]
               r == [up[u] EXCEPT !.pc = "refused"]
    <2>1. q \in Upload /\ r \in Upload  BY <1>0 DEF Upload
    <2>2. up' = [up EXCEPT ![u] = q] \/ up' = [up EXCEPT ![u] = r]  BY <1>3 DEF ConfirmUpload
    <2> HIDE DEF q, r
    <2>3. up' \in [Uploads -> Upload]  BY <2>1, <2>2
    <2> QED  BY <1>3, <2>3 DEF ConfirmUpload, intake, review
  <1>4. CASE BeginIngest(u)
    <2>1. up' \in [Uploads -> Upload]
      <3> DEFINE q == [up[u] EXCEPT !.pc = "begun"]
                 r == [up[u] EXCEPT !.pc = "done"]
      <3>1. q \in Upload /\ r \in Upload  BY <1>0 DEF Upload
      <3>2. up' = [up EXCEPT ![u] = q] \/ up' = [up EXCEPT ![u] = r]  BY <1>4 DEF BeginIngest
      <3> HIDE DEF q, r
      <3> QED  BY <3>1, <3>2
    <2>2. first' \in [Contents -> Uploads \cup {None}]  BY <1>4 DEF BeginIngest
    <2>3. draft' \in [Uploads -> Draft]
      <3> DEFINE q == [draft[u] EXCEPT !.st = "pending"]
      <3>1. q \in Draft  BY <1>0 DEF Draft
      <3>2. draft' = [draft EXCEPT ![u] = q] \/ draft' = draft  BY <1>4 DEF BeginIngest
      <3> HIDE DEF q
      <3> QED  BY <3>1, <3>2
    <2>4. outbox' \in [Uploads -> OutboxRow]
      <3> DEFINE q == [outbox[u] EXCEPT !.st = "pending"]
      <3>1. q \in OutboxRow  BY <1>0 DEF OutboxRow
      <3>2. outbox' = [outbox EXCEPT ![u] = q] \/ outbox' = outbox  BY <1>4 DEF BeginIngest
      <3> HIDE DEF q
      <3> QED  BY <3>1, <3>2
    <2> QED  BY <1>4, <2>1, <2>2, <2>3, <2>4 DEF BeginIngest, review
  <1>5. CASE EnqueueExtract(u)
    <2>1. <<u, 0>> \in Messages  BY IngestAssumption DEF Messages
    <2>2. queue' \in [Messages -> Message]  BY <1>5, <2>1, SentTyped DEF EnqueueExtract
    <2>3. faults' \in 0 .. MaxFaults  BY <1>5, FaultTyped DEF EnqueueExtract
    <2>4. up' \in [Uploads -> Upload]
      <3> DEFINE q == [up[u] EXCEPT !.pc = "done"]
      <3>1. q \in Upload  BY <1>0 DEF Upload
      <3>2. up' = [up EXCEPT ![u] = q]  BY <1>5 DEF EnqueueExtract
      <3> HIDE DEF q
      <3> QED  BY <3>1, <3>2
    <2>5. UNCHANGED <<first, draft, extr, outbox, job, review>>  BY <1>5 DEF EnqueueExtract
    <2> QED  BY <2>2, <2>3, <2>4, <2>5 DEF review
  <1>6. CASE ConfirmDies(u)
    BY <1>6, FaultTyped DEF ConfirmDies, intake, review, Upload
  <1>7. CASE GracePasses(u)
    BY <1>7 DEF GracePasses, review, OutboxRow
  <1>8. CASE SweepOutbox(u)
    <2>1. outbox[u] \in OutboxRow  OBVIOUS
    <2>2. outbox' \in [Uploads -> OutboxRow]
      <3>1. CASE Delivered(u)  BY <1>8, <3>1 DEF SweepOutbox, OutboxRow
      <3>2. CASE ~ Delivered(u) /\ Exhausted(u)  BY <1>8, <3>2 DEF SweepOutbox, OutboxRow
      <3>3. CASE ~ Delivered(u) /\ ~ Exhausted(u)
        <4>1. outbox[u].count + 1 \in 0 .. MaxEnqueues
          BY <2>1, <3>3, IngestAssumption DEF Exhausted, OutboxRow
        <4>2. outbox' = [outbox EXCEPT ![u].count = @ + 1, ![u].due = FALSE]
          BY <1>8, <3>3 DEF SweepOutbox
        <4> QED  BY <2>1, <4>1, <4>2 DEF OutboxRow
      <3> QED  BY <3>1, <3>2, <3>3
    <2>3. queue' \in [Messages -> Message]
      <3>1. CASE Delivered(u) \/ Exhausted(u)  BY <1>8, <3>1 DEF SweepOutbox
      <3>2. CASE ~ Delivered(u) /\ ~ Exhausted(u)
        <4>1. <<u, outbox[u].count + 1>> \in Messages
          BY <2>1, <3>2, IngestAssumption DEF Messages, Exhausted, OutboxRow
        <4> QED  BY <1>8, <3>2, <4>1, SentTyped DEF SweepOutbox
      <3> QED  BY <3>1, <3>2
    <2> QED  BY <1>8, <2>2, <2>3 DEF SweepOutbox, review
  <1>9. CASE DismissDraft(u)
    BY <1>9 DEF DismissDraft, files, review, Draft
  <1> QED  BY <1>1, <1>2, <1>3, <1>4, <1>5, <1>6, <1>7, <1>8, <1>9 DEF UploadStep
LEMMA TypedDelivery ==
  ASSUME Typed,
         \/ \E m \in Messages : VisibilityTimeout(m) \/ (\E w \in Jobs : ReadMessage(w, m))
         \/ \E w \in Jobs : JobStep(w) \/ JobDies(w)
  PROVE  Typed'
  <1> USE DEF Typed, TypeOK, Bound
  <1>1. ASSUME NEW m \in Messages, VisibilityTimeout(m)  PROVE Typed'
    BY <1>1 DEF VisibilityTimeout, review, Message
  <1>2. ASSUME NEW m \in Messages, NEW w \in Jobs, ReadMessage(w, m)  PROVE Typed'
    <2>1. queue[m] \in Message  OBVIOUS
    <2> DEFINE q == [queue[m] EXCEPT !.st = "held", !.reads = @ + 1]
               j == [pc |-> "extract", msg |-> m, out |-> "none"]
    <2>2. q \in Message  BY <1>2, <2>1, IngestAssumption DEF ReadMessage, Message
    <2>3. queue' = [queue EXCEPT ![m] = q]  BY <1>2 DEF ReadMessage
    <2>4. j \in Job /\ job' = [job EXCEPT ![w] = j]  BY <1>2 DEF ReadMessage, Job
    <2>5. j.pc = "extract" /\ j.msg \in Messages  OBVIOUS
    <2> HIDE DEF q, j
    <2>6. queue' \in [Messages -> Message] /\ job' \in [Jobs -> Job]  BY <2>2, <2>3, <2>4
    <2>7. /\ \A x \in Jobs : job'[x].pc # "idle" => job'[x].msg \in Messages
          /\ \A x \in Jobs : job'[x].pc \in {"persist", "settle"} => job'[x].out \in Outcomes
      BY <2>4, <2>5
    <2> QED  BY <1>2, <2>6, <2>7 DEF ReadMessage, review
  <1>3. ASSUME NEW w \in Jobs, Extract(w)  PROVE Typed'
    <2>1. job[w] \in Job /\ job[w].pc = "extract" /\ job[w].msg \in Messages
      BY <1>3 DEF Extract
    <2>2. PICK o \in Outcomes : job' = [job EXCEPT ![w].pc = "persist", ![w].out = o]
      BY <1>3 DEF Extract, Outcomes
    <2> DEFINE j == [job[w] EXCEPT !.pc = "persist", !.out = o]
    <2>3. j \in Job /\ j.msg \in Messages /\ j.out \in Outcomes  BY <2>1, <2>2 DEF Job
    <2>4. job' = [job EXCEPT ![w] = j]  BY <2>2
    <2> HIDE DEF j
    <2>5. faults' \in 0 .. MaxFaults  BY <1>3, FaultTyped DEF Extract
    <2>6. job' \in [Jobs -> Job]  BY <2>3, <2>4
    <2>7. /\ \A x \in Jobs : job'[x].pc # "idle" => job'[x].msg \in Messages
          /\ \A x \in Jobs : job'[x].pc \in {"persist", "settle"} => job'[x].out \in Outcomes
      BY <2>3, <2>4
    <2> QED  BY <1>3, <2>5, <2>6, <2>7 DEF Extract, intake, review
  <1>4. ASSUME NEW w \in Jobs, Persist(w)  PROVE Typed'
    <2> DEFINE u == job[w].msg[1]
    <2>1. /\ job[w] \in Job /\ job[w].pc = "persist" /\ u \in Uploads
          /\ job[w].msg \in Messages /\ job[w].out \in Outcomes
      BY <1>4 DEF Persist, Messages
    <2>2. PICK o \in Outcomes : job' = [job EXCEPT ![w].pc = "settle", ![w].out = o]
      <3>1. CASE job' = [job EXCEPT ![w].pc = "settle"]
        <4>1. job' = [job EXCEPT ![w].pc = "settle", ![w].out = job[w].out]
          BY <2>1, <3>1 DEF Job
        <4> QED  BY <2>1, <4>1
      <3> QED  BY <1>4, <3>1 DEF Persist, Outcomes
    <2> DEFINE j == [job[w] EXCEPT !.pc = "settle", !.out = o]
    <2>3. j \in Job /\ j.msg \in Messages /\ j.out \in Outcomes  BY <2>1, <2>2 DEF Job
    <2>4. job' = [job EXCEPT ![w] = j]  BY <2>2
    <2>5. faults' \in 0 .. MaxFaults  BY <1>4, FaultTyped DEF Persist
    <2>6. extr' \in [Uploads -> SUBSET Outcomes]
      BY <1>4, <2>1 DEF Persist
    <2>7. draft' \in [Uploads -> Draft]
      <3>1. [st |-> job[w].out, read |-> job[w].out] \in Draft  BY <2>1 DEF Draft
      <3> QED  BY <1>4, <2>1, <3>1 DEF Persist
    <2> HIDE DEF j
    <2>8. job' \in [Jobs -> Job]  BY <2>3, <2>4
    <2>9. /\ \A x \in Jobs : job'[x].pc # "idle" => job'[x].msg \in Messages
          /\ \A x \in Jobs : job'[x].pc \in {"persist", "settle"} => job'[x].out \in Outcomes
      BY <2>3, <2>4
    <2> QED  BY <1>4, <2>5, <2>6, <2>7, <2>8, <2>9 DEF Persist, review
  <1>5. ASSUME NEW w \in Jobs, Settle(w)  PROVE Typed'
    <2>1. job[w].msg \in Messages  BY <1>5 DEF Settle
    <2>2. queue' \in [Messages -> Message]  BY <1>5, <2>1 DEF Settle, Message
    <2> QED  BY <1>5, <2>2 DEF Settle, review, NoJob, Job
  <1>6. ASSUME NEW w \in Jobs, JobDies(w)  PROVE Typed'
    BY <1>6, FaultTyped DEF JobDies, intake, review, NoJob, Job
  <1> QED  BY <1>1, <1>2, <1>3, <1>4, <1>5, <1>6 DEF JobStep

LEMMA TypedReview ==
  ASSUME Typed, NEW m \in Members,
         \/ \E u \in Uploads : ReviewDraft(m, u)
         \/ \E k \in Tokens, b \in Bodies : IssueApproval(m, k, b)
         \/ \E k \in Tokens, b \in Bodies : ApproveElsewhere(m, k, b)
         \/ ApproveDraft(m) \/ CloseDialog(m)
  PROVE  Typed'
  <1> USE DEF Typed, TypeOK, Bound
  <1>0. dialog[m] \in Dialog  OBVIOUS
  <1>1. ASSUME NEW u \in Uploads, ReviewDraft(m, u)  PROVE Typed'
    <2> DEFINE d == [NoDialog EXCEPT !.pc = "open", !.draft = u]
    <2>1. d \in Dialog /\ d.pc = "open" /\ d.draft = u  BY DEF Dialog, NoDialog
    <2>2. dialog' = [dialog EXCEPT ![m] = d]  BY <1>1 DEF ReviewDraft
    <2> HIDE DEF d
    <2> QED  BY <1>1, <2>1, <2>2 DEF ReviewDraft, files
  <1>2. ASSUME NEW k \in Tokens, NEW b \in Bodies, IssueApproval(m, k, b)  PROVE Typed'
    <2> DEFINE u == dialog[m].draft
               t == [st |-> "issued", by |-> m, draft |-> u, body |-> b, over |-> FALSE]
               d == [dialog[m] EXCEPT !.pc = "issued", !.body = b, !.token = k, !.shown = "none"]
               e == [dialog[m] EXCEPT !.shown = "error"]
    <2>1. u \in Uploads /\ dialog[m].pc = "open"  BY <1>2 DEF IssueApproval
    <2>2. t \in Token /\ t.draft \in Uploads /\ t.body \in Bodies  BY <2>1 DEF Token
    <2>3. token' = [token EXCEPT ![k] = t] \/ token' = token
      BY <1>2 DEF IssueApproval, Minted
    <2>4. dialog' = [dialog EXCEPT ![m] = d] \/ dialog' = [dialog EXCEPT ![m] = e]
      BY <1>2 DEF IssueApproval
    <2>5. /\ d \in Dialog /\ d.draft \in Uploads /\ d.token \in Tokens /\ d.body \in Bodies
          /\ e \in Dialog /\ e.draft \in Uploads /\ e.pc = "open"
      BY <1>0, <2>1 DEF Dialog
    <2>6. faults' \in 0 .. MaxFaults  BY <1>2, FaultTyped DEF IssueApproval
    <2> HIDE DEF t, d, e
    <2>7. /\ token' \in [Tokens -> Token]
          /\ \A x \in Tokens : token'[x].st # "none" =>
               token'[x].draft \in Uploads /\ token'[x].body \in Bodies
      BY <2>2, <2>3
    <2>8. /\ dialog' \in [Members -> Dialog]
          /\ \A x \in Members : dialog'[x].pc # "closed" => dialog'[x].draft \in Uploads
          /\ \A x \in Members : dialog'[x].pc = "issued" =>
               dialog'[x].token \in Tokens /\ dialog'[x].body \in Bodies
      BY <2>4, <2>5
    <2> QED  BY <1>2, <2>6, <2>7, <2>8 DEF IssueApproval, files
  <1>3. ASSUME NEW k \in Tokens, NEW u \in Uploads, NEW b \in Bodies,
               token[k].st # "none", Approved(k, m, u, b)
        PROVE  /\ token' \in [Tokens -> Token] /\ stmt' \in [Uploads -> Bodies \cup {None}]
               /\ draft' \in [Uploads -> Draft]
               /\ \A x \in Tokens : token'[x].st # "none" =>
                    token'[x].draft \in Uploads /\ token'[x].body \in Bodies
    <2> DEFINE t == [token[k] EXCEPT !.st = "redeemed"]
               d == [draft[u] EXCEPT !.st = "approved"]
    <2>1. t \in Token /\ t.draft = token[k].draft /\ t.body = token[k].body  BY DEF Token
    <2>2. d \in Draft  BY DEF Draft
    <2>3. token' = [token EXCEPT ![k] = t] /\ draft' = [draft EXCEPT ![u] = d]
      BY <1>3 DEF Approved
    <2> HIDE DEF t, d
    <2> QED  BY <1>3, <2>1, <2>2, <2>3 DEF Approved
  <1>4. ASSUME NEW k \in Tokens, NEW b \in Bodies, ApproveElsewhere(m, k, b)  PROVE Typed'
    <2>1. token[k].draft \in Uploads /\ token[k].st # "none"  BY <1>4 DEF ApproveElsewhere
    <2>2. Approved(k, m, token[k].draft, b)  BY <1>4 DEF ApproveElsewhere
    <2> QED  BY <1>3, <1>4, <2>1, <2>2 DEF ApproveElsewhere, files
  <1>5. CASE ApproveDraft(m)
    <2> DEFINE k == dialog[m].token
               u == dialog[m].draft
               b == dialog[m].body
               d == [dialog[m] EXCEPT !.pc = "closed", !.shown = "recorded"]
               e == [dialog[m] EXCEPT !.pc = "open", !.shown = "error"]
    <2>1. k \in Tokens /\ u \in Uploads /\ b \in Bodies  BY <1>5 DEF ApproveDraft
    <2>2. /\ d \in Dialog /\ d.pc = "closed"
          /\ e \in Dialog /\ e.pc = "open" /\ e.draft \in Uploads
      BY <1>0, <2>1 DEF Dialog
    <2>3. dialog' = [dialog EXCEPT ![m] = d] \/ dialog' = [dialog EXCEPT ![m] = e]
      BY <1>5 DEF ApproveDraft
    <2>4. \/ token[k].st = "issued" /\ Approved(k, m, u, b)
          \/ UNCHANGED <<token, stmt, draft>>
      BY <1>5 DEF ApproveDraft, Approvable, Redeemable
    <2>5. faults' \in 0 .. MaxFaults  BY <1>5, FaultTyped DEF ApproveDraft
    <2>6. /\ token' \in [Tokens -> Token] /\ stmt' \in [Uploads -> Bodies \cup {None}]
          /\ draft' \in [Uploads -> Draft]
          /\ \A x \in Tokens : token'[x].st # "none" =>
               token'[x].draft \in Uploads /\ token'[x].body \in Bodies
      BY <1>3, <2>1, <2>4
    <2> HIDE DEF d, e
    <2>7. /\ dialog' \in [Members -> Dialog]
          /\ \A x \in Members : dialog'[x].pc # "closed" => dialog'[x].draft \in Uploads
          /\ \A x \in Members : dialog'[x].pc = "issued" =>
               dialog'[x].token \in Tokens /\ dialog'[x].body \in Bodies
      BY <2>2, <2>3
    <2> QED  BY <1>5, <2>5, <2>6, <2>7 DEF ApproveDraft, files
  <1>6. CASE CloseDialog(m)
    <2>1. NoDialog \in Dialog /\ NoDialog.pc = "closed"  BY DEF Dialog, NoDialog
    <2> QED  BY <1>6, <2>1 DEF CloseDialog, files
  <1> QED  BY <1>1, <1>2, <1>4, <1>5, <1>6

LEMMA TypedStep == Typed /\ [Next]_vars => Typed'
  <1> SUFFICES ASSUME Typed, [Next]_vars  PROVE Typed'
    OBVIOUS
  <1>1. ASSUME NEW k \in Tokens, TokenLapses(k)  PROVE Typed'
    BY <1>1 DEF TokenLapses, files, Token, Typed, TypeOK, Bound
  <1>2. CASE ExpireSweep
    <2>1. \A k \in Tokens : /\ token'[k] \in Token /\ token'[k].draft = token[k].draft
                            /\ token'[k].body = token[k].body
                            /\ token'[k].st # "none" => token[k].st # "none"
      BY <1>2 DEF ExpireSweep, Typed, TypeOK, Token
    <2>2. token' \in [Tokens -> Token]  BY <1>2, <2>1 DEF ExpireSweep
    <2> QED  BY <1>2, <2>1, <2>2 DEF ExpireSweep, files, Typed, TypeOK, Bound
  <1>3. CASE UNCHANGED vars
    BY <1>3 DEF vars, Typed, TypeOK, Bound
  <1> QED  BY <1>1, <1>2, <1>3, TypedIntake, TypedDelivery, TypedReview DEF Next

LEMMA AlwaysTyped == Spec => []Typed
  BY TypedInit, TypedStep, PTL DEF Spec

(* Uploads, drafts, deliveries, messages, jobs, dialogs and tokens stay     *)
(* within their types: the sweeper sends no more than MaxEnqueues messages  *)
(* for a draft, and no message is read more than MaxAttempts times.         *)
THEOREM IngestTypeCorrect == Spec => []TypeOK
  BY AlwaysTyped, PTL DEF Typed

-----------------------------------------------------------------------------
(* One draft per content *)

(* Only the upload that was first with its content has a draft.             *)
Registered ==
  /\ \A u \in Uploads : up[u].pc # "idle" => up[u].content \in Contents
  /\ \A u \in Uploads : draft[u].st # "none" =>
       up[u].pc # "idle" /\ first[up[u].content] = u

LEMMA RegisteredStep == Typed /\ Registered /\ [Next]_vars => Registered'
  <1> SUFFICES ASSUME Typed, Registered, [Next]_vars  PROVE Registered'
    OBVIOUS
  <1> USE DEF Registered, Typed, TypeOK
  <1>1. ASSUME NEW u \in Uploads, NEW by \in Callers, NEW c \in Contents, RequestUpload(u, by, c)
        PROVE  Registered'
    <2>1. draft[u].st = "none"  BY <1>1 DEF RequestUpload
    <2> DEFINE r == [up[u] EXCEPT !.pc = "signed", !.by = by, !.content = c]
    <2>2. r.content = c  BY DEF Upload
    <2>3. up' = [up EXCEPT ![u] = r]  BY <1>1 DEF RequestUpload
    <2>4. UNCHANGED <<draft, first>>  BY <1>1 DEF RequestUpload, intake
    <2> HIDE DEF r
    <2> QED  BY <2>1, <2>2, <2>3, <2>4
  <1>2. ASSUME UNCHANGED <<draft, first>>,
               \A v \in Uploads : up[v].pc # "idle" =>
                 up'[v].pc # "idle" /\ up'[v].content = up[v].content,
               \A v \in Uploads : up'[v].pc # "idle" => up[v].pc # "idle"
        PROVE  Registered'
    BY <1>2
  <1>3. ASSUME NEW u \in Uploads, PutObject(u)  PROVE Registered'
    <2> DEFINE q == [up[u] EXCEPT !.pc = "put",
                       !.bucket = IF up[u].by = "web" THEN "statements" ELSE "quarantine"]
               r == [up[u] EXCEPT !.pc = "refused"]
    <2>1. /\ q.pc # "idle" /\ q.content = up[u].content
          /\ r.pc # "idle" /\ r.content = up[u].content /\ up[u].pc # "idle"
      BY <1>3 DEF PutObject, Upload
    <2>2. up' = [up EXCEPT ![u] = q] \/ up' = [up EXCEPT ![u] = r]  BY <1>3 DEF PutObject
    <2>3. UNCHANGED <<draft, first>>  BY <1>3 DEF PutObject, intake
    <2> HIDE DEF q, r
    <2> QED  BY <1>2, <2>1, <2>2, <2>3
  <1>4. ASSUME NEW u \in Uploads, ConfirmUpload(u)  PROVE Registered'
    <2> DEFINE q == [up[u] EXCEPT !.pc = "promoted", !.kept = TRUE]
               r == [up[u] EXCEPT !.pc = "refused"]
    <2>1. /\ q.pc # "idle" /\ q.content = up[u].content
          /\ r.pc # "idle" /\ r.content = up[u].content /\ up[u].pc # "idle"
      BY <1>4 DEF ConfirmUpload, Upload
    <2>2. up' = [up EXCEPT ![u] = q] \/ up' = [up EXCEPT ![u] = r]  BY <1>4 DEF ConfirmUpload
    <2>3. UNCHANGED <<draft, first>>  BY <1>4 DEF ConfirmUpload, intake
    <2> HIDE DEF q, r
    <2> QED  BY <1>2, <2>1, <2>2, <2>3
  <1>5. ASSUME NEW u \in Uploads, BeginIngest(u)  PROVE Registered'
    <2>1. up[u].pc = "promoted" /\ up[u].content \in Contents  BY <1>5 DEF BeginIngest
    <2> DEFINE q == [up[u] EXCEPT !.pc = "begun"]
               r == [up[u] EXCEPT !.pc = "done"]
    <2>2. /\ q.pc # "idle" /\ q.content = up[u].content
          /\ r.pc # "idle" /\ r.content = up[u].content
      BY DEF Upload
    <2>3. CASE first[up[u].content] = None
      <3>1. up' = [up EXCEPT ![u] = q] /\ first' = [first EXCEPT ![up[u].content] = u]
        BY <1>5, <2>3 DEF BeginIngest
      <3>2. \A v \in Uploads \ {u} : draft'[v] = draft[v]  BY <1>5, <2>3 DEF BeginIngest
      <3> HIDE DEF q, r
      <3> QED  BY <2>1, <2>2, <2>3, <3>1, <3>2, IngestAssumption
    <2>4. CASE first[up[u].content] # None
      <3>1. up' = [up EXCEPT ![u] = r] /\ UNCHANGED <<draft, first>>
        BY <1>5, <2>4 DEF BeginIngest
      <3> HIDE DEF q, r
      <3> QED  BY <1>2, <2>1, <2>2, <3>1
    <2> QED  BY <2>3, <2>4
  <1>6. ASSUME NEW u \in Uploads, EnqueueExtract(u) \/ ConfirmDies(u)  PROVE Registered'
    <2> DEFINE q == [up[u] EXCEPT !.pc = "done"]
               r == [up[u] EXCEPT !.pc = "put"]
    <2>1. /\ q.pc # "idle" /\ q.content = up[u].content
          /\ r.pc # "idle" /\ r.content = up[u].content /\ up[u].pc # "idle"
      BY <1>6 DEF EnqueueExtract, ConfirmDies, Upload
    <2>2. up' = [up EXCEPT ![u] = q] \/ up' = [up EXCEPT ![u] = r]
      BY <1>6 DEF EnqueueExtract, ConfirmDies
    <2>3. UNCHANGED <<draft, first>>  BY <1>6 DEF EnqueueExtract, ConfirmDies, intake
    <2> HIDE DEF q, r
    <2> QED  BY <1>2, <2>1, <2>2, <2>3
  <1>7. ASSUME UNCHANGED <<up, first>>,
               \A v \in Uploads : draft[v].st = "none" => draft'[v].st = "none"
        PROVE  Registered'
    BY <1>7
  <1>8. ASSUME NEW w \in Jobs, JobStep(w) \/ JobDies(w)  PROVE Registered'
    BY <1>7, <1>8 DEF JobStep, JobDies, Extract, Persist, Settle, Takes, intake
  <1>9. ASSUME NEW u \in Uploads, DismissDraft(u) \/ GracePasses(u) \/ SweepOutbox(u)
        PROVE  Registered'
    BY <1>7, <1>9 DEF DismissDraft, GracePasses, SweepOutbox, files
  <1>10. ASSUME NEW m \in Members, NEW k \in Tokens, NEW u, NEW b,
                Approvable(k, m, u, b), Approved(k, m, u, b), UNCHANGED files
         PROVE  Registered'
    <2>1. draft[u].st = "extracted" /\ draft' = [draft EXCEPT ![u].st = "approved"]
      BY <1>10 DEF Approvable, Approved
    <2> QED  BY <1>7, <1>10, <2>1 DEF files
  <1>11. ASSUME NEW m \in Members,
                \/ \E u \in Uploads : ReviewDraft(m, u)
                \/ \E k \in Tokens, b \in Bodies : IssueApproval(m, k, b)
                \/ \E k \in Tokens, b \in Bodies : ApproveElsewhere(m, k, b)
                \/ ApproveDraft(m) \/ CloseDialog(m)
         PROVE  Registered'
    <2>1. CASE \E k \in Tokens, b \in Bodies : ApproveElsewhere(m, k, b)
      BY <1>10, <2>1 DEF ApproveElsewhere
    <2>2. CASE ApproveDraft(m)
      <3>1. CASE UNCHANGED <<files, draft>>  BY <1>7, <3>1 DEF files
      <3>2. CASE ~ UNCHANGED draft
        <4>1. dialog[m].token \in Tokens  BY <2>2 DEF ApproveDraft, Bound
        <4> QED  BY <1>10, <2>2, <3>2, <4>1 DEF ApproveDraft
      <3> QED  BY <2>2, <3>1, <3>2 DEF ApproveDraft
    <2>3. CASE UNCHANGED <<files, draft>>  BY <1>7, <2>3 DEF files
    <2> QED  BY <1>11, <2>1, <2>2, <2>3 DEF ReviewDraft, IssueApproval, CloseDialog
  <1>12. CASE \/ \E k \in Tokens : TokenLapses(k)
              \/ ExpireSweep
              \/ \E m \in Messages : VisibilityTimeout(m) \/ (\E w \in Jobs : ReadMessage(w, m))
              \/ UNCHANGED vars
    <2>1. UNCHANGED <<up, first, draft>>
      BY <1>12 DEF TokenLapses, ExpireSweep, VisibilityTimeout, ReadMessage, files, vars
    <2> QED  BY <1>7, <2>1
  <1> QED
    BY <1>1, <1>3, <1>4, <1>5, <1>6, <1>8, <1>9, <1>11, <1>12 DEF Next, UploadStep

LEMMA AlwaysRegistered == Spec => [](Typed /\ Registered)
  <1>1. Init => Registered  BY DEF Init, Registered
  <1> QED  BY <1>1, TypedInit, TypedStep, RegisteredStep, PTL DEF Spec

(* Two uploads of one content make one draft, whatever the number of        *)
(* uploads and however their confirmations, retries and deaths interleave.  *)
THEOREM OneDraft == Spec => []OneDraftPerContent
  <1>1. Typed /\ Registered => OneDraftPerContent  BY DEF Registered, OneDraftPerContent
  <1> QED  BY <1>1, AlwaysRegistered, PTL

-----------------------------------------------------------------------------
(* Decisions and consents *)

(* All a step can do to drafts, statements and tokens.                      *)
Reads ==
  /\ UNCHANGED <<token, stmt>>
  /\ draft' \in [Uploads -> Draft]
  /\ \A u \in Uploads : \/ draft'[u] = draft[u]
                         \/ /\ draft[u].st \in {"none", "pending"}
                            /\ draft'[u].st \in {"pending", "extracted", "failed"}
Dismisses == UNCHANGED <<token, stmt>> /\ \E u \in Uploads : DismissDraft(u)
Issues ==
  /\ UNCHANGED <<draft, stmt>>
  /\ \E k \in Tokens, m \in Members, u \in Uploads, b \in Bodies :
       token[k].st = "none" /\ token' = Minted(k, m, u, b)
Approves ==
  \E k \in Tokens, m \in Members, u \in Uploads, b \in Bodies :
    Approvable(k, m, u, b) /\ Approved(k, m, u, b)
Expires ==
  UNCHANGED <<draft, stmt>> /\ (ExpireSweep \/ \E k \in Tokens : TokenLapses(k))

LEMMA Moves ==
  ASSUME Typed, Registered, [Next]_vars
  PROVE  Reads \/ Dismisses \/ Issues \/ Approves \/ Expires
  <1> USE DEF Typed, TypeOK
  <1>0. draft' \in [Uploads -> Draft]  BY TypedStep
  <1>1. ASSUME UNCHANGED <<token, stmt, draft>>  PROVE Reads
    BY <1>0, <1>1 DEF Reads
  <1>2. ASSUME NEW u \in Uploads, BeginIngest(u)  PROVE Reads
    <2>1. up[u].content \in Contents  BY <1>2 DEF BeginIngest, Registered
    <2>2. first[up[u].content] = None => draft[u].st = "none"
      BY <2>1, IngestAssumption DEF Registered
    <2>3. CASE draft' = [draft EXCEPT ![u].st = "pending"] /\ draft[u].st = "none"
      <3> DEFINE d == [draft[u] EXCEPT !.st = "pending"]
      <3>1. d.st = "pending"  BY DEF Draft
      <3>2. draft' = [draft EXCEPT ![u] = d]  BY <2>3
      <3> HIDE DEF d
      <3> QED  BY <1>0, <1>2, <2>3, <3>1, <3>2 DEF Reads, BeginIngest, review
    <2> QED  BY <1>1, <1>2, <2>2, <2>3 DEF BeginIngest, review
  <1>3. ASSUME NEW w \in Jobs, JobStep(w) \/ JobDies(w)  PROVE Reads
    <2>1. CASE Persist(w)
      <3>1. job[w].out \in Outcomes /\ job[w].msg[1] \in Uploads
        BY <2>1 DEF Persist, Bound, Messages
      <3>2. \/ draft' = draft
            \/ /\ draft[job[w].msg[1]].st = "pending"
               /\ draft' = [draft EXCEPT ![job[w].msg[1]] = [st |-> job[w].out, read |-> job[w].out]]
        BY <2>1 DEF Persist, Takes
      <3>3. UNCHANGED <<token, stmt>>  BY <2>1 DEF Persist, review
      <3> QED  BY <1>0, <3>1, <3>2, <3>3 DEF Reads, Outcomes
    <2> QED  BY <1>1, <1>3, <2>1 DEF JobStep, JobDies, Extract, Settle, intake, review
  <1>4. ASSUME NEW m \in Members, NEW k \in Tokens, NEW b \in Bodies, IssueApproval(m, k, b)
        PROVE  Issues \/ Reads
    <2>1. dialog[m].draft \in Uploads  BY <1>4 DEF IssueApproval, Bound
    <2>2. UNCHANGED <<draft, stmt>>  BY <1>4 DEF IssueApproval
    <2>3. token[k].st = "none" /\ (token' = Minted(k, m, dialog[m].draft, b) \/ token' = token)
      BY <1>4 DEF IssueApproval
    <2> QED  BY <1>1, <2>1, <2>2, <2>3 DEF Issues
  <1>5. ASSUME NEW m \in Members, NEW k \in Tokens, NEW b \in Bodies, ApproveElsewhere(m, k, b)
        PROVE  Approves
    BY <1>5 DEF ApproveElsewhere, Approves, Bound
  <1>6. ASSUME NEW m \in Members, ApproveDraft(m)  PROVE Approves \/ Reads
    <2>1. dialog[m].token \in Tokens /\ dialog[m].draft \in Uploads /\ dialog[m].body \in Bodies
      BY <1>6 DEF ApproveDraft, Bound
    <2> QED  BY <1>1, <1>6, <2>1 DEF ApproveDraft, Approves
  <1>7. ASSUME NEW u \in Uploads, DismissDraft(u)  PROVE Dismisses
    BY <1>7 DEF DismissDraft, Dismisses, review
  <1>8. CASE \E u \in Uploads :
               \/ \E by \in Callers, c \in Contents : RequestUpload(u, by, c)
               \/ PutObject(u) \/ ConfirmUpload(u) \/ EnqueueExtract(u) \/ ConfirmDies(u)
               \/ GracePasses(u) \/ SweepOutbox(u)
    <2>1. UNCHANGED <<token, stmt, draft>>
      BY <1>8 DEF RequestUpload, PutObject, ConfirmUpload, EnqueueExtract, ConfirmDies,
                  GracePasses, SweepOutbox, intake, review
    <2> QED  BY <1>1, <2>1
  <1>9. CASE \/ \E m \in Messages : VisibilityTimeout(m) \/ (\E w \in Jobs : ReadMessage(w, m))
             \/ \E m \in Members : CloseDialog(m) \/ (\E u \in Uploads : ReviewDraft(m, u))
             \/ UNCHANGED vars
    <2>1. UNCHANGED <<token, stmt, draft>>
      BY <1>9 DEF VisibilityTimeout, ReadMessage, CloseDialog, ReviewDraft, review, vars
    <2> QED  BY <1>1, <2>1
  <1>10. CASE ExpireSweep \/ \E k \in Tokens : TokenLapses(k)
    BY <1>10 DEF Expires, ExpireSweep, TokenLapses
  <1> QED
    BY <1>2, <1>3, <1>4, <1>5, <1>6, <1>7, <1>8, <1>9, <1>10 DEF Next, UploadStep

(* Approved or dismissed is for good: no job that still reads the file, no  *)
(* other dialog and no repeated confirmation changes the draft again.       *)
THEOREM DecisionsStand == Spec => DecisionStands
  <1>1. ASSUME Typed, Registered, [Next]_vars
        PROVE  \A u \in Uploads : draft[u].st \in {"approved", "dismissed"} => draft'[u] = draft[u]
    <2>1. Reads \/ Dismisses \/ Issues \/ Approves \/ Expires  BY <1>1, Moves
    <2>2. CASE Reads  BY <2>2 DEF Reads
    <2>3. CASE Dismisses  BY <1>1, <2>3 DEF Dismisses, DismissDraft, Typed, TypeOK
    <2>4. CASE Approves
      BY <1>1, <2>4 DEF Approves, Approvable, Approved, Typed, TypeOK
    <2> QED  BY <2>1, <2>2, <2>3, <2>4 DEF Issues, Expires
  <1>2. Typed /\ Registered /\ [Next]_vars =>
          [\A u \in Uploads : draft[u].st \in {"approved", "dismissed"} => draft'[u] = draft[u]]_vars
    BY <1>1
  <1> QED  BY <1>2, AlwaysRegistered, PTL DEF Spec, DecisionStands

(* A statement and the one token redeemed for it tell the same body.        *)
Recorded ==
  /\ \A u \in Uploads : stmt[u] # None <=> draft[u].st = "approved"
  /\ \A k \in Tokens : token[k].st = "redeemed" => stmt[token[k].draft] = token[k].body
  /\ \A k, l \in Tokens : token[k].st = "redeemed" /\ token[l].st = "redeemed"
                            /\ token[k].draft = token[l].draft => k = l
  /\ \A u \in Uploads : stmt[u] # None =>
       \E k \in Tokens : token[k].st = "redeemed" /\ token[k].draft = u

LEMMA RecordedStep == Typed /\ Registered /\ Recorded /\ [Next]_vars => Recorded'
  <1> SUFFICES ASSUME Typed, Registered, Recorded, [Next]_vars  PROVE Recorded'
    OBVIOUS
  <1> USE DEF Typed, TypeOK
  <1>0. Reads \/ Dismisses \/ Issues \/ Approves \/ Expires  BY Moves
  <1>1. CASE Reads  BY <1>1 DEF Reads, Recorded
  <1>2. CASE Dismisses
    <2>1. PICK u \in Uploads : DismissDraft(u)  BY <1>2 DEF Dismisses
    <2> DEFINE d == [draft[u] EXCEPT !.st = "dismissed"]
    <2>2. d.st # "approved" /\ draft[u].st # "approved"  BY <2>1 DEF DismissDraft, Draft
    <2>3. draft' = [draft EXCEPT ![u] = d]  BY <2>1 DEF DismissDraft
    <2> HIDE DEF d
    <2> QED  BY <1>2, <2>2, <2>3 DEF Dismisses, Recorded
  <1>3. CASE Issues
    <2>1. \A k \in Tokens : \/ token'[k] = token[k]
                            \/ token[k].st = "none" /\ token'[k].st = "issued"
      BY <1>3 DEF Issues, Minted
    <2> QED  BY <1>3, <2>1 DEF Issues, Recorded
  <1>4. CASE Approves
    <2>1. PICK k \in Tokens, m \in Members, u \in Uploads, b \in Bodies :
            Approvable(k, m, u, b) /\ Approved(k, m, u, b)
      BY <1>4 DEF Approves
    <2> DEFINE t == [token[k] EXCEPT !.st = "redeemed"]
               d == [draft[u] EXCEPT !.st = "approved"]
    <2>2. t.st = "redeemed" /\ t.draft = token[k].draft /\ t.body = token[k].body
      BY DEF Token
    <2>3. d.st = "approved"  BY DEF Draft
    <2>4. /\ token[k].st = "issued" /\ token[k].draft = u /\ token[k].body = b
          /\ draft[u].st = "extracted"
      BY <2>1 DEF Approvable, Redeemable
    <2>5. /\ token' = [token EXCEPT ![k] = t] /\ draft' = [draft EXCEPT ![u] = d]
          /\ stmt' = [stmt EXCEPT ![u] = b]
      BY <2>1 DEF Approved
    <2> HIDE DEF t, d
    <2>6. stmt[u] = None /\ b # None  BY <2>4, IngestAssumption DEF Recorded
    <2>7. \A l \in Tokens : token[l].st = "redeemed" => token[l].draft # u
      BY <2>6, IngestAssumption DEF Recorded, Bound
    <2>8. \A v \in Uploads : stmt'[v] # None <=> draft'[v].st = "approved"
      BY <2>3, <2>5, <2>6 DEF Recorded
    <2>9. \A l \in Tokens : token'[l].st = "redeemed" => stmt'[token'[l].draft] = token'[l].body
      BY <2>2, <2>4, <2>5, <2>7 DEF Recorded, Bound
    <2>10. \A l, n \in Tokens : token'[l].st = "redeemed" /\ token'[n].st = "redeemed"
                                  /\ token'[l].draft = token'[n].draft => l = n
      BY <2>2, <2>4, <2>5, <2>7 DEF Recorded
    <2>11. \A v \in Uploads : stmt'[v] # None =>
             \E l \in Tokens : token'[l].st = "redeemed" /\ token'[l].draft = v
      BY <2>2, <2>4, <2>5 DEF Recorded
    <2> QED  BY <2>8, <2>9, <2>10, <2>11 DEF Recorded
  <1>5. CASE Expires
    <2>1. \A k \in Tokens :
            /\ token'[k].st = "redeemed" <=> token[k].st = "redeemed"
            /\ token'[k].draft = token[k].draft /\ token'[k].body = token[k].body
      BY <1>5 DEF Expires, ExpireSweep, TokenLapses, Token
    <2> QED  BY <1>5, <2>1 DEF Expires, Recorded
  <1> QED  BY <1>0, <1>1, <1>2, <1>3, <1>4, <1>5

LEMMA AlwaysRecorded == Spec => [](Typed /\ Registered /\ Recorded)
  <1>1. Init => Recorded  BY DEF Init, Recorded
  <1> QED  BY <1>1, AlwaysRegistered, RecordedStep, PTL DEF Spec

(* A draft has a statement iff it is approved, and the statement is the     *)
(* body of the one token redeemed for the draft.                            *)
THEOREM WrittenIsApproved == Spec => []WrittenAsApproved
  <1>1. Typed /\ Recorded => WrittenAsApproved
    <2> SUFFICES ASSUME Typed, Recorded, NEW u \in Uploads
                 PROVE  LET used == {k \in Tokens : token[k].st = "redeemed" /\ token[k].draft = u}
                        IN /\ stmt[u] # None <=> draft[u].st = "approved"
                           /\ Cardinality(used) = IF stmt[u] = None THEN 0 ELSE 1
                           /\ \A k \in used : token[k].body = stmt[u]
      BY DEF WrittenAsApproved
    <2> DEFINE used == {k \in Tokens : token[k].st = "redeemed" /\ token[k].draft = u}
    <2>1. \A k \in used : token[k].body = stmt[u]  BY DEF Recorded
    <2>2. CASE stmt[u] = None
      <3>1. \A k \in used : token[k].body # None
        BY IngestAssumption DEF Typed, Bound
      <3>2. used = {}  BY <2>1, <2>2, <3>1
      <3> HIDE DEF used
      <3>3. Cardinality(used) = 0  BY <3>2, FS_EmptySet
      <3> QED  BY <2>1, <2>2, <3>3 DEF Recorded, used
    <2>3. CASE stmt[u] # None
      <3>1. PICK k \in used : TRUE  BY <2>3 DEF Recorded
      <3>2. used = {k}  BY <3>1 DEF Recorded
      <3> HIDE DEF used
      <3>3. Cardinality(used) = 1  BY <3>2, FS_Singleton
      <3> QED  BY <2>1, <2>3, <3>3 DEF Recorded, used
    <2> QED  BY <2>2, <2>3
  <1> QED  BY <1>1, AlwaysRecorded, PTL

(* What a dialog shows as recorded stays recorded.                          *)
Told ==
  \A m \in Members : dialog[m].shown = "recorded" =>
    /\ dialog[m].draft \in Uploads /\ dialog[m].body \in Bodies
    /\ stmt[dialog[m].draft] = dialog[m].body

LEMMA ToldStep == Typed /\ Registered /\ Recorded /\ Told /\ [Next]_vars => Told'
  <1> SUFFICES ASSUME Typed, Registered, Recorded, Told, [Next]_vars  PROVE Told'
    OBVIOUS
  <1> USE DEF Typed, TypeOK
  <1>1. \A u \in Uploads : stmt[u] # None => stmt'[u] = stmt[u]
    <2>1. Reads \/ Dismisses \/ Issues \/ Approves \/ Expires  BY Moves
    <2>2. CASE Approves
      <3>1. PICK k \in Tokens, m \in Members, u \in Uploads, b \in Bodies :
              Approvable(k, m, u, b) /\ Approved(k, m, u, b)
        BY <2>2 DEF Approves
      <3>2. stmt[u] = None  BY <3>1 DEF Approvable, Recorded
      <3> QED  BY <3>1, <3>2 DEF Approved
    <2> QED  BY <2>1, <2>2 DEF Reads, Dismisses, Issues, Expires
  <1>2. ASSUME NEW m \in Members, NEW d, dialog' = [dialog EXCEPT ![m] = d],
               d.shown = "recorded" =>
                 d.draft \in Uploads /\ d.body \in Bodies /\ stmt'[d.draft] = d.body
        PROVE  Told'
    BY <1>1, <1>2, IngestAssumption DEF Told
  <1>3. ASSUME UNCHANGED dialog  PROVE Told'
    BY <1>1, <1>3, IngestAssumption DEF Told
  <1>4. ASSUME NEW m \in Members, NEW u \in Uploads, ReviewDraft(m, u)  PROVE Told'
    <2> DEFINE d == [NoDialog EXCEPT !.pc = "open", !.draft = u]
    <2>1. d.shown = "none"  BY DEF NoDialog
    <2>2. dialog' = [dialog EXCEPT ![m] = d]  BY <1>4 DEF ReviewDraft
    <2> HIDE DEF d
    <2> QED  BY <1>2, <2>1, <2>2
  <1>5. ASSUME NEW m \in Members, NEW k \in Tokens, NEW b \in Bodies, IssueApproval(m, k, b)
        PROVE  Told'
    <2> DEFINE d == [dialog[m] EXCEPT !.pc = "issued", !.body = b, !.token = k, !.shown = "none"]
               e == [dialog[m] EXCEPT !.shown = "error"]
    <2>1. dialog' = [dialog EXCEPT ![m] = d] \/ dialog' = [dialog EXCEPT ![m] = e]
      BY <1>5 DEF IssueApproval
    <2>2. d.shown = "none" /\ e.shown = "error"  BY DEF Dialog
    <2> HIDE DEF d, e
    <2> QED  BY <1>2, <2>1, <2>2
  <1>6. ASSUME NEW m \in Members, ApproveDraft(m)  PROVE Told'
    <2> DEFINE d == [dialog[m] EXCEPT !.pc = "closed", !.shown = "recorded"]
               e == [dialog[m] EXCEPT !.pc = "open", !.shown = "error"]
    <2>1. \/ dialog' = [dialog EXCEPT ![m] = e]
          \/ /\ dialog' = [dialog EXCEPT ![m] = d]
             /\ stmt' = [stmt EXCEPT ![dialog[m].draft] = dialog[m].body]
      BY <1>6 DEF ApproveDraft, Approved
    <2>2. /\ d.draft = dialog[m].draft /\ d.body = dialog[m].body /\ e.shown = "error"
          /\ dialog[m].draft \in Uploads /\ dialog[m].body \in Bodies
      BY <1>6 DEF ApproveDraft, Dialog, Bound
    <2> HIDE DEF d, e
    <2> QED  BY <1>2, <2>1, <2>2
  <1>7. ASSUME NEW m \in Members, CloseDialog(m)  PROVE Told'
    BY <1>2, <1>7 DEF CloseDialog, NoDialog
  <1>8. ASSUME NEW u \in Uploads,
               \/ \E by \in Callers, c \in Contents : RequestUpload(u, by, c)
               \/ UploadStep(u) \/ ConfirmDies(u) \/ GracePasses(u) \/ SweepOutbox(u)
               \/ DismissDraft(u)
        PROVE  Told'
    BY <1>3, <1>8 DEF RequestUpload, UploadStep, PutObject, ConfirmUpload, BeginIngest,
         EnqueueExtract, ConfirmDies, GracePasses, SweepOutbox, DismissDraft, review
  <1>9. CASE \/ \E m \in Messages : VisibilityTimeout(m) \/ (\E w \in Jobs : ReadMessage(w, m))
             \/ \E w \in Jobs : JobStep(w) \/ JobDies(w)
    BY <1>3, <1>9 DEF VisibilityTimeout, ReadMessage, JobStep, Extract, Persist, Settle,
         JobDies, review
  <1>10. CASE \/ \E m \in Members, k \in Tokens, b \in Bodies : ApproveElsewhere(m, k, b)
              \/ \E k \in Tokens : TokenLapses(k)
              \/ ExpireSweep \/ UNCHANGED vars
    BY <1>3, <1>10 DEF ApproveElsewhere, TokenLapses, ExpireSweep, vars
  <1> QED  BY <1>4, <1>5, <1>6, <1>7, <1>8, <1>9, <1>10 DEF Next

(* A dialog that shows a statement as recorded shows it word for word, now  *)
(* and later, whatever other dialogs, tokens and jobs do.                   *)
THEOREM ToldIsTrue == Spec => []ShownIsRecorded
  <1>1. Init => Told  BY DEF Init, Told, NoDialog
  <1>2. Told => ShownIsRecorded  BY DEF Told, ShownIsRecorded
  <1> QED  BY <1>1, <1>2, AlwaysRecorded, ToldStep, PTL DEF Spec

-----------------------------------------------------------------------------
(* Delivery *)

LEMMA DeliveryStep == Typed /\ Registered /\ DraftDelivered /\ [Next]_vars => DraftDelivered'
  <1> SUFFICES ASSUME Typed, Registered, DraftDelivered, [Next]_vars  PROVE DraftDelivered'
    OBVIOUS
  <1> USE DEF Typed, TypeOK, DraftDelivered
  <1>1. ASSUME UNCHANGED outbox,
               \A u \in Uploads : draft'[u].st = "pending" => draft[u].st = "pending"
        PROVE  DraftDelivered'
    BY <1>1
  <1>2. ASSUME NEW u \in Uploads, BeginIngest(u)  PROVE DraftDelivered'
    <2>1. CASE UNCHANGED <<draft, outbox>>  BY <1>1, <2>1
    <2>2. CASE ~ UNCHANGED <<draft, outbox>>
      <3> DEFINE o == [outbox[u] EXCEPT !.st = "pending"]
      <3>1. o.st = "pending"  BY DEF OutboxRow
      <3>2. outbox' = [outbox EXCEPT ![u] = o]  BY <1>2, <2>2 DEF BeginIngest
      <3>3. \A v \in Uploads \ {u} : draft'[v] = draft[v]  BY <1>2, <2>2 DEF BeginIngest
      <3> HIDE DEF o
      <3> QED  BY <3>1, <3>2, <3>3
    <2> QED  BY <2>1, <2>2
  <1>3. ASSUME NEW u \in Uploads, GracePasses(u)  PROVE DraftDelivered'
    <2> DEFINE o == [outbox[u] EXCEPT !.due = TRUE]
    <2>1. o.st = outbox[u].st /\ o.count = outbox[u].count  BY DEF OutboxRow
    <2>2. outbox' = [outbox EXCEPT ![u] = o] /\ UNCHANGED draft  BY <1>3 DEF GracePasses
    <2> HIDE DEF o
    <2> QED  BY <2>1, <2>2
  <1>4. ASSUME NEW u \in Uploads, SweepOutbox(u)  PROVE DraftDelivered'
    <2> DEFINE o == [outbox[u] EXCEPT !.st = "delivered"]
               p == [outbox[u] EXCEPT !.st = "abandoned"]
               q == [outbox[u] EXCEPT !.count = @ + 1, !.due = FALSE]
    <2>1. /\ outbox[u].st = "pending" /\ outbox[u].count \in 0 .. MaxEnqueues
          /\ p.st = "abandoned" /\ p.count = outbox[u].count /\ q.st = "pending"
      BY <1>4 DEF SweepOutbox, OutboxRow
    <2>2. \/ outbox' = [outbox EXCEPT ![u] = o] /\ Delivered(u)
          \/ outbox' = [outbox EXCEPT ![u] = p] /\ Exhausted(u)
          \/ outbox' = [outbox EXCEPT ![u] = q]
      BY <1>4 DEF SweepOutbox
    <2>3. UNCHANGED draft  BY <1>4 DEF SweepOutbox
    <2> HIDE DEF o, p, q
    <2>4. Exhausted(u) => outbox[u].count = MaxEnqueues
      BY <2>1, IngestAssumption DEF Exhausted
    <2> QED  BY <2>1, <2>2, <2>3, <2>4 DEF Delivered
  <1>5. ASSUME NEW w \in Jobs, JobStep(w) \/ JobDies(w)  PROVE DraftDelivered'
    <2>1. CASE Persist(w)
      <3>1. job[w].out \in Outcomes /\ job[w].msg[1] \in Uploads
        BY <2>1 DEF Persist, Bound, Messages
      <3>2. \/ draft' = draft
            \/ draft' = [draft EXCEPT ![job[w].msg[1]] = [st |-> job[w].out, read |-> job[w].out]]
        BY <2>1 DEF Persist
      <3> QED  BY <1>1, <2>1, <3>1, <3>2 DEF Persist, Outcomes
    <2> QED  BY <1>1, <1>5, <2>1 DEF JobStep, JobDies, Extract, Settle, intake
  <1>6. ASSUME NEW u \in Uploads,
               \/ \E by \in Callers, c \in Contents : RequestUpload(u, by, c)
               \/ PutObject(u) \/ ConfirmUpload(u) \/ EnqueueExtract(u) \/ ConfirmDies(u)
        PROVE  DraftDelivered'
    BY <1>1, <1>6 DEF RequestUpload, PutObject, ConfirmUpload, EnqueueExtract, ConfirmDies, intake
  <1>7. ASSUME NEW u \in Uploads, DismissDraft(u)  PROVE DraftDelivered'
    <2> DEFINE d == [draft[u] EXCEPT !.st = "dismissed"]
    <2>1. d.st = "dismissed"  BY DEF Draft
    <2>2. draft' = [draft EXCEPT ![u] = d] /\ UNCHANGED outbox  BY <1>7 DEF DismissDraft, files
    <2> HIDE DEF d
    <2> QED  BY <1>1, <2>1, <2>2
  <1>8. ASSUME Approves, UNCHANGED outbox  PROVE DraftDelivered'
    <2>1. PICK u \in Uploads : draft' = [draft EXCEPT ![u].st = "approved"]
      BY <1>8 DEF Approves, Approved
    <2> DEFINE d == [draft[u] EXCEPT !.st = "approved"]
    <2>2. d.st = "approved"  BY DEF Draft
    <2>3. draft' = [draft EXCEPT ![u] = d]  BY <2>1
    <2> HIDE DEF d
    <2> QED  BY <1>1, <1>8, <2>2, <2>3
  <1>9. ASSUME NEW m \in Members,
               \/ \E u \in Uploads : ReviewDraft(m, u)
               \/ \E k \in Tokens, b \in Bodies : IssueApproval(m, k, b)
               \/ \E k \in Tokens, b \in Bodies : ApproveElsewhere(m, k, b)
               \/ ApproveDraft(m) \/ CloseDialog(m)
        PROVE  DraftDelivered'
    <2>1. UNCHANGED outbox
      BY <1>9 DEF ReviewDraft, IssueApproval, ApproveElsewhere, ApproveDraft, CloseDialog, files
    <2>2. CASE UNCHANGED draft  BY <1>1, <2>1, <2>2
    <2>3. CASE ApproveDraft(m) /\ ~ UNCHANGED draft
      <3>1. dialog[m].token \in Tokens /\ dialog[m].draft \in Uploads /\ dialog[m].body \in Bodies
        BY <2>3 DEF ApproveDraft, Bound
      <3> QED  BY <1>8, <2>1, <2>3, <3>1 DEF ApproveDraft, Approves
    <2>4. CASE \E k \in Tokens, b \in Bodies : ApproveElsewhere(m, k, b)
      BY <1>8, <2>1, <2>4 DEF ApproveElsewhere, Approves, Bound
    <2> QED  BY <1>9, <2>2, <2>3, <2>4 DEF ReviewDraft, IssueApproval, CloseDialog
  <1>10. CASE \/ \E m \in Messages : VisibilityTimeout(m) \/ (\E w \in Jobs : ReadMessage(w, m))
              \/ \E k \in Tokens : TokenLapses(k)
              \/ ExpireSweep \/ UNCHANGED vars
    BY <1>1, <1>10 DEF VisibilityTimeout, ReadMessage, TokenLapses, ExpireSweep, files, vars
  <1> QED  BY <1>2, <1>3, <1>4, <1>5, <1>6, <1>7, <1>9, <1>10 DEF Next, UploadStep

(* A draft nobody has read yet is still to be swept, or was given up after  *)
(* MaxEnqueues messages: the outbox loses none to a lost message or a crash *)
(* between the commit and the enqueue.                                      *)
THEOREM NoDraftForgotten == Spec => []DraftDelivered
  <1>1. Init => DraftDelivered  BY DEF Init, DraftDelivered
  <1> QED  BY <1>1, AlwaysRegistered, DeliveryStep, PTL DEF Spec

-----------------------------------------------------------------------------
(* The implementation of Consent *)

consents == [k \in Tokens |-> ConsentOf(token[k])]
dismissals == {u \in Uploads : draft[u].st = "dismissed"}

LEMMA PromiseStep ==
  Typed /\ Registered /\ Recorded /\ [Next]_vars => [Promise!Next]_(Promise!vars)
  <1> SUFFICES ASSUME Typed, Registered, Recorded, [Next]_vars
               PROVE  Promise!Next \/ UNCHANGED <<consents, stmt, dismissals>>
    BY DEF Promise!vars, consents, dismissals
  <1> USE DEF Typed, TypeOK
  <1>0. Reads \/ Dismisses \/ Issues \/ Approves \/ Expires  BY Moves
  <1>a. \A k \in Tokens : consents'[k] = ConsentOf(token'[k])
    BY DEF consents, ConsentOf
  <1>b. /\ consents = [k \in Tokens |-> consents[k]]
        /\ consents' = [k \in Tokens |-> consents'[k]]
        /\ \A k \in Tokens : consents[k] = ConsentOf(token[k])
    BY DEF consents, ConsentOf
  <1>1. CASE Reads
    <2>1. dismissals' = dismissals  BY <1>1 DEF Reads, dismissals
    <2> QED  BY <1>1, <2>1 DEF Reads, consents
  <1>2. CASE Dismisses
    <2>1. PICK u \in Uploads : DismissDraft(u)  BY <1>2 DEF Dismisses
    <2> DEFINE d == [draft[u] EXCEPT !.st = "dismissed"]
    <2>2. d.st = "dismissed"  BY DEF Draft
    <2>3. draft' = [draft EXCEPT ![u] = d] /\ draft[u].st # "approved"
      BY <2>1 DEF DismissDraft
    <2> HIDE DEF d
    <2>4. dismissals' = dismissals \cup {u}  BY <2>2, <2>3 DEF dismissals
    <2>5. stmt[u] = None  BY <2>3 DEF Recorded
    <2>6. UNCHANGED <<consents, stmt>>  BY <1>2 DEF Dismisses, consents
    <2>7. Promise!Decline(u)
      BY <2>4, <2>5, <2>6 DEF Promise!Decline, consents, dismissals
    <2> QED  BY <2>7 DEF Promise!Next
  <1>3. CASE Issues
    <2>1. PICK k \in Tokens, m \in Members, u \in Uploads, b \in Bodies :
            token[k].st = "none" /\ token' = Minted(k, m, u, b)
      BY <1>3 DEF Issues
    <2>2. UNCHANGED <<stmt, dismissals>>  BY <1>3 DEF Issues, dismissals
    <2>3. consents[k].st = "none"  BY <2>1 DEF consents, ConsentOf
    <2>4. consents' = [consents EXCEPT ![k] = [st |-> "given", of |-> u, text |-> b]]
      BY <2>1 DEF consents, ConsentOf, Minted
    <2>5. Promise!Give(k, u, b)
      BY <2>2, <2>3, <2>4 DEF Promise!Give, consents, dismissals
    <2> QED  BY <2>5 DEF Promise!Next
  <1>4. CASE Approves
    <2>1. PICK k \in Tokens, m \in Members, u \in Uploads, b \in Bodies :
            Approvable(k, m, u, b) /\ Approved(k, m, u, b)
      BY <1>4 DEF Approves
    <2> DEFINE t == [token[k] EXCEPT !.st = "redeemed"]
               d == [draft[u] EXCEPT !.st = "approved"]
    <2>2. t.st = "redeemed" /\ t.draft = token[k].draft /\ t.body = token[k].body
      BY DEF Token
    <2>3. d.st = "approved"  BY DEF Draft
    <2>4. /\ token[k].st = "issued" /\ ~ token[k].over
          /\ token[k].draft = u /\ token[k].body = b /\ draft[u].st = "extracted"
      BY <2>1 DEF Approvable, Redeemable
    <2>5. /\ token' = [token EXCEPT ![k] = t] /\ draft' = [draft EXCEPT ![u] = d]
          /\ stmt' = [stmt EXCEPT ![u] = b]
      BY <2>1 DEF Approved
    <2> HIDE DEF t, d
    <2>6. consents[k] = [st |-> "given", of |-> u, text |-> b]
      BY <2>4 DEF consents, ConsentOf
    <2>7. ConsentOf(t) = [st |-> "used", of |-> u, text |-> b]
      BY <2>2, <2>4 DEF ConsentOf
    <2>8. consents' = [consents EXCEPT ![k] = ConsentOf(t)]
      <3>1. \A x \in Tokens : token'[x] = IF x = k THEN t ELSE token[x]  BY <2>5
      <3> HIDE DEF Typed, TypeOK
      <3>2. \A x \in Tokens : consents'[x] = IF x = k THEN ConsentOf(t) ELSE consents[x]
        BY <1>a, <1>b, <3>1
      <3> QED  BY <1>b, <3>2
    <2>9. consents' = [consents EXCEPT ![k].st = "used"]
      <3> HIDE DEF Typed, TypeOK
      <3>1. [consents[k] EXCEPT !.st = "used"] = ConsentOf(t)  BY <2>6, <2>7
      <3>2. consents' = [consents EXCEPT ![k] = [consents[k] EXCEPT !.st = "used"]]
        BY <2>8, <3>1
      <3> QED  BY <3>2
    <2>10. stmt[u] = None /\ u \notin dismissals  BY <2>4 DEF Recorded, dismissals
    <2>11. dismissals' = dismissals  BY <2>3, <2>4, <2>5 DEF dismissals
    <2> HIDE DEF Typed, TypeOK
    <2>12. Promise!Use(k)
      <3>1. consents[k].of = u /\ consents[k].text = b /\ consents[k].st = "given"  BY <2>6
      <3> DEFINE c == consents
      <3>2. /\ c[k].st = "given" /\ stmt[c[k].of] = None /\ c[k].of \notin dismissals
            /\ stmt' = [stmt EXCEPT ![c[k].of] = c[k].text]
            /\ c' = [c EXCEPT ![k].st = "used"] /\ dismissals' = dismissals
        BY <2>5, <2>9, <2>10, <2>11, <3>1
      <3> QED  BY <3>2 DEF Promise!Use, consents, dismissals
    <2> QED  BY <2>12 DEF Promise!Next
  <1>5. CASE ExpireSweep /\ Expires
    <2>1. \A k \in Tokens : ConsentOf(token'[k]) = ConsentOf(token[k])
      BY <1>5 DEF ExpireSweep, ConsentOf, Token
    <2> QED  BY <1>5, <2>1 DEF Expires, consents, dismissals
  <1>6. CASE Expires /\ \E k \in Tokens : TokenLapses(k)
    <2>1. PICK k \in Tokens : TokenLapses(k)  BY <1>6
    <2> DEFINE t == [token[k] EXCEPT !.over = TRUE]
    <2>2. t.st = "issued" /\ t.over /\ t.draft = token[k].draft /\ t.body = token[k].body
      BY <2>1 DEF TokenLapses, Token
    <2>3. token' = [token EXCEPT ![k] = t] /\ token[k].st = "issued" /\ ~ token[k].over
      BY <2>1 DEF TokenLapses
    <2> HIDE DEF t
    <2>4. consents[k] = [st |-> "given", of |-> token[k].draft, text |-> token[k].body]
      BY <2>3 DEF consents, ConsentOf
    <2>5. ConsentOf(t) = [st |-> "lapsed", of |-> token[k].draft, text |-> token[k].body]
      BY <2>2 DEF ConsentOf
    <2>6. consents' = [consents EXCEPT ![k] = ConsentOf(t)]
      <3>1. \A x \in Tokens : token'[x] = IF x = k THEN t ELSE token[x]  BY <2>3
      <3> HIDE DEF Typed, TypeOK
      <3>2. \A x \in Tokens : consents'[x] = IF x = k THEN ConsentOf(t) ELSE consents[x]
        BY <1>a, <1>b, <3>1
      <3> QED  BY <1>b, <3>2
    <2>7. consents' = [consents EXCEPT ![k].st = "lapsed"]
      <3> HIDE DEF Typed, TypeOK
      <3>1. [consents[k] EXCEPT !.st = "lapsed"] = ConsentOf(t)  BY <2>4, <2>5
      <3>2. consents' = [consents EXCEPT ![k] = [consents[k] EXCEPT !.st = "lapsed"]]
        BY <2>6, <3>1
      <3> QED  BY <3>2
    <2>8. UNCHANGED <<stmt, dismissals>>  BY <1>6 DEF Expires, dismissals
    <2>9. Promise!Lapse(k)
      BY <2>4, <2>7, <2>8 DEF Promise!Lapse, consents, dismissals
    <2> QED  BY <2>9 DEF Promise!Next
  <1> QED  BY <1>0, <1>1, <1>2, <1>3, <1>4, <1>5, <1>6 DEF Expires

(* The statement review keeps the promise of Consent: what is recorded was  *)
(* consented to, word for word, by a consent that stood then and is used up *)
(* by it; nothing is recorded twice, nothing that was declined ever.        *)
THEOREM PromiseKept == Spec => KeepsPromise
  <1>1. Init => Promise!Init
    BY DEF Init, Promise!Init, Promise!Ungiven, ConsentOf
  <1> QED  BY <1>1, AlwaysRecorded, PromiseStep, PTL DEF Spec, KeepsPromise, Promise!Spec
=============================================================================
