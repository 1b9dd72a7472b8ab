------------------------------ MODULE LinkSaga ------------------------------
(***************************************************************************)
(* How a bank connection begins and ends: link attempts, the sealed        *)
(* provider credential that travels from an attempt to a connection, the   *)
(* reaper of attempts that came to nothing, and disconnection.             *)
(*                                                                         *)
(* Three kinds of processes meet on the rows: link requests and disconnect *)
(* requests of the REST API, and runs of the reaper.  Each call of the     *)
(* database is one transaction, hence one action; each call of the         *)
(* provider is another, and may fail, be refused by the daily budget, or   *)
(* take effect although its answer is lost.                                *)
(***************************************************************************)
EXTENDS Integers, FiniteSets

CONSTANTS
  Attempts,     \* link attempts, one for each command id
  Items,        \* provider items
  Links,        \* concurrent requests to /connections/link
  Unlinks,      \* concurrent requests to /connections/disconnect
  Reapers,      \* concurrent runs of /reap-links
  None,
  Relinks,      \* TRUE: an exchange may return an item known already
  MaxReaps,     \* reap_attempts after which an attempt is left alone (5 in the code)
  DailyLimit,   \* PLAID_DAILY_CALL_LIMIT
  MaxRemovals,  \* bound: removal attempts of one connection
  MaxFaults     \* bound: crashes, failed calls and lost answers

ASSUME LinkAssumption ==
  /\ None \notin Attempts \cup Items \cup Reapers
  /\ Relinks \in BOOLEAN
  /\ MaxReaps \in Nat \ {0} /\ DailyLimit \in Nat \ {0}
  /\ MaxRemovals \in Nat /\ MaxFaults \in Nat

VARIABLES
  att,     \* link_attempts
  conn,    \* the connections row of each item, with its credential and removal attempt
  item,    \* the provider's items
  link,    \* local state of each link request
  unlink,  \* local state of each disconnect request
  reap,    \* local state of each reaper run
  quota,   \* provider calls left today
  faults   \* what is left of MaxFaults

vars == <<att, conn, item, link, unlink, reap, quota, faults>>

-----------------------------------------------------------------------------
(* State *)

Attempt == [st : {"none", "initiated", "exchanged", "succeeded", "failed", "reaping", "reaped"},
            item : Items \cup {None}, sealed : BOOLEAN, expired : BOOLEAN,
            reaps : 0 .. MaxReaps, claim : Reapers \cup {None}]
(* connections_plaid_provider_external_ref_key: one row for each item, for ever.  *)
Connection == [st : {"none", "active", "disconnecting", "disconnected"}, cred : BOOLEAN,
               by : Attempts \cup {None}, removal : Nat,
               rst : {"none", "pending", "failed", "succeeded"}]
(* shared: more than one exchange returned it; doubt: a removal whose answer was  *)
(* lost or never recorded.                                                 *)
Item == [life : {"unborn", "alive", "gone"}, shared : BOOLEAN, doubt : BOOLEAN]
LinkRun == [pc : {"idle", "begun", "token", "undo", "recorded", "empty", "finalize", "fail"},
            att : Attempts \cup {None}, item : Items \cup {None}, removed : BOOLEAN]
UnlinkRun == [pc : {"idle", "begun", "token", "complete"}, item : Items \cup {None},
              removal : Nat, removed : BOOLEAN]
Outcome == {"done", "error", "lost", "refused"}
ReapRun == [todo : SUBSET Attempts, cur : Attempts \cup {None}, out : Outcome \cup {None}]

TypeOK ==
  /\ att \in [Attempts -> Attempt]
  /\ conn \in [Items -> Connection]
  /\ item \in [Items -> Item]
  /\ link \in [Links -> LinkRun]
  /\ unlink \in [Unlinks -> UnlinkRun]
  /\ reap \in [Reapers -> ReapRun]
  /\ quota \in 0 .. DailyLimit
  /\ faults \in 0 .. MaxFaults

NoLink == [pc |-> "idle", att |-> None, item |-> None, removed |-> FALSE]
NoUnlink == [pc |-> "idle", item |-> None, removal |-> 0, removed |-> FALSE]
NoReap == [todo |-> {}, cur |-> None, out |-> None]

Init ==
  /\ att = [a \in Attempts |-> [st |-> "none", item |-> None, sealed |-> FALSE,
                                expired |-> FALSE, reaps |-> 0, claim |-> None]]
  /\ conn = [i \in Items |-> [st |-> "none", cred |-> FALSE, by |-> None,
                              removal |-> 0, rst |-> "none"]]
  /\ item = [i \in Items |-> [life |-> "unborn", shared |-> FALSE, doubt |-> FALSE]]
  /\ link = [r \in Links |-> NoLink]
  /\ unlink = [d \in Unlinks |-> NoUnlink]
  /\ reap = [w \in Reapers |-> NoReap]
  /\ quota = DailyLimit
  /\ faults = MaxFaults

-----------------------------------------------------------------------------
(* Calls of the provider *)

Fault == faults > 0 /\ faults' = faults - 1

(* One metered call: the budget is reserved before it is made. *)
Call(out) ==
  /\ IF quota = 0 THEN out = "refused" /\ UNCHANGED quota
                  ELSE out # "refused" /\ quota' = quota - 1
  /\ IF out \in {"error", "lost"} THEN Fault ELSE UNCHANGED faults

(* itemRemove: an item that is not found counts as removed. *)
ItemRemove(i, out) ==
  /\ Call(out)
  /\ item' = IF out \in {"done", "lost"} /\ item[i].life = "alive"
               THEN [item EXCEPT ![i].life = "gone", ![i].doubt = @ \/ out = "lost"]
               ELSE item

NewDay == quota < DailyLimit /\ quota' = DailyLimit
          /\ UNCHANGED <<att, conn, item, link, unlink, reap, faults>>

-----------------------------------------------------------------------------
(* The link request *)

AtLink(r, place) == link[r].pc = place
GotoLink(r, place) == link' = [link EXCEPT ![r].pc = place]
EndLink(r) == link' = [link EXCEPT ![r] = NoLink]
FailWith(r, removed) == link' = [link EXCEPT ![r].pc = "fail", ![r].removed = removed]

(* keel_begin_link: a command id begun before is resumed if still initiated.  *)
BeginLink(r, a) ==
  /\ AtLink(r, "idle") /\ att[a].st \in {"none", "initiated"}
  /\ att' = [att EXCEPT ![a].st = "initiated"]
  /\ link' = [link EXCEPT ![r] = [pc |-> "begun", att |-> a, item |-> None, removed |-> FALSE]]
  /\ UNCHANGED <<conn, item, unlink, reap, quota, faults>>

Exchangeable(i) == item[i].life = "unborn" \/ (Relinks /\ item[i].life = "alive")
Exchanged(i) == [item EXCEPT ![i].life = "alive",
                             ![i].shared = item[i].life = "alive"]

Exchange(r) ==
  /\ AtLink(r, "begun")
  /\ \E out \in Outcome :
       /\ Call(out)
       /\ CASE out = "done" -> \E i \in Items :
                 /\ Exchangeable(i)
                 /\ item' = Exchanged(i)
                 /\ link' = [link EXCEPT ![r].pc = "token", ![r].item = i]
            [] out = "lost" -> \E i \in Items :
                 Exchangeable(i) /\ item' = Exchanged(i) /\ EndLink(r)
            [] OTHER -> EndLink(r) /\ UNCHANGED item
  /\ UNCHANGED <<att, conn, unlink, reap>>

EncryptFails(r) ==
  /\ AtLink(r, "token") /\ Fault /\ GotoLink(r, "undo")
  /\ UNCHANGED <<att, conn, item, unlink, reap, quota>>

(* keel_record_link_exchange *)
RecordLinkExchange(r) ==
  /\ AtLink(r, "token")
  /\ LET a == link[r].att
         i == link[r].item
     IN CASE att[a].st = "exchanged" /\ att[a].item = i ->
               GotoLink(r, "recorded") /\ UNCHANGED att
          [] att[a].st = "initiated" ->
               /\ att' = [att EXCEPT ![a].st = "exchanged", ![a].item = i, ![a].sealed = TRUE]
               /\ GotoLink(r, "recorded")
          [] OTHER -> GotoLink(r, "undo") /\ UNCHANGED att
  /\ UNCHANGED <<conn, item, unlink, reap, quota, faults>>

(* Best effort: the request owns no row and gives the item back. *)
Undo(r) ==
  /\ AtLink(r, "undo")
  /\ \E out \in Outcome : ItemRemove(link[r].item, out)
  /\ EndLink(r)
  /\ UNCHANGED <<att, conn, unlink, reap>>

AccountsGet(r) ==
  /\ AtLink(r, "recorded")
  /\ \E out \in Outcome \ {"lost"} :
       /\ Call(out)
       /\ \/ out = "done" /\ item[link[r].item].life = "alive"
             /\ (GotoLink(r, "finalize") \/ GotoLink(r, "empty"))
          \/ out = "done" /\ item[link[r].item].life = "gone" /\ FailWith(r, FALSE)
          \/ out # "done" /\ FailWith(r, FALSE)
  /\ UNCHANGED <<att, conn, item, unlink, reap>>

(* No supported account: the item is given back while its token is at hand. *)
RemoveEmpty(r) ==
  /\ AtLink(r, "empty")
  /\ \E out \in Outcome : ItemRemove(link[r].item, out) /\ FailWith(r, out = "done")
  /\ UNCHANGED <<att, conn, unlink, reap>>

FailLinkAttemptUnsealing(r) ==   \* mutant: the envelope is shredded whatever the provider said
  /\ AtLink(r, "fail")
  /\ att' = [att EXCEPT ![link[r].att] =
               IF @.st = "exchanged" THEN [@ EXCEPT !.st = "failed", !.sealed = FALSE] ELSE @]
  /\ EndLink(r)
  /\ UNCHANGED <<conn, item, unlink, reap, quota, faults>>

(* keel_fail_link_attempt *)
FailLinkAttempt(r) ==
  /\ AtLink(r, "fail")
  /\ LET a == link[r].att
     IN att' = IF \/ att[a].st = "exchanged" /\ att[a].item = link[r].item
                  \/ att[a].st = "initiated"
                 THEN [att EXCEPT ![a].st = "failed",
                                  ![a].sealed = @ /\ ~link[r].removed]
                 ELSE att
  /\ EndLink(r)
  /\ UNCHANGED <<conn, item, unlink, reap, quota, faults>>

FinalizeLinkClaimed(r) ==   \* mutant: the envelope is enough, whoever works on the attempt
  /\ AtLink(r, "finalize") /\ EndLink(r)
  /\ LET a == link[r].att
         i == att[a].item
     IN IF att[a].sealed /\ conn[i].st = "none"
          THEN /\ conn' = [conn EXCEPT ![i].st = "active", ![i].cred = TRUE, ![i].by = a]
               /\ att' = [att EXCEPT ![a].st = "succeeded", ![a].sealed = FALSE]
          ELSE UNCHANGED <<att, conn>>
  /\ UNCHANGED <<item, unlink, reap, quota, faults>>

(* keel_finalize_link: the credential moves from the attempt to a connection. *)
FinalizeLink(r) ==
  /\ AtLink(r, "finalize")
  /\ LET a == link[r].att
         i == att[a].item
     IN CASE att[a].st = "succeeded" -> EndLink(r) /\ UNCHANGED <<att, conn>>
          [] att[a].st = "exchanged" /\ att[a].sealed /\ conn[i].st = "active" ->
               att' = [att EXCEPT ![a].st = "failed"] /\ EndLink(r) /\ UNCHANGED conn
          [] att[a].st = "exchanged" /\ att[a].sealed /\ conn[i].st = "none" ->
               /\ conn' = [conn EXCEPT ![i].st = "active", ![i].cred = TRUE, ![i].by = a]
               /\ att' = [att EXCEPT ![a].st = "succeeded", ![a].sealed = FALSE]
               /\ EndLink(r)
          [] OTHER -> FailWith(r, FALSE) /\ UNCHANGED <<att, conn>>
  /\ UNCHANGED <<item, unlink, reap, quota, faults>>

LinkCrash(r) ==
  /\ ~AtLink(r, "idle") /\ Fault /\ EndLink(r)
  /\ UNCHANGED <<att, conn, item, unlink, reap, quota>>

LinkStep(r) ==
  \/ Exchange(r) \/ RecordLinkExchange(r) \/ Undo(r) \/ AccountsGet(r)
  \/ RemoveEmpty(r) \/ FailLinkAttempt(r) \/ FinalizeLink(r)

-----------------------------------------------------------------------------
(* The reaper *)

Expire(a) ==
  /\ att[a].st # "none" /\ ~att[a].expired
  /\ att' = [att EXCEPT ![a].expired = TRUE]
  /\ UNCHANGED <<conn, item, link, unlink, reap, quota, faults>>

(* A claim is given up after ten minutes, more than a run can last. *)
Lapsed(a) == \A w \in Reapers : att[a].claim = w => a \notin reap[w].todo

ReapableUnsealed(a) ==   \* mutant: claims what has no envelope as well
  /\ att[a].reaps < MaxReaps /\ att[a].st \in {"exchanged", "failed", "succeeded"} /\ att[a].expired

Reapable(a) ==
  /\ att[a].sealed /\ att[a].reaps < MaxReaps
  /\ \/ att[a].st \in {"exchanged", "failed"} /\ att[a].expired
     \/ att[a].st = "reaping" /\ Lapsed(a)

(* keel_reap_orphan_link_attempts *)
ReapClaim(w) ==
  /\ reap[w] = NoReap
  /\ LET claimed == {a \in Attempts : Reapable(a)}
     IN /\ claimed # {}
        /\ att' = [a \in Attempts |->
                     IF a \in claimed THEN [att[a] EXCEPT !.st = "reaping", !.claim = w] ELSE att[a]]
        /\ reap' = [reap EXCEPT ![w].todo = claimed]
  /\ UNCHANGED <<conn, item, link, unlink, quota, faults>>

ReapRemove(w, a) ==
  /\ a \in reap[w].todo /\ reap[w].cur = None
  /\ \E out \in Outcome :
       /\ ItemRemove(att[a].item, out)
       /\ reap' = [reap EXCEPT ![w].cur = a, ![w].out = out]
  /\ UNCHANGED <<att, conn, link, unlink>>

(* What keel_mark_link_attempt_reaped makes of a claimed attempt. *)
Reaped(row, out) ==
  CASE out = "refused" -> [row EXCEPT !.st = "exchanged", !.claim = None]
    [] out = "done" -> [row EXCEPT !.st = "reaped", !.sealed = FALSE, !.claim = None]
    [] OTHER -> [row EXCEPT !.st = IF row.reaps + 1 >= MaxReaps THEN "failed" ELSE "exchanged",
                            !.reaps = row.reaps + 1, !.claim = None]

MarkLinkAttemptReaped(w) ==
  /\ reap[w].cur # None
  /\ LET a == reap[w].cur
     IN IF att[a].st = "reaping" /\ att[a].claim = w
          THEN /\ att' = [att EXCEPT ![a] = Reaped(att[a], reap[w].out)]
               /\ reap' = [reap EXCEPT ![w] = [NoReap EXCEPT !.todo = reap[w].todo \ {a}]]
          ELSE reap' = [reap EXCEPT ![w] = NoReap] /\ UNCHANGED att
  /\ UNCHANGED <<conn, item, link, unlink, quota, faults>>

ReapCrash(w) ==
  /\ reap[w] # NoReap /\ Fault
  /\ reap' = [reap EXCEPT ![w] = NoReap]
  /\ item' = IF reap[w].cur = None THEN item ELSE [item EXCEPT ![att[reap[w].cur].item].doubt = TRUE]
  /\ UNCHANGED <<att, conn, link, unlink, quota>>

ReapStep(w) == (\E a \in Attempts : ReapRemove(w, a)) \/ MarkLinkAttemptReaped(w)

-----------------------------------------------------------------------------
(* The disconnect request *)

AtUnlink(d, place) == unlink[d].pc = place
EndUnlink(d) == unlink' = [unlink EXCEPT ![d] = NoUnlink]

(* keel_disconnect_begin: a pending removal is taken over, else one begins.  *)
DisconnectBegin(d, i) ==
  /\ AtUnlink(d, "idle") /\ conn[i].st \in {"active", "disconnecting"}
  /\ IF conn[i].st = "disconnecting" /\ conn[i].rst = "pending"
       THEN /\ unlink' = [unlink EXCEPT ![d] = [pc |-> "begun", item |-> i,
                                                removal |-> conn[i].removal, removed |-> FALSE]]
            /\ UNCHANGED conn
       ELSE /\ conn[i].removal < MaxRemovals
            /\ conn' = [conn EXCEPT ![i].st = "disconnecting", ![i].rst = "pending",
                                    ![i].removal = @ + 1]
            /\ unlink' = [unlink EXCEPT ![d] = [pc |-> "begun", item |-> i,
                                                removal |-> conn[i].removal + 1, removed |-> FALSE]]
  /\ UNCHANGED <<att, item, link, reap, quota, faults>>

(* keel_get_connection_credential_envelope *)
ReadCredential(d) ==
  /\ AtUnlink(d, "begun")
  /\ unlink' = [unlink EXCEPT ![d].pc = IF conn[unlink[d].item].cred THEN "token" ELSE "complete"]
  /\ UNCHANGED <<att, conn, item, link, reap, quota, faults>>

RemoveConnected(d) ==
  /\ AtUnlink(d, "token")
  /\ \E out \in Outcome :
       /\ ItemRemove(unlink[d].item, out)
       /\ unlink' = [unlink EXCEPT ![d].pc = "complete", ![d].removed = out = "done"]
  /\ UNCHANGED <<att, conn, link, reap>>

DisconnectCompleteAlways(d) ==   \* mutant: the connection ends although its removal failed
  /\ AtUnlink(d, "complete")
  /\ conn' = [conn EXCEPT ![unlink[d].item] =
                [@ EXCEPT !.st = "disconnected", !.cred = FALSE, !.rst = "succeeded"]]
  /\ EndUnlink(d)
  /\ UNCHANGED <<att, item, link, reap, quota, faults>>

(* keel_disconnect_complete; a stale transition changes nothing. *)
DisconnectComplete(d) ==
  /\ AtUnlink(d, "complete")
  /\ LET i == unlink[d].item
     IN conn' = IF /\ conn[i].st = "disconnecting" /\ conn[i].rst = "pending"
                   /\ conn[i].removal = unlink[d].removal
                  THEN [conn EXCEPT ![i] =
                          IF unlink[d].removed
                            THEN [@ EXCEPT !.st = "disconnected", !.cred = FALSE, !.rst = "succeeded"]
                            ELSE [@ EXCEPT !.rst = "failed"]]
                  ELSE conn
  /\ EndUnlink(d)
  /\ UNCHANGED <<att, item, link, reap, quota, faults>>

UnlinkCrash(d) ==
  /\ ~AtUnlink(d, "idle") /\ Fault /\ EndUnlink(d)
  /\ UNCHANGED <<att, conn, item, link, reap, quota>>

UnlinkStep(d) == ReadCredential(d) \/ RemoveConnected(d) \/ DisconnectComplete(d)

-----------------------------------------------------------------------------
Next ==
  \/ NewDay
  \/ \E a \in Attempts : Expire(a)
  \/ \E r \in Links : (\E a \in Attempts : BeginLink(r, a)) \/ LinkStep(r)
                      \/ EncryptFails(r) \/ LinkCrash(r)
  \/ \E w \in Reapers : ReapClaim(w) \/ ReapStep(w) \/ ReapCrash(w)
  \/ \E d \in Unlinks : (\E i \in Items : DisconnectBegin(d, i)) \/ UnlinkStep(d) \/ UnlinkCrash(d)

Spec == Init /\ [][Next]_vars

(* Requests that are not killed continue, days and the lifetime of an       *)
(* attempt pass, and the reaper is called every fifteen minutes.            *)
Fairness ==
  /\ WF_vars(NewDay)
  /\ \A a \in Attempts : WF_vars(Expire(a))
  /\ \A r \in Links : WF_vars(LinkStep(r))
  /\ \A w \in Reapers : WF_vars(ReapClaim(w)) /\ WF_vars(ReapStep(w))
FairSpec == Spec /\ Fairness

-----------------------------------------------------------------------------
(* Properties *)

(* Some row holds the sealed credential of the item. *)
Held(i) == conn[i].cred \/ \E a \in Attempts : att[a].item = i /\ att[a].sealed

(* What the guard on credential deletion is about: an item whose credential  *)
(* was ever stored is never alive at the provider without a stored           *)
(* credential to remove it with, whichever request, reaper or crash comes.   *)
NeverStranded ==
  \A a \in Attempts : att[a].item # None /\ item[att[a].item].life = "alive" => Held(att[a].item)

(* A connection shown as disconnected has no item left at the provider and   *)
(* no credential, whatever overlapping requests were told.                   *)
DisconnectedIsGone ==
  \A i \in Items : conn[i].st = "disconnected" => item[i].life = "gone" /\ ~conn[i].cred

(* A connection in use loses its item at the provider only if two links      *)
(* exchanged the same item, or the answer of a removal was never recorded;    *)
(* neither a reaper nor the undoing of a failed link takes it otherwise.      *)
ActiveItemLives ==
  \A i \in Items : conn[i].st = "active" /\ ~item[i].shared /\ ~item[i].doubt
                     => item[i].life = "alive"

(* The attempt a connection was made from is settled: it is marked           *)
(* succeeded, keeps no copy of the credential, and no reaper run works on it. *)
MovedOnce ==
  \A i \in Items : conn[i].by # None =>
    LET a == conn[i].by
    IN /\ att[a].st = "succeeded" /\ ~att[a].sealed /\ att[a].item = i
       /\ \A w \in Reapers : a \notin reap[w].todo

(* Every stored credential of an attempt is used up: it moves to a           *)
(* connection, or the reaper removes the item with it, or gives up after     *)
(* MaxReaps failures.  Days without budget only delay it.                    *)
EnvelopeUsed ==
  \A a \in Attempts : att[a].sealed ~> ~att[a].sealed \/ att[a].reaps = MaxReaps
=============================================================================
