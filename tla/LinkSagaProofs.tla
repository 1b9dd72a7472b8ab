--------------------------- MODULE LinkSagaProofs ---------------------------
(***************************************************************************)
(* What holds of linking, reaping and disconnecting for any number of      *)
(* requests, items and reapers, any budget and any number of faults.       *)
(*                                                                         *)
(* The invariant is a predicate on the rows of each variable.  The life of *)
(* an item only goes on, so what a row says of it stays true; an action is *)
(* the new value of one row or two, and its proof shows what these say.    *)
(***************************************************************************)
EXTENDS LinkSaga, TLAPS

-----------------------------------------------------------------------------
(* The invariant, part by part *)

Counted == /\ item \in [Items -> Item]
           /\ quota \in 0 .. DailyLimit
           /\ faults \in 0 .. MaxFaults

(* Where a request stands tells what it has at hand, and it says an item    *)
(* was removed only of one that is gone.                                    *)
LinkRow(n, it) ==
  /\ n \in LinkRun
  /\ n.pc # "idle" => n.att \in Attempts
  /\ n.pc \notin {"idle", "begun"} => n.item \in Items
  /\ n.item \in Items => it[n.item].life # "unborn"
  /\ n.removed => n.pc = "fail" /\ n.item \in Items /\ it[n.item].life = "gone"

UnlinkRow(n, it) ==
  /\ n \in UnlinkRun
  /\ n.pc # "idle" => n.item \in Items /\ it[n.item].life # "unborn"
  /\ n.removed => n.item \in Items /\ it[n.item].life = "gone"

(* An attempt has an item once its exchange is recorded, and an envelope    *)
(* only of an item.                                                         *)
AttRow(b, it) ==
  /\ b \in Attempt
  /\ b.st \in {"none", "initiated"} => b.item = None
  /\ b.sealed => b.item \in Items
  /\ b.st = "reaping" => b.reaps < MaxReaps
  /\ b.item \in Items => it[b.item].life # "unborn"

ConnRow(c, i, it) ==
  /\ c \in Connection
  /\ c.st # "none" => it[i].life # "unborn"
  /\ c.st = "none" => c.by = None
  /\ c.st = "disconnected" => it[i].life = "gone" /\ ~ c.cred

(* A reaper run works on the attempts it holds the claim of.                *)
ReapRow(n, w, at, it) ==
  /\ n \in ReapRun
  /\ \A a \in n.todo : at[a].st = "reaping" /\ at[a].claim = w /\ at[a].sealed
  /\ n.cur # None => n.cur \in n.todo /\ n.out \in Outcome
  /\ n.cur # None /\ n.out = "done" => it[at[n.cur].item].life = "gone"

LinksOK == link \in [Links -> LinkRun] /\ \A r \in Links : LinkRow(link[r], item)
UnlinksOK == unlink \in [Unlinks -> UnlinkRun] /\ \A d \in Unlinks : UnlinkRow(unlink[d], item)
AttsOK == att \in [Attempts -> Attempt] /\ \A a \in Attempts : AttRow(att[a], item)
ConnsOK == conn \in [Items -> Connection] /\ \A i \in Items : ConnRow(conn[i], i, item)
ReapsOK == reap \in [Reapers -> ReapRun] /\ \A w \in Reapers : ReapRow(reap[w], w, att, item)

SagaInv == /\ Counted /\ LinksOK /\ UnlinksOK /\ AttsOK /\ ConnsOK /\ ReapsOK
           /\ MovedOnce /\ NeverStranded

LEMMA SagaInit == LinkAssumption /\ Init => SagaInv
BY DEF LinkAssumption, Init, SagaInv, Counted, LinksOK, UnlinksOK, AttsOK, ConnsOK, ReapsOK,
       LinkRow, UnlinkRow, AttRow, ConnRow, ReapRow, MovedOnce, NeverStranded,
       Attempt, Connection, Item, LinkRun, UnlinkRun, ReapRun, NoLink, NoUnlink, NoReap

-----------------------------------------------------------------------------
(* Frames: what an action that leaves a variable alone, or sets one row of   *)
(* it, has to show.                                                         *)

LifeGoesOn ==
  /\ item' \in [Items -> Item]
  /\ \A i \in Items : /\ item[i].life # "unborn" => item'[i].life # "unborn"
                      /\ item[i].life = "gone" => item'[i].life = "gone"
                      /\ item'[i].life = "alive" => item[i].life \in {"alive", "unborn"}

LEMMA LifeStays == ASSUME SagaInv, item' = item PROVE LifeGoesOn
BY DEF SagaInv, Counted, LifeGoesOn

LEMMA LinkSet ==
  ASSUME SagaInv, LifeGoesOn, NEW r \in Links, NEW n, LinkRow(n, item'),
         link' = [link EXCEPT ![r] = n]
  PROVE  LinksOK'
<1>1. link' \in [Links -> LinkRun]
      BY DEF SagaInv, LinksOK, LinkRow
<1>2. ASSUME NEW q \in Links PROVE LinkRow(link'[q], item')
  <2>1. LinkRow(link[q], item) /\ (link'[q] = n \/ link'[q] = link[q])
        BY DEF SagaInv, LinksOK
  <2> QED
      BY <2>1 DEF LinkRow, LifeGoesOn
<1> QED
    BY <1>1, <1>2 DEF LinksOK

LEMMA LinkKept == ASSUME SagaInv, LifeGoesOn, link' = link PROVE LinksOK'
<1>1. ASSUME NEW q \in Links PROVE LinkRow(link[q], item')
      BY DEF SagaInv, LinksOK, LinkRow, LifeGoesOn
<1> QED
    BY <1>1 DEF SagaInv, LinksOK

LEMMA UnlinkSet ==
  ASSUME SagaInv, LifeGoesOn, NEW d \in Unlinks, NEW n, UnlinkRow(n, item'),
         unlink' = [unlink EXCEPT ![d] = n]
  PROVE  UnlinksOK'
<1>1. unlink' \in [Unlinks -> UnlinkRun]
      BY DEF SagaInv, UnlinksOK, UnlinkRow
<1>2. ASSUME NEW q \in Unlinks PROVE UnlinkRow(unlink'[q], item')
  <2>1. UnlinkRow(unlink[q], item) /\ (unlink'[q] = n \/ unlink'[q] = unlink[q])
        BY DEF SagaInv, UnlinksOK
  <2> QED
      BY <2>1 DEF UnlinkRow, LifeGoesOn
<1> QED
    BY <1>1, <1>2 DEF UnlinksOK

LEMMA UnlinkKept == ASSUME SagaInv, LifeGoesOn, unlink' = unlink PROVE UnlinksOK'
<1>1. ASSUME NEW q \in Unlinks PROVE UnlinkRow(unlink[q], item')
      BY DEF SagaInv, UnlinksOK, UnlinkRow, LifeGoesOn
<1> QED
    BY <1>1 DEF SagaInv, UnlinksOK

LEMMA ConnKept == ASSUME SagaInv, LifeGoesOn, conn' = conn PROVE ConnsOK'
<1>1. ASSUME NEW i \in Items PROVE ConnRow(conn[i], i, item')
      BY DEF SagaInv, ConnsOK, ConnRow, LifeGoesOn
<1> QED
    BY <1>1 DEF SagaInv, ConnsOK

LEMMA ReapKept ==
  ASSUME SagaInv, LifeGoesOn, reap' = reap,
         \A a \in Attempts : att[a].st = "reaping" => /\ att'[a].st = att[a].st
                                                      /\ att'[a].claim = att[a].claim
                                                      /\ att'[a].sealed = att[a].sealed
                                                      /\ att'[a].item = att[a].item
  PROVE  ReapsOK'
<1>1. ASSUME NEW w \in Reapers PROVE ReapRow(reap[w], w, att', item')
  <2>1. ReapRow(reap[w], w, att, item) /\ reap[w] \in ReapRun /\ reap[w].todo \subseteq Attempts
        BY DEF SagaInv, ReapsOK, ReapRun
  <2>2. \A a \in reap[w].todo : att[a].item \in Items
        BY <2>1 DEF SagaInv, AttsOK, AttRow, ReapRow
  <2> QED
      BY <2>1, <2>2 DEF ReapRow, LifeGoesOn
<1> QED
    BY <1>1 DEF SagaInv, ReapsOK

(* An attempt whose item changes nothing else: the rows that refer to it    *)
(* keep what they say of it.                                                *)
LEMMA LifeKept ==
  ASSUME SagaInv, LifeGoesOn, UNCHANGED <<att, conn>>
  PROVE  AttsOK' /\ ConnsOK' /\ NeverStranded' /\ (reap' = reap => MovedOnce' /\ ReapsOK')
<1>1. ASSUME NEW a \in Attempts PROVE AttRow(att[a], item')
      BY DEF SagaInv, AttsOK, AttRow, LifeGoesOn
<1>2. NeverStranded'
  <2> SUFFICES ASSUME NEW a \in Attempts, att[a].item # None, item'[att[a].item].life = "alive"
               PROVE  Held(att[a].item)
      BY DEF NeverStranded, Held
  <2>1. att[a].item \in Items /\ item[att[a].item].life # "unborn"
        BY DEF SagaInv, AttsOK, AttRow, Attempt
  <2> QED
      BY <2>1 DEF SagaInv, NeverStranded, LifeGoesOn
<1>3. AttsOK'
      BY <1>1 DEF SagaInv, AttsOK
<1> QED
    BY <1>2, <1>3, ConnKept, ReapKept DEF SagaInv, MovedOnce

(* One attempt gets a new row.  One that succeeded keeps what others rely   *)
(* on; the item of another is set once, under an envelope, and the envelope *)
(* is given up only for an item that is gone.                               *)
LEMMA AttMoves ==
  ASSUME SagaInv, UNCHANGED <<item, conn>>, NEW a \in Attempts, NEW b,
         AttRow(b, item), att' = [att EXCEPT ![a] = b],
         \A w \in Reapers : reap'[w].todo \subseteq reap[w].todo,
         att[a].st = "succeeded" =>
           b.st = att[a].st /\ b.sealed = att[a].sealed /\ b.item = att[a].item,
         b.item = att[a].item \/ (att[a].item = None /\ b.sealed),
         att[a].sealed /\ ~ b.sealed => item[att[a].item].life = "gone"
  PROVE  AttsOK' /\ ConnsOK' /\ MovedOnce' /\ NeverStranded'
<1>1. /\ att \in [Attempts -> Attempt] /\ att'[a] = b /\ b \in Attempt
      /\ \A c \in Attempts : c # a => att'[c] = att[c]
      BY DEF SagaInv, AttsOK, AttRow
<1>2. AttsOK' /\ ConnsOK'
      BY <1>1, LifeStays, ConnKept DEF SagaInv, AttsOK
<1>3. MovedOnce'
      BY <1>1 DEF SagaInv, MovedOnce, ConnsOK, ConnRow, Connection
<1>4. NeverStranded'
  <2> SUFFICES ASSUME NEW c \in Attempts, att'[c].item # None, item[att'[c].item].life = "alive",
                      ~ att'[c].sealed
               PROVE  \/ conn[att'[c].item].cred
                      \/ \E e \in Attempts : att'[e].item = att'[c].item /\ att'[e].sealed
      BY DEF NeverStranded, Held
  <2>1. att'[c].item = att[c].item
        BY <1>1
  <2>2. PICK e \in Attempts : conn[att[c].item].cred \/ (att[e].item = att[c].item /\ att[e].sealed)
        BY <2>1 DEF SagaInv, NeverStranded, Held
  <2>3. CASE att[e].item = att[c].item /\ att[e].sealed
        BY <1>1, <2>1, <2>3
  <2> QED
      BY <2>1, <2>2, <2>3
<1> QED
    BY <1>2, <1>3, <1>4

LEMMA AttSet ==
  ASSUME SagaInv, UNCHANGED <<item, conn, reap>>, NEW a \in Attempts, NEW b,
         AttRow(b, item), att' = [att EXCEPT ![a] = b],
         att[a].st \in {"succeeded", "reaping"} =>
           /\ b.st = att[a].st /\ b.claim = att[a].claim
           /\ b.sealed = att[a].sealed /\ b.item = att[a].item,
         b.item = att[a].item \/ (att[a].item = None /\ b.sealed),
         att[a].sealed /\ ~ b.sealed => item[att[a].item].life = "gone"
  PROVE  AttsOK' /\ ConnsOK' /\ ReapsOK' /\ MovedOnce' /\ NeverStranded'
<1>1. AttsOK' /\ ConnsOK' /\ MovedOnce' /\ NeverStranded'
      BY AttMoves
<1>2. /\ att'[a] = b
      /\ \A c \in Attempts : c # a => att'[c] = att[c]
      BY DEF SagaInv, AttsOK
<1>3. ReapsOK'
      BY <1>2, LifeStays, ReapKept
<1> QED
    BY <1>1, <1>3

(* A call moves the counters within their bounds, and a removal only ends   *)
(* the life of an item.                                                     *)
LEMMA CallCounts ==
  ASSUME LinkAssumption, SagaInv, NEW out, Call(out)
  PROVE  quota' \in 0 .. DailyLimit /\ faults' \in 0 .. MaxFaults
BY DEF Call, Fault, LinkAssumption, SagaInv, Counted

LEMMA Removal ==
  ASSUME LinkAssumption, SagaInv, NEW i \in Items, NEW out \in Outcome, ItemRemove(i, out)
  PROVE  /\ Counted' /\ LifeGoesOn
         /\ (out = "done" /\ item[i].life # "unborn") => item'[i].life = "gone"
<1> DEFINE r == [item[i] EXCEPT !.life = "gone", !.doubt = @ \/ out = "lost"]
<1>0. item[i] \in Item /\ item \in [Items -> Item]
      BY DEF SagaInv, Counted
<1>1. r \in Item /\ r.life = "gone"
      BY <1>0 DEF Item
<1>2. \/ item' = item /\ ~(out = "done" /\ item[i].life = "alive")
      \/ item' = [item EXCEPT ![i] = r] /\ item[i].life = "alive"
      BY <1>0 DEF ItemRemove, Item
<1>3. \A j \in Items : item[j].life \in {"unborn", "alive", "gone"}
      BY <1>0 DEF Item
<1> HIDE DEF r
<1>4. LifeGoesOn
      BY <1>0, <1>1, <1>2, <1>3 DEF LifeGoesOn
<1>5. quota' \in 0 .. DailyLimit /\ faults' \in 0 .. MaxFaults
      BY CallCounts DEF ItemRemove
<1>6. (out = "done" /\ item[i].life # "unborn") => item'[i].life = "gone"
      BY <1>0, <1>1, <1>2, <1>3
<1> QED
    BY <1>4, <1>5, <1>6 DEF Counted, LifeGoesOn

-----------------------------------------------------------------------------
(* Link requests *)

LEMMA BeginLinkKeeps ==
  ASSUME LinkAssumption, SagaInv, NEW r \in Links, NEW a \in Attempts, BeginLink(r, a)
  PROVE  SagaInv'
<1> DEFINE b == [att[a] EXCEPT !.st = "initiated"]
           n == [pc |-> "begun", att |-> a, item |-> None, removed |-> FALSE]
<1>1. att[a] \in Attempt /\ AttRow(att[a], item) /\ None \notin Items
      /\ att \in [Attempts -> Attempt] /\ att[a].st \in {"none", "initiated"}
      BY DEF SagaInv, AttsOK, BeginLink, LinkAssumption
<1>2. att' = [att EXCEPT ![a] = b] /\ link' = [link EXCEPT ![r] = n]
      /\ UNCHANGED <<conn, item, unlink, reap, quota, faults>>
      BY <1>1 DEF BeginLink
<1>3. AttRow(b, item) /\ b.item = att[a].item /\ b.sealed = att[a].sealed
      BY <1>1 DEF AttRow, Attempt
<1>4. LinkRow(n, item)
      BY <1>1 DEF LinkRow, LinkRun
<1> HIDE DEF b, n
<1>5. AttsOK' /\ ConnsOK' /\ ReapsOK' /\ MovedOnce' /\ NeverStranded'
      BY <1>1, <1>2, <1>3, AttSet
<1> QED
    BY <1>2, <1>4, <1>5, LifeStays, LinkSet, UnlinkKept DEF SagaInv, Counted

LEMMA ExchangeKeeps ==
  ASSUME LinkAssumption, SagaInv, NEW r \in Links, Exchange(r)
  PROVE  SagaInv'
<1>1. /\ UNCHANGED <<att, conn, unlink, reap>>
      /\ \/ EndLink(r) /\ UNCHANGED item
         \/ \E i \in Items : /\ Exchangeable(i) /\ item' = Exchanged(i)
                             /\ \/ link' = [link EXCEPT ![r].pc = "token", ![r].item = i]
                                \/ EndLink(r)
      BY DEF Exchange, Outcome
<1>2. quota' \in 0 .. DailyLimit /\ faults' \in 0 .. MaxFaults
      BY CallCounts DEF Exchange
<1>3. LinkRow(NoLink, item') /\ None \notin Items
      BY DEF LinkRow, LinkRun, NoLink, LinkAssumption
<1>4. LifeGoesOn /\ LinksOK'
  <2>1. CASE EndLink(r) /\ UNCHANGED item
        BY <1>3, <2>1, LifeStays, LinkSet DEF EndLink
  <2>2. ASSUME NEW i \in Items, Exchangeable(i), item' = Exchanged(i),
               \/ link' = [link EXCEPT ![r].pc = "token", ![r].item = i]
               \/ EndLink(r)
        PROVE  LifeGoesOn /\ LinksOK'
    <3> DEFINE e == [item[i] EXCEPT !.life = "alive", !.shared = item[i].life = "alive"]
               n == [link[r] EXCEPT !.pc = "token", !.item = i]
    <3>1. item \in [Items -> Item] /\ link \in [Links -> LinkRun] /\ LinkRow(link[r], item)
          BY DEF SagaInv, Counted, LinksOK
    <3>2. item' = [item EXCEPT ![i] = e] /\ e \in Item /\ e.life = "alive"
          BY <2>2, <3>1 DEF Exchanged, Item
    <3>3. item[i].life \in {"unborn", "alive"}
          BY <2>2 DEF Exchangeable
    <3>4. link[r].pc = "begun"
          BY DEF Exchange, AtLink
    <3> HIDE DEF e
    <3>5. LifeGoesOn
          BY <3>1, <3>2, <3>3 DEF LifeGoesOn, Item
    <3>6. item'[i].life = "alive"
          BY <3>1, <3>2
    <3>7. /\ n \in LinkRun /\ n.pc = "token" /\ n.item = i /\ n.att = link[r].att
          /\ n.removed = link[r].removed
          BY <3>1 DEF LinkRun
    <3>8. link[r].removed = FALSE
          BY <3>1, <3>4 DEF LinkRow, LinkRun
    <3>9. LinkRow(n, item')
          BY <3>1, <3>4, <3>6, <3>7, <3>8 DEF LinkRow
    <3>10. link' = [link EXCEPT ![r] = n] \/ link' = [link EXCEPT ![r] = NoLink]
           BY <2>2, <3>1 DEF EndLink
    <3> HIDE DEF n
    <3> QED
        BY <1>3, <3>5, <3>9, <3>10, LinkSet
  <2> QED
      BY <1>1, <2>1, <2>2
<1> QED
    BY <1>1, <1>2, <1>4, LifeKept, UnlinkKept DEF SagaInv, Counted, LifeGoesOn

(* A request that goes on to another place with the item it has.            *)
LEMMA Goes ==
  ASSUME LinkAssumption, SagaInv, LifeGoesOn, NEW r \in Links, NEW to, NEW gone \in BOOLEAN,
         link[r].pc \in {"token", "undo", "recorded", "empty", "finalize"},
         \/ /\ link' = [link EXCEPT ![r].pc = to] /\ ~ gone
            /\ to \in {"undo", "recorded", "empty", "finalize"}
         \/ FailWith(r, gone) /\ to = "fail",
         gone => item'[link[r].item].life = "gone"
  PROVE  LinksOK'
<1> DEFINE n == [link[r] EXCEPT !.pc = to]
           f == [link[r] EXCEPT !.pc = "fail", !.removed = gone]
<1>1. link \in [Links -> LinkRun] /\ LinkRow(link[r], item) /\ link[r] \in LinkRun
      BY DEF SagaInv, LinksOK
<1>2. (link' = [link EXCEPT ![r] = n] /\ ~ gone) \/ link' = [link EXCEPT ![r] = f]
      BY <1>1 DEF FailWith
<1>3. link[r].item \in Items /\ link[r].att \in Attempts /\ item'[link[r].item].life # "unborn"
      /\ link[r].removed = FALSE
      BY <1>1 DEF LinkRow, LifeGoesOn, LinkRun
<1>4. CASE to # "fail"
  <2>1. /\ n \in LinkRun /\ n.pc = to /\ n.item = link[r].item /\ n.att = link[r].att
        /\ n.removed = FALSE
        BY <1>1, <1>3, <1>4 DEF LinkRun
  <2>2. LinkRow(n, item')
        BY <1>3, <2>1, <1>4 DEF LinkRow
  <2>3. link' = [link EXCEPT ![r] = n]
        BY <1>4, <1>1
  <2> HIDE DEF n
  <2> QED
      BY <2>2, <2>3, LinkSet
<1>5. CASE to = "fail"
  <2>1. /\ f \in LinkRun /\ f.pc = "fail" /\ f.item = link[r].item /\ f.att = link[r].att
        /\ f.removed = gone
        BY <1>1, <1>3, <1>5 DEF LinkRun
  <2>2. LinkRow(f, item')
        BY <1>3, <2>1 DEF LinkRow
  <2>3. link' = [link EXCEPT ![r] = f]
        BY <1>5, <1>1 DEF FailWith
  <2> HIDE DEF f
  <2> QED
      BY <2>2, <2>3, LinkSet
<1> QED
    BY <1>4, <1>5

LEMMA Ends == ASSUME LinkAssumption, SagaInv, LifeGoesOn, NEW r \in Links, EndLink(r) PROVE LinksOK'
<1>1. LinkRow(NoLink, item')
      BY DEF LinkRow, LinkRun, NoLink, LinkAssumption
<1> QED
    BY <1>1, LinkSet DEF EndLink

LEMMA RecordLinkExchangeKeeps ==
  ASSUME LinkAssumption, SagaInv, NEW r \in Links, RecordLinkExchange(r)
  PROVE  SagaInv'
<1> DEFINE a == link[r].att
           i == link[r].item
           b == [att[a] EXCEPT !.st = "exchanged", !.item = i, !.sealed = TRUE]
<1>1. /\ a \in Attempts /\ i \in Items /\ item[i].life # "unborn" /\ link[r].pc = "token"
      /\ att \in [Attempts -> Attempt] /\ AttRow(att[a], item) /\ att[a] \in Attempt
      BY DEF SagaInv, LinksOK, LinkRow, AttsOK, RecordLinkExchange, AtLink
<1>2. /\ UNCHANGED <<conn, item, unlink, reap, quota, faults>>
      /\ GotoLink(r, "recorded") \/ GotoLink(r, "undo")
      /\ att' = att \/ (att' = [att EXCEPT ![a] = b] /\ att[a].st = "initiated")
      BY <1>1 DEF RecordLinkExchange
<1>3. b \in Attempt /\ b.st = "exchanged" /\ b.item = i /\ b.sealed = TRUE
      BY <1>1 DEF Attempt
<1>4. AttRow(b, item) /\ None \notin Items
      BY <1>1, <1>3 DEF AttRow, LinkAssumption
<1>5. LinksOK'
      BY <1>1, <1>2, Goes, LifeStays DEF GotoLink
<1>6. att[a].st = "initiated" => att[a].item = None /\ ~ att[a].sealed
      BY <1>1, <1>4 DEF AttRow
<1> HIDE DEF a, b, i
<1>7. AttsOK' /\ ConnsOK' /\ ReapsOK' /\ MovedOnce' /\ NeverStranded'
  <2>1. CASE att' = att
        BY <2>1, <1>2, LifeStays, LifeKept
  <2>2. CASE att' = [att EXCEPT ![a] = b] /\ att[a].st = "initiated"
        BY <2>2, <1>1, <1>2, <1>3, <1>4, <1>6, AttSet
  <2> QED
      BY <1>2, <2>1, <2>2
<1> QED
    BY <1>2, <1>5, <1>7, LifeStays, UnlinkKept DEF SagaInv, Counted

LEMMA UndoKeeps ==
  ASSUME LinkAssumption, SagaInv, NEW r \in Links, Undo(r)
  PROVE  SagaInv'
<1>1. PICK out \in Outcome : ItemRemove(link[r].item, out)
      BY DEF Undo
<1>2. UNCHANGED <<att, conn, unlink, reap>> /\ EndLink(r) /\ link[r].item \in Items
      BY DEF Undo, AtLink, SagaInv, LinksOK, LinkRow
<1>3. Counted' /\ LifeGoesOn
      BY <1>1, <1>2, Removal
<1> QED
    BY <1>2, <1>3, Ends, LifeKept, UnlinkKept DEF SagaInv

LEMMA AccountsGetKeeps ==
  ASSUME LinkAssumption, SagaInv, NEW r \in Links, AccountsGet(r)
  PROVE  SagaInv'
<1>1. /\ UNCHANGED <<att, conn, item, unlink, reap>> /\ link[r].pc = "recorded"
      /\ GotoLink(r, "finalize") \/ GotoLink(r, "empty") \/ FailWith(r, FALSE)
      BY DEF AccountsGet, AtLink
<1>2. quota' \in 0 .. DailyLimit /\ faults' \in 0 .. MaxFaults
      BY CallCounts DEF AccountsGet
<1>3. LinksOK'
      BY <1>1, Goes, LifeStays DEF GotoLink
<1> QED
    BY <1>1, <1>2, <1>3, LifeStays, LifeKept, UnlinkKept DEF SagaInv, Counted

LEMMA RemoveEmptyKeeps ==
  ASSUME LinkAssumption, SagaInv, NEW r \in Links, RemoveEmpty(r)
  PROVE  SagaInv'
<1>1. PICK out \in Outcome : ItemRemove(link[r].item, out) /\ FailWith(r, out = "done")
      BY DEF RemoveEmpty
<1>2. UNCHANGED <<att, conn, unlink, reap>> /\ link[r].item \in Items /\ link[r].pc = "empty"
      /\ item[link[r].item].life # "unborn"
      BY DEF RemoveEmpty, AtLink, SagaInv, LinksOK, LinkRow
<1>3. Counted' /\ LifeGoesOn /\ (out = "done" => item'[link[r].item].life = "gone")
      BY <1>1, <1>2, Removal
<1>4. LinksOK'
      BY <1>1, <1>2, <1>3, Goes
<1> QED
    BY <1>2, <1>3, <1>4, LifeKept, UnlinkKept DEF SagaInv

LEMMA FailLinkAttemptKeeps ==
  ASSUME LinkAssumption, SagaInv, NEW r \in Links, FailLinkAttempt(r)
  PROVE  SagaInv'
<1> DEFINE a == link[r].att
           b == [att[a] EXCEPT !.st = "failed", !.sealed = @ /\ ~ link[r].removed]
           Fails == \/ att[a].st = "exchanged" /\ att[a].item = link[r].item
                    \/ att[a].st = "initiated"
<1>1. /\ a \in Attempts /\ LinkRow(link[r], item) /\ link[r] \in LinkRun
      /\ att \in [Attempts -> Attempt] /\ AttRow(att[a], item) /\ att[a] \in Attempt
      BY DEF SagaInv, LinksOK, LinkRow, AttsOK, FailLinkAttempt, AtLink
<1>2. /\ UNCHANGED <<conn, item, unlink, reap, quota, faults>> /\ EndLink(r)
      /\ att' = att \/ (att' = [att EXCEPT ![a] = b] /\ Fails)
      BY <1>1 DEF FailLinkAttempt
<1>3. /\ b \in Attempt /\ b.st = "failed" /\ b.item = att[a].item /\ None \notin Items
      /\ b.sealed <=> (att[a].sealed /\ ~ link[r].removed)
      BY <1>1 DEF Attempt, LinkRun, LinkAssumption
<1>4. AttRow(b, item)
      BY <1>1, <1>3 DEF AttRow
<1>5. Fails => att[a].st \notin {"succeeded", "reaping"}
               /\ (att[a].sealed /\ ~ b.sealed => item[att[a].item].life = "gone")
      BY <1>1, <1>3 DEF AttRow, LinkRow
<1> HIDE DEF a, b, Fails
<1>6. AttsOK' /\ ConnsOK' /\ ReapsOK' /\ MovedOnce' /\ NeverStranded'
  <2>1. CASE att' = att
        BY <2>1, <1>2, LifeStays, LifeKept
  <2>2. CASE att' = [att EXCEPT ![a] = b] /\ Fails
        BY <2>2, <1>1, <1>2, <1>3, <1>4, <1>5, AttSet
  <2> QED
      BY <1>2, <2>1, <2>2
<1> QED
    BY <1>2, <1>6, LifeStays, Ends, UnlinkKept DEF SagaInv, Counted

(* The move of the credential: the attempt gives its envelope up, the       *)
(* connection has it.                                                       *)
LEMMA MoveKeeps ==
  ASSUME LinkAssumption, SagaInv, NEW a \in Attempts, NEW i \in Items,
         UNCHANGED <<item, reap>>,
         att[a].st = "exchanged", att[a].item = i,
         NEW b, AttRow(b, item), b.st = "succeeded", ~ b.sealed, b.item = i,
         NEW c, ConnRow(c, i, item), c.cred, c.by = a,
         att' = [att EXCEPT ![a] = b], conn' = [conn EXCEPT ![i] = c]
  PROVE  AttsOK' /\ ConnsOK' /\ ReapsOK' /\ MovedOnce' /\ NeverStranded'
<1>1. /\ att'[a] = b /\ \A e \in Attempts : e # a => att'[e] = att[e]
      /\ conn'[i] = c /\ \A j \in Items : j # i => conn'[j] = conn[j]
      /\ att' \in [Attempts -> Attempt] /\ conn' \in [Items -> Connection]
      BY DEF SagaInv, AttsOK, ConnsOK, AttRow, ConnRow
<1>2. AttsOK' /\ ConnsOK'
      BY <1>1 DEF SagaInv, AttsOK, ConnsOK
<1>3. ReapsOK'
      BY <1>1, LifeStays, ReapKept
<1>4. \A w \in Reapers : a \notin reap[w].todo
      BY DEF SagaInv, ReapsOK, ReapRow
<1>5. MovedOnce'
  <2> SUFFICES ASSUME NEW j \in Items, conn'[j].by # None
               PROVE  /\ att'[conn'[j].by].st = "succeeded" /\ ~ att'[conn'[j].by].sealed
                      /\ att'[conn'[j].by].item = j
                      /\ \A w \in Reapers : conn'[j].by \notin reap[w].todo
      BY DEF MovedOnce
  <2>1. CASE j = i
        BY <1>1, <1>4, <2>1
  <2>2. CASE j # i
    <3>1. conn'[j] = conn[j] /\ conn[j].by \in Attempts
          BY <1>1, <2>2 DEF SagaInv, ConnsOK, Connection
    <3>2. /\ att[conn[j].by].item = j /\ att[conn[j].by].st = "succeeded"
          /\ ~ att[conn[j].by].sealed /\ \A w \in Reapers : conn[j].by \notin reap[w].todo
          BY <3>1 DEF SagaInv, MovedOnce
    <3>3. conn[j].by # a
          BY <3>2, <2>2
    <3> QED
        BY <1>1, <3>1, <3>2, <3>3
  <2> QED
      BY <2>1, <2>2
<1>6. NeverStranded'
  <2> SUFFICES ASSUME NEW e \in Attempts, att'[e].item # None, item[att'[e].item].life = "alive"
               PROVE  \/ conn'[att'[e].item].cred
                      \/ \E f \in Attempts : att'[f].item = att'[e].item /\ att'[f].sealed
      BY DEF NeverStranded, Held
  <2>1. CASE att'[e].item = i
        BY <1>1, <2>1
  <2>2. CASE att'[e].item # i
    <3>1. att'[e] = att[e] /\ att[e].item \in Items /\ conn'[att[e].item] = conn[att[e].item]
          BY <1>1, <2>2 DEF SagaInv, AttsOK, Attempt
    <3>2. PICK f \in Attempts : conn[att[e].item].cred \/ (att[f].item = att[e].item /\ att[f].sealed)
          BY <3>1 DEF SagaInv, NeverStranded, Held
    <3> QED
        BY <1>1, <2>2, <3>1, <3>2
  <2> QED
      BY <2>1, <2>2
<1> QED
    BY <1>2, <1>3, <1>5, <1>6

LEMMA FinalizeLinkKeeps ==
  ASSUME LinkAssumption, SagaInv, NEW r \in Links, FinalizeLink(r)
  PROVE  SagaInv'
<1> DEFINE a == link[r].att
           b == [att[a] EXCEPT !.st = "failed"]
<1>1. /\ a \in Attempts /\ link[r].pc = "finalize"
      /\ att \in [Attempts -> Attempt] /\ AttRow(att[a], item) /\ att[a] \in Attempt
      BY DEF SagaInv, LinksOK, LinkRow, AttsOK, FinalizeLink, AtLink
<1>2. UNCHANGED <<item, unlink, reap, quota, faults>> /\ (EndLink(r) \/ FailWith(r, FALSE))
      BY DEF FinalizeLink
<1>3. LinksOK'
      BY <1>1, <1>2, Goes, Ends, LifeStays
<1>4. \/ UNCHANGED <<att, conn>>
      \/ /\ att[a].st = "exchanged" /\ att[a].sealed
         /\ \/ att' = [att EXCEPT ![a].st = "failed"] /\ UNCHANGED conn
            \/ /\ conn[att[a].item].st = "none"
               /\ conn' = [conn EXCEPT ![att[a].item].st = "active", ![att[a].item].cred = TRUE,
                                       ![att[a].item].by = a]
               /\ att' = [att EXCEPT ![a].st = "succeeded", ![a].sealed = FALSE]
      BY DEF FinalizeLink
<1>5. /\ b \in Attempt /\ b.st = "failed" /\ b.item = att[a].item /\ b.sealed = att[a].sealed
      BY <1>1 DEF Attempt
<1>6. AttRow(b, item)
      BY <1>1, <1>5 DEF AttRow
<1>7. AttsOK' /\ ConnsOK' /\ ReapsOK' /\ MovedOnce' /\ NeverStranded'
  <2>1. CASE UNCHANGED <<att, conn>>
        BY <1>2, <2>1, LifeStays, LifeKept
  <2>2. CASE att' = [att EXCEPT ![a].st = "failed"] /\ UNCHANGED conn /\ att[a].st = "exchanged"
    <3>1. att' = [att EXCEPT ![a] = b]
          BY <1>1, <2>2
    <3> HIDE DEF a, b
    <3> QED
        BY <1>1, <1>2, <1>5, <1>6, <2>2, <3>1, AttSet
  <2>3. ASSUME att[a].st = "exchanged", att[a].sealed, conn[att[a].item].st = "none",
               conn' = [conn EXCEPT ![att[a].item].st = "active", ![att[a].item].cred = TRUE,
                                    ![att[a].item].by = a],
               att' = [att EXCEPT ![a].st = "succeeded", ![a].sealed = FALSE]
        PROVE  AttsOK' /\ ConnsOK' /\ ReapsOK' /\ MovedOnce' /\ NeverStranded'
    <3> DEFINE i == att[a].item
               s == [att[a] EXCEPT !.st = "succeeded", !.sealed = FALSE]
               c == [conn[i] EXCEPT !.st = "active", !.cred = TRUE, !.by = a]
    <3>1. i \in Items
          BY <1>1, <2>3 DEF AttRow
    <3>2. conn \in [Items -> Connection] /\ ConnRow(conn[i], i, item) /\ conn[i] \in Connection
          BY <3>1 DEF SagaInv, ConnsOK
    <3>3. att' = [att EXCEPT ![a] = s] /\ conn' = [conn EXCEPT ![i] = c]
          BY <1>1, <2>3, <3>1, <3>2
    <3>4. /\ s \in Attempt /\ s.st = "succeeded" /\ s.sealed = FALSE /\ s.item = i
          /\ c \in Connection /\ c.st = "active" /\ c.cred = TRUE /\ c.by = a
          BY <1>1, <3>2 DEF Attempt, Connection
    <3>5. item[i].life # "unborn"
          BY <1>1, <3>1 DEF AttRow
    <3>6. AttRow(s, item) /\ ConnRow(c, i, item)
          BY <1>1, <3>1, <3>4, <3>5 DEF AttRow, ConnRow
    <3> HIDE DEF s, c
    <3> QED
        BY <1>1, <1>2, <2>3, <3>1, <3>3, <3>4, <3>6, MoveKeeps
  <2> QED
      BY <1>4, <2>1, <2>2, <2>3
<1> QED
    BY <1>2, <1>3, <1>7, LifeStays, UnlinkKept DEF SagaInv, Counted

LEMMA LinkFaultKeeps ==
  ASSUME LinkAssumption, SagaInv, NEW r \in Links, EncryptFails(r) \/ LinkCrash(r)
  PROVE  SagaInv'
<1>1. /\ UNCHANGED <<att, conn, item, unlink, reap, quota>>
      /\ (GotoLink(r, "undo") /\ link[r].pc = "token") \/ EndLink(r)
      /\ faults' \in 0 .. MaxFaults
      BY DEF EncryptFails, LinkCrash, AtLink, Fault, LinkAssumption, SagaInv, Counted
<1>2. LinksOK'
      BY <1>1, Goes, Ends, LifeStays DEF GotoLink
<1> QED
    BY <1>1, <1>2, LifeStays, LifeKept, UnlinkKept DEF SagaInv, Counted

-----------------------------------------------------------------------------
(* The reaper *)

LEMMA ExpireKeeps ==
  ASSUME LinkAssumption, SagaInv, NEW a \in Attempts, Expire(a)
  PROVE  SagaInv'
<1> DEFINE b == [att[a] EXCEPT !.expired = TRUE]
<1>1. att \in [Attempts -> Attempt] /\ AttRow(att[a], item) /\ att[a] \in Attempt
      BY DEF SagaInv, AttsOK
<1>2. att' = [att EXCEPT ![a] = b] /\ UNCHANGED <<conn, item, link, unlink, reap, quota, faults>>
      BY <1>1 DEF Expire
<1>3. /\ b \in Attempt /\ b.st = att[a].st /\ b.item = att[a].item /\ b.sealed = att[a].sealed
      /\ b.claim = att[a].claim /\ b.reaps = att[a].reaps
      BY <1>1 DEF Attempt
<1>4. AttRow(b, item)
      BY <1>1, <1>3 DEF AttRow
<1> HIDE DEF b
<1>5. AttsOK' /\ ConnsOK' /\ ReapsOK' /\ MovedOnce' /\ NeverStranded'
      BY <1>2, <1>3, <1>4, AttSet
<1> QED
    BY <1>2, <1>5, LifeStays, LinkKept, UnlinkKept DEF SagaInv, Counted

(* A run claims what no run works on: an attempt being reaped is claimed    *)
(* again only when its claim has lapsed.                                    *)
LEMMA ReapClaimKeeps ==
  ASSUME LinkAssumption, SagaInv, NEW w \in Reapers, ReapClaim(w)
  PROVE  SagaInv'
<1> DEFINE claimed == {a \in Attempts : Reapable(a)}
           b(a) == [att[a] EXCEPT !.st = "reaping", !.claim = w]
           n == [NoReap EXCEPT !.todo = claimed]
<1>1. /\ att \in [Attempts -> Attempt] /\ reap \in [Reapers -> ReapRun] /\ reap[w] = NoReap
      /\ UNCHANGED <<conn, item, link, unlink, quota, faults>>
      BY DEF SagaInv, AttsOK, ReapsOK, ReapClaim
<1>2. att' = [a \in Attempts |-> IF a \in claimed THEN b(a) ELSE att[a]]
      BY DEF ReapClaim
<1>3. reap' = [reap EXCEPT ![w] = n]
      BY <1>1 DEF ReapClaim
<1>4. ASSUME NEW a \in claimed
      PROVE  /\ AttRow(b(a), item) /\ b(a).st = "reaping" /\ b(a).claim = w
             /\ b(a).sealed /\ att[a].sealed /\ b(a).item = att[a].item
             /\ \A v \in Reapers : a \notin reap[v].todo
  <2>1. att[a] \in Attempt /\ AttRow(att[a], item) /\ Reapable(a)
        BY <1>1 DEF SagaInv, AttsOK
  <2>2. /\ b(a) \in Attempt /\ b(a).st = "reaping" /\ b(a).claim = w
        /\ b(a).sealed = att[a].sealed /\ b(a).item = att[a].item /\ b(a).reaps = att[a].reaps
        BY <2>1 DEF Attempt
  <2>3. att[a].sealed /\ att[a].reaps < MaxReaps
        BY <2>1 DEF Reapable
  <2>4. AttRow(b(a), item)
        BY <2>1, <2>2, <2>3 DEF AttRow
  <2>5. ASSUME NEW v \in Reapers, a \in reap[v].todo PROVE FALSE
    <3>1. att[a].st = "reaping" /\ att[a].claim = v
          BY <2>5 DEF SagaInv, ReapsOK, ReapRow
    <3> QED
        BY <2>1, <2>5, <3>1 DEF Reapable, Lapsed
  <2> QED
      BY <2>2, <2>3, <2>4, <2>5
<1>5. claimed \subseteq Attempts
      OBVIOUS
<1> HIDE DEF claimed, b
<1>6. AttsOK'
  <2>1. ASSUME NEW a \in Attempts PROVE AttRow(att'[a], item) /\ att'[a] \in Attempt
        BY <1>2, <1>4 DEF SagaInv, AttsOK, AttRow
  <2>2. att' \in [Attempts -> Attempt]
        BY <1>2, <2>1
  <2> QED
      BY <1>1, <2>1, <2>2 DEF AttsOK
<1>7. ReapsOK'
  <2>1. n \in ReapRun /\ n.todo = claimed /\ n.cur = None
        BY <1>5 DEF ReapRun, NoReap
  <2> HIDE DEF n
  <2>2. reap' \in [Reapers -> ReapRun]
        BY <1>1, <1>3, <2>1
  <2>3. ReapRow(n, w, att', item')
        BY <1>2, <1>4, <1>5, <2>1 DEF ReapRow
  <2>4. ASSUME NEW v \in Reapers, v # w PROVE ReapRow(reap'[v], v, att', item')
    <3>1. reap'[v] = reap[v] /\ ReapRow(reap[v], v, att, item) /\ reap[v].todo \subseteq Attempts
          BY <1>1, <1>3, <2>4 DEF SagaInv, ReapsOK, ReapRun
    <3>2. \A a \in reap[v].todo : att'[a] = att[a]
          BY <1>2, <1>4, <3>1
    <3> QED
        BY <1>1, <3>1, <3>2 DEF ReapRow
  <2>5. reap'[w] = n
        BY <1>1, <1>3
  <2> QED
      BY <2>2, <2>3, <2>4, <2>5 DEF ReapsOK
<1>8. MovedOnce'
  <2> SUFFICES ASSUME NEW i \in Items, conn[i].by # None
               PROVE  /\ att'[conn[i].by].st = "succeeded" /\ ~ att'[conn[i].by].sealed
                      /\ att'[conn[i].by].item = i
                      /\ \A v \in Reapers : conn[i].by \notin reap'[v].todo
      BY <1>1 DEF MovedOnce
  <2>1. /\ conn[i].by \in Attempts /\ att[conn[i].by].st = "succeeded" /\ ~ att[conn[i].by].sealed
        /\ att[conn[i].by].item = i /\ \A v \in Reapers : conn[i].by \notin reap[v].todo
        BY DEF SagaInv, MovedOnce, ConnsOK, Connection
  <2>2. conn[i].by \notin claimed
        BY <1>4, <2>1
  <2>3. \A v \in Reapers : reap'[v].todo = IF v = w THEN claimed ELSE reap[v].todo
        BY <1>1, <1>3
  <2> QED
      BY <1>2, <2>1, <2>2, <2>3
<1>9. NeverStranded'
  <2>1. \A a \in Attempts : att'[a].item = att[a].item /\ (att[a].sealed => att'[a].sealed)
        BY <1>2, <1>4
  <2> QED
      BY <1>1, <2>1 DEF SagaInv, NeverStranded, Held
<1> QED
    BY <1>1, <1>6, <1>7, <1>8, <1>9, LifeStays, LinkKept, UnlinkKept, ConnKept DEF SagaInv, Counted

LEMMA ReapRemoveKeeps ==
  ASSUME LinkAssumption, SagaInv, NEW w \in Reapers, NEW a \in Attempts, ReapRemove(w, a)
  PROVE  SagaInv'
<1>1. PICK out \in Outcome : /\ ItemRemove(att[a].item, out)
                            /\ reap' = [reap EXCEPT ![w].cur = a, ![w].out = out]
      BY DEF ReapRemove
<1> DEFINE n == [reap[w] EXCEPT !.cur = a, !.out = out]
<1>2. /\ UNCHANGED <<att, conn, link, unlink>> /\ a \in reap[w].todo
      /\ reap \in [Reapers -> ReapRun] /\ ReapRow(reap[w], w, att, item) /\ reap[w] \in ReapRun
      BY DEF ReapRemove, SagaInv, ReapsOK
<1>3. att[a].item \in Items /\ item[att[a].item].life # "unborn"
      BY <1>2 DEF ReapRow, SagaInv, AttsOK, AttRow
<1>4. Counted' /\ LifeGoesOn /\ (out = "done" => item'[att[a].item].life = "gone")
      BY <1>1, <1>3, Removal
<1>5. reap' = [reap EXCEPT ![w] = n]
      BY <1>1, <1>2
<1>6. n \in ReapRun /\ n.todo = reap[w].todo /\ n.cur = a /\ n.out = out
      BY <1>2 DEF ReapRun, Outcome
<1>7. ReapRow(n, w, att', item')
      BY <1>2, <1>4, <1>6 DEF ReapRow
<1> HIDE DEF n
<1>8. \A v \in Reapers : /\ reap'[v] = IF v = w THEN n ELSE reap[v]
                         /\ reap'[v].todo = reap[v].todo
      BY <1>2, <1>5, <1>6
<1>9. ReapsOK'
  <2>1. ASSUME NEW v \in Reapers, v # w PROVE ReapRow(reap'[v], v, att', item')
    <3>1. reap'[v] = reap[v] /\ ReapRow(reap[v], v, att, item) /\ reap[v].todo \subseteq Attempts
          BY <1>8, <2>1 DEF SagaInv, ReapsOK, ReapRun
    <3>2. \A e \in reap[v].todo : att[e].item \in Items
          BY <3>1 DEF SagaInv, AttsOK, AttRow, ReapRow
    <3> QED
        BY <1>2, <1>4, <3>1, <3>2 DEF ReapRow, LifeGoesOn
  <2>2. reap' \in [Reapers -> ReapRun]
        BY <1>2, <1>5, <1>6
  <2> QED
      BY <1>7, <1>8, <2>1, <2>2 DEF ReapsOK
<1>10. MovedOnce'
       BY <1>2, <1>8 DEF SagaInv, MovedOnce
<1> QED
    BY <1>2, <1>4, <1>9, <1>10, LifeKept, LinkKept, UnlinkKept DEF SagaInv

LEMMA MarkLinkAttemptReapedKeeps ==
  ASSUME LinkAssumption, SagaInv, NEW w \in Reapers, MarkLinkAttemptReaped(w)
  PROVE  SagaInv'
<1> DEFINE a == reap[w].cur
           out == reap[w].out
           b == Reaped(att[a], out)
           n == [NoReap EXCEPT !.todo = reap[w].todo \ {a}]
<1>1. /\ a \in reap[w].todo /\ a \in Attempts /\ out \in Outcome
      /\ reap \in [Reapers -> ReapRun] /\ ReapRow(reap[w], w, att, item) /\ reap[w] \in ReapRun
      BY DEF MarkLinkAttemptReaped, SagaInv, ReapsOK, ReapRow, ReapRun
<1>2. /\ att[a].st = "reaping" /\ att[a].claim = w /\ att[a].sealed
      /\ att \in [Attempts -> Attempt] /\ AttRow(att[a], item) /\ att[a] \in Attempt
      /\ out = "done" => item[att[a].item].life = "gone"
      BY <1>1 DEF ReapRow, SagaInv, AttsOK, MarkLinkAttemptReaped
<1>3. /\ att' = [att EXCEPT ![a] = b] /\ reap' = [reap EXCEPT ![w] = n]
      /\ UNCHANGED <<conn, item, link, unlink, quota, faults>>
      BY <1>2 DEF MarkLinkAttemptReaped
<1>4. /\ b \in Attempt /\ b.st \in {"exchanged", "reaped", "failed"} /\ b.item = att[a].item
      /\ out # "done" => b.sealed
  <2>1. att[a].reaps < MaxReaps
        BY <1>2 DEF AttRow
  <2>2. CASE out \in {"refused", "done"}
        BY <1>1, <1>2, <2>2 DEF Reaped, Attempt
  <2>3. CASE out \notin {"refused", "done"}
    <3>1. att[a].reaps + 1 \in 0 .. MaxReaps
          BY <1>2, <2>1 DEF Attempt, LinkAssumption
    <3> QED
        BY <1>1, <1>2, <2>3, <3>1 DEF Reaped, Attempt
  <2> QED
      BY <2>2, <2>3
<1>5. AttRow(b, item)
      BY <1>2, <1>4 DEF AttRow
<1>6. n \in ReapRun /\ n.todo = reap[w].todo \ {a} /\ n.cur = None
      BY <1>1 DEF ReapRun, NoReap
<1> HIDE DEF b, n
<1>7. att'[a] = b /\ \A e \in Attempts : e # a => att'[e] = att[e]
      BY <1>1, <1>2, <1>3
<1>8. \A v \in Reapers : /\ reap'[v] = IF v = w THEN n ELSE reap[v]
                         /\ reap'[v].todo \subseteq reap[v].todo
      BY <1>1, <1>3, <1>6
<1>9. AttsOK' /\ ConnsOK' /\ MovedOnce' /\ NeverStranded'
  <2> HIDE DEF a, out
  <2> QED
      BY <1>1, <1>2, <1>3, <1>4, <1>5, <1>8, AttMoves
<1>10. ReapsOK'
  <2>1. ASSUME NEW v \in Reapers PROVE ReapRow(reap'[v], v, att', item')
    <3>1. /\ ReapRow(reap[v], v, att, item) /\ reap[v].todo \subseteq Attempts
          BY DEF SagaInv, ReapsOK, ReapRun
    <3>2. CASE v = w
      <4>1. \A e \in n.todo : att'[e] = att[e]
            BY <1>6, <1>7, <3>1, <3>2
      <4> QED
          BY <1>1, <1>6, <1>8, <3>2, <4>1 DEF ReapRow
    <3>3. CASE v # w
      <4>1. a \notin reap[v].todo
            BY <1>2, <3>1, <3>3 DEF ReapRow
      <4>2. \A e \in reap[v].todo : att'[e] = att[e]
            BY <1>7, <3>1, <4>1
      <4> QED
          BY <1>3, <1>8, <3>1, <3>3, <4>2 DEF ReapRow
    <3> QED
        BY <3>2, <3>3
  <2>2. reap' \in [Reapers -> ReapRun]
        BY <1>1, <1>3, <1>6
  <2> QED
      BY <2>1, <2>2 DEF ReapsOK
<1> QED
    BY <1>3, <1>9, <1>10, LifeStays, LinkKept, UnlinkKept DEF SagaInv, Counted

LEMMA ReapCrashKeeps ==
  ASSUME LinkAssumption, SagaInv, NEW w \in Reapers, ReapCrash(w)
  PROVE  SagaInv'
<1> DEFINE i == att[reap[w].cur].item
           e == [item[i] EXCEPT !.doubt = TRUE]
<1>1. /\ UNCHANGED <<att, conn, link, unlink, quota>> /\ reap' = [reap EXCEPT ![w] = NoReap]
      /\ item' = item \/ (reap[w].cur # None /\ item' = [item EXCEPT ![i].doubt = TRUE])
      /\ faults' \in 0 .. MaxFaults
  <2>1. faults' \in 0 .. MaxFaults
        BY DEF ReapCrash, Fault, LinkAssumption, SagaInv, Counted
  <2>2. item' = IF reap[w].cur = None THEN item ELSE [item EXCEPT ![i].doubt = TRUE]
        BY DEF ReapCrash
  <2>3. UNCHANGED <<att, conn, link, unlink, quota>> /\ reap' = [reap EXCEPT ![w] = NoReap]
        BY DEF ReapCrash
  <2> HIDE DEF i
  <2> QED
      BY <2>1, <2>2, <2>3
<1>2. /\ reap \in [Reapers -> ReapRun] /\ ReapRow(reap[w], w, att, item) /\ reap[w] \in ReapRun
      /\ item \in [Items -> Item]
      BY DEF SagaInv, ReapsOK, Counted
<1>3. reap[w].cur # None => i \in Items
      BY <1>2 DEF ReapRow, ReapRun, SagaInv, AttsOK, AttRow
<1>4. LifeGoesOn
  <2>1. CASE item' = item
        BY <2>1, LifeStays
  <2>2. CASE reap[w].cur # None /\ item' = [item EXCEPT ![i].doubt = TRUE]
    <3>1. item' = [item EXCEPT ![i] = e]
          BY <1>2, <1>3, <2>2
    <3>2. e \in Item /\ e.life = item[i].life
          BY <1>2, <1>3, <2>2 DEF Item
    <3>3. \A j \in Items : item[j].life \in {"unborn", "alive", "gone"}
          BY <1>2 DEF Item
    <3> HIDE DEF e, i
    <3> QED
        BY <1>2, <1>3, <2>2, <3>1, <3>2, <3>3 DEF LifeGoesOn
  <2> QED
      BY <1>1, <2>1, <2>2
<1>5. NoReap \in ReapRun /\ NoReap.todo = {} /\ NoReap.cur = None
      BY DEF ReapRun, NoReap
<1>6. \A v \in Reapers : reap'[v] = IF v = w THEN NoReap ELSE reap[v]
      BY <1>1, <1>2
<1>7. ReapsOK'
  <2>1. ASSUME NEW v \in Reapers PROVE ReapRow(reap'[v], v, att', item')
    <3>1. ReapRow(reap[v], v, att, item) /\ reap[v].todo \subseteq Attempts
          BY DEF SagaInv, ReapsOK, ReapRun
    <3>2. \A c \in reap[v].todo : att[c].item \in Items
          BY <3>1 DEF SagaInv, AttsOK, AttRow, ReapRow
    <3> QED
        BY <1>1, <1>4, <1>5, <1>6, <3>1, <3>2 DEF ReapRow, LifeGoesOn
  <2>2. reap' \in [Reapers -> ReapRun]
        BY <1>1, <1>2, <1>5
  <2> QED
      BY <2>1, <2>2 DEF ReapsOK
<1>8. MovedOnce'
      BY <1>1, <1>5, <1>6 DEF SagaInv, MovedOnce
<1> QED
    BY <1>1, <1>4, <1>7, <1>8, LifeKept, LinkKept, UnlinkKept DEF SagaInv, Counted, LifeGoesOn

-----------------------------------------------------------------------------
(* Disconnect requests *)

(* A connection gets a new row; it gives its credential up only when its    *)
(* item is gone.                                                            *)
LEMMA ConnSet ==
  ASSUME SagaInv, UNCHANGED <<item, att, reap>>, NEW i \in Items, NEW c,
         ConnRow(c, i, item), conn' = [conn EXCEPT ![i] = c], c.by = conn[i].by,
         conn[i].cred /\ ~ c.cred => item[i].life = "gone"
  PROVE  AttsOK' /\ ConnsOK' /\ ReapsOK' /\ MovedOnce' /\ NeverStranded'
<1>1. /\ conn \in [Items -> Connection] /\ conn' \in [Items -> Connection]
      /\ conn'[i] = c /\ \A j \in Items : j # i => conn'[j] = conn[j]
      BY DEF SagaInv, ConnsOK, ConnRow
<1>2. ConnsOK'
      BY <1>1 DEF SagaInv, ConnsOK
<1>3. AttsOK' /\ ReapsOK'
      BY LifeStays, ReapKept DEF SagaInv, AttsOK
<1>4. MovedOnce'
      BY <1>1 DEF SagaInv, MovedOnce
<1>5. NeverStranded'
  <2> SUFFICES ASSUME NEW e \in Attempts, att[e].item # None, item[att[e].item].life = "alive"
               PROVE  \/ conn'[att[e].item].cred
                      \/ \E f \in Attempts : att[f].item = att[e].item /\ att[f].sealed
      BY DEF NeverStranded, Held
  <2>1. PICK f \in Attempts : conn[att[e].item].cred \/ (att[f].item = att[e].item /\ att[f].sealed)
        BY DEF SagaInv, NeverStranded, Held
  <2>2. att[e].item \in Items
        BY DEF SagaInv, AttsOK, Attempt
  <2> QED
      BY <1>1, <2>1, <2>2
<1> QED
    BY <1>2, <1>3, <1>4, <1>5

LEMMA EndsUnlink ==
  ASSUME LinkAssumption, SagaInv, LifeGoesOn, NEW d \in Unlinks, EndUnlink(d)
  PROVE  UnlinksOK'
<1>1. UnlinkRow(NoUnlink, item')
      BY DEF UnlinkRow, UnlinkRun, NoUnlink, LinkAssumption
<1> QED
    BY <1>1, UnlinkSet DEF EndUnlink

LEMMA DisconnectBeginKeeps ==
  ASSUME LinkAssumption, SagaInv, NEW d \in Unlinks, NEW i \in Items, DisconnectBegin(d, i)
  PROVE  SagaInv'
<1> DEFINE next == conn[i].removal + 1
           c == [conn[i] EXCEPT !.st = "disconnecting", !.rst = "pending", !.removal = next]
           n(k) == [pc |-> "begun", item |-> i, removal |-> k, removed |-> FALSE]
<1>1. /\ conn \in [Items -> Connection] /\ ConnRow(conn[i], i, item) /\ conn[i] \in Connection
      /\ UNCHANGED <<att, item, link, reap, quota, faults>>
      /\ conn[i].st # "none" /\ conn[i].st # "disconnected"
      BY DEF SagaInv, ConnsOK, DisconnectBegin
<1>2. \/ conn' = conn
      \/ conn' = [conn EXCEPT ![i].st = "disconnecting", ![i].rst = "pending", ![i].removal = @ + 1]
      BY DEF DisconnectBegin
<1>3. \E k \in Nat : unlink' = [unlink EXCEPT ![d] = n(k)]
  <2>1. conn[i].removal \in Nat /\ conn[i].removal + 1 \in Nat
        BY <1>1 DEF Connection
  <2> QED
      BY <2>1 DEF DisconnectBegin
<1>4. UnlinksOK'
  <2>1. PICK k \in Nat : unlink' = [unlink EXCEPT ![d] = n(k)]
        BY <1>3
  <2>2. UnlinkRow(n(k), item)
        BY <1>1 DEF UnlinkRow, UnlinkRun, ConnRow
  <2> HIDE DEF n
  <2> QED
      BY <1>1, <2>1, <2>2, LifeStays, UnlinkSet
<1>5. /\ c \in Connection /\ c.st = "disconnecting" /\ c.by = conn[i].by /\ c.cred = conn[i].cred
  <2>1. next \in Nat
        BY <1>1 DEF Connection
  <2> HIDE DEF next
  <2> QED
      BY <1>1, <2>1 DEF Connection
<1>6. ConnRow(c, i, item)
      BY <1>1, <1>5 DEF ConnRow
<1>7. conn' = conn \/ conn' = [conn EXCEPT ![i] = c]
      BY <1>1, <1>2
<1> HIDE DEF c
<1>8. AttsOK' /\ ConnsOK' /\ ReapsOK' /\ MovedOnce' /\ NeverStranded'
      BY <1>1, <1>5, <1>6, <1>7, LifeStays, LifeKept, ConnSet
<1> QED
    BY <1>1, <1>4, <1>8, LifeStays, LinkKept DEF SagaInv, Counted

LEMMA ReadCredentialKeeps ==
  ASSUME LinkAssumption, SagaInv, NEW d \in Unlinks, ReadCredential(d)
  PROVE  SagaInv'
<1> DEFINE n(to) == [unlink[d] EXCEPT !.pc = to]
<1>1. /\ unlink \in [Unlinks -> UnlinkRun] /\ UnlinkRow(unlink[d], item) /\ unlink[d] \in UnlinkRun
      /\ UNCHANGED <<att, conn, item, link, reap, quota, faults>> /\ unlink[d].pc = "begun"
      BY DEF SagaInv, UnlinksOK, ReadCredential, AtUnlink
<1>2. PICK to \in {"token", "complete"} : unlink' = [unlink EXCEPT ![d] = n(to)]
      BY <1>1 DEF ReadCredential
<1>3. UnlinkRow(n(to), item)
      BY <1>1 DEF UnlinkRow, UnlinkRun
<1> HIDE DEF n
<1> QED
    BY <1>1, <1>2, <1>3, LifeStays, UnlinkSet, LinkKept, LifeKept DEF SagaInv, Counted

LEMMA RemoveConnectedKeeps ==
  ASSUME LinkAssumption, SagaInv, NEW d \in Unlinks, RemoveConnected(d)
  PROVE  SagaInv'
<1>1. PICK out \in Outcome :
        /\ ItemRemove(unlink[d].item, out)
        /\ unlink' = [unlink EXCEPT ![d].pc = "complete", ![d].removed = out = "done"]
      BY DEF RemoveConnected
<1> DEFINE n == [unlink[d] EXCEPT !.pc = "complete", !.removed = out = "done"]
<1>2. /\ unlink \in [Unlinks -> UnlinkRun] /\ UnlinkRow(unlink[d], item) /\ unlink[d] \in UnlinkRun
      /\ UNCHANGED <<att, conn, link, reap>> /\ unlink[d].pc = "token"
      BY DEF SagaInv, UnlinksOK, RemoveConnected, AtUnlink
<1>3. unlink[d].item \in Items /\ item[unlink[d].item].life # "unborn"
      BY <1>2 DEF UnlinkRow
<1>4. Counted' /\ LifeGoesOn /\ (out = "done" => item'[unlink[d].item].life = "gone")
      BY <1>1, <1>3, Removal
<1>5. /\ n \in UnlinkRun /\ n.pc = "complete" /\ n.item = unlink[d].item
      /\ n.removed <=> out = "done"
      BY <1>2 DEF UnlinkRun
<1>6. UnlinkRow(n, item')
      BY <1>3, <1>4, <1>5 DEF UnlinkRow, LifeGoesOn
<1>7. unlink' = [unlink EXCEPT ![d] = n]
      BY <1>1, <1>2
<1> HIDE DEF n
<1> QED
    BY <1>2, <1>4, <1>6, <1>7, UnlinkSet, LinkKept, LifeKept DEF SagaInv

LEMMA DisconnectCompleteKeeps ==
  ASSUME LinkAssumption, SagaInv, NEW d \in Unlinks, DisconnectComplete(d)
  PROVE  SagaInv'
<1> DEFINE i == unlink[d].item
           removed == [conn[i] EXCEPT !.st = "disconnected", !.cred = FALSE, !.rst = "succeeded"]
           failed == [conn[i] EXCEPT !.rst = "failed"]
           c == IF unlink[d].removed THEN removed ELSE failed
<1>1. /\ UnlinkRow(unlink[d], item) /\ unlink[d] \in UnlinkRun /\ i \in Items
      /\ UNCHANGED <<att, item, link, reap, quota, faults>> /\ EndUnlink(d)
      BY DEF SagaInv, UnlinksOK, DisconnectComplete, AtUnlink, UnlinkRow
<1>2. conn \in [Items -> Connection] /\ ConnRow(conn[i], i, item) /\ conn[i] \in Connection
      BY <1>1 DEF SagaInv, ConnsOK
<1>3. conn' = conn \/ (conn' = [conn EXCEPT ![i] = c] /\ conn[i].st = "disconnecting")
      BY <1>2 DEF DisconnectComplete
<1>4. /\ removed \in Connection /\ removed.st = "disconnected" /\ removed.by = conn[i].by
      /\ removed.cred = FALSE
      BY <1>2 DEF Connection
<1>5. /\ failed \in Connection /\ failed.st = conn[i].st /\ failed.by = conn[i].by
      /\ failed.cred = conn[i].cred
      BY <1>2 DEF Connection
<1>6. unlink[d].removed => item[i].life = "gone"
      BY <1>1 DEF UnlinkRow
<1>7. conn[i].st = "disconnecting" =>
        /\ ConnRow(c, i, item) /\ c.by = conn[i].by
        /\ (conn[i].cred /\ ~ c.cred => item[i].life = "gone")
  <2> HIDE DEF removed, failed
  <2> QED
      BY <1>2, <1>4, <1>5, <1>6 DEF ConnRow
<1> HIDE DEF c, i
<1>8. AttsOK' /\ ConnsOK' /\ ReapsOK' /\ MovedOnce' /\ NeverStranded'
  <2>1. CASE conn' = conn
        BY <1>1, <2>1, LifeStays, LifeKept
  <2>2. CASE conn' = [conn EXCEPT ![i] = c] /\ conn[i].st = "disconnecting"
        BY <1>1, <1>7, <2>2, ConnSet
  <2> QED
      BY <1>3, <2>1, <2>2
<1> QED
    BY <1>1, <1>8, LifeStays, EndsUnlink, LinkKept DEF SagaInv, Counted

LEMMA SagaNext == LinkAssumption /\ SagaInv /\ [Next]_vars => SagaInv'
<1> SUFFICES ASSUME LinkAssumption, SagaInv, [Next]_vars
             PROVE  SagaInv'
    OBVIOUS
<1>1. CASE NewDay
  <2>1. UNCHANGED <<att, conn, item, link, unlink, reap, faults>> /\ quota' = DailyLimit
        BY <1>1 DEF NewDay
  <2>2. quota' \in 0 .. DailyLimit
        BY <2>1 DEF LinkAssumption
  <2> QED
      BY <2>1, <2>2, LifeStays, LifeKept, LinkKept, UnlinkKept DEF SagaInv, Counted
<1>2. ASSUME NEW r \in Links,
             (\E a \in Attempts : BeginLink(r, a)) \/ LinkStep(r) \/ EncryptFails(r) \/ LinkCrash(r)
      PROVE  SagaInv'
      BY <1>2, BeginLinkKeeps, ExchangeKeeps, RecordLinkExchangeKeeps, UndoKeeps, AccountsGetKeeps,
         RemoveEmptyKeeps, FailLinkAttemptKeeps, FinalizeLinkKeeps, LinkFaultKeeps DEF LinkStep
<1>3. ASSUME NEW w \in Reapers, ReapClaim(w) \/ ReapStep(w) \/ ReapCrash(w)
      PROVE  SagaInv'
      BY <1>3, ReapClaimKeeps, ReapRemoveKeeps, MarkLinkAttemptReapedKeeps, ReapCrashKeeps DEF ReapStep
<1>4. CASE \E d \in Unlinks : UnlinkCrash(d)
  <2>1. PICK d \in Unlinks : EndUnlink(d) /\ Fault
        BY <1>4 DEF UnlinkCrash
  <2>2. UNCHANGED <<att, conn, item, link, reap, quota>> /\ faults' \in 0 .. MaxFaults
        BY <1>4 DEF UnlinkCrash, Fault, LinkAssumption, SagaInv, Counted
  <2> QED
      BY <2>1, <2>2, LifeStays, LifeKept, LinkKept, EndsUnlink DEF SagaInv, Counted
<1>5. ASSUME NEW d \in Unlinks, (\E i \in Items : DisconnectBegin(d, i)) \/ UnlinkStep(d)
      PROVE  SagaInv'
      BY <1>5, DisconnectBeginKeeps, ReadCredentialKeeps, RemoveConnectedKeeps,
         DisconnectCompleteKeeps DEF UnlinkStep
<1>6. CASE UNCHANGED vars
      BY <1>6, LifeStays, LifeKept, LinkKept, UnlinkKept DEF vars, SagaInv, Counted
<1> QED
    BY <1>1, <1>2, <1>3, <1>4, <1>5, <1>6, ExpireKeeps DEF Next

LEMMA SagaKept == Spec => []SagaInv
BY SagaInit, SagaNext, LinkAssumption, PTL DEF Spec

(* Every row keeps its type: counters stay within the budget, and a request *)
(* never stands where the item or the attempt it needs is missing.          *)
THEOREM SagaTypeCorrect == Spec => []TypeOK
<1>1. SagaInv => TypeOK
      BY DEF SagaInv, TypeOK, Counted, LinksOK, UnlinksOK, AttsOK, ConnsOK, ReapsOK
<1> QED
    BY <1>1, SagaKept, PTL

(* An item whose credential was stored is never left at the provider        *)
(* without a stored credential to remove it with: the credential moves from *)
(* the attempt to a connection in one transaction, and every other way it   *)
(* is given up follows an answer that the item is gone.                     *)
THEOREM NothingStranded == Spec => []NeverStranded
<1>1. SagaInv => NeverStranded
      BY DEF SagaInv
<1> QED
    BY <1>1, SagaKept, PTL

(* A disconnected connection has neither item nor credential: the row is    *)
(* closed only by the request whose own removal succeeded, and nothing      *)
(* opens it again.                                                          *)
THEOREM ClosedIsGone == Spec => []DisconnectedIsGone
<1>1. SagaInv => DisconnectedIsGone
      BY DEF SagaInv, DisconnectedIsGone, ConnsOK, ConnRow
<1> QED
    BY <1>1, SagaKept, PTL

(* The credential of a connection has moved: the attempt it came from is    *)
(* settled, empty and no reaper's, however many reapers run.                *)
THEOREM CredentialMoved == Spec => []MovedOnce
<1>1. SagaInv => MovedOnce
      BY DEF SagaInv
<1> QED
    BY <1>1, SagaKept, PTL

-----------------------------------------------------------------------------
(* Connections in use *)

(* An item exchanged once is one request's and then one attempt's: nobody    *)
(* else can remove it, and whoever may still make a connection of it has     *)
(* seen it alive, or will find its attempt taken by a reaper.                *)
Holding == {"recorded", "empty", "finalize"}
Sole(i) == i \in Items /\ ~item[i].shared
OneHolder ==
  /\ \A r, q \in Links : link[r].item = link[q].item /\ Sole(link[r].item) => r = q
  /\ \A a, b \in Attempts : att[a].item = att[b].item /\ Sole(att[a].item) => a = b

Noted ==
  \A r \in Links :
    /\ link[r].pc \in Holding => att[link[r].att].item = link[r].item
    /\ link[r].pc \in {"token", "undo"} /\ Sole(link[r].item)
         => \A a \in Attempts : att[a].item # link[r].item

Unconnected ==
  /\ \A r \in Links : link[r].pc \in Holding /\ Sole(link[r].item) => conn[link[r].item].st = "none"
  /\ \A d \in Unlinks :
       unlink[d].pc # "idle" => conn[unlink[d].item].st \in {"disconnecting", "disconnected"}
  /\ \A i \in Items : conn[i].st # "none" => conn[i].by # None

Taken(a) == att[a].st = "reaped" \/ \E w \in Reapers : reap[w].cur = a /\ reap[w].out = "done"
Awaited ==
  \A r \in Links :
    link[r].pc \in Holding \cup {"token"} /\ Sole(link[r].item) /\ ~item[link[r].item].doubt
      => item[link[r].item].life = "alive" \/ (link[r].pc # "token" /\ Taken(link[r].att))

LivesInv == OneHolder /\ Noted /\ Unconnected /\ Awaited /\ ActiveItemLives

(* Facts of the rows, as the steps use them. *)
LEMMA Rows ==
  ASSUME LinkAssumption, SagaInv
  PROVE  /\ None \notin Items /\ None \notin Attempts
         /\ \A r \in Links : /\ link[r] \in LinkRun
                             /\ link[r].pc # "idle" => link[r].att \in Attempts
                             /\ link[r].pc \notin {"idle", "begun"} => link[r].item \in Items
                             /\ link[r].item \in Items => item[link[r].item].life # "unborn"
         /\ \A a \in Attempts : /\ att[a] \in Attempt
                                /\ att[a].st \in {"none", "initiated"} => att[a].item = None
                                /\ att[a].item \in Items => item[att[a].item].life # "unborn"
         /\ \A i \in Items : /\ conn[i] \in Connection /\ item[i] \in Item
                             /\ conn[i].st # "none" => item[i].life # "unborn"
                             /\ conn[i].by # None => /\ conn[i].by \in Attempts /\ att[conn[i].by].item = i
                                                     /\ \A w \in Reapers : conn[i].by \notin reap[w].todo
         /\ \A d \in Unlinks : /\ unlink[d] \in UnlinkRun
                               /\ unlink[d].pc # "idle" => unlink[d].item \in Items
         /\ \A w \in Reapers : /\ reap[w] \in ReapRun
                               /\ \A a \in reap[w].todo : /\ a \in Attempts /\ att[a].st = "reaping"
                                                          /\ att[a].claim = w /\ att[a].item \in Items
                               /\ reap[w].cur # None => reap[w].cur \in reap[w].todo
<1>1. None \notin Items /\ None \notin Attempts
      BY DEF LinkAssumption
<1>2. \A r \in Links : /\ link[r] \in LinkRun /\ LinkRow(link[r], item)
      BY DEF SagaInv, LinksOK
<1>3. \A a \in Attempts : AttRow(att[a], item)
      BY DEF SagaInv, AttsOK
<1>4. \A i \in Items : ConnRow(conn[i], i, item) /\ item[i] \in Item
      BY DEF SagaInv, ConnsOK, Counted
<1>5. \A i \in Items : conn[i].by # None => conn[i].by \in Attempts
      BY <1>4 DEF ConnRow, Connection
<1>6. \A d \in Unlinks : UnlinkRow(unlink[d], item)
      BY DEF SagaInv, UnlinksOK
<1>7. \A w \in Reapers : ReapRow(reap[w], w, att, item) /\ reap[w].todo \subseteq Attempts
      BY DEF SagaInv, ReapsOK, ReapRun
<1>8. \A w \in Reapers : \A a \in reap[w].todo : att[a].item \in Items
      BY <1>3, <1>7 DEF ReapRow, AttRow
<1> QED
    BY <1>1, <1>2, <1>3, <1>4, <1>5, <1>6, <1>7, <1>8
    DEF LinkRow, AttRow, ConnRow, UnlinkRow, ReapRow, SagaInv, MovedOnce

(* What a connection in use excludes: an unlink request, a request that holds *)
(* its item, a reaper's work on its attempt.                                  *)
LEMMA InUse ==
  ASSUME LinkAssumption, SagaInv, LivesInv, NEW i \in Items, conn[i].st = "active", Sole(i)
  PROVE  /\ \A r \in Links : link[r].item = i => link[r].pc \notin Holding \cup {"token", "undo"}
         /\ \A d \in Unlinks : unlink[d].pc # "idle" => unlink[d].item # i
         /\ \A w \in Reapers, a \in Attempts : a \in reap[w].todo => att[a].item # i
<1>1. conn[i].by \in Attempts /\ att[conn[i].by].item = i /\ \A w \in Reapers : conn[i].by \notin reap[w].todo
      BY Rows DEF LivesInv, Unconnected
<1>2. \A a \in Attempts : att[a].item = i => a = conn[i].by
      BY <1>1 DEF LivesInv, OneHolder
<1> QED
    BY <1>1, <1>2 DEF LivesInv, Noted, Unconnected

-----------------------------------------------------------------------------
(* Steps that make nothing of an item but its end. *)

Onward(n, m) ==
  \/ m = n
  \/ m.item = None /\ m.pc \in {"idle", "begun"}
  \/ /\ m.item = n.item /\ m.att = n.att
     /\ \/ m.pc = "fail"
        \/ n.pc = "token" /\ m.pc = "undo"
        \/ n.pc = "recorded" /\ m.pc \in {"empty", "finalize"}

(* Rows go on, and an item that ends is nobody's, or its end is in doubt, or  *)
(* a reaper has just removed it.                                              *)
Quiet ==
  /\ \A r \in Links : Onward(link[r], link'[r])
  /\ \A a \in Attempts : att'[a].item = att[a].item /\ (att[a].st = "reaped" => att'[a].st = "reaped")
  /\ \A i \in Items : /\ conn'[i].st = "none" <=> conn[i].st = "none"
                      /\ conn'[i].st = "active" => conn[i].st = "active"
                      /\ conn'[i].by = conn[i].by
  /\ \A d \in Unlinks : \/ unlink'[d].pc = "idle"
                        \/ unlink[d].pc # "idle" /\ unlink'[d].item = unlink[d].item
                        \/ unlink'[d].item \in Items /\ conn'[unlink'[d].item].st = "disconnecting"
  /\ \A i \in Items : /\ item[i].shared => item'[i].shared
                      /\ item[i].doubt => item'[i].doubt
  /\ \A i \in Items : item[i].life = "alive" /\ item'[i].life # "alive" /\ Sole(i) /\ ~item'[i].doubt =>
       /\ conn[i].st # "active"
       /\ \A r \in Links : link'[r].item = i /\ link'[r].pc \in Holding \cup {"token"} =>
            /\ link'[r].pc # "token"
            /\ \E w \in Reapers : reap'[w].cur = link'[r].att /\ reap'[w].out = "done"
  /\ \A w \in Reapers : reap[w].cur # None /\ reap[w].out = "done" =>
       \/ reap'[w].cur = reap[w].cur /\ reap'[w].out = "done"
       \/ att'[reap[w].cur].st = "reaped"
       \/ item'[att[reap[w].cur].item].doubt

LEMMA QuietKeeps ==
  ASSUME LinkAssumption, SagaInv, SagaInv', LivesInv, Quiet
  PROVE  LivesInv'
<1>1. /\ \A r \in Links : Onward(link[r], link'[r])
      /\ \A a \in Attempts : att'[a].item = att[a].item /\ (att[a].st = "reaped" => att'[a].st = "reaped")
      /\ \A i : Sole(i)' => Sole(i)
      BY DEF Quiet, Sole
<1>2. \A r \in Links : link'[r].item \in Items => link'[r].item = link[r].item
      BY <1>1, Rows DEF Onward
<1>3. \A r \in Links : /\ link'[r].pc \in Holding => /\ link[r].pc \in Holding
                                                    /\ link'[r].item = link[r].item /\ link'[r].att = link[r].att
                       /\ link'[r].pc \in {"token", "undo"} => /\ link[r].pc \in {"token", "undo"}
                                                              /\ link'[r].item = link[r].item
                       /\ link'[r].pc = "token" => link[r].pc = "token"
      BY <1>1 DEF Onward, Holding
<1>4. \A r \in Links : link'[r].pc \in Holding \cup {"token", "undo"} => link[r].item \in Items /\ link[r].att \in Attempts
      BY <1>3, Rows DEF Holding
<1>5. OneHolder'
      BY <1>1, <1>2 DEF OneHolder, LivesInv, Sole
<1>6. Noted'
  <2>1. ASSUME NEW r \in Links, link'[r].pc \in Holding PROVE att'[link'[r].att].item = link'[r].item
        BY <1>1, <1>3, <1>4, <2>1 DEF Noted, LivesInv
  <2>2. ASSUME NEW r \in Links, link'[r].pc \in {"token", "undo"}, Sole(link[r].item)', NEW a \in Attempts
        PROVE  att'[a].item # link'[r].item
        BY <1>1, <1>3, <2>2 DEF Noted, LivesInv, Sole
  <2> QED
      BY <1>1, <1>2, <1>3, <2>1, <2>2 DEF Noted, Sole
<1>7. Unconnected'
  <2>1. ASSUME NEW r \in Links, link'[r].pc \in Holding, Sole(link[r].item)' PROVE conn'[link'[r].item].st = "none"
    <3>1. Sole(link[r].item) /\ link[r].item \in Items
          BY <1>1, <1>3, <1>4, <2>1 DEF Sole
    <3> QED
        BY <1>3, <2>1, <3>1 DEF Unconnected, LivesInv, Quiet
  <2>2. ASSUME NEW d \in Unlinks, unlink'[d].pc # "idle"
        PROVE  conn'[unlink'[d].item].st \in {"disconnecting", "disconnected"}
    <3>1. CASE unlink[d].pc # "idle" /\ unlink'[d].item = unlink[d].item
      <4>1. /\ unlink[d].item \in Items /\ conn[unlink[d].item].st \in {"disconnecting", "disconnected"}
            BY <3>1, Rows DEF Unconnected, LivesInv
      <4>2. conn'[unlink[d].item] \in Connection
            BY <4>1 DEF SagaInv, ConnsOK
      <4>3. conn'[unlink[d].item].st \notin {"none", "active"}
            BY <4>1 DEF Quiet
      <4> QED
          BY <3>1, <4>2, <4>3 DEF Connection
    <3> QED
        BY <2>2, <3>1 DEF Quiet
  <2>3. \A i \in Items : conn'[i].st # "none" => conn'[i].by # None
        BY DEF Quiet, Unconnected, LivesInv
  <2> QED
      BY <2>1, <2>2, <2>3 DEF Unconnected, Sole
<1>8. Awaited'
  <2> SUFFICES ASSUME NEW r \in Links, link'[r].pc \in Holding \cup {"token"}, Sole(link[r].item)',
                      ~item'[link'[r].item].doubt, item'[link'[r].item].life # "alive"
               PROVE  link'[r].pc # "token" /\ Taken(link[r].att)'
      BY DEF Awaited
  <2>1. /\ link[r].item \in Items /\ link[r].att \in Attempts /\ link'[r].item = link[r].item
        /\ Sole(link[r].item) /\ link[r].pc \in Holding \cup {"token"}
        BY <1>1, <1>3, <1>4 DEF Sole
  <2>2. ~item[link[r].item].doubt
        BY <2>1 DEF Quiet
  <2>3. CASE item[link[r].item].life = "alive"
        BY <2>1, <2>3 DEF Quiet, Taken
  <2>4. CASE item[link[r].item].life # "alive"
    <3>1. link[r].pc \in Holding /\ Taken(link[r].att)
          BY <2>1, <2>2, <2>4 DEF Awaited, LivesInv
    <3>2. link'[r].pc # "token" /\ link'[r].att = link[r].att
          BY <1>3, <3>1 DEF Holding
    <3>3. CASE att[link[r].att].st = "reaped"
          BY <1>1, <2>1, <3>2, <3>3 DEF Taken
    <3>4. ASSUME NEW w \in Reapers, reap[w].cur = link[r].att, reap[w].out = "done"
          PROVE  Taken(link[r].att)'
      <4>1. reap[w].cur # None /\ att[reap[w].cur].item = link[r].item
            BY <2>1, <3>1, <3>4, Rows DEF Noted, LivesInv
      <4>2. ~item'[att[reap[w].cur].item].doubt
            BY <2>1, <4>1
      <4>3. \/ reap'[w].cur = reap[w].cur /\ reap'[w].out = "done"
            \/ att'[reap[w].cur].st = "reaped"
            BY <3>4, <4>1, <4>2 DEF Quiet
      <4> QED
          BY <3>2, <3>4, <4>3 DEF Taken
    <3> QED
        BY <3>1, <3>2, <3>3, <3>4 DEF Taken
  <2> QED
      BY <2>3, <2>4
<1>9. ActiveItemLives'
  <2> SUFFICES ASSUME NEW i \in Items, conn'[i].st = "active", ~item'[i].shared, ~item'[i].doubt
               PROVE  item'[i].life = "alive"
      BY DEF ActiveItemLives
  <2>1. conn[i].st = "active" /\ Sole(i) /\ ~item[i].doubt
        BY DEF Quiet, Sole
  <2>2. item[i].life = "alive"
        BY <2>1 DEF ActiveItemLives, LivesInv, Sole
  <2> QED
      BY <2>1, <2>2 DEF Quiet
<1> QED
    BY <1>5, <1>6, <1>7, <1>8, <1>9 DEF LivesInv

(* What a call that removes an item does to the items. *)
LEMMA Removed ==
  ASSUME LinkAssumption, SagaInv, NEW i \in Items, NEW out, ItemRemove(i, out)
  PROVE  /\ \A j \in Items : /\ item[j].shared => item'[j].shared
                             /\ item[j].doubt => item'[j].doubt
                             /\ item[j].life = "alive" /\ item'[j].life # "alive" => j = i
         /\ item[i].life = "alive" /\ item'[i].life # "alive" => out = "done" \/ item'[i].doubt
<1> DEFINE e == [item[i] EXCEPT !.life = "gone", !.doubt = @ \/ out = "lost"]
<1>1. item \in [Items -> Item] /\ item[i] \in Item
      BY DEF SagaInv, Counted
<1>2. item' = item \/ (item' = [item EXCEPT ![i] = e] /\ out \in {"done", "lost"})
      BY <1>1 DEF ItemRemove
<1>3. e.shared = item[i].shared /\ (item[i].doubt => e.doubt) /\ (out = "lost" => e.doubt)
      BY <1>1 DEF Item
<1> HIDE DEF e
<1>4. \A j \in Items : item'[j] = item[j] \/ (j = i /\ item'[j] = e)
      BY <1>1, <1>2
<1> QED
    BY <1>1, <1>2, <1>3, <1>4

LEMMA LinkOnward ==
  ASSUME SagaInv, NEW r \in Links, NEW n, link' = [link EXCEPT ![r] = n], Onward(link[r], n)
  PROVE  \A q \in Links : link'[q] = (IF q = r THEN n ELSE link[q]) /\ Onward(link[q], link'[q])
<1>1. link \in [Links -> LinkRun]
      BY DEF SagaInv, LinksOK
<1>2. \A q \in Links : link'[q] = (IF q = r THEN n ELSE link[q])
      BY <1>1
<1> QED
    BY <1>2 DEF Onward

LEMMA Ending ==
  ASSUME SagaInv, NEW r \in Links, EndLink(r)
  PROVE  /\ \A q \in Links : link'[q] = (IF q = r THEN NoLink ELSE link[q]) /\ Onward(link[q], link'[q])
         /\ NoLink.item = None /\ NoLink.pc = "idle"
<1>1. NoLink.item = None /\ NoLink.pc = "idle"
      BY DEF NoLink
<1>2. Onward(link[r], NoLink)
      BY <1>1 DEF Onward
<1> QED
    BY <1>1, <1>2, LinkOnward DEF EndLink

LEMMA Going ==
  ASSUME SagaInv, NEW r \in Links, NEW to, GotoLink(r, to),
         to = "fail" \/ (link[r].pc = "token" /\ to = "undo")
           \/ (link[r].pc = "recorded" /\ to \in {"empty", "finalize"})
  PROVE  \A q \in Links : Onward(link[q], link'[q])
<1> DEFINE n == [link[r] EXCEPT !.pc = to]
<1>1. link \in [Links -> LinkRun] /\ link[r] \in LinkRun
      BY DEF SagaInv, LinksOK
<1>2. n.pc = to /\ n.item = link[r].item /\ n.att = link[r].att /\ link' = [link EXCEPT ![r] = n]
      BY <1>1 DEF LinkRun, GotoLink
<1> HIDE DEF n
<1>3. Onward(link[r], n)
      BY <1>2 DEF Onward
<1> QED
    BY <1>2, <1>3, LinkOnward

LEMMA Failing ==
  ASSUME SagaInv, NEW r \in Links, NEW gone, FailWith(r, gone)
  PROVE  /\ \A q \in Links : Onward(link[q], link'[q]) /\ (q # r => link'[q] = link[q])
         /\ link'[r].pc = "fail"
<1> DEFINE n == [link[r] EXCEPT !.pc = "fail", !.removed = gone]
<1>1. link \in [Links -> LinkRun] /\ link[r] \in LinkRun
      BY DEF SagaInv, LinksOK
<1>2. n.pc = "fail" /\ n.item = link[r].item /\ n.att = link[r].att /\ link' = [link EXCEPT ![r] = n]
      BY <1>1 DEF LinkRun, FailWith
<1> HIDE DEF n
<1>3. Onward(link[r], n)
      BY <1>2 DEF Onward
<1>4. \A q \in Links : link'[q] = (IF q = r THEN n ELSE link[q]) /\ Onward(link[q], link'[q])
      BY <1>2, <1>3, LinkOnward
<1> QED
    BY <1>2, <1>4

LEMMA RequestQuiet ==
  ASSUME LinkAssumption, SagaInv, LivesInv, NEW r \in Links,
         \/ \E a \in Attempts : BeginLink(r, a)
         \/ Undo(r) \/ AccountsGet(r) \/ RemoveEmpty(r) \/ FailLinkAttempt(r)
         \/ EncryptFails(r) \/ LinkCrash(r)
  PROVE  Quiet
<1>0. /\ att \in [Attempts -> Attempt] /\ link \in [Links -> LinkRun]
      BY DEF SagaInv, AttsOK, LinksOK
<1>1. ASSUME NEW a \in Attempts, BeginLink(r, a) PROVE Quiet
  <2> DEFINE n == [pc |-> "begun", att |-> a, item |-> None, removed |-> FALSE]
             b == [att[a] EXCEPT !.st = "initiated"]
  <2>1. n.pc = "begun" /\ n.item = None /\ b.item = att[a].item /\ att[a].st # "reaped"
        BY <1>0, <1>1 DEF Attempt, BeginLink
  <2>2. /\ link' = [link EXCEPT ![r] = n] /\ att' = [att EXCEPT ![a] = b]
        /\ UNCHANGED <<conn, item, unlink, reap>>
        BY <1>0, <1>1 DEF BeginLink
  <2> HIDE DEF n, b
  <2>3. Onward(link[r], n)
        BY <2>1 DEF Onward
  <2>4. \A q \in Links : Onward(link[q], link'[q])
        BY <2>2, <2>3, LinkOnward
  <2>5. \A c \in Attempts : att'[c].item = att[c].item /\ (att[c].st = "reaped" => att'[c].st = "reaped")
        BY <1>0, <2>1, <2>2
  <2> QED
      BY <2>2, <2>4, <2>5 DEF Quiet
<1>2. CASE EncryptFails(r) \/ LinkCrash(r)
  <2>1. UNCHANGED <<att, conn, item, unlink, reap>> /\ \A q \in Links : Onward(link[q], link'[q])
        BY <1>2, Ending, Going DEF EncryptFails, LinkCrash, AtLink
  <2> QED
      BY <2>1 DEF Quiet
<1>3. CASE AccountsGet(r)
  <2>1. UNCHANGED <<att, conn, item, unlink, reap>> /\ \A q \in Links : Onward(link[q], link'[q])
        BY <1>3, Failing, Going DEF AccountsGet, AtLink
  <2> QED
      BY <2>1 DEF Quiet
<1>4. CASE FailLinkAttempt(r)
  <2> DEFINE a == link[r].att
             b == [att[a] EXCEPT !.st = "failed", !.sealed = @ /\ ~link[r].removed]
  <2>1. a \in Attempts /\ att[a] \in Attempt
        BY <1>0, <1>4, Rows DEF FailLinkAttempt, AtLink
  <2>2. b.item = att[a].item
        BY <2>1 DEF Attempt
  <2>3. /\ att' = att \/ (att' = [att EXCEPT ![a] = b] /\ att[a].st # "reaped")
        /\ EndLink(r) /\ UNCHANGED <<conn, item, unlink, reap>>
        BY <1>0, <1>4, <2>1 DEF FailLinkAttempt
  <2> HIDE DEF b, a
  <2>4. \A c \in Attempts : att'[c].item = att[c].item /\ (att[c].st = "reaped" => att'[c].st = "reaped")
        BY <1>0, <2>2, <2>3
  <2> QED
      BY <2>3, <2>4, Ending DEF Quiet
<1>5. ASSUME Undo(r) \/ RemoveEmpty(r)
      PROVE  Quiet
  <2> DEFINE i == link[r].item
  <2>1. i \in Items /\ link[r].pc \in {"undo", "empty"} /\ UNCHANGED <<att, conn, unlink, reap>>
        BY <1>5, Rows DEF Undo, RemoveEmpty, AtLink
  <2>2. PICK out \in Outcome : ItemRemove(i, out)
        BY <1>5 DEF Undo, RemoveEmpty
  <2>3. /\ \A q \in Links : Onward(link[q], link'[q])
        /\ link'[r].pc \in {"idle", "fail"} /\ \A q \in Links : q # r => link'[q] = link[q]
    <3>1. CASE Undo(r)
          BY <3>1, Ending DEF Undo
    <3>2. CASE RemoveEmpty(r)
          BY <3>2, Failing DEF RemoveEmpty
    <3> QED
        BY <1>5, <3>1, <3>2
  <2>4. /\ \A j \in Items : /\ item[j].shared => item'[j].shared
                            /\ item[j].doubt => item'[j].doubt
                            /\ item[j].life = "alive" /\ item'[j].life # "alive" => j = i
        BY <2>1, <2>2, Removed
  <2>5. Sole(i) => /\ conn[i].st # "active"
                   /\ \A q \in Links : link'[q].item = i => link'[q].pc \notin Holding \cup {"token"}
    <3>1. Sole(i) => conn[i].st # "active"
          BY <2>1, InUse DEF Holding
    <3>2. ASSUME Sole(i), NEW q \in Links, link'[q].item = i PROVE link'[q].pc \notin Holding \cup {"token"}
      <4>1. q = r
            BY <2>3, <3>2 DEF LivesInv, OneHolder
      <4> QED
          BY <2>3, <4>1 DEF Holding
    <3> QED
        BY <3>1, <3>2
  <2> HIDE DEF i
  <2> QED
      BY <2>1, <2>3, <2>4, <2>5 DEF Quiet
<1> QED
    BY <1>1, <1>2, <1>3, <1>4, <1>5

LEMMA ReaperQuiet ==
  ASSUME LinkAssumption, SagaInv, SagaInv', LivesInv, NEW w \in Reapers,
         ReapClaim(w) \/ (\E a \in Attempts : ReapRemove(w, a)) \/ MarkLinkAttemptReaped(w) \/ ReapCrash(w)
  PROVE  Quiet
<1>0. /\ att \in [Attempts -> Attempt] /\ reap \in [Reapers -> ReapRun] /\ item \in [Items -> Item]
      /\ \A q \in Links : Onward(link[q], link[q])
      BY DEF SagaInv, AttsOK, ReapsOK, Counted, Onward
<1>1. CASE ReapClaim(w)
  <2> DEFINE set == {a \in Attempts : Reapable(a)}
  <2>1. /\ att' = [a \in Attempts |->
                     IF a \in set THEN [att[a] EXCEPT !.st = "reaping", !.claim = w] ELSE att[a]]
        /\ reap' = [reap EXCEPT ![w].todo = set] /\ reap[w] = NoReap
        /\ UNCHANGED <<conn, item, link, unlink>>
        BY <1>1 DEF ReapClaim
  <2>2. \A a \in set : att[a].st # "reaped"
        BY DEF Reapable
  <2>3. \A a \in Attempts : att'[a].item = att[a].item /\ (att[a].st = "reaped" => att'[a].st = "reaped")
    <3> SUFFICES ASSUME NEW a \in Attempts
                 PROVE  att'[a].item = att[a].item /\ (att[a].st = "reaped" => att'[a].st = "reaped")
        OBVIOUS
    <3>1. att[a] \in Attempt
          BY <1>0
    <3>2. [att[a] EXCEPT !.st = "reaping", !.claim = w].item = att[a].item
          BY <3>1 DEF Attempt
    <3> HIDE DEF set
    <3> QED
        BY <2>1, <2>2, <3>2
  <2>4. \A v \in Reapers : reap[v].cur # None => v # w
    <3>1. NoReap.cur = None
          BY DEF NoReap
    <3> HIDE DEF set
    <3> QED
        BY <2>1, <3>1
  <2> HIDE DEF set
  <2>5. \A v \in Reapers : v # w => reap'[v] = reap[v]
        BY <1>0, <2>1
  <2> QED
      BY <1>0, <2>1, <2>3, <2>4, <2>5 DEF Quiet
<1>2. ASSUME NEW a \in Attempts, ReapRemove(w, a) PROVE Quiet
  <2> DEFINE i == att[a].item
  <2>1. PICK out \in Outcome : /\ ItemRemove(i, out)
                               /\ reap' = [reap EXCEPT ![w].cur = a, ![w].out = out]
        BY <1>2 DEF ReapRemove
  <2>2. /\ a \in reap[w].todo /\ reap[w].cur = None /\ i \in Items /\ UNCHANGED <<att, conn, link, unlink>>
        BY <1>2, Rows DEF ReapRemove
  <2>3. /\ \A j \in Items : /\ item[j].shared => item'[j].shared
                            /\ item[j].doubt => item'[j].doubt
                            /\ item[j].life = "alive" /\ item'[j].life # "alive" => j = i
        /\ item[i].life = "alive" /\ item'[i].life # "alive" => out = "done" \/ item'[i].doubt
        BY <2>1, <2>2, Removed
  <2> DEFINE n == [reap[w] EXCEPT !.cur = a, !.out = out]
  <2>4. n.cur = a /\ n.out = out /\ reap' = [reap EXCEPT ![w] = n]
        BY <1>0, <2>1 DEF ReapRun
  <2> HIDE DEF n
  <2>5. /\ reap'[w].cur = a /\ reap'[w].out = out
        /\ \A v \in Reapers : v # w => reap'[v] = reap[v]
        BY <1>0, <2>4
  <2>6. Sole(i) => /\ conn[i].st # "active"
                   /\ \A q \in Links : link[q].item = i /\ link[q].pc \in Holding \cup {"token"} =>
                        link[q].pc # "token" /\ link[q].att = a
    <3>1. Sole(i) => conn[i].st # "active"
          BY <2>2, InUse
    <3>2. ASSUME Sole(i), NEW q \in Links, link[q].item = i, link[q].pc \in Holding \cup {"token"}
          PROVE  link[q].pc # "token" /\ link[q].att = a
      <4>1. link[q].pc # "token"
            BY <3>2 DEF LivesInv, Noted
      <4>2. link[q].att \in Attempts /\ att[link[q].att].item = i
            BY <3>2, <4>1, Rows DEF LivesInv, Noted, Holding
      <4> QED
          BY <3>2, <4>1, <4>2 DEF LivesInv, OneHolder
    <3> QED
        BY <3>1, <3>2
  <2> HIDE DEF i
  <2>7. \A j \in Items : item[j].life = "alive" /\ item'[j].life # "alive" /\ Sole(j) /\ ~item'[j].doubt =>
       /\ conn[j].st # "active"
       /\ \A r \in Links : link'[r].item = j /\ link'[r].pc \in Holding \cup {"token"} =>
            /\ link'[r].pc # "token"
            /\ \E v \in Reapers : reap'[v].cur = link'[r].att /\ reap'[v].out = "done"
        BY <2>2, <2>3, <2>5, <2>6
  <2> QED
      BY <1>0, <2>2, <2>3, <2>5, <2>7 DEF Quiet
<1>3. CASE MarkLinkAttemptReaped(w)
  <2> DEFINE a == reap[w].cur
             b == Reaped(att[a], reap[w].out)
             n == [NoReap EXCEPT !.todo = reap[w].todo \ {a}]
  <2>1. /\ a \in Attempts /\ att[a].st = "reaping" /\ att[a].claim = w /\ att[a] \in Attempt
        BY <1>0, <1>3, Rows DEF MarkLinkAttemptReaped
  <2>2. /\ att' = [att EXCEPT ![a] = b] /\ reap' = [reap EXCEPT ![w] = n]
        /\ UNCHANGED <<conn, item, link, unlink>>
        BY <1>3, <2>1 DEF MarkLinkAttemptReaped
  <2>3. b.item = att[a].item /\ (reap[w].out = "done" => b.st = "reaped")
        BY <2>1 DEF Reaped, Attempt
  <2> HIDE DEF b, n
  <2>4. /\ att'[a] = b /\ \A c \in Attempts : c # a => att'[c] = att[c]
        /\ \A v \in Reapers : v # w => reap'[v] = reap[v]
        BY <1>0, <2>1, <2>2
  <2>5. \A c \in Attempts : att'[c].item = att[c].item /\ (att[c].st = "reaped" => att'[c].st = "reaped")
        BY <2>1, <2>3, <2>4
  <2>6. \A v \in Reapers : reap[v].cur # None /\ reap[v].out = "done" =>
          (reap'[v].cur = reap[v].cur /\ reap'[v].out = "done") \/ att'[reap[v].cur].st = "reaped"
        BY <2>3, <2>4
  <2> HIDE DEF a
  <2> QED
      BY <1>0, <2>2, <2>5, <2>6 DEF Quiet
<1>4. CASE ReapCrash(w)
  <2> DEFINE i == att[reap[w].cur].item
             e == [item[i] EXCEPT !.doubt = TRUE]
  <2>1. /\ reap' = [reap EXCEPT ![w] = NoReap] /\ UNCHANGED <<att, conn, link, unlink>>
        /\ item' = IF reap[w].cur = None THEN item ELSE [item EXCEPT ![i].doubt = TRUE]
        BY <1>4 DEF ReapCrash
  <2>2. reap[w].cur # None => i \in Items /\ item[i] \in Item
        BY <1>0, Rows
  <2>3. reap[w].cur # None => /\ item' = [item EXCEPT ![i] = e] /\ e.doubt /\ e.life = item[i].life
                              /\ e.shared = item[i].shared
        BY <2>1, <2>2 DEF Item
  <2> HIDE DEF i, e
  <2>4. /\ \A j \in Items : /\ item[j].shared => item'[j].shared
                            /\ item[j].doubt => item'[j].doubt
                            /\ item'[j].life = item[j].life
        /\ reap[w].cur # None => item'[i].doubt
        BY <1>0, <2>1, <2>2, <2>3
  <2>5. \A v \in Reapers : v # w => reap'[v] = reap[v]
        BY <1>0, <2>1
  <2>6. \A v \in Reapers : reap[v].cur # None /\ reap[v].out = "done" =>
          (reap'[v].cur = reap[v].cur /\ reap'[v].out = "done") \/ item'[att[reap[v].cur].item].doubt
        BY <2>4, <2>5 DEF i
  <2> QED
      BY <1>0, <2>1, <2>4, <2>6 DEF Quiet
<1> QED
    BY <1>1, <1>2, <1>3, <1>4

LEMMA UnlinkQuiet ==
  ASSUME LinkAssumption, SagaInv, SagaInv', LivesInv, NEW d \in Unlinks,
         (\E i \in Items : DisconnectBegin(d, i)) \/ ReadCredential(d) \/ RemoveConnected(d)
           \/ DisconnectComplete(d) \/ UnlinkCrash(d)
  PROVE  Quiet
<1>0. /\ unlink \in [Unlinks -> UnlinkRun] /\ conn \in [Items -> Connection]
      /\ \A q \in Links : Onward(link[q], link[q])
      BY DEF SagaInv, UnlinksOK, ConnsOK, Onward
<1>1. ASSUME NEW i \in Items, DisconnectBegin(d, i) PROVE Quiet
  <2> DEFINE c == [conn[i] EXCEPT !.st = "disconnecting", !.rst = "pending", !.removal = @ + 1]
             m == [pc |-> "begun", item |-> i, removal |-> conn[i].removal, removed |-> FALSE]
             n == [pc |-> "begun", item |-> i, removal |-> conn[i].removal + 1, removed |-> FALSE]
  <2>1. /\ conn[i].st \in {"active", "disconnecting"} /\ UNCHANGED <<att, item, link, reap>>
        /\ \/ /\ conn' = conn /\ conn[i].st = "disconnecting" /\ unlink' = [unlink EXCEPT ![d] = m]
           \/ /\ conn' = [conn EXCEPT ![i] = c] /\ unlink' = [unlink EXCEPT ![d] = n]
        BY <1>0, <1>1 DEF DisconnectBegin
  <2>2. m.item = i /\ n.item = i /\ c.st = "disconnecting" /\ c.by = conn[i].by
        BY <1>0 DEF Connection
  <2> HIDE DEF c, m, n
  <2>3. conn'[i].st = "disconnecting" /\ conn'[i].by = conn[i].by
        /\ \A j \in Items : j # i => conn'[j] = conn[j]
        BY <1>0, <2>1, <2>2
  <2>4. unlink'[d].item = i /\ \A e \in Unlinks : e # d => unlink'[e] = unlink[e]
        BY <1>0, <2>1, <2>2
  <2> QED
      BY <1>0, <2>1, <2>3, <2>4 DEF Quiet
<1>2. CASE ReadCredential(d)
  <2> DEFINE n == [unlink[d] EXCEPT !.pc = IF conn[unlink[d].item].cred THEN "token" ELSE "complete"]
  <2>1. /\ unlink' = [unlink EXCEPT ![d] = n] /\ UNCHANGED <<att, conn, item, link, reap>>
        /\ unlink[d].pc # "idle"
        BY <1>0, <1>2 DEF ReadCredential, AtUnlink
  <2>2. n.item = unlink[d].item
        BY <1>0 DEF UnlinkRun
  <2> HIDE DEF n
  <2>3. unlink'[d].item = unlink[d].item /\ \A e \in Unlinks : e # d => unlink'[e] = unlink[e]
        BY <1>0, <2>1, <2>2
  <2> QED
      BY <1>0, <2>1, <2>3 DEF Quiet
<1>3. CASE RemoveConnected(d)
  <2> DEFINE i == unlink[d].item
  <2>1. /\ i \in Items /\ unlink[d].pc # "idle" /\ UNCHANGED <<att, conn, link, reap>>
        BY <1>3, Rows DEF RemoveConnected, AtUnlink
  <2>2. PICK out \in Outcome : /\ ItemRemove(i, out)
                               /\ unlink' = [unlink EXCEPT ![d].pc = "complete", ![d].removed = out = "done"]
        BY <1>3 DEF RemoveConnected
  <2> DEFINE n == [unlink[d] EXCEPT !.pc = "complete", !.removed = out = "done"]
  <2>3. unlink' = [unlink EXCEPT ![d] = n] /\ n.item = unlink[d].item
        BY <1>0, <2>2 DEF UnlinkRun
  <2> HIDE DEF n
  <2>4. unlink'[d].item = unlink[d].item /\ \A e \in Unlinks : e # d => unlink'[e] = unlink[e]
        BY <1>0, <2>3
  <2>5. /\ \A j \in Items : /\ item[j].shared => item'[j].shared
                            /\ item[j].doubt => item'[j].doubt
                            /\ item[j].life = "alive" /\ item'[j].life # "alive" => j = i
        BY <2>1, <2>2, Removed
  <2>6. /\ conn[i].st # "active"
        /\ Sole(i) => \A q \in Links : link[q].item = i => link[q].pc \notin Holding \cup {"token"}
    <3>1. conn[i].st \in {"disconnecting", "disconnected"} /\ conn[i].by # None
          BY <2>1 DEF LivesInv, Unconnected
    <3>2. conn[i].by \in Attempts /\ att[conn[i].by].item = i
          BY <2>1, <3>1, Rows
    <3> QED
        BY <3>1, <3>2 DEF LivesInv, Noted, Unconnected
  <2> HIDE DEF i
  <2> QED
      BY <1>0, <2>1, <2>4, <2>5, <2>6 DEF Quiet
<1>4. CASE DisconnectComplete(d)
  <2> DEFINE i == unlink[d].item
             f == [conn[i] EXCEPT !.st = "disconnected", !.cred = FALSE, !.rst = "succeeded"]
             g == [conn[i] EXCEPT !.rst = "failed"]
  <2>1. i \in Items /\ conn[i] \in Connection
        BY <1>0, <1>4, Rows DEF DisconnectComplete, AtUnlink
  <2>2. /\ EndUnlink(d) /\ UNCHANGED <<att, item, link, reap>>
        /\ \/ conn' = conn
           \/ conn[i].st = "disconnecting" /\ (conn' = [conn EXCEPT ![i] = f] \/ conn' = [conn EXCEPT ![i] = g])
        BY <1>0, <1>4, <2>1 DEF DisconnectComplete
  <2>3. /\ f.st = "disconnected" /\ f.by = conn[i].by
        /\ g.st = conn[i].st /\ g.by = conn[i].by
        BY <2>1 DEF Connection
  <2> HIDE DEF f, g, i
  <2>4. \A j \in Items : /\ conn'[j].st = "none" <=> conn[j].st = "none"
                         /\ conn'[j].st = "active" => conn[j].st = "active"
                         /\ conn'[j].by = conn[j].by
        BY <1>0, <2>1, <2>2, <2>3
  <2>5. /\ unlink' = [unlink EXCEPT ![d] = NoUnlink] /\ NoUnlink.pc = "idle"
        BY <2>2 DEF EndUnlink, NoUnlink
  <2>6. \A e \in Unlinks : unlink'[e].pc = "idle" \/ unlink'[e] = unlink[e]
        BY <1>0, <2>5
  <2> QED
      BY <1>0, <2>2, <2>4, <2>6 DEF Quiet
<1>5. CASE UnlinkCrash(d)
  <2>1. /\ UNCHANGED <<att, conn, item, link, reap>>
        /\ unlink' = [unlink EXCEPT ![d] = NoUnlink] /\ NoUnlink.pc = "idle"
        BY <1>5 DEF UnlinkCrash, EndUnlink, NoUnlink
  <2>2. \A e \in Unlinks : unlink'[e].pc = "idle" \/ unlink'[e] = unlink[e]
        BY <1>0, <2>1
  <2> QED
      BY <1>0, <2>1, <2>2 DEF Quiet
<1> QED
    BY <1>1, <1>2, <1>3, <1>4, <1>5

-----------------------------------------------------------------------------
(* The three steps that make something of an item. *)

LEMMA ExchangeLives ==
  ASSUME LinkAssumption, SagaInv, SagaInv', LivesInv, NEW r \in Links, Exchange(r)
  PROVE  LivesInv'
<1>0. /\ link \in [Links -> LinkRun] /\ link[r] \in LinkRun /\ item \in [Items -> Item]
      /\ UNCHANGED <<att, conn, unlink, reap>> /\ link[r].pc = "begun" /\ link[r].att \in Attempts
      BY Rows DEF SagaInv, LinksOK, Counted, Exchange, AtLink
<1>1. CASE EndLink(r) /\ UNCHANGED item
  <2>1. \A q \in Links : Onward(link[q], link'[q])
        BY <1>1, Ending
  <2>2. Quiet
        BY <1>0, <1>1, <2>1 DEF Quiet
  <2> QED
      BY <2>2, QuietKeeps
<1>2. ASSUME NEW i \in Items, Exchangeable(i), item' = Exchanged(i),
             \/ link' = [link EXCEPT ![r].pc = "token", ![r].item = i]
             \/ EndLink(r)
      PROVE  LivesInv'
  <2> DEFINE e == [item[i] EXCEPT !.life = "alive", !.shared = item[i].life = "alive"]
             n == [link[r] EXCEPT !.pc = "token", !.item = i]
  <2>1. item' = [item EXCEPT ![i] = e] /\ e.life = "alive" /\ (e.shared <=> item[i].life = "alive")
        /\ (e.doubt <=> item[i].doubt)
        BY <1>0, <1>2 DEF Exchanged, Item
  <2>2. item[i].life \in {"unborn", "alive"}
        BY <1>2 DEF Exchangeable
  <2> HIDE DEF e
  <2>3. item'[i] = e /\ \A j \in Items : j # i => item'[j] = item[j]
        BY <1>0, <2>1
  <2>4. /\ n.pc = "token" /\ n.item = i
        /\ NoLink.pc = "idle" /\ NoLink.item = None
        BY <1>0 DEF LinkRun, NoLink
  <2>5. link' = [link EXCEPT ![r] = n] \/ link' = [link EXCEPT ![r] = NoLink]
        BY <1>0, <1>2 DEF EndLink
  <2> HIDE DEF n
  <2>6. /\ link'[r] = n \/ link'[r] = NoLink
        /\ \A q \in Links : q # r => link'[q] = link[q]
        BY <1>0, <2>5
  (* Of an item nobody had, nobody has anything yet. *)
  <2>7. item[i].life = "unborn" => /\ \A q \in Links : link[q].item # i
                                   /\ \A a \in Attempts : att[a].item # i
                                   /\ conn[i].st = "none"
        BY Rows
  <2>8. Sole(i)' => item[i].life = "unborn"
        BY <2>1, <2>2, <2>3 DEF Sole
  <2>9. \A j \in Items : j # i => (Sole(j)' <=> Sole(j))
        BY <2>3 DEF Sole
  <2>10. \A q \in Links : link'[q].item \in Items =>
           \/ q = r /\ link'[q].item = i /\ link'[q].pc = "token"
           \/ link'[q] = link[q] /\ q # r
         BY <2>4, <2>6, Rows
  <2>11. None \notin Items
         BY Rows
  <2>12. OneHolder'
    <3>1. ASSUME NEW q \in Links, NEW s \in Links, link'[q].item = link'[s].item, link'[q].item \in Items,
                 ~item'[link'[q].item].shared
          PROVE  q = s
      <4>1. CASE link'[q].item = i
            BY <2>7, <2>8, <2>10, <3>1, <4>1 DEF Sole
      <4>2. CASE link'[q].item # i
            BY <2>3, <2>10, <3>1, <4>2 DEF LivesInv, OneHolder, Sole
      <4> QED
          BY <4>1, <4>2
    <3>2. ASSUME NEW a \in Attempts, NEW b \in Attempts, att[a].item = att[b].item, att[a].item \in Items,
                 ~item'[att[a].item].shared
          PROVE  a = b
      <4>1. CASE att[a].item = i
            BY <2>7, <2>8, <3>2, <4>1 DEF Sole
      <4>2. CASE att[a].item # i
            BY <2>3, <3>2, <4>2 DEF LivesInv, OneHolder, Sole
      <4> QED
          BY <4>1, <4>2
    <3> QED
        BY <1>0, <3>1, <3>2 DEF OneHolder, Sole
  <2>13. Noted'
    <3>1. ASSUME NEW q \in Links, link'[q].pc \in Holding PROVE att[link'[q].att].item = link'[q].item
          BY <2>4, <2>6, <3>1 DEF LivesInv, Noted, Holding
    <3>2. ASSUME NEW q \in Links, link'[q].pc \in {"token", "undo"}, link'[q].item \in Items,
                 ~item'[link'[q].item].shared, NEW a \in Attempts
          PROVE  att[a].item # link'[q].item
      <4>1. CASE link'[q].item = i
            BY <2>7, <2>8, <3>2, <4>1 DEF Sole
      <4>2. CASE link'[q].item # i
            BY <2>3, <2>10, <3>2, <4>2 DEF LivesInv, Noted, Sole
      <4> QED
          BY <4>1, <4>2
    <3> QED
        BY <1>0, <3>1, <3>2 DEF Noted, Sole
  <2>14. Unconnected'
    <3>1. ASSUME NEW q \in Links, link'[q].pc \in Holding, link'[q].item \in Items, ~item'[link'[q].item].shared
          PROVE  conn[link'[q].item].st = "none"
      <4>1. CASE link'[q].item = i
            BY <2>7, <2>8, <3>1, <4>1 DEF Sole
      <4>2. CASE link'[q].item # i
        <5>1. link'[q] = link[q]
              BY <2>10, <3>1, <4>2
        <5> QED
            BY <2>3, <3>1, <4>2, <5>1 DEF LivesInv, Unconnected, Sole
      <4> QED
          BY <4>1, <4>2
    <3> QED
        BY <1>0, <3>1 DEF LivesInv, Unconnected, Sole
  <2>15. Awaited'
    <3> SUFFICES ASSUME NEW q \in Links, link'[q].pc \in Holding \cup {"token"}, link'[q].item \in Items,
                        ~item'[link'[q].item].shared, ~item'[link'[q].item].doubt
                 PROVE  \/ item'[link'[q].item].life = "alive"
                        \/ link'[q].pc # "token" /\ (att[link'[q].att].st = "reaped"
                             \/ \E w \in Reapers : reap[w].cur = link'[q].att /\ reap[w].out = "done")
        BY <1>0 DEF Awaited, Sole, Taken
    <3>1. CASE link'[q].item = i
          BY <2>1, <2>3, <3>1
    <3>2. CASE link'[q].item # i
      <4>1. link'[q] = link[q]
            BY <2>10, <3>2
      <4> QED
          BY <2>3, <3>2, <4>1 DEF LivesInv, Awaited, Sole, Taken
    <3> QED
        BY <3>1, <3>2
  <2>16. ActiveItemLives'
    <3>1. ASSUME NEW j \in Items, j # i PROVE item'[j] = item[j]
          BY <2>3, <3>1
    <3> QED
        BY <1>0, <2>1, <2>3, <3>1 DEF LivesInv, ActiveItemLives
  <2> QED
      BY <2>12, <2>13, <2>14, <2>15, <2>16 DEF LivesInv
<1>3. \/ EndLink(r) /\ UNCHANGED item
      \/ \E i \in Items : /\ Exchangeable(i) /\ item' = Exchanged(i)
                          /\ \/ link' = [link EXCEPT ![r].pc = "token", ![r].item = i]
                             \/ EndLink(r)
      BY DEF Exchange, Outcome
<1> QED
    BY <1>1, <1>2, <1>3

LEMMA RecordLives ==
  ASSUME LinkAssumption, SagaInv, SagaInv', LivesInv, NEW r \in Links, RecordLinkExchange(r)
  PROVE  LivesInv'
<1> DEFINE a == link[r].att
           i == link[r].item
           b == [att[a] EXCEPT !.st = "exchanged", !.item = i, !.sealed = TRUE]
           n == [link[r] EXCEPT !.pc = "recorded"]
<1>0. /\ link \in [Links -> LinkRun] /\ link[r] \in LinkRun /\ att \in [Attempts -> Attempt]
      /\ UNCHANGED <<conn, item, unlink, reap>> /\ link[r].pc = "token" /\ a \in Attempts /\ i \in Items
      /\ att[a] \in Attempt
      BY Rows DEF SagaInv, LinksOK, AttsOK, RecordLinkExchange, AtLink
<1>1. \/ GotoLink(r, "recorded") /\ att' = att /\ att[a].item = i
      \/ GotoLink(r, "recorded") /\ att' = [att EXCEPT ![a] = b] /\ att[a].st = "initiated"
      \/ GotoLink(r, "undo") /\ att' = att
      BY <1>0 DEF RecordLinkExchange
<1>2. CASE GotoLink(r, "undo") /\ att' = att
  <2>1. \A q \in Links : Onward(link[q], link'[q])
        BY <1>0, <1>2, Going
  <2>2. Quiet
        BY <1>0, <1>2, <2>1 DEF Quiet
  <2> QED
      BY <2>2, QuietKeeps
<1>3. CASE GotoLink(r, "recorded") /\ \/ att' = att /\ att[a].item = i
                                      \/ att' = [att EXCEPT ![a] = b] /\ att[a].st = "initiated"
  <2>1. n.pc = "recorded" /\ n.item = i /\ n.att = a /\ link' = [link EXCEPT ![r] = n]
        BY <1>0, <1>3 DEF LinkRun, GotoLink
  <2>2. b.item = i
        BY <1>0 DEF Attempt
  <2>3. att[a].st = "initiated" => att[a].item = None /\ None \notin Items
        BY <1>0, Rows
  <2> HIDE DEF n, b
  <2>4. link'[r] = n /\ \A q \in Links : q # r => link'[q] = link[q]
        BY <1>0, <2>1
  <2>5. att'[a].item = i /\ \A c \in Attempts : c # a => att'[c] = att[c]
        BY <1>0, <1>3, <2>2
  <2>6. \A q \in Links : link'[q].item = link[q].item
        BY <2>1, <2>4
  <2>7. \A c \in Attempts : att[c].item \in Items => att'[c].item = att[c].item
        BY <1>0, <1>3, <2>3, <2>5
  <2>8. Sole(i) => /\ \A c \in Attempts : att[c].item # i
                   /\ \A q \in Links : link[q].item = i => q = r
        BY <1>0 DEF LivesInv, Noted, OneHolder
  <2> HIDE DEF a, i
  <2>9. OneHolder'
    <3>1. ASSUME NEW c \in Attempts, NEW e \in Attempts, att'[c].item = att'[e].item, Sole(att'[c].item)
          PROVE  c = e
      <4>1. CASE att'[c].item = i
            BY <1>0, <2>5, <2>8, <3>1, <4>1
      <4>2. CASE att'[c].item # i
            BY <2>5, <3>1, <4>2 DEF LivesInv, OneHolder
      <4> QED
          BY <4>1, <4>2
    <3> QED
        BY <1>0, <2>6, <3>1 DEF OneHolder, LivesInv, Sole
  <2>10. Noted'
    <3>1. ASSUME NEW q \in Links, link'[q].pc \in Holding PROVE att'[link'[q].att].item = link'[q].item
      <4>1. CASE q = r
            BY <2>1, <2>4, <2>5, <4>1
      <4>2. CASE q # r
        <5>1. /\ link'[q] = link[q] /\ att[link[q].att].item = link[q].item
              /\ link[q].att \in Attempts /\ link[q].item \in Items
              BY <2>4, <3>1, <4>2, Rows DEF LivesInv, Noted, Holding
        <5> QED
            BY <2>7, <5>1
      <4> QED
          BY <4>1, <4>2
    <3>2. ASSUME NEW q \in Links, link'[q].pc \in {"token", "undo"}, Sole(link'[q].item), NEW c \in Attempts
          PROVE  att'[c].item # link'[q].item
      <4>1. q # r /\ link'[q] = link[q] /\ att[c].item # link[q].item
            BY <2>1, <2>4, <3>2 DEF LivesInv, Noted
      <4>2. link[q].item # i
            BY <2>8, <3>2, <4>1
      <4> QED
          BY <2>5, <4>1, <4>2
    <3> QED
        BY <1>0, <3>1, <3>2 DEF Noted, Sole
  <2>11. Unconnected'
    <3>1. ASSUME NEW q \in Links, link'[q].pc \in Holding, Sole(link'[q].item) PROVE conn[link'[q].item].st = "none"
      <4>1. CASE q = r
        <5>1. Sole(i) /\ link'[q].item = i
              BY <2>1, <2>4, <3>1, <4>1
        <5>2. conn[i].by = None
              BY <1>0, <2>8, <5>1, Rows
        <5> QED
            BY <1>0, <5>1, <5>2 DEF LivesInv, Unconnected
      <4>2. CASE q # r
            BY <2>4, <3>1, <4>2 DEF LivesInv, Unconnected
      <4> QED
          BY <4>1, <4>2
    <3> QED
        BY <1>0, <3>1 DEF LivesInv, Unconnected, Sole
  <2>12. Awaited'
    <3> SUFFICES ASSUME NEW q \in Links, link'[q].pc \in Holding \cup {"token"}, Sole(link'[q].item),
                        ~item[link'[q].item].doubt, item[link'[q].item].life # "alive"
                 PROVE  link'[q].pc # "token" /\ (att'[link'[q].att].st = "reaped"
                             \/ \E w \in Reapers : reap[w].cur = link'[q].att /\ reap[w].out = "done")
        BY <1>0 DEF Awaited, Sole, Taken
    <3>1. q # r
          BY <1>0, <2>1, <2>4 DEF LivesInv, Awaited, a, i
    <3>2. link'[q] = link[q] /\ link[q].pc # "token" /\ Taken(link[q].att)
          BY <2>4, <3>1 DEF LivesInv, Awaited
    <3>3. att[link[q].att].st = "reaped" => att'[link[q].att].st = "reaped"
      <4>1. link[q].att \in Attempts
            BY <3>2, Rows DEF Holding
      <4>2. att[a].st # "reaped" \/ att' = att
            BY <1>3 DEF a
      <4> QED
          BY <2>5, <4>1, <4>2
    <3> QED
        BY <3>2, <3>3 DEF Taken
  <2>13. ActiveItemLives'
         BY <1>0 DEF LivesInv, ActiveItemLives
  <2> QED
      BY <2>9, <2>10, <2>11, <2>12, <2>13 DEF LivesInv
<1> QED
    BY <1>1, <1>2, <1>3

LEMMA FinalizeLives ==
  ASSUME LinkAssumption, SagaInv, SagaInv', LivesInv, NEW r \in Links, FinalizeLink(r)
  PROVE  LivesInv'
<1> DEFINE a == link[r].att
           i == att[a].item
           b == [att[a] EXCEPT !.st = "succeeded", !.sealed = FALSE]
           f == [att[a] EXCEPT !.st = "failed"]
           c == [conn[i] EXCEPT !.st = "active", !.cred = TRUE, !.by = a]
<1>0. /\ link \in [Links -> LinkRun] /\ att \in [Attempts -> Attempt] /\ conn \in [Items -> Connection]
      /\ UNCHANGED <<item, unlink, reap>> /\ link[r].pc = "finalize" /\ a \in Attempts
      /\ link[r].item = i /\ i \in Items /\ att[a] \in Attempt
      BY Rows DEF SagaInv, LinksOK, AttsOK, ConnsOK, FinalizeLink, AtLink, LivesInv, Noted, Holding
<1>1. \/ EndLink(r) /\ conn' = conn /\ (att' = att \/ (att' = [att EXCEPT ![a] = f] /\ att[a].st = "exchanged"))
      \/ FailWith(r, FALSE) /\ UNCHANGED <<att, conn>>
      \/ /\ att[a].st = "exchanged" /\ conn[i].st = "none" /\ conn' = [conn EXCEPT ![i] = c]
         /\ att' = [att EXCEPT ![a] = b] /\ EndLink(r)
      BY <1>0 DEF FinalizeLink
<1>2. b.item = i /\ f.item = i /\ c.st = "active" /\ c.by = a
      BY <1>0 DEF Attempt, Connection
<1> HIDE DEF b, c, f
<1>3. CASE \/ EndLink(r) /\ conn' = conn /\ (att' = att \/ (att' = [att EXCEPT ![a] = f] /\ att[a].st = "exchanged"))
           \/ FailWith(r, FALSE) /\ UNCHANGED <<att, conn>>
  <2>1. \A q \in Links : Onward(link[q], link'[q])
        BY <1>3, Ending, Failing
  <2>2. \A e \in Attempts : att'[e].item = att[e].item /\ (att[e].st = "reaped" => att'[e].st = "reaped")
        BY <1>0, <1>2, <1>3
  <2>3. Quiet
        BY <1>0, <1>3, <2>1, <2>2 DEF Quiet
  <2> QED
      BY <2>3, QuietKeeps
<1>4. CASE /\ att[a].st = "exchanged" /\ conn[i].st = "none" /\ conn' = [conn EXCEPT ![i] = c]
           /\ att' = [att EXCEPT ![a] = b] /\ EndLink(r)
  <2>1. \A e \in Attempts : att'[e].item = att[e].item /\ (att[e].st = "reaped" => att'[e].st = "reaped")
        BY <1>0, <1>2, <1>4
  <2>2. \A q \in Links : (q = r /\ link'[q].item = None /\ link'[q].pc = "idle") \/ (q # r /\ link'[q] = link[q])
        BY <1>4, Ending
  <2>3. conn'[i] = c /\ \A j \in Items : j # i => conn'[j] = conn[j]
        BY <1>0, <1>4
  <2>4. None \notin Items /\ None \notin Attempts
        BY Rows
  <2>5. Sole(i) => \A q \in Links : link[q].item = i => q = r
        BY <1>0 DEF LivesInv, OneHolder
  <2>6. ~item[i].shared /\ ~item[i].doubt => item[i].life = "alive"
    <3>1. \A w \in Reapers : reap[w].cur # None => att[reap[w].cur].st = "reaping"
          BY Rows
    <3>2. ~Taken(a)
          BY <1>0, <1>4, <2>4, <3>1 DEF Taken
    <3> QED
        BY <1>0, <3>2 DEF LivesInv, Awaited, Sole, Holding
  <2> HIDE DEF i, a
  <2>7. OneHolder'
        BY <1>0, <2>1, <2>2, <2>4 DEF OneHolder, LivesInv, Sole
  <2>8. Noted'
    <3>1. ASSUME NEW q \in Links, link'[q].pc \in Holding PROVE att'[link'[q].att].item = link'[q].item
          BY <2>1, <2>2, <3>1, Rows DEF LivesInv, Noted, Holding
    <3>2. ASSUME NEW q \in Links, link'[q].pc \in {"token", "undo"}, Sole(link'[q].item), NEW e \in Attempts
          PROVE  att'[e].item # link'[q].item
          BY <2>1, <2>2, <3>2 DEF LivesInv, Noted
    <3> QED
        BY <1>0, <3>1, <3>2 DEF Noted, Sole
  <2>9. Unconnected'
    <3>1. ASSUME NEW q \in Links, link'[q].pc \in Holding, Sole(link'[q].item) PROVE conn'[link'[q].item].st = "none"
      <4>1. q # r /\ link'[q] = link[q] /\ link[q].item \in Items
            BY <2>2, <3>1 DEF Holding, Sole
      <4>2. link[q].item # i
            BY <2>5, <3>1, <4>1
      <4> QED
          BY <2>3, <3>1, <4>1, <4>2 DEF LivesInv, Unconnected
    <3>2. ASSUME NEW d \in Unlinks, unlink[d].pc # "idle"
          PROVE  conn'[unlink[d].item].st \in {"disconnecting", "disconnected"}
      <4>1. unlink[d].item \in Items /\ conn[unlink[d].item].st \in {"disconnecting", "disconnected"}
            BY <3>2, Rows DEF LivesInv, Unconnected
      <4>2. unlink[d].item # i
            BY <1>4, <4>1 DEF i, a
      <4> QED
          BY <2>3, <4>1, <4>2
    <3>3. \A j \in Items : conn'[j].st # "none" => conn'[j].by # None
          BY <1>0, <1>2, <2>3, <2>4 DEF LivesInv, Unconnected
    <3> QED
        BY <1>0, <3>1, <3>2, <3>3 DEF Unconnected, Sole
  <2>10. Awaited'
    <3> SUFFICES ASSUME NEW q \in Links, link'[q].pc \in Holding \cup {"token"}, Sole(link'[q].item),
                        ~item[link'[q].item].doubt, item[link'[q].item].life # "alive"
                 PROVE  link'[q].pc # "token" /\ (att'[link'[q].att].st = "reaped"
                             \/ \E w \in Reapers : reap[w].cur = link'[q].att /\ reap[w].out = "done")
        BY <1>0 DEF Awaited, Sole, Taken
    <3>1. link'[q] = link[q] /\ link[q].pc # "token" /\ Taken(link[q].att) /\ link[q].att \in Attempts
          BY <2>2, Rows DEF LivesInv, Awaited, Holding
    <3> QED
        BY <2>1, <3>1 DEF Taken
  <2>11. ActiveItemLives'
         BY <1>0, <2>3, <2>6 DEF LivesInv, ActiveItemLives
  <2> QED
      BY <2>7, <2>8, <2>9, <2>10, <2>11 DEF LivesInv
<1> QED
    BY <1>1, <1>3, <1>4

LEMMA LivesNext == LinkAssumption /\ SagaInv /\ SagaInv' /\ LivesInv /\ [Next]_vars => LivesInv'
<1> SUFFICES ASSUME LinkAssumption, SagaInv, SagaInv', LivesInv, [Next]_vars
             PROVE  LivesInv'
    OBVIOUS
<1>1. CASE NewDay \/ UNCHANGED vars
  <2>1. UNCHANGED <<att, conn, item, link, unlink, reap>>
        BY <1>1 DEF NewDay, vars
  <2>2. Quiet
        BY <2>1 DEF Quiet, Onward
  <2> QED
      BY <2>2, QuietKeeps
<1>2. ASSUME NEW a \in Attempts, Expire(a) PROVE LivesInv'
  <2> DEFINE b == [att[a] EXCEPT !.expired = TRUE]
  <2>1. att \in [Attempts -> Attempt] /\ att' = [att EXCEPT ![a] = b] /\ UNCHANGED <<conn, item, link, unlink, reap>>
        BY <1>2 DEF Expire, SagaInv, AttsOK
  <2>2. b.item = att[a].item /\ b.st = att[a].st
        BY <2>1 DEF Attempt
  <2> HIDE DEF b
  <2>3. \A c \in Attempts : att'[c].item = att[c].item /\ att'[c].st = att[c].st
        BY <2>1, <2>2
  <2>4. Quiet
        BY <2>1, <2>3 DEF Quiet, Onward
  <2> QED
      BY <2>4, QuietKeeps
<1>3. ASSUME NEW r \in Links,
             (\E a \in Attempts : BeginLink(r, a)) \/ LinkStep(r) \/ EncryptFails(r) \/ LinkCrash(r)
      PROVE  LivesInv'
      BY <1>3, RequestQuiet, QuietKeeps, ExchangeLives, RecordLives, FinalizeLives DEF LinkStep
<1>4. ASSUME NEW w \in Reapers, ReapClaim(w) \/ ReapStep(w) \/ ReapCrash(w)
      PROVE  LivesInv'
      BY <1>4, ReaperQuiet, QuietKeeps DEF ReapStep
<1>5. ASSUME NEW d \in Unlinks, (\E i \in Items : DisconnectBegin(d, i)) \/ UnlinkStep(d) \/ UnlinkCrash(d)
      PROVE  LivesInv'
      BY <1>5, UnlinkQuiet, QuietKeeps DEF UnlinkStep
<1> QED
    BY <1>1, <1>2, <1>3, <1>4, <1>5 DEF Next

(* A connection in use loses its item only where two links exchanged it, or   *)
(* where the answer of a removal was lost.                                    *)
THEOREM UsedItemLives == Spec => []ActiveItemLives
<1>1. LinkAssumption /\ Init => LivesInv
  <2> SUFFICES ASSUME LinkAssumption, Init PROVE LivesInv
      OBVIOUS
  <2>1. /\ \A r \in Links : link[r].pc = "idle" /\ link[r].item = None
        /\ \A a \in Attempts : att[a].item = None
        /\ \A i \in Items : conn[i].st = "none"
        /\ \A d \in Unlinks : unlink[d].pc = "idle"
        /\ None \notin Items
        BY DEF Init, NoLink, NoUnlink, LinkAssumption
  <2> QED
      BY <2>1 DEF LivesInv, OneHolder, Noted, Unconnected, Awaited, ActiveItemLives, Sole, Holding
<1>2. LivesInv => ActiveItemLives
      BY DEF LivesInv
<1> QED
    BY <1>1, <1>2, LivesNext, SagaKept, LinkAssumption, PTL DEF Spec
=============================================================================
