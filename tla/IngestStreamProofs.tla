------------------------- MODULE IngestStreamProofs -------------------------
(***************************************************************************)
(* When every window reaches the provider's end and no posted id is in turn *)
(* pending for another (Settling), a purchase keeps its economic key and    *)
(* counts once, the book that moves the cursor shows what the provider      *)
(* lists, with its latest word on it unless an attempt died, and a window   *)
(* planned again leads to nothing: for any ids, any feed, any window and    *)
(* any attempts that die between two actions.                               *)
(*                                                                         *)
(* The argument has three parts.  A batch is folded from its last event     *)
(* (FoldStep), so a plan is known event by event: Planned says which action *)
(* each event of a window leads to, and that no two act on one key.  Those  *)
(* actions stand (ActOK) until they are applied, in whatever state the ones *)
(* before them leave the book (Applying).  The book in turn is right about  *)
(* every id it knows at every step (BookOK), also after an attempt died     *)
(* half way, which is why the next plan finds nothing it cannot finish.     *)
(***************************************************************************)
EXTENDS IngestStream, FiniteSetTheorems, FunctionTheorems, WellFoundedInduction, SequenceTheorems, TLAPS

-----------------------------------------------------------------------------
(* A batch, by least counterexample in the inclusion of finite sets. *)

LEMMA LeastSet ==
  ASSUME NEW S, IsFiniteSet(S), NEW T, T \subseteq SUBSET S, T # {}
  PROVE  \E x \in T : \A y \in T : y \subseteq x => y = x
<1> DEFINE R == StrictSubsetOrdering(S)
           F == FiniteSubsetsOf(S)
<1>1. IsWellFoundedOn(R, F)
  BY FS_StrictSubsetOrderingWellFounded
<1>2. \A x \in SUBSET S : x \in F
  BY FS_Subset DEF FiniteSubsetsOf
<1>3. PICK x \in T : \A y \in T : <<y, x>> \notin R
  <2>1. T \subseteq F
    BY <1>2
  <2>2. T # {}
    OBVIOUS
  <2> HIDE DEF R, F
  <2> QED
    BY <1>1, <2>1, <2>2, WFMin, Zenon
<1>4. ASSUME NEW y \in T, y \subseteq x, y # x PROVE <<y, x>> \in R
  BY <1>4 DEF StrictSubsetOrdering
<1> HIDE DEF R, F
<1>5. ASSUME NEW y \in T, y \subseteq x PROVE y = x
  BY <1>3, <1>4, <1>5
<1> QED
  BY <1>5

(* The events of a batch: finitely many, with the numbers that order their ids. *)
Batch(S) == IsFiniteSet(S) /\ \A e \in S : e.id \in Nat

(* A part of a batch is a batch. *)
LEMMA SubBatch ==
  ASSUME NEW S, Batch(S), NEW T \in SUBSET S
  PROVE  Batch(T)
BY FS_Subset DEF Batch

(* A batch has a last event. *)
LEMMA LastIn ==
  ASSUME NEW S, Batch(S), S # {}
  PROVE  LastOf(S) \in S
<1> DEFINE Bad == {s \in SUBSET S : s # {} /\ ~ \E e \in s : \A f \in s : f.id <= e.id}
<1>1. ASSUME Bad # {} PROVE FALSE
  <2>1. PICK s \in Bad : \A y \in Bad : y \subseteq s => y = s
    <3>1. Bad \subseteq SUBSET S
      OBVIOUS
    <3> HIDE DEF Bad
    <3> QED
      BY <1>1, <3>1, LeastSet DEF Batch
  <2>2. PICK x \in s : TRUE
    OBVIOUS
  <2>3. s \ {x} # {}
    BY <2>2 DEF Batch
  <2>4. s \ {x} \notin Bad
    BY <2>1, <2>2
  <2>5. PICK e \in s \ {x} : \A f \in s \ {x} : f.id <= e.id
    BY <2>3, <2>4
  <2>6. \A f \in s : f.id <= (IF x.id <= e.id THEN e ELSE x).id
    BY <2>5 DEF Batch
  <2> QED
    BY <2>2, <2>5, <2>6
<1>2. \E e \in S : \A f \in S : f.id <= e.id
  BY <1>1
<1> QED
  BY <1>2 DEF LastOf

FoldOf(plan, S, g) ==
  g = [s \in SUBSET S |-> IF s = {} THEN plan ELSE PlanEvent(g[s \ {LastOf(s)}], LastOf(s))]

LEMMA FoldDef ==
  ASSUME NEW plan, NEW S
  PROVE  FoldEvents(plan, S) = (CHOOSE g : FoldOf(plan, S, g))[S]
BY DEF FoldEvents, MapThenFoldSet, FoldOf

LEMMA FoldsOnce ==
  ASSUME NEW plan, NEW S, NEW T, Batch(S), NEW g, NEW h, FoldOf(plan, S, g), FoldOf(plan, T, h)
  PROVE  \A s \in SUBSET S : s \in SUBSET T => g[s] = h[s]
<1> DEFINE Bad == {s \in SUBSET S : s \in SUBSET T /\ g[s] # h[s]}
<1> SUFFICES ASSUME Bad # {} PROVE FALSE
  OBVIOUS
<1>1. PICK s \in Bad : \A y \in Bad : y \subseteq s => y = s
  <2>1. Bad \subseteq SUBSET S
    OBVIOUS
  <2> HIDE DEF Bad
  <2> QED
    BY <2>1, LeastSet DEF Batch
<1>2. /\ g[s] = IF s = {} THEN plan ELSE PlanEvent(g[s \ {LastOf(s)}], LastOf(s))
      /\ h[s] = IF s = {} THEN plan ELSE PlanEvent(h[s \ {LastOf(s)}], LastOf(s))
  BY Zenon DEF FoldOf
<1>3. s # {}
  BY <1>2
<1>4. LastOf(s) \in s
  BY <1>3, LastIn, SubBatch
<1>5. g[s \ {LastOf(s)}] # h[s \ {LastOf(s)}]
  BY <1>2, <1>3
<1>6. s \ {LastOf(s)} \in Bad
  BY <1>5
<1> QED
  BY <1>1, <1>4, <1>6

LEMMA FoldsSome ==
  ASSUME NEW plan, NEW S, Batch(S)
  PROVE  \E g : FoldOf(plan, S, g)
<1> DEFINE Bad == {s \in SUBSET S : ~ \E g : FoldOf(plan, s, g)}
<1> SUFFICES ASSUME Bad # {} PROVE FALSE
  OBVIOUS
<1>1. PICK T \in Bad : \A y \in Bad : y \subseteq T => y = T
  <2>1. Bad \subseteq SUBSET S
    OBVIOUS
  <2> HIDE DEF Bad
  <2> QED
    BY <2>1, LeastSet DEF Batch
<1> DEFINE val(s) == (CHOOSE g : FoldOf(plan, s, g))[s]
           next(s) == IF s = {} THEN plan ELSE PlanEvent(val(s \ {LastOf(s)}), LastOf(s))
           G == [s \in SUBSET T |-> next(s)]
<1>2. ASSUME NEW s \in SUBSET T, s # T PROVE FoldOf(plan, s, CHOOSE g : FoldOf(plan, s, g))
  <2>1. s \notin Bad
    BY <1>1, <1>2
  <2>2. \E g : FoldOf(plan, s, g)
    BY <2>1
  <2> QED
    BY <2>2
<1>3. ASSUME NEW s \in SUBSET T, s # T PROVE val(s) = next(s)
  <2> DEFINE g == CHOOSE g : FoldOf(plan, s, g)
  <2>1. FoldOf(plan, s, g)
    BY <1>2, <1>3
  <2> HIDE DEF g
  <2>2. g[s] = IF s = {} THEN plan ELSE PlanEvent(g[s \ {LastOf(s)}], LastOf(s))
    BY <2>1, Zenon DEF FoldOf
  <2>3. CASE s # {}
    <3> DEFINE u == s \ {LastOf(s)}
               h == CHOOSE h : FoldOf(plan, u, h)
    <3>1. LastOf(s) \in s
      BY <2>3, LastIn, SubBatch
    <3>2. u \in SUBSET T /\ u # T /\ u \in SUBSET s
      BY <3>1
    <3>3. FoldOf(plan, u, h)
      BY <1>2, <3>2
    <3>4. Batch(s)
      BY SubBatch
    <3> HIDE DEF h
    <3>5. \A r \in SUBSET u : g[r] = h[r]
      <4> HIDE DEF u
      <4> QED
        BY <2>1, <3>2, <3>3, <3>4, FoldsOnce
    <3>6. u \in SUBSET u
      OBVIOUS
    <3>7. g[u] = h[u]
      BY <3>5, <3>6, Zenon
    <3> QED
      BY <2>2, <2>3, <3>7 DEF g, h
  <2> QED
    BY <2>2, <2>3 DEF g
<1>4. ASSUME NEW s \in SUBSET T
      PROVE  G[s] = IF s = {} THEN plan ELSE PlanEvent(G[s \ {LastOf(s)}], LastOf(s))
  <2>1. CASE s # {}
    <3> DEFINE u == s \ {LastOf(s)}
    <3>1. LastOf(s) \in s
      BY <2>1, LastIn, SubBatch
    <3>2. u \in SUBSET T /\ u # T
      BY <3>1
    <3>3. val(u) = next(u)
      BY <1>3, <3>2
    <3>4. G[u] = next(u) /\ G[s] = next(s)
      BY <3>2
    <3>5. next(s) = PlanEvent(val(u), LastOf(s))
      BY <2>1
    <3> QED
      BY <2>1, <3>3, <3>4, <3>5
  <2> QED
    BY <2>1
<1>5. G = [s \in SUBSET T |-> IF s = {} THEN plan ELSE PlanEvent(G[s \ {LastOf(s)}], LastOf(s))]
  <2>1. G = [s \in SUBSET T |-> G[s]]
    OBVIOUS
  <2> HIDE DEF G
  <2> QED
    BY <1>4, <2>1
<1> QED
  BY <1>5 DEF FoldOf

(* The last event of a batch is planned after the others. *)
LEMMA FoldStep ==
  ASSUME NEW plan, NEW S, Batch(S)
  PROVE  /\ S = {} => FoldEvents(plan, S) = plan
         /\ S # {} => FoldEvents(plan, S) = PlanEvent(FoldEvents(plan, S \ {LastOf(S)}), LastOf(S))
<1>1. PICK g : FoldOf(plan, S, g)
  BY FoldsSome
<1>2. g[S] = IF S = {} THEN plan ELSE PlanEvent(g[S \ {LastOf(S)}], LastOf(S))
  BY <1>1, Zenon DEF FoldOf
<1>3. ASSUME NEW T \in SUBSET S PROVE FoldEvents(plan, T) = g[T]
  <2>1. Batch(T) /\ FoldOf(plan, T, CHOOSE h : FoldOf(plan, T, h))
    BY FoldsSome, SubBatch
  <2> DEFINE k == CHOOSE h : FoldOf(plan, T, h)
  <2> HIDE DEF k
  <2>2. k[T] = g[T]
    <3>1. FoldOf(plan, T, k)
      BY <2>1 DEF k
    <3>2. \A s \in SUBSET S : s \in SUBSET T => g[s] = k[s]
      BY <1>1, <3>1, FoldsOnce
    <3> QED
      BY <3>2
  <2>3. \A p, U : FoldEvents(p, U) = (CHOOSE h : FoldOf(p, U, h))[U]
    BY FoldDef
  <2> QED
    BY <2>2, <2>3 DEF k
<1>4. S # {} => S \ {LastOf(S)} \in SUBSET S
  OBVIOUS
<1>5. FoldEvents(plan, S) = g[S] /\ FoldEvents(plan, S \ {LastOf(S)}) = g[S \ {LastOf(S)}]
  BY <1>3
<1> QED
  BY <1>2, <1>5

-----------------------------------------------------------------------------
(* The provider's updates. *)

Update == [id : Ids, op : {"add", "mod", "rem"}]

(* An id is added first and removed last, and a posted id is added with the   *)
(* removal of the pending one it settles, which settles nothing else.         *)
FeedOK ==
  /\ feed \in Seq(Update)
  /\ \A i, j \in 1 .. Len(feed) :
       feed[i].id = feed[j].id /\ i < j => feed[i].op # "rem" /\ feed[j].op # "add"
  /\ \A j \in 1 .. Len(feed) : \E i \in 1 .. j : feed[i] = [id |-> feed[j].id, op |-> "add"]
  /\ \A i \in 1 .. Len(feed) :
       feed[i].op = "add" /\ PendingOf[feed[i].id] # None =>
         \E j \in 1 .. Len(feed) : feed[j] = [id |-> PendingOf[feed[i].id], op |-> "rem"]
  /\ \A i, j \in 1 .. Len(feed) :
       /\ feed[i].op = "add" /\ feed[j].op = "add"
       /\ PendingOf[feed[i].id] # None /\ PendingOf[feed[i].id] = PendingOf[feed[j].id]
       => i = j

(* A window that ends at n separates no posted id from its pending one.       *)
Cut(n) ==
  \A i, j \in 1 .. Len(feed) :
    feed[i].op = "add" /\ feed[j] = [id |-> PendingOf[feed[i].id], op |-> "rem"]
      => (i <= n <=> j <= n)

Added(t, n) == Happened("add", t, 0, n)
Gone(t, n) == Happened("rem", t, 0, n)

(* What an update is made of. *)
LEMMA UpdateIs ==
  ASSUME FeedOK
  PROVE  /\ Len(feed) \in Nat
         /\ \A i \in 1 .. Len(feed) : /\ feed[i].id \in Ids /\ feed[i].op \in {"add", "mod", "rem"}
                                     /\ feed[i] = [id |-> feed[i].id, op |-> feed[i].op]
<1>1. feed \in Seq(Update)
  BY DEF FeedOK
<1>2. Len(feed) \in Nat /\ \A i \in 1 .. Len(feed) : feed[i] \in Update
  BY <1>1
<1> QED
  BY <1>2 DEF Update

(* Happened, over the positions of the feed. *)
LEMMA HappenedIn ==
  ASSUME FeedOK, NEW op, NEW t, NEW lo \in Nat, NEW hi \in Nat, hi <= Len(feed)
  PROVE  Happened(op, t, lo, hi) <=>
           \E i \in 1 .. Len(feed) : lo < i /\ i <= hi /\ feed[i].id = t /\ feed[i].op = op
<1>1. ASSUME NEW i \in 1 .. Len(feed)
      PROVE  feed[i] = [id |-> t, op |-> op] <=> feed[i].id = t /\ feed[i].op = op
  BY UpdateIs
<1>2. Len(feed) \in Nat
  BY UpdateIs
<1>3. \A i : i \in lo + 1 .. hi <=> i \in 1 .. Len(feed) /\ lo < i /\ i <= hi
  BY <1>2
<1> QED
  BY <1>1, <1>3 DEF Happened

(* What happened stays so, and an id that is gone was added. *)
LEMMA FeedOrder ==
  ASSUME FeedOK, NEW t, NEW lo \in Nat, NEW hi \in Nat, lo <= hi, hi <= Len(feed)
  PROVE  /\ Added(t, lo) => Added(t, hi)
         /\ Gone(t, lo) => Gone(t, hi)
         /\ Gone(t, hi) => Added(t, hi)
         /\ Added(t, hi) => t \in Ids
<1>1. Len(feed) \in Nat /\ lo <= Len(feed)
  BY UpdateIs
<1>2. /\ \A op : Happened(op, t, 0, lo) <=>
                  \E i \in 1 .. Len(feed) : i <= lo /\ feed[i].id = t /\ feed[i].op = op
      /\ \A op : Happened(op, t, 0, hi) <=>
                  \E i \in 1 .. Len(feed) : i <= hi /\ feed[i].id = t /\ feed[i].op = op
  BY <1>1, HappenedIn
<1>3. Gone(t, hi) => Added(t, hi)
  <2>1. ASSUME NEW i \in 1 .. Len(feed), i <= hi, feed[i].id = t
        PROVE  \E j \in 1 .. Len(feed) : j <= hi /\ feed[j].id = t /\ feed[j].op = "add"
    <3>1. PICK j \in 1 .. i : feed[j] = [id |-> t, op |-> "add"]
      BY <2>1 DEF FeedOK
    <3>2. j \in 1 .. Len(feed) /\ j <= hi /\ feed[j].id = t /\ feed[j].op = "add"
      BY <1>1, <2>1, <3>1
    <3> QED
      BY <3>2
  <2> QED
    BY <1>2, <2>1 DEF Gone, Added
<1>4. \A i \in 1 .. Len(feed) : feed[i].id \in Ids
  BY UpdateIs
<1> QED
  BY <1>1, <1>2, <1>3, <1>4 DEF Added, Gone

(* A posted id that a cut window contains comes with the end of its pending   *)
(* one, and settles it alone.                                                 *)
LEMMA CutPair ==
  ASSUME IngestAssumption, FeedOK, NEW n \in Nat, n <= Len(feed), Cut(n), NEW q, NEW p, p \in Ids,
         q \in Ids, PendingOf[q] = p
  PROVE  /\ Added(q, n) => Gone(p, n)
         /\ Gone(p, n) /\ Added(q, Len(feed)) => Added(q, n)
<1>1. Len(feed) \in Nat
  BY UpdateIs
<1>2. \A op, t : /\ Happened(op, t, 0, n) <=>
                     \E i \in 1 .. Len(feed) : i <= n /\ feed[i].id = t /\ feed[i].op = op
                 /\ Happened(op, t, 0, Len(feed)) <=>
                     \E i \in 1 .. Len(feed) : feed[i].id = t /\ feed[i].op = op
  BY <1>1, HappenedIn
<1>3. p # None
  BY DEF IngestAssumption
<1>4. ASSUME NEW i \in 1 .. Len(feed), feed[i].id = q, feed[i].op = "add"
      PROVE  \E j \in 1 .. Len(feed) : feed[j] = [id |-> p, op |-> "rem"]
  BY <1>3, <1>4 DEF FeedOK
<1>5. ASSUME NEW j \in 1 .. Len(feed), feed[j].id = p, feed[j].op = "rem"
      PROVE  feed[j] = [id |-> p, op |-> "rem"]
  BY <1>5, UpdateIs
<1>6. ASSUME NEW i \in 1 .. Len(feed), feed[i].id = q, feed[i].op = "add",
             NEW j \in 1 .. Len(feed), feed[j] = [id |-> p, op |-> "rem"]
      PROVE  i <= n <=> j <= n
  BY <1>6 DEF Cut
<1>7. \A j \in 1 .. Len(feed) : feed[j] = [id |-> p, op |-> "rem"] => feed[j].id = p /\ feed[j].op = "rem"
  OBVIOUS
<1> QED
  BY <1>2, <1>4, <1>5, <1>6, <1>7 DEF Added, Gone

(* No two posted ids settle one pending id. *)
LEMMA OneSettles ==
  ASSUME FeedOK, NEW n \in Nat, n <= Len(feed), NEW q, NEW u, Added(q, n), Added(u, n),
         PendingOf[q] # None, PendingOf[q] = PendingOf[u]
  PROVE  q = u
<1>1. PICK i \in 1 .. Len(feed) : feed[i].id = q /\ feed[i].op = "add"
  BY HappenedIn DEF Added
<1>2. PICK j \in 1 .. Len(feed) : feed[j].id = u /\ feed[j].op = "add"
  BY HappenedIn DEF Added
<1> QED
  BY <1>1, <1>2 DEF FeedOK

(* What a window says of an id. *)
LEMMA TouchedIs ==
  ASSUME FeedOK, NEW lo \in Nat, NEW hi \in Nat, lo <= hi, hi <= Len(feed), NEW t
  PROVE  /\ t \in Touched(lo, hi) => /\ t \in Ids /\ Added(t, hi) /\ ~Gone(t, lo)
                                     /\ Happened("rem", t, lo, hi) <=> Gone(t, hi)
                                     /\ Happened("add", t, lo, hi) <=> ~Added(t, lo)
         /\ Added(t, hi) /\ ~Added(t, lo) => t \in Touched(lo, hi)
         /\ Gone(t, hi) /\ ~Gone(t, lo) => t \in Touched(lo, hi)
         /\ t \notin Touched(lo, hi) => Changes(t, hi) = Changes(t, lo)
<1>1. Len(feed) \in Nat /\ lo <= Len(feed)
  BY UpdateIs
<1>2. /\ \A op : Happened(op, t, 0, lo) <=>
                  \E i \in 1 .. Len(feed) : i <= lo /\ feed[i].id = t /\ feed[i].op = op
      /\ \A op : Happened(op, t, 0, hi) <=>
                  \E i \in 1 .. Len(feed) : i <= hi /\ feed[i].id = t /\ feed[i].op = op
      /\ \A op : Happened(op, t, lo, hi) <=>
                  \E i \in 1 .. Len(feed) : lo < i /\ i <= hi /\ feed[i].id = t /\ feed[i].op = op
  BY <1>1, HappenedIn
<1>3. t \in Touched(lo, hi) <=> \E i \in 1 .. Len(feed) : lo < i /\ i <= hi /\ feed[i].id = t
  <2>1. \A i : i \in lo + 1 .. hi <=> i \in 1 .. Len(feed) /\ lo < i /\ i <= hi
    BY <1>1
  <2> QED
    BY <2>1 DEF Touched
<1>4. ASSUME NEW k \in 1 .. Len(feed), lo < k, k <= hi, feed[k].id = t
      PROVE  /\ t \in Ids /\ Added(t, hi) /\ ~Gone(t, lo)
             /\ Happened("rem", t, lo, hi) <=> Gone(t, hi)
             /\ Happened("add", t, lo, hi) <=> ~Added(t, lo)
  <2>1. t \in Ids
    BY <1>4, UpdateIs
  <2>2. PICK i \in 1 .. k : feed[i] = [id |-> t, op |-> "add"]
    BY <1>4 DEF FeedOK
  <2>3. i \in 1 .. Len(feed) /\ i <= hi /\ feed[i].id = t /\ feed[i].op = "add"
    BY <1>1, <1>4, <2>2
  <2>4. \A j \in 1 .. Len(feed) : feed[j].id = t /\ feed[j].op = "rem" => k <= j
    BY <1>4 DEF FeedOK
  <2>5. \A j \in 1 .. Len(feed) : feed[j].id = t /\ feed[j].op = "add" => j = i
    BY <2>3 DEF FeedOK
  <2>6. ~Gone(t, lo) /\ (Happened("rem", t, lo, hi) <=> Gone(t, hi))
    BY <1>2, <1>4, <2>4 DEF Gone
  <2>7. Added(t, hi) /\ (Happened("add", t, lo, hi) <=> ~Added(t, lo))
    BY <1>2, <2>3, <2>5 DEF Added
  <2> QED
    BY <2>1, <2>6, <2>7
<1>5. t \notin Touched(lo, hi) => Changes(t, hi) = Changes(t, lo)
  <2>1. ASSUME t \notin Touched(lo, hi), NEW i
        PROVE  i \in Changes(t, hi) <=> i \in Changes(t, lo)
    BY <1>1, <1>3, <2>1 DEF Changes
  <2>2. \A n : Changes(t, n) \subseteq 1 .. n
    BY DEF Changes
  <2> QED
    BY <2>1
<1>6. Added(t, hi) /\ ~Added(t, lo) => t \in Touched(lo, hi)
  BY <1>2, <1>3 DEF Added
<1>7. Gone(t, hi) /\ ~Gone(t, lo) => t \in Touched(lo, hi)
  BY <1>2, <1>3 DEF Gone
<1> QED
  BY <1>3, <1>4, <1>5, <1>6, <1>7

(* The latest change of an id exists. *)
LEMMA LastChangeIn ==
  ASSUME FeedOK, NEW n \in Nat, n <= Len(feed), NEW t, Added(t, n)
  PROVE  Changes(t, n) # {} /\ LastChange(t, n) \in Nat
<1> DEFINE C == Changes(t, n)
           from(i) == {j \in C : j >= i}
           T == {from(i) : i \in C}
<1>1. C \subseteq 1 .. n /\ IsFiniteSet(C)
  <2>1. IsFiniteSet(1 .. n) /\ C \in SUBSET (1 .. n)
    BY FS_Interval DEF Changes
  <2> HIDE DEF C
  <2> QED
    BY <2>1, FS_Subset
<1>2. PICK i \in 1 .. n : feed[i] = [id |-> t, op |-> "add"]
  BY DEF Added, Happened
<1>3. i \in C
  BY <1>2 DEF Changes
<1>4. PICK x \in T : \A y \in T : y \subseteq x => y = x
  <2>1. T \subseteq SUBSET C /\ T # {}
    BY <1>3
  <2>2. IsFiniteSet(C)
    BY <1>1
  <2> HIDE DEF T, C
  <2> QED
    BY <2>1, <2>2, LeastSet
<1>5. PICK m \in C : x = from(m)
  OBVIOUS
<1> HIDE DEF C
<1>6. \A j \in C : j <= m
  <2> SUFFICES ASSUME NEW j \in C, j > m PROVE FALSE
    BY <1>1
  <2>1. C \subseteq Nat /\ j \in Nat /\ m \in Nat
    BY <1>1
  <2>3. from(j) \subseteq from(m) /\ m \in from(m) /\ m \notin from(j)
    <3>1. \A k \in C : k >= j => k >= m
      BY <2>1
    <3>2. m >= m /\ ~(m >= j)
      BY <2>1
    <3> QED
      BY <3>1, <3>2
  <2>2. from(j) \in T
    OBVIOUS
  <2> QED
    BY <1>4, <1>5, <2>2, <2>3
<1>7. \E k \in C : \A j \in C : j <= k
  BY <1>6
<1>8. LastChange(t, n) \in C
  BY <1>7 DEF LastChange, C
<1> QED
  BY <1>1, <1>3, <1>8 DEF C

-----------------------------------------------------------------------------
(* The book. *)

(* A posted id is not in turn the pending one of another. *)
NoChains == \A q \in Ids : PendingOf[q] # None => PendingOf[PendingOf[q]] = None

StatusOf(t) == IF IsPending(t) THEN "pending" ELSE "posted"

(* The updates the book may know of. *)
End == IF att.pc = "idle" THEN Len(feed) ELSE att.upto

CutsOK ==
  /\ cursor \in Nat /\ End \in Nat /\ cursor <= End /\ End <= Len(feed)
  /\ Cut(cursor) /\ Cut(End)

(* A known id has the key of its own or that of the pending id it settles.    *)
Linked ==
  \A t \in Ids : link[t] # None =>
    txn[link[t]].status # "none" /\ link[t] \in {t, PendingOf[t]} /\ Added(t, End)

(* A known id that is still listed is what its transaction shows.             *)
Showing ==
  \A t \in Ids : link[t] # None /\ ~Gone(t, End) => link[t] \in Live /\ txn[link[t]].id = t

(* A live transaction shows an id that is known by it, and not gone for long. *)
Lively ==
  \A k \in Live : /\ txn[k].id \in Ids /\ link[txn[k].id] = k
                  /\ txn[k].status = StatusOf(txn[k].id) /\ ~Gone(txn[k].id, cursor)

BookOK ==
  /\ txn \in [Ids -> Record] /\ link \in [Ids -> Ids \cup {None}]
  /\ \A k \in Ids : txn[k].status # "none" => link[k] = k
  /\ Linked /\ Showing /\ Lively
  /\ \A t \in Ids : Added(t, cursor) /\ ~Gone(t, End) => link[t] # None
  /\ \A q \in Ids : link[q] = q /\ PendingOf[q] # None => link[PendingOf[q]] = None

AtWork ==
  IngestAssumption /\ NoChains /\ FeedOK /\ CutsOK /\ BookOK /\ att.pc \in {"plan", "apply"}

AtPlan == AtWork /\ Readable(Touched(cursor, att.upto))

-----------------------------------------------------------------------------
(* What a window leads to, event by event. *)

W == Touched(cursor, att.upto)   \* the ids the window touches
Ev(t) == Event(t, cursor, att.upto)
Events == Window(cursor, att.upto)

(* The key of an id: that of its transaction, or of the one it settles.       *)
KeyOf(t) ==
  IF link[t] # None THEN link[t]
  ELSE IF PendingOf[t] # None /\ link[PendingOf[t]] # None THEN PendingOf[t] ELSE t

Shows(k) == ViewOf(txn[k], k)

(* The events that are planned for what they say themselves. *)
Proper ==
  {e \in Events : e.kind # "removed" \/ \A p \in Paired(Events) : p.ref # e.id}

Due(e) ==
  IF link[e.id] = None THEN e.kind = "added"
  ELSE e.kind = "removed" \/ (e.kind = "modified" /\ Shows(link[e.id]) # ViewOf(e, link[e.id]))

ViewAfter(e) ==
  IF e.kind = "removed"
    THEN [key |-> KeyOf(e.id), id |-> Shows(KeyOf(e.id)).id, status |-> "voided",
          at |-> Shows(KeyOf(e.id)).at]
    ELSE ViewOf(e, KeyOf(e.id))

ActFor(e) ==
  LET v == ViewAfter(e)
  IN [kind |-> IF e.kind = "removed" THEN "void"
               ELSE IF link[v.key] = None THEN "create" ELSE "revise",
      key |-> v.key, id |-> v.id, status |-> v.status, at |-> v.at]

(* A plan that has seen these events. *)
Planned(plan, seen) ==
  /\ DOMAIN plan.state =
       {t \in W : link[t] # None \/ \E e \in seen : e.id = t /\ e.kind = "added"}
  /\ \A t \in DOMAIN plan.state :
       /\ \A e \in seen : Due(e) /\ KeyOf(e.id) = KeyOf(t) => plan.state[t] = ViewAfter(e)
       /\ (\A e \in seen : Due(e) => KeyOf(e.id) # KeyOf(t)) => plan.state[t] = Shows(KeyOf(t))
  /\ plan.acts \in Seq(Action)
  /\ \A i \in DOMAIN plan.acts : \E e \in seen : Due(e) /\ plan.acts[i] = ActFor(e)
  /\ \A e \in seen : Due(e) => \E i \in DOMAIN plan.acts : plan.acts[i] = ActFor(e)
  /\ \A i, j \in DOMAIN plan.acts : plan.acts[i].key = plan.acts[j].key => i = j

-----------------------------------------------------------------------------
(* Facts of a window *)

(* What the event of an id says, from the feed. *)
LEMMA EventIs ==
  ASSUME AtWork, NEW t \in W
  PROVE  /\ t \in Ids /\ Added(t, att.upto) /\ ~Gone(t, cursor) /\ Ev(t) \in Events
         /\ Ev(t).id = t /\ Ev(t).ref = PendingOf[t] /\ Ev(t).status = StatusOf(t)
         /\ Ev(t).kind \in {"added", "modified", "removed"}
         /\ Ev(t).kind = "removed" <=> Gone(t, att.upto)
         /\ Ev(t).kind = "added" <=> ~Gone(t, att.upto) /\ ~Added(t, cursor)
         /\ Ev(t).kind = "modified" <=> ~Gone(t, att.upto) /\ Added(t, cursor)
         /\ Ev(t).at = LastChange(t, att.upto) /\ Ev(t).at \in Nat
<1>1. /\ FeedOK /\ cursor \in Nat /\ att.upto \in Nat /\ cursor <= att.upto /\ att.upto <= Len(feed)
  BY DEF AtWork, CutsOK, End
<1>2. /\ t \in Ids /\ Added(t, att.upto) /\ ~Gone(t, cursor)
      /\ Happened("rem", t, cursor, att.upto) <=> Gone(t, att.upto)
      /\ Happened("add", t, cursor, att.upto) <=> ~Added(t, cursor)
  BY <1>1, TouchedIs DEF W
<1>3. Changes(t, att.upto) # {} /\ LastChange(t, att.upto) \in Nat
  BY <1>1, <1>2, LastChangeIn
<1>4. Ev(t) \in Events
  BY DEF Events, Window, Ev, W
<1>5. /\ Ev(t).id = t /\ Ev(t).ref = PendingOf[t] /\ Ev(t).status = StatusOf(t)
      /\ Ev(t).kind = IF Happened("rem", t, cursor, att.upto) THEN "removed"
                      ELSE IF Happened("add", t, cursor, att.upto) THEN "added" ELSE "modified"
      /\ Ev(t).at = IF Changes(t, att.upto) = {} THEN 0 ELSE LastChange(t, att.upto)
  BY DEF Ev, Event, StatusOf
<1> QED
  BY <1>2, <1>3, <1>4, <1>5

(* An event is that of its id. *)
LEMMA EventOf ==
  ASSUME AtWork, NEW e \in Events
  PROVE  e.id \in W /\ e = Ev(e.id)
<1>1. PICK t \in W : e = Ev(t)
  BY DEF Events, Window, Ev, W
<1> QED
  BY <1>1, EventIs

(* The pending id of an id that was added has gone; it settles that one only. *)
LEMMA Settles ==
  ASSUME AtWork, NEW q \in Ids, Added(q, att.upto), PendingOf[q] # None
  PROVE  /\ PendingOf[q] \in Ids /\ PendingOf[q] # q /\ Gone(PendingOf[q], att.upto)
         /\ PendingOf[PendingOf[q]] = None /\ IsPending(PendingOf[q])
         /\ ~Added(q, cursor) => PendingOf[q] \in W
         /\ PendingOf[q] \in W => ~Added(q, cursor)
         /\ \A u \in Ids : Added(u, att.upto) /\ PendingOf[u] = PendingOf[q] => u = q
<1> DEFINE p == PendingOf[q]
<1>1. /\ FeedOK /\ cursor \in Nat /\ att.upto \in Nat /\ cursor <= att.upto /\ att.upto <= Len(feed)
      /\ Cut(cursor) /\ Cut(att.upto) /\ cursor <= Len(feed) /\ Len(feed) \in Nat
  BY UpdateIs DEF AtWork, CutsOK, End
<1>2. p \in Ids /\ PendingOf[p] = None /\ p # q /\ IsPending(p)
  BY DEF AtWork, IngestAssumption, NoChains, IsPending
<1>3. Gone(p, att.upto)
  BY <1>1, <1>2, CutPair DEF AtWork
<1>4. Added(q, Len(feed))
  BY <1>1, FeedOrder
<1>5. Gone(p, cursor) <=> Added(q, cursor)
  BY <1>1, <1>2, <1>4, CutPair DEF AtWork
<1>6. p \in W <=> ~Gone(p, cursor)
  BY <1>1, <1>3, TouchedIs DEF W
<1>7. \A u \in Ids : Added(u, att.upto) /\ PendingOf[u] = p => u = q
  BY <1>1, OneSettles
<1> QED
  BY <1>2, <1>3, <1>5, <1>6, <1>7

(* The parts of the invariant, as facts about one id or one transaction. *)
LEMMA LinkIs ==
  ASSUME AtWork, NEW u \in Ids, link[u] # None
  PROVE  /\ link[u] \in Ids /\ link[link[u]] = link[u] /\ link[u] \in {u, PendingOf[u]}
         /\ txn[link[u]].status # "none" /\ Added(u, att.upto)
         /\ ~Gone(u, att.upto) => link[u] \in Live /\ txn[link[u]].id = u
<1>1. att.pc # "idle"
  BY DEF AtWork
<1>2. link[u] \in Ids
  BY DEF AtWork, BookOK
<1>3. txn[link[u]].status # "none" /\ link[u] \in {u, PendingOf[u]} /\ Added(u, att.upto)
  BY <1>1 DEF AtWork, BookOK, Linked, End
<1>4. link[link[u]] = link[u]
  BY <1>2, <1>3 DEF AtWork, BookOK
<1>5. ~Gone(u, att.upto) => link[u] \in Live /\ txn[link[u]].id = u
  BY <1>1 DEF AtWork, BookOK, Showing, End
<1> QED
  BY <1>2, <1>3, <1>4, <1>5

LEMMA LiveIs ==
  ASSUME AtWork, NEW k \in Ids
  PROVE  /\ k \in Live <=> txn[k].status \notin {"none", "voided"}
         /\ k \in Live => /\ txn[k].id \in Ids /\ link[txn[k].id] = k
                           /\ txn[k].status = StatusOf(txn[k].id)
                           /\ ~Gone(txn[k].id, cursor) /\ Added(txn[k].id, att.upto)
<1>1. txn \in [Ids -> Record] /\ Lively
  BY DEF AtWork, BookOK
<1>2. txn[k].status \in {"none", "pending", "posted", "voided"}
  BY <1>1 DEF Record, Statuses
<1>3. k \in Live => /\ txn[k].id \in Ids /\ link[txn[k].id] = k
                    /\ txn[k].status = StatusOf(txn[k].id) /\ ~Gone(txn[k].id, cursor)
  BY <1>1 DEF Lively
<1>4. k # None
  BY DEF AtWork, IngestAssumption
<1>5. k \in Live => Added(txn[k].id, att.upto)
  BY <1>3, <1>4, LinkIs
<1> QED
  BY <1>2, <1>3, <1>5 DEF Live

(* The key of an id that was added. *)
LEMMA KeyIs ==
  ASSUME AtWork, NEW t \in Ids, Added(t, att.upto)
  PROVE  /\ KeyOf(t) \in Ids /\ KeyOf(t) \in {t, PendingOf[t]}
         /\ link[t] # None => link[KeyOf(t)] = KeyOf(t) /\ KeyOf(t) = link[t]
         /\ link[t] = None /\ KeyOf(t) = t => link[KeyOf(t)] = None
         /\ KeyOf(t) # t => link[KeyOf(t)] = KeyOf(t) /\ PendingOf[t] # None
<1>1. PendingOf[t] # None => PendingOf[t] \in Ids /\ PendingOf[t] # t /\ PendingOf[PendingOf[t]] = None
  BY Settles
<1>2. \A u \in Ids : link[u] # None => link[u] \in Ids /\ link[link[u]] = link[u] /\ link[u] \in {u, PendingOf[u]}
  BY LinkIs
<1>3. None \notin Ids
  BY DEF AtWork, IngestAssumption
<1>4. CASE link[t] # None
  BY <1>1, <1>2, <1>3, <1>4 DEF KeyOf
<1>5. CASE link[t] = None
  <2>1. CASE PendingOf[t] # None /\ link[PendingOf[t]] # None
    BY <1>1, <1>2, <1>3, <1>5, <2>1 DEF KeyOf
  <2>2. CASE ~(PendingOf[t] # None /\ link[PendingOf[t]] # None)
    BY <1>1, <1>3, <1>5, <2>2 DEF KeyOf
  <2> QED
    BY <2>1, <2>2
<1> QED
  BY <1>4, <1>5

(* Two ids of one key: one is the pending id of the other. *)
LEMMA KeyApart ==
  ASSUME AtWork, NEW t \in Ids, NEW u \in Ids, Added(t, att.upto), Added(u, att.upto), t # u,
         KeyOf(t) = KeyOf(u)
  PROVE  \/ PendingOf[t] = u /\ KeyOf(t) = u /\ Gone(u, att.upto)
         \/ PendingOf[u] = t /\ KeyOf(t) = t /\ Gone(t, att.upto)
<1>1. KeyOf(t) \in Ids /\ KeyOf(t) \in {t, PendingOf[t]} /\ KeyOf(u) \in {u, PendingOf[u]}
  BY KeyIs
<1>2. None \notin Ids
  BY DEF AtWork, IngestAssumption
<1>3. CASE KeyOf(t) = t
  BY <1>1, <1>2, <1>3, Settles
<1>4. CASE KeyOf(t) = PendingOf[t] /\ KeyOf(u) = u
  BY <1>1, <1>2, <1>4, Settles
<1>5. CASE KeyOf(t) = PendingOf[t] /\ KeyOf(u) = PendingOf[u]
  BY <1>1, <1>2, <1>5, Settles
<1> QED
  BY <1>1, <1>3, <1>4, <1>5

(* An addition comes in one window with the removal it settles. *)
LEMMA PairedIs ==
  ASSUME AtWork, NEW e \in Events, e.kind = "added", PendingOf[e.id] # None
  PROVE  /\ PendingOf[e.id] \in W /\ Ev(PendingOf[e.id]).kind = "removed"
         /\ e \in Paired(Events) /\ e.ref = PendingOf[e.id]
<1> DEFINE p == PendingOf[e.id]
<1>1. e.id \in W /\ e = Ev(e.id)
  BY EventOf
<1>2. e.id \in Ids /\ Added(e.id, att.upto) /\ ~Added(e.id, cursor) /\ e.ref = p
  BY <1>1, EventIs
<1>3. p \in W /\ Gone(p, att.upto)
  BY <1>2, Settles
<1>4. Ev(p) \in Events /\ Ev(p).id = p /\ Ev(p).kind = "removed"
  BY <1>3, EventIs
<1>5. ASSUME NEW f \in Events, f.kind = "added", f.ref = e.ref PROVE f.id = e.id
  <2>1. f.id \in W /\ f = Ev(f.id)
    BY EventOf
  <2>2. f.id \in Ids /\ Added(f.id, att.upto) /\ f.ref = PendingOf[f.id]
    BY <2>1, EventIs
  <2> QED
    BY <1>2, <1>5, <2>2, Settles
<1>6. e.id \in Nat
  BY <1>2 DEF AtWork, IngestAssumption
<1>7. \A f \in Events : ~(f.kind = "added" /\ f.ref = e.ref /\ f.id < e.id)
  BY <1>5, <1>6
<1>8. e \in Paired(Events)
  BY <1>2, <1>4, <1>7 DEF Paired
<1> QED
  BY <1>2, <1>3, <1>4, <1>8

LEMMA PairOf ==
  ASSUME AtWork, NEW e \in Paired(Events)
  PROVE  e \in Events /\ e.kind = "added" /\ e.ref = PendingOf[e.id] /\ PendingOf[e.id] # None
<1>1. e \in Events /\ e.kind = "added" /\ \E r \in Events : r.id = e.ref
  BY DEF Paired
<1>2. e.id \in W /\ e = Ev(e.id) /\ e.ref = PendingOf[e.id]
  BY <1>1, EventOf, EventIs
<1>3. PendingOf[e.id] \in Ids
  BY <1>1, <1>2, EventOf, EventIs
<1>4. None \notin Ids
  BY DEF AtWork, IngestAssumption
<1> QED
  BY <1>1, <1>2, <1>3, <1>4

(* Two events on one key are two removals. *)
LEMMA OneOnKey ==
  ASSUME AtWork, NEW e \in Proper, NEW f \in Proper, KeyOf(e.id) = KeyOf(f.id), e # f
  PROVE  e.kind = "removed" /\ f.kind = "removed"
<1>0. e \in Events /\ f \in Events
  BY DEF Proper
<1>1. e.id \in W /\ e = Ev(e.id) /\ f.id \in W /\ f = Ev(f.id)
  BY <1>0, EventOf
<1>2. e.id \in Ids /\ f.id \in Ids /\ Added(e.id, att.upto) /\ Added(f.id, att.upto) /\ e.id # f.id
  BY <1>1, EventIs
<1>3. ASSUME NEW g \in Proper, NEW h \in Proper, g \in Events, h \in Events,
             PendingOf[g.id] = h.id, Gone(h.id, att.upto)
      PROVE  g.kind = "removed" /\ h.kind = "removed"
  <2>1. g.id \in W /\ g = Ev(g.id) /\ h.id \in W /\ h = Ev(h.id)
    BY <1>3, EventOf
  <2>2. g.id \in Ids /\ Added(g.id, att.upto) /\ h.id \in Ids /\ h.kind = "removed"
        /\ (g.kind = "removed" <=> Gone(g.id, att.upto))
        /\ (g.kind = "added" <=> ~Gone(g.id, att.upto) /\ ~Added(g.id, cursor))
    BY <1>3, <2>1, EventIs
  <2>3. PendingOf[g.id] # None
    BY <1>3, <2>2 DEF AtWork, IngestAssumption
  <2>4. ~Added(g.id, cursor)
    BY <1>3, <2>1, <2>2, <2>3, Settles
  <2>5. g.kind # "added"
    <3> SUFFICES ASSUME g.kind = "added" PROVE FALSE
      OBVIOUS
    <3>1. g \in Paired(Events) /\ g.ref = h.id
      BY <1>3, <2>3, PairedIs
    <3>2. \A p \in Paired(Events) : p.ref # h.id
      BY <1>3, <2>2 DEF Proper
    <3> QED
      BY <3>1, <3>2
  <2> QED
    BY <2>2, <2>4, <2>5
<1>4. \/ PendingOf[e.id] = f.id /\ Gone(f.id, att.upto)
      \/ PendingOf[f.id] = e.id /\ Gone(e.id, att.upto)
  BY <1>2, KeyApart
<1> QED
  BY <1>0, <1>3, <1>4

(* What is due has a transaction to act on, or starts one. *)
LEMMA DueIs ==
  ASSUME AtPlan, NEW e \in Proper, Due(e)
  PROVE  /\ e \in Events /\ e.id \in W /\ e = Ev(e.id)
         /\ KeyOf(e.id) \in Ids /\ ViewAfter(e).key = KeyOf(e.id) /\ ActFor(e).key = KeyOf(e.id)
         /\ ActFor(e) \in Action
         /\ e.kind = "removed" => link[e.id] = KeyOf(e.id) /\ KeyOf(e.id) \in Live
         /\ e.kind = "added" => link[e.id] = None
<1>1. e \in Events
  BY DEF Proper
<1>2. e.id \in W /\ e = Ev(e.id)
  BY <1>1, EventOf DEF AtPlan
<1>3. /\ e.id \in Ids /\ Added(e.id, att.upto) /\ e.status = StatusOf(e.id) /\ e.at \in Nat
      /\ e.kind \in {"added", "modified", "removed"}
  BY <1>2, EventIs DEF AtPlan
<1>4. KeyOf(e.id) \in Ids /\ (link[e.id] # None => KeyOf(e.id) = link[e.id])
  BY <1>3, KeyIs DEF AtPlan
<1>5. ViewAfter(e).key = KeyOf(e.id) /\ ActFor(e).key = KeyOf(e.id)
  BY DEF ViewAfter, ActFor, ViewOf
<1>6. e.kind = "removed" => link[e.id] # None
  BY DEF Due
<1>7. e.kind = "removed" => KeyOf(e.id) \in Live
  <2>1. ASSUME e.kind = "removed" PROVE txn[link[e.id]].status \notin {"none", "voided"}
    BY <1>2, <1>3, <1>6, <2>1, LinkIs DEF AtPlan, Readable, W
  <2> QED
    BY <1>4, <1>6, <2>1, LiveIs DEF AtPlan
<1>8. ActFor(e) \in Action
  <2>1. CASE e.kind = "removed"
    <3>1. txn[KeyOf(e.id)] \in Record
      BY <1>4 DEF AtPlan, AtWork, BookOK
    <3>2. txn[KeyOf(e.id)].id \in Ids /\ txn[KeyOf(e.id)].at \in Nat
      BY <1>4, <1>7, <2>1, <3>1, LiveIs DEF AtPlan, Record
    <3>3. ActFor(e) = [kind |-> "void", key |-> KeyOf(e.id), id |-> txn[KeyOf(e.id)].id,
                       status |-> "voided", at |-> txn[KeyOf(e.id)].at]
      BY <2>1 DEF ActFor, ViewAfter, Shows, ViewOf
    <3> QED
      BY <1>4, <3>2, <3>3 DEF Action, Kinds, Statuses
  <2>2. CASE e.kind # "removed"
    <3>1. ActFor(e) = [kind |-> IF link[KeyOf(e.id)] = None THEN "create" ELSE "revise",
                       key |-> KeyOf(e.id), id |-> e.id, status |-> e.status, at |-> e.at]
      BY <2>2 DEF ActFor, ViewAfter, ViewOf
    <3>2. e.status \in Statuses
      BY <1>3 DEF StatusOf, Statuses
    <3> QED
      BY <1>3, <1>4, <3>1, <3>2 DEF Action, Kinds
  <2> QED
    BY <2>1, <2>2
<1>9. e.kind = "added" => link[e.id] = None
  BY DEF Due
<1> QED
  BY <1>1, <1>2, <1>4, <1>5, <1>6, <1>7, <1>8, <1>9

(* An event that leaves the plan as it is. *)
LEMMA PlanSame ==
  ASSUME NEW plan, NEW seen, Planned(plan, seen), NEW e,
         e.kind = "added" => link[e.id] # None,
         Due(e) => \E f \in seen : /\ Due(f) /\ KeyOf(f.id) = KeyOf(e.id)
                                   /\ ViewAfter(f) = ViewAfter(e) /\ ActFor(f) = ActFor(e)
  PROVE  Planned(plan, seen \cup {e})
<1> DEFINE now == seen \cup {e}
<1>1. DOMAIN plan.state =
        {t \in W : link[t] # None \/ \E f \in now : f.id = t /\ f.kind = "added"}
  BY DEF Planned
<1>2. ASSUME NEW t \in DOMAIN plan.state, NEW f \in now, Due(f), KeyOf(f.id) = KeyOf(t)
      PROVE  plan.state[t] = ViewAfter(f)
  <2>1. PICK g \in seen : Due(g) /\ KeyOf(g.id) = KeyOf(f.id) /\ ViewAfter(g) = ViewAfter(f)
    BY <1>2
  <2>2. plan.state[t] = ViewAfter(g)
    BY <1>2, <2>1 DEF Planned
  <2> QED
    BY <2>1, <2>2
<1>3. ASSUME NEW t \in DOMAIN plan.state, \A f \in now : Due(f) => KeyOf(f.id) # KeyOf(t)
      PROVE  plan.state[t] = Shows(KeyOf(t))
  BY <1>3 DEF Planned
<1>4. ASSUME NEW i \in DOMAIN plan.acts PROVE \E f \in now : Due(f) /\ plan.acts[i] = ActFor(f)
  BY DEF Planned
<1>5. ASSUME NEW f \in now, Due(f) PROVE \E i \in DOMAIN plan.acts : plan.acts[i] = ActFor(f)
  <2>1. PICK g \in seen : Due(g) /\ ActFor(g) = ActFor(f)
    BY <1>5
  <2> QED
    BY <2>1 DEF Planned
<1>6. plan.acts \in Seq(Action) /\ \A i, j \in DOMAIN plan.acts : plan.acts[i].key = plan.acts[j].key => i = j
  BY DEF Planned
<1> QED
  BY <1>1, <1>2, <1>3, <1>4, <1>5, <1>6 DEF Planned

(* An event that is due, and the first on its key. *)
LEMMA PlanActs ==
  ASSUME AtPlan, NEW plan, NEW seen \in SUBSET Proper, Planned(plan, seen), NEW e \in Proper, Due(e),
         \A f \in seen : Due(f) => KeyOf(f.id) # KeyOf(e.id),
         NEW next, next.acts = Append(plan.acts, ActFor(e)),
         DOMAIN next.state = DOMAIN plan.state \cup {e.id},
         \A u \in DOMAIN next.state :
           next.state[u] = IF KeyOf(u) = KeyOf(e.id) THEN ViewAfter(e) ELSE plan.state[u]
  PROVE  Planned(next, seen \cup {e})
<1> DEFINE now == seen \cup {e}
<1>0. /\ e.id \in W /\ ActFor(e) \in Action /\ ActFor(e).key = KeyOf(e.id)
      /\ \A f \in seen : Due(f) => ActFor(f).key = KeyOf(f.id)
  BY DueIs
<1>1. DOMAIN next.state =
        {t \in W : link[t] # None \/ \E f \in now : f.id = t /\ f.kind = "added"}
  <2>1. DOMAIN plan.state = {t \in W : link[t] # None \/ \E f \in seen : f.id = t /\ f.kind = "added"}
    BY DEF Planned
  <2>2. link[e.id] # None \/ e.kind = "added"
    BY DEF Due
  <2> QED
    BY <1>0, <2>1, <2>2
<1>2. ASSUME NEW t \in DOMAIN next.state, NEW f \in now, Due(f), KeyOf(f.id) = KeyOf(t)
      PROVE  next.state[t] = ViewAfter(f)
  <2>1. CASE f = e
    BY <1>2, <2>1
  <2>2. CASE f # e
    <3>1. f \in seen /\ KeyOf(t) # KeyOf(e.id) /\ t # e.id
      BY <1>2, <2>2
    <3>2. t \in DOMAIN plan.state
      BY <1>2, <3>1
    <3>3. plan.state[t] = ViewAfter(f)
      BY <1>2, <3>1, <3>2 DEF Planned
    <3> QED
      BY <1>2, <3>1, <3>3
  <2> QED
    BY <2>1, <2>2
<1>3. ASSUME NEW t \in DOMAIN next.state, \A f \in now : Due(f) => KeyOf(f.id) # KeyOf(t)
      PROVE  next.state[t] = Shows(KeyOf(t))
  <2>1. KeyOf(t) # KeyOf(e.id) /\ t # e.id
    BY <1>3
  <2>2. t \in DOMAIN plan.state
    BY <1>3, <2>1
  <2>3. plan.state[t] = Shows(KeyOf(t))
    BY <1>3, <2>2 DEF Planned
  <2> QED
    BY <1>3, <2>1, <2>3
<1>4. plan.acts \in Seq(Action)
  BY DEF Planned
<1>5. /\ next.acts \in Seq(Action) /\ Len(plan.acts) \in Nat /\ DOMAIN next.acts = 1 .. Len(plan.acts) + 1
      /\ DOMAIN plan.acts = 1 .. Len(plan.acts)
      /\ \A i \in DOMAIN plan.acts : next.acts[i] = plan.acts[i]
      /\ next.acts[Len(plan.acts) + 1] = ActFor(e)
  BY <1>0, <1>4
<1>6. ASSUME NEW i \in DOMAIN next.acts PROVE \E f \in now : Due(f) /\ next.acts[i] = ActFor(f)
  <2>1. CASE i \in DOMAIN plan.acts
    BY <1>5, <2>1 DEF Planned
  <2>2. CASE i \notin DOMAIN plan.acts
    BY <1>5, <1>6, <2>2
  <2> QED
    BY <2>1, <2>2
<1>7. ASSUME NEW f \in now, Due(f) PROVE \E i \in DOMAIN next.acts : next.acts[i] = ActFor(f)
  <2>1. CASE f = e
    BY <1>5, <2>1
  <2>2. CASE f # e
    <3>1. PICK i \in DOMAIN plan.acts : plan.acts[i] = ActFor(f)
      BY <1>7, <2>2 DEF Planned
    <3> QED
      BY <1>5, <3>1
  <2> QED
    BY <2>1, <2>2
<1>8. ASSUME NEW i \in DOMAIN next.acts, NEW j \in DOMAIN next.acts, next.acts[i].key = next.acts[j].key
      PROVE  i = j
  <2>1. ASSUME NEW k \in DOMAIN plan.acts PROVE next.acts[k].key # KeyOf(e.id)
    <3>1. PICK f \in seen : Due(f) /\ plan.acts[k] = ActFor(f)
      BY DEF Planned
    <3> QED
      BY <1>0, <1>5, <3>1
  <2>2. CASE i \in DOMAIN plan.acts /\ j \in DOMAIN plan.acts
    BY <1>5, <1>8, <2>2 DEF Planned
  <2>3. CASE i \in DOMAIN plan.acts /\ j \notin DOMAIN plan.acts
    BY <1>0, <1>5, <1>8, <2>1, <2>3
  <2>4. CASE i \notin DOMAIN plan.acts /\ j \in DOMAIN plan.acts
    BY <1>0, <1>5, <1>8, <2>1, <2>4
  <2>5. CASE i \notin DOMAIN plan.acts /\ j \notin DOMAIN plan.acts
    BY <1>5, <1>8, <2>5
  <2> QED
    BY <2>2, <2>3, <2>4, <2>5
<1> HIDE DEF now
<1>9. /\ \A t \in DOMAIN next.state :
           /\ \A f \in now : Due(f) /\ KeyOf(f.id) = KeyOf(t) => next.state[t] = ViewAfter(f)
           /\ (\A f \in now : Due(f) => KeyOf(f.id) # KeyOf(t)) => next.state[t] = Shows(KeyOf(t))
      /\ \A i \in DOMAIN next.acts : \E f \in now : Due(f) /\ next.acts[i] = ActFor(f)
      /\ \A f \in now : Due(f) => \E i \in DOMAIN next.acts : next.acts[i] = ActFor(f)
      /\ \A i, j \in DOMAIN next.acts : next.acts[i].key = next.acts[j].key => i = j
  BY <1>2, <1>3, <1>6, <1>7, <1>8
<1> QED
  BY <1>1, <1>5, <1>9 DEF Planned, now

(* The view a plan has of an id is one of the transaction the id stands for. *)
LEMMA StateIs ==
  ASSUME AtPlan, NEW plan, NEW seen \in SUBSET Proper, Planned(plan, seen), NEW t \in DOMAIN plan.state
  PROVE  /\ t \in W /\ plan.state[t].key = KeyOf(t)
         /\ (\A f \in seen : Due(f) => KeyOf(f.id) # KeyOf(t)) => plan.state[t] = Shows(KeyOf(t))
<1>1. t \in W
  BY DEF Planned
<1>2. CASE \A f \in seen : Due(f) => KeyOf(f.id) # KeyOf(t)
  <2>1. plan.state[t] = Shows(KeyOf(t))
    BY <1>2 DEF Planned
  <2> QED
    BY <1>1, <2>1 DEF Shows, ViewOf
<1>3. CASE \E f \in seen : Due(f) /\ KeyOf(f.id) = KeyOf(t)
  <2>1. PICK f \in seen : Due(f) /\ KeyOf(f.id) = KeyOf(t)
    BY <1>3
  <2>2. plan.state[t] = ViewAfter(f) /\ ViewAfter(f).key = KeyOf(f.id)
    BY <2>1, DueIs DEF Planned
  <2> QED
    BY <1>1, <2>1, <2>2
<1> QED
  BY <1>2, <1>3

(* A transaction is replaced in every id that has its key. *)
LEMMA ReplaceIs ==
  ASSUME NEW state, \A u \in DOMAIN state : state[u].key = KeyOf(u), NEW view
  PROVE  /\ DOMAIN Replace(state, view) = DOMAIN state
         /\ \A u \in DOMAIN state :
              Replace(state, view)[u] = IF KeyOf(u) = view.key THEN view ELSE state[u]
BY DEF Replace

(* An addition: known already, a settlement, or a new transaction. *)
LEMMA PlanNew ==
  ASSUME AtPlan, NEW plan, NEW seen \in SUBSET Proper, Planned(plan, seen), NEW e \in Proper \ seen,
         e.kind = "added"
  PROVE  Planned(PlanAdded(plan, e), seen \cup {e})
<1> DEFINE t == e.id
           p == PendingOf[t]
           S == DOMAIN plan.state
<1>1. e \in Events /\ t \in W /\ e = Ev(t)
  BY EventOf DEF Proper, AtPlan
<1>2. t \in Ids /\ Added(t, att.upto) /\ ~Added(t, cursor) /\ ~Gone(t, att.upto) /\ e.ref = p
  BY <1>1, EventIs DEF AtPlan
<1>3. t \in S <=> link[t] # None
  <2>1. \A f \in seen : f.id = t => f = e
    BY <1>1, EventOf DEF Proper, AtPlan
  <2> QED
    BY <1>1, <2>1 DEF Planned
<1>4. CASE link[t] # None
  <2>1. PlanAdded(plan, e) = plan
    BY <1>3, <1>4, Zenon DEF PlanAdded
  <2>2. ~Due(e)
    BY <1>4 DEF Due
  <2> QED
    BY <1>4, <2>1, <2>2, PlanSame
<1>5. CASE link[t] = None
  <2>1. Due(e)
    BY <1>5 DEF Due
  <2>2. \A f \in seen : Due(f) => KeyOf(f.id) # KeyOf(t)
    BY OneOnKey DEF AtPlan
  <2>3. \A u \in S : plan.state[u].key = KeyOf(u) /\ u \in W
    BY StateIs
  <2>4. p \in S <=> p # None /\ link[p] # None
    <3>1. p # None => p \in W /\ Ev(p).kind = "removed"
      BY <1>1, PairedIs DEF AtPlan
    <3>2. \A f \in seen : f.kind = "added" /\ f.id = p => f = Ev(p)
      BY EventOf DEF Proper, AtPlan
    <3>3. S \subseteq Ids
      BY <2>3, EventIs DEF AtPlan
    <3>4. None \notin Ids
      BY DEF AtPlan, AtWork, IngestAssumption
    <3> QED
      BY <3>1, <3>2, <3>3, <3>4 DEF Planned
  <2>5. CASE p # None /\ link[p] # None
    <3>1. p \in Ids /\ PendingOf[p] = None /\ IsPending(p) /\ Gone(p, att.upto) /\ p \in W
      BY <1>2, <2>5, Settles DEF AtPlan
    <3>2. link[p] = p /\ txn[p].status # "none"
      BY <2>5, <3>1, LinkIs DEF AtPlan, AtWork, IngestAssumption
    <3>3. KeyOf(t) = p /\ KeyOf(p) = p
      BY <1>5, <2>5, <3>2 DEF KeyOf
    <3>4. plan.state[p] = Shows(p)
      BY <2>2, <2>4, <2>5, <3>3, StateIs
    <3>5. txn[p].status # "voided"
      BY <2>5, <3>1, <3>2 DEF AtPlan, Readable, W
    <3>6. p \in Live
      BY <3>1, <3>2, <3>5, LiveIs DEF AtPlan
    <3>7. txn[p].id = p
      <4> DEFINE u == txn[p].id
      <4>1. u \in Ids /\ link[u] = p /\ Added(u, att.upto)
        BY <3>1, <3>6, LiveIs DEF AtPlan
      <4>2. p # None
        BY <2>5
      <4>3. p \in {u, PendingOf[u]}
        BY <4>1, <4>2, LinkIs DEF AtPlan
      <4>4. u # t
        BY <1>5, <4>1, <4>2
      <4> QED
        BY <1>2, <3>1, <4>1, <4>2, <4>3, <4>4, Settles DEF AtPlan
    <3>8. txn[p].status = "pending"
      BY <3>1, <3>6, <3>7, LiveIs DEF AtPlan, StatusOf
    <3>9. Supersedes(plan.state, e)
      BY <1>2, <2>4, <2>5, <3>4, <3>8 DEF Supersedes, Shows, ViewOf
    <3> DEFINE v == ViewOf(e, plan.state[e.ref].key)
    <3>10. v = ViewAfter(e) /\ v = ViewOf(e, p) /\ v.key = p /\ v.id = e.id /\ v.status = e.status /\ v.at = e.at
      BY <1>2, <2>3, <2>4, <2>5, <3>3 DEF ViewAfter, ViewOf
    <3> DEFINE state == With(Replace(plan.state, v), e.id, v)
    <3>11. PlanAdded(plan, e) = Acting(plan, "revise", v, state)
      BY <1>3, <1>5, <3>9, Zenon DEF PlanAdded
    <3>12. /\ DOMAIN state = S \cup {t}
           /\ \A u \in S \cup {t} : state[u] =
                IF KeyOf(u) = KeyOf(t) THEN ViewAfter(e) ELSE plan.state[u]
      <4>1. /\ DOMAIN Replace(plan.state, v) = S
            /\ \A u \in S : Replace(plan.state, v)[u] = IF KeyOf(u) = v.key THEN v ELSE plan.state[u]
        BY <2>3, ReplaceIs
      <4>2. /\ DOMAIN state = S \cup {t}
            /\ \A u \in S \cup {t} : state[u] =
                 IF u = t THEN v ELSE Replace(plan.state, v)[u]
        BY <4>1 DEF With
      <4> HIDE DEF state, v, S
      <4> QED
        BY <3>3, <3>10, <4>1, <4>2
    <3>13. ActFor(e) = [kind |-> "revise", key |-> v.key, id |-> v.id, status |-> v.status, at |-> v.at]
      <4>1. e.kind # "removed" /\ ViewAfter(e).key = p
        BY <3>10
      <4> HIDE DEF v
      <4> QED
        BY <2>5, <3>2, <3>10, <4>1 DEF ActFor
    <3> DEFINE next == PlanAdded(plan, e)
    <3>14. next.acts = Append(plan.acts, ActFor(e)) /\ next.state = state
      BY <3>11, <3>13 DEF Acting
    <3> HIDE DEF next, state, v
    <3>15. Planned(next, seen \cup {e})
      BY <2>1, <2>2, <3>12, <3>14, PlanActs
    <3> QED
      BY <3>15 DEF next
  <2>6. CASE ~(p # None /\ link[p] # None)
    <3>1. KeyOf(t) = t
      BY <1>5, <2>6 DEF KeyOf
    <3>2. ASSUME NEW u \in S, KeyOf(u) = t PROVE FALSE
      <4>1. u \in W /\ u \in Ids /\ Added(u, att.upto)
        BY <2>3, EventIs DEF AtPlan
      <4>2. u # t
        BY <1>3, <1>5
      <4> QED
        BY <1>2, <3>1, <3>2, <4>1, <4>2, KeyApart DEF AtPlan
    <3>3. ~Supersedes(plan.state, e)
      BY <1>2, <2>4, <2>6 DEF Supersedes
    <3> DEFINE v == ViewOf(e, e.id)
               state == With(plan.state, e.id, v)
               next == PlanAdded(plan, e)
    <3>4. next = Acting(plan, "create", v, state)
      BY <1>3, <1>5, <3>3, Zenon DEF PlanAdded
    <3>5. v = ViewAfter(e)
      BY <3>1 DEF ViewAfter, ViewOf
    <3>6. /\ DOMAIN state = S \cup {t}
          /\ \A u \in S \cup {t} : state[u] =
               IF KeyOf(u) = KeyOf(t) THEN ViewAfter(e) ELSE plan.state[u]
      BY <3>1, <3>2, <3>5 DEF With
    <3>7. ActFor(e) = [kind |-> "create", key |-> v.key, id |-> v.id, status |-> v.status, at |-> v.at]
      BY <1>5, <3>5 DEF ActFor, ViewOf
    <3>8. next.acts = Append(plan.acts, ActFor(e)) /\ next.state = state
      BY <3>4, <3>7 DEF Acting
    <3> HIDE DEF next, state, v
    <3>9. Planned(next, seen \cup {e})
      BY <2>1, <2>2, <3>6, <3>8, PlanActs
    <3> QED
      BY <3>9 DEF next
  <2> QED
    BY <2>5, <2>6
<1> QED
  BY <1>4, <1>5

(* A modification: of a transaction the book shows under this very id. *)
LEMMA PlanChanged ==
  ASSUME AtPlan, NEW plan, NEW seen \in SUBSET Proper, Planned(plan, seen), NEW e \in Proper \ seen,
         e.kind = "modified"
  PROVE  Planned(PlanModified(plan, e), seen \cup {e})
<1> DEFINE t == e.id
           k == link[t]
           S == DOMAIN plan.state
<1>1. e \in Events /\ t \in W /\ e = Ev(t)
  BY EventOf DEF Proper, AtPlan
<1>2. t \in Ids /\ Added(t, cursor) /\ Added(t, att.upto) /\ ~Gone(t, att.upto)
  BY <1>1, EventIs DEF AtPlan
<1>3. k # None
  BY <1>2 DEF AtPlan, AtWork, BookOK, End
<1>4. k \in Live /\ txn[k].id = t /\ k \in Ids /\ KeyOf(t) = k
  BY <1>2, <1>3, LinkIs, KeyIs DEF AtPlan
<1>5. t \in S
  BY <1>1, <1>3 DEF Planned
<1>6. \A f \in seen : Due(f) => KeyOf(f.id) # KeyOf(t)
  BY OneOnKey DEF AtPlan
<1>7. plan.state[t] = Shows(k)
  BY <1>4, <1>5, <1>6, StateIs
<1>8. Shows(k).status # "voided" /\ Shows(k).id = e.id /\ Shows(k).key = k
  BY <1>4, LiveIs DEF AtPlan, Shows, ViewOf
<1> DEFINE v == ViewOf(e, k)
           state == Replace(plan.state, v)
           next == PlanModified(plan, e)
<1>9. next = IF Shows(k) = v THEN plan ELSE Acting(plan, "revise", v, state)
  BY <1>5, <1>7, <1>8, Zenon DEF PlanModified
<1>10. Due(e) <=> Shows(k) # v
  BY <1>3 DEF Due
<1>11. CASE Shows(k) = v
  BY <1>3, <1>9, <1>10, <1>11, PlanSame
<1>12. CASE Shows(k) # v
  <2>1. v = ViewAfter(e) /\ v.key = k
    BY <1>4 DEF ViewAfter, ViewOf
  <2>2. \A u \in S : plan.state[u].key = KeyOf(u)
    BY StateIs
  <2>3. /\ DOMAIN state = S \cup {t}
        /\ \A u \in S \cup {t} : state[u] =
             IF KeyOf(u) = KeyOf(t) THEN ViewAfter(e) ELSE plan.state[u]
    <3>1. /\ DOMAIN state = S
          /\ \A u \in S : state[u] = IF KeyOf(u) = v.key THEN v ELSE plan.state[u]
      BY <2>2, ReplaceIs
    <3> HIDE DEF state, v, S
    <3> QED
      BY <1>4, <1>5, <2>1, <3>1
  <2>4. ActFor(e) = [kind |-> "revise", key |-> v.key, id |-> v.id, status |-> v.status, at |-> v.at]
    <3>1. link[k] # None
      BY <1>2, <1>3, <1>4, LinkIs DEF AtPlan
    <3> QED
      BY <2>1, <3>1 DEF ActFor
  <2>5. next.acts = Append(plan.acts, ActFor(e)) /\ next.state = state
    BY <1>9, <1>12, <2>4 DEF Acting
  <2> HIDE DEF next, state, v
  <2>6. Due(e)
    BY <1>10, <1>12
  <2>7. Planned(next, seen \cup {e})
    BY <1>6, <2>3, <2>5, <2>6, PlanActs
  <2> QED
    BY <2>7 DEF next
<1> QED
  BY <1>11, <1>12

(* A removal: of an unknown id, of what was voided before, or a void. *)
LEMMA PlanGone ==
  ASSUME AtPlan, NEW plan, NEW seen \in SUBSET Proper, Planned(plan, seen), NEW e \in Proper \ seen,
         e.kind = "removed"
  PROVE  Planned(PlanRemoved(plan, e), seen \cup {e})
<1> DEFINE t == e.id
           k == KeyOf(t)
           S == DOMAIN plan.state
           next == PlanRemoved(plan, e)
<1>1. e \in Events /\ t \in W /\ e = Ev(t)
  BY EventOf DEF Proper, AtPlan
<1>2. \A f \in seen : f.id = t => f = e
  BY <1>1, EventOf DEF Proper, AtPlan
<1>3. t \in S <=> link[t] # None
  BY <1>1, <1>2 DEF Planned
<1>4. CASE link[t] = None
  <2>1. next = plan /\ ~Due(e)
    BY <1>3, <1>4, Zenon DEF PlanRemoved, Due
  <2> HIDE DEF next
  <2> QED
    BY <2>1, PlanSame DEF next
<1>5. CASE link[t] # None /\ \E f \in seen : Due(f) /\ KeyOf(f.id) = k
  <2>1. PICK f \in seen : Due(f) /\ KeyOf(f.id) = k
    BY <1>5
  <2>2. f.kind = "removed"
    BY <2>1, OneOnKey DEF AtPlan
  <2>3. ViewAfter(f) = ViewAfter(e) /\ ActFor(f) = ActFor(e)
    BY <2>1, <2>2 DEF ViewAfter, ActFor
  <2>4. plan.state[t] = ViewAfter(e)
    BY <1>3, <1>5, <2>1, <2>3 DEF Planned
  <2>5. plan.state[t].status = "voided"
    BY <2>4 DEF ViewAfter
  <2>6. next = plan
    BY <2>5, Zenon DEF PlanRemoved
  <2> HIDE DEF next
  <2>7. Planned(plan, seen \cup {e})
    BY <2>1, <2>3, PlanSame
  <2> QED
    BY <2>6, <2>7 DEF next
<1>6. CASE link[t] # None /\ \A f \in seen : Due(f) => KeyOf(f.id) # k
  <2>1. Due(e)
    BY <1>6 DEF Due
  <2>2. k \in Live /\ k \in Ids /\ link[t] = k
    BY <2>1, DueIs
  <2>3. plan.state[t] = Shows(k) /\ t \in S
    BY <1>3, <1>6, StateIs
  <2>4. txn[k].status # "voided"
    BY <2>2, LiveIs DEF AtPlan
  <2> DEFINE v == [plan.state[t] EXCEPT !.status = "voided"]
             state == Replace(plan.state, v)
  <2>5. v = ViewAfter(e) /\ v.key = k
    BY <2>3 DEF ViewAfter, Shows, ViewOf
  <2>6. next = Acting(plan, "void", v, state)
    <3>1. plan.state[e.id].status # "voided"
      BY <2>3, <2>4 DEF Shows, ViewOf
    <3> QED
      BY <2>3, <3>1, Zenon DEF PlanRemoved
  <2>7. /\ DOMAIN state = S \cup {t}
        /\ \A u \in S \cup {t} : state[u] =
             IF KeyOf(u) = KeyOf(t) THEN ViewAfter(e) ELSE plan.state[u]
    <3>0. \A u \in S : plan.state[u].key = KeyOf(u)
      BY StateIs
    <3> HIDE DEF v
    <3>1. /\ DOMAIN state = S
          /\ \A u \in S : state[u] = IF KeyOf(u) = v.key THEN v ELSE plan.state[u]
      BY <3>0, ReplaceIs
    <3> HIDE DEF state, S
    <3> QED
      BY <2>3, <2>5, <3>1
  <2>8. ActFor(e) = [kind |-> "void", key |-> v.key, id |-> v.id, status |-> v.status, at |-> v.at]
    BY <2>5 DEF ActFor
  <2>9. next.acts = Append(plan.acts, ActFor(e)) /\ next.state = state
    BY <2>6, <2>8 DEF Acting
  <2> HIDE DEF next, state, v
  <2>10. Planned(next, seen \cup {e})
    BY <1>6, <2>1, <2>7, <2>9, PlanActs
  <2> QED
    BY <2>10 DEF next
<1> QED
  BY <1>4, <1>5, <1>6

(* One event more. *)
LEMMA PlanStep ==
  ASSUME AtPlan, NEW plan, NEW seen \in SUBSET Proper, Planned(plan, seen), NEW e \in Proper \ seen
  PROVE  Planned(PlanEvent(plan, e), seen \cup {e})
<1>1. e.kind \in {"added", "modified", "removed"}
  BY EventOf, EventIs DEF Proper, AtPlan
<1>2. CASE e.kind = "added"
  BY <1>2, PlanNew DEF PlanEvent
<1>3. CASE e.kind = "modified"
  BY <1>3, PlanChanged DEF PlanEvent
<1>4. CASE e.kind = "removed"
  BY <1>4, PlanGone DEF PlanEvent
<1> QED
  BY <1>1, <1>2, <1>3, <1>4

(* A batch of events more. *)
LEMMA PlanBatch ==
  ASSUME AtPlan, NEW plan, NEW seen \in SUBSET Proper, Planned(plan, seen),
         NEW S \in SUBSET (Proper \ seen), Batch(S)
  PROVE  Planned(FoldEvents(plan, S), seen \cup S)
<1> DEFINE Bad == {s \in SUBSET S : ~Planned(FoldEvents(plan, s), seen \cup s)}
<1>1. ASSUME Bad # {} PROVE FALSE
  <2>1. PICK s \in Bad : \A y \in Bad : y \subseteq s => y = s
    <3>1. Bad \subseteq SUBSET S
      OBVIOUS
    <3> HIDE DEF Bad
    <3> QED
      BY <1>1, <3>1, LeastSet DEF Batch
  <2>2. Batch(s)
    BY SubBatch
  <2>3. CASE s = {}
    <3>1. FoldEvents(plan, s) = plan /\ seen \cup s = seen
      BY <2>2, <2>3, FoldStep
    <3> QED
      BY <3>1
  <2>4. CASE s # {}
    <3> DEFINE e == LastOf(s)
               u == s \ {e}
    <3>1. e \in s
      BY <2>2, <2>4, LastIn
    <3>2. FoldEvents(plan, s) = PlanEvent(FoldEvents(plan, u), e)
      BY <2>2, <2>4, FoldStep
    <3>3. u \notin Bad /\ u \in SUBSET S
      BY <2>1, <3>1
    <3>4. Planned(FoldEvents(plan, u), seen \cup u)
      BY <3>3
    <3>5. seen \cup u \in SUBSET Proper /\ e \in Proper \ (seen \cup u) /\ (seen \cup u) \cup {e} = seen \cup s
      BY <3>1
    <3> HIDE DEF e, u
    <3>6. Planned(PlanEvent(FoldEvents(plan, u), e), (seen \cup u) \cup {e})
      BY <3>4, <3>5, PlanStep
    <3> QED
      BY <3>2, <3>5, <3>6
  <2> QED
    BY <2>3, <2>4
<1> QED
  BY <1>1

(* A window has finitely many events. *)
LEMMA WindowBatch ==
  ASSUME AtWork
  PROVE  Batch(Events)
<1>1. cursor \in Nat /\ att.upto \in Nat
  BY DEF AtWork, CutsOK, End
<1> DEFINE I == cursor + 1 .. att.upto
           f == [i \in I |-> Ev(feed[i].id)]
<1>2. IsFiniteSet(I)
  BY <1>1, FS_Interval
<1>3. f \in [I -> Events] /\ \A e \in Events : \E i \in I : f[i] = e
  BY DEF Events, Window, Touched, Ev
<1> HIDE DEF I, f
<1>4. f \in Surjection(I, Events)
  BY <1>3, Fun_IsSurj, Zenon
<1>5. IsFiniteSet(Events)
  BY <1>2, <1>4, FS_Surjection
<1>6. \A e \in Events : e.id \in Nat
  BY EventOf, EventIs DEF AtWork, IngestAssumption
<1> QED
  BY <1>5, <1>6 DEF Batch

(* The plan of a window. *)
LEMMA WindowPlanned ==
  ASSUME AtPlan
  PROVE  Planned(ReconcileBatch(Events, Lookup(W)), Proper)
<1> DEFINE pairs == Paired(Events)
           adds  == {e \in Events : e.kind = "added"} \ pairs
           mods  == {e \in Events : e.kind = "modified"}
           gone  == {e \in Events : e.kind = "removed" /\ \A p \in pairs : p.ref # e.id}
           p0 == [acts |-> <<>>, state |-> Lookup(W)]
           p1 == FoldEvents(p0, adds)
           p2 == FoldEvents(p1, pairs)
           p3 == FoldEvents(p2, mods)
           p4 == FoldEvents(p3, gone)
<1>0. W \subseteq Ids
  BY EventIs DEF AtPlan
<1>1. Planned(p0, {})
  <2>1. p0.state = Lookup(W) /\ p0.acts = <<>>
    OBVIOUS
  <2>2. /\ DOMAIN Lookup(W) = {t \in W : link[t] # None}
        /\ \A t \in DOMAIN Lookup(W) : Lookup(W)[t] = Shows(KeyOf(t))
    BY DEF Lookup, Shows, KeyOf
  <2> HIDE DEF p0
  <2>3. p0.acts \in Seq(Action) /\ DOMAIN p0.acts = {}
    BY <2>1
  <2> QED
    BY <2>1, <2>2, <2>3 DEF Planned
<1>2. /\ adds \cup pairs \cup mods \cup gone = Proper
      /\ pairs \subseteq Proper \ adds /\ mods \subseteq Proper \ (adds \cup pairs)
      /\ gone \subseteq Proper \ (adds \cup pairs \cup mods) /\ adds \subseteq Proper \ {}
  <2>1. \A e \in Events : e.kind \in {"added", "modified", "removed"}
    BY EventOf, EventIs DEF AtPlan
  <2>2. \A e \in pairs : e \in Events /\ e.kind = "added"
    BY PairOf DEF AtPlan
  <2> HIDE DEF pairs
  <2> QED
    BY <2>1, <2>2 DEF Proper, pairs
<1>3. Batch(adds) /\ Batch(pairs) /\ Batch(mods) /\ Batch(gone)
  <2>1. Batch(Events) /\ \A s \in SUBSET Events : Batch(s)
    BY WindowBatch, SubBatch DEF AtPlan
  <2>2. adds \in SUBSET Events /\ pairs \in SUBSET Events /\ mods \in SUBSET Events /\ gone \in SUBSET Events
    BY DEF Paired
  <2> QED
    BY <2>1, <2>2
<1> HIDE DEF p0, adds, mods, gone, pairs
<1>4. Planned(p1, adds)
  BY <1>1, <1>2, <1>3, PlanBatch
<1> HIDE DEF p1
<1>5. Planned(p2, adds \cup pairs)
  BY <1>2, <1>3, <1>4, PlanBatch
<1> HIDE DEF p2
<1>6. Planned(p3, adds \cup pairs \cup mods)
  BY <1>2, <1>3, <1>5, PlanBatch
<1> HIDE DEF p3
<1>7. Planned(p4, adds \cup pairs \cup mods \cup gone)
  BY <1>2, <1>3, <1>6, PlanBatch
<1> HIDE DEF p4
<1>8. p4 = ReconcileBatch(Events, Lookup(W))
  BY Zenon DEF p4, p3, p2, p1, p0, adds, mods, gone, pairs, ReconcileBatch
<1> QED
  BY <1>2, <1>7, <1>8

-----------------------------------------------------------------------------
(* What is left to apply. *)

Standing(t) == Added(t, att.upto) /\ ~Gone(t, att.upto)

(* An action stands until it is applied, whatever is applied before it. *)
ActOK(a) ==
  /\ a.kind # "void" =>
       /\ Standing(a.id) /\ a.status = StatusOf(a.id) /\ a.at = LastChange(a.id, att.upto)
       /\ a.key \in {a.id, PendingOf[a.id]} /\ link[a.id] \in {None, a.key}
  /\ a.kind = "create" =>
       /\ a.key = a.id /\ txn[a.key].status = "none"
       /\ PendingOf[a.id] # None => link[PendingOf[a.id]] = None
  /\ a.kind # "create" => a.key \in Live
  /\ a.kind = "void" => a.status = "voided" /\ \A t \in Ids : Standing(t) => link[t] # a.key

ActsFor(todo, key) == \E i \in DOMAIN todo : todo[i].key = key
ActsOn(todo, t) == \E i \in DOMAIN todo : todo[i].id = t /\ todo[i].kind # "void"

(* What the book does not yet show of the window, an action is left to do. *)
Applying(todo) ==
  /\ \A i \in DOMAIN todo : ActOK(todo[i])
  /\ \A i, j \in DOMAIN todo : todo[i].key = todo[j].key => i = j
  /\ \A k \in Live : Gone(txn[k].id, att.upto) => ActsFor(todo, k)
  /\ \A t \in Ids : Standing(t) =>
       \/ ActsOn(todo, t)
       \/ link[t] # None /\ (t \in W /\ Added(t, cursor) => txn[link[t]].at = LastChange(t, att.upto))

(* What the events of the window would still lead to. *)
Left == {ActFor(e) : e \in {f \in Proper : Due(f)}}
Exact(todo) == Readable(W) => {todo[i] : i \in DOMAIN todo} = Left

Refreshing(todo) ==
  \A k \in Live : ActsFor(todo, k) \/ txn[k].at = LastChange(txn[k].id, att.upto)

(* Between two windows, if no attempt has died. *)
Fresh ==
  /\ \A k \in Live : txn[k].at = LastChange(txn[k].id, cursor)
  /\ \A t \in Ids : link[t] # None => Added(t, cursor)

(* A transaction whose id has gone is not live under another, unless that     *)
(* other one settled it in the same window.                                   *)
LEMMA GoneAlone ==
  ASSUME AtWork, NEW e \in Proper, e.kind = "removed", NEW u \in Ids, Standing(u), KeyOf(u) = KeyOf(e.id)
  PROVE  FALSE
<1> DEFINE t == e.id
<1>1. t \in W /\ e = Ev(t)
  BY EventOf DEF Proper
<1>2. t \in Ids /\ Added(t, att.upto) /\ Gone(t, att.upto)
  BY <1>1, EventIs
<1>3. Added(u, att.upto) /\ ~Gone(u, att.upto) /\ u # t
  BY <1>2 DEF Standing
<1>4. PendingOf[u] = t
  BY <1>2, <1>3, KeyApart
<1>5. t # None
  BY <1>2 DEF AtWork, IngestAssumption
<1>6. ~Added(u, cursor)
  BY <1>1, <1>3, <1>4, <1>5, Settles
<1>7. u \in W
  BY <1>3, <1>6, TouchedIs DEF AtWork, CutsOK, End, W
<1>8. Ev(u) \in Events /\ Ev(u).id = u /\ Ev(u).kind = "added"
  BY <1>3, <1>6, <1>7, EventIs
<1>9. Ev(u) \in Proper
  BY <1>8 DEF Proper
<1> QED
  BY <1>8, <1>9, OneOnKey

(* The plan of a window is fit to be applied. *)
LEMMA PlanStands ==
  ASSUME AtPlan, NEW e \in Proper, Due(e)
  PROVE  ActOK(ActFor(e))
<1> DEFINE t == e.id
           k == KeyOf(t)
           a == ActFor(e)
<1>1. e \in Events /\ t \in W /\ e = Ev(t) /\ k \in Ids
  BY DueIs
<1>2. /\ t \in Ids /\ Added(t, att.upto) /\ e.status = StatusOf(t) /\ e.at = LastChange(t, att.upto)
      /\ e.kind \in {"added", "modified", "removed"} /\ (e.kind = "removed" <=> Gone(t, att.upto))
  BY <1>1, EventIs DEF AtPlan
<1>3. /\ k \in {t, PendingOf[t]}
      /\ link[t] # None => link[k] = k /\ k = link[t]
      /\ link[t] = None /\ k = t => link[k] = None
      /\ k # t => link[k] = k /\ PendingOf[t] # None
  BY <1>1, <1>2, KeyIs DEF AtPlan
<1>4. k # None
  BY <1>1 DEF AtPlan, AtWork, IngestAssumption
<1>5. CASE e.kind = "removed"
  <2>1. a.kind = "void" /\ a.key = k /\ a.status = "voided"
    BY <1>5 DEF ActFor, ViewAfter
  <2>2. k \in Live
    BY <1>5, DueIs
  <2>3. ASSUME NEW u \in Ids, Standing(u), link[u] = k PROVE FALSE
    <3>1. KeyOf(u) = k
      BY <1>4, <2>3 DEF KeyOf
    <3> QED
      BY <1>5, <2>3, <3>1, GoneAlone DEF AtPlan
  <2> HIDE DEF a
  <2> QED
    BY <2>1, <2>2, <2>3 DEF ActOK, a
<1>6. CASE e.kind # "removed"
  <2>1. /\ a.kind = IF link[k] = None THEN "create" ELSE "revise"
        /\ a.key = k /\ a.id = t /\ a.status = e.status /\ a.at = e.at
    BY <1>6 DEF ActFor, ViewAfter, ViewOf
  <2>2. Standing(t)
    BY <1>2, <1>6 DEF Standing
  <2>3. ASSUME link[k] = None
        PROVE  k = t /\ txn[k].status = "none" /\ (PendingOf[t] # None => link[PendingOf[t]] = None)
    <3>1. k = t
      BY <1>3, <1>4, <2>3
    <3>2. txn[k].status = "none"
      BY <1>1, <1>4, <2>3 DEF AtPlan, AtWork, BookOK
    <3>3. PendingOf[t] # None => link[PendingOf[t]] = None
      <4>1. PendingOf[t] # None => PendingOf[t] # t
        BY <1>2, Settles DEF AtPlan
      <4> QED
        BY <2>3, <3>1, <4>1 DEF KeyOf
    <3> QED
      BY <3>1, <3>2, <3>3
  <2>4. ASSUME link[k] # None PROVE k \in Live
    <3>1. CASE link[t] # None
      BY <1>2, <1>3, <1>6, <3>1, LinkIs DEF AtPlan
    <3>2. CASE link[t] = None
      <4>1. k = PendingOf[t] /\ link[k] = k /\ PendingOf[t] # None /\ e.kind = "added"
        BY <1>3, <2>4, <3>2 DEF Due
      <4>2. k \in W
        BY <1>1, <4>1, PairedIs DEF AtPlan
      <4>3. txn[k].status # "voided"
        BY <1>4, <4>1, <4>2 DEF AtPlan, Readable, W
      <4>4. txn[k].status # "none"
        BY <1>1, <1>4, <4>1, LinkIs DEF AtPlan
      <4> QED
        BY <1>1, <4>3, <4>4, LiveIs DEF AtPlan
    <3> QED
      BY <3>1, <3>2
  <2> HIDE DEF a
  <2> QED
    BY <1>2, <1>3, <2>1, <2>2, <2>3, <2>4 DEF ActOK, a
<1> QED
  BY <1>5, <1>6

(* What an action of a plan needs holds at once, and nothing is left unplanned. *)
LEMMA PlanApplies ==
  ASSUME AtPlan, NEW plan, Planned(plan, Proper)
  PROVE  /\ plan.acts \in Seq(Action) /\ Applying(plan.acts)
         /\ Fresh => Refreshing(plan.acts)
<1> DEFINE todo == plan.acts
           n == att.upto
<1>1. /\ todo \in Seq(Action)
      /\ \A i \in DOMAIN todo : \E e \in Proper : Due(e) /\ todo[i] = ActFor(e)
      /\ \A e \in Proper : Due(e) => \E i \in DOMAIN todo : todo[i] = ActFor(e)
      /\ \A i, j \in DOMAIN todo : todo[i].key = todo[j].key => i = j
  BY DEF Planned
<1> HIDE DEF todo
<1>2. \A i \in DOMAIN todo : ActOK(todo[i])
  BY <1>1, PlanStands
<1>3. ASSUME NEW e \in Proper, Due(e)
      PROVE  ActsFor(todo, KeyOf(e.id)) /\ (e.kind # "removed" => ActsOn(todo, e.id))
  <2>1. PICK i \in DOMAIN todo : todo[i] = ActFor(e)
    BY <1>1, <1>3
  <2>2. todo[i].key = KeyOf(e.id)
    BY <1>3, <2>1, DueIs
  <2>3. e.kind # "removed" => todo[i].id = e.id /\ todo[i].kind # "void"
    BY <2>1 DEF ActFor, ViewAfter, ViewOf
  <2> QED
    BY <2>2, <2>3 DEF ActsFor, ActsOn
<1>4. ASSUME NEW k \in Live, Gone(txn[k].id, n) PROVE ActsFor(todo, k)
  <2> DEFINE t == txn[k].id
  <2>1. k \in Ids /\ t \in Ids /\ link[t] = k /\ ~Gone(t, cursor) /\ Added(t, n) /\ k # None
    BY LiveIs DEF AtPlan, AtWork, IngestAssumption, Live
  <2>2. t \in W
    BY <1>4, <2>1, TouchedIs DEF AtPlan, AtWork, CutsOK, End, W
  <2>3. Ev(t) \in Events /\ Ev(t).id = t /\ Ev(t).kind = "removed"
    BY <1>4, <2>2, EventIs DEF AtPlan
  <2>4. KeyOf(t) = k
    BY <2>1 DEF KeyOf
  <2>5. CASE Ev(t) \in Proper
    <3>1. Due(Ev(t))
      BY <2>1, <2>3 DEF Due
    <3> QED
      BY <1>3, <2>3, <2>4, <2>5, <3>1
  <2>6. CASE Ev(t) \notin Proper
    <3>1. PICK p \in Paired(Events) : p.ref = t
      BY <2>3, <2>6 DEF Proper
    <3> DEFINE q == p.id
    <3>2. p \in Events /\ p.kind = "added" /\ PendingOf[q] = t
      BY <3>1, PairOf DEF AtPlan
    <3>3. q \in Ids /\ Added(q, n) /\ ~Gone(q, n)
      BY <3>2, EventOf, EventIs DEF AtPlan
    <3>4. PendingOf[q] # None /\ PendingOf[t] = None /\ t # q
      <4>1. t # None
        BY <2>1 DEF AtPlan, AtWork, IngestAssumption
      <4> QED
        BY <3>2, <3>3, <4>1, Settles DEF AtPlan
    <3>5. k = t
      BY <2>1, <3>4, LinkIs DEF AtPlan
    <3>6. link[q] = None
      <4> SUFFICES ASSUME link[q] # None PROVE FALSE
        OBVIOUS
      <4>1. link[q] \in {q, t} /\ txn[link[q]].id = q
        BY <3>2, <3>3, LinkIs DEF AtPlan
      <4>2. CASE link[q] = q
        BY <2>1, <3>2, <3>3, <3>4, <4>2 DEF AtPlan, AtWork, BookOK
      <4>3. CASE link[q] = t
        BY <3>4, <3>5, <4>1, <4>3
      <4> QED
        BY <4>1, <4>2, <4>3
    <3>7. p \in Proper /\ Due(p) /\ KeyOf(q) = k
      BY <2>1, <3>2, <3>4, <3>5, <3>6 DEF Proper, Due, KeyOf
    <3> QED
      BY <1>3, <3>7
  <2> QED
    BY <2>5, <2>6
<1>5. ASSUME NEW t \in Ids, Standing(t)
      PROVE  \/ ActsOn(todo, t)
             \/ link[t] # None /\ (t \in W /\ Added(t, cursor) => txn[link[t]].at = LastChange(t, n))
  <2>1. Added(t, n) /\ ~Gone(t, n)
    BY <1>5 DEF Standing
  <2>2. CASE link[t] = None
    <3>1. ~Added(t, cursor)
      BY <2>1, <2>2 DEF AtPlan, AtWork, BookOK, End
    <3>2. t \in W
      BY <2>1, <3>1, TouchedIs DEF AtPlan, AtWork, CutsOK, End, W
    <3>3. Ev(t) \in Events /\ Ev(t).id = t /\ Ev(t).kind = "added"
      BY <2>1, <3>1, <3>2, EventIs DEF AtPlan
    <3>4. Ev(t) \in Proper /\ Due(Ev(t))
      BY <2>2, <3>3 DEF Proper, Due
    <3> QED
      BY <1>3, <3>3, <3>4
  <2>3. CASE link[t] # None /\ t \in W /\ Added(t, cursor)
    <3>1. Ev(t) \in Events /\ Ev(t).id = t /\ Ev(t).kind = "modified" /\ Ev(t).at = LastChange(t, n)
      BY <2>1, <2>3, EventIs DEF AtPlan
    <3>2. Ev(t) \in Proper
      BY <3>1 DEF Proper
    <3>3. CASE Due(Ev(t))
      BY <1>3, <3>1, <3>2, <3>3
    <3>4. CASE ~Due(Ev(t))
      <4>1. Shows(link[t]) = ViewOf(Ev(t), link[t])
        BY <2>3, <3>1, <3>4 DEF Due
      <4>2. Shows(link[t]).at = txn[link[t]].at /\ ViewOf(Ev(t), link[t]).at = Ev(t).at
        BY DEF Shows, ViewOf
      <4> QED
        BY <2>3, <3>1, <4>1, <4>2
    <3> QED
      BY <3>3, <3>4
  <2> QED
    BY <2>2, <2>3
<1>6. Applying(todo)
  BY <1>1, <1>2, <1>4, <1>5 DEF Applying
<1>7. ASSUME Fresh, NEW k \in Live
      PROVE  ActsFor(todo, k) \/ txn[k].at = LastChange(txn[k].id, n)
  <2> DEFINE t == txn[k].id
  <2>1. k \in Ids /\ t \in Ids /\ link[t] = k /\ Added(t, n) /\ k # None
    BY LiveIs DEF AtPlan, AtWork, IngestAssumption, Live
  <2>2. Added(t, cursor) /\ txn[k].at = LastChange(t, cursor)
    BY <1>7, <2>1 DEF Fresh
  <2>3. CASE Gone(t, n)
    BY <1>4, <2>3
  <2>4. CASE ~Gone(t, n) /\ t \in W
    <3>1. ActsOn(todo, t) \/ txn[k].at = LastChange(t, n)
      BY <1>5, <2>1, <2>2, <2>4 DEF Standing
    <3>2. ASSUME ActsOn(todo, t) PROVE ActsFor(todo, k)
      <4>1. PICK i \in DOMAIN todo : todo[i].id = t /\ todo[i].kind # "void"
        BY <3>2 DEF ActsOn
      <4>2. link[t] \in {None, todo[i].key}
        BY <1>2, <4>1 DEF ActOK
      <4> QED
        BY <2>1, <4>2 DEF ActsFor
    <3> QED
      BY <3>1, <3>2
  <2>5. CASE t \notin W
    <3>1. Changes(t, n) = Changes(t, cursor)
      BY <2>5, TouchedIs DEF AtPlan, AtWork, CutsOK, End, W
    <3> QED
      BY <2>2, <3>1 DEF LastChange
  <2> QED
    BY <2>3, <2>4, <2>5
<1> QED
  BY <1>1, <1>6, <1>7 DEF todo, Refreshing

-----------------------------------------------------------------------------
(* One action. *)

(* While the feed does not move, what it says does not. *)
LEMMA SameFeed ==
  ASSUME feed' = feed
  PROVE  \A t, n, m : /\ Added(t, n)' = Added(t, n) /\ Gone(t, n)' = Gone(t, n)
                      /\ LastChange(t, n)' = LastChange(t, n) /\ Touched(m, n)' = Touched(m, n)
BY DEF Added, Gone, LastChange, Changes, Happened, Touched

LEMMA TailIs ==
  ASSUME NEW todo \in Seq(Action), todo # <<>>
  PROVE  /\ Head(todo) = todo[1] /\ 1 \in DOMAIN todo /\ Head(todo) \in Action
         /\ Tail(todo) \in Seq(Action)
         /\ \A i \in DOMAIN Tail(todo) : i + 1 \in DOMAIN todo /\ Tail(todo)[i] = todo[i + 1] /\ i + 1 # 1
         /\ \A i \in DOMAIN todo : i # 1 => i - 1 \in DOMAIN Tail(todo) /\ Tail(todo)[i - 1] = todo[i]
         /\ \A i, j \in DOMAIN Tail(todo) : i + 1 = j + 1 => i = j
<1>1. Len(todo) \in Nat /\ Len(todo) # 0 /\ DOMAIN todo = 1 .. Len(todo)
  OBVIOUS
<1>2. /\ Tail(todo) \in Seq(Action) /\ DOMAIN Tail(todo) = 1 .. Len(todo) - 1
      /\ \A i \in 1 .. Len(todo) - 1 : Tail(todo)[i] = todo[i + 1]
  BY <1>1
<1> QED
  BY <1>1, <1>2

(* The next action is always admitted: an attempt never fails half way. *)
LEMMA ActEffect ==
  ASSUME AtWork, att \in [pc : {"idle", "plan", "apply"}, upto : Nat, todo : Seq(Action)],
         Applying(att.todo), ApplyAction,
         NEW a, a = Head(att.todo)
  PROVE  /\ txn' = [txn EXCEPT ![a.key] = [status |-> a.status, id |-> a.id, at |-> a.at]]
         /\ link' = IF a.kind = "void" THEN link ELSE [link EXCEPT ![a.id] = a.key]
         /\ att'.pc = "apply" /\ att'.upto = att.upto /\ att'.todo = Tail(att.todo)
         /\ att' \in [pc : {"idle", "plan", "apply"}, upto : Nat, todo : Seq(Action)]
         /\ feed' = feed /\ cursor' = cursor /\ crashes' = crashes
         /\ att.todo \in Seq(Action) /\ att.todo # <<>> /\ a \in Action /\ ActOK(a)
<1>1. att.todo \in Seq(Action) /\ att.todo # <<>> /\ att.pc = "apply"
  BY DEF ApplyAction
<1>2. a = att.todo[1] /\ 1 \in DOMAIN att.todo /\ a \in Action /\ Tail(att.todo) \in Seq(Action)
  BY <1>1, TailIs
<1>3. ActOK(a)
  BY <1>2 DEF Applying
<1>4. IF a.kind = "create" THEN txn[a.key].status = "none" ELSE txn[a.key].status \in {"pending", "posted"}
  BY <1>3 DEF ActOK, Live
<1>5. /\ txn' = [txn EXCEPT ![a.key] = [status |-> a.status, id |-> a.id, at |-> a.at]]
      /\ link' = IF a.kind = "void" THEN link ELSE [link EXCEPT ![a.id] = a.key]
      /\ att' = [att EXCEPT !.todo = Tail(att.todo)]
      /\ feed' = feed /\ cursor' = cursor /\ crashes' = crashes
  BY <1>4, Zenon DEF ApplyAction
<1>6. att'.pc = "apply" /\ att'.upto = att.upto /\ att'.todo = Tail(att.todo)
      /\ att' \in [pc : {"idle", "plan", "apply"}, upto : Nat, todo : Seq(Action)]
  BY <1>1, <1>2, <1>5
<1> QED
  BY <1>1, <1>2, <1>3, <1>5, <1>6

(* What remains to be done on the other keys still stands. *)
LEMMA Remains ==
  ASSUME NEW todo \in Seq(Action), todo # <<>>,
         \A i, j \in DOMAIN todo : todo[i].key = todo[j].key => i = j
  PROVE  /\ \A i \in DOMAIN Tail(todo) : \E j \in DOMAIN todo : Tail(todo)[i] = todo[j] /\ todo[j].key # Head(todo).key
         /\ \A k : ActsFor(todo, k) /\ k # Head(todo).key => ActsFor(Tail(todo), k)
         /\ \A t : ActsOn(todo, t) => ActsOn(Tail(todo), t) \/ (Head(todo).id = t /\ Head(todo).kind # "void")
         /\ \A i, j \in DOMAIN Tail(todo) : Tail(todo)[i].key = Tail(todo)[j].key => i = j
<1>1. ASSUME NEW i \in DOMAIN Tail(todo)
      PROVE  i + 1 \in DOMAIN todo /\ Tail(todo)[i] = todo[i + 1] /\ todo[i + 1].key # Head(todo).key
  BY TailIs
<1>2. ASSUME NEW i \in DOMAIN todo
      PROVE  todo[i] = Head(todo) \/ \E j \in DOMAIN Tail(todo) : Tail(todo)[j] = todo[i]
  BY TailIs
<1>3. ASSUME NEW i \in DOMAIN Tail(todo), NEW j \in DOMAIN Tail(todo), Tail(todo)[i].key = Tail(todo)[j].key
      PROVE  i = j
  BY <1>1, <1>3, TailIs
<1> QED
  BY <1>1, <1>2, <1>3 DEF ActsFor, ActsOn

(* A void keeps the book right: no listed id has the transaction. *)
LEMMA ApplyVoid ==
  ASSUME AtWork, att.pc = "apply", att \in [pc : {"idle", "plan", "apply"}, upto : Nat, todo : Seq(Action)],
         Applying(att.todo), ApplyAction, Head(att.todo).kind = "void"
  PROVE  BookOK' /\ Applying(att.todo)' /\ (Refreshing(att.todo) => Refreshing(att.todo)')
<1> DEFINE a == Head(att.todo)
           k == a.key
           todo == att.todo
           rest == Tail(att.todo)
<1>0. a.kind = "void"
  OBVIOUS
<1> HIDE DEF a
<1>1. /\ txn' = [txn EXCEPT ![k] = [status |-> a.status, id |-> a.id, at |-> a.at]]
      /\ link' = link /\ feed' = feed /\ cursor' = cursor
      /\ att'.pc = "apply" /\ att'.upto = att.upto /\ att'.todo = rest
      /\ todo \in Seq(Action) /\ todo # <<>> /\ a \in Action /\ ActOK(a)
  BY <1>0, ActEffect DEF a
<1>2. /\ k \in Live /\ k \in Ids /\ a.status = "voided" /\ link[k] = k
      /\ \A t \in Ids : Standing(t) => link[t] # k
  <2>1. k \in Live /\ a.status = "voided" /\ \A t \in Ids : Standing(t) => link[t] # k
    BY <1>0, <1>1 DEF ActOK
  <2> QED
    BY <2>1 DEF Live, AtWork, BookOK
<1>3. /\ txn \in [Ids -> Record] /\ link \in [Ids -> Ids \cup {None}]
      /\ \A j \in Ids : txn[j].status # "none" => link[j] = j
      /\ \A t \in Ids : Added(t, cursor) /\ ~Gone(t, att.upto) => link[t] # None
      /\ \A q \in Ids : link[q] = q /\ PendingOf[q] # None => link[PendingOf[q]] = None
  BY DEF AtWork, BookOK, End
<1>4. txn' \in [Ids -> Record] /\ txn'[k].status = "voided" /\ \A j \in Ids : j # k => txn'[j] = txn[j]
  <2>1. [status |-> a.status, id |-> a.id, at |-> a.at] \in Record
    BY <1>1 DEF Action, Record
  <2> QED
    BY <1>1, <1>2, <1>3, <2>1
<1>5. Live' = Live \ {k}
  BY <1>1, <1>4 DEF Live
<1>6. /\ End = att.upto /\ End' = att.upto
      /\ \A t, n : Added(t, n)' = Added(t, n) /\ Gone(t, n)' = Gone(t, n) /\ LastChange(t, n)' = LastChange(t, n)
      /\ W' = W /\ \A t : Standing(t)' = Standing(t)
  <2>1. \A t, n, m : /\ Added(t, n)' = Added(t, n) /\ Gone(t, n)' = Gone(t, n)
                     /\ LastChange(t, n)' = LastChange(t, n) /\ Touched(m, n)' = Touched(m, n)
    BY <1>1, SameFeed
  <2>2. End = att.upto /\ End' = att.upto
    BY <1>1 DEF End
  <2> QED
    BY <1>1, <2>1, <2>2 DEF W, Standing
<1>7. /\ \A i \in DOMAIN rest : \E j \in DOMAIN todo : rest[i] = todo[j] /\ todo[j].key # k
      /\ \A j : ActsFor(todo, j) /\ j # k => ActsFor(rest, j)
      /\ \A t : ActsOn(todo, t) => ActsOn(rest, t)
      /\ \A i, j \in DOMAIN rest : rest[i].key = rest[j].key => i = j
  <2>1. \A i, j \in DOMAIN todo : todo[i].key = todo[j].key => i = j
    BY DEF Applying
  <2> QED
    BY <1>0, <1>1, <2>1, Remains DEF a
<1>8. \A t \in Ids : link[t] # None => link[t] \in Ids
  BY <1>3
<1>9. Linked'
  <2>1. ASSUME NEW t \in Ids, link[t] # None
        PROVE  txn'[link[t]].status # "none" /\ link[t] \in {t, PendingOf[t]} /\ Added(t, att.upto)
    BY <1>4, <1>8, <2>1, LinkIs
  <2> QED
    BY <1>1, <1>6, <2>1 DEF Linked
<1>10. Showing'
  <2>1. ASSUME NEW t \in Ids, link[t] # None, ~Gone(t, att.upto)
        PROVE  link[t] \in Live \ {k} /\ txn'[link[t]].id = t
    <3>1. Standing(t)
      BY <2>1, LinkIs DEF Standing
    <3> QED
      BY <1>2, <1>4, <1>8, <2>1, <3>1, LinkIs
  <2> QED
    BY <1>1, <1>5, <1>6, <2>1 DEF Showing
<1>11. Lively'
  <2>1. ASSUME NEW j \in Live \ {k}
        PROVE  /\ txn'[j].id \in Ids /\ link[txn'[j].id] = j
               /\ txn'[j].status = StatusOf(txn'[j].id) /\ ~Gone(txn'[j].id, cursor)
    <3>1. j \in Ids
      BY DEF Live
    <3> QED
      BY <1>4, <2>1, <3>1, LiveIs
  <2> QED
    BY <1>1, <1>5, <1>6, <2>1 DEF Lively
<1>12. BookOK'
  <2>1. \A j \in Ids : txn'[j].status # "none" => link'[j] = j
    BY <1>1, <1>2, <1>3, <1>4
  <2> QED
    BY <1>1, <1>3, <1>4, <1>6, <1>9, <1>10, <1>11, <2>1 DEF BookOK
<1>13. \A i \in DOMAIN rest : \E b \in Action : rest[i] = b /\ ActOK(b)'
  <2>1. ASSUME NEW b, ActOK(b), b.key # k, b \in Action PROVE ActOK(b)'
    <3>1. b.key \in Ids /\ txn'[b.key] = txn[b.key]
      BY <1>4, <2>1 DEF Action
    <3> QED
      BY <1>1, <1>5, <1>6, <2>1, <3>1 DEF ActOK
  <2>2. \A i \in DOMAIN todo : ActOK(todo[i]) /\ todo[i] \in Action
    BY <1>1 DEF Applying
  <2>3. ASSUME NEW i \in DOMAIN rest PROVE \E b \in Action : rest[i] = b /\ ActOK(b)'
    <3>1. PICK j \in DOMAIN todo : rest[i] = todo[j] /\ todo[j].key # k
      BY <1>7
    <3>2. PICK b \in Action : b = todo[j] /\ ActOK(b) /\ b.key # k
      BY <2>2, <3>1
    <3> QED
      BY <2>1, <3>1, <3>2
  <2> QED
    BY <2>3
<1>14. ASSUME NEW j \in Live \ {k}, Gone(txn'[j].id, att.upto) PROVE ActsFor(rest, j)
  <2>1. j \in Ids /\ txn'[j] = txn[j]
    BY <1>4 DEF Live
  <2> QED
    BY <1>7, <1>14, <2>1 DEF Applying
<1>15. ASSUME NEW t \in Ids, Standing(t)
       PROVE  \/ ActsOn(rest, t)
              \/ link[t] # None /\ (t \in W /\ Added(t, cursor) => txn'[link[t]].at = LastChange(t, att.upto))
  BY <1>2, <1>4, <1>7, <1>8, <1>15 DEF Applying
<1>16. Applying(att.todo)'
  BY <1>1, <1>5, <1>6, <1>7, <1>13, <1>14, <1>15 DEF Applying
<1>17. ASSUME Refreshing(todo), NEW j \in Live \ {k}
       PROVE  ActsFor(rest, j) \/ txn'[j].at = LastChange(txn'[j].id, att.upto)
  <2>1. j \in Ids /\ txn'[j] = txn[j]
    BY <1>4 DEF Live
  <2> QED
    BY <1>7, <1>17, <2>1 DEF Refreshing
<1>18. Refreshing(todo) => Refreshing(att.todo)'
  BY <1>1, <1>5, <1>6, <1>17 DEF Refreshing
<1> QED
  BY <1>12, <1>16, <1>18

(* A creation or a revision: the id becomes what its transaction shows. *)
LEMMA ActAlone ==
  ASSUME AtWork, NEW a, ActOK(a), a.kind # "void", a.id \in Ids, a.key \in Ids
  PROVE  /\ a.key = a.id \/ (a.key = PendingOf[a.id] /\ a.key \in Live)
         /\ a.kind # "create" => link[a.key] = a.key
         /\ \A u \in Ids : Standing(u) /\ link[u] = a.key => u = a.id
         /\ \A u \in Ids : Added(u, att.upto) => PendingOf[u] # a.id
         /\ ~Gone(a.id, cursor)
<1> DEFINE t == a.id
           k == a.key
<1>1. Added(t, att.upto) /\ ~Gone(t, att.upto) /\ k \in {t, PendingOf[t]}
  BY DEF ActOK, Standing
<1>2. t # None /\ k # None
  BY DEF AtWork, IngestAssumption
<1>3. \A u \in Ids : Added(u, att.upto) => PendingOf[u] # t
  BY <1>1, <1>2, Settles
<1>4. ASSUME NEW u \in Ids, Standing(u), link[u] = k PROVE u = t
  <2>1. Added(u, att.upto) /\ ~Gone(u, att.upto) /\ k \in {u, PendingOf[u]}
    BY <1>2, <1>4, LinkIs DEF Standing
  <2>2. PendingOf[u] # t
    BY <1>3, <2>1
  <2>3. PendingOf[t] # u
    BY <1>1, <1>2, <2>1, Settles DEF AtWork, IngestAssumption
  <2>4. PendingOf[u] = PendingOf[t] /\ PendingOf[t] # None => u = t
    BY <1>1, <2>1, Settles
  <2> QED
    BY <1>1, <1>2, <2>1, <2>2, <2>3, <2>4
<1>5. a.kind # "create" => k \in Live /\ link[k] = k
  <2>1. a.kind # "create" => k \in Live
    BY DEF ActOK
  <2> QED
    BY <2>1 DEF Live, AtWork, BookOK
<1>6. a.kind = "create" => k = t
  BY DEF ActOK
<1>7. ~Gone(t, cursor)
  <2>1. FeedOK /\ cursor \in Nat /\ att.upto \in Nat /\ cursor <= att.upto /\ att.upto <= Len(feed)
    BY DEF AtWork, CutsOK, End
  <2> QED
    BY <1>1, <2>1, FeedOrder
<1> QED
  BY <1>1, <1>3, <1>4, <1>5, <1>6, <1>7

(* No two actions of a plan are about one id under two keys. *)
LEMMA OneActEach ==
  ASSUME AtWork, NEW a, ActOK(a), a.kind # "void", a.id \in Ids, a.key \in Ids,
         NEW b, ActOK(b), b.kind # "void", b.id = a.id, b.key \in Ids
  PROVE  a.key = b.key
<1>1. /\ a.key = a.id \/ (a.key = PendingOf[a.id] /\ a.key \in Live /\ link[a.key] = a.key)
      /\ b.key = a.id \/ (b.key = PendingOf[a.id] /\ b.key \in Live /\ link[b.key] = b.key)
  BY ActAlone DEF Live, AtWork, BookOK
<1>2. None \notin Ids
  BY DEF AtWork, IngestAssumption
<1>3. ASSUME NEW c, ActOK(c), c.kind # "void", c.id = a.id, c.key = a.id,
             PendingOf[a.id] \in Ids, link[PendingOf[a.id]] # None, a.id # PendingOf[a.id],
             NEW d, ActOK(d), d.kind # "void", d.id = a.id, d.key = PendingOf[a.id]
      PROVE  FALSE
  <2>1. CASE c.kind = "create"
    BY <1>2, <1>3, <2>1 DEF ActOK
  <2>2. CASE c.kind # "create"
    <3>1. link[a.id] = a.id
      BY <1>3, <2>2, ActAlone
    <3>2. link[a.id] \in {None, PendingOf[a.id]}
      BY <1>3 DEF ActOK
    <3> QED
      BY <1>2, <1>3, <3>1, <3>2
  <2> QED
    BY <2>1, <2>2
<1> SUFFICES ASSUME a.key # b.key PROVE FALSE
  OBVIOUS
<1>4. CASE a.key = a.id
  BY <1>1, <1>2, <1>3, <1>4
<1>5. CASE b.key = a.id
  BY <1>1, <1>2, <1>3, <1>5
<1> QED
  BY <1>1, <1>4, <1>5

(* A creation or a revision keeps the book right, and the other actions in place. *)
LEMMA ApplyWrite ==
  ASSUME AtWork, att.pc = "apply", att \in [pc : {"idle", "plan", "apply"}, upto : Nat, todo : Seq(Action)],
         Applying(att.todo), ApplyAction, Head(att.todo).kind # "void"
  PROVE  BookOK' /\ Applying(att.todo)' /\ (Refreshing(att.todo) => Refreshing(att.todo)')
<1> DEFINE a == Head(att.todo)
           t == a.id
           k == a.key
           todo == att.todo
           rest == Tail(att.todo)
<1>0. a.kind # "void"
  OBVIOUS
<1> HIDE DEF a
<1>1. /\ txn' = [txn EXCEPT ![k] = [status |-> a.status, id |-> a.id, at |-> a.at]]
      /\ link' = [link EXCEPT ![t] = k] /\ feed' = feed /\ cursor' = cursor
      /\ att'.pc = "apply" /\ att'.upto = att.upto /\ att'.todo = rest
      /\ todo \in Seq(Action) /\ todo # <<>> /\ a \in Action /\ ActOK(a)
  BY <1>0, ActEffect DEF a
<1>2. /\ t \in Ids /\ k \in Ids /\ a.status = StatusOf(t) /\ a.at = LastChange(t, att.upto)
      /\ Standing(t) /\ link[t] \in {None, k} /\ Added(t, att.upto) /\ ~Gone(t, att.upto)
      /\ t # None /\ k # None
  <2>1. k \in Ids
    BY <1>1 DEF Action
  <2>2. /\ a.status = StatusOf(t) /\ a.at = LastChange(t, att.upto) /\ Standing(t) /\ link[t] \in {None, k}
    BY <1>0, <1>1 DEF ActOK
  <2>3. t \in Ids
    BY <2>2, FeedOrder DEF Standing, AtWork, CutsOK, End
  <2> QED
    BY <2>1, <2>2, <2>3 DEF Standing, AtWork, IngestAssumption
<1>3. /\ txn \in [Ids -> Record] /\ link \in [Ids -> Ids \cup {None}]
      /\ \A j \in Ids : txn[j].status # "none" => link[j] = j
      /\ \A u \in Ids : Added(u, cursor) /\ ~Gone(u, att.upto) => link[u] # None
      /\ \A q \in Ids : link[q] = q /\ PendingOf[q] # None => link[PendingOf[q]] = None
  BY DEF AtWork, BookOK, End
<1>4. /\ k = t \/ (k = PendingOf[t] /\ k \in Live)
      /\ a.kind # "create" => link[k] = k
      /\ \A u \in Ids : Standing(u) /\ link[u] = k => u = t
      /\ \A u \in Ids : Added(u, att.upto) => PendingOf[u] # t
      /\ ~Gone(t, cursor)
  BY <1>0, <1>1, <1>2, ActAlone
<1>5. /\ txn' \in [Ids -> Record] /\ link' \in [Ids -> Ids \cup {None}]
      /\ txn'[k].status = StatusOf(t) /\ txn'[k].id = t /\ txn'[k].at = LastChange(t, att.upto)
      /\ \A j \in Ids : j # k => txn'[j] = txn[j]
      /\ link'[t] = k /\ \A u \in Ids : u # t => link'[u] = link[u]
  <2>1. [status |-> a.status, id |-> a.id, at |-> a.at] \in Record
    BY <1>1 DEF Action, Record
  <2> QED
    BY <1>1, <1>2, <1>3, <2>1
<1>6. Live' = Live \cup {k}
  <2>1. StatusOf(t) \in {"pending", "posted"}
    BY DEF StatusOf
  <2> QED
    BY <1>2, <1>5, <2>1 DEF Live
<1>7. /\ End = att.upto /\ End' = att.upto
      /\ \A u, n : Added(u, n)' = Added(u, n) /\ Gone(u, n)' = Gone(u, n) /\ LastChange(u, n)' = LastChange(u, n)
      /\ W' = W /\ \A u : Standing(u)' = Standing(u)
  <2>1. \A u, n, m : /\ Added(u, n)' = Added(u, n) /\ Gone(u, n)' = Gone(u, n)
                     /\ LastChange(u, n)' = LastChange(u, n) /\ Touched(m, n)' = Touched(m, n)
    BY <1>1, SameFeed
  <2>2. End = att.upto /\ End' = att.upto
    BY <1>1 DEF End
  <2> QED
    BY <1>1, <2>1, <2>2 DEF W, Standing
<1>8. /\ \A i \in DOMAIN rest : \E j \in DOMAIN todo : rest[i] = todo[j] /\ todo[j].key # k
      /\ \A j : ActsFor(todo, j) /\ j # k => ActsFor(rest, j)
      /\ \A u : ActsOn(todo, u) => ActsOn(rest, u) \/ u = t
      /\ \A i, j \in DOMAIN rest : rest[i].key = rest[j].key => i = j
  <2>1. \A i, j \in DOMAIN todo : todo[i].key = todo[j].key => i = j
    BY DEF Applying
  <2> QED
    BY <1>1, <2>1, Remains DEF a
(* What an id other than t is linked to is as it was, and other than k if it is listed. *)
<1>9. ASSUME NEW u \in Ids, u # t, link[u] # None
      PROVE  /\ link'[u] = link[u] /\ link[u] \in Ids
             /\ link[u] # k => txn'[link[u]] = txn[link[u]]
             /\ Standing(u) => link[u] # k
  BY <1>3, <1>4, <1>5, <1>9
<1>10. Linked'
  <2>1. ASSUME NEW u \in Ids, link'[u] # None
        PROVE  txn'[link'[u]].status # "none" /\ link'[u] \in {u, PendingOf[u]} /\ Added(u, att.upto)
    <3>1. StatusOf(t) # "none"
      BY DEF StatusOf
    <3>2. CASE u = t
      BY <1>2, <1>4, <1>5, <3>1, <3>2
    <3>3. CASE u # t
      <4>1. link[u] # None
        BY <1>5, <2>1, <3>3
      <4>2. txn[link[u]].status # "none" /\ link[u] \in {u, PendingOf[u]} /\ Added(u, att.upto)
        BY <4>1, LinkIs
      <4> QED
        BY <1>5, <1>9, <3>1, <3>3, <4>1, <4>2
    <3> QED
      BY <3>2, <3>3
  <2> QED
    BY <1>7, <2>1 DEF Linked
<1>11. Showing'
  <2>1. ASSUME NEW u \in Ids, link'[u] # None, ~Gone(u, att.upto)
        PROVE  link'[u] \in Live \cup {k} /\ txn'[link'[u]].id = u
    <3>1. CASE u = t
      BY <1>5, <3>1
    <3>2. CASE u # t
      <4>1. link[u] # None
        BY <1>5, <2>1, <3>2
      <4>2. Standing(u) /\ link[u] \in Live /\ txn[link[u]].id = u
        BY <2>1, <4>1, LinkIs DEF Standing
      <4> QED
        BY <1>9, <3>2, <4>1, <4>2
    <3> QED
      BY <3>1, <3>2
  <2> QED
    BY <1>6, <1>7, <2>1 DEF Showing
<1>12. Lively'
  <2>1. ASSUME NEW j \in Live \cup {k}
        PROVE  /\ txn'[j].id \in Ids /\ link'[txn'[j].id] = j
               /\ txn'[j].status = StatusOf(txn'[j].id) /\ ~Gone(txn'[j].id, cursor)
    <3>1. CASE j = k
      BY <1>2, <1>4, <1>5, <3>1
    <3>2. CASE j # k
      <4>1. j \in Live /\ j \in Ids /\ txn'[j] = txn[j]
        BY <1>5, <3>2 DEF Live
      <4>2. /\ txn[j].id \in Ids /\ link[txn[j].id] = j
            /\ txn[j].status = StatusOf(txn[j].id) /\ ~Gone(txn[j].id, cursor)
        BY <4>1, LiveIs
      <4>3. txn[j].id # t
        BY <1>2, <3>2, <4>1, <4>2 DEF AtWork, IngestAssumption
      <4> QED
        BY <1>5, <4>1, <4>2, <4>3
    <3> QED
      BY <3>1, <3>2
  <2> QED
    BY <1>1, <1>6, <1>7, <2>1 DEF Lively
<1>13. ASSUME NEW j \in Ids, txn'[j].status # "none" PROVE link'[j] = j
  <2>1. CASE j = t
    BY <1>2, <1>3, <1>5, <1>13, <2>1
  <2>2. CASE j # t
    <3>1. j = k => link[j] = j
      BY <1>3, <1>4, <2>2 DEF Live
    <3> QED
      BY <1>3, <1>5, <1>13, <2>2, <3>1
  <2> QED
    BY <2>1, <2>2
<1>14. ASSUME NEW q \in Ids, link'[q] = q, PendingOf[q] # None PROVE link'[PendingOf[q]] = None
  <2>1. PendingOf[q] \in Ids
    BY <1>14 DEF AtWork, IngestAssumption
  <2>2. CASE q = t
    <3>1. k = t
      BY <1>5, <1>14, <2>2
    <3>2. PendingOf[t] # t
      BY <1>2, <1>14, <2>2, Settles
    <3>3. CASE a.kind = "create"
      BY <1>1, <1>5, <1>14, <2>1, <2>2, <3>2, <3>3 DEF ActOK
    <3>4. CASE a.kind # "create"
      BY <1>3, <1>4, <1>5, <1>14, <2>1, <2>2, <3>1, <3>2, <3>4
    <3> QED
      BY <3>3, <3>4
  <2>3. CASE q # t
    <3>1. link[q] = q
      BY <1>5, <1>14, <2>3
    <3>2. q # None
      BY DEF AtWork, IngestAssumption
    <3>3. PendingOf[q] # t
      BY <1>4, <3>1, <3>2, LinkIs
    <3> QED
      BY <1>3, <1>5, <1>14, <2>1, <3>1, <3>3
  <2> QED
    BY <2>2, <2>3
<1>15. \A u \in Ids : Added(u, cursor) /\ ~Gone(u, att.upto) => link'[u] # None
  BY <1>2, <1>3, <1>5
<1>16. BookOK'
  BY <1>1, <1>5, <1>7, <1>10, <1>11, <1>12, <1>13, <1>14, <1>15 DEF BookOK
<1>17. \A i \in DOMAIN rest : \E b \in Action : rest[i] = b /\ ActOK(b)'
  <2>1. ASSUME NEW b \in Action, ActOK(b), b.key # k PROVE ActOK(b)'
    <3>1. b.key \in Ids /\ txn'[b.key] = txn[b.key]
      BY <1>5, <2>1 DEF Action
    <3>2. ASSUME b.kind # "void"
          PROVE  b.id \in Ids /\ b.id # t /\ link'[b.id] = link[b.id] /\ Added(b.id, att.upto)
      <4>1. Standing(b.id)
        BY <2>1, <3>2 DEF ActOK
      <4>2. b.id \in Ids /\ Added(b.id, att.upto)
        BY <4>1, FeedOrder DEF Standing, AtWork, CutsOK, End
      <4>3. b.id # t
        BY <1>0, <1>1, <1>2, <2>1, <3>1, <3>2, OneActEach
      <4> QED
        BY <1>5, <4>2, <4>3
    <3>3. ASSUME b.kind = "create", PendingOf[b.id] # None PROVE link'[PendingOf[b.id]] = None
      <4>1. PendingOf[b.id] # t /\ PendingOf[b.id] \in Ids
        BY <1>4, <3>2, <3>3 DEF AtWork, IngestAssumption
      <4>2. link[PendingOf[b.id]] = None
        BY <2>1, <3>3 DEF ActOK
      <4> QED
        BY <1>5, <4>1, <4>2
    <3>4. ASSUME b.kind = "void", NEW u \in Ids, Standing(u) PROVE link'[u] # b.key
      <4>1. link[u] # b.key
        BY <2>1, <3>4 DEF ActOK
      <4> QED
        BY <1>5, <2>1, <4>1
    <3>5. b.kind # "void" => /\ Standing(b.id) /\ b.status = StatusOf(b.id) /\ b.at = LastChange(b.id, att.upto)
                             /\ b.key \in {b.id, PendingOf[b.id]} /\ link'[b.id] \in {None, b.key}
      BY <2>1, <3>2 DEF ActOK
    <3>6. /\ b.kind = "create" => b.key = b.id /\ txn'[b.key].status = "none"
          /\ b.kind # "create" => b.key \in Live'
          /\ b.kind = "void" => b.status = "voided"
      BY <1>6, <2>1, <3>1 DEF ActOK
    <3> QED
      BY <1>1, <1>7, <3>3, <3>4, <3>5, <3>6 DEF ActOK
  <2>2. \A i \in DOMAIN todo : ActOK(todo[i]) /\ todo[i] \in Action
    BY <1>1 DEF Applying
  <2>3. ASSUME NEW i \in DOMAIN rest PROVE \E b \in Action : rest[i] = b /\ ActOK(b)'
    <3>1. PICK j \in DOMAIN todo : rest[i] = todo[j] /\ todo[j].key # k
      BY <1>8
    <3>2. PICK b \in Action : b = todo[j] /\ ActOK(b) /\ b.key # k
      BY <2>2, <3>1
    <3> QED
      BY <2>1, <3>1, <3>2
  <2> QED
    BY <2>3
<1>18. ASSUME NEW j \in Live \cup {k}, Gone(txn'[j].id, att.upto) PROVE ActsFor(rest, j)
  <2>1. j # k
    BY <1>2, <1>5, <1>18
  <2>2. j \in Ids /\ j \in Live /\ txn'[j] = txn[j]
    BY <1>5, <2>1 DEF Live
  <2> QED
    BY <1>8, <1>18, <2>1, <2>2 DEF Applying
<1>19. ASSUME NEW u \in Ids, Standing(u)
       PROVE  \/ ActsOn(rest, u)
              \/ link'[u] # None /\ (u \in W /\ Added(u, cursor) => txn'[link'[u]].at = LastChange(u, att.upto))
  <2>1. CASE u = t
    BY <1>2, <1>5, <2>1
  <2>2. CASE u # t
    <3>1. \/ ActsOn(todo, u)
          \/ link[u] # None /\ (u \in W /\ Added(u, cursor) => txn[link[u]].at = LastChange(u, att.upto))
      BY <1>19 DEF Applying
    <3> QED
      BY <1>8, <1>9, <1>19, <2>2, <3>1
  <2> QED
    BY <2>1, <2>2
<1>20. Applying(att.todo)'
  BY <1>1, <1>6, <1>7, <1>8, <1>17, <1>18, <1>19 DEF Applying
<1>21. ASSUME Refreshing(todo), NEW j \in Live \cup {k}
       PROVE  ActsFor(rest, j) \/ txn'[j].at = LastChange(txn'[j].id, att.upto)
  <2>1. CASE j = k
    BY <1>5, <2>1
  <2>2. CASE j # k
    <3>1. j \in Ids /\ j \in Live /\ txn'[j] = txn[j]
      BY <1>5, <2>2 DEF Live
    <3> QED
      BY <1>8, <1>21, <2>2, <3>1 DEF Refreshing
  <2> QED
    BY <2>1, <2>2
<1>22. Refreshing(todo) => Refreshing(att.todo)'
  BY <1>1, <1>6, <1>7, <1>21 DEF Refreshing
<1> QED
  BY <1>16, <1>20, <1>22

-----------------------------------------------------------------------------
(* The provider's updates, and what the book says as they come. *)

(* The feed grows at its end. *)
Grown == Len(feed) <= Len(feed') /\ \A i \in 1 .. Len(feed) : feed'[i] = feed[i]

(* What happened stays so in a longer feed. *)
LEMMA Onward ==
  ASSUME FeedOK, Grown, NEW m \in Nat, NEW n \in Nat, m <= n, m <= Len(feed), NEW t
  PROVE  (Added(t, m) => Added(t, n)') /\ (Gone(t, m) => Gone(t, n)')
<1>1. Len(feed) \in Nat
  BY UpdateIs
<1>2. ASSUME NEW op, NEW i \in 0 + 1 .. m, feed[i] = [id |-> t, op |-> op]
      PROVE  i \in 0 + 1 .. n /\ feed'[i] = [id |-> t, op |-> op]
  BY <1>1, <1>2 DEF Grown
<1> QED
  BY <1>2 DEF Added, Gone, Happened

(* What a longer feed says up to a position it had before does not change. *)
LEMMA Before ==
  ASSUME FeedOK, Grown, NEW n \in Nat, n <= Len(feed), NEW m \in Nat
  PROVE  /\ \A t : /\ Added(t, n)' = Added(t, n) /\ Gone(t, n)' = Gone(t, n)
                   /\ LastChange(t, n)' = LastChange(t, n)
         /\ Touched(m, n)' = Touched(m, n)
<1>1. Len(feed) \in Nat
  BY UpdateIs
<1>2. \A i \in 0 + 1 .. n : feed'[i] = feed[i]
  BY <1>1 DEF Grown
<1>3. \A i \in 1 .. n : feed'[i] = feed[i]
  BY <1>2
<1>4. \A i \in m + 1 .. n : feed'[i] = feed[i]
  BY <1>3
<1>5. \A op, t : Happened(op, t, 0, n)' = Happened(op, t, 0, n)
  BY <1>2 DEF Happened
<1>6. \A t : Changes(t, n)' = Changes(t, n)
  BY <1>3 DEF Changes
<1> QED
  BY <1>4, <1>5, <1>6 DEF Added, Gone, LastChange, Touched

(* The book is right about a longer feed, if it was about the shorter one. *)
LEMMA BookGrows ==
  ASSUME FeedOK, CutsOK, BookOK, Grown, UNCHANGED <<cursor, txn, link>>, End' \in Nat, End <= End'
  PROVE  BookOK'
<1>1. /\ \A t \in Ids : (Added(t, End) => Added(t, End)') /\ (Gone(t, End) => Gone(t, End)')
      /\ \A t \in Ids : Added(t, cursor)' = Added(t, cursor) /\ Gone(t, cursor)' = Gone(t, cursor)
  BY Onward, Before, UpdateIs DEF CutsOK
<1>2. Live' = Live
  BY DEF Live
<1>3. Linked'
  BY <1>1 DEF BookOK, Linked
<1>4. Showing'
  BY <1>1, <1>2 DEF BookOK, Showing
<1>5. Lively'
  <2>1. \A k \in Live : /\ txn[k].id \in Ids /\ link[txn[k].id] = k
                        /\ txn[k].status = StatusOf(txn[k].id) /\ ~Gone(txn[k].id, cursor)
    BY DEF BookOK, Lively
  <2> QED
    BY <1>1, <1>2, <2>1 DEF Lively
<1> QED
  BY <1>1, <1>3, <1>4, <1>5 DEF BookOK

(* Updates the provider may send next: of new ids, or of listed ones, at most *)
(* one each, a posted id with the removal of its pending one.                 *)
Fits(us) ==
  /\ \A x \in DOMAIN us : us[x].op = "add" => \A i \in 1 .. Len(feed) : feed[i].id # us[x].id
  /\ \A x \in DOMAIN us : us[x].op # "add" =>
       /\ \E i \in 1 .. Len(feed) : feed[i] = [id |-> us[x].id, op |-> "add"]
       /\ \A i \in 1 .. Len(feed) : feed[i].id = us[x].id => feed[i].op # "rem"
  /\ \A x, y \in DOMAIN us : us[x].id = us[y].id \/ (us[x].op = "add" /\ us[y].op = "add") => x = y
  /\ \A x \in DOMAIN us : us[x].op = "add" /\ PendingOf[us[x].id] # None =>
       \E y \in DOMAIN us : us[y] = [id |-> PendingOf[us[x].id], op |-> "rem"]

Followed(us) ==
  /\ Len(feed) \in Nat /\ Len(feed') \in Nat /\ Len(feed) <= Len(feed') /\ Grown /\ feed' \in Seq(Update)
  /\ DOMAIN us \subseteq Nat \ {0}
  /\ \A x \in DOMAIN us : Len(feed) + x \in 1 .. Len(feed') /\ feed'[Len(feed) + x] = us[x]
  /\ \A x \in DOMAIN us : us[x].id \in Ids /\ us[x] = [id |-> us[x].id, op |-> us[x].op]
  /\ \A i \in 1 .. Len(feed') : i \notin 1 .. Len(feed) =>
       \E x \in DOMAIN us : i = Len(feed) + x /\ feed'[i] = us[x] /\ Len(feed) < i
  /\ \A i \in 1 .. Len(feed) : i \in 1 .. Len(feed')

LEMMA NextFeed ==
  ASSUME FeedOK, NEW us \in Seq(Update), feed' = feed \o us
  PROVE  Followed(us)
<1>1. feed \in Seq(Update) /\ Len(feed) \in Nat /\ Len(us) \in Nat /\ DOMAIN us = 1 .. Len(us)
  BY DEF FeedOK
<1>2. /\ feed' \in Seq(Update) /\ Len(feed') = Len(feed) + Len(us)
      /\ \A i \in 1 .. Len(feed') : feed'[i] = IF i <= Len(feed) THEN feed[i] ELSE us[i - Len(feed)]
  BY <1>1
<1>3. Grown
  BY <1>1, <1>2 DEF Grown
<1>4. ASSUME NEW i \in 1 .. Len(feed'), i \notin 1 .. Len(feed)
      PROVE  \E x \in DOMAIN us : i = Len(feed) + x /\ feed'[i] = us[x] /\ Len(feed) < i
  <2> DEFINE x == i - Len(feed)
  <2>1. x \in 1 .. Len(us) /\ i = Len(feed) + x /\ Len(feed) < i /\ ~(i <= Len(feed))
    BY <1>1, <1>2, <1>4
  <2>2. feed'[i] = us[x]
    BY <1>2, <2>1
  <2> QED
    BY <1>1, <2>1, <2>2
<1>5. ASSUME NEW x \in DOMAIN us
      PROVE  Len(feed) + x \in 1 .. Len(feed') /\ feed'[Len(feed) + x] = us[x]
  <2>1. Len(feed) + x \in 1 .. Len(feed') /\ ~(Len(feed) + x <= Len(feed)) /\ Len(feed) + x - Len(feed) = x
    BY <1>1, <1>2
  <2> QED
    BY <1>2, <2>1
<1>6. ASSUME NEW x \in DOMAIN us PROVE us[x].id \in Ids /\ us[x] = [id |-> us[x].id, op |-> us[x].op]
  <2>1. us[x] \in Update
    BY <1>1
  <2> QED
    BY <2>1 DEF Update
<1>7. Len(feed') \in Nat /\ Len(feed) <= Len(feed') /\ DOMAIN us \subseteq Nat \ {0}
  BY <1>1, <1>2
<1>8. \A i \in 1 .. Len(feed) : i \in 1 .. Len(feed')
  BY <1>1, <1>7
<1> QED
  BY <1>1, <1>2, <1>3, <1>4, <1>5, <1>6, <1>7, <1>8, Zenon DEF Followed

(* The feed stays well formed, and its cuts stay cuts. *)
LEMMA FeedGrows ==
  ASSUME IngestAssumption, FeedOK, NEW us, Fits(us), Followed(us)
  PROVE  FeedOK' /\ Grown /\ \A n \in 0 .. Len(feed) : Cut(n) => Cut(n)'
<1> DEFINE N == Len(feed)
           M == Len(feed')
<1>0. /\ N \in Nat /\ M \in Nat /\ N <= M /\ Grown /\ feed' \in Seq(Update)
      /\ DOMAIN us \subseteq Nat \ {0}
      /\ \A x \in DOMAIN us : N + x \in 1 .. M /\ feed'[N + x] = us[x]
      /\ \A i \in 1 .. M : i \notin 1 .. N => \E x \in DOMAIN us : i = N + x /\ feed'[i] = us[x] /\ N < i
      /\ \A i \in 1 .. N : i \in 1 .. M
  BY DEF Followed
<1>1. \A i \in 1 .. N : feed'[i] = feed[i]
  BY <1>0 DEF Grown
<1>2. \A i \in 1 .. N : feed[i].id \in Ids /\ feed[i] = [id |-> feed[i].id, op |-> feed[i].op]
  BY UpdateIs
<1>3. \A x \in DOMAIN us : us[x].id \in Ids /\ us[x] = [id |-> us[x].id, op |-> us[x].op]
  BY DEF Followed
<1>4. None \notin Ids /\ PendingOf \in [Ids -> Ids \cup {None}]
  BY DEF IngestAssumption
<1>5. \A i, j \in 1 .. M :
        feed'[i].id = feed'[j].id /\ i < j => feed'[i].op # "rem" /\ feed'[j].op # "add"
  <2> SUFFICES ASSUME NEW i \in 1 .. M, NEW j \in 1 .. M, feed'[i].id = feed'[j].id, i < j
               PROVE  feed'[i].op # "rem" /\ feed'[j].op # "add"
    OBVIOUS
  <2>1. CASE i \in 1 .. N /\ j \in 1 .. N
    BY <1>1, <2>1 DEF FeedOK
  <2>2. CASE i \in 1 .. N /\ j \notin 1 .. N
    <3>1. PICK x \in DOMAIN us : feed'[j] = us[x]
      BY <1>0, <2>2
    <3>2. feed'[i] = feed[i] /\ feed[i].id = us[x].id
      BY <1>1, <2>2, <3>1
    <3>3. us[x].op # "add" /\ feed[i].op # "rem"
      BY <2>2, <3>2 DEF Fits
    <3> QED
      BY <3>1, <3>2, <3>3
  <2>3. CASE i \notin 1 .. N /\ j \notin 1 .. N
    <3>1. PICK x \in DOMAIN us : i = N + x /\ feed'[i] = us[x]
      BY <1>0, <2>3
    <3>2. PICK y \in DOMAIN us : j = N + y /\ feed'[j] = us[y]
      BY <1>0, <2>3
    <3>3. x = y
      BY <3>1, <3>2 DEF Fits
    <3> QED
      BY <1>0, <3>1, <3>2, <3>3
  <2>4. CASE i \notin 1 .. N /\ j \in 1 .. N
    BY <1>0, <2>4
  <2> QED
    BY <2>1, <2>2, <2>3, <2>4
<1>6. \A j \in 1 .. M : \E i \in 1 .. j : feed'[i] = [id |-> feed'[j].id, op |-> "add"]
  <2> SUFFICES ASSUME NEW j \in 1 .. M
               PROVE  \E i \in 1 .. j : feed'[i] = [id |-> feed'[j].id, op |-> "add"]
    OBVIOUS
  <2>1. CASE j \in 1 .. N
    <3>1. PICK i \in 1 .. j : feed[i] = [id |-> feed[j].id, op |-> "add"]
      BY <2>1 DEF FeedOK
    <3>2. i \in 1 .. N
      BY <1>0, <2>1
    <3> QED
      BY <1>1, <2>1, <3>1, <3>2
  <2>2. CASE j \notin 1 .. N
    <3>1. PICK x \in DOMAIN us : feed'[j] = us[x] /\ N < j
      BY <1>0, <2>2
    <3>2. CASE us[x].op = "add"
      <4>1. j \in 1 .. j
        BY <1>0
      <4> QED
        BY <1>3, <3>1, <3>2, <4>1
    <3>3. CASE us[x].op # "add"
      <4>1. PICK i \in 1 .. N : feed[i] = [id |-> us[x].id, op |-> "add"]
        BY <3>3 DEF Fits
      <4>2. i \in 1 .. j
        BY <1>0, <3>1
      <4> QED
        BY <1>1, <3>1, <4>1, <4>2
    <3> QED
      BY <3>2, <3>3
  <2> QED
    BY <2>1, <2>2
<1>7. \A i \in 1 .. M : feed'[i].op = "add" /\ PendingOf[feed'[i].id] # None =>
         \E j \in 1 .. M : feed'[j] = [id |-> PendingOf[feed'[i].id], op |-> "rem"]
  <2> SUFFICES ASSUME NEW i \in 1 .. M, feed'[i].op = "add", PendingOf[feed'[i].id] # None
               PROVE  \E j \in 1 .. M : feed'[j] = [id |-> PendingOf[feed'[i].id], op |-> "rem"]
    OBVIOUS
  <2>1. CASE i \in 1 .. N
    <3>1. PICK j \in 1 .. N : feed[j] = [id |-> PendingOf[feed[i].id], op |-> "rem"]
      BY <1>1, <2>1 DEF FeedOK
    <3> QED
      BY <1>0, <1>1, <2>1, <3>1
  <2>2. CASE i \notin 1 .. N
    <3>1. PICK x \in DOMAIN us : feed'[i] = us[x]
      BY <1>0, <2>2
    <3>2. PICK y \in DOMAIN us : us[y] = [id |-> PendingOf[us[x].id], op |-> "rem"]
      BY <3>1 DEF Fits
    <3> QED
      BY <1>0, <3>1, <3>2
  <2> QED
    BY <2>1, <2>2
(* What settles an id after the feed removes it after the feed. *)
<1>8. ASSUME NEW x \in DOMAIN us, us[x].op = "add", PendingOf[us[x].id] # None,
             NEW i \in 1 .. N, feed[i].id = PendingOf[us[x].id]
      PROVE  feed[i].op # "rem"
  <2>1. PICK y \in DOMAIN us : us[y] = [id |-> PendingOf[us[x].id], op |-> "rem"]
    BY <1>8 DEF Fits
  <2>2. us[y].op # "add" /\ us[y].id = feed[i].id
    BY <1>8, <2>1
  <2> QED
    BY <2>2 DEF Fits
<1>9. \A i, j \in 1 .. M :
        /\ feed'[i].op = "add" /\ feed'[j].op = "add"
        /\ PendingOf[feed'[i].id] # None /\ PendingOf[feed'[i].id] = PendingOf[feed'[j].id]
        => i = j
  <2>1. ASSUME NEW i \in 1 .. N, feed[i].op = "add", PendingOf[feed[i].id] # None,
               NEW x \in DOMAIN us, us[x].op = "add", PendingOf[us[x].id] = PendingOf[feed[i].id]
        PROVE  FALSE
    <3>1. PICK j \in 1 .. N : feed[j] = [id |-> PendingOf[feed[i].id], op |-> "rem"]
      BY <2>1 DEF FeedOK
    <3> QED
      BY <1>8, <2>1, <3>1
  <2> SUFFICES ASSUME NEW i \in 1 .. M, NEW j \in 1 .. M, feed'[i].op = "add", feed'[j].op = "add",
                      PendingOf[feed'[i].id] # None, PendingOf[feed'[i].id] = PendingOf[feed'[j].id]
               PROVE  i = j
    OBVIOUS
  <2>2. CASE i \in 1 .. N /\ j \in 1 .. N
    BY <1>1, <2>2 DEF FeedOK
  <2>3. CASE i \in 1 .. N /\ j \notin 1 .. N
    <3>1. PICK x \in DOMAIN us : feed'[j] = us[x]
      BY <1>0, <2>3
    <3>2. feed'[i] = feed[i]
      BY <1>1, <2>3
    <3> QED
      BY <2>1, <2>3, <3>1, <3>2
  <2>4. CASE i \notin 1 .. N /\ j \in 1 .. N
    <3>1. PICK x \in DOMAIN us : feed'[i] = us[x]
      BY <1>0, <2>4
    <3>2. feed'[j] = feed[j]
      BY <1>1, <2>4
    <3> QED
      BY <2>1, <2>4, <3>1, <3>2
  <2>5. CASE i \notin 1 .. N /\ j \notin 1 .. N
    <3>1. PICK x \in DOMAIN us : i = N + x /\ feed'[i] = us[x]
      BY <1>0, <2>5
    <3>2. PICK y \in DOMAIN us : j = N + y /\ feed'[j] = us[y]
      BY <1>0, <2>5
    <3> QED
      BY <3>1, <3>2 DEF Fits
  <2> QED
    BY <2>2, <2>3, <2>4, <2>5
<1>10. FeedOK'
  BY <1>0, <1>5, <1>6, <1>7, <1>9 DEF FeedOK
<1>11. ASSUME NEW n \in 0 .. N, Cut(n) PROVE Cut(n)'
  <2> SUFFICES ASSUME NEW i \in 1 .. M, NEW j \in 1 .. M, feed'[i].op = "add",
                      feed'[j] = [id |-> PendingOf[feed'[i].id], op |-> "rem"]
               PROVE  i <= n <=> j <= n
    BY DEF Cut
  <2>0. feed'[j].id \in Ids /\ PendingOf[feed'[i].id] = feed'[j].id /\ feed'[j].op = "rem"
        /\ PendingOf[feed'[i].id] # None
    BY <1>0, <1>1, <1>2, <1>3, <1>4
  <2>1. CASE i \in 1 .. N /\ j \in 1 .. N
    BY <1>1, <1>11, <2>1 DEF Cut
  <2>2. CASE i \in 1 .. N /\ j \notin 1 .. N
    <3>1. PICK k \in 1 .. N : feed[k] = [id |-> PendingOf[feed[i].id], op |-> "rem"]
      BY <1>1, <2>0, <2>2 DEF FeedOK
    <3>2. PICK x \in DOMAIN us : feed'[j] = us[x]
      BY <1>0, <2>2
    <3>3. us[x].op # "add" /\ feed[k].id = us[x].id /\ feed[k].op = "rem"
      BY <1>1, <2>0, <2>2, <3>1, <3>2
    <3> QED
      BY <3>3 DEF Fits
  <2>3. CASE i \notin 1 .. N /\ j \in 1 .. N
    <3>1. PICK x \in DOMAIN us : feed'[i] = us[x]
      BY <1>0, <2>3
    <3> QED
      BY <1>1, <1>8, <2>0, <2>3, <3>1
  <2>4. CASE i \notin 1 .. N /\ j \notin 1 .. N
    BY <1>0, <2>4
  <2> QED
    BY <2>1, <2>2, <2>3, <2>4
<1> QED
  BY <1>0, <1>10, <1>11

(* An id that was not added has no update. *)
LEMMA Unsent ==
  ASSUME FeedOK, NEW t, ~Happened("add", t, 0, Len(feed))
  PROVE  \A i \in 1 .. Len(feed) : feed[i].id # t
<1>1. Len(feed) \in Nat
  BY UpdateIs
<1>2. ASSUME NEW j \in 1 .. Len(feed), feed[j].id = t PROVE FALSE
  <2>1. PICK i \in 1 .. j : feed[i] = [id |-> t, op |-> "add"]
    BY <1>2 DEF FeedOK
  <2>2. i \in 0 + 1 .. Len(feed)
    BY <1>1
  <2> QED
    BY <2>1, <2>2 DEF Happened
<1> QED
  BY <1>2

(* A listed id was added and not removed. *)
LEMMA Sent ==
  ASSUME FeedOK, NEW t, Listed(t, Len(feed))
  PROVE  /\ \E i \in 1 .. Len(feed) : feed[i] = [id |-> t, op |-> "add"]
         /\ \A i \in 1 .. Len(feed) : feed[i].id = t => feed[i].op # "rem"
<1>1. Len(feed) \in Nat
  BY UpdateIs
<1>2. PICK i \in 0 + 1 .. Len(feed) : feed[i] = [id |-> t, op |-> "add"]
  BY DEF Listed, Happened
<1>3. i \in 1 .. Len(feed)
  BY <1>1
<1>4. ASSUME NEW j \in 1 .. Len(feed), feed[j].id = t, feed[j].op = "rem" PROVE FALSE
  <2>1. feed[j] = [id |-> t, op |-> "rem"] /\ j \in 0 + 1 .. Len(feed)
    BY <1>4, UpdateIs
  <2> QED
    BY <2>1 DEF Listed, Happened
<1> QED
  BY <1>2, <1>3, <1>4

LEMMA OneFits ==
  ASSUME FeedOK, NEW t \in Ids, NEW op \in {"add", "mod", "rem"},
         op = "add" => PendingOf[t] = None /\ \A i \in 1 .. Len(feed) : feed[i].id # t,
         op # "add" => Listed(t, Len(feed)),
         NEW us, us = <<[id |-> t, op |-> op]>>
  PROVE  us \in Seq(Update) /\ Fits(us)
<1>1. us \in Seq(Update) /\ DOMAIN us = {1} /\ us[1].id = t /\ us[1].op = op
  BY DEF Update
<1>2. op # "add" => /\ \E i \in 1 .. Len(feed) : feed[i] = [id |-> t, op |-> "add"]
                    /\ \A i \in 1 .. Len(feed) : feed[i].id = t => feed[i].op # "rem"
  BY Sent
<1> QED
  BY <1>1, <1>2 DEF Fits

LEMMA TwoFit ==
  ASSUME FeedOK, NEW p \in Ids, NEW q \in Ids, p # q, PendingOf[q] = p, Listed(p, Len(feed)),
         \A i \in 1 .. Len(feed) : feed[i].id # q,
         NEW us, NEW x \in {1, 2}, NEW y \in {1, 2}, x # y, us \in Seq(Update), DOMAIN us = {1, 2},
         us[x] = [id |-> p, op |-> "rem"], us[y] = [id |-> q, op |-> "add"]
  PROVE  Fits(us)
<1>1. /\ \A z \in DOMAIN us : z = x \/ z = y
      /\ us[x].id = p /\ us[x].op = "rem" /\ us[y].id = q /\ us[y].op = "add"
  OBVIOUS
<1>2. /\ \E i \in 1 .. Len(feed) : feed[i] = [id |-> p, op |-> "add"]
      /\ \A i \in 1 .. Len(feed) : feed[i].id = p => feed[i].op # "rem"
  BY Sent
<1>3. \A z \in DOMAIN us : us[z].op = "add" => z = y /\ us[z].id = q
  BY <1>1
<1>4. \A z \in DOMAIN us : us[z].op # "add" => z = x /\ us[z].id = p
  BY <1>1
<1>5. \A z, w \in DOMAIN us : us[z].id = us[w].id \/ (us[z].op = "add" /\ us[w].op = "add") => z = w
  BY <1>1
<1>6. \A z \in DOMAIN us : us[z].op = "add" => us[x] = [id |-> PendingOf[us[z].id], op |-> "rem"]
  BY <1>3
<1> QED
  BY <1>2, <1>3, <1>4, <1>5, <1>6 DEF Fits

(* Every step of the provider lets the feed grow so. *)
LEMMA ProviderFits ==
  ASSUME IngestAssumption, NoChains, FeedOK, Provider
  PROVE  /\ UNCHANGED <<cursor, txn, link, att, crashes>>
         /\ FeedOK' /\ Grown /\ Len(feed') \in Nat
         /\ \A n \in 0 .. Len(feed) : Cut(n) => Cut(n)'
<1>1. \E us \in Seq(Update) : Fits(us) /\ Provide(us)
  <2>1. PICK t \in Ids : Appears(t) \/ Modified(t) \/ Removed(t) \/ Posts(t)
    BY DEF Provider
  <2>2. CASE Appears(t)
    <3> DEFINE us == <<[id |-> t, op |-> "add"]>>
    <3>1. Provide(us) /\ PendingOf[t] = None /\ ~Happened("add", t, 0, Len(feed))
      BY <2>2 DEF Appears
    <3> QED
      BY <3>1, Unsent, OneFits
  <2>3. CASE Modified(t)
    <3> DEFINE us == <<[id |-> t, op |-> "mod"]>>
    <3>1. Provide(us) /\ Listed(t, Len(feed))
      BY <2>3 DEF Modified
    <3> QED
      BY <3>1, OneFits
  <2>4. CASE Removed(t)
    <3> DEFINE us == <<[id |-> t, op |-> "rem"]>>
    <3>1. Provide(us) /\ Listed(t, Len(feed))
      BY <2>4 DEF Removed
    <3> QED
      BY <3>1, OneFits
  <2>5. CASE Posts(t)
    <3> DEFINE p == PendingOf[t]
               gone == [id |-> p, op |-> "rem"]
               new == [id |-> t, op |-> "add"]
    <3>1. p \in Ids /\ p # t
      BY <2>5 DEF Posts, IngestAssumption, NoChains
    <3>2. Listed(p, Len(feed)) /\ \A i \in 1 .. Len(feed) : feed[i].id # t
      BY <2>5, Unsent DEF Posts
    <3>3. Provide(<<gone, new>>) \/ Provide(<<new, gone>>)
      BY <2>5 DEF Posts
    <3>4. gone \in Update /\ new \in Update
      BY <3>1 DEF Update
    <3> HIDE DEF gone, new
    <3>5. <<gone, new>> \in Seq(Update) /\ <<new, gone>> \in Seq(Update)
      BY <3>4
    <3>6. Fits(<<gone, new>>)
      <4> DEFINE us == <<gone, new>>
      <4>1. DOMAIN us = {1, 2} /\ us[1] = gone /\ us[2] = new
        OBVIOUS
      <4>2. us \in Seq(Update)
        BY <3>5
      <4> HIDE DEF us
      <4>3. us[1] = [id |-> p, op |-> "rem"] /\ us[2] = [id |-> t, op |-> "add"]
        BY <4>1 DEF gone, new
      <4>4. \A x, y \in {1, 2} : /\ x # y /\ us[x] = [id |-> p, op |-> "rem"]
                                 /\ us[y] = [id |-> t, op |-> "add"]
                                 => Fits(us)
        BY <3>1, <3>2, <4>1, <4>2, TwoFit
      <4>5. Fits(us)
        BY <4>3, <4>4
      <4> QED
        BY <4>5 DEF us
    <3>7. Fits(<<new, gone>>)
      <4> DEFINE us == <<new, gone>>
      <4>1. DOMAIN us = {1, 2} /\ us[1] = new /\ us[2] = gone
        OBVIOUS
      <4>2. us \in Seq(Update)
        BY <3>5
      <4> HIDE DEF us
      <4>3. us[1] = [id |-> t, op |-> "add"] /\ us[2] = [id |-> p, op |-> "rem"]
        BY <4>1 DEF gone, new
      <4>4. \A x, y \in {1, 2} : /\ x # y /\ us[x] = [id |-> p, op |-> "rem"]
                                 /\ us[y] = [id |-> t, op |-> "add"]
                                 => Fits(us)
        BY <3>1, <3>2, <4>1, <4>2, TwoFit
      <4>5. Fits(us)
        BY <4>3, <4>4
      <4> QED
        BY <4>5 DEF us
    <3> QED
      BY <3>3, <3>5, <3>6, <3>7
  <2> QED
    BY <2>1, <2>2, <2>3, <2>4, <2>5
<1>2. PICK us \in Seq(Update) : Fits(us) /\ Provide(us)
  BY <1>1
<1>3. feed' = feed \o us /\ UNCHANGED <<cursor, txn, link, att, crashes>>
  BY <1>2 DEF Provide
<1>4. Followed(us)
  BY <1>3, NextFeed
<1> QED
  BY <1>2, <1>3, <1>4, FeedGrows DEF Followed

-----------------------------------------------------------------------------
(* What is left to apply is what the window would be planned to again. *)

LEMMA PlanExact ==
  ASSUME NEW plan, Planned(plan, Proper)
  PROVE  {plan.acts[i] : i \in DOMAIN plan.acts} = Left
<1>1. \A i \in DOMAIN plan.acts : \E e \in Proper : Due(e) /\ plan.acts[i] = ActFor(e)
  BY DEF Planned
<1>2. \A e \in Proper : Due(e) => \E i \in DOMAIN plan.acts : plan.acts[i] = ActFor(e)
  BY DEF Planned
<1> QED
  BY <1>1, <1>2 DEF Left

(* An event reads the feed of its window only. *)
LEMMA SameEvents ==
  ASSUME FeedOK, CutsOK, Grown, UNCHANGED cursor, att'.upto = att.upto, att.pc # "idle"
  PROVE  W' = W /\ Events' = Events /\ Proper' = Proper
<1>1. cursor \in Nat /\ att.upto \in Nat /\ att.upto <= Len(feed) /\ Len(feed) \in Nat
  BY UpdateIs DEF CutsOK, End
<1>2. \A i \in cursor + 1 .. att.upto : feed'[i] = feed[i]
  BY <1>1 DEF Grown
<1>3. \A i \in 1 .. att.upto : feed'[i] = feed[i]
  BY <1>1 DEF Grown
<1>4. W' = W
  BY <1>2 DEF W, Touched
<1>5. \A op, t : Happened(op, t, cursor, att.upto)' = Happened(op, t, cursor, att.upto)
  BY <1>2 DEF Happened
<1>6. \A t : Changes(t, att.upto)' = Changes(t, att.upto)
  BY <1>3 DEF Changes
<1>7. \A t : LastChange(t, att.upto)' = LastChange(t, att.upto)
  BY <1>6 DEF LastChange
<1>9. \A t : Ev(t)' = Ev(t)
  BY <1>5, <1>6, <1>7 DEF Ev, Event
<1>8. Events' = Events
  BY <1>4, <1>9 DEF Events, Window, Ev, W
<1> QED
  BY <1>4, <1>8 DEF Proper, Paired

LEMMA SameLeft ==
  ASSUME W' = W, Proper' = Proper, UNCHANGED <<txn, link>>, NEW todo
  PROVE  Exact(todo) => Exact(todo)'
<1>1. \A e : Due(e)' = Due(e) /\ ActFor(e)' = ActFor(e)
  BY DEF Due, ActFor, ViewAfter, KeyOf, Shows
<1>2. Readable(W)' = Readable(W)
  BY DEF Readable
<1>3. Left' = Left
  BY <1>1 DEF Left
<1> QED
  BY <1>2, <1>3 DEF Exact

(* A void ends what a second plan could read: its tombstone is in the window. *)
LEMMA VoidExact ==
  ASSUME AtWork, att.pc = "apply", att \in [pc : {"idle", "plan", "apply"}, upto : Nat, todo : Seq(Action)],
         Applying(att.todo), Exact(att.todo), ApplyAction, Head(att.todo).kind = "void"
  PROVE  Exact(att.todo)'
<1> DEFINE a == Head(att.todo)
           k == a.key
<1>0. a.kind = "void" /\ 1 \in DOMAIN att.todo /\ a = att.todo[1]
  BY TailIs DEF ApplyAction
<1> HIDE DEF a
<1>1. /\ txn' = [txn EXCEPT ![k] = [status |-> a.status, id |-> a.id, at |-> a.at]]
      /\ link' = link /\ feed' = feed /\ cursor' = cursor /\ att'.upto = att.upto
      /\ a \in Action /\ ActOK(a)
  BY <1>0, ActEffect DEF a
<1>2. k \in Ids /\ a.status = "voided" /\ txn \in [Ids -> Record]
  BY <1>0, <1>1 DEF ActOK, Action, AtWork, BookOK
<1>3. txn'[k].status = "voided" /\ \A j \in Ids : j # k => txn'[j] = txn[j]
  BY <1>1, <1>2
<1>4. W' = W
  BY <1>1 DEF W, Touched
<1>5. CASE Readable(W)
  <2>1. a \in Left
    BY <1>0, <1>5 DEF Exact
  <2>2. PICK e \in Proper : Due(e) /\ a = ActFor(e)
    BY <2>1 DEF Left
  <2>3. e.kind = "removed"
    BY <1>0, <2>2 DEF ActFor
  <2>4. AtPlan
    BY <1>5 DEF AtPlan, W
  <2>5. e.id \in W /\ link[e.id] = k
    BY <2>2, <2>3, <2>4, DueIs
  <2>6. k # None
    BY <1>2 DEF AtWork, IngestAssumption
  <2>7. ~Readable(W)'
    BY <1>1, <1>3, <1>4, <2>5, <2>6 DEF Readable
  <2> QED
    BY <2>7 DEF Exact
<1>6. CASE ~Readable(W)
  <2>1. PICK u \in W : link[u] # None /\ txn[link[u]].status = "voided"
    BY <1>6 DEF Readable
  <2>2. u \in Ids
    BY EventIs
  <2>3. link[u] \in Ids
    BY <2>1, <2>2 DEF AtWork, BookOK
  <2>4. ~Readable(W)'
    BY <1>1, <1>3, <1>4, <2>1, <2>3 DEF Readable
  <2> QED
    BY <2>4 DEF Exact
<1> QED
  BY <1>5, <1>6

(* A creation or a revision settles its own event, and no other. *)
LEMMA WriteExact ==
  ASSUME AtWork, att.pc = "apply", att \in [pc : {"idle", "plan", "apply"}, upto : Nat, todo : Seq(Action)],
         Applying(att.todo), Exact(att.todo), ApplyAction, Head(att.todo).kind # "void", Readable(W)',
         W' = W, Proper' = Proper
  PROVE  {att'.todo[i] : i \in DOMAIN att'.todo} = Left'
<1> DEFINE a == Head(att.todo)
           t == a.id
           k == a.key
           todo == att.todo
           rest == Tail(att.todo)
<1>0. a.kind # "void" /\ 1 \in DOMAIN todo /\ a = todo[1]
  BY TailIs DEF ApplyAction
<1> HIDE DEF a
<1>1. /\ txn' = [txn EXCEPT ![k] = [status |-> a.status, id |-> a.id, at |-> a.at]]
      /\ link' = [link EXCEPT ![t] = k] /\ att'.todo = rest
      /\ todo \in Seq(Action) /\ todo # <<>> /\ a \in Action /\ ActOK(a)
  BY <1>0, ActEffect DEF a
<1>2. k \in Ids /\ t \in Ids /\ txn \in [Ids -> Record] /\ link \in [Ids -> Ids \cup {None}] /\ k # None /\ None \notin Ids
  BY <1>1 DEF Action, AtWork, BookOK, IngestAssumption
<1>3. /\ txn'[k] = [status |-> a.status, id |-> a.id, at |-> a.at]
      /\ \A j \in Ids : j # k => txn'[j] = txn[j]
      /\ link'[t] = k /\ \A u \in Ids : u # t => link'[u] = link[u]
  BY <1>1, <1>2
<1>4. link[t] \in {None, k} /\ txn[k].status # "voided"
  <2>1. link[t] \in {None, k} /\ (a.kind # "create" => k \in Live) /\ (a.kind = "create" => txn[k].status = "none")
    BY <1>0, <1>1 DEF ActOK
  <2> QED
    BY <2>1 DEF Live
<1>5. Readable(W)
  <2> SUFFICES ASSUME NEW u \in W, link[u] # None, txn[link[u]].status = "voided" PROVE FALSE
    BY DEF Readable
  <2>1. u \in Ids
    BY EventIs
  <2>2. link[u] # k /\ u # t /\ link[u] \in Ids
    BY <1>2, <1>4, <2>1
  <2>3. link'[u] = link[u] /\ txn'[link[u]] = txn[link[u]]
    BY <1>3, <2>1, <2>2
  <2> QED
    BY <2>3 DEF Readable
<1>6. AtPlan
  BY <1>5 DEF AtPlan, W
<1>7. {todo[i] : i \in DOMAIN todo} = Left
  BY <1>5 DEF Exact
<1>8. PICK e0 \in Proper : Due(e0) /\ a = ActFor(e0)
  <2>1. a \in Left
    BY <1>0, <1>7
  <2> QED
    BY <2>1 DEF Left
<1>9. e0.kind # "removed"
  BY <1>0, <1>8 DEF ActFor
<1>10. /\ e0 \in Events /\ e0.id \in W /\ e0 = Ev(e0.id) /\ k = KeyOf(e0.id)
       /\ t = e0.id /\ a.status = e0.status /\ a.at = e0.at
  <2>1. e0 \in Events /\ e0.id \in W /\ e0 = Ev(e0.id) /\ k = KeyOf(e0.id)
    BY <1>6, <1>8, DueIs
  <2>2. a.id = e0.id /\ a.status = e0.status /\ a.at = e0.at
    BY <1>8, <1>9 DEF ActFor, ViewAfter, ViewOf
  <2> QED
    BY <2>1, <2>2
<1>11. ~Due(e0)'
  <2>1. ViewOf(txn'[k], k) = ViewOf(e0, k)
    BY <1>3, <1>10 DEF ViewOf
  <2>2. link'[e0.id] = k
    BY <1>3, <1>10
  <2> QED
    BY <1>2, <1>9, <2>1, <2>2 DEF Due, Shows
<1>12. \A u \in Ids : Added(u, att.upto) => PendingOf[u] # t
  BY <1>0, <1>1, <1>2, ActAlone
<1>13. ASSUME NEW e \in Proper, e # e0
       PROVE  /\ KeyOf(e.id) # k /\ Due(e)' = Due(e) /\ ActFor(e)' = ActFor(e)
  <2> DEFINE u == e.id
  <2>1. u \in W /\ e = Ev(u)
    BY EventOf DEF Proper
  <2>2. u \in Ids /\ Added(u, att.upto) /\ u # t
    BY <1>10, <1>13, <2>1, EventIs
  <2>3. KeyOf(u) # k
    BY <1>9, <1>10, <1>13, OneOnKey
  <2>4. KeyOf(u) \in Ids /\ KeyOf(u) \in {u, PendingOf[u]} /\ (link[u] # None => KeyOf(u) = link[u])
    BY <2>2, KeyIs
  <2>5. link'[u] = link[u] /\ PendingOf[u] # t
    BY <1>3, <1>12, <2>2
  <2>6. PendingOf[u] # None => PendingOf[u] \in Ids /\ link'[PendingOf[u]] = link[PendingOf[u]]
    BY <1>3, <2>2, <2>5 DEF AtWork, IngestAssumption
  <2>7. KeyOf(u)' = KeyOf(u)
    BY <2>5, <2>6 DEF KeyOf
  <2>8. txn'[KeyOf(u)] = txn[KeyOf(u)] /\ link'[KeyOf(u)] = link[KeyOf(u)]
    BY <1>3, <2>2, <2>3, <2>4, <2>5
  <2>9. Shows(KeyOf(u))' = Shows(KeyOf(u))
    BY <2>7, <2>8 DEF Shows
  <2>10. Due(e)' = Due(e)
    <3>1. CASE link[u] = None
      BY <2>5, <3>1 DEF Due
    <3>2. CASE link[u] # None
      <4>1. Shows(link[u])' = Shows(link[u])
        BY <2>4, <2>5, <2>8, <3>2 DEF Shows
      <4> QED
        BY <2>5, <3>2, <4>1 DEF Due
    <3> QED
      BY <3>1, <3>2
  <2>11. ViewAfter(e)' = ViewAfter(e) /\ ViewAfter(e).key = KeyOf(u)
    BY <2>7, <2>9 DEF ViewAfter, ViewOf
  <2>12. ActFor(e)' = ActFor(e)
    BY <2>8, <2>11 DEF ActFor
  <2> QED
    BY <2>3, <2>10, <2>12
<1>14. Left' = Left \ {a}
  <2>1. Left' = {ActFor(e) : e \in {f \in Proper : Due(f) /\ f # e0}}
    BY <1>11, <1>13 DEF Left
  <2>2. ASSUME NEW e \in Proper, Due(e), e # e0 PROVE ActFor(e) # a
    <3>1. ActFor(e).key = KeyOf(e.id)
      BY <1>6, <2>2, DueIs
    <3> QED
      BY <1>13, <2>2, <3>1
  <2> QED
    BY <1>8, <2>1, <2>2 DEF Left
<1>15. {rest[i] : i \in DOMAIN rest} = {todo[i] : i \in DOMAIN todo} \ {a}
  <2>1. /\ \A i \in DOMAIN rest : \E j \in DOMAIN todo : rest[i] = todo[j] /\ todo[j].key # k
    BY <1>1, Remains DEF Applying, a
  <2>2. \A i \in DOMAIN todo : i # 1 => i - 1 \in DOMAIN rest /\ rest[i - 1] = todo[i]
    BY <1>1, TailIs
  <2> HIDE DEF rest, todo
  <2>3. \A i \in DOMAIN todo : todo[i] # a => \E j \in DOMAIN rest : rest[j] = todo[i]
    BY <1>0, <2>2
  <2>4. \A i \in DOMAIN rest : rest[i] # a
    BY <2>1
  <2> QED
    BY <2>1, <2>3, <2>4
<1> QED
  BY <1>1, <1>7, <1>14, <1>15

LEMMA ApplyExact ==
  ASSUME AtWork, att.pc = "apply", att \in [pc : {"idle", "plan", "apply"}, upto : Nat, todo : Seq(Action)],
         Applying(att.todo), Exact(att.todo), ApplyAction
  PROVE  Exact(att.todo)'
<1>1. UNCHANGED <<feed, cursor>> /\ att'.upto = att.upto
  BY ActEffect
<1>2. Grown
  BY <1>1, UpdateIs DEF Grown, AtWork
<1>3. W' = W /\ Proper' = Proper
  BY <1>1, <1>2, SameEvents DEF AtWork
<1>4. CASE Head(att.todo).kind = "void"
  BY <1>4, VoidExact
<1>5. CASE Head(att.todo).kind # "void"
  BY <1>3, <1>5, WriteExact DEF Exact
<1> QED
  BY <1>4, <1>5

-----------------------------------------------------------------------------
(* The inductive invariant. *)

(* Windows end where the provider's list ends, so that none separates a posted *)
(* id from the removal of its pending one.                                     *)
Settling == Drained /\ NoChains

IInv ==
  /\ FeedOK /\ CutsOK /\ BookOK
  /\ att \in [pc : {"idle", "plan", "apply"}, upto : Nat, todo : Seq(Action)]
  /\ att.pc = "idle" => att = Idle
  /\ att.pc = "apply" => Applying(att.todo) /\ Exact(att.todo)
  /\ crashes \in 0 .. MaxCrashes
  /\ crashes = 0 => IF att.pc = "apply" THEN Refreshing(att.todo) ELSE Fresh

(* The end of the feed is a cut. *)
LEMMA CutEnds ==
  ASSUME FeedOK
  PROVE  Cut(Len(feed))
BY UpdateIs DEF Cut

(* What is left to apply stays so while the provider goes on. *)
LEMMA SameWindow ==
  ASSUME FeedOK, CutsOK, Grown, UNCHANGED <<cursor, txn, link>>, att'.upto = att.upto, att.pc # "idle", NEW todo
  PROVE  (Applying(todo) => Applying(todo)') /\ (Refreshing(todo) => Refreshing(todo)')
<1>1. cursor \in Nat /\ att.upto \in Nat /\ cursor <= Len(feed) /\ att.upto <= Len(feed)
  BY UpdateIs DEF CutsOK, End
<1>2. /\ \A t : /\ Added(t, att.upto)' = Added(t, att.upto) /\ Gone(t, att.upto)' = Gone(t, att.upto)
                /\ LastChange(t, att.upto)' = LastChange(t, att.upto)
                /\ Added(t, cursor)' = Added(t, cursor)
      /\ W' = W
  <2>1. \A t, n : n \in Nat /\ n <= Len(feed) =>
          Added(t, n)' = Added(t, n) /\ Gone(t, n)' = Gone(t, n) /\ LastChange(t, n)' = LastChange(t, n)
    BY Before, <1>1
  <2>2. Touched(cursor, att.upto)' = Touched(cursor, att.upto)
    <3>1. \A m, n \in Nat : n <= Len(feed) => Touched(m, n)' = Touched(m, n)
      BY Before
    <3> QED
      BY <1>1, <3>1
  <2> QED
    BY <1>1, <2>1, <2>2 DEF W
<1>3. Live' = Live
  BY DEF Live
<1>4. \A t : Standing(t)' = Standing(t)
  BY <1>2 DEF Standing
<1>5. \A a : ActOK(a)' = ActOK(a)
  BY <1>2, <1>3, <1>4 DEF ActOK
<1>6. Applying(todo) => Applying(todo)'
  BY <1>2, <1>3, <1>4, <1>5 DEF Applying
<1>7. Refreshing(todo) => Refreshing(todo)'
  BY <1>2, <1>3 DEF Refreshing
<1> QED
  BY <1>6, <1>7

LEMMA SameFresh ==
  ASSUME FeedOK, CutsOK, Grown, UNCHANGED <<cursor, txn, link>>, Fresh
  PROVE  Fresh'
<1>1. cursor \in Nat /\ cursor <= Len(feed)
  BY UpdateIs DEF CutsOK
<1>2. \A t : Added(t, cursor)' = Added(t, cursor) /\ LastChange(t, cursor)' = LastChange(t, cursor)
  BY <1>1, Before
<1>3. Live' = Live
  BY DEF Live
<1> QED
  BY <1>2, <1>3 DEF Fresh

LEMMA StartsIInv ==
  ASSUME IngestAssumption, Init
  PROVE  IInv
<1>1. feed = <<>> /\ cursor = 0 /\ att = Idle /\ crashes = 0
      /\ txn = [k \in Ids |-> [status |-> "none", id |-> None, at |-> 0]] /\ link = [t \in Ids |-> None]
  BY DEF Init
<1>2. Len(feed) = 0 /\ 1 .. Len(feed) = {} /\ End = 0 /\ att.pc = "idle"
  BY <1>1 DEF End, Idle
<1>3. FeedOK
  <2>1. feed \in Seq(Update)
    BY <1>1
  <2> QED
    BY <1>2, <2>1 DEF FeedOK
<1>4. CutsOK
  BY <1>1, <1>2 DEF CutsOK, Cut
<1>5. \A t : ~Added(t, 0)
  BY DEF Added, Happened
<1>6. \A k \in Ids : txn[k].status = "none" /\ link[k] = None
  BY <1>1
<1>7. txn \in [Ids -> Record] /\ link \in [Ids -> Ids \cup {None}]
  BY <1>1 DEF Record, Statuses
<1>8. Live = {}
  BY <1>6 DEF Live
<1>9. BookOK
  BY <1>1, <1>2, <1>5, <1>6, <1>7, <1>8 DEF BookOK, Linked, Showing, Lively, IngestAssumption
<1>10. Fresh
  BY <1>6, <1>8 DEF Fresh
<1>11. att \in [pc : {"idle", "plan", "apply"}, upto : Nat, todo : Seq(Action)]
  BY <1>1 DEF Idle
<1> QED
  BY <1>1, <1>2, <1>3, <1>4, <1>9, <1>10, <1>11 DEF IInv, IngestAssumption

(* The steps, one by one. *)
LEMMA ProviderKeeps ==
  ASSUME IngestAssumption, NoChains, IInv, Provider
  PROVE  IInv'
<1>1. /\ UNCHANGED <<cursor, txn, link, att, crashes>>
      /\ FeedOK' /\ Grown /\ Len(feed') \in Nat
      /\ \A n \in 0 .. Len(feed) : Cut(n) => Cut(n)'
  BY ProviderFits DEF IInv
<1>2. /\ cursor \in Nat /\ End \in Nat /\ cursor <= End /\ End <= Len(feed) /\ Len(feed) \in Nat
      /\ Cut(cursor) /\ Cut(End)
  BY UpdateIs DEF IInv, CutsOK
<1>3. End' \in Nat /\ End <= End' /\ End' <= Len(feed')
  BY <1>1, <1>2 DEF End, Grown
<1>4. Cut(cursor)' /\ Cut(End)'
  <2>1. cursor \in 0 .. Len(feed) /\ End \in 0 .. Len(feed)
    BY <1>2
  <2>2. Cut(cursor)'
    BY <1>1, <1>2, <2>1
  <2>3. CASE att.pc = "idle"
    <3>1. End' = Len(feed')
      BY <1>1, <2>3 DEF End
    <3> QED
      BY <2>2, <3>1 DEF Cut
  <2>4. CASE att.pc # "idle"
    <3>1. End' = End
      BY <1>1, <2>4 DEF End
    <3> QED
      BY <1>1, <1>2, <2>1, <2>2, <3>1
  <2> QED
    BY <2>3, <2>4
<1>5. CutsOK'
  BY <1>1, <1>2, <1>3, <1>4 DEF CutsOK
<1>6. BookOK'
  BY <1>1, <1>3, BookGrows DEF IInv
<1>7. Fresh => Fresh'
  BY <1>1, SameFresh DEF IInv
<1>8. att.pc = "apply" => \A todo : (Applying(todo) => Applying(todo)') /\ (Refreshing(todo) => Refreshing(todo)')
  BY <1>1, SameWindow DEF IInv
<1>9. att.pc = "apply" => \A todo : Exact(todo) => Exact(todo)'
  BY <1>1, SameEvents, SameLeft DEF IInv
<1> QED
  BY <1>1, <1>5, <1>6, <1>7, <1>8, <1>9 DEF IInv

(* A step that leaves the book, and no window or one that ends where the feed ends. *)
LEMMA WindowMoves ==
  ASSUME IInv, UNCHANGED <<feed, cursor, txn, link>>, End' = Len(feed)
  PROVE  CutsOK' /\ BookOK' /\ FeedOK' /\ (Fresh => Fresh')
<1>1. Grown
  BY UpdateIs DEF Grown, IInv
<1>2. /\ cursor \in Nat /\ End \in Nat /\ cursor <= End /\ End <= Len(feed) /\ Len(feed) \in Nat /\ Cut(cursor)
  BY UpdateIs DEF IInv, CutsOK
<1>3. \A n : Cut(n)' = Cut(n)
  BY DEF Cut
<1>4. CutsOK'
  BY <1>2, <1>3, CutEnds DEF CutsOK, IInv
<1>5. BookOK'
  BY <1>1, <1>2, BookGrows DEF IInv
<1>6. FeedOK'
  BY DEF FeedOK, IInv
<1>7. Fresh => Fresh'
  BY <1>1, SameFresh DEF IInv
<1> QED
  BY <1>4, <1>5, <1>6, <1>7

LEMMA PullKeeps ==
  ASSUME Drained, IInv, PullWindow
  PROVE  IInv'
<1>1. /\ att.pc = "idle" /\ UNCHANGED <<feed, cursor, txn, link, crashes>>
      /\ att' = [pc |-> "plan", upto |-> Len(feed), todo |-> <<>>]
  BY DEF PullWindow
<1>2. Len(feed) \in Nat
  BY UpdateIs DEF IInv
<1>3. att'.pc = "plan" /\ End' = Len(feed)
      /\ att' \in [pc : {"idle", "plan", "apply"}, upto : Nat, todo : Seq(Action)]
  BY <1>1, <1>2 DEF End
<1>4. CutsOK' /\ BookOK' /\ FeedOK' /\ (Fresh => Fresh')
  BY <1>1, <1>3, WindowMoves
<1> QED
  BY <1>1, <1>3, <1>4 DEF IInv

LEMMA IdleIs ==
  /\ Idle \in [pc : {"idle", "plan", "apply"}, upto : Nat, todo : Seq(Action)] /\ Idle.pc = "idle" /\ Idle.upto = 0
BY DEF Idle

LEMMA CrashKeeps ==
  ASSUME IngestAssumption, IInv, Crash
  PROVE  IInv'
<1>1. UNCHANGED <<feed, cursor, txn, link>> /\ att' = Idle /\ crashes' \in 0 .. MaxCrashes /\ crashes' # 0
  BY DEF Crash, IInv, IngestAssumption
<1>2. End' = Len(feed) /\ att'.pc = "idle"
  BY <1>1, IdleIs DEF End
<1>3. CutsOK' /\ BookOK' /\ FeedOK'
  BY <1>1, <1>2, WindowMoves
<1> QED
  BY <1>1, <1>2, <1>3, IdleIs DEF IInv

LEMMA PlanKeeps ==
  ASSUME IngestAssumption, NoChains, IInv, PlanWindow
  PROVE  IInv'
<1>1. /\ att.pc = "plan" /\ UNCHANGED <<feed, cursor, txn, link, crashes>>
      /\ Readable(W) => att' = [att EXCEPT !.pc = "apply", !.todo = ReconcileBatch(Events, Lookup(W)).acts]
      /\ ~Readable(W) => att' = Idle
  BY Zenon DEF PlanWindow, W, Events
<1>2. CASE ~Readable(W)
  <2>1. att' = Idle /\ End' = Len(feed) /\ att'.pc = "idle"
    BY <1>1, <1>2, IdleIs DEF End
  <2>2. CutsOK' /\ BookOK' /\ FeedOK' /\ (Fresh => Fresh')
    BY <1>1, <2>1, WindowMoves
  <2> QED
    BY <1>1, <2>1, <2>2, IdleIs DEF IInv
<1>3. CASE Readable(W)
  <2> DEFINE plan == ReconcileBatch(Events, Lookup(W))
  <2>1. AtPlan
    BY <1>1, <1>3 DEF IInv, AtPlan, AtWork, W
  <2>2. Planned(plan, Proper)
    BY <2>1, WindowPlanned
  <2> HIDE DEF plan
  <2>3. plan.acts \in Seq(Action) /\ Applying(plan.acts) /\ (Fresh => Refreshing(plan.acts))
    BY <2>1, <2>2, PlanApplies
  <2>4. att' = [att EXCEPT !.pc = "apply", !.todo = plan.acts]
    BY <1>1, <1>3 DEF plan
  <2>5. /\ att'.pc = "apply" /\ att'.upto = att.upto /\ att'.todo = plan.acts /\ End' = End
        /\ att' \in [pc : {"idle", "plan", "apply"}, upto : Nat, todo : Seq(Action)]
    <3>1. att \in [pc : {"idle", "plan", "apply"}, upto : Nat, todo : Seq(Action)]
      BY DEF IInv
    <3>2. att'.pc = "apply" /\ att'.upto = att.upto /\ att'.todo = plan.acts
      BY <2>4, <3>1
    <3> QED
      BY <1>1, <2>3, <2>4, <3>1, <3>2 DEF End
  <2>6. Grown
    BY <1>1, UpdateIs DEF Grown, IInv
  <2>7. Applying(att.todo)' /\ (Fresh => Refreshing(att.todo)')
    <3>1. \A todo : (Applying(todo) => Applying(todo)') /\ (Refreshing(todo) => Refreshing(todo)')
      BY <1>1, <2>5, <2>6, SameWindow DEF IInv
    <3> QED
      BY <2>3, <2>5, <3>1
  <2>8. FeedOK' /\ CutsOK' /\ BookOK'
    <3>1. FeedOK'
      BY <1>1 DEF IInv, FeedOK
    <3>2. CutsOK'
      BY <1>1, <2>5 DEF IInv, CutsOK, Cut
    <3>3. BookOK'
      BY <1>1, <2>5, <2>6, BookGrows DEF IInv, CutsOK
    <3> QED
      BY <3>1, <3>2, <3>3
  <2>9. Exact(att.todo)'
    <3>1. Exact(plan.acts)
      BY <2>2, PlanExact DEF Exact
    <3>2. W' = W /\ Proper' = Proper
      BY <1>1, <2>5, <2>6, SameEvents DEF IInv
    <3>3. \A todo : Exact(todo) => Exact(todo)'
      BY <1>1, <3>2, SameLeft
    <3> QED
      BY <2>5, <3>1, <3>3
  <2> QED
    BY <1>1, <2>5, <2>7, <2>8, <2>9 DEF IInv
<1> QED
  BY <1>2, <1>3

LEMMA ApplyKeeps ==
  ASSUME IngestAssumption, NoChains, IInv, ApplyAction
  PROVE  IInv'
<1>1. att.pc = "apply"
  BY DEF ApplyAction
<1>2. /\ AtWork /\ Applying(att.todo) /\ Exact(att.todo)
      /\ att \in [pc : {"idle", "plan", "apply"}, upto : Nat, todo : Seq(Action)]
  BY <1>1 DEF IInv, AtWork
<1>3. BookOK' /\ Applying(att.todo)' /\ (Refreshing(att.todo) => Refreshing(att.todo)') /\ Exact(att.todo)'
  BY <1>1, <1>2, ApplyVoid, ApplyWrite, ApplyExact
<1>4. /\ att'.pc = "apply" /\ att'.upto = att.upto /\ feed' = feed /\ cursor' = cursor /\ crashes' = crashes
      /\ att' \in [pc : {"idle", "plan", "apply"}, upto : Nat, todo : Seq(Action)]
  BY <1>2, ActEffect
<1>5. FeedOK'
  BY <1>4 DEF IInv, FeedOK
<1>6. CutsOK'
  <2>1. End' = End
    BY <1>1, <1>4 DEF End
  <2> QED
    BY <1>4, <2>1 DEF IInv, CutsOK, Cut
<1> QED
  BY <1>1, <1>3, <1>4, <1>5, <1>6 DEF IInv

LEMMA CompleteKeeps ==
  ASSUME IngestAssumption, NoChains, IInv, CompleteAttempt
  PROVE  IInv'
<1>1. /\ att.pc = "apply" /\ att.todo = <<>> /\ cursor' = att.upto /\ att' = Idle
      /\ UNCHANGED <<feed, txn, link, crashes>>
  BY DEF CompleteAttempt
<1>2. AtWork /\ Applying(att.todo)
  BY <1>1 DEF IInv, AtWork
<1>3. /\ att.upto \in Nat /\ att.upto <= Len(feed) /\ Len(feed) \in Nat /\ Cut(att.upto) /\ End = att.upto
  BY <1>1, UpdateIs DEF IInv, CutsOK, End
<1>4. att'.pc = "idle" /\ End' = Len(feed)
  BY <1>1, IdleIs DEF End
<1>5. FeedOK' /\ CutsOK'
  <2>1. FeedOK'
    BY <1>1 DEF IInv, FeedOK
  <2>2. \A n : Cut(n)' = Cut(n)
    BY <1>1 DEF Cut
  <2>3. Cut(Len(feed))
    BY CutEnds DEF IInv
  <2> QED
    BY <1>1, <1>3, <1>4, <2>1, <2>2, <2>3 DEF CutsOK
<1>6. /\ \A t, n : Added(t, n)' = Added(t, n) /\ Gone(t, n)' = Gone(t, n) /\ LastChange(t, n)' = LastChange(t, n)
      /\ Live' = Live
      /\ \A t \in Ids : (Added(t, att.upto) => Added(t, Len(feed))) /\ (Gone(t, att.upto) => Gone(t, Len(feed)))
  BY <1>1, <1>3, SameFeed, FeedOrder DEF Live, IInv
<1>7. \A k : ~ActsFor(att.todo, k) /\ ~ActsOn(att.todo, k)
  BY <1>1 DEF ActsFor, ActsOn
<1>8. \A k \in Live : ~Gone(txn[k].id, att.upto)
  BY <1>2, <1>7 DEF Applying
<1>9. \A t \in Ids : Added(t, att.upto) /\ ~Gone(t, att.upto) => link[t] # None
  BY <1>2, <1>7 DEF Applying, Standing
<1>10. BookOK'
  <2>1. Linked'
    BY <1>1, <1>3, <1>4, <1>6 DEF IInv, BookOK, Linked
  <2>2. Showing'
    BY <1>1, <1>3, <1>4, <1>6 DEF IInv, BookOK, Showing
  <2>3. Lively'
    <3>1. \A k \in Live : /\ txn[k].id \in Ids /\ link[txn[k].id] = k
                          /\ txn[k].status = StatusOf(txn[k].id)
      BY DEF IInv, BookOK, Lively
    <3> QED
      BY <1>1, <1>6, <1>8, <3>1 DEF Lively
  <2>4. \A t \in Ids : Added(t, att.upto) /\ ~Gone(t, Len(feed)) => link[t] # None
    BY <1>6, <1>9
  <2> QED
    BY <1>1, <1>4, <1>6, <2>1, <2>2, <2>3, <2>4 DEF IInv, BookOK
<1>11. ASSUME Refreshing(att.todo) PROVE Fresh'
  <2>1. \A k \in Live : txn[k].at = LastChange(txn[k].id, att.upto)
    BY <1>7, <1>11 DEF Refreshing
  <2>2. \A t \in Ids : link[t] # None => Added(t, att.upto)
    BY <1>2, LinkIs
  <2> QED
    BY <1>1, <1>6, <2>1, <2>2 DEF Fresh
<1> QED
  BY <1>1, <1>4, <1>5, <1>10, <1>11, IdleIs DEF IInv

-----------------------------------------------------------------------------
(* The theorems *)

LEMMA StepKeeps ==
  ASSUME Settling, IInv, [Next]_vars
  PROVE  IInv'
<1>1. IngestAssumption /\ Drained /\ NoChains
  BY IngestAssumption DEF Settling
<1>2. CASE Provider
  BY <1>1, <1>2, ProviderKeeps
<1>3. CASE PullWindow
  BY <1>1, <1>3, PullKeeps
<1>4. CASE PlanWindow
  BY <1>1, <1>4, PlanKeeps
<1>5. CASE ApplyAction
  BY <1>1, <1>5, ApplyKeeps
<1>6. CASE CompleteAttempt
  BY <1>1, <1>6, CompleteKeeps
<1>7. CASE Crash
  BY <1>1, <1>7, CrashKeeps
<1>8. CASE UNCHANGED vars
  <2>1. UNCHANGED <<feed, cursor, txn, link, att, crashes>>
    BY <1>8 DEF vars
  <2>2. Grown
    BY <2>1, UpdateIs DEF Grown, IInv
  <2>3. FeedOK' /\ CutsOK'
    BY <2>1 DEF IInv, FeedOK, CutsOK, Cut, End
  <2>4. BookOK'
    BY <2>1, <2>2, BookGrows DEF IInv, CutsOK, End
  <2>5. Fresh => Fresh'
    BY <2>1, <2>2, SameFresh DEF IInv
  <2>6. att.pc = "apply" =>
          \A todo : (Applying(todo) => Applying(todo)') /\ (Refreshing(todo) => Refreshing(todo)')
    BY <2>1, <2>2, SameWindow DEF IInv
  <2>7. att.pc = "apply" => \A todo : Exact(todo) => Exact(todo)'
    BY <2>1, <2>2, SameEvents, SameLeft DEF IInv
  <2> QED
    BY <2>1, <2>3, <2>4, <2>5, <2>6, <2>7 DEF IInv
<1> QED
  BY <1>2, <1>3, <1>4, <1>5, <1>6, <1>7, <1>8 DEF Next

LEMMA Inductive == Settling => (Spec => []IInv)
<1> SUFFICES ASSUME Settling PROVE Spec => []IInv
  OBVIOUS
<1>1. Init => IInv
  BY IngestAssumption, StartsIInv
<1>2. IInv /\ [Next]_vars => IInv'
  BY StepKeeps
<1> QED
  BY <1>1, <1>2, PTL DEF Spec

(* What the invariant says of keys, purchases and cursor moves. *)
LEMMA BookKeepsKeys ==
  ASSUME IngestAssumption, NoChains, BookOK
  PROVE  KeyKept
<1> SUFFICES ASSUME NEW q \in Ids, PendingOf[q] # None, link[q] # None
             PROVE  link[PendingOf[q]] \in {None, link[q]}
  BY DEF KeyKept
<1> DEFINE p == PendingOf[q]
<1>1. p \in Ids /\ PendingOf[p] = None
  BY DEF IngestAssumption, NoChains
<1>2. link[q] \in {q, p} /\ (link[p] # None => link[p] \in {p, None})
  BY <1>1 DEF BookOK, Linked
<1>3. link[q] = q => link[p] = None
  BY DEF BookOK
<1> QED
  BY <1>2, <1>3

LEMMA BookHasOneEach ==
  ASSUME IngestAssumption, NoChains, BookOK
  PROVE  OneEntryPerPurchase
<1> SUFFICES ASSUME NEW k \in Live, NEW j \in Live, PendingOf[txn[k].id] = txn[j].id PROVE FALSE
  BY DEF OneEntryPerPurchase
<1> DEFINE q == txn[k].id
           p == txn[j].id
<1>1. q \in Ids /\ link[q] = k /\ p \in Ids /\ link[p] = j /\ k \in Ids /\ j \in Ids
  BY DEF BookOK, Lively, Live
<1>2. None \notin Ids /\ PendingOf[q] = p /\ PendingOf[p] = None
  BY <1>1 DEF IngestAssumption, NoChains
<1>3. j = k
  BY <1>1, <1>2, BookKeepsKeys DEF KeyKept
<1> QED
  BY <1>1, <1>2, <1>3

LEMMA ReadyStands ==
  ASSUME IngestAssumption, NoChains, IInv, Ready
  PROVE  /\ Shown = {t \in Ids : Listed(t, att.upto)}
         /\ crashes = 0 => \A k \in Live : txn[k].at = LastChange(txn[k].id, att.upto)
         /\ \A k \in Live : txn[k].status = StatusOf(txn[k].id)
<1>1. att.pc = "apply" /\ att.todo = <<>>
  BY DEF Ready
<1>2. AtWork /\ Applying(<<>>) /\ (crashes = 0 => Refreshing(<<>>))
  BY <1>1 DEF IInv, AtWork
<1>3. \A k : ~ActsFor(<<>>, k) /\ ~ActsOn(<<>>, k)
  BY DEF ActsFor, ActsOn
<1>4. ASSUME NEW k \in Live
      PROVE  /\ txn[k].id \in Ids /\ Standing(txn[k].id) /\ txn[k].status = StatusOf(txn[k].id)
             /\ crashes = 0 => txn[k].at = LastChange(txn[k].id, att.upto)
  <2>1. txn[k].id \in Ids /\ Added(txn[k].id, att.upto) /\ txn[k].status = StatusOf(txn[k].id)
    BY <1>2, LiveIs DEF Live
  <2>2. ~Gone(txn[k].id, att.upto)
    BY <1>2, <1>3 DEF Applying
  <2> QED
    BY <1>2, <1>3, <2>1, <2>2 DEF Standing, Refreshing
<1>5. ASSUME NEW t \in Ids, Standing(t) PROVE link[t] \in Live /\ txn[link[t]].id = t
  <2>1. link[t] # None
    BY <1>2, <1>3, <1>5 DEF Applying
  <2> QED
    BY <1>2, <1>5, <2>1, LinkIs DEF Standing
<1>6. \A t : Listed(t, att.upto) <=> Standing(t)
  BY DEF Listed, Standing, Added, Gone
<1>7. Shown = {t \in Ids : Listed(t, att.upto)}
  <2>1. \A k \in Live : txn[k].id \in Ids /\ Standing(txn[k].id)
    BY <1>4
  <2>2. ASSUME NEW t \in Shown PROVE t \in Ids /\ Standing(t)
    BY <2>1, <2>2 DEF Shown
  <2>3. ASSUME NEW t \in Ids, Standing(t) PROVE t \in Shown
    BY <1>5, <2>3 DEF Shown
  <2> QED
    BY <1>6, <2>2, <2>3
<1>8. crashes = 0 => \A k \in Live : txn[k].at = LastChange(txn[k].id, att.upto)
  BY <1>4
<1>9. \A k \in Live : txn[k].status = StatusOf(txn[k].id)
  BY <1>4
<1> QED
  BY <1>7, <1>8, <1>9

(* A purchase keeps the economic key of its pending id when it posts, whatever *)
(* attempts die on the way: planAdded supersedes the pending transaction, and  *)
(* the pairing in reconcileSyncBatch keeps its removal from voiding it first.  *)
THEOREM KeysHold == Settling => (Spec => []KeyKept)
<1> SUFFICES ASSUME Settling PROVE Spec => []KeyKept
  OBVIOUS
<1>1. IInv => KeyKept
  BY IngestAssumption, BookKeepsKeys DEF IInv, Settling
<1> QED
  BY <1>1, Inductive, PTL

(* At no time, also between two actions of a batch and after an attempt that  *)
(* died there, does the book count a purchase once pending and once posted:    *)
(* keel_worker_apply_action revises the pending transaction in one action.     *)
THEOREM OneEntryHolds == Settling => (Spec => []OneEntryPerPurchase)
<1> SUFFICES ASSUME Settling PROVE Spec => []OneEntryPerPurchase
  OBVIOUS
<1>1. IInv => OneEntryPerPurchase
  BY IngestAssumption, BookHasOneEach DEF IInv, Settling
<1> QED
  BY <1>1, Inductive, PTL

(* An attempt that is about to move the cursor leaves the book showing what    *)
(* the provider lists there, whatever earlier attempts applied before dying:   *)
(* reconcileSyncBatch neither loses a posted transaction to the removal of its *)
(* pending id nor keeps one that is gone.                                      *)
THEOREM MirrorHolds == Settling => (Spec => []MirrorsProvider)
<1> SUFFICES ASSUME Settling PROVE Spec => []MirrorsProvider
  OBVIOUS
<1>1. IInv => MirrorsProvider
  BY IngestAssumption, ReadyStands DEF MirrorsProvider, Settling
<1> QED
  BY <1>1, Inductive, PTL

(* An attempt that dies at any action is planned again to exactly the actions *)
(* it left, unless the window holds an applied void, whose null amount stops   *)
(* the second planning (BigInt of row.amountMinor in the worker).              *)
THEOREM RetryHolds == Settling => (Spec => []RetryResumes)
<1> SUFFICES ASSUME Settling PROVE Spec => []RetryResumes
  OBVIOUS
<1>1. IInv => RetryResumes
  <2> SUFFICES ASSUME IInv, att.pc = "apply", Readable(W)
               PROVE  LET again == ReconcileBatch(Events, Lookup(W)).acts
                      IN {again[i] : i \in DOMAIN again} = {att.todo[i] : i \in DOMAIN att.todo}
    BY DEF RetryResumes, Events, W
  <2> DEFINE plan == ReconcileBatch(Events, Lookup(W))
  <2>1. AtPlan
    BY IngestAssumption DEF IInv, AtPlan, AtWork, Settling, W
  <2>2. Planned(plan, Proper)
    BY <2>1, WindowPlanned
  <2> HIDE DEF plan
  <2>3. {plan.acts[i] : i \in DOMAIN plan.acts} = Left
    BY <2>2, PlanExact
  <2>4. {att.todo[i] : i \in DOMAIN att.todo} = Left
    BY DEF IInv, Exact
  <2> QED
    BY <2>3, <2>4 DEF plan
<1> QED
  BY <1>1, Inductive, PTL

(* While no attempt has died, the cursor moves past an update only when the    *)
(* book shows the provider's latest word on that transaction.                  *)
THEOREM ContentHolds == Settling => (Spec => []ContentCurrent)
<1> SUFFICES ASSUME Settling PROVE Spec => []ContentCurrent
  OBVIOUS
<1>1. IInv => ContentCurrent
  BY IngestAssumption, ReadyStands DEF ContentCurrent, Settling, StatusOf
<1> QED
  BY <1>1, Inductive, PTL

(* The variables keep their types; what a plan leads to are actions.           *)
THEOREM IngestStreamTypeCorrect == Settling => (Spec => []TypeOK)
<1> SUFFICES ASSUME Settling PROVE Spec => []TypeOK
  OBVIOUS
<1>1. IInv => TypeOK
  <2> SUFFICES ASSUME IInv PROVE TypeOK
    OBVIOUS
  <2>1. feed \in Seq([id : Ids, op : {"add", "mod", "rem"}]) /\ Len(feed) \in Nat
    BY UpdateIs DEF IInv, FeedOK, Update
  <2>2. cursor \in 0 .. Len(feed)
    BY <2>1 DEF IInv, CutsOK
  <2>3. att.upto \in 0 .. Len(feed)
    <3>1. CASE att.pc = "idle"
      BY <2>1, <3>1, IdleIs DEF IInv
    <3>2. CASE att.pc # "idle"
      BY <2>1, <3>2 DEF IInv, CutsOK, End
    <3> QED
      BY <3>1, <3>2
  <2>4. att.pc \in {"idle", "plan", "apply"} /\ att.todo \in Seq(Action)
    BY DEF IInv
  <2> QED
    BY <2>1, <2>2, <2>3, <2>4 DEF IInv, BookOK, TypeOK
<1> QED
  BY <1>1, Inductive, PTL
=============================================================================
