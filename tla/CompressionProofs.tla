------------------------- MODULE CompressionProofs -------------------------
(***************************************************************************)
(* A session tells its history once and in order (ToldOnce), for both      *)
(* stores, every number of agents, workers and runs, all limits, and with  *)
(* crashes and empty summaries.                                            *)
(*                                                                         *)
(* A worker merges long after its snapshot.  What makes the merge safe are *)
(* two facts carried by its result, whatever the session does meanwhile:   *)
(* its text tells of nothing but what the snapshot's summary told and what *)
(* stands before the cut; and the session it is merged into has that very  *)
(* summary and that very history at its front.                             *)
(*                                                                         *)
(* In the memory store nothing is lost either (NothingLost): a checkpointed *)
(* round is known to the row, to the run and to the session the run goes    *)
(* back to, and opens its round wherever it still stands, so that every     *)
(* summary that cuts it off was shown it.                                   *)
(***************************************************************************)
EXTENDS HistoryCompression, SequenceTheorems, FiniteSetTheorems, TLAPS

TellsIn(texts, t) == IF t = 0 THEN {} ELSE texts[t]

GoodTexts(texts, m) ==
    /\ m \in Nat
    /\ texts \in Seq(SUBSET Nat)
    /\ \A t \in DOMAIN texts : texts[t] \subseteq 0..m

Ordered(h)   == \A i, j \in DOMAIN h : i < j => h[i].id < h[j].id
Before(S, h) == \A n \in S, i \in DOMAIN h : n < h[i].id
Made(h, m)   == \A i \in DOMAIN h : h[i].id <= m

\* A session in order, of artifacts up to number m.
Good(s, texts, m) ==
    /\ s \in Session /\ s.mid \in 0..Len(texts)
    /\ Ordered(s.hist) /\ Made(s.hist, m)
    /\ s.gone \subseteq 0..m
    /\ Before(TellsIn(texts, s.mid), s.hist) /\ Before(s.gone, s.hist)
    /\ TellsIn(texts, s.mid) \cap s.gone = {}

\* A result whose text tells of its snapshot's past and nothing else.
GoodResult(r, texts, m) ==
    /\ r \in Result /\ r.mid \in 0..Len(texts) /\ r.text \in 0..Len(texts)
    /\ r.cut \in 0..Len(r.hist) /\ Made(r.hist, m)
    /\ TellsIn(texts, r.text)
           \subseteq TellsIn(texts, r.mid) \cup Absorbed(r.hist, r.cut)

GoodWorker(worker, texts, m) ==
    /\ worker \in Worker
    /\ GoodResult(worker.result, texts, m) /\ Good(worker.loaded, texts, m)

\* Rows differ in their versions, one of which is the latest.
GoodRows(R, texts, m) ==
    /\ \A r \in R : Good(r, texts, m)
    /\ \A r, s \in R : r.ver = s.ver => r = s
    /\ ~ Mysql => \A r, s \in R : r = s
    /\ R # {} => \E r \in R : \A s \in R : s.ver <= r.ver

IInv ==
    /\ GoodTexts(told, made)
    /\ GoodRows(rows, told, made)
    /\ lease \in [Agents -> [owner : Nat, expired : BOOLEAN]]
    /\ Good(live, told, made) /\ Good(safe, told, made)
    /\ object \in [run : Nat, copy : 0..1]
    /\ pc \in {"off", "saving", "ready", "build", "level", "summary", "call",
               "failed", "paused", "ended"}
    /\ level \in 0..3 /\ (pc = "summary" => level = 0)
    /\ tokens \in Nat
    /\ GoodResult(snap, told, made)
    /\ work \in Nat
    /\ workers \in Seq(Worker)
    /\ \A w \in DOMAIN workers : GoodWorker(workers[w], told, made)
    /\ acked \subseteq Nat

(***************************************************************************)
(* Sessions                                                                 *)
(***************************************************************************)
\* A summary absorbs a part of the history.
LEMMA CutInHistory == ASSUME NEW h \in Seq(Artifact) PROVE Cut(h) \in 0..Len(h)
<1>1. IsFiniteSet(1..Len(h)) /\ Cardinality(1..Len(h)) = Len(h)
  <2>1. Len(h) \in Nat
    OBVIOUS
  <2> QED
    BY <2>1, FS_Interval
<1> DEFINE S == {i \in DOMAIN h :
                   KeepRounds <= Cardinality({j \in RoundStarts(h) : i < j})}
<1>2. S \in SUBSET (1..Len(h))
  OBVIOUS
<1>3. IsFiniteSet(S) /\ Cardinality(S) <= Len(h)
  BY <1>1, <1>2, FS_Subset
<1>4. Cardinality(S) \in Nat
  BY <1>3, FS_CardinalityType
<1>5. Cardinality(S) \in 0..Len(h)
  BY <1>3, <1>4
<1>6. Cut(h) = Len(h) \/ Cut(h) = Cardinality(S)
  BY DEF Cut
<1> QED
  BY <1>5, <1>6

\* What a summary absorbs are artifacts of the history up to the cut.
LEMMA AbsorbedIds ==
    ASSUME NEW h \in Seq(Artifact), NEW n \in 0..Len(h), NEW m \in Nat
    PROVE  /\ Absorbed(h, n) \subseteq {h[i].id : i \in 1..n}
           /\ Made(h, m) => Absorbed(h, n) \subseteq 0..m
<1>1. Absorbed(h, n) \subseteq {h[i].id : i \in 1..n}
  BY DEF Absorbed
<1>2. ASSUME Made(h, m), NEW i \in 1..n PROVE h[i].id \in 0..m
  <2>1. i \in DOMAIN h /\ h[i] \in Artifact
    OBVIOUS
  <2> QED
    BY <1>2, <2>1 DEF Made, Artifact
<1> QED
  BY <1>1, <1>2

\* Only history, summary and ghost matter to the order of a session.
LEMMA SameStory ==
    ASSUME NEW texts, NEW m, NEW s, NEW z \in Session, Good(s, texts, m),
           z.hist = s.hist, z.mid = s.mid, z.gone = s.gone
    PROVE  Good(z, texts, m)
  BY DEF Good

\* A fresh session is in order: it has nothing to tell.
LEMMA FreshGood ==
    ASSUME NEW texts, NEW m, GoodTexts(texts, m)
    PROVE  Good(FreshSession, texts, m)
<1>1. FreshSession \in Session
  BY BudgetAssumption DEF FreshSession, Session
<1> QED
  BY <1>1 DEF Good, GoodTexts, FreshSession, Ordered, Before, Made, TellsIn

\* A snapshot tells of its own past, which its session told in order.
LEMMA SnapshotGood ==
    ASSUME NEW texts, NEW m, GoodTexts(texts, m), NEW s, Good(s, texts, m)
    PROVE  GoodResult(Snapshot(s), texts, m)
<1>1. s.hist \in Seq(Artifact) /\ s.mid \in Nat
  BY DEF Good, Session
<1>2. Cut(s.hist) \in 0..Len(s.hist)
  BY <1>1, CutInHistory
<1>3. Snapshot(s) \in Result
  BY <1>1, <1>2 DEF Snapshot, Result
<1> QED
  BY <1>2, <1>3 DEF GoodResult, Good, GoodTexts, Snapshot, TellsIn

\* The placeholder of a worker without a snapshot is harmless.
LEMMA NoSnapshotGood ==
    ASSUME NEW texts, NEW m, GoodTexts(texts, m)
    PROVE  GoodResult(NoSnapshot, texts, m)
  BY FreshGood, SnapshotGood DEF NoSnapshot


(***************************************************************************)
(* What is made later changes nothing that is in order                      *)
(***************************************************************************)
LEMMA TextsLater ==
    ASSUME NEW texts, NEW m, GoodTexts(texts, m), NEW n \in Nat, m <= n
    PROVE  GoodTexts(texts, n)
  BY DEF GoodTexts

\* Artifacts made later leave a stored or abandoned session in order.
LEMMA SessionLater ==
    ASSUME NEW texts, NEW m \in Nat, NEW n \in Nat, m <= n, NEW s, Good(s, texts, m)
    PROVE  Good(s, texts, n)
<1>1. Made(s.hist, n)
  <2>0. s.hist \in Seq(Artifact)
    BY DEF Good, Session
  <2>1. ASSUME NEW i \in DOMAIN s.hist PROVE s.hist[i].id \in Nat
    <3>1. s.hist[i] \in Artifact
      BY <2>0
    <3> QED
      BY <3>1 DEF Artifact
  <2> QED
    BY <2>1 DEF Good, Made
<1> QED
  BY <1>1 DEF Good

\* Artifacts made later leave the result of a slow worker good.
LEMMA ResultLater ==
    ASSUME NEW texts, NEW m \in Nat, NEW n \in Nat, m <= n, NEW r, GoodResult(r, texts, m)
    PROVE  GoodResult(r, texts, n)
<1>1. Made(r.hist, n)
  <2>0. r.hist \in Seq(Artifact)
    BY DEF GoodResult, Result
  <2>1. ASSUME NEW i \in DOMAIN r.hist PROVE r.hist[i].id \in Nat
    <3>1. r.hist[i] \in Artifact
      BY <2>0
    <3> QED
      BY <3>1 DEF Artifact
  <2> QED
    BY <2>1 DEF GoodResult, Made
<1> QED
  BY <1>1 DEF GoodResult

\* Artifacts made later leave every stored version in order.
LEMMA RowsLater ==
    ASSUME NEW texts, NEW m \in Nat, NEW n \in Nat, m <= n, NEW R, GoodRows(R, texts, m)
    PROVE  GoodRows(R, texts, n)
  BY SessionLater DEF GoodRows

\* Artifacts made later leave every worker sound.
LEMMA WorkersLater ==
    ASSUME NEW texts, NEW m \in Nat, NEW n \in Nat, m <= n, NEW ws,
           \A w \in DOMAIN ws : GoodWorker(ws[w], texts, m)
    PROVE  \A w \in DOMAIN ws : GoodWorker(ws[w], texts, n)
  BY SessionLater, ResultLater DEF GoodWorker

\* A text that is written is a new one.
LEMMA TextAppended ==
    ASSUME NEW texts, NEW m, GoodTexts(texts, m), NEW X \in SUBSET (0..m)
    PROVE  /\ GoodTexts(Append(texts, X), m)
           /\ Len(Append(texts, X)) = Len(texts) + 1
           /\ TellsIn(Append(texts, X), Len(texts) + 1) = X
           /\ \A t \in 0..Len(texts) : TellsIn(Append(texts, X), t) = TellsIn(texts, t)
<1>1. texts \in Seq(SUBSET Nat) /\ X \in SUBSET Nat /\ m \in Nat
  BY DEF GoodTexts
<1>2. /\ Append(texts, X) \in Seq(SUBSET Nat)
      /\ Len(Append(texts, X)) = Len(texts) + 1
      /\ Append(texts, X)[Len(texts) + 1] = X
      /\ \A t \in 1..Len(texts) : Append(texts, X)[t] = texts[t]
  BY <1>1
<1>3. GoodTexts(Append(texts, X), m)
  <2>1. DOMAIN Append(texts, X) = 1..Len(texts) + 1 /\ DOMAIN texts = 1..Len(texts)
    BY <1>1, <1>2
  <2>2. ASSUME NEW t \in 1..Len(texts) + 1 PROVE Append(texts, X)[t] \subseteq 0..m
    <3>1. CASE t \in 1..Len(texts)
      BY <1>2, <2>1, <3>1 DEF GoodTexts
    <3>2. CASE t = Len(texts) + 1
      BY <1>2, <3>2
    <3> QED
      BY <1>1, <3>1, <3>2
  <2> QED
    BY <1>1, <1>2, <2>1, <2>2 DEF GoodTexts
<1> QED
  BY <1>1, <1>2, <1>3 DEF TellsIn

\* A new text changes nothing for a session that has another summary.
LEMMA SessionAfterText ==
    ASSUME NEW texts, NEW m, GoodTexts(texts, m), NEW X \in SUBSET (0..m),
           NEW s, Good(s, texts, m)
    PROVE  Good(s, Append(texts, X), m)
<1>1. TellsIn(Append(texts, X), s.mid) = TellsIn(texts, s.mid)
  BY TextAppended DEF Good
<1>2. s.mid \in 0..Len(Append(texts, X))
  BY TextAppended DEF Good, GoodTexts
<1> QED
  BY <1>1, <1>2 DEF Good

\* A new text changes nothing for a result that names another one.
LEMMA ResultAfterText ==
    ASSUME NEW texts, NEW m, GoodTexts(texts, m), NEW X \in SUBSET (0..m),
           NEW r, GoodResult(r, texts, m)
    PROVE  GoodResult(r, Append(texts, X), m)
<1>1. /\ TellsIn(Append(texts, X), r.mid) = TellsIn(texts, r.mid)
      /\ TellsIn(Append(texts, X), r.text) = TellsIn(texts, r.text)
  BY TextAppended DEF GoodResult
<1>2. r.mid \in 0..Len(Append(texts, X)) /\ r.text \in 0..Len(Append(texts, X))
  BY TextAppended DEF GoodResult, GoodTexts
<1> QED
  BY <1>1, <1>2 DEF GoodResult

\* The new text of a snapshot tells of its past.
LEMMA WrittenText ==
    ASSUME NEW texts, NEW m, GoodTexts(texts, m), NEW r, GoodResult(r, texts, m),
           NEW X, X = TellsIn(texts, r.mid) \cup Absorbed(r.hist, r.cut)
    PROVE  /\ X \in SUBSET (0..m)
           /\ GoodResult([r EXCEPT !.text = Len(texts) + 1], Append(texts, X), m)
<1>1. r.hist \in Seq(Artifact) /\ r.mid \in 0..Len(texts) /\ m \in Nat
  BY DEF GoodResult, Result, GoodTexts
<1>2. Absorbed(r.hist, r.cut) \subseteq 0..m
  BY <1>1, AbsorbedIds DEF GoodResult
<1>3. TellsIn(texts, r.mid) \subseteq 0..m
  BY <1>1 DEF TellsIn, GoodTexts
<1>4. X \in SUBSET (0..m)
  BY <1>2, <1>3
<1> DEFINE q == [r EXCEPT !.text = Len(texts) + 1]
<1>5. /\ q \in Result /\ q.hist = r.hist /\ q.mid = r.mid /\ q.cut = r.cut
      /\ q.text = Len(texts) + 1
  BY DEF GoodResult, Result, GoodTexts
<1>6. /\ TellsIn(Append(texts, X), q.mid) = TellsIn(texts, r.mid)
      /\ TellsIn(Append(texts, X), q.text) = X
      /\ Len(Append(texts, X)) = Len(texts) + 1 /\ Len(texts) \in Nat
  BY <1>1, <1>4, <1>5, TextAppended, SMTT(40) DEF GoodTexts
<1> HIDE DEF q
<1>7. q.mid \in 0..Len(Append(texts, X)) /\ q.text \in 0..Len(Append(texts, X))
  BY <1>1, <1>5, <1>6
<1>8. q.cut \in 0..Len(q.hist) /\ Made(q.hist, m)
  BY <1>5 DEF GoodResult
<1>9. TellsIn(Append(texts, X), q.text)
          \subseteq TellsIn(Append(texts, X), q.mid) \cup Absorbed(q.hist, q.cut)
  BY <1>5, <1>6
<1>10. GoodResult(q, Append(texts, X), m)
  BY <1>5, <1>7, <1>8, <1>9 DEF GoodResult
<1> USE DEF q
<1> QED
  BY <1>4, <1>10

\* A result without text tells of nothing.
LEMMA EmptyText ==
    ASSUME NEW texts, NEW m, NEW r, GoodResult(r, texts, m)
    PROVE  GoodResult([r EXCEPT !.text = 0], texts, m)
<1> DEFINE q == [r EXCEPT !.text = 0]
<1>1. /\ q \in Result /\ q.hist = r.hist /\ q.mid = r.mid /\ q.cut = r.cut
      /\ q.text = 0
  BY DEF GoodResult, Result
<1>2. 0 \in 0..Len(texts) /\ TellsIn(texts, q.text) = {}
  BY <1>1 DEF GoodResult, TellsIn
<1> QED
  BY <1>1, <1>2 DEF GoodResult

(***************************************************************************)
(* The merge                                                                *)
(***************************************************************************)
LEMMA Suffix ==
    ASSUME NEW S, NEW h \in Seq(S), NEW n \in 0..Len(h)
    PROVE  /\ SubSeq(h, n + 1, Len(h)) \in Seq(S)
           /\ Len(SubSeq(h, n + 1, Len(h))) = Len(h) - n
           /\ \A i \in 1..(Len(h) - n) : SubSeq(h, n + 1, Len(h))[i] = h[n + i]
<1>1. n + 1 \in Int /\ Len(h) \in Int /\ \A i \in (n + 1)..Len(h) : h[i] \in S
  OBVIOUS
<1>2. /\ SubSeq(h, n + 1, Len(h)) \in Seq(S)
      /\ Len(SubSeq(h, n + 1, Len(h)))
             = IF n + 1 <= Len(h) THEN Len(h) - (n + 1) + 1 ELSE 0
      /\ \A i \in 1..(Len(h) - (n + 1) + 1) :
             SubSeq(h, n + 1, Len(h))[i] = h[n + 1 + i - 1]
  BY <1>1, SubSeqProperties
<1>3. /\ (IF n + 1 <= Len(h) THEN Len(h) - (n + 1) + 1 ELSE 0) = Len(h) - n
      /\ Len(h) - (n + 1) + 1 = Len(h) - n
  BY <1>1
<1>4. ASSUME NEW i \in 1..(Len(h) - n)
      PROVE  SubSeq(h, n + 1, Len(h))[i] = h[n + i]
  <2>1. n + 1 + i - 1 = n + i
    BY <1>1
  <2>2. SubSeq(h, n + 1, Len(h))[i] = h[n + 1 + i - 1]
    BY <1>2, <1>3
  <2> QED
    BY <2>1, <2>2
<1> QED
  BY <1>2, <1>3, <1>4

\* What a merge leaves of the history stood behind the cut of the snapshot, and the
\* snapshot's history is the beginning of the session's.
LEMMA MergedHistory ==
    ASSUME NEW texts, NEW m, NEW s, Good(s, texts, m),
           NEW r, GoodResult(r, texts, m), CanMerge(s, r)
    PROVE  LET z == Merge(s, r)
               k == Len(s.hist)
           IN  /\ z \in Session /\ z.mid = r.text /\ z.gone = s.gone /\ r.mid = s.mid
               /\ k \in Nat /\ r.cut \in 0..k /\ r.hist \in Seq(Artifact)
               /\ DOMAIN s.hist = 1..k /\ DOMAIN z.hist = 1..(k - r.cut)
               /\ \A i \in DOMAIN z.hist :
                     r.cut + i \in DOMAIN s.hist /\ z.hist[i] = s.hist[r.cut + i]
               /\ \A i \in 1..r.cut : i \in DOMAIN s.hist /\ r.hist[i] = s.hist[i]
<1> DEFINE z    == Merge(s, r)
           n    == Len(r.hist)
           k    == Len(s.hist)
           kept == SubSeq(r.hist, r.cut + 1, n)
           rest == SubSeq(s.hist, n + 1, k)
<1>1. /\ s.hist \in Seq(Artifact) /\ r.hist \in Seq(Artifact)
      /\ n \in Nat /\ k \in Nat /\ r.cut \in 0..n /\ n <= k
      /\ SubSeq(r.hist, 1, n) = SubSeq(s.hist, 1, n)
      /\ r.mid = s.mid
  BY DEF Good, GoodResult, Session, Result, CanMerge, IsPrefix
<1>2. \A i \in 1..n : r.hist[i] = s.hist[i]
  <2>1. \A i \in 1..n : SubSeq(r.hist, 1, n)[i] = r.hist[i]
    BY <1>1
  <2>2. \A i \in 1..n : SubSeq(s.hist, 1, n)[i] = s.hist[i]
    BY <1>1
  <2> QED
    BY <1>1, <2>1, <2>2
<1>3. /\ kept \in Seq(Artifact) /\ Len(kept) = n - r.cut
      /\ \A i \in 1..(n - r.cut) : kept[i] = r.hist[r.cut + i]
  BY <1>1, Suffix
<1>4. /\ rest \in Seq(Artifact) /\ Len(rest) = k - n
      /\ \A i \in 1..(k - n) : rest[i] = s.hist[n + i]
  <2>1. n \in 0..Len(s.hist)
    BY <1>1
  <2> HIDE DEF n
  <2> QED
    BY <1>1, <2>1, Suffix
<1> HIDE DEF kept, rest, n, k
<1> DEFINE a == n - r.cut
           b == k - n
           whole == kept \o rest
<1>5. /\ whole \in Seq(Artifact) /\ Len(whole) = k - r.cut
      /\ \A i \in 1..(k - r.cut) : whole[i] = s.hist[r.cut + i]
  <2>1. a \in Nat /\ b \in Nat /\ a + b = k - r.cut /\ r.cut \in Nat
    BY <1>1
  <2>2. Len(kept) = a /\ Len(rest) = b
    BY <1>3, <1>4
  <2>3. /\ \A i \in 1..a : kept[i] = r.hist[r.cut + i]
        /\ \A i \in 1..b : rest[i] = s.hist[n + i]
    BY <1>3, <1>4
  <2>4. \A i \in Nat : i <= a => r.cut + i <= n
    BY <1>1
  <2>5. \A i \in Nat : n + (i - a) = r.cut + i
    BY <1>1
  <2> HIDE DEF a, b
  <2>6. /\ whole \in Seq(Artifact) /\ Len(whole) = a + b
        /\ \A i \in 1..(a + b) : whole[i] = IF i <= a THEN kept[i] ELSE rest[i - a]
    <3>1. kept \in Seq(Artifact) /\ rest \in Seq(Artifact) /\ a \in Nat /\ b \in Nat
      BY <1>3, <1>4, <2>1
    <3>2. /\ whole \in Seq(Artifact) /\ Len(whole) = Len(kept) + Len(rest)
          /\ \A i \in 1..Len(kept) + Len(rest) :
                 whole[i] = IF i <= Len(kept) THEN kept[i] ELSE rest[i - Len(kept)]
      BY <3>1, ConcatProperties, Zenon
    <3> QED
      BY <2>2, <3>2
  <2> HIDE DEF whole
  <2>7. ASSUME NEW i \in 1..(a + b) PROVE whole[i] = s.hist[r.cut + i]
    <3>1. CASE i <= a
      <4>1. whole[i] = kept[i] /\ i \in 1..a /\ r.cut + i \in 1..n
        BY <1>1, <2>1, <2>4, <2>6, <3>1
      <4> QED
        BY <1>2, <2>3, <4>1
    <3>2. CASE i > a
      <4>1. whole[i] = rest[i - a] /\ i - a \in 1..b
        BY <2>1, <2>6, <3>2
      <4> QED
        BY <2>1, <2>3, <2>5, <4>1
    <3>3. i <= a \/ i > a
      BY <2>1
    <3> QED
      BY <3>1, <3>2, <3>3
  <2> QED
    BY <2>1, <2>6, <2>7
<1> HIDE DEF whole
<1>6. /\ z \in Session /\ z.hist = whole /\ z.mid = r.text /\ z.gone = s.gone
  <2>1. r.text \in Nat /\ s \in Session
    BY DEF Good, GoodResult, Result
  <2> QED
    BY <1>5, <2>1 DEF Merge, Session, kept, rest, n, k, whole
<1> HIDE DEF z
<1>7. /\ DOMAIN z.hist = 1..(k - r.cut) /\ DOMAIN s.hist = 1..k
      /\ \A i \in DOMAIN z.hist : r.cut + i \in DOMAIN s.hist /\ z.hist[i] = s.hist[r.cut + i]
  BY <1>1, <1>5, <1>6 DEF k
<1>8. r.cut \in 0..k /\ \A i \in 1..r.cut : i \in DOMAIN s.hist /\ r.hist[i] = s.hist[i]
  BY <1>1, <1>2, <1>7
<1> QED
  BY <1>1, <1>6, <1>7, <1>8 DEF z, k

\* A result that can be merged leaves a session in order: what remains stands
\* behind the cut, what its text tells of was told before or stands before it.
LEMMA MergeGood ==
    ASSUME NEW texts, NEW m, GoodTexts(texts, m), NEW s, Good(s, texts, m),
           NEW r, GoodResult(r, texts, m), CanMerge(s, r)
    PROVE  Good(Merge(s, r), texts, m)
<1>1. PICK z, k : z = Merge(s, r) /\ k = Len(s.hist)
  OBVIOUS
<1>2. /\ z \in Session /\ z.mid = r.text /\ z.gone = s.gone /\ r.mid = s.mid
      /\ k \in Nat /\ r.cut \in 0..k /\ r.hist \in Seq(Artifact)
      /\ DOMAIN s.hist = 1..k /\ DOMAIN z.hist = 1..(k - r.cut)
      /\ \A i \in 1..r.cut : i \in DOMAIN s.hist /\ r.hist[i] = s.hist[i]
  BY <1>1, MergedHistory
<1>3. s.hist \in Seq(Artifact)
  BY DEF Good, Session
<1>4. \A i \in DOMAIN z.hist : r.cut + i \in DOMAIN s.hist /\ z.hist[i] = s.hist[r.cut + i]
  BY <1>1, MergedHistory
<1>5. Ordered(z.hist)
  <2>1. ASSUME NEW i \in DOMAIN z.hist, NEW j \in DOMAIN z.hist, i < j
        PROVE  z.hist[i].id < z.hist[j].id
    <3>1. r.cut + i < r.cut + j
      BY <1>2, <1>4, <2>1
    <3> QED
      BY <1>4, <3>1 DEF Good, Ordered
  <2> QED
    BY <2>1 DEF Ordered
<1>6. Made(z.hist, m)
  BY <1>4 DEF Good, Made
<1>7. Before(z.gone, z.hist)
  BY <1>2, <1>4 DEF Good, Before
<1>8. ASSUME NEW t \in TellsIn(texts, r.text)
       PROVE  t \in TellsIn(texts, s.mid) \/ \E j \in 1..r.cut : t = s.hist[j].id
  <2>1. t \in TellsIn(texts, s.mid) \/ t \in Absorbed(r.hist, r.cut)
    BY <1>2, <1>8 DEF GoodResult
  <2>2. m \in Nat /\ r.cut \in 0..Len(r.hist)
    BY DEF GoodTexts, GoodResult
  <2>3. Absorbed(r.hist, r.cut) \subseteq {r.hist[j].id : j \in 1..r.cut}
    BY <1>2, <2>2, AbsorbedIds
  <2>4. \A j \in 1..r.cut : r.hist[j] = s.hist[j]
    BY <1>2
  <2> QED
    BY <2>1, <2>3, <2>4
<1>9. Before(TellsIn(texts, z.mid), z.hist)
  <2>1. ASSUME NEW t \in TellsIn(texts, r.text), NEW i \in DOMAIN z.hist
        PROVE  t < z.hist[i].id
    <3>1. r.cut + i \in DOMAIN s.hist /\ z.hist[i] = s.hist[r.cut + i]
      BY <1>4
    <3>2. CASE t \in TellsIn(texts, s.mid)
      BY <3>1, <3>2 DEF Good, Before
    <3>3. ASSUME NEW j \in 1..r.cut, t = s.hist[j].id PROVE t < z.hist[i].id
      <4>1. j \in DOMAIN s.hist /\ j < r.cut + i
        BY <1>2, <1>4
      <4> QED
        BY <3>1, <3>3, <4>1 DEF Good, Ordered
    <3> QED
      BY <1>8, <3>2, <3>3
  <2> QED
    BY <1>2, <2>1 DEF Before
<1>10. TellsIn(texts, z.mid) \cap z.gone = {}
  <2>1. ASSUME NEW t \in TellsIn(texts, r.text), t \in s.gone PROVE FALSE
    <3>1. CASE t \in TellsIn(texts, s.mid)
      BY <2>1, <3>1 DEF Good
    <3>2. ASSUME NEW j \in 1..r.cut, t = s.hist[j].id PROVE FALSE
      <4>1. j \in DOMAIN s.hist
        BY <1>2, <1>4
      <4>2. t < s.hist[j].id
        BY <2>1, <4>1 DEF Good, Before
      <4>3. s.hist[j] \in Artifact
        BY <1>3, <4>1
      <4> QED
        BY <3>2, <4>2, <4>3 DEF Artifact
    <3> QED
      BY <1>8, <3>1, <3>2
  <2> QED
    BY <1>2, <2>1
<1>11. z.mid \in 0..Len(texts) /\ z.gone \subseteq 0..m
  BY <1>2 DEF Good, GoodResult
<1>12. Good(z, texts, m)
  BY <1>2, <1>5, <1>6, <1>7, <1>9, <1>10, <1>11 DEF Good
<1> QED
  BY <1>1, <1>12

\* A merge that the guard refuses leaves the session alone; one it accepts is safe.
LEMMA MergeIntoGood ==
    ASSUME NEW texts, NEW m, GoodTexts(texts, m), NEW s, Good(s, texts, m),
           NEW r, GoodResult(r, texts, m)
    PROVE  Good(MergeInto(s, r), texts, m)
  BY MergeGood DEF MergeInto

(***************************************************************************)
(* What a run appends to the history and what a hard limit removes          *)
(***************************************************************************)
\* An artifact created now stands behind everything.
LEMMA AppendGood ==
    ASSUME NEW texts, NEW m, GoodTexts(texts, m), NEW s, Good(s, texts, m),
           NEW x \in Artifact, x.id = m + 1
    PROVE  Good([s EXCEPT !.hist = Append(s.hist, x)], texts, m + 1)
<1> DEFINE h == Append(s.hist, x)
           z == [s EXCEPT !.hist = h]
           k == Len(s.hist)
<1>1. /\ s.hist \in Seq(Artifact) /\ k \in Nat /\ m \in Nat
      /\ texts \in Seq(SUBSET Nat)
  BY DEF Good, Session, GoodTexts
<1>2. /\ h \in Seq(Artifact) /\ DOMAIN h = 1..(k + 1) /\ DOMAIN s.hist = 1..k
      /\ h[k + 1] = x /\ \A i \in 1..k : h[i] = s.hist[i]
  BY <1>1
<1> HIDE DEF h
<1>3. z \in Session /\ z.hist = h /\ z.mid = s.mid /\ z.gone = s.gone
  BY <1>2 DEF Good, Session
<1> HIDE DEF z, k
<1>4. \A i \in 1..k : h[i].id \in Nat /\ h[i].id <= m
  <2>1. ASSUME NEW i \in 1..k PROVE h[i].id \in Nat /\ h[i].id <= m
    <3>1. s.hist[i] \in Artifact /\ h[i] = s.hist[i] /\ i \in DOMAIN s.hist
      BY <1>1, <1>2
    <3> QED
      BY <3>1 DEF Artifact, Good, Made
  <2> QED
    BY <2>1
<1>5. Made(h, m + 1)
  <2>1. ASSUME NEW i \in 1..(k + 1) PROVE h[i].id <= m + 1
    <3>1. CASE i = k + 1
      BY <1>1, <1>2, <3>1
    <3>2. CASE i \in 1..k
      BY <1>1, <1>4, <3>2
    <3> QED
      BY <1>1, <3>1, <3>2
  <2> QED
    BY <1>2, <2>1 DEF Made
<1>6. Ordered(h)
  <2>1. ASSUME NEW i \in 1..(k + 1), NEW j \in 1..(k + 1), i < j
        PROVE  h[i].id < h[j].id
    <3>1. i \in 1..k
      BY <1>1, <2>1
    <3>2. CASE j = k + 1
      BY <1>1, <1>2, <1>4, <3>1, <3>2
    <3>3. CASE j \in 1..k
      BY <1>2, <2>1, <3>1, <3>3 DEF Good, Ordered
    <3> QED
      BY <1>1, <3>2, <3>3
  <2> QED
    BY <1>2, <2>1 DEF Ordered
<1>7. TellsIn(texts, s.mid) \subseteq 0..m /\ s.gone \subseteq 0..m
  BY <1>1 DEF Good, GoodTexts, TellsIn
<1>8. ASSUME NEW S, S \subseteq 0..m, Before(S, s.hist) PROVE Before(S, h)
  <2>1. ASSUME NEW n \in S, NEW i \in 1..(k + 1) PROVE n < h[i].id
    <3>1. CASE i = k + 1
      BY <1>1, <1>2, <1>8, <3>1
    <3>2. CASE i \in 1..k
      BY <1>2, <1>8, <3>2 DEF Before
    <3> QED
      BY <1>1, <3>1, <3>2
  <2> QED
    BY <1>2, <2>1 DEF Before
<1>9. Before(TellsIn(texts, s.mid), h) /\ Before(s.gone, h)
  BY <1>7, <1>8 DEF Good
<1>10. s.gone \subseteq 0..(m + 1)
  BY <1>1, <1>7
<1>11. Good(z, texts, m + 1)
  BY <1>3, <1>5, <1>6, <1>9, <1>10 DEF Good
<1> QED
  BY <1>11 DEF z, h

\* A summary thrown away is of before the history.
LEMMA DiscardGood ==
    ASSUME NEW texts, NEW m, GoodTexts(texts, m), NEW s, Good(s, texts, m)
    PROVE  Good([s EXCEPT !.gone = s.gone \cup TellsIn(texts, s.mid), !.mid = 0],
                texts, m)
<1> DEFINE z == [s EXCEPT !.gone = s.gone \cup TellsIn(texts, s.mid), !.mid = 0]
<1>1. TellsIn(texts, s.mid) \subseteq 0..m /\ 0..m \subseteq Nat
  BY DEF Good, GoodTexts, TellsIn
<1>2. /\ z \in Session /\ z.hist = s.hist /\ z.mid = 0
      /\ z.gone = s.gone \cup TellsIn(texts, s.mid)
  BY <1>1 DEF Good, Session
<1> HIDE DEF z
<1>3. TellsIn(texts, z.mid) = {} /\ z.mid \in 0..Len(texts)
  BY <1>2 DEF TellsIn, GoodTexts
<1>4. z.gone \subseteq 0..m /\ Before(z.gone, z.hist)
  BY <1>1, <1>2 DEF Good, Before
<1>5. Good(z, texts, m)
  BY <1>2, <1>3, <1>4 DEF Good, Before
<1> QED
  BY <1>5 DEF z

\* A session whose history and summary are dropped is in order.
LEMMA DropGood ==
    ASSUME NEW texts, NEW m, GoodTexts(texts, m), NEW s, Good(s, texts, m)
    PROVE  Good([s EXCEPT !.gone = s.gone \cup TellsIn(texts, s.mid) \cup Ids(s.hist),
                          !.mid = 0, !.hist = <<>>], texts, m)
<1> DEFINE lost == s.gone \cup TellsIn(texts, s.mid) \cup Ids(s.hist)
           z    == [s EXCEPT !.gone = lost, !.mid = 0, !.hist = <<>>]
<1>1. TellsIn(texts, s.mid) \subseteq 0..m /\ 0..m \subseteq Nat /\ m \in Nat
  BY DEF Good, GoodTexts, TellsIn
<1>2. Ids(s.hist) \subseteq 0..m
  <2>1. ASSUME NEW i \in DOMAIN s.hist PROVE s.hist[i].id \in 0..m
    <3>1. s.hist[i] \in Artifact
      BY DEF Good, Session
    <3> QED
      BY <1>1, <3>1 DEF Artifact, Good, Made
  <2> QED
    BY <2>1 DEF Ids
<1>3. s \in Session /\ s.gone \subseteq 0..m
  BY DEF Good
<1>4. lost \subseteq 0..m /\ lost \in SUBSET Nat
  BY <1>1, <1>2, <1>3
<1> HIDE DEF lost
<1>5. z \in Session /\ z.hist = <<>> /\ z.mid = 0 /\ z.gone = lost
  <2> DEFINE y == [s EXCEPT !.gone = lost]
             x == [y EXCEPT !.mid = 0]
             e == <<>>
  <2>1. y \in Session /\ y.hist = s.hist /\ y.mid = s.mid /\ y.gone = lost
    BY <1>3, <1>4 DEF Session
  <2>2. e \in Seq(Artifact)
    OBVIOUS
  <2>3. z = [x EXCEPT !.hist = e]
    OBVIOUS
  <2> HIDE DEF y, e
  <2>4. x \in Session /\ x.hist = s.hist /\ x.mid = 0 /\ x.gone = lost
    BY <2>1 DEF Session
  <2> HIDE DEF x, z
  <2>5. z \in Session /\ z.hist = e /\ z.mid = 0 /\ z.gone = lost
    BY <2>2, <2>3, <2>4 DEF Session
  <2> QED
    BY <2>5 DEF e
<1> HIDE DEF z
<1>6. TellsIn(texts, z.mid) = {} /\ z.mid \in 0..Len(texts)
  BY <1>5 DEF TellsIn, GoodTexts
<1>7. Good(z, texts, m)
  BY <1>4, <1>5, <1>6 DEF Good, Before, Ordered, Made
<1> QED
  BY <1>7 DEF z, lost

(***************************************************************************)
(* The store                                                                *)
(***************************************************************************)
\* A store that is not empty has a latest row.
LEMMA LatestIsLatest ==
    ASSUME NEW texts, NEW m, GoodTexts(texts, m), GoodRows(rows, texts, m)
    PROVE  /\ Good(Latest, texts, m)
           /\ rows # {} => Latest \in rows /\ \A r \in rows : r.ver <= Latest.ver
<1>1. CASE rows = {}
  BY <1>1, FreshGood DEF Latest
<1>2. CASE rows # {}
  <2>1. \E r \in rows : \A v \in Versions : v <= r.ver
    BY <1>2 DEF GoodRows, Versions
  <2>2. Latest = CHOOSE r \in rows : \A v \in Versions : v <= r.ver
    BY <1>2 DEF Latest
  <2>3. Latest \in rows /\ \A v \in Versions : v <= Latest.ver
    BY <2>1, <2>2
  <2> QED
    BY <2>3 DEF GoodRows, Versions
<1> QED
  BY <1>1, <1>2

\* A stored session is the session with another version.
LEMMA StoredGood ==
    ASSUME NEW texts, NEW m, GoodTexts(texts, m), GoodRows(rows, texts, m),
           NEW s, Good(s, texts, m)
    PROVE  /\ Good(Stored(s), texts, m)
           /\ Stored(s).ver = NextVersion(s) /\ NextVersion(s) \in Nat
<1>1. s \in Session /\ Latest \in Session
  BY LatestIsLatest DEF Good
<1>2. NextVersion(s) \in Nat
  BY <1>1 DEF NextVersion, Session
<1>3. /\ Stored(s) \in Session /\ Stored(s).ver = NextVersion(s)
      /\ Stored(s).hist = s.hist /\ Stored(s).mid = s.mid /\ Stored(s).gone = s.gone
  BY <1>1, <1>2 DEF Stored, Session
<1> QED
  BY <1>2, <1>3, SameStory

\* A save keeps one row per version and a latest one.
LEMMA SaveGood ==
    ASSUME NEW texts, NEW m, GoodTexts(texts, m), GoodRows(rows, texts, m),
           NEW s, Good(s, texts, m), CanSave(s)
    PROVE  GoodRows(RowsAfter(s), texts, m)
<1> DEFINE z == Stored(s)
<1>1. /\ Good(z, texts, m) /\ z.ver = NextVersion(s) /\ z.ver \in Nat
      /\ s.ver \in Nat /\ \A r \in rows : r.ver \in Nat
  BY StoredGood DEF Good, Session, GoodRows
<1> HIDE DEF z
<1>2. CASE ~ Mysql
  <2>1. RowsAfter(s) = {z}
    BY <1>2 DEF RowsAfter, z
  <2> QED
    BY <1>1, <2>1 DEF GoodRows
<1>3. CASE Mysql
  <2> DEFINE left == {r \in rows : r.ver # s.ver}
  <2>1. RowsAfter(s) = left \cup {z} /\ left \subseteq rows
    BY <1>3 DEF RowsAfter, z
  <2>2. \A r \in rows : r.ver # z.ver
    BY <1>1, <1>3 DEF CanSave, Versions
  <2>3. \A r \in left \cup {z} : Good(r, texts, m)
    BY <1>1 DEF GoodRows
  <2>4. \A r, t \in left \cup {z} : r.ver = t.ver => r = t
    BY <2>2 DEF GoodRows
  <2>5. \E r \in left \cup {z} : \A t \in left \cup {z} : t.ver <= r.ver
    <3>1. CASE rows = {}
      BY <1>1, <3>1
    <3>2. CASE rows # {}
      <4>1. Latest \in rows /\ \A r \in rows : r.ver <= Latest.ver
        BY <3>2, LatestIsLatest
      <4>2. z.ver = s.ver + 1 \/ z.ver = Latest.ver + 1
        BY <1>1, <1>3 DEF NextVersion
      <4>3. CASE Latest \in left /\ z.ver <= Latest.ver
        BY <4>1, <4>3
      <4>4. CASE Latest \in left /\ ~ z.ver <= Latest.ver
        <5>1. \A t \in left \cup {z} : t.ver <= z.ver
          BY <1>1, <4>1, <4>4
        <5> QED
          BY <5>1
      <4>5. CASE Latest \notin left
        <5>1. Latest.ver = s.ver
          BY <4>1, <4>5
        <5>2. \A t \in left \cup {z} : t.ver <= z.ver
          BY <1>1, <4>1, <4>2, <5>1
        <5> QED
          BY <5>2
      <4> QED
        BY <4>3, <4>4, <4>5
    <3> QED
      BY <3>1, <3>2
  <2> QED
    BY <1>3, <2>1, <2>3, <2>4, <2>5 DEF GoodRows
<1> QED
  BY <1>2, <1>3

\* The memory store merges into its one row.
LEMMA RowsMergedGood ==
    ASSUME NEW texts, NEW m, GoodTexts(texts, m), GoodRows(rows, texts, m),
           NEW r, GoodResult(r, texts, m), ~ Mysql
    PROVE  GoodRows({MergeInto(s, r) : s \in rows}, texts, m)
<1> DEFINE R == {MergeInto(s, r) : s \in rows}
<1>1. \A z \in R : Good(z, texts, m)
  BY MergeIntoGood DEF GoodRows
<1>2. \A y, z \in R : y = z
  BY DEF GoodRows
<1>3. \A z \in R : z.ver \in Nat
  BY <1>1 DEF Good, Session
<1> HIDE DEF R
<1>4. R # {} => \E y \in R : \A z \in R : z.ver <= y.ver
  <2>1. ASSUME NEW y \in R PROVE \A z \in R : z.ver <= y.ver
    <3>1. ASSUME NEW z \in R PROVE z.ver <= y.ver
      <4>1. z = y /\ y.ver \in Nat
        BY <1>2, <1>3
      <4> QED
        BY <4>1
    <3> QED
      BY <3>1
  <2> QED
    BY <2>1
<1>5. GoodRows(R, texts, m)
  BY <1>1, <1>2, <1>4 DEF GoodRows
<1> QED
  BY <1>5 DEF R

(***************************************************************************)
(* Workers and measures                                                     *)
(***************************************************************************)
LEMMA WorkerGood ==
    ASSUME NEW texts, NEW m, NEW v, NEW p, NEW r, NEW s, GoodWorker(v, texts, m),
           p \in {"compact", "merge", "load", "save", "finish", "done", "dead"},
           GoodResult(r, texts, m), Good(s, texts, m)
    PROVE  /\ GoodWorker([v EXCEPT !.pc = p], texts, m)
           /\ GoodWorker([v EXCEPT !.pc = p, !.result = r], texts, m)
           /\ GoodWorker([v EXCEPT !.pc = p, !.loaded = s], texts, m)
           /\ GoodWorker([v EXCEPT !.pc = p, !.result = r, !.loaded = s], texts, m)
<1>1. v \in Worker /\ r \in Result /\ s \in Session
  BY DEF GoodWorker, GoodResult, Good
<1> DEFINE a == [v EXCEPT !.pc = p]
           b == [v EXCEPT !.pc = p, !.result = r]
           c == [v EXCEPT !.pc = p, !.loaded = s]
           d == [v EXCEPT !.pc = p, !.result = r, !.loaded = s]
<1>2. a \in Worker /\ a.result = v.result /\ a.loaded = v.loaded
  BY <1>1 DEF Worker
<1>3. b \in Worker /\ b.result = r /\ b.loaded = v.loaded
  BY <1>1 DEF Worker
<1>4. c \in Worker /\ c.result = v.result /\ c.loaded = s
  BY <1>1 DEF Worker
<1>5. d \in Worker /\ d.result = r /\ d.loaded = s
  BY <1>1 DEF Worker
<1> HIDE DEF a, b, c, d
<1>6. /\ GoodWorker(a, texts, m) /\ GoodWorker(b, texts, m)
      /\ GoodWorker(c, texts, m) /\ GoodWorker(d, texts, m)
  BY <1>2, <1>3, <1>4, <1>5 DEF GoodWorker
<1> QED
  BY <1>6 DEF a, b, c, d

\* A worker that died by an exception is sound.
LEMMA DeadGood ==
    ASSUME NEW texts, NEW m, GoodTexts(texts, m), NEW v, GoodWorker(v, texts, m)
    PROVE  GoodWorker(Dead(v), texts, m)
  BY WorkerGood, FreshGood, NoSnapshotGood DEF Dead

\* One worker that goes on leaves the others as they are.
LEMMA GoesOnGood ==
    ASSUME NEW w \in DOMAIN workers, NEW v, GoesOn(w, v), NEW texts, NEW m,
           workers \in Seq(Worker), GoodWorker(v, texts, m),
           \A u \in DOMAIN workers : GoodWorker(workers[u], texts, m)
    PROVE  /\ workers' \in Seq(Worker)
           /\ \A u \in DOMAIN workers' : GoodWorker(workers'[u], texts, m)
<1>1. v \in Worker
  BY DEF GoodWorker
<1>2. workers' \in Seq(Worker) /\ DOMAIN workers' = DOMAIN workers
  BY <1>1 DEF GoesOn
<1>3. \A u \in DOMAIN workers : workers'[u] = IF u = w THEN v ELSE workers[u]
  BY DEF GoesOn
<1> QED
  BY <1>2, <1>3

\* The tokens of a context are counted with natural numbers.
LEMMA TokensNat ==
    ASSUME NEW s \in Session, NEW n \in Nat
    PROVE  Tokens(s, n) \in Nat
  BY DEF Tokens, Session

\* The rounds of a history are numbered by artifacts.
LEMMA OpeningNat ==
    ASSUME NEW h \in Seq(Artifact)
    PROVE  Opening(h) \subseteq Nat
<1>1. \A i \in DOMAIN h : h[i] \in Artifact
  OBVIOUS
<1> QED
  BY <1>1 DEF Opening, Artifact

\* The end of a level keeps the locals of the build.
LEMMA EndLevelGood ==
    ASSUME NEW success, EndLevel(success), GoodTexts(told, made), GoodTexts(told', made'),
           level \in 0..2, tokens \in Nat, work \in Nat, Good(live', told', made')
    PROVE  /\ pc' = "build" /\ level' \in 0..3 /\ tokens' \in Nat
           /\ GoodResult(snap', told', made')
<1>1. GoodResult(NoSnapshot, told', made')
  BY NoSnapshotGood
<1>2. live' \in Session /\ Tokens(live', work) \in Nat
  BY TokensNat DEF Good
<1> QED
  BY <1>1, <1>2 DEF EndLevel

(***************************************************************************)
(* The steps of a run                                                       *)
(***************************************************************************)
LEMMA InitInv == Init => IInv
<1> SUFFICES ASSUME Init PROVE IInv
  OBVIOUS
<1>1. GoodTexts(told, made)
  BY DEF Init, GoodTexts
<1>2. Good(FreshSession, told, made) /\ GoodResult(NoSnapshot, told, made)
  BY <1>1, FreshGood, NoSnapshotGood
<1>3. GoodRows(rows, told, made)
  BY DEF Init, GoodRows
<1>4. workers \in Seq(Worker) /\ DOMAIN workers = {}
  BY DEF Init
<1> QED
  BY <1>1, <1>2, <1>3, <1>4 DEF Init, IInv, NoTask

\* init_session: the run begins with a session that was stored in order.
LEMMA StartRunInv == IInv /\ StartRun => IInv'
<1> SUFFICES ASSUME IInv, StartRun PROVE IInv'
  OBVIOUS
<1>1. Good(Latest, told, made)
  BY LatestIsLatest DEF IInv
<1>2. object' \in [run : Nat, copy : 0..1]
  BY DEF IInv, StartRun
<1> QED
  BY <1>1, <1>2 DEF IInv, StartRun, storeVars, buildVars

\* A step of a task grows its work and touches no history.
LEMMA TakeStepInv == ASSUME NEW more \in 0..1 PROVE IInv /\ TakeStep(more) => IInv'
  BY DEF IInv, TakeStep, storeVars, sessionVars, buildVars

\* A checkpoint stores the live session, which is in order.
LEMMA CheckpointInv == IInv /\ Checkpoint => IInv'
<1> SUFFICES ASSUME IInv, Checkpoint PROVE IInv'
  OBVIOUS
<1>1. GoodRows(rows', told, made) /\ Good(Stored(live), told, made)
  BY SaveGood, StoredGood DEF IInv, Checkpoint, Save
<1>2. acked' \subseteq Nat
  BY OpeningNat DEF IInv, Checkpoint, Good, Session
<1> QED
  BY <1>1, <1>2 DEF IInv, Checkpoint, buildVars, taskVars

\* The end of a run keeps the sessions it leaves behind.
LEMMA EndRunGood ==
    ASSUME IInv, EndRun
    PROVE  pc' = "off" /\ Good(live', told, made) /\ Good(safe', told, made) /\ work' \in Nat
  BY FreshGood DEF IInv, EndRun

\* The end of a build throws its locals away.
LEMMA EndBuildGood ==
    ASSUME IInv, EndBuild
    PROVE  level' \in 0..3 /\ level' = 0 /\ tokens' \in Nat /\ GoodResult(snap', told, made)
  BY NoSnapshotGood DEF IInv, EndBuild

\* A checkpoint that raises ends the run and changes no session.
LEMMA CheckpointRaisesInv == IInv /\ CheckpointRaises => IInv'
<1> SUFFICES ASSUME IInv, CheckpointRaises PROVE IInv'
  OBVIOUS
<1>1. CASE pc = "paused"
  <2>1. EndRun
    BY <1>1 DEF CheckpointRaises
  <2> QED
    BY <2>1, EndRunGood DEF IInv, CheckpointRaises, storeVars, buildVars
<1>2. CASE pc # "paused"
  BY <1>2 DEF IInv, CheckpointRaises, storeVars, buildVars
<1> QED
  BY <1>1, <1>2

\* A run that raises leaves the store as it is.
LEMMA RunRaisesInv == IInv /\ RunRaises => IInv'
  BY EndRunGood, EndBuildGood DEF IInv, RunRaises, storeVars

\* The loop ends; its session goes on to finish().
LEMMA RunEndsInv == IInv /\ RunEnds => IInv'
  BY DEF IInv, RunEnds, storeVars, sessionVars, buildVars, taskVars

\* finish() stores the session of the run.
LEMMA FinishInv == IInv /\ Finish => IInv'
<1> SUFFICES ASSUME IInv, Finish PROVE IInv'
  OBVIOUS
<1>1. GoodRows(rows', told, made)
  BY SaveGood DEF IInv, Finish, Save
<1>2. acked' \subseteq Nat
  BY OpeningNat DEF IInv, Finish, Good, Session
<1>3. EndRun
  BY DEF Finish
<1> QED
  BY <1>1, <1>2, <1>3, EndRunGood DEF IInv, Finish, buildVars

\* What stands beside the run's session when artifacts are made.
LEMMA MadeMore ==
    ASSUME IInv, NEW n \in Nat, made <= n
    PROVE  /\ GoodTexts(told, n) /\ GoodRows(rows, told, n)
           /\ Good(live, told, n) /\ Good(safe, told, n) /\ GoodResult(snap, told, n)
           /\ \A w \in DOMAIN workers : GoodWorker(workers[w], told, n)
<1>1. made \in Nat
  BY DEF IInv, GoodTexts
<1> QED
  BY <1>1, TextsLater, RowsLater, SessionLater, ResultLater, WorkersLater DEF IInv

\* ... and when a text is written.
LEMMA ToldMore ==
    ASSUME IInv, NEW X \in SUBSET (0..made)
    PROVE  LET texts == Append(told, X)
           IN  /\ GoodTexts(texts, made) /\ GoodRows(rows, texts, made)
               /\ Good(live, texts, made) /\ Good(safe, texts, made)
               /\ GoodResult(snap, texts, made)
               /\ \A w \in DOMAIN workers : GoodWorker(workers[w], texts, made)
<1> DEFINE texts == Append(told, X)
<1>1. GoodTexts(told, made) /\ GoodTexts(texts, made)
  BY TextAppended DEF IInv
<1>2. \A s : Good(s, told, made) => Good(s, texts, made)
  BY <1>1, SessionAfterText
<1>3. \A r : GoodResult(r, told, made) => GoodResult(r, texts, made)
  BY <1>1, ResultAfterText
<1> HIDE DEF texts
<1>4. GoodRows(rows, texts, made)
  BY <1>2 DEF IInv, GoodRows
<1>5. \A w \in DOMAIN workers : GoodWorker(workers[w], texts, made)
  BY <1>2, <1>3 DEF IInv, GoodWorker
<1>6. Good(live, texts, made) /\ Good(safe, texts, made) /\ GoodResult(snap, texts, made)
  BY <1>2, <1>3 DEF IInv
<1> QED
  BY <1>1, <1>4, <1>5, <1>6 DEF texts

\* The artifacts of a finished task are newer than all the session tells.
LEMMA CloseTaskInv == ASSUME NEW next \in Agents PROVE IInv /\ CloseTask(next) => IInv'
<1> SUFFICES ASSUME IInv, CloseTask(next) PROVE IInv'
  OBVIOUS
<1> DEFINE x == [id |-> made + 1, start |-> TRUE]
           y == [id |-> made + 2, start |-> FALSE]
           s1 == [live EXCEPT !.hist = Append(live.hist, x)]
           s2 == [s1 EXCEPT !.hist = Append(s1.hist, y)]
<1>1. made \in Nat /\ GoodTexts(told, made) /\ Good(live, told, made)
  BY DEF IInv, GoodTexts
<1>2. x \in Artifact /\ x.id = made + 1 /\ y \in Artifact /\ y.id = (made + 1) + 1
  BY <1>1 DEF Artifact
<1> HIDE DEF x, y
<1>3. Good(s1, told, made + 1)
  BY <1>1, <1>2, AppendGood
<1>4. live.hist \in Seq(Artifact) /\ live \in Session
  BY <1>1 DEF Good, Session
<1>5. s1.hist = Append(live.hist, x) /\ s1.mid = live.mid /\ s1.gone = live.gone
  BY <1>4 DEF Session
<1> HIDE DEF s1
<1>6. s1 \in Session /\ s1.hist \in Seq(Artifact)
  BY <1>3 DEF Good, Session
<1>7. Good(s2, told, (made + 1) + 1)
  <2>1. GoodTexts(told, made + 1) /\ made + 1 \in Nat
    BY <1>1, TextsLater
  <2> QED
    BY <1>2, <1>3, <2>1, AppendGood
<1>8. s2.hist = Append(s1.hist, y) /\ s2.mid = s1.mid /\ s2.gone = s1.gone
  BY <1>6 DEF Session
<1> HIDE DEF s2
<1>9. CASE next = live.top
  <2>1. made' = made + 1 /\ live' = [live EXCEPT !.hist = @ \o <<x>>, !.top = next]
    BY <1>9 DEF CloseTask, x
  <2>2. live.hist \o <<x>> = Append(live.hist, x)
    BY <1>2, <1>4, AppendIsConcat
  <2>3. /\ live'.hist = Append(live.hist, x) /\ live'.mid = live.mid
        /\ live'.gone = live.gone /\ live' \in Session
    <3>1. Append(live.hist, x) \in Seq(Artifact)
      BY <1>2, <1>4
    <3> QED
      BY <1>4, <2>1, <2>2, <3>1 DEF Session
  <2>4. Good(live', told, made + 1)
    BY <1>3, <1>5, <2>3, SameStory
  <2> QED
    BY <1>1, <2>1, <2>4, MadeMore
       DEF IInv, CloseTask, storeVars, buildVars
<1>10. CASE next # live.top
  <2>1. made' = made + 2 /\ live' = [live EXCEPT !.hist = @ \o <<x, y>>, !.top = next]
    BY <1>10 DEF CloseTask, x, y
  <2>2. live.hist \o <<x, y>> = Append(s1.hist, y)
    <3>1. live.hist \o <<x, y>> = Append(Append(live.hist, x), y)
      BY <1>2, <1>4
    <3> QED
      BY <1>5, <3>1
  <2>3. /\ live'.hist = Append(s1.hist, y) /\ live'.mid = live.mid
        /\ live'.gone = live.gone /\ live' \in Session
    <3>1. Append(s1.hist, y) \in Seq(Artifact)
      BY <1>2, <1>6
    <3> QED
      BY <1>4, <2>1, <2>2, <3>1 DEF Session
  <2>4. Good(live', told, made + 2)
    <3>1. (made + 1) + 1 = made + 2
      BY <1>1
    <3> QED
      BY <1>5, <1>7, <1>8, <2>3, <3>1, SameStory
  <2>5. made + 2 \in Nat /\ made <= made + 2
    BY <1>1
  <2> QED
    BY <2>1, <2>4, <2>5, MadeMore
       DEF IInv, CloseTask, storeVars, buildVars
<1> QED
  BY <1>9, <1>10

\* The rollback returns to a session in order and appends a newer artifact.
LEMMA PauseTaskInv == IInv /\ PauseTaskAfterException => IInv'
<1> SUFFICES ASSUME IInv, PauseTaskAfterException PROVE IInv'
  OBVIOUS
<1>1. made \in Nat /\ GoodTexts(told, made) /\ Good(safe, told, made)
  BY DEF IInv, GoodTexts
<1> DEFINE x == [id |-> made + 1, start |-> TRUE]
<1>2. x \in Artifact /\ x.id = made + 1
  BY <1>1 DEF Artifact
<1>3. live' = [safe EXCEPT !.hist = Append(safe.hist, x)] /\ made' = made + 1
  BY DEF PauseTaskAfterException
<1> HIDE DEF x
<1>4. Good(live', told, made + 1)
  BY <1>1, <1>2, <1>3, AppendGood
<1>5. /\ GoodTexts(told, made + 1) /\ GoodRows(rows, told, made + 1)
      /\ Good(safe, told, made + 1)
      /\ \A w \in DOMAIN workers : GoodWorker(workers[w], told, made + 1)
  BY <1>1, MadeMore
<1>6. level' = 0 /\ tokens' = 0 /\ snap' = NoSnapshot /\ GoodResult(snap', told, made + 1)
  BY <1>5, NoSnapshotGood DEF PauseTaskAfterException, EndBuild
<1>7. object' \in [run : Nat, copy : 0..1]
  BY DEF IInv, PauseTaskAfterException
<1> QED
  BY <1>1, <1>3, <1>4, <1>5, <1>6, <1>7 DEF IInv, PauseTaskAfterException, storeVars

(***************************************************************************)
(* The context build                                                        *)
(***************************************************************************)
LEMMA BeginBuildInv == IInv /\ BeginBuild => IInv'
<1> SUFFICES ASSUME IInv, BeginBuild PROVE IInv'
  OBVIOUS
<1>1. Tokens(live, work) \in Nat
  BY TokensNat DEF IInv, Good
<1> QED
  BY <1>1 DEF IInv, BeginBuild, storeVars, sessionVars, taskVars

\* A context that fits goes to the model as it is.
LEMMA ContextFitsInv == IInv /\ ContextFits => IInv'
  BY DEF IInv, ContextFits, storeVars, sessionVars, taskVars

\* A context that no level made fit ends the build with an error.
LEMMA ContextTooLargeInv == IInv /\ ContextTooLarge => IInv'
  BY EndBuildGood DEF IInv, ContextTooLarge, storeVars, sessionVars, taskVars

\* The STARTED event of a level changes no session.
LEMMA BeginLevelInv == IInv /\ BeginLevel => IInv'
  BY DEF IInv, BeginLevel, storeVars, sessionVars, buildVars, taskVars

\* A synchronous summary starts from a snapshot of the live session.
LEMMA BeginSummaryInv == IInv /\ BeginSummary => IInv'
<1> SUFFICES ASSUME IInv, BeginSummary PROVE IInv'
  OBVIOUS
<1>1. GoodResult(Snapshot(live), told, made)
  BY SnapshotGood DEF IInv
<1> QED
  BY <1>1 DEF IInv, BeginSummary, storeVars, sessionVars, taskVars

\* A summary that raises ends the build or goes to the next level.
LEMMA SummaryFailsInv == IInv /\ SummaryFails => IInv'
<1> SUFFICES ASSUME IInv, SummaryFails PROVE IInv'
  OBVIOUS
<1>1. level = 0 /\ EndLevel(FALSE)
  BY DEF IInv, SummaryFails
<1>2. /\ told' = told /\ made' = made /\ live' = live /\ safe' = safe /\ rows' = rows
      /\ lease' = lease /\ object' = object /\ work' = work /\ workers' = workers
      /\ acked' = acked
  BY DEF SummaryFails, storeVars, sessionVars, taskVars
<1>3. pc' = "build" /\ level' \in 0..3 /\ tokens' \in Nat /\ GoodResult(snap', told', made')
  <2>1. GoodTexts(told', made') /\ Good(live', told', made')
    BY <1>2 DEF IInv
  <2>2. GoodTexts(told, made) /\ level \in 0..2 /\ tokens \in Nat /\ work \in Nat
    BY <1>1 DEF IInv
  <2> QED
    BY <1>1, <2>1, <2>2, EndLevelGood
<1> QED
  BY <1>2, <1>3 DEF IInv

\* What is written for a result is a good result, beside what is there already.
LEMMA WritesGood ==
    ASSUME IInv, NEW r, GoodResult(r, told, made), NEW text, Writes(r, text)
    PROVE  /\ GoodTexts(told', made) /\ GoodRows(rows, told', made)
           /\ Good(live, told', made) /\ Good(safe, told', made)
           /\ GoodResult(snap, told', made)
           /\ \A w \in DOMAIN workers : GoodWorker(workers[w], told', made)
           /\ GoodResult([r EXCEPT !.text = text], told', made)
<1>1. GoodTexts(told, made)
  BY DEF IInv
<1>2. CASE text = Len(told) + 1 /\ told' = Append(told, Tells(r.mid) \cup Absorbed(r.hist, r.cut))
  <2> DEFINE X == Tells(r.mid) \cup Absorbed(r.hist, r.cut)
  <2>1. X = TellsIn(told, r.mid) \cup Absorbed(r.hist, r.cut)
    BY DEF Tells, TellsIn
  <2> HIDE DEF X
  <2>2. /\ X \in SUBSET (0..made)
        /\ GoodResult([r EXCEPT !.text = Len(told) + 1], Append(told, X), made)
    BY <1>1, <2>1, WrittenText
  <2>3. told' = Append(told, X)
    BY <1>2 DEF X
  <2> QED
    BY <1>2, <2>2, <2>3, ToldMore
<1>3. CASE text = 0 /\ told' = told
  BY <1>1, <1>3, EmptyText DEF IInv
<1> QED
  BY <1>2, <1>3 DEF Writes

\* A synchronous summary merges its text into the run's session.
LEMMA EndSummaryInv == ASSUME NEW text PROVE IInv /\ EndSummary(text) => IInv'
<1> SUFFICES ASSUME IInv, EndSummary(text) PROVE IInv'
  OBVIOUS
<1> DEFINE result == [snap EXCEPT !.text = text]
<1>1. level = 0 /\ Writes(snap, text) /\ live' = MergeInto(live, result)
      /\ EndLevel(CanMerge(live, result))
  BY DEF IInv, EndSummary
<1>2. /\ made' = made /\ safe' = safe /\ rows' = rows /\ lease' = lease
      /\ object' = object /\ work' = work /\ workers' = workers /\ acked' = acked
  BY DEF EndSummary, storeVars, taskVars
<1>3. /\ GoodTexts(told', made) /\ GoodRows(rows, told', made)
      /\ Good(live, told', made) /\ Good(safe, told', made)
      /\ \A w \in DOMAIN workers : GoodWorker(workers[w], told', made)
      /\ GoodResult(result, told', made)
  BY <1>1, WritesGood DEF IInv
<1> HIDE DEF result
<1>4. Good(live', told', made')
  BY <1>1, <1>2, <1>3, MergeIntoGood
<1>5. pc' = "build" /\ level' \in 0..3 /\ tokens' \in Nat /\ GoodResult(snap', told', made')
  BY <1>1, <1>2, <1>3, <1>4, EndLevelGood DEF IInv
<1> QED
  BY <1>2, <1>3, <1>4, <1>5 DEF IInv

\* The level before it discards the summary, on purpose.
LEMMA DiscardInv == IInv /\ Discard => IInv'
<1> SUFFICES ASSUME IInv, Discard PROVE IInv'
  OBVIOUS
<1>1. level = 1 /\ EndLevel(live.mid # 0)
      /\ live' = [live EXCEPT !.gone = live.gone \cup TellsIn(told, live.mid), !.mid = 0]
  BY DEF Discard, Tells, TellsIn
<1>2. /\ told' = told /\ made' = made /\ safe' = safe /\ rows' = rows
      /\ lease' = lease /\ object' = object /\ work' = work /\ workers' = workers
      /\ acked' = acked
  BY DEF Discard, storeVars, taskVars
<1>3. Good(live', told', made')
  BY <1>1, <1>2, DiscardGood DEF IInv
<1>4. pc' = "build" /\ level' \in 0..3 /\ tokens' \in Nat /\ GoodResult(snap', told', made')
  BY <1>1, <1>2, <1>3, EndLevelGood DEF IInv
<1> QED
  BY <1>2, <1>3, <1>4 DEF IInv

\* The last level drops the history and the summary, on purpose.
LEMMA DropInv == IInv /\ Drop => IInv'
<1> SUFFICES ASSUME IInv, Drop PROVE IInv'
  OBVIOUS
<1>1. level = 2 /\ EndLevel(live.hist # <<>>)
  BY DEF Drop
<1>2. /\ told' = told /\ made' = made /\ safe' = safe /\ rows' = rows
      /\ lease' = lease /\ object' = object /\ work' = work /\ workers' = workers
      /\ acked' = acked
  BY DEF Drop, storeVars, taskVars
<1>3. \/ live' = live
      \/ live' = [live EXCEPT !.gone = live.gone \cup TellsIn(told, live.mid)
                                           \cup Ids(live.hist),
                              !.mid = 0, !.hist = <<>>]
  BY DEF Drop, Tells, TellsIn
<1>4. Good(live', told', made')
  <2>1. GoodTexts(told, made) /\ Good(live, told, made)
    BY DEF IInv
  <2> DEFINE d == [live EXCEPT !.gone = live.gone \cup TellsIn(told, live.mid)
                                            \cup Ids(live.hist),
                               !.mid = 0, !.hist = <<>>]
  <2>3. Good(d, told, made)
    BY <2>1, DropGood, Zenon
  <2>4. live' = live \/ live' = d
    BY <1>3
  <2> HIDE DEF d
  <2>2. Good(live', told, made)
    BY <2>1, <2>3, <2>4
  <2> QED
    BY <1>2, <2>2
<1>5. pc' = "build" /\ level' \in 0..3 /\ tokens' \in Nat /\ GoodResult(snap', told', made')
  BY <1>1, <1>2, <1>4, EndLevelGood DEF IInv
<1> QED
  BY <1>2, <1>4, <1>5 DEF IInv

(***************************************************************************)
(* Scheduling and the workers                                               *)
(***************************************************************************)
LEMMA AnsweredInv == IInv /\ Answered => IInv'
  BY EndBuildGood DEF IInv, Answered, storeVars, sessionVars, taskVars

\* A worker starts with the snapshot of a session in order.
LEMMA AnsweredAndScheduledInv == IInv /\ AnsweredAndScheduled => IInv'
<1> SUFFICES ASSUME IInv, AnsweredAndScheduled PROVE IInv'
  OBVIOUS
<1>1. GoodTexts(told, made) /\ Good(live, told, made) /\ workers \in Seq(Worker)
  BY DEF IInv
<1>2. GoodResult(Snapshot(live), told, made) /\ Good(FreshSession, told, made)
  BY <1>1, SnapshotGood, FreshGood
<1>3. live.top \in Agents /\ object \in [run : Nat, copy : 0..1]
  BY <1>1 DEF IInv, Good, Session
<1> DEFINE new == NewWorker
<1>4. GoodWorker(new, told, made)
  <2>1. /\ new \in Worker /\ new.result = Snapshot(live) /\ new.loaded = FreshSession
    BY <1>2, <1>3 DEF NewWorker, Worker, GoodResult, Good
  <2> HIDE DEF new
  <2> QED
    BY <1>2, <2>1 DEF GoodWorker
<1>5. new \in Worker /\ workers' = Append(workers, new)
  BY <1>4 DEF GoodWorker, AnsweredAndScheduled
<1> HIDE DEF new
<1>6. /\ workers' \in Seq(Worker) /\ DOMAIN workers' = 1..(Len(workers) + 1)
      /\ workers'[Len(workers) + 1] = new
      /\ \A w \in 1..Len(workers) : workers'[w] = workers[w]
  BY <1>1, <1>5
<1>7. \A w \in DOMAIN workers' : GoodWorker(workers'[w], told, made)
  <2>1. ASSUME NEW w \in 1..(Len(workers) + 1) PROVE GoodWorker(workers'[w], told, made)
    <3>1. CASE w = Len(workers) + 1
      BY <1>4, <1>6, <3>1
    <3>2. CASE w \in 1..Len(workers)
      BY <1>1, <1>6, <3>2 DEF IInv
    <3> QED
      BY <1>1, <3>1, <3>2
  <2> QED
    BY <1>6, <2>1
<1>8. lease' \in [Agents -> [owner : Nat, expired : BOOLEAN]]
  <2>1. Len(workers) + 1 \in Nat
    BY <1>1
  <2> QED
    BY <1>3, <2>1 DEF IInv, AnsweredAndScheduled
<1>9. EndBuild
  BY DEF AnsweredAndScheduled
<1> QED
  BY <1>6, <1>7, <1>8, <1>9, EndBuildGood
     DEF IInv, AnsweredAndScheduled, sessionVars, taskVars

\* A worker's text tells of its snapshot's past and nothing else.
LEMMA CompactInv ==
    ASSUME NEW w \in DOMAIN workers, NEW text
    PROVE  IInv /\ Compact(w, text) => IInv'
<1> SUFFICES ASSUME IInv, Compact(w, text) PROVE IInv'
  OBVIOUS
<1> DEFINE r == [workers[w].result EXCEPT !.text = text]
           v == [workers[w] EXCEPT !.pc = "merge", !.result = r]
<1>1. GoodResult(workers[w].result, told, made)
  BY DEF IInv, GoodWorker
<1>2. Writes(workers[w].result, text) /\ GoesOn(w, v)
  BY DEF Compact
<1>3. /\ GoodTexts(told', made) /\ GoodRows(rows, told', made)
      /\ Good(live, told', made) /\ Good(safe, told', made)
      /\ GoodResult(snap, told', made)
      /\ \A u \in DOMAIN workers : GoodWorker(workers[u], told', made)
      /\ GoodResult(r, told', made)
  BY <1>1, <1>2, WritesGood
<1> HIDE DEF r
<1>4. GoodWorker(v, told', made)
  BY <1>3, WorkerGood
<1> HIDE DEF v
<1>5. /\ workers' \in Seq(Worker)
      /\ \A u \in DOMAIN workers' : GoodWorker(workers'[u], told', made)
  BY <1>2, <1>3, <1>4, GoesOnGood DEF IInv
<1> QED
  BY <1>3, <1>5 DEF IInv, Compact, storeVars, sessionVars, buildVars, taskVars

\* A worker that goes on as itself with another pc, result or loaded session.
LEMMA WorkerNext ==
    ASSUME IInv, NEW w \in DOMAIN workers, NEW v, GoesOn(w, v),
           NEW r, GoodResult(r, told, made), NEW s, Good(s, told, made),
           NEW p \in {"compact", "merge", "load", "save", "finish", "done", "dead"},
           \/ v = [workers[w] EXCEPT !.pc = p]
           \/ v = [workers[w] EXCEPT !.pc = p, !.result = r]
           \/ v = [workers[w] EXCEPT !.pc = p, !.loaded = s]
           \/ v = [workers[w] EXCEPT !.pc = p, !.result = r, !.loaded = s]
    PROVE  /\ workers' \in Seq(Worker)
           /\ \A u \in DOMAIN workers' : GoodWorker(workers'[u], told, made)
<1>1. GoodWorker(workers[w], told, made)
  BY DEF IInv
<1>2. GoodWorker(v, told, made)
  <2>1. /\ GoodWorker([workers[w] EXCEPT !.pc = p], told, made)
        /\ GoodWorker([workers[w] EXCEPT !.pc = p, !.result = r], told, made)
        /\ GoodWorker([workers[w] EXCEPT !.pc = p, !.loaded = s], told, made)
        /\ GoodWorker([workers[w] EXCEPT !.pc = p, !.result = r, !.loaded = s], told, made)
    BY <1>1, WorkerGood, Zenon
  <2> QED
    BY <2>1, Zenon
<1> QED
  BY <1>2, GoesOnGood DEF IInv

\* What a worker may hold in its hands.
LEMMA InHand ==
    ASSUME IInv, NEW w \in DOMAIN workers
    PROVE  /\ GoodTexts(told, made) /\ GoodResult(NoSnapshot, told, made)
           /\ Good(FreshSession, told, made)
           /\ GoodResult(workers[w].result, told, made)
           /\ Good(workers[w].loaded, told, made)
  BY NoSnapshotGood, FreshGood DEF IInv, GoodWorker

\* A worker without a text leaves its snapshot behind.
LEMMA CompactFailsInv ==
    ASSUME NEW w \in DOMAIN workers PROVE IInv /\ CompactFails(w) => IInv'
<1> SUFFICES ASSUME IInv, CompactFails(w) PROVE IInv'
  OBVIOUS
<1>1. /\ workers' \in Seq(Worker)
      /\ \A u \in DOMAIN workers' : GoodWorker(workers'[u], told, made)
  <2>1. GoesOn(w, [workers[w] EXCEPT !.pc = "finish"])
    BY DEF CompactFails
  <2> QED
    BY <2>1, InHand, WorkerNext
<1> QED
  BY <1>1 DEF IInv, CompactFails, storeVars, sessionVars, buildVars, taskVars

\* The merge into the run's session keeps its order.
LEMMA MergeIntoRunGood ==
    ASSUME IInv, NEW w \in DOMAIN workers, MergeIntoRun(w)
    PROVE  Good(live', told, made)
  BY InHand, MergeIntoGood DEF IInv, MergeIntoRun

\* Both merges of the memory store, in one step, keep the order.
LEMMA MergeInMemoryInv ==
    ASSUME NEW w \in DOMAIN workers PROVE IInv /\ MergeInMemory(w) => IInv'
<1> SUFFICES ASSUME IInv, MergeInMemory(w) PROVE IInv'
  OBVIOUS
<1>1. /\ workers' \in Seq(Worker)
      /\ \A u \in DOMAIN workers' : GoodWorker(workers'[u], told, made)
  <2>1. GoesOn(w, [workers[w] EXCEPT !.pc = "finish"])
    BY DEF MergeInMemory
  <2> QED
    BY <2>1, InHand, WorkerNext
<1>2. Good(live', told, made)
  BY MergeIntoRunGood DEF MergeInMemory
<1>3. GoodRows(rows', told, made)
  BY InHand, RowsMergedGood DEF IInv, MergeInMemory
<1> QED
  BY <1>1, <1>2, <1>3 DEF IInv, MergeInMemory, buildVars, taskVars

\* With MySQL the run's session is merged first.
LEMMA MergeThenLoadInv ==
    ASSUME NEW w \in DOMAIN workers PROVE IInv /\ MergeThenLoad(w) => IInv'
<1> SUFFICES ASSUME IInv, MergeThenLoad(w) PROVE IInv'
  OBVIOUS
<1>1. /\ workers' \in Seq(Worker)
      /\ \A u \in DOMAIN workers' : GoodWorker(workers'[u], told, made)
  <2>1. GoesOn(w, [workers[w] EXCEPT !.pc = "load"])
    BY DEF MergeThenLoad
  <2> QED
    BY <2>1, InHand, WorkerNext
<1>2. Good(live', told, made)
  BY MergeIntoRunGood DEF MergeThenLoad
<1> QED
  BY <1>1, <1>2 DEF IInv, MergeThenLoad, storeVars, buildVars, taskVars

\* The stored session is loaded and merged, or left as it is.
LEMMA LoadLatestInv ==
    ASSUME NEW w \in DOMAIN workers PROVE IInv /\ LoadLatest(w) => IInv'
<1> SUFFICES ASSUME IInv, LoadLatest(w) PROVE IInv'
  OBVIOUS
<1> DEFINE merged == Merge(Latest, workers[w].result)
<1>1. CASE CanMerge(Latest, workers[w].result)
  <2>1. Good(merged, told, made)
    BY <1>1, InHand, LatestIsLatest, MergeGood DEF IInv
  <2>2. GoesOn(w, [workers[w] EXCEPT !.pc = "save", !.loaded = merged])
    BY <1>1 DEF LoadLatest
  <2> HIDE DEF merged
  <2>3. /\ workers' \in Seq(Worker)
        /\ \A u \in DOMAIN workers' : GoodWorker(workers'[u], told, made)
    BY <2>1, <2>2, InHand, WorkerNext
  <2> QED
    BY <2>3 DEF IInv, LoadLatest, storeVars, sessionVars, buildVars, taskVars
<1>2. CASE ~ CanMerge(Latest, workers[w].result)
  <2>1. GoesOn(w, [workers[w] EXCEPT !.pc = "finish"])
    BY <1>2 DEF LoadLatest
  <2>2. /\ workers' \in Seq(Worker)
        /\ \A u \in DOMAIN workers' : GoodWorker(workers'[u], told, made)
    BY <2>1, InHand, WorkerNext
  <2> QED
    BY <2>2 DEF IInv, LoadLatest, storeVars, sessionVars, buildVars, taskVars
<1> QED
  BY <1>1, <1>2

\* A merged session is stored over its version or after the latest.
LEMMA SaveMergedInv ==
    ASSUME NEW w \in DOMAIN workers PROVE IInv /\ SaveMerged(w) => IInv'
<1> SUFFICES ASSUME IInv, SaveMerged(w) PROVE IInv'
  OBVIOUS
<1>1. GoodRows(rows', told, made)
  BY InHand, SaveGood DEF IInv, SaveMerged, Save
<1>2. GoesOn(w, [workers[w] EXCEPT !.pc = "finish", !.loaded = FreshSession])
  BY DEF SaveMerged
<1>3. /\ workers' \in Seq(Worker)
      /\ \A u \in DOMAIN workers' : GoodWorker(workers'[u], told, made)
  BY <1>2, InHand, WorkerNext
<1> QED
  BY <1>1, <1>3 DEF IInv, SaveMerged, sessionVars, buildVars, taskVars

\* A save that the unique key refuses leaves the rows alone.
LEMMA SaveRaisesInv ==
    ASSUME NEW w \in DOMAIN workers PROVE IInv /\ SaveRaises(w) => IInv'
<1> SUFFICES ASSUME IInv, SaveRaises(w) PROVE IInv'
  OBVIOUS
<1>1. GoesOn(w, Dead(workers[w])) /\ GoodWorker(Dead(workers[w]), told, made)
  BY DeadGood DEF IInv, SaveRaises
<1>2. /\ workers' \in Seq(Worker)
      /\ \A u \in DOMAIN workers' : GoodWorker(workers'[u], told, made)
  BY <1>1, GoesOnGood DEF IInv
<1> QED
  BY <1>2 DEF IInv, SaveRaises, storeVars, sessionVars, buildVars, taskVars

\* Giving a compression task back touches no session.
LEMMA FinishTaskInv ==
    ASSUME NEW w \in DOMAIN workers PROVE IInv /\ FinishTask(w) => IInv'
<1> SUFFICES ASSUME IInv, FinishTask(w) PROVE IInv'
  OBVIOUS
<1>1. GoesOn(w, [workers[w] EXCEPT !.pc = "done", !.result = NoSnapshot])
  BY DEF FinishTask
<1>2. /\ workers' \in Seq(Worker)
      /\ \A u \in DOMAIN workers' : GoodWorker(workers'[u], told, made)
  BY <1>1, InHand, WorkerNext
<1>3. lease' \in [Agents -> [owner : Nat, expired : BOOLEAN]]
  BY DEF IInv, FinishTask, NoTask
<1> QED
  BY <1>2, <1>3 DEF IInv, FinishTask, sessionVars, buildVars, taskVars

\* The expiry of a lease touches no session.
LEMMA ExpireInv == ASSUME NEW a \in Agents PROVE IInv /\ Expire(a) => IInv'
<1> SUFFICES ASSUME IInv, Expire(a) PROVE IInv'
  OBVIOUS
<1>1. lease' \in [Agents -> [owner : Nat, expired : BOOLEAN]]
  BY DEF IInv, Expire
<1> QED
  BY <1>1 DEF IInv, Expire, sessionVars, buildVars, taskVars

\* A crash leaves the rows, and takes the run and its workers.
LEMMA CrashInv == IInv /\ Crash => IInv'
<1> SUFFICES ASSUME IInv, Crash PROVE IInv'
  OBVIOUS
<1>1. PICK dead \in SUBSET (1..object.run) :
          /\ workers' = [w \in DOMAIN workers |->
                 IF Active(w) /\ workers[w].object.run \in dead
                 THEN Dead(workers[w]) ELSE workers[w]]
          /\ IF object.run \in dead THEN EndRun /\ EndBuild
             ELSE UNCHANGED <<pc, live, safe, work, buildVars>>
  BY DEF Crash
<1>2. \A w \in DOMAIN workers :
          /\ GoodWorker(workers[w], told, made) /\ GoodWorker(Dead(workers[w]), told, made)
  BY DeadGood DEF IInv
<1>3. DOMAIN workers' = DOMAIN workers
  BY <1>1
<1>4. \A w \in DOMAIN workers' : GoodWorker(workers'[w], told, made)
  BY <1>1, <1>2, <1>3
<1>5. workers' \in Seq(Worker)
  <2>1. DOMAIN workers' = 1..Len(workers) /\ Len(workers) \in Nat
    BY <1>3 DEF IInv
  <2>2. workers' \in [1..Len(workers) -> Worker]
    BY <1>1, <1>4, <2>1 DEF GoodWorker
  <2> QED
    BY <2>1, <2>2
<1>6. told' = told /\ made' = made /\ rows' = rows /\ lease' = lease
      /\ object' = object /\ acked' = acked
  BY DEF Crash, storeVars
<1>7. CASE object.run \in dead
  BY <1>1, <1>4, <1>5, <1>6, <1>7, EndRunGood, EndBuildGood DEF IInv
<1>8. CASE object.run \notin dead
  BY <1>1, <1>4, <1>5, <1>6, <1>8 DEF IInv, buildVars
<1> QED
  BY <1>7, <1>8

(***************************************************************************)
(* The theorems                                                             *)
(***************************************************************************)
LEMMA RunStepInv == IInv /\ RunStep => IInv'
<1> SUFFICES ASSUME IInv, RunStep PROVE IInv'
  OBVIOUS
<1>1. CASE \E next \in Agents : CloseTask(next)
  BY <1>1, CloseTaskInv
<1>2. CASE \E more \in 0..1 : TakeStep(more)
  BY <1>2, TakeStepInv
<1>3. CASE \E text \in 0..Len(told) + 1 : EndSummary(text)
  BY <1>3, EndSummaryInv
<1>4. CASE \/ Checkpoint \/ CheckpointRaises \/ PauseTaskAfterException
           \/ RunRaises \/ RunEnds \/ Finish
  BY <1>4, CheckpointInv, CheckpointRaisesInv, PauseTaskInv, RunRaisesInv,
     RunEndsInv, FinishInv
<1>5. CASE \/ BeginBuild \/ ContextFits \/ ContextTooLarge \/ BeginLevel
           \/ BeginSummary \/ SummaryFails \/ Discard \/ Drop
  BY <1>5, BeginBuildInv, ContextFitsInv, ContextTooLargeInv, BeginLevelInv,
     BeginSummaryInv, SummaryFailsInv, DiscardInv, DropInv
<1>6. CASE Answered \/ AnsweredAndScheduled
  BY <1>6, AnsweredInv, AnsweredAndScheduledInv
<1> QED
  BY <1>1, <1>2, <1>3, <1>4, <1>5, <1>6 DEF RunStep, BuildStep

\* Every step of a worker.
LEMMA WorkerStepInv ==
    ASSUME NEW w \in DOMAIN workers PROVE IInv /\ WorkerStep(w) => IInv'
  BY CompactInv, CompactFailsInv, MergeInMemoryInv, MergeThenLoadInv, LoadLatestInv,
     SaveMergedInv, SaveRaisesInv, FinishTaskInv DEF WorkerStep

\* Every step of the system.
LEMMA NextInv == IInv /\ [Next]_vars => IInv'
<1> SUFFICES ASSUME IInv, [Next]_vars PROVE IInv'
  OBVIOUS
<1>1. CASE StartRun
  BY <1>1, StartRunInv
<1>2. CASE RunStep
  BY <1>2, RunStepInv
<1>3. CASE \E w \in DOMAIN workers : WorkerStep(w)
  BY <1>3, WorkerStepInv
<1>4. CASE \E a \in Agents : Expire(a)
  BY <1>4, ExpireInv
<1>5. CASE Crash
  BY <1>5, CrashInv
<1>6. CASE UNCHANGED vars
  BY <1>6 DEF IInv, vars
<1> QED
  BY <1>1, <1>2, <1>3, <1>4, <1>5, <1>6 DEF Next

\* The invariant holds in every behaviour.
LEMMA Invariance == Spec => []IInv
  BY InitInv, NextInv, PTL DEF Spec

\* No step of a run, a worker or a crash builds a malformed session, and the
\* store never holds two rows of one version.
THEOREM CompressionTypeCorrect == Spec => []TypeOK
<1>1. IInv => TypeOK
  BY DEF IInv, TypeOK, GoodRows, Good, GoodResult, GoodTexts
<1> QED
  BY <1>1, Invariance, PTL

\* Merges of old snapshots, by any number of workers of any agents into the
\* run's session and into the stored one, rollbacks, the levels of the hard
\* limit, lost saves and crashes never repeat or disorder what a session tells.
THEOREM StoryToldOnce == Spec => []ToldOnce
<1>1. ASSUME NEW s, Good(s, told, made) PROVE InOrder(s)
  <2>1. Tells(s.mid) = TellsIn(told, s.mid)
    BY DEF Tells, TellsIn
  <2> QED
    BY <1>1, <2>1 DEF Good, InOrder, Ordered, Before
<1>2. IInv => ToldOnce
  BY <1>1 DEF IInv, GoodRows, ToldOnce, Sessions
<1> QED
  BY <1>2, Invariance, PTL

(***************************************************************************)
(* Nothing is lost in the memory store, whose models answer with a text.    *)
(***************************************************************************)
\* What a session still knows of.
Knows(s, texts) == Ids(s.hist) \cup TellsIn(texts, s.mid) \cup s.gone

\* A session knows of the rounds A; those in its history still open their rounds, so
\* a summary of that history is shown them.
Keeps(s, A, texts) ==
    /\ A \subseteq Knows(s, texts)
    /\ \A i \in DOMAIN s.hist : s.hist[i].id \in A => s.hist[i].start

\* The text of a result tells of all that a merge of it takes away.
Whole(r, texts) ==
    TellsIn(texts, r.mid) \cup Absorbed(r.hist, r.cut) \subseteq TellsIn(texts, r.text)

\* The inductive invariant, next to IInv: what a checkpoint has stored is known to
\* the store, to the run and to the session the run goes back to.
KeptInv ==
    /\ acked \subseteq 0..made
    /\ rows = {} => acked = {}
    /\ \A r \in rows : Keeps(r, acked, told)
    /\ pc # "off" => Keeps(live, acked, told) /\ Keeps(safe, acked, told)
    /\ \A w \in DOMAIN workers :
          /\ workers[w].pc \notin {"load", "save"}
          /\ workers[w].pc = "merge" => Whole(workers[w].result, told)

\* Only history, summary and ghost matter to what a session knows of.
LEMMA SameKept ==
    ASSUME NEW texts, NEW A, NEW s, NEW z, Keeps(s, A, texts),
           z.hist = s.hist, z.mid = s.mid, z.gone = s.gone
    PROVE  Keeps(z, A, texts)
  BY DEF Keeps, Knows

\* A text that is written takes nothing from a session or a result.
LEMMA KeptAfterText ==
    ASSUME NEW texts, NEW m, GoodTexts(texts, m), NEW X \in SUBSET (0..m), NEW A
    PROVE  /\ \A s : Good(s, texts, m) /\ Keeps(s, A, texts)
                     => Keeps(s, A, Append(texts, X))
           /\ \A r : GoodResult(r, texts, m) /\ Whole(r, texts)
                     => Whole(r, Append(texts, X))
<1>1. ASSUME NEW s, Good(s, texts, m), Keeps(s, A, texts)
      PROVE  Keeps(s, A, Append(texts, X))
  <2>1. TellsIn(Append(texts, X), s.mid) = TellsIn(texts, s.mid)
    BY <1>1, TextAppended DEF Good
  <2> QED
    BY <1>1, <2>1 DEF Keeps, Knows
<1>2. ASSUME NEW r, GoodResult(r, texts, m), Whole(r, texts)
      PROVE  Whole(r, Append(texts, X))
  <2>1. /\ TellsIn(Append(texts, X), r.mid) = TellsIn(texts, r.mid)
        /\ TellsIn(Append(texts, X), r.text) = TellsIn(texts, r.text)
    BY <1>2, TextAppended DEF GoodResult
  <2> QED
    BY <1>2, <2>1 DEF Whole
<1> QED
  BY <1>1, <1>2

\* A merge takes nothing away that the text does not tell of: what it cuts off the
\* history the model was shown, since it opens a round.
LEMMA MergeKeeps ==
    ASSUME NEW texts, NEW m, NEW A, NEW s, Good(s, texts, m), Keeps(s, A, texts),
           NEW r, GoodResult(r, texts, m), Whole(r, texts)
    PROVE  Keeps(MergeInto(s, r), A, texts)
<1>1. CASE ~ CanMerge(s, r)
  BY <1>1 DEF MergeInto
<1>2. CASE CanMerge(s, r)
  <2>1. PICK z, k : z = Merge(s, r) /\ k = Len(s.hist)
    OBVIOUS
  <2>2. /\ z.mid = r.text /\ z.gone = s.gone /\ r.mid = s.mid
        /\ k \in Nat /\ r.cut \in 0..k
        /\ DOMAIN s.hist = 1..k /\ DOMAIN z.hist = 1..(k - r.cut)
        /\ \A i \in 1..r.cut : i \in DOMAIN s.hist /\ r.hist[i] = s.hist[i]
    BY <1>2, <2>1, MergedHistory
  <2>3. \A i \in DOMAIN z.hist : r.cut + i \in DOMAIN s.hist /\ z.hist[i] = s.hist[r.cut + i]
    BY <1>2, <2>1, MergedHistory
  <2>4. ASSUME NEW j \in DOMAIN s.hist, s.hist[j].id \in A PROVE s.hist[j].id \in Knows(z, texts)
    <3>1. CASE j <= r.cut
      <4>1. j \in 1..r.cut /\ r.hist[j] = s.hist[j] /\ r.hist[j].start
        BY <2>2, <2>4, <3>1 DEF Keeps
      <4>2. j \in 1..j
        BY <2>2
      <4>3. s.hist[j].id \in Absorbed(r.hist, r.cut)
        BY <4>1, <4>2 DEF Absorbed
      <4> QED
        BY <2>2, <4>3 DEF Whole, Knows
    <3>2. CASE ~ j <= r.cut
      <4>1. j - r.cut \in DOMAIN z.hist /\ r.cut + (j - r.cut) = j
        BY <2>2, <3>2
      <4>2. z.hist[j - r.cut] = s.hist[j]
        BY <2>3, <4>1
      <4> QED
        BY <4>1, <4>2 DEF Knows, Ids
    <3> QED
      BY <3>1, <3>2
  <2>5. A \subseteq Knows(z, texts)
    <3>1. ASSUME NEW n \in A PROVE n \in Knows(z, texts)
      <4>1. n \in Ids(s.hist) \/ n \in TellsIn(texts, s.mid) \/ n \in s.gone
        BY DEF Keeps, Knows
      <4>2. CASE n \in Ids(s.hist)
        BY <2>4, <4>2 DEF Ids
      <4>3. CASE n \in TellsIn(texts, s.mid) \/ n \in s.gone
        BY <2>2, <4>3 DEF Whole, Knows
      <4> QED
        BY <4>1, <4>2, <4>3
    <3> QED
      BY <3>1
  <2>6. \A i \in DOMAIN z.hist : z.hist[i].id \in A => z.hist[i].start
    BY <2>3 DEF Keeps
  <2> QED
    BY <1>2, <2>1, <2>5, <2>6 DEF Keeps, MergeInto
<1> QED
  BY <1>1, <1>2

\* A new artifact is none of the stored rounds.
LEMMA AppendKeeps ==
    ASSUME NEW texts, NEW m \in Nat, NEW A, A \subseteq 0..m,
           NEW s, Good(s, texts, m), Keeps(s, A, texts),
           NEW x \in Artifact, x.id > m, NEW z,
           z.hist = Append(s.hist, x), z.mid = s.mid, z.gone = s.gone
    PROVE  Keeps(z, A, texts)
<1>1. PICK h, k : h = s.hist /\ k = Len(h)
  OBVIOUS
<1>2. h \in Seq(Artifact) /\ k \in Nat
  BY <1>1 DEF Good, Session
<1>3. /\ DOMAIN h = 1..k /\ DOMAIN z.hist = 1..(k + 1)
      /\ z.hist[k + 1] = x /\ \A i \in 1..k : z.hist[i] = h[i]
  BY <1>1, <1>2
<1>4. \A i \in DOMAIN h : i \in DOMAIN z.hist /\ z.hist[i] = h[i]
  BY <1>2, <1>3
<1>5. Knows(s, texts) \subseteq Knows(z, texts)
  BY <1>1, <1>4 DEF Knows, Ids
<1>6. x.id \notin A
  BY DEF Artifact
<1>7. ASSUME NEW i \in DOMAIN z.hist, z.hist[i].id \in A PROVE z.hist[i].start
  <2>1. i \in DOMAIN h
    BY <1>2, <1>3, <1>6, <1>7
  <2> QED
    BY <1>1, <1>4, <1>7, <2>1 DEF Keeps
<1> QED
  BY <1>5, <1>7 DEF Keeps

\* A session that is stored knows of the rounds in its history.
LEMMA StoredKeeps ==
    ASSUME NEW texts, NEW m, GoodTexts(texts, m), NEW A, A \subseteq 0..m,
           NEW s, Good(s, texts, m), Keeps(s, A, texts)
    PROVE  /\ A \cup Opening(s.hist) \subseteq 0..m
           /\ Keeps(s, A \cup Opening(s.hist), texts)
<1>1. s.hist \in Seq(Artifact) /\ m \in Nat
  BY DEF Good, Session, GoodTexts
<1>2. ASSUME NEW i \in DOMAIN s.hist PROVE s.hist[i].id \in 0..m
  <2>1. s.hist[i] \in Artifact
    BY <1>1
  <2> QED
    BY <1>1, <2>1 DEF Artifact, Good, Made
<1>3. Opening(s.hist) \subseteq 0..m
  BY <1>2 DEF Opening
<1>4. Opening(s.hist) \subseteq Ids(s.hist)
  BY DEF Opening, Ids
<1>5. ASSUME NEW i \in DOMAIN s.hist, s.hist[i].id \in Opening(s.hist) PROVE s.hist[i].start
  <2>1. PICK j \in DOMAIN s.hist : s.hist[j].start /\ s.hist[j].id = s.hist[i].id
    BY <1>5 DEF Opening
  <2>2. i \in Int /\ j \in Int /\ s.hist[i].id \in Int
    BY <1>1, <1>2
  <2>3. i = j
    <3>1. ~ i < j /\ ~ j < i
      BY <2>1, <2>2 DEF Good, Ordered
    <3> QED
      BY <2>2, <3>1
  <2> QED
    BY <2>1, <2>3
<1> QED
  BY <1>3, <1>4, <1>5 DEF Keeps, Knows

\* A session without rounds keeps none.
LEMMA FreshKeeps == Keeps(FreshSession, {}, told)
  BY DEF Keeps

(***************************************************************************)
(* The steps of the memory store                                            *)
(***************************************************************************)
\* What a worker may hold: none waits for a store that answers later.
KeptWorker(worker, texts) ==
    /\ worker.pc \notin {"load", "save"}
    /\ worker.pc = "merge" => Whole(worker.result, texts)

\* A step that neither stores a session nor writes a text.
LEMMA KeptNext ==
    ASSUME IInv, KeptInv, IInv', made <= made', acked' = acked, rows' = rows, told' = told,
           pc' # "off" => Keeps(live', acked, told) /\ Keeps(safe', acked, told),
           \A w \in DOMAIN workers' : KeptWorker(workers'[w], told)
    PROVE  KeptInv'
<1>1. made \in Nat /\ made' \in Nat
  BY DEF IInv, GoodTexts
<1>2. acked' \subseteq 0..made'
  BY <1>1 DEF KeptInv
<1> QED
  BY <1>2 DEF KeptInv, KeptWorker

\* The same, when the run's sessions and the workers stay as they are.
LEMMA KeptQuiet ==
    ASSUME IInv, KeptInv, IInv', made <= made', acked' = acked, rows' = rows, told' = told,
           pc' = "off" \/ (pc # "off" /\ live' = live /\ safe' = safe), workers' = workers
    PROVE  KeptInv'
<1>1. pc' # "off" => Keeps(live', acked, told) /\ Keeps(safe', acked, told)
  BY DEF KeptInv
<1>2. \A w \in DOMAIN workers' : KeptWorker(workers'[w], told)
  BY DEF KeptInv, KeptWorker
<1> QED
  BY <1>1, <1>2, KeptNext

\* The run and its build go on, fail or end, and leave the sessions alone.
LEMMA QuietKept ==
    ASSUME IInv, KeptInv, IInv',
           \/ \E more \in 0..1 : TakeStep(more)
           \/ CheckpointRaises \/ RunRaises \/ RunEnds
           \/ BeginBuild \/ ContextFits \/ ContextTooLarge \/ BeginLevel
           \/ BeginSummary \/ SummaryFails \/ Answered
           \/ \E a \in Agents : Expire(a)
           \/ UNCHANGED vars
    PROVE  KeptInv'
<1>1. made <= made'
  <2>1. made' = made
    BY DEF TakeStep, CheckpointRaises, RunRaises, RunEnds, BeginBuild, ContextFits,
           ContextTooLarge, BeginLevel, BeginSummary, SummaryFails, Answered, Expire,
           taskVars, vars
  <2>2. made \in Nat
    BY DEF IInv, GoodTexts
  <2> QED
    BY <2>1, <2>2
<1>2. /\ acked' = acked /\ rows' = rows /\ told' = told /\ workers' = workers
      /\ pc' = "off" \/ (pc # "off" /\ live' = live /\ safe' = safe)
  BY DEF TakeStep, CheckpointRaises, RunRaises, RunEnds, BeginBuild, ContextFits,
         ContextTooLarge, BeginLevel, BeginSummary, SummaryFails, Answered, Expire,
         EndRun, EndLevel, storeVars, sessionVars, vars
<1> QED
  BY <1>1, <1>2, KeptQuiet

\* A run begins with what the store has.
LEMMA StartRunKept ==
    ASSUME ~ Mysql, IInv, KeptInv, IInv', StartRun PROVE KeptInv'
<1>1. Keeps(Latest, acked, told)
  <2>1. CASE rows = {}
    BY <2>1, FreshKeeps DEF KeptInv, Latest
  <2>2. CASE rows # {}
    BY <2>2, LatestIsLatest DEF IInv, KeptInv
  <2> QED
    BY <2>1, <2>2
<1>2. /\ acked' = acked /\ rows' = rows /\ told' = told /\ workers' = workers /\ made' = made
      /\ live' = Latest /\ safe' = Latest
  BY DEF StartRun, storeVars
<1>3. made <= made'
  BY <1>2 DEF IInv, GoodTexts
<1>4. \A w \in DOMAIN workers' : KeptWorker(workers'[w], told)
  BY <1>2 DEF KeptInv, KeptWorker
<1> QED
  BY <1>1, <1>2, <1>3, <1>4, KeptNext

\* The artifacts of a task are none of the stored rounds.
LEMMA CloseTaskKept ==
    ASSUME IInv, KeptInv, IInv', NEW next \in Agents, CloseTask(next) PROVE KeptInv'
<1> DEFINE x == [id |-> made + 1, start |-> TRUE]
           y == [id |-> made + 2, start |-> FALSE]
           s == [live EXCEPT !.hist = Append(live.hist, x)]
<1>1. made \in Nat /\ GoodTexts(told, made) /\ Good(live, told, made) /\ pc # "off"
  BY DEF IInv, GoodTexts, CloseTask
<1>2. x \in Artifact /\ x.id = made + 1 /\ y \in Artifact /\ y.id = made + 2
  BY <1>1 DEF Artifact
<1>3. live.hist \in Seq(Artifact) /\ live \in Session /\ acked \subseteq 0..made
      /\ Keeps(live, acked, told) /\ Keeps(safe, acked, told)
  BY <1>1 DEF Good, Session, KeptInv
<1>4. s.hist = Append(live.hist, x) /\ s.mid = live.mid /\ s.gone = live.gone
  BY <1>3 DEF Session
<1> HIDE DEF x, y, s
<1>5. Keeps(s, acked, told)
  <2>1. x.id > made
    BY <1>1, <1>2
  <2> QED
    BY <1>1, <1>2, <1>3, <1>4, <2>1, AppendKeeps
<1>6. /\ acked' = acked /\ rows' = rows /\ told' = told /\ workers' = workers /\ safe' = safe
  BY DEF CloseTask, storeVars
<1>7. Keeps(live', acked, told) /\ made <= made'
  <2>1. CASE next = live.top
    <3>1. made' = made + 1 /\ live' = [live EXCEPT !.hist = @ \o <<x>>, !.top = next]
      BY <2>1 DEF CloseTask, x
    <3>2. live.hist \o <<x>> = Append(live.hist, x)
      BY <1>2, <1>3, AppendIsConcat
    <3>3. live'.hist = s.hist /\ live'.mid = s.mid /\ live'.gone = s.gone
      BY <1>3, <1>4, <3>1, <3>2 DEF Session
    <3>4. Keeps(live', acked, told)
      BY <1>5, <3>3, SameKept
    <3> QED
      BY <1>1, <3>1, <3>4
  <2>2. CASE next # live.top
    <3>1. made' = made + 2 /\ live' = [live EXCEPT !.hist = @ \o <<x, y>>, !.top = next]
      BY <2>2 DEF CloseTask, x, y
    <3>2. live.hist \o <<x, y>> = Append(s.hist, y)
      BY <1>2, <1>3, <1>4
    <3>3. live'.hist = Append(s.hist, y) /\ live'.mid = s.mid /\ live'.gone = s.gone
      BY <1>3, <1>4, <3>1, <3>2 DEF Session
    <3>4. Good(s, told, made + 1) /\ made + 1 \in Nat /\ acked \subseteq 0..(made + 1)
      <4>1. Good(s, told, made + 1)
        BY <1>1, <1>2, AppendGood DEF s
      <4> QED
        BY <1>1, <1>3, <4>1
    <3>5. Keeps(live', acked, told)
      <4>1. y.id > made + 1
        BY <1>1, <1>2
      <4> QED
        BY <1>2, <1>5, <3>3, <3>4, <4>1, AppendKeeps
    <3> QED
      BY <1>1, <3>1, <3>5
  <2> QED
    BY <2>1, <2>2
<1>8. \A w \in DOMAIN workers' : KeptWorker(workers'[w], told)
  BY <1>6 DEF KeptInv, KeptWorker
<1> QED
  BY <1>3, <1>6, <1>7, <1>8, KeptNext

\* The run goes back to a session that knows of the stored rounds, too.
LEMMA PauseTaskKept ==
    ASSUME IInv, KeptInv, IInv', PauseTaskAfterException PROVE KeptInv'
<1> DEFINE x == [id |-> made + 1, start |-> TRUE]
<1>1. made \in Nat /\ Good(safe, told, made) /\ pc # "off"
  BY DEF IInv, GoodTexts, PauseTaskAfterException
<1>2. x \in Artifact /\ x.id > made
  BY <1>1 DEF Artifact
<1>3. safe \in Session /\ acked \subseteq 0..made /\ Keeps(safe, acked, told)
  BY <1>1 DEF Good, KeptInv
<1>4. /\ live' = [safe EXCEPT !.hist = Append(safe.hist, x)] /\ made' = made + 1
      /\ acked' = acked /\ rows' = rows /\ told' = told /\ workers' = workers /\ safe' = safe
  BY DEF PauseTaskAfterException, storeVars
<1> HIDE DEF x
<1>5. live'.hist = Append(safe.hist, x) /\ live'.mid = safe.mid /\ live'.gone = safe.gone
  BY <1>3, <1>4 DEF Session
<1>6. Keeps(live', acked, told)
  BY <1>1, <1>2, <1>3, <1>5, AppendKeeps
<1>7. \A w \in DOMAIN workers' : KeptWorker(workers'[w], told)
  BY <1>4 DEF KeptInv, KeptWorker
<1> QED
  BY <1>1, <1>3, <1>4, <1>6, <1>7, KeptNext

\* The memory store has one row, the session that was saved last.
LEMMA SavedKeeps ==
    ASSUME ~ Mysql, IInv, KeptInv, pc # "off", Save(live)
    PROVE  LET more == acked \cup Opening(live.hist)
           IN  /\ more \subseteq 0..made /\ rows' # {}
               /\ Keeps(Stored(live), more, told)
               /\ \A r \in rows' : Keeps(r, more, told)
<1> DEFINE more == acked \cup Opening(live.hist)
<1>1. /\ GoodTexts(told, made) /\ GoodRows(rows, told, made) /\ Good(live, told, made)
      /\ acked \subseteq 0..made /\ Keeps(live, acked, told)
  BY DEF IInv, KeptInv
<1>2. more \subseteq 0..made /\ Keeps(live, more, told)
  BY <1>1, StoredKeeps
<1>3. /\ Stored(live).hist = live.hist /\ Stored(live).mid = live.mid
      /\ Stored(live).gone = live.gone
  BY <1>1 DEF Good, Session, Stored
<1> HIDE DEF more
<1>4. Keeps(Stored(live), more, told)
  BY <1>2, <1>3, SameKept
<1>5. rows' = {Stored(live)}
  BY DEF Save, RowsAfter
<1>6. more = acked \cup Opening(live.hist)
  BY DEF more
<1> QED
  BY <1>2, <1>4, <1>5, <1>6

\* A checkpoint, and the one that ends the run.
LEMMA CheckpointKept ==
    ASSUME ~ Mysql, IInv, KeptInv, Checkpoint \/ Finish PROVE KeptInv'
<1>1. pc # "off" /\ CanSave(live)
  BY DEF Checkpoint, Finish, CanSave
<1>2. /\ Save(live) /\ acked' = acked \cup Opening(live.hist)
      /\ made' = made /\ told' = told /\ workers' = workers
      /\ pc' = "off" \/ (live' = Stored(live) /\ safe' = Stored(live))
  BY <1>1 DEF Checkpoint, Finish, EndRun, taskVars
<1>3. /\ acked' \subseteq 0..made' /\ rows' # {} /\ \A r \in rows' : Keeps(r, acked', told')
      /\ pc' # "off" => Keeps(live', acked', told') /\ Keeps(safe', acked', told')
  BY <1>1, <1>2, SavedKeeps
<1>4. \A w \in DOMAIN workers' : KeptWorker(workers'[w], told')
  BY <1>2 DEF KeptInv, KeptWorker
<1> QED
  BY <1>3, <1>4 DEF KeptInv, KeptWorker

\* A text that is not empty tells of all that its result takes away, and takes nothing
\* from what was there.
LEMMA WritesKept ==
    ASSUME ~ EmptyAnswers, IInv, KeptInv, NEW r, GoodResult(r, told, made),
           NEW text, Writes(r, text)
    PROVE  /\ Whole([r EXCEPT !.text = text], told')
           /\ \A s : Good(s, told, made) /\ Keeps(s, acked, told) => Keeps(s, acked, told')
           /\ \A w \in DOMAIN workers : KeptWorker(workers[w], told')
<1> DEFINE X == Tells(r.mid) \cup Absorbed(r.hist, r.cut)
           q == [r EXCEPT !.text = text]
<1>1. text = Len(told) + 1 /\ told' = Append(told, X) /\ GoodTexts(told, made)
  BY DEF Writes, IInv
<1>2. X = TellsIn(told, r.mid) \cup Absorbed(r.hist, r.cut)
  BY DEF Tells, TellsIn
<1> HIDE DEF X
<1>3. X \in SUBSET (0..made)
  <2> HIDE DEF q
  <2>1. r.hist \in Seq(Artifact) /\ r.cut \in 0..Len(r.hist) /\ Made(r.hist, made)
    BY DEF GoodResult, Result
  <2>2. Absorbed(r.hist, r.cut) \subseteq 0..made /\ made \in Nat
    BY <1>1, <2>1, AbsorbedIds DEF GoodTexts
  <2>3. r.mid \in 0..Len(told) /\ told \in Seq(SUBSET Nat)
        /\ \A t \in DOMAIN told : told[t] \subseteq 0..made
    BY <1>1 DEF GoodResult, GoodTexts
  <2>4. TellsIn(told, r.mid) \subseteq 0..made
    BY <2>3 DEF TellsIn
  <2> QED
    BY <1>2, <2>2, <2>4
<1>4. Whole(q, told')
  <2>1. q.hist = r.hist /\ q.mid = r.mid /\ q.cut = r.cut /\ q.text = text
    BY DEF GoodResult, Result
  <2>2. /\ TellsIn(told', r.mid) = TellsIn(told, r.mid)
        /\ TellsIn(told', Len(told) + 1) = X
    BY <1>1, <1>3, TextAppended DEF GoodResult
  <2> HIDE DEF q
  <2> QED
    BY <1>1, <1>2, <2>1, <2>2 DEF Whole
<1>5. /\ \A s : Good(s, told, made) /\ Keeps(s, acked, told) => Keeps(s, acked, told')
      /\ \A z : GoodResult(z, told, made) /\ Whole(z, told) => Whole(z, told')
  BY <1>1, <1>3, KeptAfterText
<1>6. \A w \in DOMAIN workers : KeptWorker(workers[w], told')
  BY <1>5 DEF IInv, GoodWorker, KeptInv, KeptWorker
<1> QED
  BY <1>4, <1>5, <1>6 DEF q

\* What is left of a step once it is clear what became of the texts.
LEMMA KeptTold ==
    ASSUME IInv, KeptInv, IInv', made <= made', acked' = acked,
           \A r \in rows' : Keeps(r, acked, told'), rows' = {} => rows = {},
           pc' # "off" => Keeps(live', acked, told') /\ Keeps(safe', acked, told'),
           \A w \in DOMAIN workers' : KeptWorker(workers'[w], told')
    PROVE  KeptInv'
<1>1. made \in Nat /\ made' \in Nat
  BY DEF IInv, GoodTexts
<1>2. acked' \subseteq 0..made'
  BY <1>1 DEF KeptInv
<1> QED
  BY <1>2 DEF KeptInv, KeptWorker

\* The summary of a build goes into the session it was written from.
LEMMA EndSummaryKept ==
    ASSUME ~ EmptyAnswers, IInv, KeptInv, IInv', NEW text, EndSummary(text)
    PROVE  KeptInv'
<1>1. PICK q : q = [snap EXCEPT !.text = text]
  OBVIOUS
<1>2. /\ pc # "off" /\ Writes(snap, text) /\ live' = MergeInto(live, q)
      /\ made' = made /\ safe' = safe /\ rows' = rows /\ workers' = workers /\ acked' = acked
  BY <1>1 DEF EndSummary, storeVars, taskVars
<1>3. GoodResult(snap, told, made) /\ made <= made'
  BY <1>2 DEF IInv, GoodTexts
<1>4. /\ Good(live, told', made) /\ GoodResult(q, told', made)
  BY <1>1, <1>2, <1>3, WritesGood
<1>5. /\ Whole(q, told')
      /\ \A s : Good(s, told, made) /\ Keeps(s, acked, told) => Keeps(s, acked, told')
      /\ \A w \in DOMAIN workers : KeptWorker(workers[w], told')
  BY <1>1, <1>2, <1>3, WritesKept
<1>6. /\ Keeps(live, acked, told') /\ Keeps(safe', acked, told')
      /\ \A r \in rows' : Keeps(r, acked, told')
  BY <1>2, <1>5 DEF IInv, GoodRows, KeptInv
<1>7. Keeps(live', acked, told')
  BY <1>2, <1>4, <1>5, <1>6, MergeKeeps
<1> QED
  BY <1>2, <1>3, <1>5, <1>6, <1>7, KeptTold

\* What a hard limit throws away is known to be gone.
LEMMA HardLimitKept ==
    ASSUME IInv, KeptInv, IInv', Discard \/ Drop PROVE KeptInv'
<1>1. /\ pc # "off" /\ made' = made /\ safe' = safe /\ rows' = rows /\ told' = told
      /\ workers' = workers /\ acked' = acked
  BY DEF Discard, Drop, storeVars, taskVars
<1>2. live \in Session /\ Keeps(live, acked, told) /\ Keeps(safe, acked, told)
      /\ made <= made'
  BY <1>1 DEF IInv, Good, GoodTexts, KeptInv
<1>3. Keeps(live', acked, told)
  <2>1. CASE live' = live
    BY <1>2, <2>1
  <2>2. CASE live' = [live EXCEPT !.gone = @ \cup Tells(live.mid), !.mid = 0]
    <3>1. /\ live'.hist = live.hist
          /\ live'.gone = live.gone \cup TellsIn(told, live.mid)
      BY <1>2, <2>2 DEF Session, Tells, TellsIn
    <3> QED
      BY <1>2, <3>1 DEF Keeps, Knows
  <2>3. CASE live' = [live EXCEPT !.gone = @ \cup Tells(live.mid) \cup Ids(live.hist),
                                  !.mid = 0, !.hist = <<>>]
    <3>1. /\ live'.hist = <<>>
          /\ live'.gone = live.gone \cup TellsIn(told, live.mid) \cup Ids(live.hist)
      BY <1>2, <2>3 DEF Session, Tells, TellsIn
    <3> QED
      BY <1>2, <3>1 DEF Keeps, Knows
  <2> QED
    BY <2>1, <2>2, <2>3 DEF Discard, Drop
<1>4. \A w \in DOMAIN workers' : KeptWorker(workers'[w], told)
  BY <1>1 DEF KeptInv, KeptWorker
<1> QED
  BY <1>1, <1>2, <1>3, <1>4, KeptNext

\* One worker goes on, the others stay as they are.
LEMMA GoesOnKept ==
    ASSUME NEW w \in DOMAIN workers, NEW v, GoesOn(w, v), NEW texts, KeptWorker(v, texts),
           \A u \in DOMAIN workers : KeptWorker(workers[u], texts)
    PROVE  \A u \in DOMAIN workers' : KeptWorker(workers'[u], texts)
<1>1. DOMAIN workers' = DOMAIN workers
  BY DEF GoesOn
<1>2. \A u \in DOMAIN workers : workers'[u] = IF u = w THEN v ELSE workers[u]
  BY DEF GoesOn
<1> QED
  BY <1>1, <1>2

\* A worker's text tells of the snapshot it is to replace.
LEMMA CompactKept ==
    ASSUME ~ EmptyAnswers, IInv, KeptInv, IInv', NEW w \in DOMAIN workers, NEW text,
           Compact(w, text)
    PROVE  KeptInv'
<1>1. PICK r, v : /\ r = workers[w].result
                  /\ v = [workers[w] EXCEPT !.pc = "merge",
                                            !.result = [r EXCEPT !.text = text]]
  OBVIOUS
<1>2. /\ Writes(r, text) /\ GoesOn(w, v)
      /\ pc' = pc /\ live' = live /\ safe' = safe /\ rows' = rows /\ made' = made
      /\ acked' = acked
  BY <1>1 DEF Compact, storeVars, sessionVars, taskVars
<1>3. GoodResult(r, told, made) /\ made <= made' /\ workers[w] \in Worker
  BY <1>1, <1>2 DEF IInv, GoodWorker, GoodTexts
<1>4. /\ Whole([r EXCEPT !.text = text], told')
      /\ \A s : Good(s, told, made) /\ Keeps(s, acked, told) => Keeps(s, acked, told')
      /\ \A u \in DOMAIN workers : KeptWorker(workers[u], told')
  BY <1>2, <1>3, WritesKept
<1>5. v.pc = "merge" /\ v.result = [r EXCEPT !.text = text]
  BY <1>1, <1>3 DEF Worker
<1>6. \A u \in DOMAIN workers' : KeptWorker(workers'[u], told')
  <2>1. KeptWorker(v, told')
    BY <1>4, <1>5 DEF KeptWorker
  <2> QED
    BY <1>2, <1>4, <2>1, GoesOnKept
<1>7. /\ \A s \in rows' : Keeps(s, acked, told')
      /\ pc' # "off" => Keeps(live', acked, told') /\ Keeps(safe', acked, told')
  BY <1>2, <1>4 DEF IInv, GoodRows, KeptInv
<1> QED
  BY <1>2, <1>3, <1>6, <1>7, KeptTold

\* The memory store merges into its row and into the run's session in one step.
LEMMA MergeInMemoryKept ==
    ASSUME IInv, KeptInv, IInv', NEW w \in DOMAIN workers, MergeInMemory(w)
    PROVE  KeptInv'
<1>1. PICK r, v : r = workers[w].result /\ v = [workers[w] EXCEPT !.pc = "finish"]
  OBVIOUS
<1>2. /\ workers[w].pc = "merge" /\ GoesOn(w, v)
      /\ rows' = {MergeInto(s, r) : s \in rows}
      /\ live' = live \/ live' = MergeInto(live, r)
      /\ pc' = pc /\ safe' = safe /\ made' = made /\ told' = told /\ acked' = acked
  BY <1>1 DEF MergeInMemory, MergeIntoRun, taskVars
<1>3. /\ GoodResult(r, told, made) /\ Whole(r, told) /\ workers[w] \in Worker
      /\ made <= made' /\ Good(live, told, made) /\ \A s \in rows : Good(s, told, made)
  BY <1>1, <1>2 DEF IInv, GoodWorker, GoodTexts, GoodRows, KeptInv
<1>4. \A s : Good(s, told, made) /\ Keeps(s, acked, told)
               => Keeps(MergeInto(s, r), acked, told)
  BY <1>3, MergeKeeps
<1>5. /\ \A s \in rows' : Keeps(s, acked, told')
      /\ rows' = {} => rows = {}
      /\ pc' # "off" => Keeps(live', acked, told') /\ Keeps(safe', acked, told')
  BY <1>2, <1>3, <1>4 DEF KeptInv
<1>6. \A u \in DOMAIN workers' : KeptWorker(workers'[u], told')
  <2>1. v.pc = "finish"
    BY <1>1, <1>3 DEF Worker
  <2>2. KeptWorker(v, told) /\ \A u \in DOMAIN workers : KeptWorker(workers[u], told)
    BY <2>1 DEF KeptWorker, KeptInv
  <2> QED
    BY <1>2, <2>2, GoesOnKept
<1> QED
  BY <1>2, <1>3, <1>5, <1>6, KeptTold

\* A worker that has no text, or is done.
LEMMA WorkerEndKept ==
    ASSUME IInv, KeptInv, IInv', NEW w \in DOMAIN workers, CompactFails(w) \/ FinishTask(w)
    PROVE  KeptInv'
<1>1. /\ pc' = pc /\ live' = live /\ safe' = safe /\ rows' = rows /\ made' = made
      /\ told' = told /\ acked' = acked
  BY DEF CompactFails, FinishTask, storeVars, sessionVars, taskVars
<1>2. workers[w] \in Worker /\ made <= made'
  BY <1>1 DEF IInv, GoodWorker, GoodTexts
<1>3. PICK v : GoesOn(w, v) /\ v.pc \in {"finish", "done"}
  <2>1. CASE CompactFails(w)
    <3>1. GoesOn(w, [workers[w] EXCEPT !.pc = "finish"])
      BY <2>1 DEF CompactFails
    <3>2. [workers[w] EXCEPT !.pc = "finish"].pc = "finish"
      BY <1>2 DEF Worker
    <3> QED
      BY <3>1, <3>2
  <2>2. CASE FinishTask(w)
    <3>1. GoesOn(w, [workers[w] EXCEPT !.pc = "done", !.result = NoSnapshot])
      BY <2>2 DEF FinishTask
    <3>2. [workers[w] EXCEPT !.pc = "done", !.result = NoSnapshot].pc = "done"
      BY <1>2 DEF Worker
    <3> QED
      BY <3>1, <3>2
  <2> QED
    BY <2>1, <2>2
<1>4. KeptWorker(v, told) /\ \A u \in DOMAIN workers : KeptWorker(workers[u], told)
  BY <1>3 DEF KeptWorker, KeptInv
<1>5. \A u \in DOMAIN workers' : KeptWorker(workers'[u], told)
  BY <1>3, <1>4, GoesOnKept
<1>6. pc' # "off" => Keeps(live', acked, told) /\ Keeps(safe', acked, told)
  BY <1>1 DEF KeptInv
<1> QED
  BY <1>1, <1>2, <1>5, <1>6, KeptNext

\* A worker begins without a text.
LEMMA ScheduledKept ==
    ASSUME IInv, KeptInv, IInv', AnsweredAndScheduled PROVE KeptInv'
<1>1. PICK v : v = NewWorker
  OBVIOUS
<1>2. /\ pc # "off" /\ live' = live /\ safe' = safe /\ rows' = rows /\ made' = made
      /\ told' = told /\ acked' = acked /\ workers' = Append(workers, v)
  BY <1>1 DEF AnsweredAndScheduled, sessionVars, taskVars
<1>3. workers \in Seq(Worker) /\ made <= made' /\ v.pc = "compact"
  BY <1>1, <1>2 DEF IInv, GoodTexts, NewWorker
<1>4. \A u \in DOMAIN workers' :
        workers'[u] = v \/ (u \in DOMAIN workers /\ workers'[u] = workers[u])
  BY <1>2, <1>3
<1>5. \A u \in DOMAIN workers' : KeptWorker(workers'[u], told)
  BY <1>3, <1>4 DEF KeptInv, KeptWorker
<1>6. Keeps(live', acked, told) /\ Keeps(safe', acked, told)
  BY <1>2 DEF KeptInv
<1> QED
  BY <1>2, <1>3, <1>5, <1>6, KeptNext

\* A crash takes the run and its workers and leaves the store.
LEMMA CrashKept ==
    ASSUME IInv, KeptInv, IInv', Crash PROVE KeptInv'
<1>1. /\ rows' = rows /\ made' = made /\ told' = told /\ acked' = acked
      /\ pc' = "off" \/ (pc' = pc /\ live' = live /\ safe' = safe)
  BY DEF Crash, storeVars, EndRun
<1>2. PICK dead : workers' = [w \in DOMAIN workers |->
                      IF Active(w) /\ workers[w].object.run \in dead
                      THEN Dead(workers[w]) ELSE workers[w]]
  BY DEF Crash
<1>3. \A w \in DOMAIN workers : workers[w] \in Worker
  BY DEF IInv, GoodWorker
<1>4. \A w \in DOMAIN workers : Dead(workers[w]).pc = "dead"
  BY <1>3 DEF Dead, Worker
<1>5. \A w \in DOMAIN workers' : KeptWorker(workers'[w], told)
  BY <1>2, <1>4 DEF KeptInv, KeptWorker
<1>6. /\ made <= made'
      /\ pc' # "off" => Keeps(live', acked, told) /\ Keeps(safe', acked, told)
  BY <1>1 DEF IInv, GoodTexts, KeptInv
<1> QED
  BY <1>1, <1>5, <1>6, KeptNext

\* Every step keeps what the store has taken.
LEMMA KeptStep ==
    ASSUME ~ Mysql, ~ EmptyAnswers, IInv, KeptInv, IInv', [Next]_vars
    PROVE  KeptInv'
<1>1. CASE RunStep
  <2>1. CASE \/ \E more \in 0..1 : TakeStep(more)
             \/ CheckpointRaises \/ RunRaises \/ RunEnds
             \/ BeginBuild \/ ContextFits \/ ContextTooLarge \/ BeginLevel
             \/ BeginSummary \/ SummaryFails \/ Answered
    BY <2>1, QuietKept
  <2>2. CASE \E next \in Agents : CloseTask(next)
    BY <2>2, CloseTaskKept
  <2>3. CASE \E text \in 0..Len(told) + 1 : EndSummary(text)
    BY <2>3, EndSummaryKept
  <2>4. CASE \/ Checkpoint \/ Finish \/ PauseTaskAfterException \/ Discard \/ Drop
             \/ AnsweredAndScheduled
    BY <2>4, CheckpointKept, PauseTaskKept, HardLimitKept, ScheduledKept
  <2> QED
    BY <1>1, <2>1, <2>2, <2>3, <2>4 DEF RunStep, BuildStep
<1>2. ASSUME NEW w \in DOMAIN workers, WorkerStep(w) PROVE KeptInv'
  <2>1. workers[w].pc \notin {"load", "save"}
    BY DEF KeptInv
  <2>2. ~ (MergeThenLoad(w) \/ LoadLatest(w) \/ SaveMerged(w) \/ SaveRaises(w))
    BY <2>1 DEF MergeThenLoad, LoadLatest, SaveMerged, SaveRaises
  <2> QED
    BY <1>2, <2>2, CompactKept, MergeInMemoryKept, WorkerEndKept DEF WorkerStep
<1>3. CASE StartRun
  BY <1>3, StartRunKept
<1>4. CASE (\E a \in Agents : Expire(a)) \/ UNCHANGED vars
  BY <1>4, QuietKept
<1>5. CASE Crash
  BY <1>5, CrashKept
<1> QED
  BY <1>1, <1>2, <1>3, <1>4, <1>5 DEF Next

\* A round that a checkpoint stored stays in the latest stored session, in its history
\* or in its summary, or was thrown away by a hard limit: however many workers merge
\* old snapshots, and however often a run fails, goes back or dies.  In MySQL a late
\* save of a merged session may put an older one on top, and a summary without text
\* stands for nothing of what its merge removes: hence the two assumptions.
THEOREM NothingIsLost ==
    ASSUME ~ Mysql, ~ EmptyAnswers
    PROVE  Spec => []NothingLost
<1>1. Init => KeptInv
  BY DEF Init, KeptInv
<1>2. IInv /\ KeptInv /\ [Next]_vars => (IInv /\ KeptInv)'
  BY NextInv, KeptStep
<1>3. ASSUME IInv, KeptInv PROVE NothingLost
  <2>1. Keeps(Latest, acked, told)
    <3>1. CASE rows = {}
      BY <1>3, <3>1, FreshKeeps DEF KeptInv, Latest
    <3>2. CASE rows # {}
      BY <1>3, <3>2, LatestIsLatest DEF IInv, KeptInv
    <3> QED
      BY <3>1, <3>2
  <2>2. TellsIn(told, Latest.mid) = Tells(Latest.mid)
    BY DEF Tells, TellsIn
  <2> QED
    BY <2>1, <2>2 DEF Keeps, Knows, NothingLost
<1>4. IInv /\ KeptInv => NothingLost
  BY <1>3
<1> QED
  BY InitInv, <1>1, <1>2, <1>4, PTL DEF Spec

(***************************************************************************)
(* Leases                                                                   *)
(***************************************************************************)
\* A step changes the owner of a task only when its worker finishes it or when its
\* lease has expired and another takes it over.
LEMMA LeaseStep ==
    ASSUME IInv, [Next]_vars, NEW a \in Agents, lease[a].owner # 0,
           lease'[a].owner # lease[a].owner
    PROVE  \/ lease[a].expired /\ lease'[a].owner # 0
           \/ /\ workers[lease[a].owner].pc = "finish"
              /\ workers'[lease[a].owner].pc = "done"
<1>1. CASE AnsweredAndScheduled
  <2>1. /\ lease' = [lease EXCEPT ![live.top] = [owner |-> Len(workers) + 1, expired |-> FALSE]]
        /\ CanCreateTask(live.top)
    BY <1>1 DEF AnsweredAndScheduled, Schedules
  <2>2. a = live.top /\ lease'[a].owner = Len(workers) + 1
    BY <2>1 DEF IInv
  <2>3. Len(workers) \in Nat
    BY DEF IInv
  <2> QED
    BY <2>1, <2>2, <2>3 DEF CanCreateTask
<1>2. CASE \E w \in DOMAIN workers : FinishTask(w)
  <2>1. PICK w \in DOMAIN workers : FinishTask(w)
    BY <1>2
  <2>2. lease[a].owner = w
    BY <2>1 DEF FinishTask, IInv
  <2>3. GoesOn(w, [workers[w] EXCEPT !.pc = "done", !.result = NoSnapshot])
    BY <2>1 DEF FinishTask
  <2>4. workers'[w] = [workers[w] EXCEPT !.pc = "done", !.result = NoSnapshot]
    BY <2>3 DEF GoesOn
  <2>5. workers[w] \in Worker
    BY DEF IInv, GoodWorker
  <2>6. workers'[w].pc = "done" /\ workers[w].pc = "finish"
    BY <2>1, <2>4, <2>5 DEF Worker, FinishTask
  <2> QED
    BY <2>2, <2>6
<1>3. CASE \E b \in Agents : Expire(b)
  <2>1. lease'[a].owner = lease[a].owner
    BY <1>3 DEF Expire, IInv
  <2> QED
    BY <2>1
<1>4. CASE lease' = lease
  BY <1>4
<1>5. \/ AnsweredAndScheduled \/ (\E w \in DOMAIN workers : FinishTask(w))
      \/ (\E b \in Agents : Expire(b)) \/ lease' = lease
  <2>1. RunStep => AnsweredAndScheduled \/ lease' = lease
    BY DEF RunStep, BuildStep, CloseTask, Checkpoint, CheckpointRaises,
           PauseTaskAfterException, RunRaises, RunEnds, Finish, TakeStep, BeginBuild,
           ContextFits, ContextTooLarge, BeginLevel, BeginSummary, SummaryFails,
           EndSummary, Discard, Drop, Answered, storeVars
  <2>2. \A w : WorkerStep(w) => FinishTask(w) \/ lease' = lease
    BY DEF WorkerStep, Compact, CompactFails, MergeInMemory, MergeThenLoad, LoadLatest,
           SaveMerged, SaveRaises, storeVars
  <2> QED
    BY <2>1, <2>2 DEF Next, StartRun, Crash, storeVars, vars
<1> QED
  BY <1>1, <1>2, <1>3, <1>4, <1>5

\* A running task is given up by its worker when it finishes, or taken over once its
\* lease has expired, by whichever store, and by nothing else.
THEOREM LeasesKept == Spec => LeaseKept
<1>1. IInv /\ [Next]_vars =>
        [\A a \in Agents :
           LET w == lease[a].owner
           IN  w # 0 /\ lease'[a].owner # w
               => \/ lease[a].expired /\ lease'[a].owner # 0
                  \/ workers[w].pc = "finish" /\ workers'[w].pc = "done"]_vars
  BY LeaseStep
<1> QED
  BY <1>1, Invariance, PTL DEF Spec, LeaseKept
=============================================================================
