---------------------------- MODULE FunnelMarks ----------------------------
(***************************************************************************)
(* Proofs about signal_text: what the normalizer has committed has no      *)
(* gap; with only_new no mark is lost; and a single cluster run links      *)
(* nothing that the extractor or Haiku discarded.                          *)
(***************************************************************************)
EXTENDS FunnelSafety

\* Each row of the batch is skipped for a reason or waits for the commit.
BatchCovered ==
    /\ norm.offset <= raw_signals
    /\ norm.pc = "select" => norm.pending = {}
    /\ norm.pc = "rows" =>
        /\ norm.offset <= norm.at
        /\ norm.at <= norm.last
        /\ \A r \in RawIds : norm.offset < r /\ r <= norm.at =>
              r \in norm.existing \/ r \in Unsupported \/ \E u \in norm.pending : u.raw = r
        /\ \A u \in norm.pending :
              /\ u.flag = ExtractedFlag(u.raw)
              /\ u.loaded # "none" => HasText(u.raw)

ExistingHaveText == \A r \in norm.existing : HasText(r)

\* Cluster runs only know signals that were normalized.
LoadedHaveText == \A w \in ClusterRuns : \A r \in run[w].loaded : HasText(r)

PrefixInv ==
    /\ TypeInv
    /\ BatchCovered
    /\ ExistingHaveText
    /\ LoadedHaveText
    /\ NormalizedPrefix

---------------------------------------------------------------------------
\* The invariant holds of the empty database.
LEMMA PrefixInit == Init => PrefixInv
  <1>. SUFFICES ASSUME Init PROVE PrefixInv OBVIOUS
  <1>1. TypeInv BY TypeInit
  <1>2. BatchCovered /\ ExistingHaveText /\ NormalizedPrefix
    BY DEF Init, TablesInit, NoRequests, NormIdle, BatchCovered, ExistingHaveText, NormalizedPrefix
  <1>3. LoadedHaveText
    BY DEF Init, NoRequests, RunIdle, LoadedHaveText
  <1>. QED BY <1>1, <1>2, <1>3 DEF PrefixInv

\* What a step of a cluster run does to the signals it has still to ask about: it drops
\* some, or loads signals that wait to be clustered.
LEMMA LoadedStep ==
    ASSUME TypeInv, NEW w \in ClusterRuns, ClusterStep(w) \/ ClusterFail(w)
    PROVE  /\ run'[w].loaded \subseteq run[w].loaded \cup Unclustered
           /\ \A v \in ClusterRuns \ {w} : run'[v] = run[v]
           /\ \/ UNCHANGED signal_text
              \/ \E r \in run[w].loaded : signal_text' = [signal_text EXCEPT ![r] = "low"]
  <1>0. run \in [ClusterRuns -> RunStates] /\ run[w] \in RunStates
    BY DEF TypeInv, TypeOK, RunTypeOK
  <1>1. CASE ClusterLoad(w)
    BY <1>0, <1>1 DEF ClusterLoad, FirstSignals, RunIdle, tables
  <1>2. CASE \E r \in RawIds : HaikuNull(w, r)
    <2>. PICK r \in RawIds : HaikuNull(w, r) BY <1>2
    <2>1. /\ r \in run[w].loaded
          /\ signal_text' = [signal_text EXCEPT ![r] = "low"]
          /\ run' = [run EXCEPT ![w].loaded = @ \ {r}]
      BY DEF HaikuNull, PrepassSignal
    <2>2. run'[w].loaded \subseteq run[w].loaded /\ \A v \in ClusterRuns \ {w} : run'[v] = run[v]
      BY <1>0, <2>1 DEF RunStates
    <2>. QED BY <2>1, <2>2
  <1>3. CASE \E r \in RawIds, topic \in Topics : HaikuComplaint(w, r, topic)
    BY <1>0, <1>3 DEF HaikuComplaint, RunStates, tables
  <1>4. CASE ClusterBucket(w)
    BY <1>0, <1>4 DEF ClusterBucket, RunStates, tables
  <1>5. CASE \E bucket \in run[w].buckets, answer \in Answers : ClusterJudge(w, bucket, answer)
    BY <1>0, <1>5 DEF ClusterJudge, RunStates, tables
  <1>6. CASE ClusterJudged(w)
    BY <1>0, <1>6 DEF ClusterJudged, RunStates, tables
  <1>7. CASE PersistLookup(w)
    <2>1. PICK card \in run[w].cards :
             LET picked == [run[w] EXCEPT !.cards = @ \ {card}, !.card = card]
             IN  \/ run'[w] = [picked EXCEPT !.pc = "insert"]
                 \/ \E c \in CandidateIds :
                      run'[w] = [picked EXCEPT !.pc = "link", !.target = c]
      BY <1>0, <1>7 DEF PersistLookup
    <2>2. run'[w].loaded = run[w].loaded
      BY <1>0, <2>1 DEF RunStates
    <2>3. \A v \in ClusterRuns \ {w} : run'[v] = run[v]
      BY <1>0, <1>7 DEF PersistLookup
    <2>. QED BY <1>7, <2>2, <2>3 DEF PersistLookup, tables
  <1>8. CASE PersistInsert(w)
    BY <1>0, <1>8 DEF PersistInsert, RunStates
  <1>9. CASE PersistLink(w)
    <2>1. PICK r \in run[w].card.signals :
             LET linked == [run[w] EXCEPT !.card.signals = @ \ {r}]
             IN  \/ run'[w] = linked
                 \/ \E links : run'[w] = [linked EXCEPT !.view.candidate_signals = links]
      BY <1>0, <1>9 DEF PersistLink
    <2>2. run'[w].loaded = run[w].loaded
      BY <1>0, <2>1 DEF RunStates
    <2>3. \A v \in ClusterRuns \ {w} : run'[v] = run[v]
      BY <1>0, <1>9 DEF PersistLink
    <2>. QED BY <1>9, <2>2, <2>3 DEF PersistLink
  <1>10. CASE PersistNextCard(w)
    BY <1>0, <1>10 DEF PersistNextCard, RunStates, tables
  <1>11. CASE PersistCommit(w) \/ ClusterFail(w)
    BY <1>0, <1>11 DEF PersistCommit, ClusterFail, RunIdle
  <1>12. CASE LinkCollides(w)
    BY <1>0, <1>12 DEF LinkCollides, RunStates
  <1>. QED BY <1>1, <1>2, <1>3, <1>4, <1>5, <1>6, <1>7, <1>8, <1>9, <1>10, <1>11, <1>12
           DEF ClusterStep

\* A row of signal_text stays, and a committed upsert leaves one.
LEMMA UpsertsLeaveText ==
    ASSUME PrefixInv, norm.pc = "rows", NEW r \in RawIds,
           HasText(r) \/ \E u \in norm.pending : u.raw = r
    PROVE  AfterUpserts(norm.pending)[r] # "none"
  <1>1. CASE \E u \in norm.pending : u.raw = r /\ u.flag # u.loaded
    BY <1>1 DEF AfterUpserts, ExtractedFlag
  <1>2. CASE ~\E u \in norm.pending : u.raw = r /\ u.flag # u.loaded
    <2>1. AfterUpserts(norm.pending)[r] = signal_text[r]
      BY <1>2 DEF AfterUpserts
    <2>2. HasText(r)
      BY <1>2 DEF PrefixInv, BatchCovered, ExtractedFlag
    <2>. QED BY <2>1, <2>2 DEF HasText
  <1>. QED BY <1>1, <1>2

\* The normalizer's own steps keep it.
LEMMA PrefixNormalize ==
    ASSUME PrefixInv, TypeInv', NormalizeNext, UNCHANGED run
    PROVE  PrefixInv'
  <1>0. /\ NormTypeOK /\ NormInBounds /\ raw_signals \in 0 .. MaxRaw /\ MaxRaw \in Nat
        /\ BatchSize \in Nat \ {0}
        /\ \A w \in ClusterRuns : run[w].loaded \subseteq RawIds
    BY TablesAssumption, NormalizeAssumption
       DEF PrefixInv, TypeInv, TypeOK, RunTypeOK, RunStates
  <1>a. ASSUME UNCHANGED signal_text PROVE LoadedHaveText'
    BY <1>a DEF PrefixInv, LoadedHaveText, HasText
  <1>b. ASSUME norm' = NormIdle
        PROVE  BatchCovered' /\ ExistingHaveText' /\ NormalizedPrefix'
    BY <1>0, <1>b DEF NormIdle, BatchCovered, ExistingHaveText, NormalizedPrefix,
                             TypeInv, TypeOK
  <1>1. CASE NormalizeStart
    <2>1. PICK E \in SUBSET {r \in RawIds : HasText(r)} :
             norm' = [NormIdle EXCEPT !.pc = "select", !.existing = E]
      BY <1>1 DEF NormalizeStart
    <2>2. norm'.pc = "select" /\ norm'.existing = E /\ norm'.pending = {} /\ norm'.offset = 0
      BY <2>1 DEF NormIdle
    <2>3. UNCHANGED signal_text
      BY <1>1 DEF NormalizeStart, tables
    <2>4. BatchCovered' /\ ExistingHaveText' /\ NormalizedPrefix'
      BY <1>0, <1>1, <2>2, <2>3
         DEF NormalizeStart, tables, BatchCovered, ExistingHaveText, NormalizedPrefix, HasText
    <2>. QED BY <1>a, <2>3, <2>4 DEF PrefixInv
  <1>2. CASE NormalizeSelectBatch
    <2>1. UNCHANGED signal_text
      BY <1>2 DEF NormalizeSelectBatch, tables
    <2>2. CASE norm' = NormIdle
      BY <1>a, <1>b, <2>1, <2>2 DEF PrefixInv
    <2>3. CASE norm' # NormIdle
      <3>. DEFINE end == IF raw_signals < norm.offset + BatchSize THEN raw_signals
                                                               ELSE norm.offset + BatchSize
      <3>1. norm' = [norm EXCEPT !.pc = "rows", !.last = end, !.at = norm.offset]
            /\ norm.pc = "select" /\ end # norm.offset
        BY <1>2, <2>3 DEF NormalizeSelectBatch
      <3>2. end \in Nat /\ end >= norm.offset
        BY <1>0, <3>1 DEF NormTypeOK, PrefixInv, BatchCovered
      <3>. HIDE DEF end
      <3>3. /\ norm'.pc = "rows" /\ norm'.at = norm.offset /\ norm'.offset = norm.offset
            /\ norm'.last = end
            /\ norm'.pending = {} /\ norm'.existing = norm.existing
        BY <1>0, <3>1 DEF NormTypeOK, PrefixInv, BatchCovered
      <3>4. BatchCovered'
        BY <1>0, <1>2, <3>2, <3>3
           DEF NormalizeSelectBatch, tables, PrefixInv, BatchCovered, NormTypeOK, RawIds
      <3>5. ExistingHaveText' /\ NormalizedPrefix'
        BY <2>1, <3>3 DEF PrefixInv, ExistingHaveText, NormalizedPrefix, HasText
      <3>. QED BY <1>a, <2>1, <3>4, <3>5 DEF PrefixInv
    <2>. QED BY <2>2, <2>3
  <1>3. CASE NormalizeRow
    <2>. DEFINE r == norm.at + 1
                upsert == [raw |-> r, loaded |-> signal_text[r], flag |-> ExtractedFlag(r)]
    <2>1. UNCHANGED <<signal_text, raw_signals>>
      BY <1>3 DEF NormalizeRow, tables
    <2>2. /\ norm.pc = "rows" /\ norm.at < norm.last
          /\ norm'.pc = "rows" /\ norm'.at = r /\ norm'.offset = norm.offset
          /\ norm'.last = norm.last /\ norm'.existing = norm.existing
          /\ \/ norm'.pending = norm.pending /\ (r \in norm.existing \/ r \in Unsupported)
             \/ norm'.pending = norm.pending \cup {upsert}
      <3>. HIDE DEF upsert
      <3>. QED BY <1>0, <1>3 DEF NormalizeRow, NormTypeOK, upsert
    <2>3. /\ upsert.raw = r
          /\ upsert.flag = ExtractedFlag(upsert.raw)
          /\ upsert.loaded # "none" => HasText(upsert.raw)
      BY DEF HasText
    <2>. HIDE DEF upsert
    <2>4. BatchCovered'
      <3>1. \A q \in RawIds : norm.offset < q /\ q <= r =>
               q \in norm.existing \/ q \in Unsupported \/ \E u \in norm'.pending : u.raw = q
        <4>. SUFFICES ASSUME NEW q \in RawIds, norm.offset < q, q <= r
                      PROVE  q \in norm.existing \/ q \in Unsupported
                                \/ \E u \in norm'.pending : u.raw = q
          OBVIOUS
        <4>1. CASE q = r
          BY <2>2, <2>3, <4>1
        <4>2. CASE q # r
          <5>1. q <= norm.at
            BY <1>0, <4>2 DEF RawIds, NormTypeOK
          <5>. QED BY <2>2, <5>1 DEF PrefixInv, BatchCovered
        <4>. QED BY <4>1, <4>2
      <3>2. \A u \in norm'.pending :
               u.flag = ExtractedFlag(u.raw) /\ (u.loaded # "none" => HasText(u.raw))
        BY <2>2, <2>3 DEF PrefixInv, BatchCovered
      <3>3. norm.offset <= r /\ r <= norm.last /\ norm.offset <= raw_signals
        BY <1>0, <2>2 DEF PrefixInv, BatchCovered, NormTypeOK
      <3>. HIDE DEF r
      <3>. QED BY <2>1, <2>2, <3>1, <3>2, <3>3 DEF BatchCovered, HasText, ExtractedFlag
    <2>5. ExistingHaveText' /\ NormalizedPrefix'
      BY <2>1, <2>2 DEF PrefixInv, ExistingHaveText, NormalizedPrefix, HasText
    <2>. QED BY <1>a, <2>1, <2>4, <2>5 DEF PrefixInv
  <1>4. CASE NormalizeCommitBatch
    <2>1. /\ norm.pc = "rows" /\ norm.at = norm.last
          /\ signal_text' = AfterUpserts(norm.pending)
          /\ UNCHANGED raw_signals
      BY <1>4 DEF NormalizeCommitBatch
    <2>2. \A r \in RawIds : HasText(r) => HasText(r)'
      BY <2>1, UpsertsLeaveText DEF HasText
    <2>3. LoadedHaveText'
      BY <1>0, <2>2 DEF PrefixInv, LoadedHaveText, HasText
    <2>4. CASE norm' = NormIdle
      BY <1>b, <2>3, <2>4 DEF PrefixInv
    <2>5. CASE norm' # NormIdle
      <3>1. norm' = [norm EXCEPT !.pc = "select", !.offset = norm.last, !.pending = {}]
        BY <1>4, <2>5 DEF NormalizeCommitBatch
      <3>2. norm'.pc = "select" /\ norm'.offset = norm.last /\ norm'.pending = {}
            /\ norm'.existing = norm.existing
        BY <1>0, <3>1 DEF NormTypeOK
      <3>3. BatchCovered'
        BY <1>0, <2>1, <3>2 DEF BatchCovered, NormInBounds
      <3>4. ExistingHaveText'
        BY <1>0, <2>2, <3>2 DEF PrefixInv, ExistingHaveText, NormTypeOK, HasText
      <3>5. NormalizedPrefix'
        <4>. SUFFICES ASSUME NEW r \in 1 .. norm.last
                      PROVE  HasText(r)' \/ r \in Unsupported
          BY <3>2 DEF NormalizedPrefix, HasText
        <4>1. r \in RawIds /\ r \in Nat
          BY <1>0, <2>1 DEF NormInBounds, NormTypeOK, RawIds
        <4>2. CASE r <= norm.offset
          BY <1>0, <2>2, <4>1, <4>2 DEF PrefixInv, NormalizedPrefix, NormTypeOK
        <4>3. CASE norm.offset < r
          <5>1. r \in norm.existing \/ r \in Unsupported \/ \E u \in norm.pending : u.raw = r
            BY <1>0, <2>1, <4>1, <4>3 DEF PrefixInv, BatchCovered
          <5>2. r \in norm.existing => HasText(r)
            BY DEF PrefixInv, ExistingHaveText
          <5>. QED BY <2>1, <2>2, <4>1, <5>1, <5>2, UpsertsLeaveText DEF HasText
        <4>. QED BY <1>0, <4>1, <4>2, <4>3 DEF NormTypeOK
      <3>. QED BY <2>3, <3>3, <3>4, <3>5 DEF PrefixInv
    <2>. QED BY <2>4, <2>5
  <1>5. CASE NormalizeFail
    BY <1>a, <1>b, <1>5 DEF NormalizeFail, tables, PrefixInv
  <1>. QED BY <1>1, <1>2, <1>3, <1>4, <1>5 DEF NormalizeNext

\* Text that is there stays, so the normalizer's knowledge stays true.
LEMMA PrefixKeptByText ==
    ASSUME PrefixInv, TypeInv', UNCHANGED <<norm, raw_signals>>,
           \A r \in RawIds : HasText(r) => HasText(r)'
    PROVE  BatchCovered' /\ ExistingHaveText' /\ NormalizedPrefix'
  <1>0. NormTypeOK /\ norm.offset <= raw_signals /\ raw_signals \in 0 .. MaxRaw /\ MaxRaw \in Nat
    BY TablesAssumption DEF PrefixInv, BatchCovered, TypeInv, TypeOK
  <1>1. \A u \in norm.pending : u.raw \in RawIds
    BY <1>0 DEF NormTypeOK, Upserts
  <1>2. BatchCovered'
    BY <1>1 DEF PrefixInv, BatchCovered, HasText, ExtractedFlag
  <1>3. ExistingHaveText'
    BY <1>0 DEF PrefixInv, ExistingHaveText, NormTypeOK, HasText
  <1>4. NormalizedPrefix'
    <2>1. \A r \in 1 .. norm.offset : r \in RawIds
      BY <1>0 DEF RawIds, NormTypeOK
    <2>. QED BY <2>1 DEF PrefixInv, NormalizedPrefix, HasText
  <1>. QED BY <1>2, <1>3, <1>4

\* A cluster run, which marks rows but never removes one, keeps it.
LEMMA PrefixCluster ==
    ASSUME PrefixInv, TypeInv', ClusterNext, UNCHANGED norm
    PROVE  PrefixInv'
  <1>. PICK w \in ClusterRuns : ClusterStep(w) \/ ClusterFail(w)
    BY DEF ClusterNext
  <1>0. /\ run'[w].loaded \subseteq run[w].loaded \cup Unclustered
        /\ \A v \in ClusterRuns \ {w} : run'[v] = run[v]
        /\ \/ UNCHANGED signal_text
           \/ \E r \in run[w].loaded : signal_text' = [signal_text EXCEPT ![r] = "low"]
    BY LoadedStep DEF PrefixInv
  <1>1. /\ signal_text \in [RawIds -> {"none", "low", "open"}]
        /\ \A v \in ClusterRuns : run[v].loaded \subseteq RawIds
    BY DEF PrefixInv, TypeInv, TypeOK, RunTypeOK, RunStates
  <1>2. \A r \in RawIds : HasText(r) => HasText(r)'
    BY <1>0, <1>1 DEF HasText
  <1>3. UNCHANGED raw_signals
    BY DEF ClusterStep, ClusterLoad, HaikuNull, HaikuComplaint, ClusterBucket, ClusterJudge,
           ClusterJudged, PersistLookup, PersistInsert, PersistLink, LinkCollides,
           PersistNextCard, PersistCommit, ClusterFail, tables
  <1>4. LoadedHaveText'
    <2>. SUFFICES ASSUME NEW v \in ClusterRuns, NEW r \in run'[v].loaded PROVE HasText(r)'
      BY DEF LoadedHaveText, HasText
    <2>1. CASE r \in Unclustered
      BY <1>2, <2>1 DEF Unclustered, HasText
    <2>2. CASE r \in run[v].loaded
      BY <1>1, <1>2, <2>2 DEF PrefixInv, LoadedHaveText
    <2>. QED BY <1>0, <2>1, <2>2
  <1>. QED BY <1>2, <1>3, <1>4, PrefixKeptByText DEF PrefixInv

\* Every step of the system keeps it.
LEMMA PrefixStep == PrefixInv /\ [Next]_vars => PrefixInv'
  <1>. SUFFICES ASSUME PrefixInv, [Next]_vars PROVE PrefixInv'
    OBVIOUS
  <1>1. TypeInv'
    BY TypeStep DEF PrefixInv
  <1>2. ASSUME UNCHANGED <<norm, raw_signals, signal_text, run>> PROVE PrefixInv'
    BY <1>1, <1>2, PrefixKeptByText DEF PrefixInv, LoadedHaveText, HasText
  <1>3. CASE UNCHANGED vars
    BY <1>2, <1>3 DEF vars, tables
  <1>4. CASE IngestRow /\ UNCHANGED <<norm, run, merging, deciding>>
    <2>1. raw_signals' = raw_signals + 1 /\ UNCHANGED signal_text /\ raw_signals \in Nat
      BY <1>4 DEF IngestRow, PrefixInv, TypeInv, TypeOK
    <2>2. norm.offset \in Nat
      BY DEF PrefixInv, TypeInv, TypeOK, NormTypeOK
    <2>3. BatchCovered'
      BY <1>4, <2>1, <2>2 DEF PrefixInv, BatchCovered, HasText, ExtractedFlag
    <2>. QED BY <1>1, <1>4, <2>1, <2>3
             DEF PrefixInv, ExistingHaveText, LoadedHaveText, NormalizedPrefix, HasText
  <1>5. CASE NormalizeNext /\ UNCHANGED <<run, merging, deciding>>
    BY <1>1, <1>5, PrefixNormalize
  <1>6. CASE ClusterNext /\ UNCHANGED <<norm, merging, deciding>>
    BY <1>1, <1>6, PrefixCluster
  <1>7. CASE MergeNext /\ UNCHANGED <<norm, run, deciding>>
    BY <1>2, <1>7 DEF MergeNext, MergeBegin, MergeCommit, MergeFail, tables
  <1>8. CASE InboxNext /\ UNCHANGED <<norm, run, merging>>
    BY <1>2, <1>8 DEF InboxNext, DecideLoad, DecideCommit, DecideFail, tables
  <1>9. CASE Crash
    <2>1. UNCHANGED <<raw_signals, signal_text>> /\ norm' = NormIdle
          /\ run' = [w \in ClusterRuns |-> RunIdle] /\ raw_signals \in Nat
      BY <1>9 DEF Crash, PrefixInv, TypeInv, TypeOK
    <2>2. BatchCovered' /\ ExistingHaveText' /\ NormalizedPrefix'
      BY <2>1 DEF NormIdle, BatchCovered, ExistingHaveText, NormalizedPrefix
    <2>3. LoadedHaveText'
      BY <2>1 DEF LoadedHaveText, RunIdle
    <2>. QED BY <1>1, <2>2, <2>3 DEF PrefixInv
  <1>. QED BY <1>3, <1>4, <1>5, <1>6, <1>7, <1>8, <1>9 DEF Next

\* It holds in every reachable state.
LEMMA PrefixAlways == Spec => []PrefixInv
  BY PrefixInit, PrefixStep, PTL DEF Spec

---------------------------------------------------------------------------
\* Batches, commits, failures and restarts of the normalizer leave no gap: all it has
\* committed and passed has text, whatever the batch size and whatever Haiku marks.
THEOREM NoGap == Spec => []NormalizedPrefix
  <1>1. PrefixInv => NormalizedPrefix BY DEF PrefixInv
  <1>. QED BY <1>1, PrefixAlways, PTL

---------------------------------------------------------------------------
(* Marks: with only_new a run upserts only rows that were not there.       *)

OnlyNew == OnlyNewModes \subseteq {TRUE}

UntouchedAhead ==
    norm.pc # "idle" =>
        /\ \A r \in RawIds : norm.offset < r /\ r \notin norm.existing => ~HasText(r)
        /\ \A u \in norm.pending : 
              norm.offset < u.raw /\ u.raw <= norm.at /\ u.raw \notin norm.existing

MarksInv == PrefixInv /\ UntouchedAhead

\* With only_new, the normalizer upserts only rows that no one has touched.
LEMMA UntouchedNormalize ==
    ASSUME OnlyNew, MarksInv, NormalizeNext
    PROVE  UntouchedAhead'
  <1>0. NormTypeOK /\ norm.offset <= raw_signals
    BY DEF MarksInv, PrefixInv, BatchCovered, TypeInv, TypeOK
  <1>i. CASE norm' = NormIdle
    BY <1>i DEF NormIdle, UntouchedAhead
  <1>1. CASE NormalizeStart
    <2>1. /\ norm' = [NormIdle EXCEPT !.pc = "select", !.existing = {r \in RawIds : HasText(r)}]
          /\ UNCHANGED signal_text
      BY <1>1 DEF OnlyNew, NormalizeStart, tables
    <2>. QED BY <2>1 DEF NormIdle, UntouchedAhead, HasText
  <1>2. CASE NormalizeSelectBatch /\ norm' # NormIdle
    <2>. DEFINE end == IF raw_signals < norm.offset + BatchSize THEN raw_signals
                                                             ELSE norm.offset + BatchSize
    <2>1. /\ norm' = [norm EXCEPT !.pc = "rows", !.last = end, !.at = norm.offset]
          /\ norm.pc = "select" /\ UNCHANGED signal_text
      BY <1>2 DEF NormalizeSelectBatch, tables
    <2>. HIDE DEF end
    <2>2. norm.pending = {}
      BY <2>1 DEF MarksInv, PrefixInv, BatchCovered
    <2>3. /\ norm'.pending = {} /\ norm'.offset = norm.offset
          /\ norm'.existing = norm.existing
      BY <1>0, <2>1, <2>2 DEF NormTypeOK
    <2>. QED BY <2>1, <2>3 DEF MarksInv, UntouchedAhead, HasText
  <1>3. CASE NormalizeRow
    <2>. DEFINE r == norm.at + 1
                upsert == [raw |-> r, loaded |-> signal_text[r], flag |-> ExtractedFlag(r)]
    <2>1. /\ norm.pc = "rows" /\ norm'.at = r
          /\ norm'.offset = norm.offset /\ norm'.existing = norm.existing
          /\ \/ norm'.pending = norm.pending
             \/ norm'.pending = norm.pending \cup {upsert} /\ r \notin norm.existing
      <3>. HIDE DEF upsert
      <3>. QED BY <1>0, <1>3 DEF NormalizeRow, NormTypeOK, upsert
    <2>2. upsert.raw = r /\ norm.offset < r /\ r <= r
      BY <1>0, <2>1 DEF NormTypeOK, MarksInv, PrefixInv, BatchCovered
    <2>3. UNCHANGED signal_text
      BY <1>3 DEF NormalizeRow, tables
    <2>4. \A u \in norm.pending : u.raw \in Nat /\ u.raw <= r
      BY <1>0, <2>1 DEF MarksInv, UntouchedAhead, NormTypeOK, Upserts, RawIds
    <2>. HIDE DEF r, upsert
    <2>. QED BY <1>0, <2>1, <2>2, <2>3, <2>4 DEF MarksInv, UntouchedAhead, HasText
  <1>4. CASE NormalizeCommitBatch /\ norm' # NormIdle
    <2>1. /\ norm' = [norm EXCEPT !.pc = "select", !.offset = norm.last, !.pending = {}]
          /\ norm.pc = "rows" /\ norm.at = norm.last
          /\ signal_text' = AfterUpserts(norm.pending)
      BY <1>4 DEF NormalizeCommitBatch
    <2>2. norm'.offset = norm.last /\ norm'.pending = {} /\ norm'.existing = norm.existing
          /\ norm.offset <= norm.last
      BY <1>0, <2>1 DEF NormTypeOK, MarksInv, PrefixInv, BatchCovered
    <2>. SUFFICES ASSUME NEW r \in RawIds, norm.last < r, r \notin norm.existing
                  PROVE  signal_text'[r] = "none"
      BY <2>2 DEF UntouchedAhead, HasText
    <2>3. r \in Nat /\ norm.offset < r
      BY <1>0, <2>2 DEF RawIds, NormTypeOK
    <2>4. signal_text[r] = "none"
      BY <2>1, <2>3 DEF MarksInv, UntouchedAhead, HasText
    <2>5. ~\E u \in norm.pending : u.raw = r
      BY <1>0, <2>1, <2>3 DEF MarksInv, UntouchedAhead, NormTypeOK
    <2>. QED BY <2>1, <2>4, <2>5 DEF AfterUpserts
  <1>5. CASE NormalizeFail
    BY <1>i, <1>5 DEF NormalizeFail
  <1>. QED BY <1>i, <1>1, <1>2, <1>3, <1>4, <1>5 DEF NormalizeNext

\* Every step of the system keeps the invariant of the marks.
LEMMA MarksStep == OnlyNew /\ MarksInv /\ [Next]_vars => MarksInv'
  <1>. SUFFICES ASSUME OnlyNew, MarksInv, [Next]_vars PROVE MarksInv'
    OBVIOUS
  <1>1. PrefixInv'
    BY PrefixStep DEF MarksInv
  <1>2. ASSUME UNCHANGED norm, \A r \in RawIds : HasText(r)' => HasText(r) PROVE MarksInv'
    BY <1>1, <1>2 DEF MarksInv, UntouchedAhead, HasText
  <1>3. ASSUME UNCHANGED <<norm, signal_text>> PROVE MarksInv'
    BY <1>2, <1>3 DEF HasText
  <1>4. CASE UNCHANGED vars
    BY <1>3, <1>4 DEF vars, tables
  <1>5. CASE IngestRow /\ UNCHANGED <<norm, run, merging, deciding>>
    BY <1>3, <1>5 DEF IngestRow
  <1>6. CASE NormalizeNext
    BY <1>1, <1>6, UntouchedNormalize DEF MarksInv
  <1>7. CASE ClusterNext /\ UNCHANGED norm
    <2>. PICK w \in ClusterRuns : ClusterStep(w) \/ ClusterFail(w)
      BY <1>7 DEF ClusterNext
    <2>1. \/ UNCHANGED signal_text
          \/ \E r \in run[w].loaded : signal_text' = [signal_text EXCEPT ![r] = "low"]
      BY LoadedStep DEF MarksInv, PrefixInv
    <2>2. /\ signal_text \in [RawIds -> {"none", "low", "open"}]
          /\ \A r \in run[w].loaded : HasText(r)
      BY DEF MarksInv, PrefixInv, LoadedHaveText, TypeInv, TypeOK
    <2>3. \A r \in RawIds : HasText(r)' => HasText(r)
      BY <2>1, <2>2 DEF HasText
    <2>. QED BY <1>2, <1>7, <2>3
  <1>8. CASE MergeNext /\ UNCHANGED norm
    BY <1>3, <1>8 DEF MergeNext, MergeBegin, MergeCommit, MergeFail, tables
  <1>9. CASE InboxNext /\ UNCHANGED norm
    BY <1>3, <1>9 DEF InboxNext, DecideLoad, DecideCommit, DecideFail, tables
  <1>10. CASE Crash
    BY <1>1, <1>10 DEF Crash, MarksInv, UntouchedAhead, NormIdle
  <1>. QED BY <1>4, <1>5, <1>6, <1>7, <1>8, <1>9, <1>10 DEF Next

\* No step clears a mark when the invariant holds.
LEMMA MarkKept ==
    ASSUME MarksInv, [Next]_vars, NEW r \in RawIds, signal_text[r] = "low"
    PROVE  signal_text'[r] = "low"
  <1>0. signal_text \in [RawIds -> {"none", "low", "open"}]
    BY DEF MarksInv, PrefixInv, TypeInv, TypeOK
  <1>1. CASE UNCHANGED signal_text
    BY <1>1
  <1>2. CASE NormalizeNext
    <2>1. CASE NormalizeCommitBatch
      <3>1. norm.pc = "rows" /\ signal_text' = AfterUpserts(norm.pending)
        BY <2>1 DEF NormalizeCommitBatch
      <3>2. ~\E u \in norm.pending : u.raw = r
        BY <3>1 DEF MarksInv, UntouchedAhead, HasText
      <3>. QED BY <3>1, <3>2 DEF AfterUpserts
    <2>2. CASE ~NormalizeCommitBatch
      BY <1>1, <1>2, <2>2 DEF NormalizeNext, NormalizeStart, NormalizeSelectBatch, NormalizeRow,
                              NormalizeFail, tables
    <2>. QED BY <2>1, <2>2
  <1>3. CASE ClusterNext
    <2>. PICK w \in ClusterRuns : ClusterStep(w) \/ ClusterFail(w)
      BY <1>3 DEF ClusterNext
    <2>1. \/ UNCHANGED signal_text
          \/ \E q \in run[w].loaded : signal_text' = [signal_text EXCEPT ![q] = "low"]
      BY LoadedStep DEF MarksInv, PrefixInv
    <2>. QED BY <1>0, <2>1
  <1>4. CASE IngestRow \/ MergeNext \/ InboxNext \/ Crash \/ UNCHANGED vars
    BY <1>1, <1>4 DEF IngestRow, MergeNext, MergeBegin, MergeCommit, MergeFail, InboxNext, DecideLoad,
                      DecideCommit, DecideFail, Crash, vars, tables
  <1>. QED BY <1>2, <1>3, <1>4 DEF Next

\* When every caller passes only_new, no signal that the extractor or Haiku discarded comes
\* back, so no later cluster run pays for it again.
THEOREM MarksKept ==
    ASSUME OnlyNew
    PROVE  Spec => MarksSurvive
  <1>1. Init => MarksInv
    BY PrefixInit DEF MarksInv, UntouchedAhead, Init, NoRequests, NormIdle
  <1>2. MarksInv /\ [Next]_vars => MarksInv'
    BY MarksStep
  <1>3. MarksInv /\ [Next]_vars
           => [\A r \in RawIds : signal_text[r] = "low" => signal_text'[r] = "low"]_vars
    BY MarkKept
  <1>. QED BY <1>1, <1>2, <1>3, PTL DEF Spec, MarksSurvive

---------------------------------------------------------------------------
(* Links: a single cluster run, with only_new, links nothing discarded.    *)
(* What the run has kept of a signal it only keeps of open ones, and it    *)
(* marks only signals of which it has kept nothing and none is linked.     *)

OneRun == \A v, w \in ClusterRuns : v = w

\* Run w has kept something of signal r: Haiku's topic, a place in a bucket or in a
\* card, a link that it sees.
Knows(w, r) ==
    \/ run[w].topic[r] # NoTopic
    \/ \E bucket \in run[w].buckets : r \in bucket
    \/ \E card \in run[w].cards : r \in card.signals
    \/ r \in run[w].card.signals
    \/ \E c \in CandidateIds : <<c, r>> \in VisibleLinks(w)

Linked(r) == \E c \in CandidateIds : <<c, r>> \in candidate_signals

KnowledgeInv ==
    /\ MarksInv
    /\ SafeInv
    /\ LinkedAreClusterable
    /\ \A w \in ClusterRuns :
         /\ \A r \in RawIds : Knows(w, r) => signal_text[r] = "open"
         /\ \A r \in run[w].loaded : signal_text[r] = "open" /\ ~Knows(w, r)
         /\ run[w].pc # "prepass" => run[w].loaded = {}

\* What the normalizer commits under only_new leaves open signals open.
LEMMA OpenKept ==
    ASSUME MarksInv, NormalizeNext, NEW r \in RawIds, signal_text[r] = "open"
    PROVE  signal_text'[r] = "open"
  <1>1. CASE NormalizeCommitBatch
    <2>1. norm.pc = "rows" /\ signal_text' = AfterUpserts(norm.pending)
      BY <1>1 DEF NormalizeCommitBatch
    <2>2. ~\E u \in norm.pending : u.raw = r
      BY <2>1 DEF MarksInv, UntouchedAhead, HasText
    <2>. QED BY <2>1, <2>2 DEF AfterUpserts
  <1>2. CASE ~NormalizeCommitBatch
    BY <1>2 DEF NormalizeNext, NormalizeStart, NormalizeSelectBatch, NormalizeRow,
                NormalizeFail, tables
  <1>. QED BY <1>1, <1>2

\* What a step of a run adds to what it knows: signals it had still to ask about, and
\* signals that are linked already.
LEMMA KnowsStep ==
    ASSUME SafeInv, NEW w \in ClusterRuns, ClusterStep(w) \/ ClusterFail(w)
    PROVE  \A r \in RawIds : Knows(w, r)' =>
              \/ Knows(w, r)
              \/ Linked(r)
              \/ r \in run[w].loaded /\ r \notin run'[w].loaded /\ UNCHANGED signal_text
  <1>0. /\ run \in [ClusterRuns -> RunStates] /\ run[w] \in RunStates
        /\ w # NoRun
    BY TablesAssumption DEF SafeInv, TypeInv, TypeOK, RunTypeOK
  <1>. SUFFICES ASSUME NEW r \in RawIds, Knows(w, r)'
                PROVE  \/ Knows(w, r)
                       \/ Linked(r)
                       \/ r \in run[w].loaded /\ r \notin run'[w].loaded /\ UNCHANGED signal_text
    OBVIOUS
  <1>. DEFINE Sees == \E c \in CandidateIds : <<c, r>> \in VisibleLinks(w)
              Held(locals) == \/ locals.topic[r] # NoTopic
                              \/ \E bucket \in locals.buckets : r \in bucket
                              \/ \E card \in locals.cards : r \in card.signals
                              \/ r \in locals.card.signals
  <1>k. (Knows(w, r) <=> Held(run[w]) \/ Sees) /\ (Held(run'[w]) \/ Sees')
    BY DEF Knows
  <1>l. Sees => Linked(r) \/ Knows(w, r)
    BY DEF Knows
  <1>i. ~Held(RunIdle)
    BY DEF RunIdle, NoCard
  <1>v. ASSUME UNCHANGED <<candidate_signals, write_lock>>, run'[w].view = run[w].view
        PROVE  Sees' => Sees
    BY <1>v DEF VisibleLinks, InTransaction
  <1>e. ASSUME candidate_signals' = candidate_signals, ~InTransaction(w)'
        PROVE  Sees' => Linked(r)
    BY <1>e DEF VisibleLinks, Linked
  <1>. HIDE DEF Sees, Held
  <1>1. CASE ClusterLoad(w)
    <2>1. Held(run'[w]) = Held(RunIdle)
      BY <1>0, <1>1 DEF ClusterLoad, Held, RunIdle
    <2>2. UNCHANGED <<candidate_signals, write_lock>> /\ ~InTransaction(w)
      BY <1>1 DEF ClusterLoad, tables, SafeInv, ViewExtends
    <2>. QED BY <1>k, <1>i, <1>e, <2>1, <2>2 DEF InTransaction
  <1>2. CASE \E q \in RawIds : HaikuNull(w, q)
    <2>1. /\ run'[w].topic = run[w].topic /\ run'[w].buckets = run[w].buckets
          /\ run'[w].cards = run[w].cards /\ run'[w].card = run[w].card
          /\ run'[w].view = run[w].view
          /\ UNCHANGED <<candidate_signals, write_lock>>
      BY <1>0, <1>2 DEF HaikuNull, RunStates
    <2>2. Held(run'[w]) = Held(run[w])
      BY <2>1 DEF Held
    <2>. QED BY <1>k, <1>v, <2>1, <2>2
  <1>3. CASE \E q \in RawIds, topic \in Topics : HaikuComplaint(w, q, topic)
    <2>. PICK q \in RawIds, topic \in Topics : HaikuComplaint(w, q, topic)
      BY <1>3
    <2>1. /\ q \in run[w].loaded /\ run'[w].loaded = run[w].loaded \ {q}
          /\ run'[w].topic = [run[w].topic EXCEPT ![q] = topic]
          /\ run'[w].buckets = run[w].buckets
          /\ run'[w].cards = run[w].cards /\ run'[w].card = run[w].card
          /\ run'[w].view = run[w].view
          /\ UNCHANGED <<signal_text, candidate_signals, write_lock>>
      BY <1>0 DEF HaikuComplaint, PrepassSignal, tables, RunStates
    <2>2. r # q => run'[w].topic[r] = run[w].topic[r]
      BY <1>0, <2>1 DEF RunStates
    <2>3. r # q => Held(run'[w]) = Held(run[w])
      BY <2>1, <2>2 DEF Held
    <2>. QED BY <1>k, <1>v, <2>1, <2>3
  <1>4. CASE ClusterBucket(w)
    <2>1. /\ run'[w].topic = RunIdle.topic
          /\ run'[w].buckets = LargestBuckets(AllBuckets(w), MaxBuckets)
          /\ run'[w].cards = run[w].cards /\ run'[w].card = run[w].card
          /\ run'[w].view = run[w].view
          /\ UNCHANGED <<candidate_signals, write_lock>>
      BY <1>0, <1>4 DEF ClusterBucket, tables, RunStates
    <2>2. RunIdle.topic[r] = NoTopic
      BY DEF RunIdle
    <2>3. ASSUME NEW bucket \in run'[w].buckets, r \in bucket PROVE run[w].topic[r] # NoTopic
      <3>1. bucket \in AllBuckets(w)
        BY <2>1 DEF LargestBuckets
      <3>2. PICK q \in RawIds : run[w].topic[q] # NoTopic /\ bucket = BucketOf(w, q)
        BY <3>1 DEF AllBuckets, Enriched
      <3>. QED BY <2>3, <3>2 DEF BucketOf
    <2>4. Held(run'[w]) => Held(run[w])
      BY <2>1, <2>2, <2>3 DEF Held
    <2>. QED BY <1>k, <1>v, <2>1, <2>4
  <1>5. CASE \E bucket \in run[w].buckets, answer \in Answers : ClusterJudge(w, bucket, answer)
    <2>. PICK bucket \in run[w].buckets, answer \in Answers : ClusterJudge(w, bucket, answer)
      BY <1>5
    <2>1. /\ run'[w].topic = run[w].topic
          /\ run'[w].buckets = run[w].buckets \ {bucket}
          /\ run'[w].cards = run[w].cards \cup KeptCards(answer, bucket)
          /\ run'[w].card = run[w].card
          /\ run'[w].view = run[w].view
          /\ UNCHANGED <<candidate_signals, write_lock>>
      BY <1>0 DEF ClusterJudge, tables, RunStates
    <2>2. \A card \in KeptCards(answer, bucket) : card.signals \subseteq bucket
      BY KeptCardsType
    <2>3. Held(run'[w]) => Held(run[w])
      BY <2>1, <2>2 DEF Held
    <2>. QED BY <1>k, <1>v, <2>1, <2>3
  <1>6. CASE ClusterJudged(w)
    <2>1. /\ run'[w].topic = run[w].topic /\ run'[w].buckets = run[w].buckets
          /\ run'[w].cards = run[w].cards /\ run'[w].card = run[w].card
          /\ run'[w].view = run[w].view
          /\ UNCHANGED <<candidate_signals, write_lock>>
      BY <1>0, <1>6 DEF ClusterJudged, tables, RunStates
    <2>2. Held(run'[w]) = Held(run[w])
      BY <2>1 DEF Held
    <2>. QED BY <1>k, <1>v, <2>1, <2>2
  <1>7. CASE PersistLookup(w)
    <2>1. PICK card \in run[w].cards :
             LET picked == [run[w] EXCEPT !.cards = @ \ {card}, !.card = card]
             IN  \/ run'[w] = [picked EXCEPT !.pc = "insert"]
                 \/ \E c \in CandidateIds :
                      run'[w] = [picked EXCEPT !.pc = "link", !.target = c]
      BY <1>0, <1>7 DEF PersistLookup
    <2>2. /\ run'[w].topic = run[w].topic /\ run'[w].buckets = run[w].buckets
          /\ run'[w].cards = run[w].cards \ {card} /\ run'[w].card = card
          /\ run'[w].view = run[w].view
      BY <1>0, <2>1 DEF RunStates
    <2>3. Held(run'[w]) => Held(run[w])
      BY <2>2 DEF Held
    <2>. QED BY <1>7, <1>k, <1>v, <2>2, <2>3 DEF PersistLookup, tables
  <1>8. CASE PersistInsert(w)
    <2>1. /\ run'[w].topic = run[w].topic /\ run'[w].buckets = run[w].buckets
          /\ run'[w].cards = run[w].cards /\ run'[w].card = run[w].card
          /\ run'[w].view.candidate_signals = VisibleLinks(w)
          /\ InTransaction(w)'
      BY <1>0, <1>8 DEF PersistInsert, RunStates, InTransaction
    <2>2. Held(run'[w]) = Held(run[w])
      BY <2>1 DEF Held
    <2>3. Sees' => Sees
      BY <2>1 DEF Sees, VisibleLinks
    <2>. QED BY <1>k, <2>2, <2>3
  <1>9. CASE PersistLink(w)
    <2>. DEFINE linked(q) == [run[w] EXCEPT !.card.signals = @ \ {q}]
                link(q) == <<run[w].target, q>>
                noted(q) == [linked(q) EXCEPT !.view.candidate_signals = @ \cup {link(q)}]
    <2>1. PICK q \in run[w].card.signals :
             \/ run'[w] = linked(q) /\ UNCHANGED candidate_signals
             \/ run'[w] = noted(q) /\ UNCHANGED candidate_signals /\ InTransaction(w)
             \/ /\ run'[w] = linked(q)
                /\ candidate_signals' = candidate_signals \cup {link(q)}
                /\ ~InTransaction(w)
      BY <1>0, <1>9 DEF PersistLink, NoOpenTransaction, InTransaction
    <2>2. /\ linked(q).topic = run[w].topic /\ linked(q).buckets = run[w].buckets
          /\ linked(q).cards = run[w].cards
          /\ linked(q).card.signals = run[w].card.signals \ {q}
          /\ linked(q).view = run[w].view
      BY <1>0 DEF RunStates, Cards, NoCard
    <2>3. /\ noted(q).topic = linked(q).topic /\ noted(q).buckets = linked(q).buckets
          /\ noted(q).cards = linked(q).cards /\ noted(q).card = linked(q).card
          /\ noted(q).view.candidate_signals = run[w].view.candidate_signals \cup {link(q)}
      BY <1>0 DEF RunStates, View
    <2>4. UNCHANGED write_lock
      BY <1>9 DEF PersistLink
    <2>. HIDE DEF linked, noted
    <2>5. Held(run'[w]) => Held(run[w])
      BY <2>1, <2>2, <2>3 DEF Held
    <2>6. VisibleLinks(w)' \subseteq VisibleLinks(w) \cup {link(q)}
      BY <2>1, <2>2, <2>3, <2>4 DEF VisibleLinks, InTransaction
    <2>7. Sees' => Sees \/ r = q
      BY <2>6 DEF Sees
    <2>8. r = q => Held(run[w])
      BY <2>1 DEF Held
    <2>. QED BY <1>k, <2>5, <2>7, <2>8
  <1>10. CASE PersistNextCard(w)
    <2>1. /\ run'[w].topic = run[w].topic /\ run'[w].buckets = run[w].buckets
          /\ run'[w].cards = run[w].cards /\ run'[w].card = NoCard
          /\ run'[w].view = run[w].view
          /\ UNCHANGED <<candidate_signals, write_lock>>
      BY <1>0, <1>10 DEF PersistNextCard, tables, RunStates
    <2>2. Held(run'[w]) => Held(run[w])
      BY <2>1 DEF Held, NoCard
    <2>. QED BY <1>k, <1>v, <2>1, <2>2
  <1>11. CASE PersistCommit(w)
    <2>1. /\ run'[w] = RunIdle /\ ~InTransaction(w)'
          /\ candidate_signals' = VisibleLinks(w)
      BY <1>0, <1>11 DEF PersistCommit, InTransaction
    <2>2. Sees' => Sees
      BY <2>1 DEF Sees, VisibleLinks
    <2>. QED BY <1>i, <1>k, <2>1, <2>2
  <1>12. CASE ClusterFail(w)
    <2>1. run'[w] = RunIdle /\ ~InTransaction(w)' /\ candidate_signals' = candidate_signals
      BY <1>0, <1>12 DEF ClusterFail, InTransaction
    <2>. QED BY <1>e, <1>i, <1>k, <2>1
  <1>13. CASE LinkCollides(w)
    <2>1. /\ run'[w].topic = run[w].topic /\ run'[w].buckets = run[w].buckets
          /\ run'[w].cards = run[w].cards
          /\ run'[w].view.candidate_signals = candidate_signals
          /\ InTransaction(w)'
      BY <1>0, <1>13 DEF LinkCollides, RunStates, InTransaction
    <2>2. run'[w].card.signals \subseteq run[w].card.signals
      BY <1>0, <1>13 DEF LinkCollides, RunStates, Cards, NoCard
    <2>3. Held(run'[w]) => Held(run[w])
      BY <2>1, <2>2 DEF Held
    <2>4. Sees' => Linked(r)
      BY <2>1 DEF Sees, VisibleLinks, Linked
    <2>. QED BY <1>k, <2>3, <2>4
  <1>. QED BY <1>1, <1>2, <1>3, <1>4, <1>5, <1>6, <1>7, <1>8, <1>9, <1>10, <1>11, <1>12, <1>13
           DEF ClusterStep

\* A step of a run asks about fewer signals, except for the one that loads them; it marks
\* only a signal it asks about, and links only signals it knows.
LEMMA AsksLess ==
    ASSUME SafeInv, NEW w \in ClusterRuns, ClusterStep(w) \/ ClusterFail(w),
           run[w].pc # "prepass" => run[w].loaded = {}
    PROVE  /\ \/ run'[w].loaded \subseteq run[w].loaded
              \/ run'[w].loaded \subseteq Unclustered /\ ClusterLoad(w)
           /\ run'[w].pc # "prepass" => run'[w].loaded = {}
           /\ \/ UNCHANGED signal_text
              \/ \E r \in run[w].loaded \ run'[w].loaded :
                    /\ signal_text' = [signal_text EXCEPT ![r] = "low"]
                    /\ UNCHANGED candidate_signals
           /\ \A link \in candidate_signals' :
                 link \in candidate_signals \/ Knows(w, link[2])
  <1>0. run \in [ClusterRuns -> RunStates] /\ run[w] \in RunStates
    BY DEF SafeInv, TypeInv, TypeOK, RunTypeOK
  <1>. DEFINE Goal ==
           /\ \/ run'[w].loaded \subseteq run[w].loaded
              \/ run'[w].loaded \subseteq Unclustered /\ ClusterLoad(w)
           /\ run'[w].pc # "prepass" => run'[w].loaded = {}
           /\ \/ UNCHANGED signal_text
              \/ \E r \in run[w].loaded \ run'[w].loaded :
                    /\ signal_text' = [signal_text EXCEPT ![r] = "low"]
                    /\ UNCHANGED candidate_signals
           /\ \A link \in candidate_signals' :
                 link \in candidate_signals \/ Knows(w, link[2])
  <1>a. ASSUME UNCHANGED <<signal_text, candidate_signals>>,
               run'[w].loaded = {} \/ run'[w].pc = "prepass",
               run'[w].loaded \subseteq run[w].loaded
        PROVE  Goal
    BY <1>a
  <1>. SUFFICES Goal OBVIOUS
  <1>. HIDE DEF Goal
  <1>1. CASE ClusterLoad(w)
    <2>1. run'[w].pc = "prepass" /\ run'[w].loaded \subseteq Unclustered
      BY <1>0, <1>1 DEF ClusterLoad, FirstSignals, RunIdle
    <2>. QED BY <1>1, <2>1 DEF ClusterLoad, tables, Goal
  <1>2. CASE \E r \in RawIds : HaikuNull(w, r)
    <2>. PICK r \in RawIds : HaikuNull(w, r) BY <1>2
    <2>1. /\ r \in run[w].loaded /\ run'[w].loaded = run[w].loaded \ {r}
          /\ run'[w].pc = "prepass"
          /\ signal_text' = [signal_text EXCEPT ![r] = "low"]
          /\ UNCHANGED candidate_signals
      BY <1>0 DEF HaikuNull, PrepassSignal, RunStates
    <2>. QED BY <2>1 DEF Goal
  <1>3. CASE \E r \in RawIds, topic \in Topics : HaikuComplaint(w, r, topic)
    BY <1>0, <1>3, <1>a DEF HaikuComplaint, PrepassSignal, RunStates, tables
  <1>4. CASE ClusterBucket(w)
    BY <1>0, <1>4, <1>a DEF ClusterBucket, RunStates, tables
  <1>5. CASE \E bucket \in run[w].buckets, answer \in Answers : ClusterJudge(w, bucket, answer)
    BY <1>0, <1>5, <1>a DEF ClusterJudge, RunStates, tables
  <1>6. CASE ClusterJudged(w)
    BY <1>0, <1>6, <1>a DEF ClusterJudged, RunStates, tables
  <1>7. CASE PersistLookup(w)
    <2>1. PICK card \in run[w].cards :
             LET picked == [run[w] EXCEPT !.cards = @ \ {card}, !.card = card]
             IN  \/ run'[w] = [picked EXCEPT !.pc = "insert"]
                 \/ \E c \in CandidateIds :
                      run'[w] = [picked EXCEPT !.pc = "link", !.target = c]
      BY <1>0, <1>7 DEF PersistLookup
    <2>2. run'[w].loaded = run[w].loaded
      BY <1>0, <2>1 DEF RunStates
    <2>. QED BY <1>7, <1>a, <2>2 DEF PersistLookup, tables
  <1>8. CASE PersistInsert(w)
    BY <1>0, <1>8, <1>a DEF PersistInsert, RunStates
  <1>9. CASE PersistLink(w)
    <2>1. PICK r \in run[w].card.signals :
             LET linked == [run[w] EXCEPT !.card.signals = @ \ {r}]
                 link == <<run[w].target, r>>
             IN  /\ \/ run'[w] = linked
                    \/ run'[w] = [linked EXCEPT !.view.candidate_signals = @ \cup {link}]
                 /\ \/ UNCHANGED candidate_signals
                    \/ candidate_signals' = candidate_signals \cup {link}
      BY <1>0, <1>9 DEF PersistLink
    <2>2. run'[w].loaded = run[w].loaded
      BY <1>0, <2>1 DEF RunStates
    <2>3. run[w].pc = "link" /\ UNCHANGED signal_text
      BY <1>9 DEF PersistLink
    <2>4. Knows(w, r)
      BY <2>1 DEF Knows
    <2>5. \A link \in candidate_signals' : link \in candidate_signals \/ link[2] = r
      BY <2>1
    <2>. QED BY <2>2, <2>3, <2>4, <2>5 DEF Goal
  <1>10. CASE PersistNextCard(w)
    BY <1>0, <1>10, <1>a DEF PersistNextCard, RunStates, tables
  <1>11. CASE PersistCommit(w)
    <2>1. /\ run'[w].loaded = {} /\ UNCHANGED signal_text
          /\ candidate_signals' = VisibleLinks(w)
      BY <1>0, <1>11 DEF PersistCommit, RunIdle
    <2>2. VisibleLinks(w) \subseteq CandidateIds \X RawIds
      BY VisibleTypes DEF SafeInv
    <2>3. \A link \in VisibleLinks(w) : Knows(w, link[2])
      BY <2>2 DEF Knows
    <2>. QED BY <2>1, <2>3 DEF Goal
  <1>12. CASE ClusterFail(w)
    BY <1>0, <1>12, <1>a DEF ClusterFail, RunIdle
  <1>13. CASE LinkCollides(w)
    BY <1>0, <1>13, <1>a DEF LinkCollides, RunStates
  <1>. QED BY <1>1, <1>2, <1>3, <1>4, <1>5, <1>6, <1>7, <1>8, <1>9, <1>10, <1>11, <1>12, <1>13
           DEF ClusterStep

\* What the single run does keeps it.
LEMMA KnowledgeCluster ==
    ASSUME OneRun, KnowledgeInv, MarksInv', SafeInv', ClusterNext
    PROVE  KnowledgeInv'
  <1>. PICK w \in ClusterRuns : ClusterStep(w) \/ ClusterFail(w)
    BY DEF ClusterNext
  <1>0. /\ signal_text \in [RawIds -> {"none", "low", "open"}]
        /\ candidate_signals \subseteq CandidateIds \X RawIds
        /\ candidate_signals' \subseteq CandidateIds \X RawIds
        /\ run[w].loaded \subseteq RawIds
        /\ \A v \in ClusterRuns : v = w
        /\ SafeInv
    BY DEF KnowledgeInv, SafeInv, TypeInv, TypeOK, RunTypeOK, RunStates, OneRun
  <1>k. /\ \A r \in RawIds : Knows(w, r) => signal_text[r] = "open"
        /\ \A r \in run[w].loaded : signal_text[r] = "open" /\ ~Knows(w, r)
        /\ run[w].pc # "prepass" => run[w].loaded = {}
        /\ \A link \in candidate_signals : signal_text[link[2]] = "open"
    BY DEF KnowledgeInv, LinkedAreClusterable
  <1>1. /\ \/ run'[w].loaded \subseteq run[w].loaded
           \/ run'[w].loaded \subseteq Unclustered /\ ClusterLoad(w)
        /\ run'[w].pc # "prepass" => run'[w].loaded = {}
        /\ \/ UNCHANGED signal_text
           \/ \E r \in run[w].loaded \ run'[w].loaded :
                 /\ signal_text' = [signal_text EXCEPT ![r] = "low"]
                 /\ UNCHANGED candidate_signals
        /\ \A link \in candidate_signals' :
              link \in candidate_signals \/ Knows(w, link[2])
    BY <1>0, <1>k, AsksLess
  <1>2. \A r \in RawIds : Knows(w, r)' =>
           \/ Knows(w, r)
           \/ Linked(r)
           \/ r \in run[w].loaded /\ r \notin run'[w].loaded /\ UNCHANGED signal_text
    BY <1>0, KnowsStep
  \* While it asks, the run sees the committed links, so what is linked it knows.
  <1>3. \A r \in run[w].loaded : ~Linked(r)
    <2>. SUFFICES ASSUME NEW r \in run[w].loaded, Linked(r) PROVE FALSE
      OBVIOUS
    <2>1. run[w].pc = "prepass"
      BY <1>k
    <2>2. VisibleLinks(w) = candidate_signals
      BY <1>0, <2>1 DEF SafeInv, ViewExtends, VisibleLinks
    <2>. QED BY <1>k, <2>2 DEF Linked, Knows
  <1>4. \A r \in RawIds : Linked(r) => signal_text[r] = "open"
    BY <1>k DEF Linked
  <1>5. \A r \in RawIds : Knows(w, r) \/ Linked(r) => signal_text'[r] = "open"
    BY <1>0, <1>1, <1>3, <1>4, <1>k
  <1>6. \A r \in RawIds : Knows(w, r)' => signal_text'[r] = "open"
    BY <1>2, <1>5, <1>k
  <1>7. LinkedAreClusterable'
    <2>. SUFFICES ASSUME NEW link \in candidate_signals'
                  PROVE  signal_text'[link[2]] = "open"
      BY DEF LinkedAreClusterable
    <2>1. link[1] \in CandidateIds /\ link[2] \in RawIds /\ link = <<link[1], link[2]>>
      BY <1>0
    <2>2. Knows(w, link[2]) \/ Linked(link[2])
      BY <1>1, <2>1 DEF Linked
    <2>. QED BY <1>5, <2>1, <2>2
  <1>8. \A r \in run'[w].loaded : signal_text'[r] = "open" /\ ~Knows(w, r)'
    <2>. SUFFICES ASSUME NEW r \in run'[w].loaded
                  PROVE  signal_text'[r] = "open" /\ ~Knows(w, r)'
      OBVIOUS
    <2>1. CASE r \in run[w].loaded
      BY <1>0, <1>1, <1>2, <1>3, <1>k, <2>1
    <2>2. CASE r \in Unclustered /\ ClusterLoad(w)
      <3>0. /\ r \in RawIds /\ signal_text[r] = "open" /\ r \notin LinkedSignals(candidate_signals)
            /\ UNCHANGED <<signal_text, candidate_signals, write_lock>>
        BY <2>2 DEF Unclustered, ClusterLoad, tables
      <3>1. ~Linked(r)
        <4>1. \A c \in CandidateIds :
                 <<c, r>> \in candidate_signals => <<c, r>>[2] \in LinkedSignals(candidate_signals)
          BY DEF LinkedSignals
        <4>. QED BY <3>0, <4>1 DEF Linked
      <3>2. ~InTransaction(w)' /\ run'[w] = [RunIdle EXCEPT !.pc = "prepass",
                                              !.loaded = FirstSignals(Unclustered, MaxSignals)]
        BY <1>0, <2>2
           DEF ClusterLoad, tables, SafeInv, ViewExtends, InTransaction, TypeInv, TypeOK, RunTypeOK
      <3>3. ~Knows(w, r)'
        BY <3>0, <3>1, <3>2 DEF Knows, VisibleLinks, Linked, RunIdle, NoCard
      <3>. QED BY <3>0, <3>3
    <2>. QED BY <1>1, <2>1, <2>2
  <1>. QED BY <1>0, <1>1, <1>6, <1>7, <1>8 DEF KnowledgeInv

\* Steps of the others, which leave the run's locals alone, link no signal that was not
\* linked and close no signal that was open.
LEMMA KnowledgeQuiet ==
    ASSUME KnowledgeInv, MarksInv', SafeInv', UNCHANGED <<run, write_lock>>,
           \A r \in RawIds : signal_text[r] = "open" => signal_text'[r] = "open",
           \A r \in RawIds : Linked(r)' => Linked(r)
    PROVE  KnowledgeInv'
  <1>0. /\ candidate_signals \subseteq CandidateIds \X RawIds
        /\ candidate_signals' \subseteq CandidateIds \X RawIds
        /\ \A w \in ClusterRuns : run[w].loaded \subseteq RawIds
    BY DEF KnowledgeInv, SafeInv, TypeInv, TypeOK, RunTypeOK, RunStates
  <1>1. ASSUME NEW w \in ClusterRuns, NEW r \in RawIds, Knows(w, r)' PROVE Knows(w, r)
    <2>1. CASE \E c \in CandidateIds : <<c, r>> \in VisibleLinks(w)'
      <3>1. CASE InTransaction(w)
        BY <2>1, <3>1 DEF Knows, VisibleLinks, InTransaction
      <3>2. CASE ~InTransaction(w)
        <4>1. Linked(r)
          BY <2>1, <3>2 DEF VisibleLinks, InTransaction, Linked
        <4>. QED BY <3>2, <4>1 DEF Knows, VisibleLinks, Linked
      <3>. QED BY <3>1, <3>2
    <2>. QED BY <1>1, <2>1 DEF Knows
  <1>2. LinkedAreClusterable'
    <2>. SUFFICES ASSUME NEW link \in candidate_signals'
                  PROVE  signal_text'[link[2]] = "open"
      BY DEF LinkedAreClusterable
    <2>1. link[1] \in CandidateIds /\ link[2] \in RawIds /\ link = <<link[1], link[2]>>
      BY <1>0
    <2>2. Linked(link[2])
      BY <2>1 DEF Linked
    <2>3. PICK c \in CandidateIds : <<c, link[2]>> \in candidate_signals
      BY <2>2 DEF Linked
    <2>. QED BY <2>1, <2>3 DEF KnowledgeInv, LinkedAreClusterable
  <1>. QED BY <1>0, <1>1, <1>2 DEF KnowledgeInv

\* Every step of the system keeps it.
LEMMA KnowledgeStep == OnlyNew /\ OneRun /\ KnowledgeInv /\ [Next]_vars => KnowledgeInv'
  <1>. SUFFICES ASSUME OnlyNew, OneRun, KnowledgeInv, [Next]_vars PROVE KnowledgeInv'
    OBVIOUS
  <1>1. MarksInv' /\ SafeInv'
    BY MarksStep, SafeStep DEF KnowledgeInv
  <1>2. ASSUME UNCHANGED <<run, write_lock, candidate_signals>>,
               \A r \in RawIds : signal_text[r] = "open" => signal_text'[r] = "open"
        PROVE  KnowledgeInv'
    BY <1>1, <1>2, KnowledgeQuiet DEF Linked
  <1>3. CASE UNCHANGED vars
    BY <1>2, <1>3 DEF vars, tables
  <1>4. CASE IngestRow /\ UNCHANGED run
    BY <1>2, <1>4 DEF IngestRow
  <1>5. CASE NormalizeNext /\ UNCHANGED run
    <2>1. UNCHANGED <<candidate_signals, write_lock>>
      BY <1>5 DEF NormalizeNext, NormalizeStart, NormalizeSelectBatch, NormalizeRow,
                  NormalizeCommitBatch, NormalizeFail, tables
    <2>2. \A r \in RawIds : signal_text[r] = "open" => signal_text'[r] = "open"
      BY <1>5, OpenKept DEF KnowledgeInv
    <2>. QED BY <1>2, <1>5, <2>1, <2>2
  <1>6. CASE ClusterNext
    BY <1>1, <1>6, KnowledgeCluster
  <1>7. CASE MergeNext /\ UNCHANGED run
    <2>1. CASE UNCHANGED tables
      BY <1>2, <1>7, <2>1 DEF tables
    <2>2. CASE ~UNCHANGED tables
      <3>1. PICK m \in Mergers, slug \in Slugs : MergeCommit(m, slug)
        BY <1>7, <2>2 DEF MergeNext, MergeBegin, MergeFail
      <3>2. PICK new \in CandidateIds : candidate_signals' = AfterRelink(merging[m], new)
        BY <3>1 DEF MergeCommit
      <3>3. UNCHANGED <<signal_text, write_lock>> /\ merging[m] \subseteq CandidateIds
        BY <3>1 DEF MergeCommit, KnowledgeInv, SafeInv, TypeInv, TypeOK, MergeTypeOK
      <3>4. ASSUME NEW r \in RawIds, Linked(r)' PROVE Linked(r)
        <4>1. PICK c \in CandidateIds : <<c, r>> \in AfterRelink(merging[m], new)
          BY <3>2, <3>4 DEF Linked
        <4>2. CASE <<c, r>> \in candidate_signals
          BY <4>2 DEF Linked
        <4>3. CASE r \in EvidenceOfAll(candidate_signals, merging[m])
          BY <3>3, <4>3 DEF EvidenceOfAll, Linked
        <4>. QED BY <4>1, <4>2, <4>3 DEF AfterRelink
      <3>. QED BY <1>1, <1>7, <3>3, <3>4, KnowledgeQuiet
    <2>. QED BY <2>1, <2>2
  <1>8. CASE InboxNext /\ UNCHANGED run
    BY <1>2, <1>8 DEF InboxNext, DecideLoad, DecideCommit, DecideFail, tables
  <1>9. CASE Crash
    <2>1. /\ UNCHANGED <<signal_text, candidate_signals>> /\ write_lock' = NoRun
          /\ \A w \in ClusterRuns : run'[w] = RunIdle
      BY <1>9 DEF Crash
    <2>2. candidate_signals \subseteq CandidateIds \X RawIds
      BY DEF KnowledgeInv, SafeInv, TypeInv, TypeOK
    <2>3. ASSUME NEW w \in ClusterRuns, NEW r \in RawIds, Knows(w, r)'
          PROVE  signal_text'[r] = "open"
      <3>1. VisibleLinks(w)' = candidate_signals
        BY <2>1, TablesAssumption DEF VisibleLinks, InTransaction
      <3>2. PICK c \in CandidateIds : <<c, r>> \in candidate_signals
        BY <2>1, <2>3, <3>1 DEF Knows, RunIdle, NoCard
      <3>. QED BY <2>1, <3>2 DEF KnowledgeInv, LinkedAreClusterable
    <2>4. \A w \in ClusterRuns : run'[w].loaded = {}
      BY <2>1 DEF RunIdle
    <2>5. LinkedAreClusterable'
      BY <2>1 DEF KnowledgeInv, LinkedAreClusterable
    <2>. QED BY <1>1, <2>3, <2>4, <2>5 DEF KnowledgeInv
  <1>. QED BY <1>3, <1>4, <1>5, <1>6, <1>7, <1>8, <1>9 DEF Next

\* With only_new and no second cluster run beside the first, every link is to a signal that
\* neither the extractor nor Haiku discarded, whatever ids Opus claims and whatever
\* merges, decisions, failures and crashes happen meanwhile.
THEOREM NothingDiscardedIsLinked ==
    ASSUME OnlyNew, OneRun
    PROVE  Spec => []LinkedAreClusterable
  <1>1. Init => KnowledgeInv
    <2>. SUFFICES ASSUME Init PROVE KnowledgeInv OBVIOUS
    <2>1. MarksInv /\ SafeInv
      BY PrefixInit, SafeInit DEF MarksInv, UntouchedAhead, Init, NoRequests, NormIdle
    <2>2. /\ candidate_signals = {} /\ write_lock = NoRun
          /\ \A w \in ClusterRuns : run[w] = RunIdle
      BY DEF Init, TablesInit, NoRequests
    <2>3. \A w \in ClusterRuns, r \in RawIds : ~Knows(w, r)
      <3>. SUFFICES ASSUME NEW w \in ClusterRuns, NEW r \in RawIds PROVE ~Knows(w, r)
        OBVIOUS
      <3>1. VisibleLinks(w) = {}
        BY <2>2, TablesAssumption DEF VisibleLinks, InTransaction
      <3>2. /\ RunIdle.topic[r] = NoTopic /\ RunIdle.buckets = {} /\ RunIdle.cards = {}
            /\ RunIdle.card.signals = {}
        BY DEF RunIdle, NoCard
      <3>. QED BY <2>2, <3>1, <3>2 DEF Knows
    <2>4. \A w \in ClusterRuns : run[w].loaded = {}
      BY <2>2 DEF RunIdle
    <2>. QED BY <2>1, <2>2, <2>3, <2>4 DEF KnowledgeInv, LinkedAreClusterable
  <1>2. KnowledgeInv => LinkedAreClusterable
    BY DEF KnowledgeInv
  <1>. QED BY <1>1, <1>2, KnowledgeStep, PTL DEF Spec
===========================================================================
