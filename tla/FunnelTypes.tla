---------------------------- MODULE FunnelTypes ----------------------------
(***************************************************************************)
(* Proof that Funnel's type invariant holds for every value of the         *)
(* constants, one lemma per component.                                     *)
(***************************************************************************)
EXTENDS Funnel, TLAPS

\* A batch being walked lies inside the table.
NormInBounds == norm.pc = "rows" => norm.last <= raw_signals

\* A run that links a card's evidence has the candidate to link it to.
RunLocals == {locals \in RunStates : locals.pc = "link" => locals.target # Null}
LinkHasTarget == \A w \in ClusterRuns : run[w] \in RunLocals

TypeInv == TypeOK /\ NormInBounds /\ LinkHasTarget

TablesTypeOK ==
    /\ raw_signals \in 0 .. MaxRaw
    /\ signal_text \in [RawIds -> {"none", "low", "open"}]
    /\ candidates \in [CandidateIds -> CandidateRows]
    /\ candidate_signals \subseteq CandidateIds \X RawIds
    /\ approvals \in Seq(Approvals)
    /\ write_lock \in ClusterRuns \cup {NoRun}

\* The initial locals and rows have their types.
LEMMA IdleTypes ==
    /\ NormIdle.pc = "idle"
    /\ norm = NormIdle => NormTypeOK
    /\ NoCandidate \in CandidateRows
    /\ RunIdle.topic \in [RawIds -> Topics \cup {NoTopic}]
    /\ NoView \in View
    /\ RunIdle \in RunLocals
  <1>1. NormIdle.pc = "idle" BY DEF NormIdle
  <1>2. norm = NormIdle => NormTypeOK BY DEF NormIdle, NormTypeOK
  <1>3. NoCandidate \in CandidateRows
    BY DEF NoCandidate, CandidateRows, DedupKeys, ClusterKey, Decisions
  <1>4. RunIdle.topic \in [RawIds -> Topics \cup {NoTopic}] BY DEF RunIdle
  <1>5. NoView \in View BY <1>3 DEF NoView, View
  <1>6. RunIdle \in RunLocals BY <1>4, <1>5 DEF RunIdle, RunStates, RunLocals
  <1>. QED BY <1>1, <1>2, <1>3, <1>4, <1>5, <1>6

\* The initial values have their types.
LEMMA TypeInit == Init => TypeInv
  <1>. SUFFICES ASSUME Init PROVE TypeInv OBVIOUS
  <1>. USE DEF Init, TablesInit, NoRequests
  <1>1. TablesTypeOK
    BY IdleTypes, TablesAssumption DEF TablesTypeOK
  <1>2. NormTypeOK /\ NormInBounds
    BY IdleTypes DEF NormInBounds
  <1>3. RunTypeOK /\ LinkHasTarget
    BY IdleTypes DEF RunTypeOK, LinkHasTarget, RunLocals
  <1>4. MergeTypeOK /\ InboxTypeOK
    BY DEF MergeTypeOK, InboxTypeOK, NotDeciding, Requests, Decisions, Verdicts
  <1>. QED BY <1>1, <1>2, <1>3, <1>4 DEF TypeInv, TypeOK, TablesTypeOK

\* A row that arrives keeps the types.
LEMMA TypeIngest ==
    ASSUME TypeInv, IngestRow, UNCHANGED <<norm, run, merging, deciding>>
    PROVE  TypeInv'
  <1>1. TablesTypeOK'
    BY TablesAssumption DEF TypeInv, TypeOK, TablesTypeOK, IngestRow
  <1>2. (NormTypeOK /\ NormInBounds)'
    BY TablesAssumption DEF TypeInv, TypeOK, NormTypeOK, NormInBounds, IngestRow
  <1>3. (RunTypeOK /\ LinkHasTarget /\ MergeTypeOK /\ InboxTypeOK)'
    BY DEF TypeInv, TypeOK, RunTypeOK, LinkHasTarget, MergeTypeOK, InboxTypeOK
  <1>. QED BY <1>1, <1>2, <1>3 DEF TypeInv, TypeOK, TablesTypeOK

\* The normalizer keeps the types and its positions within what is ingested.
LEMMA TypeNormalize ==
    ASSUME TypeInv, NormalizeNext, UNCHANGED <<run, merging, deciding>>
    PROVE  TypeInv'
  <1>. USE TablesAssumption, NormalizeAssumption
  <1>1. (RunTypeOK /\ LinkHasTarget /\ MergeTypeOK /\ InboxTypeOK)'
    BY DEF TypeInv, TypeOK, RunTypeOK, LinkHasTarget, MergeTypeOK, InboxTypeOK
  <1>2. SUFFICES (TablesTypeOK /\ NormTypeOK /\ NormInBounds)'
    BY <1>1 DEF TypeInv, TypeOK, TablesTypeOK
  <1>3. TablesTypeOK /\ NormTypeOK /\ NormInBounds
    BY DEF TypeInv, TypeOK, TablesTypeOK
  <1>4. ASSUME UNCHANGED tables PROVE TablesTypeOK'
    BY <1>3, <1>4 DEF tables, TablesTypeOK
  <1>5. ASSUME norm' = NormIdle PROVE (NormTypeOK /\ NormInBounds)'
    BY <1>5 DEF NormIdle, NormTypeOK, NormInBounds
  <1>6. CASE NormalizeStart
    <2>1. PICK E \in SUBSET RawIds :
              norm' = [NormIdle EXCEPT !.pc = "select", !.existing = E]
      BY <1>6 DEF NormalizeStart
    <2>2. (NormTypeOK /\ NormInBounds)'
      BY <2>1 DEF NormIdle, NormTypeOK, NormInBounds
    <2>. QED BY <1>4, <1>6, <2>2 DEF NormalizeStart
  <1>7. CASE NormalizeSelectBatch
    <2>. DEFINE end == IF raw_signals < norm.offset + BatchSize THEN raw_signals
                                                             ELSE norm.offset + BatchSize
    <2>1. end \in Nat /\ end <= raw_signals
      BY <1>3 DEF NormTypeOK, TablesTypeOK
    <2>2. CASE end = norm.offset
      BY <1>4, <1>5, <1>7, <2>2 DEF NormalizeSelectBatch
    <2>3. CASE end # norm.offset
      <3>1. norm' = [norm EXCEPT !.pc = "rows", !.last = end, !.at = norm.offset]
        BY <1>7, <2>3 DEF NormalizeSelectBatch
      <3>. HIDE DEF end
      <3>. QED BY <1>3, <1>4, <1>7, <2>1, <3>1
               DEF NormalizeSelectBatch, NormTypeOK, NormInBounds, tables
    <2>. QED BY <2>2, <2>3
  <1>8. CASE NormalizeRow
    <2>. DEFINE r == norm.at + 1
                upsert == [raw |-> r, loaded |-> signal_text[r], flag |-> ExtractedFlag(r)]
    <2>1. r \in RawIds /\ r \in Nat
      BY <1>3, <1>8 DEF NormalizeRow, NormTypeOK, NormInBounds, TablesTypeOK, RawIds
    <2>2. upsert \in Upserts
      BY <1>3, <2>1 DEF Upserts, ExtractedFlag, TablesTypeOK
    <2>3. NormTypeOK'
      BY <1>3, <1>8, <2>1, <2>2 DEF NormalizeRow, NormTypeOK
    <2>4. NormInBounds'
      BY <1>3, <1>8 DEF NormalizeRow, NormTypeOK, NormInBounds, tables
    <2>. QED BY <1>4, <1>8, <2>3, <2>4 DEF NormalizeRow
  <1>9. CASE NormalizeCommitBatch
    <2>1. AfterUpserts(norm.pending) \in [RawIds -> {"none", "low", "open"}]
      BY <1>3 DEF AfterUpserts, ExtractedFlag, TablesTypeOK
    <2>2. TablesTypeOK'
      BY <1>3, <1>9, <2>1 DEF NormalizeCommitBatch, TablesTypeOK
    <2>3. (NormTypeOK /\ NormInBounds)'
      BY <1>3, <1>5, <1>9 DEF NormalizeCommitBatch, NormTypeOK, NormInBounds
    <2>. QED BY <2>2, <2>3
  <1>10. CASE NormalizeFail
    BY <1>4, <1>5, <1>10 DEF NormalizeFail
  <1>. QED BY <1>6, <1>7, <1>8, <1>9, <1>10 DEF NormalizeNext

\* What a cluster run reads has the type of the tables.
LEMMA VisibleTypes ==
    ASSUME TypeInv, NEW w \in ClusterRuns
    PROVE  /\ VisibleCandidates(w) \in [CandidateIds -> CandidateRows]
           /\ VisibleLinks(w) \in SUBSET (CandidateIds \X RawIds)
           /\ run[w] \in RunLocals
  <1>1. run[w] \in RunLocals BY DEF TypeInv, LinkHasTarget
  <1>2. run[w].view \in View BY <1>1 DEF RunLocals, RunStates
  <1>. QED BY <1>1, <1>2 DEF VisibleCandidates, VisibleLinks, View, TypeInv, TypeOK, LinkHasTarget

\* The keys and rows that are inserted have their types.
LEMMA NewRowTypes ==
    /\ \A key \in DedupKeys : NewCandidate(key) \in CandidateRows
    /\ \A slug \in Slugs : ClusterKey(slug) \in DedupKeys
    /\ \A ids \in SUBSET CandidateIds, slug \in Slugs : MergedKey(ids, slug) \in DedupKeys
  BY DEF NewCandidate, CandidateRows, DedupKeys, ClusterKey, MergedKey, Decisions

\* A step of one cluster run keeps the types when its locals and its writes do.
LEMMA TypeRun ==
    ASSUME TypeInv, NEW w \in ClusterRuns, NEW locals \in RunLocals,
           run' = [run EXCEPT ![w] = locals],
           UNCHANGED <<raw_signals, approvals, norm, merging, deciding>>,
           signal_text' \in [RawIds -> {"none", "low", "open"}],
           candidates' \in [CandidateIds -> CandidateRows],
           candidate_signals' \in SUBSET (CandidateIds \X RawIds),
           write_lock' \in ClusterRuns \cup {NoRun}
    PROVE  TypeInv'
  <1>1. TablesTypeOK'
    BY DEF TypeInv, TypeOK, TablesTypeOK
  <1>2. (NormTypeOK /\ NormInBounds)'
    BY DEF TypeInv, TypeOK, NormTypeOK, NormInBounds
  <1>3. (RunTypeOK /\ LinkHasTarget)'
    BY DEF TypeInv, TypeOK, RunTypeOK, LinkHasTarget, RunLocals
  <1>4. (MergeTypeOK /\ InboxTypeOK)'
    BY DEF TypeInv, TypeOK, MergeTypeOK, InboxTypeOK
  <1>. QED BY <1>1, <1>2, <1>3, <1>4 DEF TypeInv, TypeOK, TablesTypeOK

\* The same for a step that writes no table.
LEMMA TypeRunOnly ==
    ASSUME TypeInv, NEW w \in ClusterRuns, NEW locals \in RunLocals,
           run' = [run EXCEPT ![w] = locals],
           UNCHANGED <<tables, norm, merging, deciding>>
    PROVE  TypeInv'
  BY TypeRun DEF TypeInv, TypeOK, tables

\* A card that is kept is a card whose evidence lies in its bucket.
LEMMA KeptCardsType ==
    ASSUME NEW answer \in Answers, NEW bucket
    PROVE  \A card \in KeptCards(answer, bucket) :
              card \in Cards /\ card.signals # {} /\ card.signals \subseteq bucket
  <1>. SUFFICES ASSUME NEW claimed \in Cards \cup {NoCard},
                       HasEvidence(Contributing(claimed, bucket))
                PROVE  LET card == Contributing(claimed, bucket)
                       IN  card \in Cards /\ card.signals # {} /\ card.signals \subseteq bucket
    BY DEF KeptCards, Answers
  <1>1. claimed # NoCard
    BY DEF HasEvidence, Contributing, NoCard
  <1>. QED BY <1>1 DEF HasEvidence, Contributing, Cards

\* A cluster run keeps the types, those of its view included.
LEMMA TypeCluster ==
    ASSUME TypeInv, ClusterNext, UNCHANGED <<norm, merging, deciding>>
    PROVE  TypeInv'
  <1>. USE TablesAssumption, ClusterAssumption
  <1>. PICK w \in ClusterRuns : ClusterStep(w) \/ ClusterFail(w)
    BY DEF ClusterNext
  <1>0. /\ VisibleCandidates(w) \in [CandidateIds -> CandidateRows]
        /\ VisibleLinks(w) \in SUBSET (CandidateIds \X RawIds)
        /\ run[w] \in RunLocals
    BY VisibleTypes
  <1>. DEFINE this == run[w]
  <1>n. \A c \in CandidateIds : c # Null
    BY DEF CandidateIds, Null
  <1>t. /\ TablesTypeOK
        /\ candidate_signals \in SUBSET (CandidateIds \X RawIds)
    BY DEF TypeInv, TypeOK, TablesTypeOK
  <1>1. CASE ClusterLoad(w)
    <2>. DEFINE first == FirstSignals(Unclustered, MaxSignals)
                new == [RunIdle EXCEPT !.pc = "prepass", !.loaded = first]
    <2>1. first \in SUBSET RawIds
      BY DEF FirstSignals, Unclustered
    <2>2. new \in RunLocals
      BY <2>1, IdleTypes DEF RunLocals, RunStates
    <2>3. run' = [run EXCEPT ![w] = new] /\ UNCHANGED tables
      BY <1>1 DEF ClusterLoad
    <2>. QED BY <2>2, <2>3, TypeRunOnly
  <1>2. CASE \E r \in RawIds : HaikuNull(w, r)
    <2>. PICK r \in RawIds : HaikuNull(w, r) BY <1>2
    <2>. DEFINE new == [this EXCEPT !.loaded = @ \ {r}]
    <2>1. new \in RunLocals
      BY <1>0 DEF RunLocals, RunStates
    <2>2. run' = [run EXCEPT ![w] = new]
      BY <1>0 DEF HaikuNull
    <2>3. signal_text' \in [RawIds -> {"none", "low", "open"}]
      BY <1>t DEF HaikuNull, TablesTypeOK
    <2>. QED BY <1>t, <2>1, <2>2, <2>3, TypeRun DEF HaikuNull, TablesTypeOK
  <1>3. CASE \E r \in RawIds, topic \in Topics : HaikuComplaint(w, r, topic)
    <2>. PICK r \in RawIds, topic \in Topics : HaikuComplaint(w, r, topic) BY <1>3
    <2>. DEFINE new == [this EXCEPT !.loaded = @ \ {r}, !.topic[r] = topic]
    <2>1. new \in RunLocals
      BY <1>0 DEF RunLocals, RunStates
    <2>2. run' = [run EXCEPT ![w] = new] /\ UNCHANGED tables
      BY DEF HaikuComplaint
    <2>. QED BY <2>1, <2>2, TypeRunOnly

  <1>4. CASE ClusterBucket(w)
    <2>. DEFINE largest == LargestBuckets(AllBuckets(w), MaxBuckets)
                new == [this EXCEPT !.pc = "judge", !.buckets = largest, !.topic = RunIdle.topic]
    <2>1. largest \in SUBSET SUBSET RawIds
      BY DEF LargestBuckets, AllBuckets, BucketOf
    <2>2. new \in RunLocals
      <3>. HIDE DEF largest
      <3>. QED BY <1>0, <2>1, IdleTypes DEF RunLocals, RunStates
    <2>3. run' = [run EXCEPT ![w] = new] /\ UNCHANGED tables
      BY <1>4 DEF ClusterBucket
    <2>. QED BY <2>2, <2>3, TypeRunOnly
  <1>5. CASE \E bucket \in run[w].buckets, answer \in Answers : ClusterJudge(w, bucket, answer)
    <2>. PICK bucket \in run[w].buckets, answer \in Answers : ClusterJudge(w, bucket, answer)
      BY <1>5
    <2>. DEFINE kept == KeptCards(answer, bucket)
                new == [this EXCEPT !.buckets = @ \ {bucket}, !.cards = @ \cup kept]
    <2>1. kept \in SUBSET Cards
      BY KeptCardsType
    <2>2. run' = [run EXCEPT ![w] = new] /\ UNCHANGED tables
      BY DEF ClusterJudge
    <2>3. new \in RunLocals
      <3>. HIDE DEF kept
      <3>. QED BY <1>0, <2>1 DEF RunLocals, RunStates
    <2>. QED BY <2>2, <2>3, TypeRunOnly
  <1>6. CASE ClusterJudged(w)
    <2>. DEFINE new == [this EXCEPT !.pc = "lookup"]
    <2>1. run' = [run EXCEPT ![w] = new] /\ UNCHANGED tables
      BY <1>6 DEF ClusterJudged
    <2>2. new \in RunLocals
      BY <1>0 DEF RunLocals, RunStates
    <2>. QED BY <2>1, <2>2, TypeRunOnly
  <1>7. CASE PersistLookup(w)
    <2>. USE DEF PersistLookup
    <2>u. UNCHANGED tables BY <1>7
    <2>1. PICK card \in this.cards :
             LET picked == [this EXCEPT !.cards = @ \ {card}, !.card = card]
             IN  \/ run' = [run EXCEPT ![w] = [picked EXCEPT !.pc = "insert"]]
                 \/ \E c \in CandidateIds :
                      run' = [run EXCEPT ![w] = [picked EXCEPT !.pc = "link", !.target = c]]
      BY <1>7, Zenon
    <2>. DEFINE picked == [this EXCEPT !.cards = @ \ {card}, !.card = card]
                inserting == [picked EXCEPT !.pc = "insert"]
                linking(c) == [picked EXCEPT !.pc = "link", !.target = c]
    <2>2. inserting \in RunLocals /\ \A c \in CandidateIds : linking(c) \in RunLocals
      BY <1>0, <1>n DEF RunLocals, RunStates
    <2>3. CASE run' = [run EXCEPT ![w] = inserting]
      BY <2>u, <2>2, <2>3, TypeRunOnly
    <2>4. ASSUME NEW c \in CandidateIds, run' = [run EXCEPT ![w] = linking(c)]
          PROVE  TypeInv'
      BY <2>u, <2>2, <2>4, TypeRunOnly
    <2>. QED BY <2>1, <2>3, <2>4
  <1>8. CASE PersistInsert(w)
    <2>. DEFINE key == ClusterKey(this.card.slug)
    <2>1. PICK id \in CandidateIds :
             run' = [run EXCEPT ![w] = [this EXCEPT !.pc = "link", !.target = id,
                !.view = [candidates |-> [VisibleCandidates(w) EXCEPT ![id] = NewCandidate(key)],
                          candidate_signals |-> VisibleLinks(w)]]]
      BY <1>8 DEF PersistInsert
    <2>. DEFINE view == [candidates |-> [VisibleCandidates(w) EXCEPT ![id] = NewCandidate(key)],
                         candidate_signals |-> VisibleLinks(w)]
                new == [this EXCEPT !.pc = "link", !.target = id, !.view = view]
    <2>2. key \in DedupKeys
      BY <1>0 DEF RunLocals, RunStates, Cards, NoCard, DedupKeys, ClusterKey
    <2>3. NewCandidate(key) \in CandidateRows
      BY <2>2, NewRowTypes
    <2>4. view \in View
      <3>. HIDE DEF key
      <3>. QED BY <1>0, <2>3 DEF View
    <2>5. new \in RunLocals
      <3>. HIDE DEF view
      <3>. QED BY <1>0, <1>n, <2>4 DEF RunLocals, RunStates
    <2>6. run' = [run EXCEPT ![w] = new]
      BY <2>1
    <2>7. TablesTypeOK'
      BY <1>t, <1>8 DEF PersistInsert, TablesTypeOK
    <2>. HIDE DEF new
    <2>. QED BY <1>8, <2>5, <2>6, <2>7, TypeRun DEF PersistInsert, TablesTypeOK
  <1>9. CASE PersistLink(w)
    <2>. USE DEF PersistLink
    <2>1. PICK r \in this.card.signals :
             LET link == <<this.target, r>>
                 linked == [this EXCEPT !.card.signals = @ \ {r}]
             IN  \/ /\ run' = [run EXCEPT ![w] = linked]
                    /\ UNCHANGED candidate_signals
                 \/ /\ run' = [run EXCEPT
                          ![w] = [linked EXCEPT !.view.candidate_signals = @ \cup {link}]]
                    /\ UNCHANGED candidate_signals
                 \/ /\ run' = [run EXCEPT ![w] = linked]
                    /\ candidate_signals' = candidate_signals \cup {link}
      BY <1>9, Zenon
    <2>. DEFINE linked == [this EXCEPT !.card.signals = @ \ {r}]
                link == <<this.target, r>>
                noted == [linked EXCEPT !.view.candidate_signals = @ \cup {link}]
    <2>2. linked \in RunLocals
      BY <1>0 DEF RunLocals, RunStates, Cards, NoCard
    <2>3. link \in CandidateIds \X RawIds
      BY <1>0, <1>9 DEF RunLocals, RunStates, Cards, NoCard
    <2>4. noted \in RunLocals
      <3>1. noted.view \in View
        <4>. HIDE DEF link
        <4>. QED BY <1>0, <2>3 DEF RunLocals, RunStates, View
      <3>2. noted = [linked EXCEPT !.view = noted.view]
        BY <2>2 DEF RunLocals, RunStates
      <3>. HIDE DEF noted, linked
      <3>. QED BY <2>2, <3>1, <3>2 DEF RunLocals, RunStates
    <2>5. UNCHANGED <<raw_signals, signal_text, candidates, approvals, write_lock>>
      BY <1>9
    <2>. HIDE DEF noted, linked, PersistLink
    <2>6. CASE run' = [run EXCEPT ![w] = noted] /\ UNCHANGED candidate_signals
      BY <1>t, <2>4, <2>5, <2>6, TypeRunOnly DEF tables
    <2>7. CASE run' = [run EXCEPT ![w] = linked] /\ UNCHANGED candidate_signals
      BY <1>t, <2>2, <2>5, <2>7, TypeRunOnly DEF tables
    <2>8. CASE run' = [run EXCEPT ![w] = linked]
               /\ candidate_signals' = candidate_signals \cup {link}
      <3>1. candidate_signals' \in SUBSET (CandidateIds \X RawIds)
        <4>. HIDE DEF link
        <4>. QED BY <1>t, <2>3, <2>8
      <3>. QED BY <1>t, <2>2, <2>5, <2>8, <3>1, TypeRun DEF TablesTypeOK
    <2>. QED BY <2>1, <2>6, <2>7, <2>8 DEF noted, linked
  <1>10. CASE PersistNextCard(w)
    <2>. DEFINE new == [this EXCEPT !.pc = "lookup", !.card = NoCard, !.target = Null]
    <2>1. run' = [run EXCEPT ![w] = new] /\ UNCHANGED tables
      BY <1>10 DEF PersistNextCard
    <2>2. new \in RunLocals
      BY <1>0 DEF RunLocals, RunStates
    <2>. QED BY <2>1, <2>2, TypeRunOnly
  <1>11. CASE PersistCommit(w)
    <2>. QED BY <1>0, <1>t, <1>11, IdleTypes, TypeRun DEF PersistCommit, TablesTypeOK
  <1>12. CASE ClusterFail(w)
    <2>. QED BY <1>0, <1>t, <1>12, IdleTypes, TypeRun DEF ClusterFail, TablesTypeOK
  <1>13. CASE LinkCollides(w)
    <2>1. PICK r \in this.card.signals :
             run' = [run EXCEPT ![w] = [this EXCEPT !.card.signals = @ \ {r},
                        !.view = [candidates |-> candidates,
                                  candidate_signals |-> candidate_signals]]]
      BY <1>13 DEF LinkCollides
    <2>. DEFINE view == [candidates |-> candidates, candidate_signals |-> candidate_signals]
                linked == [this EXCEPT !.card.signals = @ \ {r}]
                new == [linked EXCEPT !.view = view]
    <2>2. view \in View
      BY <1>t DEF TablesTypeOK, View
    <2>3. linked \in RunLocals
      BY <1>0 DEF RunLocals, RunStates, Cards, NoCard
    <2>4. new \in RunLocals
      <3>. HIDE DEF view, linked
      <3>. QED BY <2>2, <2>3 DEF RunLocals, RunStates
    <2>5. run' = [run EXCEPT ![w] = new]
      BY <2>1
    <2>6. TablesTypeOK'
      BY <1>t, <1>13 DEF LinkCollides, TablesTypeOK
    <2>. HIDE DEF new
    <2>. QED BY <1>13, <2>4, <2>5, <2>6, TypeRun DEF LinkCollides, TablesTypeOK
  <1>. QED BY <1>1, <1>2, <1>3, <1>4, <1>5, <1>6, <1>7, <1>8, <1>9, <1>10, <1>11, <1>12, <1>13
           DEF ClusterStep

\* What a merge leaves in the two tables it writes.
LEMMA MergeTypes ==
    ASSUME TypeInv, NEW ids \in SUBSET CandidateIds, NEW new \in CandidateIds, NEW slug \in Slugs
    PROVE  /\ AfterMerge(ids, new, MergedKey(ids, slug)) \in [CandidateIds -> CandidateRows]
           /\ AfterRelink(ids, new) \subseteq CandidateIds \X RawIds
  <1>1. NewCandidate(MergedKey(ids, slug)) \in CandidateRows
    BY NewRowTypes
  <1>2. ASSUME NEW c \in CandidateIds
        PROVE  [candidates[c] EXCEPT !.merged_into = new] \in CandidateRows
    BY DEF TypeInv, TypeOK, CandidateRows
  <1>3. AfterMerge(ids, new, MergedKey(ids, slug)) \in [CandidateIds -> CandidateRows]
    BY <1>1, <1>2 DEF AfterMerge, TypeInv, TypeOK
  <1>4. AfterRelink(ids, new) \subseteq CandidateIds \X RawIds
    BY DEF AfterRelink, EvidenceOfAll, TypeInv, TypeOK
  <1>. QED BY <1>3, <1>4

\* A merge keeps the types.
LEMMA TypeMerge ==
    ASSUME TypeInv, MergeNext, UNCHANGED <<norm, run, deciding>>
    PROVE  TypeInv'
  <1>. PICK m \in Mergers :
          \/ \E ids \in SUBSET CandidateIds : MergeBegin(m, ids)
          \/ \E slug \in Slugs : MergeCommit(m, slug)
          \/ MergeFail(m)
    BY DEF MergeNext
  <1>1. TablesTypeOK /\ MergeTypeOK
    BY DEF TypeInv, TypeOK, TablesTypeOK
  <1>2. SUFFICES (TablesTypeOK /\ NormInBounds /\ MergeTypeOK)'
    BY DEF TypeInv, TypeOK, TablesTypeOK, NormTypeOK, RunTypeOK, LinkHasTarget, RunLocals,
           InboxTypeOK
  <1>3. ASSUME UNCHANGED tables PROVE (TablesTypeOK /\ NormInBounds)'
    BY <1>1, <1>3 DEF tables, TablesTypeOK, NormInBounds, TypeInv
  <1>4. ASSUME NEW ids \in SUBSET CandidateIds, MergeBegin(m, ids)
        PROVE  (TablesTypeOK /\ NormInBounds /\ MergeTypeOK)'
    BY <1>1, <1>3, <1>4 DEF MergeBegin, MergeTypeOK
  <1>5. ASSUME NEW slug \in Slugs, MergeCommit(m, slug)
        PROVE  (TablesTypeOK /\ NormInBounds /\ MergeTypeOK)'
    <2>. DEFINE ids == merging[m]
    <2>1. ids \in SUBSET CandidateIds
      BY <1>1 DEF MergeTypeOK
    <2>2. PICK new \in CandidateIds :
             /\ candidates' = AfterMerge(ids, new, MergedKey(ids, slug))
             /\ candidate_signals' = AfterRelink(ids, new)
      BY <1>5 DEF MergeCommit
    <2>3. TablesTypeOK'
      BY <1>1, <1>5, <2>1, <2>2, MergeTypes DEF MergeCommit, TablesTypeOK
    <2>4. (NormInBounds /\ MergeTypeOK)'
      BY <1>1, <1>5 DEF MergeCommit, MergeTypeOK, NormInBounds, TypeInv
    <2>. QED BY <2>3, <2>4
  <1>6. CASE MergeFail(m)
    BY <1>1, <1>3, <1>6 DEF MergeFail, MergeTypeOK
  <1>. QED BY <1>4, <1>5, <1>6

\* A decision keeps the types.
LEMMA TypeInbox ==
    ASSUME TypeInv, InboxNext, UNCHANGED <<norm, run, merging>>
    PROVE  TypeInv'
  <1>. PICK o \in Operators :
          \/ \E c \in CandidateIds, verdict \in Asked : DecideLoad(o, c, verdict)
          \/ DecideCommit(o)
          \/ DecideFail(o)
    BY DEF InboxNext
  <1>1. TablesTypeOK /\ InboxTypeOK /\ NotDeciding \in Requests
    BY DEF TypeInv, TypeOK, TablesTypeOK, NotDeciding, Requests, Decisions, Verdicts
  <1>2. SUFFICES (TablesTypeOK /\ NormInBounds /\ InboxTypeOK)'
    BY DEF TypeInv, TypeOK, TablesTypeOK, NormTypeOK, RunTypeOK, LinkHasTarget, RunLocals,
           MergeTypeOK
  <1>3. ASSUME UNCHANGED tables PROVE (TablesTypeOK /\ NormInBounds)'
    BY <1>1, <1>3 DEF tables, TablesTypeOK, NormInBounds, TypeInv
  <1>4. ASSUME NEW c \in CandidateIds, NEW verdict \in Asked, DecideLoad(o, c, verdict)
        PROVE  (TablesTypeOK /\ NormInBounds /\ InboxTypeOK)'
    <2>1. [candidate |-> c, verdict |-> verdict, loaded |-> candidates[c].decision] \in Requests
      BY <1>1, InboxAssumption DEF TablesTypeOK, CandidateRows, Requests
    <2>. QED BY <1>1, <1>3, <1>4, <2>1 DEF DecideLoad, InboxTypeOK
  <1>5. CASE DecideCommit(o)
    <2>. DEFINE c == deciding[o].candidate
                verdict == deciding[o].verdict
    <2>1. c \in CandidateIds /\ verdict \in Verdicts
      BY <1>1, <1>5 DEF DecideCommit, InboxTypeOK, Requests
    <2>2. approvals' \in Seq(Approvals)
      BY <1>1, <1>5, <2>1 DEF DecideCommit, TablesTypeOK, Approvals
    <2>3. candidates' \in [CandidateIds -> CandidateRows]
      <3>1. candidates' \in {candidates, [candidates EXCEPT ![c].decision = verdict]}
        BY <1>5 DEF DecideCommit, AfterVerdict
      <3>. QED BY <1>1, <2>1, <3>1 DEF TablesTypeOK, CandidateRows, Decisions
    <2>4. TablesTypeOK'
      BY <1>1, <1>5, <2>2, <2>3 DEF DecideCommit, TablesTypeOK
    <2>5. (NormInBounds /\ InboxTypeOK)'
      BY <1>1, <1>5 DEF DecideCommit, InboxTypeOK, NormInBounds, TypeInv
    <2>. QED BY <2>4, <2>5
  <1>6. CASE DecideFail(o)
    BY <1>1, <1>3, <1>6 DEF DecideFail, InboxTypeOK
  <1>. QED BY <1>4, <1>5, <1>6

\* The death of the process keeps the types.
LEMMA TypeCrash == ASSUME TypeInv, Crash PROVE TypeInv'
  <1>1. TablesTypeOK'
    BY DEF TypeInv, TypeOK, TablesTypeOK, Crash
  <1>2. (NormTypeOK /\ NormInBounds)'
    BY DEF Crash, NormTypeOK, NormInBounds, NormIdle
  <1>3. (RunTypeOK /\ LinkHasTarget)'
    BY IdleTypes DEF Crash, RunTypeOK, LinkHasTarget, RunLocals
  <1>4. (MergeTypeOK /\ InboxTypeOK)'
    BY DEF Crash, MergeTypeOK, InboxTypeOK, NotDeciding, Requests, Decisions, Verdicts
  <1>. QED BY <1>1, <1>2, <1>3, <1>4 DEF TypeInv, TypeOK, TablesTypeOK

\* Every step of the system keeps the types.
LEMMA TypeStep == TypeInv /\ [Next]_vars => TypeInv'
  <1>. SUFFICES ASSUME TypeInv, [Next]_vars PROVE TypeInv'
    OBVIOUS
  <1>1. CASE UNCHANGED vars
    BY <1>1 DEF vars, tables, TypeInv, TypeOK, NormTypeOK, NormInBounds, RunTypeOK,
                LinkHasTarget, RunLocals, MergeTypeOK, InboxTypeOK
  <1>2. CASE Next
    BY <1>2, TypeIngest, TypeNormalize, TypeCluster, TypeMerge, TypeInbox, TypeCrash DEF Next
  <1>. QED BY <1>1, <1>2

\* Every table and every local of the normalizer, the cluster runs, the merge requests
\* and the decision requests holds values of its type, for every value of the constants.
THEOREM TypeCorrect == Spec => []TypeOK
  <1>1. Spec => []TypeInv
    BY TypeInit, TypeStep, PTL DEF Spec
  <1>2. TypeInv => TypeOK
    BY DEF TypeInv
  <1>. QED BY <1>1, <1>2, PTL
===========================================================================
