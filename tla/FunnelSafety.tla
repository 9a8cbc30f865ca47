--------------------------- MODULE FunnelSafety ---------------------------
(***************************************************************************)
(* Proof that the redirects of soft-deleted candidates end and that        *)
(* evidence is never lost, for every value of the constants.  The          *)
(* invariant says what an open write transaction may rely on: nobody else  *)
(* writes while it is open, so what it read before its first INSERT is     *)
(* still what the tables hold when it commits.                             *)
(***************************************************************************)
EXTENDS FunnelTypes

\* The rows of one state of candidates and those of a later one that only adds cards.
Adds(before, after) ==
    \A c \in CandidateIds :
        \/ after[c] = before[c]
        \/ /\ before[c] = NoCandidate
           /\ \E slug \in Slugs : after[c] = NewCandidate(ClusterKey(slug))

\* A row that is not there holds nothing.
BlankRows == \A c \in CandidateIds : Exists(candidates, c) \/ candidates[c] = NoCandidate

\* The candidates that requests hold the ids of exist.
RequestsExist ==
    /\ \A m \in Mergers : \A c \in merging[m] : Exists(candidates, c)
    /\ \A o \in Operators :
         deciding[o].candidate # Null => Exists(candidates, deciding[o].candidate)

\* An open transaction is that of a run that persists its cards; it sees the tables as
\* they are, and its own additions.
ViewExtends ==
    \A w \in ClusterRuns : InTransaction(w) =>
        /\ run[w].pc \in {"lookup", "insert", "link"}
        /\ Adds(candidates, run[w].view.candidates)
        /\ candidate_signals \subseteq run[w].view.candidate_signals

\* A candidate is inserted for a card, never for the absence of one.
InsertHasCard == \A w \in ClusterRuns : run[w].pc = "insert" => run[w].card \in Cards

SafeInv ==
    /\ TypeInv
    /\ BlankRows
    /\ RequestsExist
    /\ ViewExtends
    /\ InsertHasCard
    /\ MergedIntoNewer

---------------------------------------------------------------------------
\* A new row exists, undecided and not merged; the blank row does not.
LEMMA NewRows ==
    /\ \A slug \in Slugs :
          LET row == NewCandidate(ClusterKey(slug))
          IN  row.dedup_key.slug # NoSlug /\ row.merged_into = Null /\ row.decision = "pending"
    /\ NoCandidate.dedup_key.slug = NoSlug
    /\ NoCandidate.merged_into = Null
    /\ NoCandidate.decision = "pending"
  BY TablesAssumption DEF NewCandidate, NoCandidate, ClusterKey

\* Rows that exist stay as they are when cards are added.
LEMMA AddsKeeps ==
    ASSUME NEW before, NEW after, Adds(before, after), NEW c \in CandidateIds
    PROVE  /\ Exists(before, c) => after[c] = before[c] /\ Exists(after, c)
           /\ after[c] # before[c] =>
                Exists(after, c) /\ after[c].merged_into = Null /\ after[c].decision = "pending"
  <1>1. CASE after[c] = before[c]
    BY <1>1 DEF Exists
  <1>2. CASE after[c] # before[c]
    <2>1. PICK slug \in Slugs :
             before[c] = NoCandidate /\ after[c] = NewCandidate(ClusterKey(slug))
      BY <1>2 DEF Adds
    <2>. QED BY <2>1, NewRows DEF Exists
  <1>. QED BY <1>1, <1>2

\* Adding rows twice is adding rows.
LEMMA AddsTransitive ==
    ASSUME NEW before, NEW between, NEW after, Adds(before, between), Adds(between, after)
    PROVE  Adds(before, after)
  <1>. SUFFICES ASSUME NEW c \in CandidateIds, after[c] # before[c]
                PROVE  /\ before[c] = NoCandidate
                       /\ \E slug \in Slugs : after[c] = NewCandidate(ClusterKey(slug))
    BY DEF Adds
  <1>. QED BY NewRows DEF Adds

\* A step of the tables that only adds cards keeps what is said of them.
LEMMA AddsSafe ==
    ASSUME TypeOK, BlankRows, MergedIntoNewer, Adds(candidates, candidates')
    PROVE  BlankRows' /\ MergedIntoNewer'
  <1>1. BlankRows'
    <2>. SUFFICES ASSUME NEW c \in CandidateIds
                  PROVE  Exists(candidates', c) \/ candidates'[c] = NoCandidate
      BY DEF BlankRows, Exists
    <2>. QED BY AddsKeeps DEF BlankRows
  <1>2. MergedIntoNewer'
    <2>. SUFFICES ASSUME NEW c \in CandidateIds, candidates'[c].merged_into # Null
                  PROVE  /\ Exists(candidates', c)
                         /\ candidates'[c].merged_into > c
                         /\ Exists(candidates', candidates'[c].merged_into)
      BY DEF MergedIntoNewer, Exists
    <2>1. candidates'[c] = candidates[c]
      BY AddsKeeps
    <2>2. candidates[c].merged_into \in CandidateIds
      BY <2>1 DEF TypeOK, CandidateRows
    <2>. QED BY <2>1, <2>2, AddsKeeps DEF MergedIntoNewer
  <1>. QED BY <1>1, <1>2

---------------------------------------------------------------------------
\* What a cluster run's step does to the tables and to the other runs: it only adds
\* cards and links, and it writes nothing while another run's transaction is open.
LEMMA ClusterFrame ==
    ASSUME SafeInv, NEW w \in ClusterRuns, ClusterStep(w) \/ ClusterFail(w)
    PROVE  /\ \A v \in ClusterRuns \ {w} :
                /\ run'[v] = run[v]
                /\ InTransaction(v)' <=> InTransaction(v)
                /\ InTransaction(v) => UNCHANGED <<candidates, candidate_signals>>
           /\ Adds(candidates, candidates')
           /\ candidate_signals \subseteq candidate_signals'
  <1>. w # NoRun /\ \A v \in ClusterRuns : v # NoRun
    BY TablesAssumption
  <1>. run \in [ClusterRuns -> RunStates]
    BY DEF SafeInv, TypeInv, TypeOK, RunTypeOK
  <1>. USE DEF InTransaction
  <1>a. candidates' = candidates => Adds(candidates, candidates')
    BY DEF Adds
  <1>b. ASSUME UNCHANGED tables,
               \A v \in ClusterRuns \ {w} : run'[v] = run[v]
        PROVE  /\ \A v \in ClusterRuns \ {w} :
                    /\ run'[v] = run[v]
                    /\ InTransaction(v)' <=> InTransaction(v)
                    /\ InTransaction(v) => UNCHANGED <<candidates, candidate_signals>>
               /\ Adds(candidates, candidates')
               /\ candidate_signals \subseteq candidate_signals'
    BY <1>a, <1>b DEF tables
  <1>1. CASE ClusterLoad(w)
    BY <1>1, <1>b DEF ClusterLoad
  <1>2. CASE \E r \in RawIds : HaikuNull(w, r)
    BY <1>2, <1>a DEF HaikuNull
  <1>3. CASE \E r \in RawIds, topic \in Topics : HaikuComplaint(w, r, topic)
    BY <1>3, <1>b DEF HaikuComplaint
  <1>4. CASE ClusterBucket(w)
    BY <1>4, <1>b DEF ClusterBucket
  <1>5. CASE \E bucket \in run[w].buckets, answer \in Answers : ClusterJudge(w, bucket, answer)
    BY <1>5, <1>b DEF ClusterJudge
  <1>6. CASE ClusterJudged(w)
    BY <1>6, <1>b DEF ClusterJudged
  <1>7. CASE PersistLookup(w)
    BY <1>7, <1>b DEF PersistLookup
  <1>8. CASE PersistInsert(w)
    BY <1>8, <1>a DEF PersistInsert, CanWrite
  <1>9. CASE PersistLink(w)
    BY <1>9, <1>a DEF PersistLink, NoOpenTransaction
  <1>10. CASE PersistNextCard(w)
    BY <1>10, <1>b DEF PersistNextCard
  <1>11. CASE PersistCommit(w)
    <2>1. Adds(candidates, candidates') /\ candidate_signals \subseteq candidate_signals'
      BY <1>11, <1>a DEF PersistCommit, VisibleCandidates, VisibleLinks, SafeInv, ViewExtends
    <2>. QED BY <1>11, <2>1 DEF PersistCommit, VisibleCandidates, VisibleLinks
  <1>12. CASE ClusterFail(w)
    BY <1>12, <1>a DEF ClusterFail
  <1>13. CASE LinkCollides(w)
    BY <1>13, <1>a DEF LinkCollides, NoOpenTransaction
  <1>. QED BY <1>1, <1>2, <1>3, <1>4, <1>5, <1>6, <1>7, <1>8, <1>9, <1>10, <1>11, <1>12, <1>13
           DEF ClusterStep

\* The run that steps keeps its own view an extension of the tables.
LEMMA OwnView ==
    ASSUME SafeInv, NEW w \in ClusterRuns, ClusterStep(w) \/ ClusterFail(w), InTransaction(w)'
    PROVE  /\ run'[w].pc \in {"lookup", "insert", "link"}
           /\ Adds(candidates', run'[w].view.candidates)
           /\ candidate_signals' \subseteq run'[w].view.candidate_signals
  <1>. w # NoRun
    BY TablesAssumption
  <1>0. run \in [ClusterRuns -> RunStates]
    BY DEF SafeInv, TypeInv, TypeOK, RunTypeOK
  <1>. USE DEF InTransaction
  <1>. DEFINE Own == /\ run'[w].pc \in {"lookup", "insert", "link"}
                     /\ Adds(candidates', run'[w].view.candidates)
                     /\ candidate_signals' \subseteq run'[w].view.candidate_signals
  <1>a. ASSUME UNCHANGED <<candidates, candidate_signals, write_lock>>,
               run'[w].view = run[w].view, run'[w].pc \in {"lookup", "insert", "link"}
        PROVE  Own
    BY <1>a DEF SafeInv, ViewExtends
  <1>b. ASSUME UNCHANGED write_lock, run[w].pc \in {"idle", "prepass", "judge"} PROVE FALSE
    BY <1>b DEF SafeInv, ViewExtends
  <1>. SUFFICES Own OBVIOUS
  <1>. HIDE DEF Own
  <1>1. CASE ClusterLoad(w)
    BY <1>1, <1>b DEF ClusterLoad, tables
  <1>2. CASE \E r \in RawIds : HaikuNull(w, r)
    BY <1>2, <1>b DEF HaikuNull, PrepassSignal
  <1>3. CASE \E r \in RawIds, topic \in Topics : HaikuComplaint(w, r, topic)
    BY <1>3, <1>b DEF HaikuComplaint, PrepassSignal, tables
  <1>4. CASE ClusterBucket(w)
    BY <1>4, <1>b DEF ClusterBucket, tables
  <1>5. CASE \E bucket \in run[w].buckets, answer \in Answers : ClusterJudge(w, bucket, answer)
    BY <1>5, <1>b DEF ClusterJudge, tables
  <1>6. CASE ClusterJudged(w)
    BY <1>6, <1>b DEF ClusterJudged, tables
  <1>7. CASE PersistLookup(w)
    <2>1. PICK card \in run[w].cards :
             LET picked == [run[w] EXCEPT !.cards = @ \ {card}, !.card = card]
             IN  \/ run'[w] = [picked EXCEPT !.pc = "insert"]
                 \/ \E c \in CandidateIds :
                      run'[w] = [picked EXCEPT !.pc = "link", !.target = c]
      BY <1>0, <1>7 DEF PersistLookup
    <2>2. run'[w].view = run[w].view /\ run'[w].pc \in {"insert", "link"}
      BY <1>0, <2>1 DEF RunStates
    <2>. QED BY <1>7, <1>a, <2>2 DEF PersistLookup, tables
  <1>8. CASE PersistInsert(w)
    <2>. DEFINE slug == run[w].card.slug
                before == VisibleCandidates(w)
    <2>1. PICK id \in CandidateIds :
             /\ ~Exists(before, id)
             /\ run'[w].pc = "link"
             /\ run'[w].view = [candidates |-> [before EXCEPT ![id] = NewCandidate(ClusterKey(slug))],
                                candidate_signals |-> VisibleLinks(w)]
      BY <1>0, <1>8 DEF PersistInsert, NextId, RunStates
    <2>2. slug \in Slugs
      BY <1>8 DEF PersistInsert, SafeInv, InsertHasCard, Cards
    <2>3. Adds(candidates, before) /\ candidate_signals \subseteq VisibleLinks(w)
      BY DEF VisibleCandidates, VisibleLinks, SafeInv, ViewExtends, Adds
    <2>4. before \in [CandidateIds -> CandidateRows]
      BY VisibleTypes DEF SafeInv
    <2>5. candidates[id] = NoCandidate
      BY <2>1, <2>3, AddsKeeps DEF SafeInv, BlankRows
    <2>6. before[id] = NoCandidate
      BY <2>1, <2>3, <2>5, AddsKeeps
    <2>. HIDE DEF before, slug
    <2>7. Adds(before, run'[w].view.candidates)
      BY <2>1, <2>2, <2>4, <2>6 DEF Adds
    <2>8. Adds(candidates, run'[w].view.candidates)
      BY <2>3, <2>7, AddsTransitive
    <2>. QED BY <1>8, <2>1, <2>3, <2>8 DEF PersistInsert, Own
  <1>9. CASE PersistLink(w)
    <2>1. PICK r \in run[w].card.signals :
             LET link == <<run[w].target, r>>
                 linked == [run[w] EXCEPT !.card.signals = @ \ {r}]
             IN  \/ run'[w] = linked
                 \/ run'[w] = [linked EXCEPT !.view.candidate_signals = @ \cup {link}]
      BY <1>0, <1>9 DEF PersistLink
    <2>. DEFINE linked == [run[w] EXCEPT !.card.signals = @ \ {r}]
                link == <<run[w].target, r>>
                noted == [linked EXCEPT !.view.candidate_signals = @ \cup {link}]
    <2>a. linked.view = run[w].view /\ linked.pc = run[w].pc
      BY <1>0 DEF RunStates
    <2>b. noted.pc = linked.pc
      BY <1>0 DEF RunStates
    <2>c. /\ noted.view.candidates = linked.view.candidates
          /\ noted.view.candidate_signals = linked.view.candidate_signals \cup {link}
      BY <1>0 DEF RunStates, View
    <2>2. /\ run'[w].view.candidates = run[w].view.candidates
          /\ run[w].view.candidate_signals \subseteq run'[w].view.candidate_signals
          /\ run'[w].pc = run[w].pc
      <3>. HIDE DEF linked, link
      <3>1. CASE run'[w] = linked
        BY <2>a, <3>1
      <3>2. CASE run'[w] = noted
        BY <2>a, <2>b, <2>c, <3>2
      <3>. QED BY <2>1, <3>1, <3>2 DEF linked, link
    <2>3. UNCHANGED <<candidates, candidate_signals, write_lock>>
      BY <1>9 DEF PersistLink, NoOpenTransaction
    <2>. QED BY <1>9, <2>2, <2>3 DEF Own, SafeInv, ViewExtends, PersistLink
  <1>10. CASE PersistNextCard(w)
    <2>1. run'[w].view = run[w].view /\ run'[w].pc = "lookup"
      BY <1>0, <1>10 DEF PersistNextCard, RunStates
    <2>. QED BY <1>10, <1>a, <2>1 DEF PersistNextCard, tables
  <1>11. CASE PersistCommit(w)
    BY <1>11 DEF PersistCommit
  <1>12. CASE ClusterFail(w)
    BY <1>12 DEF ClusterFail
  <1>13. CASE LinkCollides(w)
    <2>1. /\ run'[w].pc = "link"
          /\ run'[w].view.candidates = candidates
          /\ run'[w].view.candidate_signals = candidate_signals
      BY <1>0, <1>13 DEF LinkCollides, RunStates
    <2>2. Adds(candidates, candidates)
      BY DEF Adds
    <2>. QED BY <1>13, <2>1, <2>2 DEF LinkCollides, Own
  <1>. QED BY <1>1, <1>2, <1>3, <1>4, <1>5, <1>6, <1>7, <1>8, <1>9, <1>10, <1>11, <1>12, <1>13
           DEF ClusterStep

\* A run that is about to insert a candidate holds a card with a slug.
LEMMA InsertsCard ==
    ASSUME SafeInv, NEW w \in ClusterRuns, ClusterStep(w) \/ ClusterFail(w), run'[w].pc = "insert"
    PROVE  run'[w].card \in Cards
  <1>. run \in [ClusterRuns -> RunStates] /\ run[w] \in RunStates
    BY DEF SafeInv, TypeInv, TypeOK, RunTypeOK
  <1>1. CASE PersistLookup(w)
    <2>1. PICK card \in run[w].cards :
             LET picked == [run[w] EXCEPT !.cards = @ \ {card}, !.card = card]
             IN  \/ run'[w] = [picked EXCEPT !.pc = "insert"]
                 \/ \E c \in CandidateIds :
                      run'[w] = [picked EXCEPT !.pc = "link", !.target = c]
      BY <1>1 DEF PersistLookup
    <2>2. run'[w].card = card
      BY <2>1 DEF RunStates
    <2>. QED BY <2>2 DEF RunStates
  <1>2. CASE PersistLink(w)
    <2>1. run'[w].pc = "link"
      <3>1. run[w].pc = "link" BY <1>2 DEF PersistLink
      <3>2. PICK r \in run[w].card.signals :
               LET linked == [run[w] EXCEPT !.card.signals = @ \ {r}]
               IN  \/ run'[w] = linked
                   \/ \E links : run'[w] = [linked EXCEPT !.view.candidate_signals = links]
        BY <1>2 DEF PersistLink
      <3>. QED BY <3>1, <3>2 DEF RunStates
    <2>. QED BY <2>1
  <1>3. CASE ~PersistLookup(w) /\ ~PersistLink(w)
    <2>1. run'[w].pc # "insert"
      <3>1. CASE ClusterLoad(w)
        BY <3>1 DEF ClusterLoad, RunIdle
      <3>2. CASE \E r \in RawIds : HaikuNull(w, r)
        BY <3>2 DEF HaikuNull, PrepassSignal, RunStates
      <3>3. CASE \E r \in RawIds, topic \in Topics : HaikuComplaint(w, r, topic)
        BY <3>3 DEF HaikuComplaint, PrepassSignal, RunStates
      <3>4. CASE ClusterBucket(w)
        BY <3>4 DEF ClusterBucket, RunStates
      <3>5. CASE \E bucket \in run[w].buckets, answer \in Answers : ClusterJudge(w, bucket, answer)
        BY <3>5 DEF ClusterJudge, RunStates
      <3>6. CASE ClusterJudged(w)
        BY <3>6 DEF ClusterJudged, RunStates
      <3>7. CASE PersistInsert(w)
        BY <3>7 DEF PersistInsert, RunStates
      <3>8. CASE PersistNextCard(w)
        BY <3>8 DEF PersistNextCard, RunStates
      <3>9. CASE PersistCommit(w) \/ ClusterFail(w)
        BY <3>9 DEF PersistCommit, ClusterFail, RunIdle
      <3>10. CASE LinkCollides(w)
        BY <3>10 DEF LinkCollides, RunStates
      <3>. QED BY <1>3, <3>1, <3>2, <3>3, <3>4, <3>5, <3>6, <3>7, <3>8, <3>9, <3>10
               DEF ClusterStep
    <2>. QED BY <2>1
  <1>. QED BY <1>1, <1>2, <1>3

\* The invariant holds of the empty database.
LEMMA SafeInit == Init => SafeInv
  <1>. SUFFICES ASSUME Init PROVE SafeInv OBVIOUS
  <1>. USE DEF Init, TablesInit, NoRequests
  <1>1. TypeInv BY TypeInit
  <1>2. BlankRows /\ MergedIntoNewer
    BY NewRows DEF BlankRows, MergedIntoNewer
  <1>3. RequestsExist
    BY DEF RequestsExist, NotDeciding
  <1>4. ViewExtends /\ InsertHasCard
    BY TablesAssumption DEF ViewExtends, InTransaction, InsertHasCard, RunIdle
  <1>. QED BY <1>1, <1>2, <1>3, <1>4 DEF SafeInv

\* A step that leaves the cluster runs and what they share alone.
LEMMA SafeQuiet ==
    ASSUME SafeInv, TypeInv', RequestsExist',
           UNCHANGED <<candidates, candidate_signals, write_lock, run>>
    PROVE  SafeInv'
  BY DEF SafeInv, BlankRows, Exists, ViewExtends, InTransaction, Adds, InsertHasCard,
         MergedIntoNewer

\* A cluster run that steps or fails keeps it.
LEMMA SafeCluster ==
    ASSUME SafeInv, TypeInv', ClusterNext, UNCHANGED <<norm, merging, deciding>>
    PROVE  SafeInv'
  <1>. PICK w \in ClusterRuns : ClusterStep(w) \/ ClusterFail(w)
    BY DEF ClusterNext
  <1>1. BlankRows' /\ MergedIntoNewer'
    BY ClusterFrame, AddsSafe DEF SafeInv, TypeInv
  <1>2. RequestsExist'
    BY ClusterFrame, AddsKeeps DEF SafeInv, RequestsExist, TypeInv, TypeOK, MergeTypeOK,
       InboxTypeOK, Requests
  <1>3. ViewExtends'
    <2>. SUFFICES ASSUME NEW v \in ClusterRuns, InTransaction(v)'
                  PROVE  /\ run'[v].pc \in {"lookup", "insert", "link"}
                         /\ Adds(candidates', run'[v].view.candidates)
                         /\ candidate_signals' \subseteq run'[v].view.candidate_signals
      BY DEF ViewExtends, Adds
    <2>1. CASE v = w
      BY <2>1, OwnView
    <2>2. CASE v # w
      BY <2>2, ClusterFrame DEF SafeInv, ViewExtends
    <2>. QED BY <2>1, <2>2
  <1>4. InsertHasCard'
    BY ClusterFrame, InsertsCard DEF SafeInv, InsertHasCard
  <1>. QED BY <1>1, <1>2, <1>3, <1>4 DEF SafeInv

\* What the transaction of a merge leaves of every candidate.
LEMMA MergeRows ==
    ASSUME SafeInv, NEW ids \in SUBSET CandidateIds, NEW new \in CandidateIds, NEW slug \in Slugs,
           \A c \in ids : Exists(candidates, c), NextId(candidates, new),
           candidates' = AfterMerge(ids, new, MergedKey(ids, slug))
    PROVE  /\ \A c \in ids : c < new
           /\ new \notin ids
           /\ candidates'[new].merged_into = Null
           /\ candidates'[new].decision = "pending"
           /\ \A c \in CandidateIds : Exists(candidates', c) <=> c = new \/ Exists(candidates, c)
           /\ \A c \in ids : /\ candidates'[c].merged_into = new
                             /\ candidates'[c].decision = candidates[c].decision
           /\ \A c \in CandidateIds \ (ids \cup {new}) : candidates'[c] = candidates[c]
  <1>1. (\A c \in ids : c < new) /\ ~Exists(candidates, new)
    BY DEF NextId
  <1>2. new \notin ids
    BY <1>1
  <1>3. candidates \in [CandidateIds -> CandidateRows]
    BY DEF SafeInv, TypeInv, TypeOK
  <1>4. \A c \in CandidateIds :
           candidates'[c] = IF c = new THEN NewCandidate(MergedKey(ids, slug))
                            ELSE IF c \in ids THEN [candidates[c] EXCEPT !.merged_into = new]
                            ELSE candidates[c]
    BY DEF AfterMerge
  <1>5. /\ candidates'[new].merged_into = Null
        /\ candidates'[new].decision = "pending"
        /\ candidates'[new].dedup_key.slug # NoSlug
    <2>1. candidates'[new] = NewCandidate(MergedKey(ids, slug))
      BY <1>4
    <2>2. LET row == NewCandidate(MergedKey(ids, slug))
          IN  row.merged_into = Null /\ row.decision = "pending" /\ row.dedup_key.slug = slug
      BY DEF NewCandidate, MergedKey
    <2>. QED BY <2>1, <2>2, TablesAssumption
  <1>6. \A c \in ids : /\ candidates'[c].merged_into = new
                       /\ candidates'[c].decision = candidates[c].decision
                       /\ candidates'[c].dedup_key = candidates[c].dedup_key
    BY <1>2, <1>3, <1>4 DEF CandidateRows
  <1>7. \A c \in CandidateIds \ (ids \cup {new}) : candidates'[c] = candidates[c]
    BY <1>4
  <1>8. \A c \in CandidateIds : Exists(candidates', c) <=> c = new \/ Exists(candidates, c)
    BY <1>5, <1>6, <1>7 DEF Exists
  <1>. QED BY <1>1, <1>2, <1>5, <1>6, <1>7, <1>8

\* A merge request that begins, commits or fails keeps it.
LEMMA SafeMerge ==
    ASSUME SafeInv, TypeInv', MergeNext, UNCHANGED <<norm, run, deciding>>
    PROVE  SafeInv'
  <1>. PICK m \in Mergers :
          \/ \E ids \in SUBSET CandidateIds : MergeBegin(m, ids)
          \/ \E slug \in Slugs : MergeCommit(m, slug)
          \/ MergeFail(m)
    BY DEF MergeNext
  <1>0. merging \in [Mergers -> SUBSET CandidateIds] /\ deciding \in [Operators -> Requests]
    BY DEF SafeInv, TypeInv, TypeOK, MergeTypeOK, InboxTypeOK
  <1>1. ASSUME NEW ids \in SUBSET CandidateIds, MergeBegin(m, ids) PROVE SafeInv'
    <2>1. RequestsExist'
      BY <1>0, <1>1 DEF MergeBegin, IsLive, Exists, tables, SafeInv, RequestsExist
    <2>. QED BY <1>1, <2>1, SafeQuiet DEF MergeBegin, tables
  <1>2. ASSUME NEW slug \in Slugs, MergeCommit(m, slug) PROVE SafeInv'
    <2>. DEFINE ids == merging[m]
    <2>1. PICK new \in CandidateIds :
             NextId(candidates, new) /\ candidates' = AfterMerge(ids, new, MergedKey(ids, slug))
      BY <1>2 DEF MergeCommit
    <2>2. ids \in SUBSET CandidateIds /\ \A c \in ids : Exists(candidates, c)
      BY <1>0 DEF SafeInv, RequestsExist
    <2>. HIDE DEF ids
    <2>3. /\ \A c \in ids : c < new
          /\ new \notin ids
          /\ candidates'[new].merged_into = Null
          /\ candidates'[new].decision = "pending"
          /\ \A c \in CandidateIds : Exists(candidates', c) <=> c = new \/ Exists(candidates, c)
          /\ \A c \in ids : /\ candidates'[c].merged_into = new
                            /\ candidates'[c].decision = candidates[c].decision
          /\ \A c \in CandidateIds \ (ids \cup {new}) : candidates'[c] = candidates[c]
      BY ONLY SafeInv, <2>1, <2>2, MergeRows
    <2>4. BlankRows'
      <3>. SUFFICES ASSUME NEW c \in CandidateIds
                    PROVE  Exists(candidates', c) \/ candidates'[c] = NoCandidate
        BY DEF BlankRows, Exists
      <3>. QED BY <2>2, <2>3 DEF SafeInv, BlankRows
    <2>5. MergedIntoNewer'
      <3>. SUFFICES ASSUME NEW c \in CandidateIds, candidates'[c].merged_into # Null
                    PROVE  /\ Exists(candidates', c)
                           /\ candidates'[c].merged_into > c
                           /\ Exists(candidates', candidates'[c].merged_into)
        BY DEF MergedIntoNewer, Exists
      <3>1. CASE c \in ids
        BY <2>2, <2>3, <3>1 DEF CandidateIds
      <3>2. CASE c \notin ids
        <4>1. candidates'[c] = candidates[c]
          BY <2>3, <3>2
        <4>2. candidates[c].merged_into \in CandidateIds
          BY <4>1 DEF SafeInv, TypeInv, TypeOK, CandidateRows
        <4>. QED BY <2>3, <4>1, <4>2 DEF SafeInv, MergedIntoNewer
      <3>. QED BY <3>1, <3>2
    <2>6. RequestsExist'
      <3>1. \A c \in CandidateIds : Exists(candidates, c) => Exists(candidates', c)
        BY <2>3
      <3>2. \A n \in Mergers : merging'[n] \subseteq merging[n]
        BY <1>0, <1>2 DEF MergeCommit
      <3>. QED BY <1>0, <3>1, <3>2 DEF SafeInv, RequestsExist, Exists, Requests
    <2>7. ViewExtends' /\ InsertHasCard'
      BY <1>2, TablesAssumption
         DEF MergeCommit, NoOpenTransaction, ViewExtends, InTransaction, SafeInv, InsertHasCard
    <2>. QED BY <2>4, <2>5, <2>6, <2>7 DEF SafeInv
  <1>3. CASE MergeFail(m)
    <2>1. RequestsExist'
      BY <1>0, <1>3 DEF MergeFail, tables, SafeInv, RequestsExist, Exists
    <2>. QED BY <1>3, <2>1, SafeQuiet DEF MergeFail, tables
  <1>. QED BY <1>1, <1>2, <1>3

\* What a verdict changes: the decision of a candidate that exists.
LEMMA VerdictRows ==
    ASSUME SafeInv, NEW o \in Operators, DecideCommit(o)
    PROVE  LET c == deciding[o].candidate
           IN  /\ c \in CandidateIds
               /\ Exists(candidates, c)
               /\ deciding[o].verdict \in Verdicts
               /\ \A d \in CandidateIds : d # c => candidates'[d] = candidates[d]
               /\ candidates'[c].dedup_key = candidates[c].dedup_key
               /\ candidates'[c].merged_into = candidates[c].merged_into
               /\ candidates'[c].decision \in {candidates[c].decision, deciding[o].verdict}
  <1>. DEFINE c == deciding[o].candidate
  <1>1. c \in CandidateIds /\ Exists(candidates, c) /\ deciding[o].verdict \in Verdicts
    BY DEF DecideCommit, SafeInv, RequestsExist, TypeInv, TypeOK, InboxTypeOK, Requests
  <1>2. candidates \in [CandidateIds -> CandidateRows]
    BY DEF SafeInv, TypeInv, TypeOK
  <1>3. \/ candidates' = candidates
        \/ candidates' = [candidates EXCEPT ![c].decision = deciding[o].verdict]
    BY DEF DecideCommit, AfterVerdict
  <1>. HIDE DEF c
  <1>4. /\ \A d \in CandidateIds : d # c => candidates'[d] = candidates[d]
        /\ candidates'[c].dedup_key = candidates[c].dedup_key
        /\ candidates'[c].merged_into = candidates[c].merged_into
        /\ candidates'[c].decision \in {candidates[c].decision, deciding[o].verdict}
    BY <1>1, <1>2, <1>3 DEF CandidateRows
  <1>. QED BY <1>1, <1>4 DEF c

\* A decision request that loads, commits or fails keeps it.
LEMMA SafeInbox ==
    ASSUME SafeInv, TypeInv', InboxNext, UNCHANGED <<norm, run, merging>>
    PROVE  SafeInv'
  <1>. PICK o \in Operators :
          \/ \E c \in CandidateIds, verdict \in Asked : DecideLoad(o, c, verdict)
          \/ DecideCommit(o)
          \/ DecideFail(o)
    BY DEF InboxNext
  <1>0. /\ deciding \in [Operators -> Requests]
        /\ merging \in [Mergers -> SUBSET CandidateIds]
        /\ candidates \in [CandidateIds -> CandidateRows]
        /\ NotDeciding.candidate = Null
    BY DEF SafeInv, TypeInv, TypeOK, MergeTypeOK, InboxTypeOK, NotDeciding
  <1>1. ASSUME NEW c \in CandidateIds, NEW verdict \in Asked, DecideLoad(o, c, verdict)
        PROVE  SafeInv'
    <2>1. RequestsExist'
      BY <1>0, <1>1 DEF DecideLoad, tables, Exists, SafeInv, RequestsExist
    <2>. QED BY <1>1, <2>1, SafeQuiet DEF DecideLoad, tables
  <1>2. CASE DecideCommit(o)
    <2>. DEFINE c == deciding[o].candidate
    <2>1. /\ c \in CandidateIds
          /\ Exists(candidates, c)
          /\ \A d \in CandidateIds : d # c => candidates'[d] = candidates[d]
          /\ candidates'[c].dedup_key = candidates[c].dedup_key
          /\ candidates'[c].merged_into = candidates[c].merged_into
      BY <1>2, VerdictRows
    <2>2. \A d \in CandidateIds : /\ Exists(candidates', d) <=> Exists(candidates, d)
                                  /\ candidates'[d].merged_into = candidates[d].merged_into
      BY <2>1 DEF Exists
    <2>3. BlankRows'
      BY <2>1, <2>2 DEF BlankRows, Exists, SafeInv
    <2>4. MergedIntoNewer'
      BY <1>0, <2>2 DEF MergedIntoNewer, Exists, SafeInv, CandidateRows
    <2>5. RequestsExist'
      BY <1>0, <1>2, <2>2 DEF DecideCommit, RequestsExist, Exists, SafeInv, Requests
    <2>6. ViewExtends' /\ InsertHasCard'
      BY <1>2, TablesAssumption
         DEF DecideCommit, NoOpenTransaction, ViewExtends, InTransaction, SafeInv, InsertHasCard
    <2>. QED BY <2>3, <2>4, <2>5, <2>6 DEF SafeInv
  <1>3. CASE DecideFail(o)
    <2>1. RequestsExist'
      BY <1>0, <1>3 DEF DecideFail, tables, SafeInv, RequestsExist, Exists
    <2>. QED BY <1>3, <2>1, SafeQuiet DEF DecideFail, tables
  <1>. QED BY <1>1, <1>2, <1>3

\* The death of the process keeps it: requests and views are gone.
LEMMA SafeCrash == ASSUME SafeInv, TypeInv', Crash PROVE SafeInv'
  <1>1. BlankRows' /\ MergedIntoNewer'
    BY DEF Crash, SafeInv, BlankRows, MergedIntoNewer, Exists
  <1>2. RequestsExist'
    BY DEF Crash, RequestsExist, NotDeciding
  <1>3. ViewExtends' /\ InsertHasCard'
    BY TablesAssumption DEF Crash, ViewExtends, InTransaction, InsertHasCard, RunIdle
  <1>. QED BY <1>1, <1>2, <1>3 DEF SafeInv

\* Every step of the system keeps it.
LEMMA SafeStep == SafeInv /\ [Next]_vars => SafeInv'
  <1>. SUFFICES ASSUME SafeInv, [Next]_vars PROVE SafeInv'
    OBVIOUS
  <1>1. TypeInv'
    BY TypeStep DEF SafeInv
  <1>2. ASSUME UNCHANGED <<tables, run, merging, deciding>> PROVE SafeInv'
    <2>1. RequestsExist'
      BY <1>2 DEF tables, SafeInv, RequestsExist, Exists
    <2>. QED BY <1>1, <1>2, <2>1, SafeQuiet DEF tables
  <1>3. CASE UNCHANGED vars
    BY <1>2, <1>3 DEF vars
  <1>4. CASE IngestRow /\ UNCHANGED <<norm, run, merging, deciding>>
    <2>1. RequestsExist'
      BY <1>4 DEF IngestRow, SafeInv, RequestsExist, Exists
    <2>. QED BY <1>1, <1>4, <2>1, SafeQuiet DEF IngestRow
  <1>5. CASE NormalizeNext /\ UNCHANGED <<run, merging, deciding>>
    <2>1. UNCHANGED <<candidates, candidate_signals, write_lock>>
      BY <1>5 DEF NormalizeNext, NormalizeStart, NormalizeSelectBatch, NormalizeRow,
                  NormalizeCommitBatch, NormalizeFail, tables
    <2>2. RequestsExist'
      BY <1>5, <2>1 DEF SafeInv, RequestsExist, Exists
    <2>. QED BY <1>1, <1>5, <2>1, <2>2, SafeQuiet
  <1>6. CASE ClusterNext /\ UNCHANGED <<norm, merging, deciding>>
    BY <1>1, <1>6, SafeCluster
  <1>7. CASE MergeNext /\ UNCHANGED <<norm, run, deciding>>
    BY <1>1, <1>7, SafeMerge
  <1>8. CASE InboxNext /\ UNCHANGED <<norm, run, merging>>
    BY <1>1, <1>8, SafeInbox
  <1>9. CASE Crash
    BY <1>1, <1>9, SafeCrash
  <1>. QED BY <1>3, <1>4, <1>5, <1>6, <1>7, <1>8, <1>9 DEF Next

\* It holds in every reachable state.
LEMMA Safe == Spec => []SafeInv
  BY SafeInit, SafeStep, PTL DEF Spec

---------------------------------------------------------------------------
\* Whatever merge requests, cluster runs, decisions and crashes interleave, a soft-deleted
\* candidate points at a newer one that exists, so the redirects of inbox_detail end.
THEOREM RedirectsEnd == Spec => []MergedIntoNewer
  <1>1. SafeInv => MergedIntoNewer BY DEF SafeInv
  <1>. QED BY <1>1, Safe, PTL

\* No step takes evidence away: what one step linked stays linked to some candidate.
LEMMA EvidenceStep ==
    SafeInv /\ [Next]_vars
        => LinkedSignals(candidate_signals) \subseteq LinkedSignals(candidate_signals')
  <1>. SUFFICES ASSUME SafeInv, [Next]_vars
                PROVE  LinkedSignals(candidate_signals) \subseteq LinkedSignals(candidate_signals')
    OBVIOUS
  <1>1. ASSUME candidate_signals \subseteq candidate_signals'
        PROVE  LinkedSignals(candidate_signals) \subseteq LinkedSignals(candidate_signals')
    BY <1>1 DEF LinkedSignals
  <1>2. CASE UNCHANGED candidate_signals
    BY <1>1, <1>2
  <1>3. CASE ClusterNext
    BY <1>1, <1>3, ClusterFrame DEF ClusterNext
  <1>4. CASE MergeNext
    <2>1. CASE UNCHANGED candidate_signals
      BY <1>2, <2>1
    <2>2. CASE candidate_signals' # candidate_signals
      <3>1. PICK m \in Mergers, slug \in Slugs : MergeCommit(m, slug)
        BY <1>4, <2>2 DEF MergeNext, MergeBegin, MergeFail, tables
      <3>2. PICK new \in CandidateIds : candidate_signals' = AfterRelink(merging[m], new)
        BY <3>1 DEF MergeCommit
      <3>. SUFFICES ASSUME NEW link \in candidate_signals
                    PROVE  link[2] \in LinkedSignals(candidate_signals')
        BY DEF LinkedSignals
      <3>3. CASE link[1] \notin merging[m]
        BY <3>2, <3>3 DEF AfterRelink, LinkedSignals
      <3>4. CASE link[1] \in merging[m]
        <4>1. link[1] \in CandidateIds /\ link[2] \in RawIds /\ link = <<link[1], link[2]>>
          BY DEF SafeInv, TypeInv, TypeOK
        <4>2. link[2] \in EvidenceOfAll(candidate_signals, merging[m])
          BY <3>4, <4>1 DEF EvidenceOfAll
        <4>3. <<new, link[2]>> \in candidate_signals'
          BY <3>2, <4>2 DEF AfterRelink
        <4>. QED BY <4>3 DEF LinkedSignals
      <3>. QED BY <3>3, <3>4
    <2>. QED BY <2>1, <2>2
  <1>5. CASE IngestRow \/ NormalizeNext \/ InboxNext \/ Crash
    <2>1. UNCHANGED candidate_signals
      BY <1>5 DEF IngestRow, NormalizeNext, NormalizeStart, NormalizeSelectBatch, NormalizeRow,
                  NormalizeCommitBatch, NormalizeFail, InboxNext, DecideLoad, DecideCommit,
                  DecideFail, Crash, tables
    <2>. QED BY <1>2, <2>1
  <1>6. CASE UNCHANGED vars
    BY <1>2, <1>6 DEF vars, tables
  <1>. QED BY <1>3, <1>4, <1>5, <1>6 DEF Next

\* Merges, cluster runs and crashes in any interleaving never turn a clustered signal back
\* into an unclustered one.
THEOREM EvidenceKept == Spec => EvidenceNeverLost
  BY Safe, EvidenceStep, PTL DEF Spec, EvidenceNeverLost

---------------------------------------------------------------------------
(* No link dangles, neither in the tables nor in an open transaction.      *)

LinksExist ==
    /\ \A link \in candidate_signals : Exists(candidates, link[1])
    /\ \A w \in ClusterRuns :
         /\ \A link \in VisibleLinks(w) : Exists(VisibleCandidates(w), link[1])
         /\ run[w].pc = "link" => Exists(VisibleCandidates(w), run[w].target)

\* There are no links in the empty database.
LEMMA LinksInit == Init => LinksExist
  BY TablesAssumption
     DEF Init, TablesInit, NoRequests, LinksExist, VisibleLinks, InTransaction, RunIdle

\* Candidates that exist go on existing when no cluster run steps.
LEMMA LinksQuiet ==
    ASSUME SafeInv, LinksExist, run' = run, write_lock' = write_lock,
           \A c \in CandidateIds : Exists(candidates, c) => Exists(candidates', c),
           \A link \in candidate_signals' : Exists(candidates', link[1])
    PROVE  LinksExist'
  <1>1. ASSUME NEW w \in ClusterRuns
        PROVE  /\ \A link \in VisibleLinks(w)' : Exists(VisibleCandidates(w)', link[1])
               /\ run[w].pc = "link" => Exists(VisibleCandidates(w)', run[w].target)
    <2>. run[w] \in RunLocals /\ Null \notin CandidateIds
      BY DEF SafeInv, TypeInv, LinkHasTarget, CandidateIds, Null
    <2>1. CASE InTransaction(w)
      BY <2>1 DEF LinksExist, InTransaction, VisibleLinks, VisibleCandidates, Exists
    <2>2. CASE ~InTransaction(w)
      BY <2>2 DEF LinksExist, InTransaction, VisibleLinks, VisibleCandidates, RunLocals, RunStates
    <2>. QED BY <2>1, <2>2
  <1>. QED BY <1>1 DEF LinksExist, Exists

\* What run w sees is free of dangling links after each of its steps.
LEMMA LinksOwn ==
    ASSUME SafeInv, LinksExist, NEW w \in ClusterRuns, ClusterStep(w) \/ ClusterFail(w)
    PROVE  /\ \A link \in VisibleLinks(w)' : Exists(VisibleCandidates(w)', link[1])
           /\ run'[w].pc = "link" => Exists(VisibleCandidates(w)', run'[w].target)
  <1>0. /\ w # NoRun
        /\ run \in [ClusterRuns -> RunStates]
        /\ run[w] \in RunStates
        /\ \A link \in VisibleLinks(w) : Exists(VisibleCandidates(w), link[1])
        /\ run[w].pc = "link" => Exists(VisibleCandidates(w), run[w].target)
        /\ \A link \in candidate_signals : Exists(candidates, link[1])
    BY TablesAssumption DEF SafeInv, TypeInv, TypeOK, RunTypeOK, LinksExist
  <1>. DEFINE Own == /\ \A link \in VisibleLinks(w)' : Exists(VisibleCandidates(w)', link[1])
                     /\ run'[w].pc = "link" => Exists(VisibleCandidates(w)', run'[w].target)
  <1>a. ASSUME UNCHANGED <<candidates, candidate_signals, write_lock>>,
               run'[w].view = run[w].view,
               run'[w].pc = "link" => Exists(VisibleCandidates(w), run'[w].target)
        PROVE  Own
    <2>1. VisibleCandidates(w)' = VisibleCandidates(w) /\ VisibleLinks(w)' = VisibleLinks(w)
      BY <1>a DEF VisibleCandidates, VisibleLinks, InTransaction
    <2>. QED BY <1>0, <1>a, <2>1
  <1>b. ASSUME ~InTransaction(w)', UNCHANGED <<candidates, candidate_signals>>,
               run'[w].pc # "link"
        PROVE  Own
    BY <1>0, <1>b DEF VisibleCandidates, VisibleLinks, Exists
  <1>c. InTransaction(w) => run[w].pc \in {"lookup", "insert", "link"}
    BY DEF SafeInv, ViewExtends
  <1>. SUFFICES Own OBVIOUS
  <1>. HIDE DEF Own
  <1>1. CASE ClusterLoad(w)
    BY <1>0, <1>1, <1>b, <1>c DEF ClusterLoad, RunIdle, tables, InTransaction
  <1>2. CASE \E r \in RawIds : HaikuNull(w, r)
    BY <1>0, <1>2, <1>b, <1>c DEF HaikuNull, PrepassSignal, InTransaction
  <1>3. CASE \E r \in RawIds, topic \in Topics : HaikuComplaint(w, r, topic)
    BY <1>0, <1>3, <1>b, <1>c DEF HaikuComplaint, PrepassSignal, InTransaction, tables, RunStates
  <1>4. CASE ClusterBucket(w)
    BY <1>0, <1>4, <1>b, <1>c DEF ClusterBucket, InTransaction, tables, RunStates
  <1>5. CASE \E bucket \in run[w].buckets, answer \in Answers : ClusterJudge(w, bucket, answer)
    BY <1>0, <1>5, <1>b, <1>c DEF ClusterJudge, InTransaction, tables, RunStates
  <1>6. CASE ClusterJudged(w)
    BY <1>0, <1>6, <1>b, <1>c DEF ClusterJudged, InTransaction, tables, RunStates
  <1>7. CASE PersistLookup(w)
    <2>1. PICK card \in run[w].cards :
             LET picked == [run[w] EXCEPT !.cards = @ \ {card}, !.card = card]
             IN  \/ run'[w] = [picked EXCEPT !.pc = "insert"]
                 \/ \E c \in CandidateIds :
                      /\ Exists(VisibleCandidates(w), c)
                      /\ run'[w] = [picked EXCEPT !.pc = "link", !.target = c]
      BY <1>0, <1>7 DEF PersistLookup
    <2>2. /\ run'[w].view = run[w].view
          /\ run'[w].pc = "link" => Exists(VisibleCandidates(w), run'[w].target)
      BY <1>0, <2>1 DEF RunStates
    <2>. QED BY <1>7, <1>a, <2>2 DEF PersistLookup, tables
  <1>8. CASE PersistInsert(w)
    <2>. DEFINE before == VisibleCandidates(w)
                row == NewCandidate(ClusterKey(run[w].card.slug))
    <2>1. PICK id \in CandidateIds :
             run'[w] = [run[w] EXCEPT !.pc = "link", !.target = id,
                !.view = [candidates |-> [before EXCEPT ![id] = row],
                          candidate_signals |-> VisibleLinks(w)]]
      BY <1>0, <1>8 DEF PersistInsert
    <2>2. row.dedup_key.slug # NoSlug
      BY <1>8, NewRows DEF PersistInsert, SafeInv, InsertHasCard, Cards
    <2>3. before \in [CandidateIds -> CandidateRows] /\ VisibleLinks(w) \subseteq CandidateIds \X RawIds
      BY VisibleTypes DEF SafeInv
    <2>. HIDE DEF before, row
    <2>4. /\ run'[w].target = id
          /\ run'[w].view.candidates = [before EXCEPT ![id] = row]
          /\ run'[w].view.candidate_signals = VisibleLinks(w)
      BY <1>0, <2>1 DEF RunStates
    <2>5. /\ VisibleCandidates(w)' = run'[w].view.candidates
          /\ VisibleLinks(w)' = run'[w].view.candidate_signals
      BY <1>8 DEF PersistInsert, VisibleCandidates, VisibleLinks, InTransaction
    <2>6. \A c \in CandidateIds : c = id \/ Exists(before, c) => Exists(VisibleCandidates(w)', c)
      BY <2>2, <2>3, <2>4, <2>5 DEF Exists
    <2>7. \A l \in VisibleLinks(w) : l[1] \in CandidateIds /\ Exists(before, l[1])
      BY <1>0, <2>3 DEF before
    <2>. QED BY <2>4, <2>5, <2>6, <2>7 DEF Own
  <1>9. CASE PersistLink(w)
    <2>. DEFINE linked(r) == [run[w] EXCEPT !.card.signals = @ \ {r}]
                link(r) == <<run[w].target, r>>
                noted(r) == [linked(r) EXCEPT !.view.candidate_signals = @ \cup {link(r)}]
    <2>1. PICK r \in run[w].card.signals :
             \/ run'[w] = linked(r) /\ UNCHANGED candidate_signals
             \/ run'[w] = noted(r) /\ UNCHANGED candidate_signals /\ InTransaction(w)
             \/ /\ run'[w] = linked(r)
                /\ candidate_signals' = candidate_signals \cup {link(r)}
                /\ ~InTransaction(w)
      BY <1>0, <1>9 DEF PersistLink, NoOpenTransaction, InTransaction
    <2>2. /\ linked(r).view = run[w].view
          /\ noted(r).view.candidates = run[w].view.candidates
          /\ noted(r).view.candidate_signals = run[w].view.candidate_signals \cup {link(r)}
          /\ linked(r).target = run[w].target
          /\ noted(r).target = run[w].target
      BY <1>0 DEF RunStates, View
    <2>3. UNCHANGED <<candidates, write_lock>> /\ run[w].pc = "link"
      BY <1>9 DEF PersistLink
    <2>4. run'[w].target = run[w].target
      BY <2>1, <2>2
    <2>. HIDE DEF linked, noted
    <2>5. /\ VisibleCandidates(w)' = VisibleCandidates(w)
          /\ VisibleLinks(w)' \subseteq VisibleLinks(w) \cup {link(r)}
      BY <2>1, <2>2, <2>3 DEF VisibleCandidates, VisibleLinks, InTransaction
    <2>6. \A l \in VisibleLinks(w)' : Exists(VisibleCandidates(w), l[1])
      BY <1>0, <2>3, <2>5
    <2>. QED BY <1>0, <2>3, <2>4, <2>5, <2>6 DEF Own
  <1>10. CASE PersistNextCard(w)
    <2>1. run'[w].view = run[w].view /\ run'[w].pc = "lookup"
      BY <1>0, <1>10 DEF PersistNextCard, RunStates
    <2>. QED BY <1>10, <1>a, <2>1 DEF PersistNextCard, tables
  <1>11. CASE PersistCommit(w)
    <2>1. /\ ~InTransaction(w)'
          /\ candidates' = VisibleCandidates(w) /\ candidate_signals' = VisibleLinks(w)
          /\ run'[w].pc = "idle"
      BY <1>0, <1>11 DEF PersistCommit, InTransaction, RunIdle
    <2>2. VisibleCandidates(w)' = VisibleCandidates(w) /\ VisibleLinks(w)' = VisibleLinks(w)
      BY <2>1 DEF VisibleCandidates, VisibleLinks
    <2>. QED BY <1>0, <2>1, <2>2 DEF Own
  <1>12. CASE ClusterFail(w)
    BY <1>0, <1>12, <1>b DEF ClusterFail, RunIdle, InTransaction
  <1>13. CASE LinkCollides(w)
    <2>1. /\ run[w].pc = "link" /\ ~InTransaction(w) /\ InTransaction(w)'
          /\ UNCHANGED <<candidates, candidate_signals>>
      BY <1>0, <1>13 DEF LinkCollides, NoOpenTransaction, InTransaction
    <2>2. /\ run'[w].target = run[w].target
          /\ run'[w].view.candidates = candidates
          /\ run'[w].view.candidate_signals = candidate_signals
      BY <1>0, <1>13 DEF LinkCollides, RunStates
    <2>3. VisibleCandidates(w)' = VisibleCandidates(w) /\ VisibleLinks(w)' = VisibleLinks(w)
      BY <2>1, <2>2 DEF VisibleCandidates, VisibleLinks
    <2>. QED BY <1>0, <2>1, <2>2, <2>3 DEF Own
  <1>. QED BY <1>1, <1>2, <1>3, <1>4, <1>5, <1>6, <1>7, <1>8, <1>9, <1>10, <1>11, <1>12, <1>13
           DEF ClusterStep

\* A cluster run links only candidates that exist in what it sees.
LEMMA LinksCluster ==
    ASSUME SafeInv, LinksExist, ClusterNext
    PROVE  LinksExist'
  <1>. PICK w \in ClusterRuns : ClusterStep(w) \/ ClusterFail(w)
    BY DEF ClusterNext
  <1>0. /\ \A v \in ClusterRuns \ {w} :
              /\ run'[v] = run[v]
              /\ InTransaction(v)' <=> InTransaction(v)
        /\ Adds(candidates, candidates')
        /\ \A v \in ClusterRuns : run[v] \in RunLocals
        /\ candidate_signals \subseteq CandidateIds \X RawIds
    BY ClusterFrame DEF SafeInv, TypeInv, TypeOK, LinkHasTarget
  <1>k. \A c \in CandidateIds : Exists(candidates, c) => Exists(candidates', c)
    BY <1>0, AddsKeeps
  <1>1. \A link \in candidate_signals' : Exists(candidates', link[1])
    <2>1. \/ PersistCommit(w)
          \/ PersistLink(w)
          \/ candidate_signals' = candidate_signals
      BY DEF ClusterStep, ClusterLoad, HaikuNull, HaikuComplaint, ClusterBucket, ClusterJudge,
             ClusterJudged, PersistLookup, PersistInsert, LinkCollides, PersistNextCard, ClusterFail,
             tables
    <2>2. CASE candidate_signals' = candidate_signals
      BY <1>0, <1>k, <2>2 DEF LinksExist
    <2>3. CASE PersistCommit(w)
      BY <2>3 DEF PersistCommit, LinksExist
    <2>4. CASE PersistLink(w) /\ candidate_signals' # candidate_signals
      <3>1. PICK r : candidate_signals' = candidate_signals \cup {<<run[w].target, r>>}
                     /\ ~InTransaction(w)
        BY <2>4, TablesAssumption DEF PersistLink, NoOpenTransaction, InTransaction
      <3>2. candidates' = candidates /\ Exists(candidates, run[w].target)
        BY <2>4, <3>1 DEF PersistLink, LinksExist, VisibleCandidates
      <3>. QED BY <3>1, <3>2 DEF LinksExist
    <2>. QED BY <2>1, <2>2, <2>3, <2>4
  <1>2. ASSUME NEW v \in ClusterRuns
        PROVE  /\ \A link \in VisibleLinks(v)' : Exists(VisibleCandidates(v)', link[1])
               /\ run'[v].pc = "link" => Exists(VisibleCandidates(v)', run'[v].target)
    <2>1. CASE v = w
      BY <2>1, LinksOwn
    <2>2. CASE v # w /\ InTransaction(v)
      BY <1>0, <2>2 DEF LinksExist, VisibleLinks, VisibleCandidates
    <2>3. CASE v # w /\ ~InTransaction(v)
      <3>1. run[v].pc = "link" => run[v].target \in CandidateIds /\ Exists(candidates, run[v].target)
        BY <1>0, <2>3 DEF LinksExist, VisibleCandidates, RunLocals, RunStates
      <3>. QED BY <1>0, <1>1, <1>k, <2>3, <3>1 DEF VisibleLinks, VisibleCandidates
    <2>. QED BY <2>1, <2>2, <2>3
  <1>. QED BY <1>1, <1>2 DEF LinksExist, Exists

\* Every step of the system keeps the targets of links in existence.
LEMMA LinksStep == SafeInv /\ LinksExist /\ [Next]_vars => LinksExist'
  <1>. SUFFICES ASSUME SafeInv, LinksExist, [Next]_vars PROVE LinksExist'
    OBVIOUS
  <1>1. ASSUME UNCHANGED <<candidates, candidate_signals, write_lock, run>> PROVE LinksExist'
    BY <1>1, LinksQuiet DEF LinksExist, Exists
  <1>2. CASE UNCHANGED vars
    BY <1>1, <1>2 DEF vars, tables
  <1>3. CASE (IngestRow \/ NormalizeNext) /\ UNCHANGED run
    BY <1>1, <1>3 DEF IngestRow, NormalizeNext, NormalizeStart, NormalizeSelectBatch, NormalizeRow,
                      NormalizeCommitBatch, NormalizeFail, tables
  <1>4. CASE ClusterNext
    BY <1>4, LinksCluster
  <1>5. CASE MergeNext /\ UNCHANGED run
    <2>1. CASE \E m \in Mergers, slug \in Slugs : MergeCommit(m, slug)
      <3>. PICK m \in Mergers, slug \in Slugs : MergeCommit(m, slug) BY <2>1
      <3>. DEFINE ids == merging[m]
      <3>1. ids \in SUBSET CandidateIds /\ \A c \in ids : Exists(candidates, c)
        BY DEF SafeInv, RequestsExist, TypeInv, TypeOK, MergeTypeOK
      <3>2. PICK new \in CandidateIds :
               /\ NextId(candidates, new)
               /\ candidates' = AfterMerge(ids, new, MergedKey(ids, slug))
               /\ candidate_signals' = AfterRelink(ids, new)
        BY DEF MergeCommit
      <3>. HIDE DEF ids
      <3>3. \A c \in CandidateIds : Exists(candidates', c) <=> c = new \/ Exists(candidates, c)
        BY <3>1, <3>2, MergeRows
      <3>4. \A link \in candidate_signals' : Exists(candidates', link[1])
        BY <3>2, <3>3 DEF AfterRelink, LinksExist, SafeInv, TypeInv, TypeOK
      <3>. QED BY <1>5, <3>3, <3>4, LinksQuiet DEF MergeCommit
    <2>2. CASE ~\E m \in Mergers, slug \in Slugs : MergeCommit(m, slug)
      BY <1>1, <1>5, <2>2 DEF MergeNext, MergeBegin, MergeFail, tables
    <2>. QED BY <2>1, <2>2
  <1>6. CASE InboxNext /\ UNCHANGED run
    <2>1. CASE \E o \in Operators : DecideCommit(o)
      <3>. PICK o \in Operators : DecideCommit(o) BY <2>1
      <3>1. \A c \in CandidateIds : Exists(candidates, c) => Exists(candidates', c)
        BY VerdictRows DEF Exists
      <3>2. UNCHANGED <<candidate_signals, write_lock>>
        BY DEF DecideCommit
      <3>3. \A link \in candidate_signals : link[1] \in CandidateIds
        BY DEF SafeInv, TypeInv, TypeOK
      <3>. QED BY <1>6, <3>1, <3>2, <3>3, LinksQuiet DEF LinksExist
    <2>2. CASE ~\E o \in Operators : DecideCommit(o)
      BY <1>1, <1>6, <2>2 DEF InboxNext, DecideLoad, DecideFail, tables
    <2>. QED BY <2>1, <2>2
  <1>7. CASE Crash
    BY <1>7, TablesAssumption
       DEF Crash, LinksExist, VisibleLinks, VisibleCandidates, InTransaction, RunIdle, Exists
  <1>. QED BY <1>2, <1>3, <1>4, <1>5, <1>6, <1>7 DEF Next
===========================================================================
