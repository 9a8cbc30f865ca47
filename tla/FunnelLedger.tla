--------------------------- MODULE FunnelLedger ---------------------------
(***************************************************************************)
(* Proof that, with one merge request at a time, no candidate is on        *)
(* display without evidence, no candidate is merged twice, and the funnel  *)
(* implements IdeaLedger.  Overlapping merge requests break all three: the *)
(* run double_merge shows how.  With one decision request at a time, the   *)
(* decision displayed is the last approval's verdict.                      *)
(***************************************************************************)
EXTENDS FunnelSafety

OneMerge == \A m, n \in Mergers : m = n

\* What a request validated is still true when it commits.
Valid(ids) ==
    /\ ids # {} => \E c, d \in ids : c # d
    /\ \A c \in ids : IsLive(candidates, c)
RequestsValid == \A m \in Mergers : Valid(merging[m])

\* No card without evidence gets as far as an INSERT.
CardsHaveEvidence ==
    \A w \in ClusterRuns :
        /\ \A card \in run[w].cards : HasEvidence(card)
        /\ run[w].pc = "insert" => HasEvidence(run[w].card)

Evident(table, links, c) == IsLive(table, c) => \E r \in RawIds : <<c, r>> \in links

\* In an open transaction only the candidate just inserted may have no evidence yet.
ViewHasEvidence ==
    \A w \in ClusterRuns : InTransaction(w) =>
        \A c \in CandidateIds :
            \/ Evident(run[w].view.candidates, run[w].view.candidate_signals, c)
            \/ run[w].pc = "link" /\ run[w].target = c /\ HasEvidence(run[w].card)

EvidenceInv ==
    /\ SafeInv
    /\ LinksExist
    /\ RequestsValid
    /\ CardsHaveEvidence
    /\ ViewHasEvidence
    /\ LiveHasEvidence

---------------------------------------------------------------------------
\* The invariant holds of the empty database.
LEMMA EvidenceInit == Init => EvidenceInv
  <1>. SUFFICES ASSUME Init PROVE EvidenceInv OBVIOUS
  <1>1. SafeInv /\ LinksExist BY SafeInit, LinksInit
  <1>. USE DEF Init, TablesInit, NoRequests
  <1>2. RequestsValid BY DEF RequestsValid, Valid
  <1>3. CardsHaveEvidence BY DEF CardsHaveEvidence, RunIdle
  <1>4. ViewHasEvidence BY TablesAssumption DEF ViewHasEvidence, InTransaction
  <1>5. LiveHasEvidence BY NewRows DEF LiveHasEvidence, IsLive, Exists
  <1>. QED BY <1>1, <1>2, <1>3, <1>4, <1>5 DEF EvidenceInv

\* Every kind of step of a cluster run, by what it does to the cards it still has.
LEMMA CardsStep ==
    ASSUME EvidenceInv, NEW w \in ClusterRuns, ClusterStep(w) \/ ClusterFail(w)
    PROVE  /\ \A card \in run'[w].cards : HasEvidence(card)
           /\ run'[w].pc = "insert" => HasEvidence(run'[w].card)
  <1>0. /\ run \in [ClusterRuns -> RunStates] /\ run[w] \in RunStates
        /\ \A card \in run[w].cards : HasEvidence(card)
    BY DEF EvidenceInv, SafeInv, TypeInv, TypeOK, RunTypeOK, CardsHaveEvidence
  <1>a. ASSUME run'[w].cards = run[w].cards, run'[w].pc # "insert"
        PROVE  /\ \A card \in run'[w].cards : HasEvidence(card)
               /\ run'[w].pc = "insert" => HasEvidence(run'[w].card)
    BY <1>0, <1>a
  <1>b. ASSUME run' = [run EXCEPT ![w] = RunIdle]
        PROVE  /\ \A card \in run'[w].cards : HasEvidence(card)
               /\ run'[w].pc = "insert" => HasEvidence(run'[w].card)
    BY <1>0, <1>b DEF RunIdle
  <1>1. CASE ClusterLoad(w)
    BY <1>0, <1>1 DEF ClusterLoad, RunIdle
  <1>2. CASE \E r \in RawIds : HaikuNull(w, r)
    BY <1>0, <1>2, <1>a DEF HaikuNull, PrepassSignal, RunStates
  <1>3. CASE \E r \in RawIds, topic \in Topics : HaikuComplaint(w, r, topic)
    BY <1>0, <1>3, <1>a DEF HaikuComplaint, PrepassSignal, RunStates
  <1>4. CASE ClusterBucket(w)
    BY <1>0, <1>4, <1>a DEF ClusterBucket, RunStates
  <1>5. CASE \E bucket \in run[w].buckets, answer \in Answers : ClusterJudge(w, bucket, answer)
    <2>. PICK bucket \in run[w].buckets, answer \in Answers : ClusterJudge(w, bucket, answer)
      BY <1>5
    <2>1. run'[w].cards = run[w].cards \cup KeptCards(answer, bucket) /\ run'[w].pc = "judge"
      BY <1>0 DEF ClusterJudge, RunStates
    <2>2. \A card \in KeptCards(answer, bucket) : HasEvidence(card)
      BY DEF KeptCards
    <2>. QED BY <1>0, <2>1, <2>2
  <1>6. CASE ClusterJudged(w)
    BY <1>0, <1>6, <1>a DEF ClusterJudged, RunStates
  <1>7. CASE PersistLookup(w)
    <2>1. PICK card \in run[w].cards :
             LET picked == [run[w] EXCEPT !.cards = @ \ {card}, !.card = card]
             IN  \/ run'[w] = [picked EXCEPT !.pc = "insert"]
                 \/ \E c \in CandidateIds :
                      run'[w] = [picked EXCEPT !.pc = "link", !.target = c]
      BY <1>0, <1>7 DEF PersistLookup
    <2>2. run'[w].cards \subseteq run[w].cards /\ run'[w].card = card
      <3>1. CASE run'[w] = [[run[w] EXCEPT !.cards = @ \ {card}, !.card = card] EXCEPT
                              !.pc = "insert"]
        BY ONLY <1>0, <3>1 DEF RunStates
      <3>2. CASE \E c \in CandidateIds :
                   run'[w] = [[run[w] EXCEPT !.cards = @ \ {card}, !.card = card] EXCEPT
                                !.pc = "link", !.target = c]
        BY ONLY <1>0, <3>2 DEF RunStates
      <3>. QED BY <2>1, <3>1, <3>2
    <2>3. HasEvidence(card) /\ \A other \in run'[w].cards : HasEvidence(other)
      BY ONLY <1>0, <2>1, <2>2
    <2>. QED BY ONLY <2>2, <2>3
  <1>8. CASE PersistInsert(w)
    BY <1>0, <1>8, <1>a DEF PersistInsert, RunStates
  <1>9. CASE PersistLink(w)
    <2>1. run[w].pc = "link" BY <1>9 DEF PersistLink
    <2>2. PICK r \in run[w].card.signals :
             LET linked == [run[w] EXCEPT !.card.signals = @ \ {r}]
             IN  \/ run'[w] = linked
                 \/ \E links : run'[w] = [linked EXCEPT !.view.candidate_signals = links]
      BY <1>0, <1>9 DEF PersistLink
    <2>3. run'[w].cards = run[w].cards /\ run'[w].pc = "link"
      BY <1>0, <2>1, <2>2 DEF RunStates
    <2>. QED BY <1>a, <2>3
  <1>10. CASE PersistNextCard(w)
    BY <1>0, <1>10, <1>a DEF PersistNextCard, RunStates
  <1>11. CASE PersistCommit(w) \/ ClusterFail(w)
    BY <1>11, <1>b DEF PersistCommit, ClusterFail
  <1>12. CASE LinkCollides(w)
    BY <1>0, <1>12, <1>a DEF LinkCollides, RunStates
  <1>. QED BY <1>1, <1>2, <1>3, <1>4, <1>5, <1>6, <1>7, <1>8, <1>9, <1>10, <1>11, <1>12
           DEF ClusterStep

\* The visible tables satisfy what the view does, whether a transaction is open or not.
LEMMA VisibleEvidence ==
    ASSUME EvidenceInv, NEW w \in ClusterRuns, NEW c \in CandidateIds
    PROVE  \/ Evident(VisibleCandidates(w), VisibleLinks(w), c)
           \/ run[w].pc = "link" /\ run[w].target = c /\ HasEvidence(run[w].card)
  BY DEF EvidenceInv, ViewHasEvidence, LiveHasEvidence, Evident, VisibleCandidates, VisibleLinks

\* The run that steps keeps the evidence of what it sees in order.
LEMMA OwnEvidence ==
    ASSUME EvidenceInv, NEW w \in ClusterRuns, ClusterStep(w) \/ ClusterFail(w),
           InTransaction(w)', NEW c \in CandidateIds
    PROVE  \/ Evident(run'[w].view.candidates, run'[w].view.candidate_signals, c)
           \/ run'[w].pc = "link" /\ run'[w].target = c /\ HasEvidence(run'[w].card)
  <1>0. w # NoRun /\ run \in [ClusterRuns -> RunStates] /\ run[w] \in RunStates
    BY TablesAssumption DEF EvidenceInv, SafeInv, TypeInv, TypeOK, RunTypeOK
  <1>. DEFINE Own == \/ Evident(run'[w].view.candidates, run'[w].view.candidate_signals, c)
                     \/ run'[w].pc = "link" /\ run'[w].target = c /\ HasEvidence(run'[w].card)
  <1>p. run'[w].pc \in {"lookup", "insert", "link"}
    BY OwnView DEF EvidenceInv
  <1>v. InTransaction(w) =>
           /\ VisibleCandidates(w) = run[w].view.candidates
           /\ VisibleLinks(w) = run[w].view.candidate_signals
    BY DEF VisibleCandidates, VisibleLinks
  <1>a. ASSUME UNCHANGED write_lock, run'[w].view = run[w].view,
               run[w].pc # "link" \/ ~HasEvidence(run[w].card)
        PROVE  Own
    <2>1. Evident(run[w].view.candidates, run[w].view.candidate_signals, c)
      BY <1>a, <1>v, VisibleEvidence DEF InTransaction
    <2>. QED BY <1>a, <2>1
  <1>. SUFFICES Own OBVIOUS
  <1>1. CASE PersistLookup(w)
    <2>1. PICK card \in run[w].cards :
             LET picked == [run[w] EXCEPT !.cards = @ \ {card}, !.card = card]
             IN  \/ run'[w] = [picked EXCEPT !.pc = "insert"]
                 \/ \E d \in CandidateIds :
                      run'[w] = [picked EXCEPT !.pc = "link", !.target = d]
      BY <1>0, <1>1 DEF PersistLookup
    <2>2. run'[w].view = run[w].view
      BY <1>0, <2>1 DEF RunStates
    <2>. QED BY <1>1, <1>a, <2>2 DEF PersistLookup, tables
  <1>2. CASE PersistInsert(w)
    <2>. DEFINE before == VisibleCandidates(w)
                row == NewCandidate(ClusterKey(run[w].card.slug))
    <2>a. PICK id \in CandidateIds :
             run'[w] = [run[w] EXCEPT !.pc = "link", !.target = id,
                !.view = [candidates |-> [before EXCEPT ![id] = row],
                          candidate_signals |-> VisibleLinks(w)]]
      BY <1>0, <1>2 DEF PersistInsert
    <2>1. /\ run'[w].pc = "link"
          /\ run'[w].target = id
          /\ run'[w].card = run[w].card
          /\ run'[w].view = [candidates |-> [before EXCEPT ![id] = row],
                             candidate_signals |-> VisibleLinks(w)]
      <3>. HIDE DEF before, row
      <3>. QED BY <1>0, <2>a DEF RunStates
    <2>2. run[w].pc = "insert" /\ HasEvidence(run[w].card)
      BY <1>2 DEF PersistInsert, EvidenceInv, CardsHaveEvidence
    <2>3. CASE c = id
      BY <2>1, <2>2, <2>3
    <2>4. CASE c # id
      <3>1. Evident(before, VisibleLinks(w), c)
        BY <2>2, VisibleEvidence
      <3>2. before \in [CandidateIds -> CandidateRows]
        BY VisibleTypes DEF EvidenceInv, SafeInv
      <3>3. run'[w].view.candidates[c] = before[c]
            /\ run'[w].view.candidate_signals = VisibleLinks(w)
        <4>. HIDE DEF before, row
        <4>. QED BY <2>1, <2>4, <3>2
      <3>. HIDE DEF before
      <3>. QED BY <3>1, <3>3 DEF Evident, IsLive, Exists
    <2>. QED BY <2>3, <2>4
  <1>3. CASE PersistLink(w)
    <2>. DEFINE linked(r) == [run[w] EXCEPT !.card.signals = @ \ {r}]
                link(r) == <<run[w].target, r>>
                noted(r) == [linked(r) EXCEPT !.view.candidate_signals = @ \cup {link(r)}]
                links == run[w].view.candidate_signals
    <2>l. write_lock' = write_lock /\ InTransaction(w)
      BY <1>3 DEF PersistLink, InTransaction
    <2>1. PICK r \in run[w].card.signals :
             \/ link(r) \in links /\ run'[w] = linked(r)
             \/ run'[w] = noted(r)
      BY <1>0, <1>3, <2>l DEF PersistLink, VisibleLinks, InTransaction, NoOpenTransaction
    <2>2. /\ linked(r).view = run[w].view
          /\ noted(r).view.candidates = run[w].view.candidates
          /\ noted(r).view.candidate_signals = links \cup {link(r)}
      BY <1>0 DEF RunStates, View
    <2>3. /\ run'[w].view.candidates = run[w].view.candidates
          /\ links \cup {link(r)} \subseteq run'[w].view.candidate_signals
      <3>. HIDE DEF linked, noted, link
      <3>. QED BY <2>1, <2>2
    <2>4. r \in RawIds
      BY <1>0 DEF RunStates, Cards, NoCard
    <2>5. CASE c = run[w].target
      BY <2>3, <2>4, <2>5 DEF Evident
    <2>6. CASE c # run[w].target
      <3>1. Evident(run[w].view.candidates, links, c)
        BY <1>v, <2>l, <2>6, VisibleEvidence
      <3>. HIDE DEF links, link
      <3>. QED BY <2>3, <3>1 DEF Evident
    <2>. QED BY <2>5, <2>6
  <1>4. CASE PersistNextCard(w)
    <2>1. run'[w].view = run[w].view /\ ~HasEvidence(run[w].card)
      BY <1>0, <1>4 DEF PersistNextCard, RunStates, HasEvidence
    <2>. QED BY <1>4, <1>a, <2>1 DEF PersistNextCard, tables
  <1>5. CASE PersistCommit(w) \/ ClusterFail(w)
    BY <1>0, <1>5 DEF PersistCommit, ClusterFail, InTransaction
  <1>7. CASE LinkCollides(w)
    <2>1. PICK r \in run[w].card.signals :
             /\ <<run[w].target, r>> \in candidate_signals
             /\ run'[w] = [run[w] EXCEPT !.card.signals = @ \ {r},
                              !.view = [candidates |-> candidates,
                                        candidate_signals |-> candidate_signals]]
      BY <1>0, <1>7 DEF LinkCollides
    <2>2. /\ run'[w].view.candidates = candidates
          /\ run'[w].view.candidate_signals = candidate_signals
      BY <1>0, <2>1 DEF RunStates
    <2>3. r \in RawIds
      BY <1>0 DEF RunStates, Cards, NoCard
    <2>4. CASE c = run[w].target
      BY <2>1, <2>2, <2>3, <2>4 DEF Evident
    <2>5. CASE c # run[w].target
      <3>1. ~InTransaction(w)
        BY <1>0, <1>7 DEF LinkCollides, NoOpenTransaction, InTransaction
      <3>2. Evident(candidates, candidate_signals, c)
        BY <2>5, <3>1, VisibleEvidence DEF VisibleCandidates, VisibleLinks
      <3>. QED BY <2>2, <3>2 DEF Evident
    <2>. QED BY <2>4, <2>5
  <1>6. CASE /\ ~PersistLookup(w) /\ ~PersistInsert(w) /\ ~PersistLink(w) /\ ~LinkCollides(w)
             /\ ~PersistNextCard(w) /\ ~PersistCommit(w) /\ ~ClusterFail(w)
    <2>1. write_lock' = write_lock /\ run[w].pc \in {"idle", "prepass", "judge"}
      BY <1>6 DEF ClusterStep, ClusterLoad, HaikuNull, HaikuComplaint, PrepassSignal, ClusterBucket,
                  ClusterJudge, ClusterJudged, tables
    <2>. QED BY <2>1 DEF InTransaction, EvidenceInv, SafeInv, ViewExtends
  <1>. QED BY <1>1, <1>2, <1>3, <1>4, <1>5, <1>6, <1>7

\* A cluster run that steps or fails keeps it: new candidates commit with their links.
LEMMA EvidenceCluster ==
    ASSUME EvidenceInv, SafeInv', LinksExist', ClusterNext, UNCHANGED <<norm, merging, deciding>>
    PROVE  EvidenceInv'
  <1>. PICK w \in ClusterRuns : ClusterStep(w) \/ ClusterFail(w)
    BY DEF ClusterNext
  <1>0. /\ \A v \in ClusterRuns \ {w} :
              /\ run'[v] = run[v]
              /\ InTransaction(v)' <=> InTransaction(v)
        /\ Adds(candidates, candidates')
        /\ candidate_signals \subseteq candidate_signals'
        /\ merging \in [Mergers -> SUBSET CandidateIds]
    BY ClusterFrame DEF EvidenceInv, SafeInv, TypeInv, TypeOK, MergeTypeOK
  <1>1. RequestsValid'
    <2>1. \A c \in CandidateIds : IsLive(candidates, c) => IsLive(candidates', c)
      BY <1>0, AddsKeeps DEF IsLive
    <2>. QED BY <1>0, <2>1 DEF EvidenceInv, RequestsValid, Valid, IsLive, Exists
  <1>2. CardsHaveEvidence'
    BY <1>0, CardsStep DEF EvidenceInv, CardsHaveEvidence
  <1>3. ViewHasEvidence'
    <2>. SUFFICES ASSUME NEW v \in ClusterRuns, InTransaction(v)', NEW c \in CandidateIds
                  PROVE  \/ Evident(run'[v].view.candidates, run'[v].view.candidate_signals, c)
                         \/ run'[v].pc = "link" /\ run'[v].target = c /\ HasEvidence(run'[v].card)
      BY DEF ViewHasEvidence, Evident, IsLive, Exists
    <2>1. CASE v = w
      BY <2>1, OwnEvidence
    <2>2. CASE v # w
      BY <1>0, <2>2 DEF EvidenceInv, ViewHasEvidence
    <2>. QED BY <2>1, <2>2
  <1>4. LiveHasEvidence'
    <2>. SUFFICES ASSUME NEW c \in CandidateIds
                  PROVE  Evident(candidates', candidate_signals', c)
      BY DEF LiveHasEvidence, Evident, IsLive, Exists
    <2>1. CASE PersistCommit(w)
      <3>1. run[w].pc = "lookup" /\ candidates' = VisibleCandidates(w)
                                /\ candidate_signals' = VisibleLinks(w)
        BY <2>1 DEF PersistCommit
      <3>. QED BY <3>1, VisibleEvidence
    <2>2. CASE ~PersistCommit(w)
      <3>1. candidates' = candidates
        BY <2>2 DEF ClusterStep, ClusterLoad, HaikuNull, HaikuComplaint, ClusterBucket, ClusterJudge,
                    ClusterJudged, PersistLookup, PersistInsert, PersistLink, LinkCollides,
                    PersistNextCard, ClusterFail, tables
      <3>. QED BY <1>0, <3>1 DEF EvidenceInv, LiveHasEvidence, Evident
    <2>. QED BY <2>1, <2>2
  <1>. QED BY <1>1, <1>2, <1>3, <1>4 DEF EvidenceInv

\* A step of another component that starts no merge and leaves evidence and rows alone.
LEMMA EvidenceQuiet ==
    ASSUME EvidenceInv, SafeInv', LinksExist',
           \A m \in Mergers : merging'[m] = merging[m] \/ Valid(merging'[m]),
           \A c \in CandidateIds : IsLive(candidates', c) <=> IsLive(candidates, c),
           UNCHANGED <<candidate_signals, run>>,
           write_lock' \in {write_lock, NoRun}
    PROVE  EvidenceInv'
  <1>1. RequestsValid'
    <2>1. merging' \in [Mergers -> SUBSET CandidateIds]
      BY DEF SafeInv, TypeInv, TypeOK, MergeTypeOK
    <2>. QED BY <2>1 DEF EvidenceInv, RequestsValid, Valid, IsLive, Exists
  <1>2. CardsHaveEvidence'
    BY DEF EvidenceInv, CardsHaveEvidence
  <1>3. ViewHasEvidence'
    BY TablesAssumption
       DEF EvidenceInv, ViewHasEvidence, InTransaction, Evident, IsLive, Exists
  <1>4. LiveHasEvidence'
    BY DEF EvidenceInv, LiveHasEvidence, IsLive, Exists
  <1>. QED BY <1>1, <1>2, <1>3, <1>4 DEF EvidenceInv

\* The rows of the sources of a request that commits, and of the candidate it creates.
LEMMA MergeCommitRows ==
    ASSUME EvidenceInv, NEW m \in Mergers, NEW slug \in Slugs, MergeCommit(m, slug)
    PROVE  LET ids == merging[m]
           IN  /\ ids \in SUBSET CandidateIds
               /\ \A c \in ids : IsLive(candidates, c)
               /\ \E c, d \in ids : c # d
               /\ \E new \in CandidateIds :
                    /\ ~Exists(candidates, new)
                    /\ new \notin ids
                    /\ IsLive(candidates', new)
                    /\ candidates'[new].decision = "pending"
                    /\ \A c \in ids : /\ ~IsLive(candidates', c)
                                      /\ Exists(candidates', c)
                                      /\ candidates'[c].merged_into = new
                    /\ \A c \in CandidateIds \ (ids \cup {new}) : candidates'[c] = candidates[c]
                    /\ candidate_signals' = AfterRelink(ids, new)
  <1>. DEFINE ids == merging[m]
  <1>1. /\ ids \in SUBSET CandidateIds
        /\ \A c \in ids : IsLive(candidates, c)
        /\ \E c, d \in ids : c # d
    BY DEF MergeCommit, EvidenceInv, RequestsValid, Valid, SafeInv, TypeInv, TypeOK, MergeTypeOK
  <1>2. PICK new \in CandidateIds :
           /\ NextId(candidates, new)
           /\ candidates' = AfterMerge(ids, new, MergedKey(ids, slug))
           /\ candidate_signals' = AfterRelink(ids, new)
    BY DEF MergeCommit
  <1>. HIDE DEF ids
  <1>3. SafeInv /\ \A c \in ids : Exists(candidates, c)
    BY <1>1 DEF EvidenceInv, IsLive
  <1>4. /\ new \notin ids
        /\ candidates'[new].merged_into = Null
        /\ candidates'[new].decision = "pending"
        /\ \A c \in CandidateIds : Exists(candidates', c) <=> c = new \/ Exists(candidates, c)
        /\ \A c \in ids : candidates'[c].merged_into = new
        /\ \A c \in CandidateIds \ (ids \cup {new}) : candidates'[c] = candidates[c]
    BY <1>1, <1>2, <1>3, MergeRows
  <1>5. new # Null
    BY DEF CandidateIds, Null
  <1>6. ~Exists(candidates, new)
    BY <1>2 DEF NextId
  <1>. QED BY <1>1, <1>2, <1>3, <1>4, <1>5, <1>6 DEF IsLive, ids

\* A merge keeps it: its sources are live, so the new candidate gets evidence.
LEMMA EvidenceMerge ==
    ASSUME OneMerge, EvidenceInv, SafeInv', LinksExist', MergeNext, UNCHANGED <<norm, run, deciding>>
    PROVE  EvidenceInv'
  <1>. PICK m \in Mergers :
          \/ \E ids \in SUBSET CandidateIds : MergeBegin(m, ids)
          \/ \E slug \in Slugs : MergeCommit(m, slug)
          \/ MergeFail(m)
    BY DEF MergeNext
  <1>0. merging \in [Mergers -> SUBSET CandidateIds]
    BY DEF EvidenceInv, SafeInv, TypeInv, TypeOK, MergeTypeOK
  <1>1. ASSUME NEW ids \in SUBSET CandidateIds, MergeBegin(m, ids) PROVE EvidenceInv'
    <2>1. Valid(ids)
      BY <1>1 DEF MergeBegin, Valid
    <2>2. \A n \in Mergers : merging'[n] = merging[n] \/ Valid(merging'[n])
      BY <1>0, <1>1, <2>1 DEF MergeBegin
    <2>. QED BY <1>1, <2>2, EvidenceQuiet DEF MergeBegin, tables, IsLive, Exists
  <1>2. ASSUME NEW slug \in Slugs, MergeCommit(m, slug) PROVE EvidenceInv'
    <2>. DEFINE ids == merging[m]
    <2>1. ids \in SUBSET CandidateIds /\ (\A c \in ids : IsLive(candidates, c)) /\ ids # {}
      BY <1>2, MergeCommitRows
    <2>2. PICK new \in CandidateIds :
             /\ new \notin ids
             /\ \A c \in ids : ~IsLive(candidates', c)
             /\ \A c \in CandidateIds \ (ids \cup {new}) : candidates'[c] = candidates[c]
             /\ candidate_signals' = AfterRelink(ids, new)
      BY <1>2, MergeCommitRows
    <2>. HIDE DEF ids
    <2>3. RequestsValid'
      BY <1>0, <1>2 DEF OneMerge, MergeCommit, RequestsValid, Valid
    <2>4. CardsHaveEvidence' /\ ViewHasEvidence'
      BY <1>2, TablesAssumption
         DEF EvidenceInv, CardsHaveEvidence, ViewHasEvidence, InTransaction, MergeCommit,
             NoOpenTransaction
    <2>5. LiveHasEvidence'
      <3>. SUFFICES ASSUME NEW c \in CandidateIds, IsLive(candidates', c)
                    PROVE  \E r \in RawIds : <<c, r>> \in candidate_signals'
        BY DEF LiveHasEvidence, IsLive, Exists
      <3>1. CASE c = new
        <4>1. PICK d \in ids : IsLive(candidates, d)
          BY <2>1
        <4>2. PICK r \in RawIds : <<d, r>> \in candidate_signals
          BY <2>1, <4>1 DEF EvidenceInv, LiveHasEvidence
        <4>3. r \in EvidenceOfAll(candidate_signals, ids)
          BY <4>2 DEF EvidenceOfAll
        <4>. QED BY <2>2, <3>1, <4>3 DEF AfterRelink
      <3>2. CASE c # new
        <4>1. c \notin ids /\ IsLive(candidates, c)
          BY <2>2, <3>2 DEF IsLive, Exists
        <4>2. PICK r \in RawIds : <<c, r>> \in candidate_signals
          BY <4>1 DEF EvidenceInv, LiveHasEvidence
        <4>. QED BY <2>2, <4>1, <4>2 DEF AfterRelink
      <3>. QED BY <3>1, <3>2
    <2>. QED BY <2>3, <2>4, <2>5 DEF EvidenceInv
  <1>3. CASE MergeFail(m)
    <2>1. \A n \in Mergers : merging'[n] = merging[n] \/ Valid(merging'[n])
      BY <1>0, <1>3 DEF MergeFail, Valid
    <2>. QED BY <1>3, <2>1, EvidenceQuiet DEF MergeFail, tables, IsLive, Exists
  <1>. QED BY <1>1, <1>2, <1>3

\* Verdicts leave what is live as it is.
LEMMA InboxKeepsLive ==
    ASSUME SafeInv, InboxNext
    PROVE  /\ \A c \in CandidateIds :
                /\ IsLive(candidates', c) <=> IsLive(candidates, c)
                /\ candidates'[c].merged_into = candidates[c].merged_into
           /\ UNCHANGED <<candidate_signals, write_lock>>
  <1>. PICK o \in Operators :
          \/ \E c \in CandidateIds, verdict \in Asked : DecideLoad(o, c, verdict)
          \/ DecideCommit(o)
          \/ DecideFail(o)
    BY DEF InboxNext
  <1>1. CASE DecideCommit(o)
    BY <1>1, VerdictRows DEF DecideCommit, IsLive, Exists
  <1>2. CASE ~DecideCommit(o)
    BY <1>2 DEF DecideLoad, DecideFail, tables, IsLive, Exists
  <1>. QED BY <1>1, <1>2

\* Every step of the system keeps it.
LEMMA EvidenceStepInv == OneMerge /\ EvidenceInv /\ [Next]_vars => EvidenceInv'
  <1>. SUFFICES ASSUME OneMerge, EvidenceInv, [Next]_vars PROVE EvidenceInv'
    OBVIOUS
  <1>1. SafeInv' /\ LinksExist'
    BY SafeStep, LinksStep DEF EvidenceInv
  <1>2. ASSUME UNCHANGED <<candidates, candidate_signals, write_lock, run, merging>>
        PROVE  EvidenceInv'
    BY <1>1, <1>2, EvidenceQuiet DEF IsLive, Exists
  <1>3. CASE UNCHANGED vars
    BY <1>2, <1>3 DEF vars, tables
  <1>4. CASE IngestRow /\ UNCHANGED <<norm, run, merging, deciding>>
    BY <1>2, <1>4 DEF IngestRow
  <1>5. CASE NormalizeNext /\ UNCHANGED <<run, merging, deciding>>
    BY <1>2, <1>5 DEF NormalizeNext, NormalizeStart, NormalizeSelectBatch, NormalizeRow,
                      NormalizeCommitBatch, NormalizeFail, tables
  <1>6. CASE ClusterNext /\ UNCHANGED <<norm, merging, deciding>>
    BY <1>1, <1>6, EvidenceCluster
  <1>7. CASE MergeNext /\ UNCHANGED <<norm, run, deciding>>
    BY <1>1, <1>7, EvidenceMerge
  <1>8. CASE InboxNext /\ UNCHANGED <<norm, run, merging>>
    <2>1. SafeInv BY DEF EvidenceInv
    <2>. QED BY <1>1, <1>8, <2>1, InboxKeepsLive, EvidenceQuiet
  <1>9. CASE Crash
    <2>1. RequestsValid'
      BY <1>9 DEF Crash, RequestsValid, Valid
    <2>2. CardsHaveEvidence' /\ ViewHasEvidence'
      BY <1>9, TablesAssumption
         DEF Crash, CardsHaveEvidence, RunIdle, ViewHasEvidence, InTransaction
    <2>3. LiveHasEvidence'
      BY <1>9 DEF Crash, EvidenceInv, LiveHasEvidence, IsLive, Exists
    <2>. QED BY <1>1, <2>1, <2>2, <2>3 DEF EvidenceInv
  <1>. QED BY <1>3, <1>4, <1>5, <1>6, <1>7, <1>8, <1>9 DEF Next

---------------------------------------------------------------------------
\* However many cluster runs overlap and fail, every candidate on display rests on a
\* signal, as long as merge requests do not overlap.
THEOREM NothingBaseless ==
    ASSUME OneMerge
    PROVE  Spec => []LiveHasEvidence
  <1>1. Spec => []EvidenceInv
    BY EvidenceInit, EvidenceStepInv, PTL DEF Spec
  <1>2. EvidenceInv => LiveHasEvidence
    BY DEF EvidenceInv
  <1>. QED BY <1>1, <1>2, PTL

\* With one merge request at a time a soft-deleted candidate keeps its successor.
LEMMA MergedOnceStep ==
    ASSUME OneMerge, EvidenceInv, [Next]_vars,
           NEW c \in CandidateIds, candidates[c].merged_into # Null
    PROVE  candidates'[c].merged_into = candidates[c].merged_into
  <1>0. SafeInv /\ Exists(candidates, c) /\ ~IsLive(candidates, c)
    BY DEF EvidenceInv, SafeInv, MergedIntoNewer, IsLive
  <1>1. CASE UNCHANGED candidates
    BY <1>1
  <1>2. CASE ClusterNext
    BY <1>0, <1>2, ClusterFrame, AddsKeeps DEF ClusterNext
  <1>3. CASE MergeNext
    <2>1. CASE \E m \in Mergers, slug \in Slugs : MergeCommit(m, slug)
      <3>. PICK m \in Mergers, slug \in Slugs : MergeCommit(m, slug) BY <2>1
      <3>1. c \notin merging[m]
        BY <1>0, MergeCommitRows
      <3>2. PICK new \in CandidateIds :
               /\ ~Exists(candidates, new)
               /\ \A d \in CandidateIds \ (merging[m] \cup {new}) : candidates'[d] = candidates[d]
        BY MergeCommitRows
      <3>. QED BY <1>0, <3>1, <3>2
    <2>2. CASE ~\E m \in Mergers, slug \in Slugs : MergeCommit(m, slug)
      BY <1>1, <1>3, <2>2 DEF MergeNext, MergeBegin, MergeFail, tables
    <2>. QED BY <2>1, <2>2
  <1>4. CASE InboxNext
    BY <1>0, <1>4, InboxKeepsLive
  <1>5. CASE IngestRow \/ NormalizeNext \/ Crash \/ UNCHANGED vars
    BY <1>1, <1>5 DEF IngestRow, NormalizeNext, NormalizeStart, NormalizeSelectBatch, NormalizeRow,
                      NormalizeCommitBatch, NormalizeFail, Crash, vars, tables
  <1>. QED BY <1>2, <1>3, <1>4, <1>5 DEF Next

\* Without overlapping merge requests the docstring of _merged_dedup_key holds: a candidate
\* is a source of one merge only.
THEOREM SourcesMergedOnce ==
    ASSUME OneMerge
    PROVE  Spec => MergedOnce
  <1>1. EvidenceInv /\ [Next]_vars
           => [\A c \in CandidateIds : candidates[c].merged_into # Null
                  => candidates'[c].merged_into = candidates[c].merged_into]_vars
    BY MergedOnceStep
  <1>. QED BY <1>1, EvidenceInit, EvidenceStepInv, PTL DEF Spec, MergedOnce

---------------------------------------------------------------------------
\* The state of the ledger, spelled out.
Evidence == [c \in CandidateIds |->
                IF c \in Shown THEN EvidenceOf(candidate_signals, c) ELSE {}]
Verdict == [c \in CandidateIds |-> IF c \in Shown THEN candidates[c].decision ELSE "pending"]

\* A step that leaves links, liveness and decisions alone is a stutter of the ledger.
LEMMA LedgerQuiet ==
    ASSUME \A c \in CandidateIds : /\ IsLive(candidates', c) <=> IsLive(candidates, c)
                                   /\ candidates'[c].decision = candidates[c].decision,
           UNCHANGED candidate_signals
    PROVE  UNCHANGED Ledger!ledger
  BY DEF Ledger!ledger, Shown, EvidenceOf, IsLive, Exists

\* What a cluster run commits is a Publish.
LEMMA LedgerCluster ==
    ASSUME EvidenceInv, EvidenceInv', ClusterNext
    PROVE  Ledger!Publish
  <1>0. Adds(candidates, candidates') /\ candidate_signals \subseteq candidate_signals'
    BY ClusterFrame DEF ClusterNext, EvidenceInv
  <1>1. Shown \subseteq Shown' /\ Shown' \subseteq CandidateIds
    BY <1>0, AddsKeeps DEF Shown, IsLive, Exists
  <1>2. Evidence' \in [CandidateIds -> SUBSET RawIds]
    BY DEF Evidence, EvidenceOf
  <1>3. \A c \in Shown : Evidence[c] \subseteq Evidence'[c]
    BY <1>0, <1>1 DEF Evidence, EvidenceOf
  <1>4. \A c \in Shown' \ Shown : Evidence'[c] # {}
    BY <1>1 DEF Evidence, EvidenceOf, EvidenceInv, LiveHasEvidence, Shown, IsLive, Exists
  <1>5. \A c \in CandidateIds \ Shown' : Evidence'[c] = {}
    BY DEF Evidence
  <1>6. UNCHANGED Verdict
    <2>. SUFFICES ASSUME NEW c \in CandidateIds
                  PROVE  (IF c \in Shown' THEN candidates'[c].decision ELSE "pending")
                       = (IF c \in Shown THEN candidates[c].decision ELSE "pending")
      BY DEF Verdict
    <2>. QED BY <1>0, AddsKeeps DEF Shown, IsLive, Exists
  <1>. QED BY <1>1, <1>2, <1>3, <1>4, <1>5, <1>6 DEF Ledger!Publish, Evidence, Verdict

\* What a merge commits is a Combine.
LEMMA LedgerMerge ==
    ASSUME EvidenceInv, NEW m \in Mergers, NEW slug \in Slugs, MergeCommit(m, slug)
    PROVE  \E from \in SUBSET CandidateIds, into \in CandidateIds : Ledger!Combine(from, into)
  <1>. DEFINE ids == merging[m]
  <1>1. /\ ids \in SUBSET CandidateIds
        /\ \A c \in ids : IsLive(candidates, c)
        /\ \E c, d \in ids : c # d
    BY MergeCommitRows
  <1>2. PICK new \in CandidateIds :
           /\ ~Exists(candidates, new)
           /\ new \notin ids
           /\ IsLive(candidates', new)
           /\ candidates'[new].decision = "pending"
           /\ \A c \in ids : ~IsLive(candidates', c)
           /\ \A c \in CandidateIds \ (ids \cup {new}) : candidates'[c] = candidates[c]
           /\ candidate_signals' = AfterRelink(ids, new)
    BY MergeCommitRows
  <1>. HIDE DEF ids
  <1>3. ids \subseteq Shown /\ new \in CandidateIds \ Shown
    BY <1>1, <1>2 DEF Shown, IsLive
  <1>4. Shown' = (Shown \ ids) \cup {new}
    BY <1>1, <1>2, <1>3 DEF Shown, IsLive, Exists
  <1>5. Verdict[new] = "pending"
    BY <1>3 DEF Verdict
  <1>6. Verdict' = [c \in CandidateIds |-> IF c \in ids THEN "pending" ELSE Verdict[c]]
    <2>. SUFFICES ASSUME NEW c \in CandidateIds
                  PROVE  (IF c \in Shown' THEN candidates'[c].decision ELSE "pending")
                       = IF c \in ids THEN "pending" ELSE Verdict[c]
      BY DEF Verdict
    <2>. QED BY <1>2, <1>3, <1>4 DEF Verdict
  <1>7. Evidence' = [c \in CandidateIds |->
                       IF c = new THEN {r \in RawIds : \E d \in ids : r \in Evidence[d]}
                       ELSE IF c \in ids THEN {} ELSE Evidence[c]]
    <2>. SUFFICES ASSUME NEW c \in CandidateIds
                  PROVE  (IF c \in Shown' THEN EvidenceOf(candidate_signals', c) ELSE {})
                       = IF c = new THEN {r \in RawIds : \E d \in ids : r \in Evidence[d]}
                         ELSE IF c \in ids THEN {} ELSE Evidence[c]
      BY DEF Evidence, EvidenceOf
    <2>1. \A r \in RawIds : <<new, r>> \notin candidate_signals
      BY <1>2 DEF EvidenceInv, LinksExist
    <2>2. CASE c = new
      <3>1. \A r \in RawIds : <<new, r>> \in candidate_signals'
               <=> \E d \in ids : <<d, r>> \in candidate_signals
        BY <1>2, <2>1 DEF AfterRelink, EvidenceOfAll
      <3>2. \A d \in ids : Evidence[d] = {r \in RawIds : <<d, r>> \in candidate_signals}
        BY <1>1, <1>3 DEF Evidence, EvidenceOf
      <3>. QED BY <1>4, <2>2, <3>1, <3>2 DEF EvidenceOf
    <2>3. CASE c # new
      <3>1. c \notin ids => \A r \in RawIds :
               <<c, r>> \in candidate_signals' <=> <<c, r>> \in candidate_signals
        BY <1>2, <2>3 DEF AfterRelink
      <3>. QED BY <1>2, <1>4, <2>3, <3>1 DEF EvidenceOf, Evidence
    <2>. QED BY <2>2, <2>3
  <1>. QED BY <1>1, <1>3, <1>4, <1>5, <1>6, <1>7 DEF Ledger!Combine, Evidence, Verdict

\* A verdict on a candidate on display is a Decide; on a soft-deleted one it is a stutter.
LEMMA LedgerInbox ==
    ASSUME EvidenceInv, InboxNext
    PROVE  \/ \E c \in CandidateIds, verdict \in Verdicts : Ledger!Decide(c, verdict)
           \/ UNCHANGED Ledger!ledger
  <1>0. SafeInv
    BY DEF EvidenceInv
  <1>1. CASE \E o \in Operators : DecideCommit(o)
    <2>. PICK o \in Operators : DecideCommit(o) BY <1>1
    <2>. DEFINE c == deciding[o].candidate
                verdict == deciding[o].verdict
    <2>1. /\ c \in CandidateIds /\ verdict \in Verdicts
          /\ \A d \in CandidateIds : d # c => candidates'[d] = candidates[d]
          /\ candidates'[c].decision \in {candidates[c].decision, verdict}
      BY <1>0, VerdictRows
    <2>2. /\ \A d \in CandidateIds : IsLive(candidates', d) <=> IsLive(candidates, d)
          /\ UNCHANGED candidate_signals
      BY <1>0, InboxKeepsLive
    <2>. HIDE DEF c, verdict
    <2>3. Shown' = Shown /\ Evidence' = Evidence
      BY <2>2 DEF Shown, Evidence, EvidenceOf, IsLive, Exists
    <2>4. CASE c \in Shown /\ candidates'[c].decision = verdict
      <3>1. Verdict' = [Verdict EXCEPT ![c] = verdict]
        <4>. SUFFICES ASSUME NEW d \in CandidateIds
                      PROVE  (IF d \in Shown' THEN candidates'[d].decision ELSE "pending")
                           = [Verdict EXCEPT ![c] = verdict][d]
          BY DEF Verdict
        <4>. QED BY <2>1, <2>3, <2>4 DEF Verdict
      <3>. QED BY <2>1, <2>3, <2>4, <3>1 DEF Ledger!Decide, Verdict, Evidence
    <2>5. CASE c \notin Shown \/ candidates'[c].decision = candidates[c].decision
      <3>1. Verdict' = Verdict
        <4>. SUFFICES ASSUME NEW d \in CandidateIds
                      PROVE  (IF d \in Shown' THEN candidates'[d].decision ELSE "pending")
                           = (IF d \in Shown THEN candidates[d].decision ELSE "pending")
          BY DEF Verdict
        <4>. QED BY <2>1, <2>3, <2>5
      <3>. QED BY <2>3, <3>1 DEF Ledger!ledger, Verdict, Evidence
    <2>. QED BY <2>1, <2>4, <2>5
  <1>2. CASE ~\E o \in Operators : DecideCommit(o)
    <2>1. UNCHANGED <<candidates, candidate_signals>>
      BY <1>2 DEF InboxNext, DecideLoad, DecideFail, tables
    <2>. QED BY <2>1, LedgerQuiet DEF IsLive, Exists
  <1>. QED BY <1>1, <1>2

\* Every step of the system is a step of the ledger or a stutter.
LEMMA LedgerStep ==
    ASSUME OneMerge, EvidenceInv, EvidenceInv', [Next]_vars
    PROVE  [Ledger!LedgerNext]_Ledger!ledger
  <1>1. ASSUME UNCHANGED <<candidates, candidate_signals>> PROVE UNCHANGED Ledger!ledger
    BY <1>1, LedgerQuiet DEF IsLive, Exists
  <1>2. CASE ClusterNext
    BY <1>2, LedgerCluster DEF Ledger!LedgerNext
  <1>3. CASE MergeNext
    <2>1. CASE \E m \in Mergers, slug \in Slugs : MergeCommit(m, slug)
      BY <2>1, LedgerMerge DEF Ledger!LedgerNext
    <2>2. CASE ~\E m \in Mergers, slug \in Slugs : MergeCommit(m, slug)
      BY <1>1, <1>3, <2>2 DEF MergeNext, MergeBegin, MergeFail, tables
    <2>. QED BY <2>1, <2>2
  <1>4. CASE InboxNext
    BY <1>4, LedgerInbox DEF Ledger!LedgerNext
  <1>5. CASE IngestRow \/ NormalizeNext \/ Crash \/ UNCHANGED vars
    BY <1>1, <1>5 DEF IngestRow, NormalizeNext, NormalizeStart, NormalizeSelectBatch, NormalizeRow,
                      NormalizeCommitBatch, NormalizeFail, Crash, vars, tables
  <1>. QED BY <1>2, <1>3, <1>4, <1>5 DEF Next

\* The empty database shows the empty ledger.
LEMMA LedgerStart == Init => Ledger!LedgerInit
  <1>. SUFFICES ASSUME Init PROVE Ledger!LedgerInit OBVIOUS
  <1>1. \A c \in CandidateIds : ~IsLive(candidates, c)
    BY NewRows DEF Init, TablesInit, IsLive, Exists
  <1>2. Shown = {}
    BY <1>1 DEF Shown
  <1>. QED BY <1>2 DEF Ledger!LedgerInit

\* With one merge request at a time the whole funnel implements the ledger: what the inbox
\* displays changes only by publishing with evidence, combining and deciding.
THEOREM FunnelIsALedger ==
    ASSUME OneMerge
    PROVE  Spec => ImplementsLedger
  <1>1. EvidenceInv /\ EvidenceInv' /\ [Next]_vars => [Ledger!LedgerNext]_Ledger!ledger
    BY LedgerStep
  <1>. QED BY <1>1, LedgerStart, EvidenceInit, EvidenceStepInv, PTL
           DEF Spec, ImplementsLedger, Ledger!LedgerSpec

---------------------------------------------------------------------------
(* Decisions: with one decision request at a time, what a request loaded   *)
(* is still the decision when it commits, and the UPDATE that the flush    *)
(* leaves out would have changed nothing.                                  *)

OneOperator == \A o, p \in Operators : o = p

\* Only candidates that exist were decided.
ApprovedExist == \A i \in DOMAIN approvals : Exists(candidates, approvals[i].candidate)

\* A request in flight has loaded the decision that its candidate still has.
LoadedIsCurrent ==
    \A o \in Operators :
        LET c == deciding[o].candidate
        IN  c # Null => deciding[o].loaded = candidates[c].decision

DecisionInv == SafeInv /\ ApprovedExist /\ LoadedIsCurrent /\ DecisionIsLastApproval

\* A step that decides nothing: rows go on existing with their decisions, and a new row
\* is as undecided as the one that was not there.
LEMMA DecisionQuiet ==
    ASSUME DecisionInv, SafeInv', UNCHANGED <<approvals, deciding>>,
           \A c \in CandidateIds :
              /\ Exists(candidates, c) => Exists(candidates', c)
              /\ candidates'[c].decision = candidates[c].decision
    PROVE  DecisionInv'
  <1>0. /\ deciding \in [Operators -> Requests]
        /\ approvals \in Seq(Approvals)
    BY DEF DecisionInv, SafeInv, TypeInv, TypeOK, InboxTypeOK
  <1>1. \A i \in DOMAIN approvals : approvals[i].candidate \in CandidateIds
    <2>1. \A i \in DOMAIN approvals : approvals[i] \in Approvals
      BY <1>0
    <2>. QED BY <2>1 DEF Approvals
  <1>2. ApprovedExist'
    BY <1>1 DEF DecisionInv, ApprovedExist, Exists
  <1>3. LoadedIsCurrent'
    BY <1>0 DEF DecisionInv, LoadedIsCurrent, Requests
  <1>4. DecisionIsLastApproval'
    BY DEF DecisionInv, DecisionIsLastApproval
  <1>. QED BY <1>2, <1>3, <1>4 DEF DecisionInv

\* A cluster run decides nothing: the rows it adds are pending.
LEMMA DecisionCluster ==
    ASSUME DecisionInv, SafeInv', ClusterNext, UNCHANGED deciding
    PROVE  DecisionInv'
  <1>. PICK w \in ClusterRuns : ClusterStep(w) \/ ClusterFail(w)
    BY DEF ClusterNext
  <1>1. Adds(candidates, candidates')
    BY ClusterFrame DEF DecisionInv
  <1>2. ASSUME NEW c \in CandidateIds
        PROVE  /\ Exists(candidates, c) => Exists(candidates', c)
               /\ candidates'[c].decision = candidates[c].decision
    <2>1. candidates'[c] # candidates[c] => candidates[c] = NoCandidate
      BY <1>1 DEF Adds
    <2>. QED BY <1>1, <2>1, AddsKeeps, NewRows
  <1>3. UNCHANGED approvals
    BY DEF ClusterStep, ClusterLoad, HaikuNull, HaikuComplaint, ClusterBucket, ClusterJudge,
           ClusterJudged, PersistLookup, PersistInsert, PersistLink, LinkCollides,
           PersistNextCard, PersistCommit, ClusterFail, tables
  <1>. QED BY <1>2, <1>3, DecisionQuiet

\* A merge decides nothing: its sources keep their decisions and the new row is pending.
LEMMA DecisionMerge ==
    ASSUME DecisionInv, SafeInv', MergeNext, UNCHANGED deciding
    PROVE  DecisionInv'
  <1>1. CASE UNCHANGED tables
    BY <1>1, DecisionQuiet DEF tables
  <1>2. CASE ~UNCHANGED tables
    <2>1. PICK m \in Mergers, slug \in Slugs : MergeCommit(m, slug)
      BY <1>2 DEF MergeNext, MergeBegin, MergeFail
    <2>. DEFINE ids == merging[m]
    <2>2. ids \in SUBSET CandidateIds /\ \A c \in ids : Exists(candidates, c)
      BY DEF DecisionInv, SafeInv, RequestsExist, TypeInv, TypeOK, MergeTypeOK
    <2>3. PICK new \in CandidateIds :
             NextId(candidates, new) /\ candidates' = AfterMerge(ids, new, MergedKey(ids, slug))
      BY <2>1 DEF MergeCommit
    <2>. HIDE DEF ids
    <2>4. /\ candidates'[new].decision = "pending"
          /\ \A c \in CandidateIds : Exists(candidates', c) <=> c = new \/ Exists(candidates, c)
          /\ \A c \in ids : candidates'[c].decision = candidates[c].decision
          /\ \A c \in CandidateIds \ (ids \cup {new}) : candidates'[c] = candidates[c]
      BY <2>2, <2>3, MergeRows DEF DecisionInv
    <2>5. candidates[new].decision = "pending"
      BY <2>3, NewRows DEF NextId, DecisionInv, SafeInv, BlankRows
    <2>6. UNCHANGED approvals
      BY <2>1 DEF MergeCommit
    <2>. QED BY <2>4, <2>5, <2>6, DecisionQuiet
  <1>. QED BY <1>1, <1>2

\* A verdict becomes the decision, and its row the last one of its candidate.
LEMMA DecisionInbox ==
    ASSUME OneOperator, DecisionInv, SafeInv', InboxNext
    PROVE  DecisionInv'
  <1>. PICK o \in Operators :
          \/ \E c \in CandidateIds, verdict \in Asked : DecideLoad(o, c, verdict)
          \/ DecideCommit(o)
          \/ DecideFail(o)
    BY DEF InboxNext
  <1>0. /\ deciding \in [Operators -> Requests]
        /\ approvals \in Seq(Approvals)
        /\ candidates \in [CandidateIds -> CandidateRows]
        /\ NotDeciding.candidate = Null
        /\ \A p \in Operators : p = o
    BY DEF DecisionInv, SafeInv, TypeInv, TypeOK, InboxTypeOK, NotDeciding, OneOperator
  <1>a. ASSUME UNCHANGED tables, LoadedIsCurrent' PROVE DecisionInv'
    BY <1>a DEF DecisionInv, tables, ApprovedExist, Exists, DecisionIsLastApproval
  <1>1. ASSUME NEW c \in CandidateIds, NEW verdict \in Asked, DecideLoad(o, c, verdict)
        PROVE  DecisionInv'
    <2>1. deciding'[o].candidate = c /\ deciding'[o].loaded = candidates'[c].decision
      BY <1>0, <1>1 DEF DecideLoad, tables
    <2>. QED BY <1>0, <1>1, <1>a, <2>1 DEF DecideLoad, LoadedIsCurrent
  <1>2. CASE DecideFail(o)
    <2>1. deciding'[o].candidate = Null
      BY <1>0, <1>2 DEF DecideFail
    <2>. QED BY <1>0, <1>2, <1>a, <2>1 DEF DecideFail, LoadedIsCurrent
  <1>3. CASE DecideCommit(o)
    <2>. DEFINE c == deciding[o].candidate
                verdict == deciding[o].verdict
                row == [candidate |-> c, verdict |-> verdict]
    <2>1. /\ c \in CandidateIds
          /\ Exists(candidates, c)
          /\ verdict \in Verdicts
          /\ \A d \in CandidateIds : d # c => candidates'[d] = candidates[d]
          /\ candidates'[c].dedup_key = candidates[c].dedup_key
      BY <1>3, VerdictRows DEF DecisionInv
    <2>2. c # Null
      BY <1>3 DEF DecideCommit
    <2>3. candidates'[c].decision = verdict
      <3>1. deciding[o].loaded = candidates[c].decision
        BY <2>2 DEF DecisionInv, LoadedIsCurrent
      <3>2. candidates' = AfterVerdict(c, deciding[o].loaded, verdict)
        BY <1>3 DEF DecideCommit
      <3>. QED BY <1>0, <2>1, <3>1, <3>2 DEF AfterVerdict, CandidateRows
    <2>4. row \in Approvals
      BY <2>1 DEF Approvals
    <2>5. approvals' = Append(approvals, row) /\ deciding' = [deciding EXCEPT ![o] = NotDeciding]
      BY <1>3 DEF DecideCommit
    <2>. HIDE DEF c, verdict
    <2>a. row.candidate = c /\ row.verdict = verdict
      OBVIOUS
    <2>. HIDE DEF row
    <2>b. /\ DOMAIN approvals = 1 .. Len(approvals)
          /\ DOMAIN approvals' = 1 .. Len(approvals) + 1
          /\ Len(approvals) \in Nat
          /\ \A i \in 1 .. Len(approvals) : approvals'[i] = approvals[i]
          /\ approvals'[Len(approvals) + 1] = row
          /\ \A i \in 1 .. Len(approvals) : approvals[i] \in Approvals
      BY <1>0, <2>4, <2>5
    <2>6. /\ DOMAIN approvals = 1 .. Len(approvals)
          /\ DOMAIN approvals' = 1 .. Len(approvals) + 1
          /\ Len(approvals) \in Nat
          /\ \A i \in 1 .. Len(approvals) : approvals'[i] = approvals[i]
          /\ approvals'[Len(approvals) + 1].candidate = c
          /\ approvals'[Len(approvals) + 1].verdict = verdict
          /\ \A i \in 1 .. Len(approvals) : approvals[i].candidate \in CandidateIds
      BY <2>a, <2>b DEF Approvals
    <2>7. ApprovedExist'
      BY <2>1, <2>6 DEF DecisionInv, ApprovedExist, Exists
    <2>8. LoadedIsCurrent'
      BY <1>0, <2>5 DEF LoadedIsCurrent
    <2>9. DecisionIsLastApproval'
      <3>. SUFFICES ASSUME NEW d \in CandidateIds
                    PROVE  LET rows == {i \in DOMAIN approvals' : approvals'[i].candidate = d}
                           IN  \/ rows = {} /\ candidates'[d].decision = "pending"
                               \/ \E last \in rows :
                                    /\ \A i \in rows : i <= last
                                    /\ candidates'[d].decision = approvals'[last].verdict
        BY DEF DecisionIsLastApproval
      <3>. DEFINE rows == {i \in DOMAIN approvals : approvals[i].candidate = d}
                  after == {i \in DOMAIN approvals' : approvals'[i].candidate = d}
      <3>1. CASE d = c
        <4>1. Len(approvals) + 1 \in after /\ \A i \in after : i <= Len(approvals) + 1
          BY <2>6, <3>1
        <4>2. candidates'[d].decision = approvals'[Len(approvals) + 1].verdict
          BY <2>3, <2>6, <3>1
        <4>. QED BY <4>1, <4>2
      <3>2. CASE d # c
        <4>1. after = rows
          BY <2>6, <3>2
        <4>2. candidates'[d] = candidates[d]
          BY <2>1, <3>2
        <4>3. \A i \in rows : approvals'[i] = approvals[i]
          BY <2>6
        <4>4. \/ rows = {} /\ candidates[d].decision = "pending"
              \/ \E last \in rows :
                   /\ \A i \in rows : i <= last
                   /\ candidates[d].decision = approvals[last].verdict
          BY DEF DecisionInv, DecisionIsLastApproval
        <4>. HIDE DEF rows, after
        <4>5. \/ after = {} /\ candidates'[d].decision = "pending"
              \/ \E last \in after :
                   /\ \A i \in after : i <= last
                   /\ candidates'[d].decision = approvals'[last].verdict
          BY <4>1, <4>2, <4>3, <4>4
        <4>. QED BY <4>5 DEF after
      <3>. QED BY <3>1, <3>2
    <2>. QED BY <2>7, <2>8, <2>9 DEF DecisionInv
  <1>. QED BY <1>1, <1>2, <1>3

\* Every step of the system keeps decisions in step with approvals.
LEMMA DecisionStep == OneOperator /\ DecisionInv /\ [Next]_vars => DecisionInv'
  <1>. SUFFICES ASSUME OneOperator, DecisionInv, [Next]_vars PROVE DecisionInv'
    OBVIOUS
  <1>1. SafeInv'
    BY SafeStep DEF DecisionInv
  <1>2. CASE UNCHANGED vars
    BY <1>1, <1>2, DecisionQuiet DEF vars, tables
  <1>3. CASE (IngestRow \/ NormalizeNext) /\ UNCHANGED deciding
    <2>1. UNCHANGED <<candidates, approvals>>
      BY <1>3 DEF IngestRow, NormalizeNext, NormalizeStart, NormalizeSelectBatch, NormalizeRow,
                  NormalizeCommitBatch, NormalizeFail, tables
    <2>. QED BY <1>1, <1>3, <2>1, DecisionQuiet
  <1>4. CASE ClusterNext /\ UNCHANGED deciding
    BY <1>1, <1>4, DecisionCluster
  <1>5. CASE MergeNext /\ UNCHANGED deciding
    BY <1>1, <1>5, DecisionMerge
  <1>6. CASE InboxNext
    BY <1>1, <1>6, DecisionInbox
  <1>7. CASE Crash
    <2>1. LoadedIsCurrent'
      BY <1>7 DEF Crash, LoadedIsCurrent, NotDeciding
    <2>. QED BY <1>1, <1>7, <2>1
             DEF Crash, DecisionInv, ApprovedExist, Exists, DecisionIsLastApproval
  <1>. QED BY <1>2, <1>3, <1>4, <1>5, <1>6, <1>7 DEF Next

\* With one decision request at a time a candidate's decision is the last verdict recorded
\* for it, whatever runs, merges, matches of dedup keys and crashes happen meanwhile.
THEOREM DecisionsAreRecorded ==
    ASSUME OneOperator
    PROVE  Spec => []DecisionIsLastApproval
  <1>1. Init => DecisionInv
    <2>. SUFFICES ASSUME Init PROVE DecisionInv OBVIOUS
    <2>1. \A c \in CandidateIds : candidates[c].decision = "pending"
      BY NewRows DEF Init, TablesInit
    <2>2. approvals = <<>> /\ \A o \in Operators : deciding[o].candidate = Null
      BY DEF Init, TablesInit, NoRequests, NotDeciding
    <2>. QED BY <2>1, <2>2, SafeInit
             DEF DecisionInv, ApprovedExist, LoadedIsCurrent, DecisionIsLastApproval
  <1>2. DecisionInv => DecisionIsLastApproval
    BY DEF DecisionInv
  <1>. QED BY <1>1, <1>2, DecisionStep, PTL DEF Spec
===========================================================================
