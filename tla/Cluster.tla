------------------------------ MODULE Cluster ------------------------------
(***************************************************************************)
(* cluster_signals (apfun/pipeline/cluster.py): one Stage 1 pass.  Load    *)
(* the unclustered signals, ask Haiku about each, bucket them, ask Opus    *)
(* for idea cards per bucket, persist the cards.  What a model answers is  *)
(* chosen freely; what the code does with the answer is modelled.          *)
(*                                                                         *)
(* Persisting runs outside a transaction until the first new candidate is  *)
(* flushed: links to candidates that already exist commit one by one until *)
(* then (a SAVEPOINT that opens the transaction commits at its RELEASE).   *)
(* From that INSERT, or from a link that turns out to be there already, to *)
(* the commit the run holds the write lock and works on its own view of    *)
(* the tables.                                                             *)
(***************************************************************************)
EXTENDS IdeaTables, FiniteSetsExt

CONSTANTS
    Topics,          \* (vertical, keyword set) pairs Haiku can answer: the bucket keys
    NoTopic,         \* no answer kept for this signal
    MaxSignals,      \* _MAX_SIGNALS_PER_RUN
    MaxBuckets,      \* _MAX_BUCKETS_PER_RUN
    MaxCards         \* bound: cards Opus answers for one bucket

ASSUME ClusterAssumption ==
    /\ NoTopic \notin Topics
    /\ MaxSignals \in Nat \ {0}
    /\ MaxBuckets \in Nat \ {0}
    /\ MaxCards \in Nat

VARIABLE run         \* the locals of each cluster run

Cards == [slug : Slugs, signals : SUBSET RawIds]
NoCard == [slug |-> NoSlug, signals |-> {}]
View == [candidates : [CandidateIds -> CandidateRows],
         candidate_signals : SUBSET (CandidateIds \X RawIds)]
NoView == [candidates |-> [c \in CandidateIds |-> NoCandidate], candidate_signals |-> {}]

RunIdle ==
    [pc |-> "idle", loaded |-> {}, topic |-> [r \in RawIds |-> NoTopic],
     buckets |-> {}, cards |-> {}, card |-> NoCard, target |-> Null, view |-> NoView]

RunStates ==
    [pc : {"idle", "prepass", "judge", "lookup", "insert", "link"},
     loaded : SUBSET RawIds, topic : [RawIds -> Topics \cup {NoTopic}],
     buckets : SUBSET SUBSET RawIds, cards : SUBSET Cards,
     card : Cards \cup {NoCard}, target : CandidateIds \cup {Null}, view : View]

RunTypeOK == run \in [ClusterRuns -> RunStates]

InTransaction(w) == write_lock = w

\* What run w reads: its own writes if its transaction is open, else the last commit.
VisibleCandidates(w) == IF InTransaction(w) THEN run[w].view.candidates ELSE candidates
VisibleLinks(w) ==
    IF InTransaction(w) THEN run[w].view.candidate_signals ELSE candidate_signals

---------------------------------------------------------------------------
(* Loading: not low signal, not linked, ordered by id, at most MaxSignals. *)

Unclustered ==
    {r \in RawIds : signal_text[r] = "open" /\ r \notin LinkedSignals(candidate_signals)}
FirstSignals(S, n) == {r \in S : Cardinality({q \in S : q < r}) < n}

\* A run that finds nothing returns at once and leaves no trace here.
ClusterLoad(w) ==
    /\ run[w].pc = "idle"
    /\ Unclustered # {}
    /\ run' = [run EXCEPT ![w] = [RunIdle EXCEPT !.pc = "prepass",
                                    !.loaded = FirstSignals(Unclustered, MaxSignals)]]
    /\ UNCHANGED tables

---------------------------------------------------------------------------
(* Prepass: one Haiku call per signal, in id order.                        *)

PrepassSignal(w, r) ==
    /\ run[w].pc = "prepass"
    /\ r \in run[w].loaded
    /\ \A q \in run[w].loaded : r <= q

\* core_complaint = None: the mark commits in a session of its own.
HaikuNull(w, r) ==
    /\ PrepassSignal(w, r)
    /\ NoOpenTransaction
    /\ signal_text' = [signal_text EXCEPT ![r] = "low"]
    /\ run' = [run EXCEPT ![w].loaded = @ \ {r}]
    /\ UNCHANGED <<raw_signals, candidates, candidate_signals, approvals, write_lock>>

HaikuComplaint(w, r, topic) ==
    /\ PrepassSignal(w, r)
    /\ run' = [run EXCEPT ![w] = [run[w] EXCEPT !.loaded = @ \ {r}, !.topic[r] = topic]]
    /\ UNCHANGED tables

---------------------------------------------------------------------------
(* Bucketing: group by topic, keep the largest MaxBuckets buckets; among   *)
(* equals the one whose first signal came first (a stable sort).           *)

Enriched(w) == {r \in RawIds : run[w].topic[r] # NoTopic}
BucketOf(w, r) == {q \in RawIds : run[w].topic[q] = run[w].topic[r]}
AllBuckets(w) == {BucketOf(w, r) : r \in Enriched(w)}
Ahead(a, b) ==
    \/ Cardinality(a) > Cardinality(b)
    \/ Cardinality(a) = Cardinality(b) /\ Min(a) < Min(b)
LargestBuckets(B, n) == {b \in B : Cardinality({a \in B : Ahead(a, b)}) < n}

ClusterBucket(w) ==
    /\ run[w].pc = "prepass"
    /\ run[w].loaded = {}
    /\ run' = [run EXCEPT ![w] = [run[w] EXCEPT !.pc = "judge",
                    !.buckets = LargestBuckets(AllBuckets(w), MaxBuckets),
                    !.topic = RunIdle.topic]]   \* not read again
    /\ UNCHANGED tables

---------------------------------------------------------------------------
(* Judging: one Opus call per bucket.  Opus may claim any ids; ids outside *)
(* the bucket are dropped, and a card that keeps none is dropped with them.*)
(* The order of buckets and cards is left open.                            *)

\* An answer lists at most MaxCards cards; the NoCards of a shorter list have no evidence.
Answers == {{list[i] : i \in 1 .. MaxCards} : list \in [1 .. MaxCards -> Cards \cup {NoCard}]}

\* Mutant: ids that Opus made up are kept.
ContributingAsClaimed(card, bucket) == card
Contributing(card, bucket) == [card EXCEPT !.signals = @ \cap bucket]
HasEvidence(card) == card.signals # {}

\* Mutant: a card without evidence is persisted as well.
KeptCardsAll(answer, bucket) ==
    {Contributing(claimed, bucket) : claimed \in answer}
KeptCards(answer, bucket) ==
    {card \in {Contributing(claimed, bucket) : claimed \in answer} : HasEvidence(card)}

ClusterJudge(w, bucket, answer) ==
    /\ run[w].pc = "judge"
    /\ bucket \in run[w].buckets
    /\ run' = [run EXCEPT ![w] = [run[w] EXCEPT !.buckets = @ \ {bucket},
                                           !.cards = @ \cup KeptCards(answer, bucket)]]
    /\ UNCHANGED tables

ClusterJudged(w) ==
    /\ run[w].pc = "judge"
    /\ run[w].buckets = {}
    /\ run' = [run EXCEPT ![w].pc = "lookup"]
    /\ UNCHANGED tables

---------------------------------------------------------------------------
(* Persisting: per card, find the candidate with the card's dedup_key or   *)
(* insert one, then link the card's signals; one commit at the end.        *)

\* SELECT by dedup_key: soft-deleted candidates match as well.
PersistLookup(w) ==
    /\ run[w].pc = "lookup"
    /\ \E card \in run[w].cards :
         LET picked == [run[w] EXCEPT !.cards = @ \ {card}, !.card = card]
             key == ClusterKey(card.slug)
         IN  \/ /\ ~KeyTaken(VisibleCandidates(w), key)
                /\ run' = [run EXCEPT ![w] = [picked EXCEPT !.pc = "insert"]]
             \/ \E c \in CandidateIds :
                  /\ Exists(VisibleCandidates(w), c)
                  /\ VisibleCandidates(w)[c].dedup_key = key
                  /\ run' = [run EXCEPT ![w] = [picked EXCEPT !.pc = "link", !.target = c]]
    /\ UNCHANGED tables

\* session.flush() of the new candidate: opens the transaction if none is open.  Should
\* another writer have taken the dedup_key meanwhile, the flush raises (ClusterFail).
PersistInsert(w) ==
    LET key == ClusterKey(run[w].card.slug)
        before == VisibleCandidates(w)
    IN  /\ run[w].pc = "insert"
        /\ CanWrite(w)
        /\ ~KeyTaken(before, key)
        /\ \E id \in CandidateIds :
             /\ NextId(before, id)
             /\ run' = [run EXCEPT ![w] = [run[w] EXCEPT !.pc = "link", !.target = id,
                  !.view = [candidates |-> [before EXCEPT ![id] = NewCandidate(key)],
                            candidate_signals |-> VisibleLinks(w)]]]
        /\ write_lock' = w
        /\ UNCHANGED <<raw_signals, signal_text, candidates, candidate_signals, approvals>>

\* try_insert of one link; nothing is written when the SELECT finds it there already.
PersistLink(w) ==
    /\ run[w].pc = "link"
    /\ \E r \in run[w].card.signals :
         LET link == <<run[w].target, r>>
             linked == [run[w] EXCEPT !.card.signals = @ \ {r}]
         IN  \/ /\ link \in VisibleLinks(w)
                /\ run' = [run EXCEPT ![w] = linked]
                /\ UNCHANGED candidate_signals
             \/ /\ InTransaction(w)
                /\ run' = [run EXCEPT
                      ![w] = [linked EXCEPT !.view.candidate_signals = @ \cup {link}]]
                /\ UNCHANGED candidate_signals
             \/ /\ NoOpenTransaction
                /\ run' = [run EXCEPT ![w] = linked]
                /\ candidate_signals' = candidate_signals \cup {link}
    /\ UNCHANGED <<raw_signals, signal_text, candidates, approvals, write_lock>>

\* The same when another writer commits the link between the SELECT and the INSERT: the
\* duplicate rolls back to the SAVEPOINT, and the transaction stays open.
LinkCollides(w) ==
    /\ run[w].pc = "link"
    /\ NoOpenTransaction
    /\ \E r \in run[w].card.signals :
         /\ <<run[w].target, r>> \in candidate_signals
         /\ run' = [run EXCEPT ![w] = [run[w] EXCEPT !.card.signals = @ \ {r},
                !.view = [candidates |-> candidates,
                          candidate_signals |-> candidate_signals]]]
    /\ write_lock' = w
    /\ UNCHANGED <<raw_signals, signal_text, candidates, candidate_signals, approvals>>

PersistNextCard(w) ==
    /\ run[w].pc = "link"
    /\ run[w].card.signals = {}
    /\ run' = [run EXCEPT ![w] = [run[w] EXCEPT !.pc = "lookup", !.card = NoCard, !.target = Null]]
    /\ UNCHANGED tables

\* session.commit() after the last card; nothing is left to commit when no
\* transaction was opened.
PersistCommit(w) ==
    /\ run[w].pc = "lookup"
    /\ run[w].cards = {}
    /\ candidates' = VisibleCandidates(w)
    /\ candidate_signals' = VisibleLinks(w)
    /\ write_lock' = IF InTransaction(w) THEN NoRun ELSE write_lock
    /\ run' = [run EXCEPT ![w] = RunIdle]
    /\ UNCHANGED <<raw_signals, signal_text, approvals>>

\* Mutant: no rollback before the commit of the scheduler_runs row.
ClusterFailCommits(w) ==
    /\ run[w].pc # "idle"
    /\ candidates' = VisibleCandidates(w)
    /\ candidate_signals' = VisibleLinks(w)
    /\ run' = [run EXCEPT ![w] = RunIdle]
    /\ write_lock' = IF InTransaction(w) THEN NoRun ELSE write_lock
    /\ UNCHANGED <<raw_signals, signal_text, approvals>>

\* Mutant: a run that fails starts over instead of ending.
ClusterFailRestarts(w) ==
    /\ run[w].pc # "idle"
    /\ run' = [run EXCEPT ![w] = [RunIdle EXCEPT !.pc = "prepass",
                                    !.loaded = FirstSignals(Unclustered, MaxSignals)]]
    /\ write_lock' = IF InTransaction(w) THEN NoRun ELSE write_lock
    /\ UNCHANGED <<raw_signals, signal_text, candidates, candidate_signals, approvals>>

\* Any call may raise (a model's error, a locked database, a taken dedup_key):
\* session.rollback() drops what the open transaction wrote.
ClusterFail(w) ==
    /\ run[w].pc # "idle"
    /\ run' = [run EXCEPT ![w] = RunIdle]
    /\ write_lock' = IF InTransaction(w) THEN NoRun ELSE write_lock
    /\ UNCHANGED <<raw_signals, signal_text, candidates, candidate_signals, approvals>>

ClusterStep(w) ==
    \/ ClusterLoad(w)
    \/ \E r \in RawIds : HaikuNull(w, r)
    \/ \E r \in RawIds, topic \in Topics : HaikuComplaint(w, r, topic)
    \/ ClusterBucket(w)
    \/ \E bucket \in run[w].buckets, answer \in Answers : ClusterJudge(w, bucket, answer)
    \/ ClusterJudged(w)
    \/ PersistLookup(w)
    \/ PersistInsert(w)
    \/ PersistLink(w)
    \/ LinkCollides(w)
    \/ PersistNextCard(w)
    \/ PersistCommit(w)

ClusterNext == \E w \in ClusterRuns : ClusterStep(w) \/ ClusterFail(w)
===========================================================================
