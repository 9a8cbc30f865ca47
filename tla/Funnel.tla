------------------------------- MODULE Funnel -------------------------------
(***************************************************************************)
(* Stage 1 and the inbox over one database: sourcing adds raw signals, the *)
(* scheduled normalizer and cluster runs turn them into candidates, the    *)
(* operator's requests merge and decide candidates, all in threads of one  *)
(* process that may die at any point.                                      *)
(***************************************************************************)
EXTENDS Normalize, Cluster, Merge, Inbox

vars == <<tables, norm, run, merging, deciding>>

NoRequests ==
    /\ norm = NormIdle
    /\ run = [w \in ClusterRuns |-> RunIdle]
    /\ merging = [m \in Mergers |-> {}]
    /\ deciding = [o \in Operators |-> NotDeciding]

Init == TablesInit /\ NoRequests

\* The process dies: locals are lost, SQLite rolls the open transaction back, and
\* committed rows stay.
Crash ==
    /\ ~NoRequests
    /\ norm' = NormIdle
    /\ run' = [w \in ClusterRuns |-> RunIdle]
    /\ merging' = [m \in Mergers |-> {}]
    /\ deciding' = [o \in Operators |-> NotDeciding]
    /\ write_lock' = NoRun
    /\ UNCHANGED <<raw_signals, signal_text, candidates, candidate_signals, approvals>>

Next ==
    \/ IngestRow /\ UNCHANGED <<norm, run, merging, deciding>>
    \/ NormalizeNext /\ UNCHANGED <<run, merging, deciding>>
    \/ ClusterNext /\ UNCHANGED <<norm, merging, deciding>>
    \/ MergeNext /\ UNCHANGED <<norm, run, deciding>>
    \/ InboxNext /\ UNCHANGED <<norm, run, merging>>
    \/ Crash

Spec == Init /\ [][Next]_vars

---------------------------------------------------------------------------
(* Type invariant: every table and every local holds values of its type.   *)
TypeOK ==
    /\ raw_signals \in 0 .. MaxRaw
    /\ signal_text \in [RawIds -> {"none", "low", "open"}]
    /\ candidates \in [CandidateIds -> CandidateRows]
    /\ candidate_signals \subseteq CandidateIds \X RawIds
    /\ approvals \in Seq(Approvals)
    /\ write_lock \in ClusterRuns \cup {NoRun}
    /\ NormTypeOK
    /\ RunTypeOK
    /\ MergeTypeOK
    /\ InboxTypeOK

---------------------------------------------------------------------------
(* Safety                                                                  *)

\* No candidate is on display without evidence: a cluster run's candidate and its
\* links commit together, and a merge hands over what its sources had.
LiveHasEvidence ==
    \A c \in CandidateIds :
        IsLive(candidates, c) => \E r \in RawIds : <<c, r>> \in candidate_signals

\* Once a committed link makes a signal evidence it stays evidence of some candidate:
\* merges move links while runs add them and neither loses one.
EvidenceNeverLost ==
    [][LinkedSignals(candidate_signals) \subseteq LinkedSignals(candidate_signals')]_vars

\* Every link is to a signal the normalizer wrote and neither the extractor nor Haiku
\* discarded, whatever ids Opus claims.
LinkedAreClusterable ==
    \A link \in candidate_signals : signal_text[link[2]] = "open"

\* The redirects of inbox_detail end: a soft-deleted candidate points at one that exists
\* and is newer, so following merged_into_id reaches a live candidate.
MergedIntoNewer ==
    \A c \in CandidateIds :
        candidates[c].merged_into # Null =>
            /\ Exists(candidates, c)
            /\ candidates[c].merged_into > c
            /\ Exists(candidates, candidates[c].merged_into)

\* A candidate is a source of one merge only (the docstring of _merged_dedup_key).
MergedOnce ==
    [][\A c \in CandidateIds :
         candidates[c].merged_into # Null => candidates'[c].merged_into = candidates[c].merged_into]_vars

\* HITL durability: a candidate's decision is the last verdict the operator recorded, and
\* pending before the first; no merge, dedup match or crash changes it.
DecisionIsLastApproval ==
    \A c \in CandidateIds :
        LET rows == {i \in DOMAIN approvals : approvals[i].candidate = c}
        IN  \/ rows = {} /\ candidates[c].decision = "pending"
            \/ \E last \in rows :
                 /\ \A i \in rows : i <= last
                 /\ candidates[c].decision = approvals[last].verdict

\* A signal that was discarded stays discarded, so no later run pays for it again (the
\* docstring of SignalText.is_low_signal).
MarksSurvive ==
    [][\A r \in RawIds : signal_text[r] = "low" => signal_text'[r] = "low"]_vars

\* The committed batches of a run leave no gap: every raw signal before the run's offset
\* has its signal_text row unless its source has no extractor.
NormalizedPrefix ==
    \A r \in 1 .. norm.offset : HasText(r) \/ r \in Unsupported

\* Evidence is always on display somewhere: the links of a soft-deleted candidate were
\* moved to the merged one (orchestrator request 031, soft-deletion semantics).
NoEvidenceOnMerged ==
    \A link \in candidate_signals : IsLive(candidates, link[1])

---------------------------------------------------------------------------
(* The funnel implements the ledger: on display is what the inbox lists.   *)

Shown == {c \in CandidateIds : IsLive(candidates, c)}

Ledger == INSTANCE IdeaLedger WITH
    Ideas <- CandidateIds,
    Signals <- RawIds,
    Verdict <- Verdicts,
    shown <- Shown,
    evidence <- [c \in CandidateIds |->
                   IF c \in Shown THEN EvidenceOf(candidate_signals, c) ELSE {}],
    verdict <- [c \in CandidateIds |->
                   IF c \in Shown THEN candidates[c].decision ELSE "pending"]

\* What the inbox displays changes only as IdeaLedger allows.
ImplementsLedger == Ledger!LedgerSpec

---------------------------------------------------------------------------
(* Liveness, with fairness for the code's own steps and none for failures  *)
(* or for the operator.                                                    *)

\* What always raises: the flush of a candidate whose dedup_key was taken meanwhile, and
\* a wait for the write lock that outlasts busy_timeout.
RunRaises(w) ==
    /\ \/ ~CanWrite(w)
       \/ /\ run[w].pc = "insert"
          /\ KeyTaken(VisibleCandidates(w), ClusterKey(run[w].card.slug))
    /\ ClusterFail(w)

RunStep(w) == (ClusterStep(w) \/ RunRaises(w)) /\ UNCHANGED <<norm, merging, deciding>>

Fairness == \A w \in ClusterRuns : WF_vars(RunStep(w))
FairSpec == Spec /\ Fairness

\* The same with no failed run, no crash and no operator.
CalmNext ==
    \/ IngestRow /\ UNCHANGED <<norm, run, merging, deciding>>
    \/ /\ NormalizeStart \/ NormalizeSelectBatch \/ NormalizeRow \/ NormalizeCommitBatch
       /\ UNCHANGED <<run, merging, deciding>>
    \/ \E w \in ClusterRuns : ClusterStep(w) /\ UNCHANGED <<norm, merging, deciding>>
CalmSpec == Init /\ [][CalmNext]_vars /\ Fairness

\* A run that started ends, so the scheduler's max_instances=1 frees the job again.
RunEnds == \A w \in ClusterRuns : run[w].pc # "idle" ~> run[w].pc = "idle"

\* Signals over the cap are processed in a later run (the module docstring of cluster.py).
ExcessIsProcessed ==
    \A r \in RawIds :
        signal_text[r] = "open" ~>
            \/ signal_text[r] = "low"
            \/ r \in LinkedSignals(candidate_signals)
            \/ \E w \in ClusterRuns : run[w].pc = "prepass" /\ r \in run[w].loaded
===========================================================================
