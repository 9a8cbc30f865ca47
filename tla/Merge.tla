------------------------------- MODULE Merge -------------------------------
(***************************************************************************)
(* POST /inbox/merge: merge_candidates (apfun/pipeline/merge.py).  The     *)
(* request is validated, then Opus is asked for the unified card with no   *)
(* transaction open, then one transaction inserts the merged candidate,    *)
(* moves the evidence of the sources to it and soft-deletes them.  The     *)
(* handler runs in a thread pool: each element of Mergers is a request     *)
(* that may be in flight beside the others.                                *)
(***************************************************************************)
EXTENDS IdeaTables

CONSTANT Mergers

VARIABLE merging     \* per request: the ids validated before the Opus call, or {}

MergeTypeOK == merging \in [Mergers -> SUBSET CandidateIds]

\* Mutant: sources that are merged already are accepted.
MergeBeginUnchecked(m, ids) ==
    /\ merging[m] = {}
    /\ \E c, d \in ids : c # d
    /\ \A c \in ids : Exists(candidates, c)
    /\ merging' = [merging EXCEPT ![m] = ids]
    /\ UNCHANGED tables

\* An invalid request raises MergeError (400) and changes nothing, so only the valid
\* ones are steps: at least two distinct ids that exist and are not merged.
MergeBegin(m, ids) ==
    /\ merging[m] = {}
    /\ \E c, d \in ids : c # d
    /\ \A c \in ids : IsLive(candidates, c)
    /\ merging' = [merging EXCEPT ![m] = ids]
    /\ UNCHANGED tables

\* Mutant: the sources point at the first of them.
AfterMergeIntoFirst(ids, new, key) ==
    LET first == CHOOSE c \in ids : \A d \in ids : c <= d
    IN  [c \in CandidateIds |->
            IF c = new THEN NewCandidate(key)
            ELSE IF c \in ids THEN [candidates[c] EXCEPT !.merged_into = first]
            ELSE candidates[c]]

\* The new row, and the sources soft-deleted; each source keeps its own decision.
AfterMerge(ids, new, key) ==
    [c \in CandidateIds |->
        IF c = new THEN NewCandidate(key)
        ELSE IF c \in ids THEN [candidates[c] EXCEPT !.merged_into = new]
        ELSE candidates[c]]

\* Mutant: the links of the sources are deleted before they are gathered.
AfterRelinkDeleteFirst(ids, new) == {link \in candidate_signals : link[1] \notin ids}

\* The links of the sources, one per distinct signal, moved to the new candidate.
AfterRelink(ids, new) ==
    {link \in candidate_signals : link[1] \notin ids}
        \cup {<<new, r>> : r \in EvidenceOfAll(candidate_signals, ids)}

\* Mutant: the merged candidate takes over the decision of a source.
MergeCommitKeepsDecision(m, slug) ==
    LET ids == merging[m]
        key == MergedKey(ids, slug)
    IN  /\ ids # {}
        /\ NoOpenTransaction
        /\ ~KeyTaken(candidates, key)
        /\ \E new \in CandidateIds, c \in ids :
             /\ NextId(candidates, new)
             /\ candidates' = [AfterMerge(ids, new, key) EXCEPT
                                 ![new].decision = candidates[c].decision]
             /\ candidate_signals' = AfterRelink(ids, new)
        /\ merging' = [merging EXCEPT ![m] = {}]
        /\ UNCHANGED <<raw_signals, signal_text, approvals, write_lock>>

\* The transaction after the Opus call; nothing is validated again.  A dedup_key that
\* is taken fails the INSERT (MergeFail).
MergeCommit(m, slug) ==
    LET ids == merging[m]
        key == MergedKey(ids, slug)
    IN  /\ ids # {}
        /\ NoOpenTransaction
        /\ ~KeyTaken(candidates, key)
        /\ \E new \in CandidateIds :
             /\ NextId(candidates, new)
             /\ candidates' = AfterMerge(ids, new, key)
             /\ candidate_signals' = AfterRelink(ids, new)
        /\ merging' = [merging EXCEPT ![m] = {}]
        /\ UNCHANGED <<raw_signals, signal_text, approvals, write_lock>>

\* The Opus call or the transaction raises; everything is rolled back.
MergeFail(m) ==
    /\ merging[m] # {}
    /\ merging' = [merging EXCEPT ![m] = {}]
    /\ UNCHANGED tables

MergeNext ==
    \E m \in Mergers :
        \/ \E ids \in SUBSET CandidateIds : MergeBegin(m, ids)
        \/ \E slug \in Slugs : MergeCommit(m, slug)
        \/ MergeFail(m)
===========================================================================
