---------------------------- MODULE IdeaTables ----------------------------
(***************************************************************************)
(* The SQLite tables that the Stage 1 pipeline and the inbox share: the    *)
(* part of each row that decides where a signal goes and what the          *)
(* operator sees.  The components that read and write them (Normalize,     *)
(* Cluster, Merge, Inbox) extend this module; Funnel composes them.        *)
(*                                                                         *)
(* Sessions run outside a transaction until their first write: a SELECT    *)
(* sees the last commit, a single write commits on its own, and the first  *)
(* flushed INSERT of a longer transaction takes SQLite's write lock until  *)
(* commit or rollback (apfun/db.py installs no BEGIN hook).                *)
(***************************************************************************)
EXTENDS Naturals, FiniteSets, Sequences

CONSTANTS
    MaxRaw,         \* bound: raw_signals rows ever ingested, with ids 1..MaxRaw
    MaxCandidates,  \* bound: candidates rows ever inserted, ids 1..MaxCandidates
    Slugs,          \* what slugs of problem statements can be
    NoSlug,         \* stands in the candidates row that is not there
    Unsupported,    \* raw signals whose source kind has no extractor
    StructuralLow,  \* raw signals that their extractor flags as low signal
    ClusterRuns,    \* callers of cluster_signals that may overlap
    NoRun           \* the holder of a write lock that is free

RawIds == 1 .. MaxRaw
CandidateIds == 1 .. MaxCandidates
Null == 0           \* NULL in candidates.merged_into_id

ASSUME TablesAssumption ==
    /\ MaxRaw \in Nat
    /\ MaxCandidates \in Nat
    /\ NoSlug \notin Slugs
    /\ Unsupported \subseteq RawIds
    /\ StructuralLow \subseteq RawIds
    /\ NoRun \notin ClusterRuns

\* ApprovalDecision, and the Decision each one sets: approve -> approved, ...
Verdicts == {"approved", "rejected", "unsure"}
Decisions == Verdicts \cup {"pending"}
Approvals == [candidate : CandidateIds, verdict : Verdicts]

(***************************************************************************)
(* A dedup_key is the slug of the problem statement, prefixed by the       *)
(* source ids when the candidate is the result of a merge.                 *)
(***************************************************************************)
DedupKeys == [from : SUBSET CandidateIds, slug : Slugs \cup {NoSlug}]
ClusterKey(slug) == [from |-> {}, slug |-> slug]
MergedKey(ids, slug) == [from |-> ids, slug |-> slug]

CandidateRows ==
    [dedup_key : DedupKeys, decision : Decisions, merged_into : CandidateIds \cup {Null}]
NoCandidate == [dedup_key |-> ClusterKey(NoSlug), decision |-> "pending", merged_into |-> Null]
\* Mutant: the decision column gets PipelineStage.NONE.
NewCandidateWrongEnum(key) ==
    [dedup_key |-> key, decision |-> "none", merged_into |-> Null]
NewCandidate(key) == [dedup_key |-> key, decision |-> "pending", merged_into |-> Null]

VARIABLES
    raw_signals,        \* how many rows are ingested: ids 1..raw_signals
    signal_text,        \* per raw signal: no row, a low-signal row, an open row
    candidates,         \* per id: the row, or NoCandidate
    candidate_signals,  \* set of <<candidate id, raw signal id>>
    approvals,          \* the rows in commit order
    write_lock          \* the cluster run whose write transaction is open

tables == <<raw_signals, signal_text, candidates, candidate_signals, approvals, write_lock>>

TablesInit ==
    /\ raw_signals = 0
    /\ signal_text = [r \in RawIds |-> "none"]
    /\ candidates = [c \in CandidateIds |-> NoCandidate]
    /\ candidate_signals = {}
    /\ approvals = <<>>
    /\ write_lock = NoRun

---------------------------------------------------------------------------
(* Queries.  Those on candidates and links take the table as a parameter:  *)
(* an open transaction reads its own writes, everyone else the last commit.*)

Exists(table, c) == table[c].dedup_key.slug # NoSlug
IsLive(table, c) == Exists(table, c) /\ table[c].merged_into = Null
KeyTaken(table, key) == \E c \in CandidateIds : Exists(table, c) /\ table[c].dedup_key = key

\* The rowid SQLite gives the next candidate: one more than the largest.
NextId(table, id) ==
    /\ ~Exists(table, id)
    /\ \A c \in CandidateIds : c < id <=> Exists(table, c)

LinkedSignals(links) == {link[2] : link \in links}
EvidenceOf(links, c) == {r \in RawIds : <<c, r>> \in links}
EvidenceOfAll(links, ids) == {r \in RawIds : \E c \in ids : <<c, r>> \in links}

\* A writer that is not w waits while w's transaction is open.
CanWrite(w) == write_lock \in {NoRun, w}
NoOpenTransaction == write_lock = NoRun

\* Sourcing commits one more raw_signals row (the Ingest component).
IngestRow ==
    /\ raw_signals < MaxRaw
    /\ NoOpenTransaction
    /\ raw_signals' = raw_signals + 1
    /\ UNCHANGED <<signal_text, candidates, candidate_signals, approvals, write_lock>>
===========================================================================
