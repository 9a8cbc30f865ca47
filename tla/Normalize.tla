----------------------------- MODULE Normalize -----------------------------
(***************************************************************************)
(* normalize_raw_signals (apfun/pipeline/normalize.py): the ETL that walks *)
(* raw_signals in batches and upserts one signal_text row per raw signal.  *)
(* The ORM sends a batch's rows at its commit, and an UPDATE names only    *)
(* the columns whose value differs from the one loaded, so a row's flag is *)
(* written only when the extractor's verdict differs from what was read.   *)
(* The extraction itself is the constant StructuralLow.                    *)
(***************************************************************************)
EXTENDS IdeaTables

CONSTANTS
    BatchSize,     \* rows per batch and commit
    OnlyNewModes   \* the only_new arguments callers pass: TRUE by the scheduled job

ASSUME NormalizeAssumption ==
    /\ BatchSize \in Nat \ {0}
    /\ OnlyNewModes \subseteq BOOLEAN

VARIABLE norm      \* locals of the one run that max_instances=1 allows

NormIdle ==
    [pc |-> "idle", existing |-> {}, offset |-> 0, last |-> 0, at |-> 0, pending |-> {}]

\* An upsert waiting for the commit: the flag loaded ("none": an INSERT) and the new one.
Upserts == [raw : RawIds, loaded : {"none", "low", "open"}, flag : {"low", "open"}]

NormTypeOK ==
    norm \in [pc : {"idle", "select", "rows"}, existing : SUBSET RawIds,
              offset : Nat, last : Nat, at : Nat, pending : SUBSET Upserts]

HasText(r) == signal_text[r] # "none"
ExtractedFlag(r) == IF r \in StructuralLow THEN "low" ELSE "open"

\* Mutant: only_new is ignored.
NormalizeStartAll ==
    /\ norm.pc = "idle"
    /\ norm' = [NormIdle EXCEPT !.pc = "select"]
    /\ UNCHANGED tables

\* Read, once per run, the set of signals that already have a row.
NormalizeStart ==
    /\ norm.pc = "idle"
    /\ \E only_new \in OnlyNewModes :
         norm' = [NormIdle EXCEPT !.pc = "select",
                                  !.existing = IF only_new THEN {r \in RawIds : HasText(r)}
                                                           ELSE {}]
    /\ UNCHANGED tables

\* SELECT ... ORDER BY id OFFSET offset LIMIT batch_size; no rows ends the run.
NormalizeSelectBatch ==
    LET last == IF raw_signals < norm.offset + BatchSize THEN raw_signals
                                                         ELSE norm.offset + BatchSize
    IN  /\ norm.pc = "select"
        /\ norm' = IF last = norm.offset THEN NormIdle
                   ELSE [norm EXCEPT !.pc = "rows", !.last = last, !.at = norm.offset]
        /\ UNCHANGED tables

\* One iteration over the batch: skip, or load the signal_text row and upsert in memory.
NormalizeRow ==
    LET r == norm.at + 1
        upsert == [raw |-> r, loaded |-> signal_text[r], flag |-> ExtractedFlag(r)]
        skipped == r \in norm.existing \/ r \in Unsupported
    IN  /\ norm.pc = "rows"
        /\ norm.at < norm.last
        /\ norm' = [norm EXCEPT !.at = r,
                                !.pending = IF skipped THEN @ ELSE @ \cup {upsert}]
        /\ UNCHANGED tables

\* What the flushed batch leaves in signal_text.
AfterUpserts(pending) ==
    [r \in RawIds |->
        IF \E u \in pending : u.raw = r /\ u.flag # u.loaded
        THEN ExtractedFlag(r)
        ELSE signal_text[r]]

\* session.commit() after the batch; a short batch is the last one.
NormalizeCommitBatch ==
    /\ norm.pc = "rows"
    /\ norm.at = norm.last
    /\ NoOpenTransaction
    /\ signal_text' = AfterUpserts(norm.pending)
    /\ norm' = IF norm.last - norm.offset < BatchSize THEN NormIdle
               ELSE [norm EXCEPT !.pc = "select", !.offset = norm.last, !.pending = {}]
    /\ UNCHANGED <<raw_signals, candidates, candidate_signals, approvals, write_lock>>

\* Mutant: a batch that fails is skipped and the run goes on.
NormalizeSkipBatch ==
    /\ norm.pc = "rows"
    /\ norm' = [norm EXCEPT !.pc = "select", !.offset = norm.last, !.pending = {}]
    /\ UNCHANGED tables

\* An exception anywhere in the loop rolls the open batch back and ends the run.
NormalizeFail ==
    /\ norm.pc # "idle"
    /\ norm' = NormIdle
    /\ UNCHANGED tables

NormalizeNext ==
    \/ NormalizeStart
    \/ NormalizeSelectBatch
    \/ NormalizeRow
    \/ NormalizeCommitBatch
    \/ NormalizeFail
===========================================================================
