------------------------------ MODULE Sourcing ------------------------------
(***************************************************************************)
(* Ingest batches of one source kind: run_ingest_batch (sourcing/_base.py) *)
(* and the kinds' ingest, _insert_signal and health updates.  A batch asks *)
(* each source for its listings, inserts what is new, then updates the     *)
(* sources' health and writes its scheduler_runs row.                      *)
(*                                                                         *)
(* try_insert (db.py) works in a SAVEPOINT.  Outside a transaction its     *)
(* RELEASE commits.  On a duplicate it rolls back to the SAVEPOINT, which  *)
(* leaves the transaction, and with it SQLite's write lock, open until the *)
(* batch commits: later inserts are pending until then.                    *)
(*                                                                         *)
(* The scheduled job passes rows of a session that is closed, so what a    *)
(* batch assigns to them is never written.  The runbooks pass rows of the  *)
(* batch's own session.                                                    *)
(***************************************************************************)
EXTENDS Naturals, FiniteSets

CONSTANTS
    Sources,      \* the sources of this kind
    Listings,     \* per source: how many listings its config names; 0 when the config
                  \* is bad or the token is missing
    Hashes,       \* content hashes of what the listings can show
    Statuses,     \* how a request can end, in the code's terms
    Terminal,     \* TERMINAL_STATUSES
    Threshold,    \* _AUTO_DISABLE_THRESHOLD
    UABlockGuard, \* whether the kind has Reddit's guard
    Callers,      \* callers of ingest_batch
    Attached,     \* callers that pass rows of their own session (the runbooks)
    Nobody,       \* holds a write lock that is free
    NoRow,        \* a scheduler_runs row that is not written
    MaxFirings    \* bound: batches started

ASSUME SourcingAssumption ==
    /\ IsFiniteSet(Sources) /\ IsFiniteSet(Hashes)
    /\ Listings \in [Sources -> Nat]
    /\ {"ok", "forbidden"} \subseteq Statuses
    /\ Terminal \subseteq Statuses \ {"ok"}
    /\ Threshold \in Nat \ {0}
    /\ UABlockGuard \in BOOLEAN
    /\ Attached \subseteq Callers
    /\ Nobody \notin Callers
    /\ MaxFirings \in Nat
    /\ NoRow \notin [ok : BOOLEAN, items : Nat]

Firings == 1 .. MaxFirings

VARIABLES
    raw_signals,     \* per content hash: the firing that committed its row, or 0
    sources,         \* per source: the health columns
    scheduler_runs,  \* per firing: its row, or NoRow
    write_lock,      \* the caller whose write transaction is open
    firings,         \* how many batches were started
    batch,           \* the locals of each caller's batch
    strikes          \* history: terminal batches since the last success, per caller, source

vars == <<raw_signals, sources, scheduler_runs, write_lock, firings, batch, strikes>>

Health == [consecutive_failures : Nat, is_active : BOOLEAN]
Healthy == [consecutive_failures |-> 0, is_active |-> TRUE]
RunRows == [ok : BOOLEAN, items : Nat]

Idle ==
    [pc |-> "idle", firing |-> 0, chosen |-> {}, todo |-> {},
     loaded |-> [s \in Sources |-> Healthy], source |-> Nobody, listings |-> 0,
     items |-> {}, answers |-> {}, captured |-> 0, total |-> 0, ok |-> TRUE,
     results |-> [s \in Sources |-> {}], pending |-> {}, dirty |-> FALSE]

Batches ==
    [pc : {"idle", "loop", "request", "report"}, firing : 0 .. MaxFirings,
     chosen : SUBSET Sources, todo : SUBSET Sources, loaded : [Sources -> Health],
     source : Sources \cup {Nobody}, listings : Nat, items : SUBSET Hashes,
     answers : SUBSET Statuses, captured : Nat, total : Nat, ok : BOOLEAN,
     results : [Sources -> SUBSET Statuses], pending : SUBSET Hashes, dirty : BOOLEAN]

Init ==
    /\ raw_signals = [h \in Hashes |-> 0]
    /\ sources = [s \in Sources |-> Healthy]
    /\ scheduler_runs = [f \in Firings |-> NoRow]
    /\ write_lock = Nobody
    /\ firings = 0
    /\ batch = [b \in Callers |-> Idle]
    /\ strikes = [b \in Callers |-> [s \in Sources |-> 0]]

InTransaction(b) == write_lock = b
CanWrite(b) == write_lock \in {Nobody, b}
Released(b) == IF InTransaction(b) THEN Nobody ELSE write_lock
Active == {s \in Sources : sources[s].is_active}

---------------------------------------------------------------------------
(* The loop over the sources                                               *)

\* The job takes the active sources and returns when there are none; an operator
\* takes any.
Start(b, chosen) ==
    /\ batch[b].pc = "idle"
    /\ firings < MaxFirings
    /\ chosen # {}
    /\ b \in Attached \/ chosen = Active
    /\ firings' = firings + 1
    /\ batch' = [batch EXCEPT ![b] = [Idle EXCEPT !.pc = "loop", !.firing = firings + 1,
                    !.chosen = chosen, !.todo = chosen, !.loaded = sources]]
    /\ UNCHANGED <<raw_signals, sources, scheduler_runs, write_lock, strikes>>

TakeSource(b, s) ==
    /\ batch[b].pc = "loop"
    /\ s \in batch[b].todo
    /\ batch' = [batch EXCEPT ![b] = [batch[b] EXCEPT !.pc = "request", !.source = s,
                    !.todo = @ \ {s}, !.listings = Listings[s]]]
    /\ UNCHANGED <<raw_signals, sources, scheduler_runs, write_lock, firings, strikes>>

\* One listing: the status that the retries ended with and, if it is a success, the
\* items shown.
Request(b, status, items) ==
    /\ batch[b].pc = "request"
    /\ batch[b].items = {}
    /\ batch[b].listings > 0
    /\ status # "ok" => items = {}
    /\ batch' = [batch EXCEPT ![b] = [batch[b] EXCEPT !.items = items,
                    !.listings = @ - 1, !.answers = @ \cup {status}]]
    /\ UNCHANGED <<raw_signals, sources, scheduler_runs, write_lock, firings, strikes>>

\* The locals of ingest end with it.
NextSource(b) ==
    [batch[b] EXCEPT !.pc = "loop", !.source = Nobody, !.listings = 0, !.items = {},
                     !.answers = {}, !.captured = 0]

\* The source's result counts, and its last_fetched_at is assigned: in a session of
\* the batch's own that is an UPDATE which the next flush sends.
EndSource(b) ==
    /\ batch[b].pc = "request"
    /\ batch[b].items = {}
    /\ batch[b].listings = 0
    /\ batch' = [batch EXCEPT ![b] = [NextSource(b) EXCEPT !.dirty = b \in Attached,
                    !.results[batch[b].source] = batch[b].answers,
                    !.total = @ + batch[b].captured]]
    /\ UNCHANGED <<raw_signals, sources, scheduler_runs, write_lock, firings, strikes>>

\* An exception in ingest: a body that does not parse, an INSERT that waits for the write
\* lock longer than busy_timeout.  The source counts nothing, whatever it inserted.  (A
\* session whose flush of an UPDATE failed is unusable: BatchRaises.)
SourceRaises(b) ==
    /\ batch[b].pc = "request"
    /\ batch' = [batch EXCEPT ![b] = [NextSource(b) EXCEPT !.ok = FALSE]]
    /\ UNCHANGED <<raw_signals, sources, scheduler_runs, write_lock, firings, strikes>>

---------------------------------------------------------------------------
(* try_insert: begin_nested flushes what is dirty, which opens the         *)
(* transaction; then the INSERT.                                           *)

Present(b, h) == raw_signals[h] # 0 \/ h \in batch[b].pending

InsertNew(b, h) ==
    LET inserted == [batch[b] EXCEPT !.items = @ \ {h}, !.captured = @ + 1, !.dirty = FALSE]
    IN  /\ batch[b].pc = "request"
        /\ h \in batch[b].items
        /\ CanWrite(b)
        /\ ~Present(b, h)
        /\ \/ /\ InTransaction(b) \/ batch[b].dirty
              /\ batch' = [batch EXCEPT ![b] = [inserted EXCEPT !.pending = @ \cup {h}]]
              /\ write_lock' = b
              /\ UNCHANGED raw_signals
           \/ /\ ~InTransaction(b) /\ ~batch[b].dirty
              /\ batch' = [batch EXCEPT ![b] = inserted]
              /\ raw_signals' = [raw_signals EXCEPT ![h] = batch[b].firing]
              /\ UNCHANGED write_lock
        /\ UNCHANGED <<sources, scheduler_runs, firings, strikes>>

\* Mutant: a duplicate rolls the whole transaction back.
InsertDuplicateBare(b, h) ==
    /\ batch[b].pc = "request"
    /\ h \in batch[b].items
    /\ CanWrite(b)
    /\ Present(b, h)
    /\ batch' = [batch EXCEPT ![b] = [batch[b] EXCEPT !.items = @ \ {h}, !.dirty = FALSE,
                    !.pending = {}]]
    /\ write_lock' = Released(b)
    /\ UNCHANGED <<raw_signals, sources, scheduler_runs, firings, strikes>>

\* ROLLBACK TO SAVEPOINT: nothing is lost, and the transaction stays open.
InsertDuplicate(b, h) ==
    /\ batch[b].pc = "request"
    /\ h \in batch[b].items
    /\ CanWrite(b)
    /\ Present(b, h)
    /\ batch' = [batch EXCEPT ![b] = [batch[b] EXCEPT !.items = @ \ {h}, !.dirty = FALSE]]
    /\ write_lock' = b
    /\ UNCHANGED <<raw_signals, sources, scheduler_runs, firings, strikes>>

---------------------------------------------------------------------------
(* Health: one verdict per source and batch                                *)

\* Mutant: the fraction is taken of all results, answered or not.
UABlockedOfAll(b) ==
    LET refused == {s \in batch[b].chosen : "forbidden" \in batch[b].results[s]}
    IN  UABlockGuard /\ 2 * Cardinality(refused) > Cardinality(batch[b].chosen)
\* More than half of the sources that got an answer were refused.
UABlocked(b) ==
    LET answered == {s \in batch[b].chosen : batch[b].results[s] # {}}
        refused == {s \in answered : "forbidden" \in batch[b].results[s]}
    IN  UABlockGuard /\ 2 * Cardinality(refused) > Cardinality(answered)

Verdict(b, s) ==
    LET statuses == batch[b].results[s]
    IN  IF s \notin batch[b].chosen \/ UABlocked(b) THEN "none"
        ELSE IF "ok" \in statuses THEN "success"
        ELSE IF statuses \cap Terminal # {} THEN "terminal"
        ELSE "none"

\* Mutant: a success takes one failure back.
AfterVerdictDecrements(h, verdict) ==
    IF verdict = "success" THEN [h EXCEPT !.consecutive_failures = @ - 1]
    ELSE IF verdict = "terminal"
         THEN [consecutive_failures |-> h.consecutive_failures + 1,
               is_active |-> h.is_active /\ h.consecutive_failures + 1 < Threshold]
         ELSE h
\* Mutant: every terminal answer counts, and a source gave two.
AfterVerdictPerAnswer(h, verdict) ==
    IF verdict = "success" THEN [h EXCEPT !.consecutive_failures = 0]
    ELSE IF verdict = "terminal"
         THEN [consecutive_failures |-> h.consecutive_failures + 2,
               is_active |-> h.is_active /\ h.consecutive_failures + 2 < Threshold]
         ELSE h
\* apply_default_health_update: a success resets the counter and revives nothing.
AfterVerdict(h, verdict) ==
    IF verdict = "success" THEN [h EXCEPT !.consecutive_failures = 0]
    ELSE IF verdict = "terminal"
         THEN [consecutive_failures |-> h.consecutive_failures + 1,
               is_active |-> h.is_active /\ h.consecutive_failures + 1 < Threshold]
         ELSE h

\* The flush sends the columns that differ from what was loaded.
Flushed(b, s) ==
    LET loaded == batch[b].loaded[s]
        now == AfterVerdict(loaded, Verdict(b, s))
    IN  [consecutive_failures |->
             IF now.consecutive_failures # loaded.consecutive_failures
             THEN now.consecutive_failures ELSE sources[s].consecutive_failures,
         is_active |->
             IF now.is_active # loaded.is_active THEN now.is_active ELSE sources[s].is_active]

Counted(b, s, n) ==
    IF Verdict(b, s) = "success" THEN 0
    ELSE IF Verdict(b, s) = "terminal" THEN n + 1 ELSE n

Committed(b) ==
    [h \in Hashes |-> IF h \in batch[b].pending THEN batch[b].firing ELSE raw_signals[h]]

\* apply_health_updates and session.commit().  Without rows of its own session the batch
\* has no UPDATE to flush; a source that got a result made it dirty.
HealthCommit(b) ==
    /\ batch[b].pc = "loop"
    /\ batch[b].todo = {}
    /\ batch[b].dirty => CanWrite(b)
    /\ sources' = IF b \in Attached THEN [s \in Sources |-> Flushed(b, s)] ELSE sources
    /\ strikes' = [strikes EXCEPT ![b] = [s \in Sources |-> Counted(b, s, strikes[b][s])]]
    /\ raw_signals' = Committed(b)
    /\ write_lock' = Released(b)
    /\ batch' = [batch EXCEPT ![b] = [Idle EXCEPT !.pc = "report",
                    !.firing = batch[b].firing, !.total = batch[b].total, !.ok = batch[b].ok]]
    /\ UNCHANGED <<scheduler_runs, firings>>

---------------------------------------------------------------------------
(* The scheduler_runs row                                                  *)

WriteRow(b, ok, items) ==
    /\ write_lock \in {Nobody, b}
    /\ scheduler_runs' =
          [scheduler_runs EXCEPT ![batch[b].firing] = [ok |-> ok, items |-> items]]

Report(b) ==
    /\ batch[b].pc = "report"
    /\ WriteRow(b, batch[b].ok, batch[b].total)
    /\ batch' = [batch EXCEPT ![b] = Idle]
    /\ UNCHANGED <<raw_signals, sources, write_lock, firings, strikes>>

\* An exception outside ingest, a commit that waits for the lock too long: the session
\* closes and rolls back; the job's wrapper writes a row, if it gets the lock.
BatchRaises(b) ==
    /\ batch[b].pc # "idle"
    /\ batch' = [batch EXCEPT ![b] = Idle]
    /\ write_lock' = Released(b)
    /\ \/ b \notin Attached /\ WriteRow(b, FALSE, 0)
       \/ UNCHANGED scheduler_runs
    /\ UNCHANGED <<raw_signals, sources, firings, strikes>>

Crash ==
    /\ \E b \in Callers : batch[b].pc # "idle"
    /\ batch' = [b \in Callers |-> Idle]
    /\ write_lock' = Nobody
    /\ UNCHANGED <<raw_signals, sources, scheduler_runs, firings, strikes>>

---------------------------------------------------------------------------
BatchStep(b) ==
    \/ \E s \in Sources : TakeSource(b, s)
    \/ \E status \in Statuses, items \in SUBSET Hashes : Request(b, status, items)
    \/ \E h \in Hashes : InsertNew(b, h) \/ InsertDuplicate(b, h)
    \/ EndSource(b)
    \/ HealthCommit(b)
    \/ Report(b)

Next ==
    \/ \E b \in Callers :
          \/ \E chosen \in SUBSET Sources : Start(b, chosen)
          \/ BatchStep(b)
          \/ SourceRaises(b)
          \/ BatchRaises(b)
    \/ Crash

Spec == Init /\ [][Next]_vars

---------------------------------------------------------------------------
(* Type invariant                                                          *)
TypeOK ==
    /\ raw_signals \in [Hashes -> 0 .. MaxFirings]
    /\ sources \in [Sources -> Health]
    /\ scheduler_runs \in [Firings -> RunRows \cup {NoRow}]
    /\ write_lock \in Callers \cup {Nobody}
    /\ firings \in 0 .. MaxFirings
    /\ batch \in [Callers -> Batches]
    /\ strikes \in [Callers -> [Sources -> Nat]]

RowsOf(f) == {h \in Hashes : raw_signals[h] = f}

\* items_processed is the number of rows the batch committed: duplicates, other batches
\* and crashes cost no row and count none.  A batch in which something raised may have
\* committed more than it says, never less.
ReportedItems ==
    \A f \in Firings :
        scheduler_runs[f] # NoRow =>
            IF scheduler_runs[f].ok
            THEN scheduler_runs[f].items = Cardinality(RowsOf(f))
            ELSE scheduler_runs[f].items <= Cardinality(RowsOf(f))

\* A source is disabled by Threshold batches in a row that it answered with a terminal
\* status and no success, however many listings each asked for, and by nothing else.
DisabledByStrikes ==
    [][\A s \in Sources :
         sources[s].is_active /\ ~sources'[s].is_active =>
             \E b \in Attached : strikes'[b][s] >= Threshold]_vars

\* When every source that answered was refused (our proxy or user agent is blocked), no
\* source's health moves, whatever happened to those that did not answer.
GlobalBlockSparesAll ==
    [][\A b \in Callers :
         /\ batch[b].pc = "loop" /\ batch'[b].pc = "report"
         /\ \A s \in Sources :
               batch[b].results[s] # {} => "forbidden" \in batch[b].results[s]
         => UNCHANGED sources]_vars

\* A source that was terminal Threshold times in a row is disabled
\* (docs/tasks/005-reddit-ingester.md, "three-strikes auto-disable").
ThreeStrikesDisable ==
    \A b \in Callers, s \in Sources : strikes[b][s] >= Threshold => ~sources[s].is_active
=============================================================================
