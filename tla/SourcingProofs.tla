-------------------------- MODULE SourcingProofs --------------------------
(***************************************************************************)
(* Types of Sourcing; ReportedItems: a batch's row says how many rows the  *)
(* batch committed, for any number of overlapping batches, sources and     *)
(* items; and the health of sources: a block of the user agent disables    *)
(* none (BlockSparesAll), and with one runbook at a time only Threshold    *)
(* strikes in a row do (DisabledOnlyByStrikes).                            *)
(***************************************************************************)
EXTENDS Sourcing, FiniteSetTheorems, TLAPS

---------------------------------------------------------------------------
(* Types                                                                   *)

\* The locals of a batch before it starts are typed.
LEMMA IdleTyped == Idle \in Batches
BY SourcingAssumption DEF Idle, Batches, Healthy, Health

\* A health update keeps a source's health typed.
LEMMA AfterVerdictTyped ==
    ASSUME NEW h \in Health, NEW verdict
    PROVE  AfterVerdict(h, verdict) \in Health
BY SourcingAssumption DEF AfterVerdict, Health

\* The flush of a source's row keeps its health typed.
LEMMA FlushedTyped ==
    ASSUME TypeOK, NEW b \in Callers, NEW s \in Sources
    PROVE  Flushed(b, s) \in Health
<1>1. batch[b].loaded[s] \in Health /\ sources[s] \in Health
  BY DEF TypeOK, Batches
<1>2. AfterVerdict(batch[b].loaded[s], Verdict(b, s)) \in Health
  BY <1>1, AfterVerdictTyped
<1> QED  BY <1>1, <1>2 DEF Flushed, Health

\* The locals that ingest leaves are typed.
LEMMA NextSourceTyped ==
    ASSUME TypeOK, NEW b \in Callers
    PROVE  NextSource(b) \in Batches
<1>1. batch[b] \in Batches
  BY DEF TypeOK
<1> QED  BY <1>1 DEF NextSource, Batches

\* Only one caller's batch changes in a step of it.
LEMMA BatchTyped ==
    ASSUME TypeOK, NEW b \in Callers, NEW new \in Batches,
           batch' = [batch EXCEPT ![b] = new]
    PROVE  batch' \in [Callers -> Batches]
BY DEF TypeOK

\* Every step keeps the types.
LEMMA NextTypeOK == TypeOK /\ [Next]_vars => TypeOK'
<1> SUFFICES ASSUME TypeOK, [Next]_vars
             PROVE  TypeOK'
  OBVIOUS
<1>a. \A b \in Callers : batch[b] \in Batches
  BY DEF TypeOK
<1>1. ASSUME NEW b \in Callers, NEW chosen \in SUBSET Sources, Start(b, chosen)
      PROVE  TypeOK'
  <2> DEFINE new == [Idle EXCEPT !.pc = "loop", !.firing = firings + 1,
                        !.chosen = chosen, !.todo = chosen, !.loaded = sources]
  <2>1. firings + 1 \in 0 .. MaxFirings /\ sources \in [Sources -> Health]
    BY <1>1, SourcingAssumption DEF Start, TypeOK
  <2>2. new \in Batches
    BY <2>1, IdleTyped DEF Batches
  <2>3. batch' = [batch EXCEPT ![b] = new]
    BY <1>1 DEF Start
  <2>4. batch' \in [Callers -> Batches]
    BY <2>2, <2>3, BatchTyped
  <2> QED  BY <1>1, <2>1, <2>4 DEF Start, TypeOK
<1>2. ASSUME NEW b \in Callers, NEW s \in Sources, TakeSource(b, s)
      PROVE  TypeOK'
  <2> DEFINE new == [batch[b] EXCEPT !.pc = "request", !.source = s,
                        !.todo = @ \ {s}, !.listings = Listings[s]]
  <2>1. new \in Batches
    <3>1. batch[b] \in Batches /\ Listings[s] \in Nat
      BY <1>a, SourcingAssumption
    <3>2. batch[b].todo \ {s} \in SUBSET Sources
      BY <3>1 DEF Batches
    <3> QED  BY <3>1, <3>2 DEF Batches
  <2>2. batch' = [batch EXCEPT ![b] = new]
    BY <1>2 DEF TakeSource
  <2>3. batch' \in [Callers -> Batches]
    BY <2>1, <2>2, BatchTyped
  <2> QED  BY <1>2, <2>3 DEF TakeSource, TypeOK
<1>3. ASSUME NEW b \in Callers, NEW status \in Statuses, NEW items \in SUBSET Hashes,
             Request(b, status, items)
      PROVE  TypeOK'
  <2> DEFINE new == [batch[b] EXCEPT !.items = items, !.listings = @ - 1,
                        !.answers = @ \cup {status}]
  <2>1. batch[b].listings - 1 \in Nat /\ batch[b].answers \cup {status} \in SUBSET Statuses
    BY <1>3, <1>a DEF Request, Batches
  <2>2. new \in Batches
    <3>1. batch[b] \in Batches
      BY <1>a
    <3> DEFINE left == batch[b].listings - 1
               answers == batch[b].answers \cup {status}
    <3>2. left \in Nat /\ answers \in SUBSET Statuses
      BY <2>1
    <3>3. new = [batch[b] EXCEPT !.items = items, !.listings = left, !.answers = answers]
      BY <3>1 DEF Batches
    <3> HIDE DEF new, left, answers
    <3> QED  BY <3>1, <3>2, <3>3 DEF Batches
  <2>3. batch' = [batch EXCEPT ![b] = new]
    BY <1>3 DEF Request
  <2>4. batch' \in [Callers -> Batches]
    BY <2>2, <2>3, BatchTyped
  <2> QED  BY <1>3, <2>4 DEF Request, TypeOK
<1>4. ASSUME NEW b \in Callers, EndSource(b)
      PROVE  TypeOK'
  <2> DEFINE new == [NextSource(b) EXCEPT !.dirty = b \in Attached,
                        !.results[batch[b].source] = batch[b].answers,
                        !.total = @ + batch[b].captured]
  <2>1. new \in Batches
    <3>1. NextSource(b) \in Batches /\ batch[b] \in Batches
      BY <1>a, NextSourceTyped
    <3>2. NextSource(b).total \in Nat /\ batch[b].captured \in Nat
      BY <3>1 DEF Batches
    <3>3. /\ NextSource(b).results \in [Sources -> SUBSET Statuses]
          /\ batch[b].answers \in SUBSET Statuses
      BY <3>1 DEF Batches
    <3> DEFINE total == NextSource(b).total + batch[b].captured
               results == [NextSource(b).results EXCEPT ![batch[b].source] = batch[b].answers]
               upd == b \in Attached
    <3>4. total \in Nat
      BY <3>2
    <3>5. results \in [Sources -> SUBSET Statuses]
      BY <3>3
    <3>6. upd \in BOOLEAN
      OBVIOUS
    <3>7. new = [NextSource(b) EXCEPT !.dirty = upd, !.results = results, !.total = total]
      BY <3>1 DEF Batches
    <3> HIDE DEF total, results, upd, new
    <3> QED  BY <3>1, <3>4, <3>5, <3>6, <3>7 DEF Batches
  <2>2. batch' = [batch EXCEPT ![b] = new]
    BY <1>4 DEF EndSource
  <2>3. batch' \in [Callers -> Batches]
    BY <2>1, <2>2, BatchTyped
  <2> QED  BY <1>4, <2>3 DEF EndSource, TypeOK
<1>5. ASSUME NEW b \in Callers, SourceRaises(b)
      PROVE  TypeOK'
  <2> DEFINE new == [NextSource(b) EXCEPT !.ok = FALSE]
  <2>1. new \in Batches
    <3>1. NextSource(b) \in Batches
      BY NextSourceTyped
    <3> QED  BY <3>1 DEF Batches
  <2>2. batch' = [batch EXCEPT ![b] = new]
    BY <1>5 DEF SourceRaises
  <2>3. batch' \in [Callers -> Batches]
    BY <2>1, <2>2, BatchTyped
  <2> QED  BY <1>5, <2>3 DEF SourceRaises, TypeOK
<1>6. ASSUME NEW b \in Callers, NEW h \in Hashes, InsertNew(b, h)
      PROVE  TypeOK'
  <2> DEFINE inserted ==
               [batch[b] EXCEPT !.items = @ \ {h}, !.captured = @ + 1, !.dirty = FALSE]
             pended == [inserted EXCEPT !.pending = @ \cup {h}]
  <2>1. inserted \in Batches
    <3>1. batch[b] \in Batches
      BY <1>a
    <3>2. batch[b].captured + 1 \in Nat /\ batch[b].items \ {h} \in SUBSET Hashes
      BY <3>1 DEF Batches
    <3> QED  BY <3>1, <3>2 DEF Batches
  <2>2. pended \in Batches
    BY <2>1 DEF Batches
  <2> HIDE DEF inserted
  <2>3. batch' = [batch EXCEPT ![b] = inserted] \/ batch' = [batch EXCEPT ![b] = pended]
    BY <1>6 DEF InsertNew, inserted
  <2>4. batch' \in [Callers -> Batches]
    BY <2>1, <2>2, <2>3, BatchTyped
  <2>5. batch[b].firing \in 0 .. MaxFirings
    BY <1>a DEF Batches
  <2>6. raw_signals' \in [Hashes -> 0 .. MaxFirings]
    BY <1>6, <2>5 DEF InsertNew, TypeOK
  <2> QED  BY <1>6, <2>4, <2>6 DEF InsertNew, TypeOK
<1>7. ASSUME NEW b \in Callers, NEW h \in Hashes, InsertDuplicate(b, h)
      PROVE  TypeOK'
  <2> DEFINE new == [batch[b] EXCEPT !.items = @ \ {h}, !.dirty = FALSE]
  <2>1. new \in Batches
    <3>1. batch[b] \in Batches
      BY <1>a
    <3>2. batch[b].items \ {h} \in SUBSET Hashes
      BY <3>1 DEF Batches
    <3> QED  BY <3>1, <3>2 DEF Batches
  <2>2. batch' = [batch EXCEPT ![b] = new]
    BY <1>7 DEF InsertDuplicate
  <2>3. batch' \in [Callers -> Batches]
    BY <2>1, <2>2, BatchTyped
  <2> QED  BY <1>7, <2>3 DEF InsertDuplicate, TypeOK
<1>8. ASSUME NEW b \in Callers, HealthCommit(b)
      PROVE  TypeOK'
  <2> DEFINE new == [Idle EXCEPT !.pc = "report", !.firing = batch[b].firing,
                        !.total = batch[b].total, !.ok = batch[b].ok]
  <2>1. new \in Batches
    BY <1>a, IdleTyped DEF Batches
  <2>2. batch' = [batch EXCEPT ![b] = new]
    BY <1>8 DEF HealthCommit
  <2>3. batch' \in [Callers -> Batches]
    BY <2>1, <2>2, BatchTyped
  <2>4. sources' \in [Sources -> Health]
    BY <1>8, FlushedTyped DEF HealthCommit, TypeOK
  <2>5. strikes' \in [Callers -> [Sources -> Nat]]
    <3>1. \A s \in Sources : Counted(b, s, strikes[b][s]) \in Nat
      BY DEF Counted, TypeOK
    <3> QED  BY <1>8, <3>1 DEF HealthCommit, TypeOK
  <2>6. raw_signals' \in [Hashes -> 0 .. MaxFirings]
    <3>1. batch[b].firing \in 0 .. MaxFirings
      BY <1>a DEF Batches
    <3> QED  BY <1>8, <3>1 DEF HealthCommit, Committed, TypeOK
  <2>7. write_lock' \in Callers \cup {Nobody}
    BY <1>8 DEF HealthCommit, Released, TypeOK
  <2> QED  BY <1>8, <2>3, <2>4, <2>5, <2>6, <2>7 DEF HealthCommit, TypeOK
<1>9. ASSUME NEW b \in Callers, Report(b) \/ BatchRaises(b)
      PROVE  TypeOK'
  <2>1. batch' \in [Callers -> Batches]
    BY <1>9, IdleTyped, BatchTyped DEF Report, BatchRaises
  <2>2. batch[b].total \in Nat /\ batch[b].ok \in BOOLEAN
    BY <1>a DEF Batches
  <2>3. scheduler_runs' \in [Firings -> RunRows \cup {NoRow}]
    <3>1. ASSUME NEW ok \in BOOLEAN, NEW items \in Nat, WriteRow(b, ok, items)
          PROVE  scheduler_runs' \in [Firings -> RunRows \cup {NoRow}]
      <4>1. [ok |-> ok, items |-> items] \in RunRows
        BY DEF RunRows
      <4> QED  BY <3>1, <4>1 DEF WriteRow, TypeOK
    <3>2. CASE Report(b)
      BY <3>1, <3>2, <2>2 DEF Report
    <3>3. CASE BatchRaises(b)
      BY <3>1, <3>3 DEF BatchRaises, TypeOK
    <3> QED  BY <1>9, <3>2, <3>3
  <2>4. write_lock' \in Callers \cup {Nobody}
    BY <1>9 DEF Report, BatchRaises, Released, TypeOK
  <2> QED  BY <1>9, <2>1, <2>3, <2>4 DEF Report, BatchRaises, TypeOK
<1>10. CASE Crash
  BY <1>10, IdleTyped DEF Crash, TypeOK
<1>11. CASE UNCHANGED vars
  BY <1>11 DEF vars, TypeOK
<1> QED
  BY <1>1, <1>2, <1>3, <1>4, <1>5, <1>6, <1>7, <1>8, <1>9, <1>10, <1>11
  DEF Next, BatchStep

\* The initial state is typed.
LEMMA InitTypeOK == Init => TypeOK
BY IdleTyped, SourcingAssumption DEF Init, TypeOK, Healthy, Health

\* The tables and the locals of every batch hold values of their types.
THEOREM TypeCorrect == Spec => []TypeOK
<1> QED  BY InitTypeOK, NextTypeOK, PTL DEF Spec

---------------------------------------------------------------------------
(* What a running batch has counted                                        *)

\* The rows a batch has: committed ones and the ones its transaction holds.
Won(b) == RowsOf(batch[b].firing) \cup batch[b].pending

Running(b) == batch[b].pc # "idle"

\* n counts a set of rows, exactly as long as nothing raised.
Counts(ok, n, rows) ==
    IF ok THEN n = Cardinality(rows) ELSE n <= Cardinality(rows)

\* Pending rows are new, in an open transaction of a batch before its commit.
PendingInv ==
    /\ \A b \in Callers : batch[b].pending # {} => write_lock = b
    /\ \A b \in Callers : batch[b].pc \in {"idle", "report"} => batch[b].pending = {}
    /\ \A b \in Callers : batch[b].pc # "request" => batch[b].captured = 0
    /\ \A b \in Callers : \A h \in batch[b].pending : raw_signals[h] = 0

\* A firing belongs to one batch, and has no row while that batch runs.
FiringInv ==
    /\ \A h \in Hashes : raw_signals[h] <= firings
    /\ \A b \in Callers : Running(b) => batch[b].firing \in 1 .. firings
    /\ \A b, c \in Callers :
          b # c /\ Running(b) /\ Running(c) => batch[b].firing # batch[c].firing
    /\ \A f \in Firings :
          scheduler_runs[f] # NoRow =>
              /\ f <= firings
              /\ \A b \in Callers : Running(b) => batch[b].firing # f

CountInv ==
    \A b \in Callers :
        Running(b) => Counts(batch[b].ok, batch[b].total + batch[b].captured, Won(b))

ItemsInv == TypeOK /\ PendingInv /\ FiringInv /\ CountInv /\ ReportedItems

\* Sets of rows are finite.
LEMMA RowsFinite ==
    ASSUME NEW rows \in SUBSET Hashes
    PROVE  IsFiniteSet(rows) /\ Cardinality(rows) \in Nat
BY SourcingAssumption, FS_Subset, FS_CardinalityType

\* Committing new rows under one firing leaves the rows of the others alone.
LEMMA RowsAfter ==
    ASSUME TypeOK, NEW f \in Nat \ {0}, NEW g \in Nat, NEW new \in SUBSET Hashes,
           \A h \in new : raw_signals[h] = 0,
           raw_signals' = [h \in Hashes |-> IF h \in new THEN g ELSE raw_signals[h]]
    PROVE  RowsOf(f)' = IF f = g THEN RowsOf(f) \cup new ELSE RowsOf(f)
<1>1. \A h \in Hashes : raw_signals'[h] = IF h \in new THEN g ELSE raw_signals[h]
  OBVIOUS
<1>2. RowsOf(f)' = {h \in Hashes : raw_signals'[h] = f}
  BY DEF RowsOf
<1>3. CASE f = g
  <2>1. RowsOf(f)' = RowsOf(f) \cup new
    BY <1>1, <1>2, <1>3 DEF RowsOf
  <2> QED  BY <2>1, <1>3
<1>4. CASE f # g
  <2>1. RowsOf(f)' = RowsOf(f)
    BY <1>1, <1>2, <1>4 DEF RowsOf
  <2> QED  BY <2>1, <1>4
<1> QED  BY <1>3, <1>4

\* A step of a running batch that commits the rows `new' and goes on as `next' keeps the
\* invariant, if it respects the write lock and counts what it commits.
LEMMA StepKeeps ==
    ASSUME ItemsInv, TypeOK',
           NEW b \in Callers, Running(b),
           NEW next \in Batches, batch' = [batch EXCEPT ![b] = next],
           next.firing = batch[b].firing, next.pc # "idle",
           UNCHANGED <<scheduler_runs, firings>>,
           NEW new \in SUBSET Hashes,
           \A h \in new : raw_signals[h] = 0,
           raw_signals' = [h \in Hashes |-> IF h \in new THEN batch[b].firing ELSE raw_signals[h]],
           write_lock' = write_lock \/ CanWrite(b),
           new = {} \/ CanWrite(b),
           \A h \in next.pending : raw_signals[h] = 0 /\ h \notin new,
           next.pending # {} => write_lock' = b,
           next.pc = "report" => next.pending = {},
           next.pc # "request" => next.captured = 0,
           Counts(next.ok, next.total + next.captured,
                  RowsOf(batch[b].firing) \cup new \cup next.pending)
    PROVE  ItemsInv'
<1> DEFINE firing == batch[b].firing
<1>t. TypeOK /\ b \in Callers /\ firing \in 1 .. firings /\ firing \in Nat \ {0} /\ firings \in Nat
  BY SourcingAssumption DEF ItemsInv, FiringInv, TypeOK
<1>b. /\ batch'[b] = next
      /\ \A c \in Callers : c # b => batch'[c] = batch[c]
  BY DEF ItemsInv, TypeOK
<1>n. \A c \in Callers : c # b /\ batch[c].pending # {} => new = {} /\ write_lock' = write_lock
  BY SourcingAssumption DEF CanWrite, ItemsInv, PendingInv
<1>r. \A h \in Hashes : raw_signals'[h] = IF h \in new THEN firing ELSE raw_signals[h]
  OBVIOUS
<1>1. PendingInv'
  <2>1. \A c \in Callers : batch'[c].pending # {} => write_lock' = c
    BY <1>b, <1>n DEF ItemsInv, PendingInv
  <2>2. \A c \in Callers : batch'[c].pc \in {"idle", "report"} => batch'[c].pending = {}
    BY <1>b DEF ItemsInv, PendingInv
  <2>3. \A c \in Callers : batch'[c].pc # "request" => batch'[c].captured = 0
    BY <1>b DEF ItemsInv, PendingInv
  <2>4. \A c \in Callers : \A h \in batch'[c].pending : raw_signals'[h] = 0
    <3>1. ASSUME NEW c \in Callers, NEW h \in batch'[c].pending
          PROVE  raw_signals'[h] = 0
      <4>1. h \in Hashes
        BY <3>1 DEF TypeOK, Batches
      <4>2. CASE c = b
        BY <4>1, <4>2, <1>b, <1>r, <3>1
      <4>3. CASE c # b
        BY <4>1, <4>3, <1>b, <1>n, <1>r, <3>1 DEF ItemsInv, PendingInv
      <4> QED  BY <4>2, <4>3
    <3> QED  BY <3>1
  <2> QED  BY <2>1, <2>2, <2>3, <2>4 DEF PendingInv
<1>2. FiringInv'
  <2>1. \A h \in Hashes : raw_signals'[h] <= firings'
    BY <1>t, <1>r DEF ItemsInv, FiringInv
  <2>2. \A c \in Callers :
           /\ Running(c)' <=> Running(c)
           /\ Running(c) => batch'[c].firing = batch[c].firing
    BY <1>b DEF Running
  <2> QED  BY <2>1, <2>2, <1>b DEF ItemsInv, FiringInv, Running
<1>3. \A f \in Nat \ {0} : RowsOf(f)' = IF f = firing THEN RowsOf(f) \cup new ELSE RowsOf(f)
  BY <1>t, RowsAfter
<1>4. CountInv'
  <2>1. ASSUME NEW c \in Callers, Running(c)'
        PROVE  Counts(batch'[c].ok, batch'[c].total + batch'[c].captured, Won(c)')
    <3>1. CASE c = b
      <4>1. Won(c)' = RowsOf(firing) \cup new \cup next.pending
        <5>1. Won(c)' = RowsOf(firing)' \cup next.pending
          BY <3>1, <1>b DEF Won, RowsOf
        <5> QED  BY <5>1, <1>3, <1>t
      <4> QED  BY <4>1, <3>1, <1>b
    <3>2. CASE c # b
      <4>1. Running(c) /\ batch'[c] = batch[c]
        BY <2>1, <3>2, <1>b DEF Running
      <4>2. batch[c].firing # firing /\ batch[c].firing \in Nat \ {0}
        BY <4>1, <3>2, <1>t DEF ItemsInv, FiringInv
      <4>3. RowsOf(batch[c].firing)' = RowsOf(batch[c].firing)
        <5>1. RowsOf(batch[c].firing)' = {h \in Hashes : raw_signals'[h] = batch[c].firing}
          BY <4>1 DEF RowsOf
        <5> QED  BY <5>1, <4>2, <1>r DEF RowsOf, ItemsInv, TypeOK
      <4>4. Won(c)' = Won(c)
        BY <4>1, <4>3 DEF Won
      <4> QED  BY <4>1, <4>4 DEF ItemsInv, CountInv
    <3> QED  BY <3>1, <3>2
  <2> QED  BY <2>1 DEF CountInv, Counts
<1>5. ReportedItems'
  <2>1. ASSUME NEW f \in Firings, scheduler_runs[f] # NoRow
        PROVE  RowsOf(f)' = RowsOf(f)
    <3>1. f # firing /\ f \in Nat \ {0}
      BY <2>1, SourcingAssumption DEF ItemsInv, FiringInv, Firings
    <3> QED  BY <3>1, <1>3
  <2> QED  BY <2>1 DEF ItemsInv, ReportedItems
<1> QED  BY <1>1, <1>2, <1>4, <1>5 DEF ItemsInv

\* A batch that ends without a commit keeps the invariant, if the row it may write says
\* what it committed.
LEMMA EndKeeps ==
    ASSUME ItemsInv, TypeOK',
           NEW b \in Callers, Running(b),
           batch' = [batch EXCEPT ![b] = Idle],
           UNCHANGED <<raw_signals, firings>>,
           write_lock' = write_lock \/ write_lock = b,
           NEW ok \in BOOLEAN, NEW items \in Nat,
           Counts(ok, items, RowsOf(batch[b].firing)),
           \/ UNCHANGED scheduler_runs
           \/ WriteRow(b, ok, items)
    PROVE  ItemsInv'
<1> DEFINE firing == batch[b].firing
<1>b. /\ batch'[b] = Idle /\ Idle.pc = "idle" /\ Idle.pending = {} /\ Idle.captured = 0
      /\ \A c \in Callers : c # b => batch'[c] = batch[c]
  BY DEF ItemsInv, TypeOK, Idle
<1>r. \A f : RowsOf(f)' = RowsOf(f)
  BY DEF RowsOf
<1>1. PendingInv'
  <2>1. \A c \in Callers : batch'[c].pending # {} => c # b /\ write_lock' = c
    BY <1>b DEF ItemsInv, PendingInv
  <2>2. \A c \in Callers : \A h \in batch'[c].pending : raw_signals'[h] = 0
    BY <2>1, <1>b DEF ItemsInv, PendingInv
  <2>3. \A c \in Callers :
           /\ batch'[c].pc \in {"idle", "report"} => batch'[c].pending = {}
           /\ batch'[c].pc # "request" => batch'[c].captured = 0
    BY <1>b DEF ItemsInv, PendingInv
  <2> QED  BY <2>1, <2>2, <2>3 DEF PendingInv
<1>2. \A c \in Callers : Running(c)' => Running(c) /\ c # b /\ batch'[c] = batch[c]
  BY <1>b DEF Running
<1>3. \A f \in Firings :
         scheduler_runs'[f] # NoRow => f = firing \/ scheduler_runs[f] # NoRow
  BY DEF WriteRow, ItemsInv, TypeOK
<1>4. FiringInv'
  <2>1. firing \in 1 .. firings
    BY DEF ItemsInv, FiringInv
  <2>2. \A f \in Firings :
           scheduler_runs'[f] # NoRow =>
               f <= firings /\ \A c \in Callers : Running(c)' => batch'[c].firing # f
    BY <1>2, <1>3, <2>1, SourcingAssumption DEF ItemsInv, FiringInv, Firings
  <2> QED  BY <1>2, <2>2 DEF ItemsInv, FiringInv, Running
<1>5. CountInv'
  <2>1. ASSUME NEW c \in Callers, Running(c)'
        PROVE  Counts(batch'[c].ok, batch'[c].total + batch'[c].captured, Won(c)')
    <3>1. Running(c) /\ batch'[c] = batch[c]
      BY <1>2, <2>1
    <3>2. Won(c)' = Won(c)
      BY <3>1 DEF Won, RowsOf
    <3> QED  BY <3>1, <3>2 DEF ItemsInv, CountInv
  <2> QED  BY <2>1 DEF CountInv, Counts
<1>6. ReportedItems'
  <2>1. CASE UNCHANGED scheduler_runs
    BY <2>1, <1>r DEF ItemsInv, ReportedItems
  <2>2. CASE WriteRow(b, ok, items)
    <3>1. ASSUME NEW f \in Firings, scheduler_runs'[f] # NoRow
          PROVE  IF scheduler_runs'[f].ok
                 THEN scheduler_runs'[f].items = Cardinality(RowsOf(f))
                 ELSE scheduler_runs'[f].items <= Cardinality(RowsOf(f))
      <4>1. CASE f = firing
        <5>1. scheduler_runs'[f] = [ok |-> ok, items |-> items]
          BY <4>1, <2>2 DEF WriteRow, ItemsInv, TypeOK
        <5> QED  BY <5>1, <4>1 DEF Counts
      <4>2. CASE f # firing
        <5>1. scheduler_runs'[f] = scheduler_runs[f]
          BY <4>2, <2>2 DEF WriteRow, ItemsInv, TypeOK
        <5> QED  BY <5>1, <3>1 DEF ItemsInv, ReportedItems
      <4> QED  BY <4>1, <4>2
    <3> QED  BY <3>1, <1>r DEF ReportedItems
  <2> QED  BY <2>1, <2>2
<1> QED  BY <1>1, <1>4, <1>5, <1>6 DEF ItemsInv

\* A step of a running batch that touches no table and keeps what it has pending keeps
\* the invariant, if what it has counted still fits.
LEMMA LocalKeeps ==
    ASSUME ItemsInv, TypeOK',
           NEW b \in Callers, Running(b),
           NEW next \in Batches, batch' = [batch EXCEPT ![b] = next],
           next.firing = batch[b].firing, next.pc \in {"loop", "request"},
           next.pending = batch[b].pending,
           next.pc # "request" => next.captured = 0,
           UNCHANGED <<raw_signals, scheduler_runs, firings>>,
           write_lock' = write_lock \/ (write_lock' = b /\ CanWrite(b)),
           \/ next.ok = batch[b].ok /\ next.total + next.captured = batch[b].total + batch[b].captured
           \/ ~next.ok /\ next.total + next.captured <= batch[b].total + batch[b].captured
    PROVE  ItemsInv'
<1>1. raw_signals' = [h \in Hashes |-> IF h \in {} THEN batch[b].firing ELSE raw_signals[h]]
  BY DEF ItemsInv, TypeOK
<1>2. /\ \A h \in next.pending : raw_signals[h] = 0
      /\ next.pending # {} => write_lock' = b
  BY DEF ItemsInv, PendingInv
<1>3. Counts(next.ok, next.total + next.captured, RowsOf(batch[b].firing) \cup {} \cup next.pending)
  <2>1. Counts(batch[b].ok, batch[b].total + batch[b].captured, Won(b))
    BY DEF ItemsInv, CountInv
  <2>2. Won(b) \in SUBSET Hashes
    BY DEF Won, RowsOf, ItemsInv, TypeOK, Batches
  <2>3. Cardinality(Won(b)) \in Nat
    BY <2>2, RowsFinite
  <2>4. /\ next.total + next.captured \in Nat /\ next.ok \in BOOLEAN
        /\ batch[b].total + batch[b].captured \in Nat /\ batch[b].ok \in BOOLEAN
    BY DEF ItemsInv, TypeOK, Batches
  <2>5. Counts(next.ok, next.total + next.captured, Won(b))
    BY <2>1, <2>3, <2>4 DEF Counts
  <2>6. RowsOf(batch[b].firing) \cup {} \cup next.pending = Won(b)
    BY DEF Won
  <2> QED  BY <2>5, <2>6
<1>4. next.pc # "idle" /\ next.pc # "report"
  OBVIOUS
<1>5. write_lock' = write_lock \/ CanWrite(b)
  OBVIOUS
<1>6. {} \in SUBSET Hashes /\ \A h \in {} : raw_signals[h] = 0
  OBVIOUS
<1>7. \A h \in next.pending : raw_signals[h] = 0 /\ h \notin {}
  BY <1>2
<1> DEFINE none == {}
<1> HIDE DEF none
<1>8. /\ none \in SUBSET Hashes /\ \A h \in none : raw_signals[h] = 0
      /\ raw_signals' = [h \in Hashes |-> IF h \in none THEN batch[b].firing ELSE raw_signals[h]]
      /\ \A h \in next.pending : raw_signals[h] = 0 /\ h \notin none
      /\ Counts(next.ok, next.total + next.captured,
                RowsOf(batch[b].firing) \cup none \cup next.pending)
      /\ none = {}
  BY <1>1, <1>3, <1>6, <1>7 DEF none
<1> QED  BY <1>2, <1>4, <1>5, <1>8, StepKeeps

\* Every step keeps the invariant.
LEMMA NextItemsInv == ItemsInv /\ [Next]_vars => ItemsInv'
<1> SUFFICES ASSUME ItemsInv, [Next]_vars
             PROVE  ItemsInv'
  OBVIOUS
<1>t. TypeOK /\ TypeOK'
  BY NextTypeOK DEF ItemsInv
<1>b. \A b \in Callers : batch[b] \in Batches
  BY <1>t DEF TypeOK
<1>c. \A b \in Callers :
         /\ batch[b].total \in Nat /\ batch[b].captured \in Nat /\ batch[b].ok \in BOOLEAN
         /\ batch[b].pending \in SUBSET Hashes /\ batch[b].firing \in Nat
  BY <1>b, SourcingAssumption DEF Batches
<1>1. ASSUME NEW b \in Callers, NEW chosen \in SUBSET Sources, Start(b, chosen)
      PROVE  ItemsInv'
  <2> DEFINE next == [Idle EXCEPT !.pc = "loop", !.firing = firings + 1,
                        !.chosen = chosen, !.todo = chosen, !.loaded = sources]
  <2>1. /\ next.pc = "loop" /\ next.firing = firings + 1 /\ next.ok = TRUE
        /\ next.total = 0 /\ next.captured = 0 /\ next.pending = {}
    BY DEF Idle
  <2>2. /\ batch'[b] = next
        /\ \A c \in Callers : c # b => batch'[c] = batch[c]
    BY <1>1, <1>t DEF Start, TypeOK
  <2>3. /\ ~Running(b) /\ firings \in Nat /\ firings < MaxFirings /\ firings' = firings + 1
        /\ UNCHANGED <<raw_signals, scheduler_runs, write_lock>>
    BY <1>1, <1>t, SourcingAssumption DEF Start, Running, TypeOK
  <2> HIDE DEF next
  <2>4. PendingInv'
    BY <2>1, <2>2, <2>3 DEF ItemsInv, PendingInv
  <2>5. FiringInv'
    <3>1. \A h \in Hashes : raw_signals'[h] <= firings'
      BY <2>3, <1>t, SourcingAssumption DEF ItemsInv, FiringInv, TypeOK
    <3>2. \A c \in Callers : Running(c) => batch[c].firing \in 1 .. firings
      BY DEF ItemsInv, FiringInv
    <3>3. \A c \in Callers : Running(c)' =>
             \/ c = b /\ batch'[c].firing = firings + 1
             \/ c # b /\ Running(c) /\ batch'[c].firing = batch[c].firing
      BY <2>1, <2>2 DEF Running
    <3>4. \A c \in Callers : Running(c)' => batch'[c].firing \in 1 .. firings'
      BY <2>3, <3>2, <3>3
    <3>5. \A c, d \in Callers :
             c # d /\ Running(c)' /\ Running(d)' => batch'[c].firing # batch'[d].firing
      BY <2>3, <3>2, <3>3 DEF ItemsInv, FiringInv
    <3>6. \A f \in Firings :
             scheduler_runs'[f] # NoRow =>
                 /\ f <= firings'
                 /\ \A c \in Callers : Running(c)' => batch'[c].firing # f
      BY <2>3, <3>3, SourcingAssumption DEF ItemsInv, FiringInv, Firings
    <3> QED  BY <3>1, <3>4, <3>5, <3>6 DEF FiringInv
  <2>6. CountInv'
    <3>1. RowsOf(firings + 1) = {}
      BY <2>3, <1>t, SourcingAssumption DEF RowsOf, ItemsInv, FiringInv, TypeOK
    <3>2. \A f : RowsOf(f)' = RowsOf(f)
      BY <2>3 DEF RowsOf
    <3>3. ASSUME NEW c \in Callers, Running(c)'
          PROVE  Counts(batch'[c].ok, batch'[c].total + batch'[c].captured, Won(c)')
      <4>1. CASE c = b
        <5>1. Won(c)' = RowsOf(firings + 1) \cup {}
          BY <4>1, <2>1, <2>2, <2>3 DEF Won, RowsOf
        <5>2. Won(c)' = {}
          BY <5>1, <3>1
        <5> QED  BY <5>2, <4>1, <2>1, <2>2, FS_EmptySet DEF Counts
      <4>2. CASE c # b
        <5>1. Running(c) /\ batch'[c] = batch[c]
          BY <4>2, <3>3, <2>2 DEF Running
        <5>2. Won(c)' = Won(c)
          BY <5>1, <2>3 DEF Won, RowsOf
        <5> QED  BY <5>1, <5>2 DEF ItemsInv, CountInv
      <4> QED  BY <4>1, <4>2
    <3> QED  BY <3>3 DEF CountInv, Counts
  <2>7. ReportedItems'
    BY <2>3 DEF ItemsInv, ReportedItems, RowsOf
  <2> QED  BY <1>t, <2>4, <2>5, <2>6, <2>7 DEF ItemsInv
<1>2. ASSUME NEW b \in Callers, NEW s \in Sources, TakeSource(b, s)
      PROVE  ItemsInv'
  <2> DEFINE next == [batch[b] EXCEPT !.pc = "request", !.source = s,
                        !.todo = @ \ {s}, !.listings = Listings[s]]
  <2>1. batch' = [batch EXCEPT ![b] = next] /\ Running(b)
    BY <1>2 DEF TakeSource, Running
  <2>2. next \in Batches
    BY <1>t, <2>1 DEF TypeOK
  <2>3. /\ next.pc = "request" /\ next.firing = batch[b].firing
        /\ next.pending = batch[b].pending /\ next.ok = batch[b].ok
        /\ next.total = batch[b].total /\ next.captured = batch[b].captured
    BY <1>b DEF Batches
  <2>4. UNCHANGED <<raw_signals, scheduler_runs, firings, write_lock>>
    BY <1>2 DEF TakeSource
  <2> HIDE DEF next
  <2> QED  BY <1>t, <2>1, <2>2, <2>3, <2>4, LocalKeeps
<1>3. ASSUME NEW b \in Callers, NEW status \in Statuses, NEW items \in SUBSET Hashes,
             Request(b, status, items)
      PROVE  ItemsInv'
  <2> DEFINE next == [batch[b] EXCEPT !.items = items, !.listings = @ - 1,
                        !.answers = @ \cup {status}]
  <2>1. batch' = [batch EXCEPT ![b] = next] /\ Running(b)
    BY <1>3 DEF Request, Running
  <2>2. next \in Batches
    BY <1>t, <2>1 DEF TypeOK
  <2>3. /\ next.pc = batch[b].pc /\ next.firing = batch[b].firing
        /\ next.pending = batch[b].pending /\ next.ok = batch[b].ok
        /\ next.total = batch[b].total /\ next.captured = batch[b].captured
    BY <1>b DEF Batches
  <2>4. UNCHANGED <<raw_signals, scheduler_runs, firings, write_lock>> /\ next.pc = "request"
    BY <1>3, <2>3 DEF Request
  <2> HIDE DEF next
  <2> QED  BY <1>t, <2>1, <2>2, <2>3, <2>4, LocalKeeps
<1>4. ASSUME NEW b \in Callers, EndSource(b)
      PROVE  ItemsInv'
  <2> DEFINE next == [NextSource(b) EXCEPT !.dirty = b \in Attached,
                        !.results[batch[b].source] = batch[b].answers,
                        !.total = @ + batch[b].captured]
  <2>1. batch' = [batch EXCEPT ![b] = next] /\ Running(b)
    BY <1>4 DEF EndSource, Running
  <2>2. next \in Batches
    BY <1>t, <2>1 DEF TypeOK
  <2>3. /\ next.pc = "loop" /\ next.firing = batch[b].firing
        /\ next.pending = batch[b].pending /\ next.ok = batch[b].ok
        /\ next.total = batch[b].total + batch[b].captured /\ next.captured = 0
    BY <1>b DEF Batches, NextSource
  <2>4. UNCHANGED <<raw_signals, scheduler_runs, firings, write_lock>>
    BY <1>4 DEF EndSource
  <2>5. next.total + next.captured = batch[b].total + batch[b].captured
    BY <1>c, <2>3
  <2> HIDE DEF next
  <2> QED  BY <1>t, <2>1, <2>2, <2>3, <2>4, <2>5, LocalKeeps
<1>5. ASSUME NEW b \in Callers, SourceRaises(b)
      PROVE  ItemsInv'
  <2> DEFINE next == [NextSource(b) EXCEPT !.ok = FALSE]
  <2>1. batch' = [batch EXCEPT ![b] = next] /\ Running(b)
    BY <1>5 DEF SourceRaises, Running
  <2>2. next \in Batches
    BY <1>t, <2>1 DEF TypeOK
  <2>3. /\ next.pc = "loop" /\ next.firing = batch[b].firing
        /\ next.pending = batch[b].pending /\ next.ok = FALSE
        /\ next.total = batch[b].total /\ next.captured = 0
    BY <1>b DEF Batches, NextSource
  <2>4. UNCHANGED <<raw_signals, scheduler_runs, firings, write_lock>>
    BY <1>5 DEF SourceRaises
  <2>5. next.total + next.captured <= batch[b].total + batch[b].captured
    BY <1>c, <2>3
  <2> HIDE DEF next
  <2> QED  BY <1>t, <2>1, <2>2, <2>3, <2>4, <2>5, LocalKeeps
<1>6. ASSUME NEW b \in Callers, NEW h \in Hashes, InsertNew(b, h)
      PROVE  ItemsInv'
  <2> DEFINE inserted ==
               [batch[b] EXCEPT !.items = @ \ {h}, !.captured = @ + 1, !.dirty = FALSE]
             pended == [inserted EXCEPT !.pending = @ \cup {h}]
             firing == batch[b].firing
  <2>1. /\ Running(b) /\ batch[b].pc = "request" /\ CanWrite(b)
        /\ raw_signals[h] = 0 /\ h \notin batch[b].pending
        /\ UNCHANGED <<scheduler_runs, firings>>
    BY <1>6 DEF InsertNew, Running, Present
  <2>2. /\ inserted.pc = "request" /\ inserted.firing = firing /\ inserted.ok = batch[b].ok
        /\ inserted.pending = batch[b].pending /\ inserted.total = batch[b].total
        /\ inserted.captured = batch[b].captured + 1
    BY <1>b, <2>1 DEF Batches
  <2>3. /\ pended.pc = "request" /\ pended.firing = firing /\ pended.ok = batch[b].ok
        /\ pended.pending = batch[b].pending \cup {h} /\ pended.total = batch[b].total
        /\ pended.captured = batch[b].captured + 1
    BY <1>b, <2>1 DEF Batches
  <2>4. Counts(batch[b].ok, batch[b].total + (batch[b].captured + 1), Won(b) \cup {h})
    <3>1. Won(b) \in SUBSET Hashes
      BY <1>c DEF Won, RowsOf
    <3>2. h \notin Won(b)
      BY <2>1, SourcingAssumption DEF Won, RowsOf, ItemsInv, FiringInv, TypeOK
    <3>3. Cardinality(Won(b) \cup {h}) = Cardinality(Won(b)) + 1 /\ Cardinality(Won(b)) \in Nat
      BY <3>1, <3>2, RowsFinite, FS_AddElement
    <3>4. Counts(batch[b].ok, batch[b].total + batch[b].captured, Won(b))
      BY <2>1 DEF ItemsInv, CountInv
    <3> QED  BY <1>c, <3>3, <3>4 DEF Counts
  <2> HIDE DEF inserted, pended
  <2>5. CASE /\ batch' = [batch EXCEPT ![b] = pended]
             /\ write_lock' = b
             /\ UNCHANGED raw_signals
    <3>1. pended \in Batches
      BY <1>t, <2>5 DEF TypeOK
    <3>2. raw_signals' = [g \in Hashes |-> IF g \in {} THEN firing ELSE raw_signals[g]]
      BY <1>t, <2>5 DEF TypeOK
    <3>3. \A g \in pended.pending : raw_signals[g] = 0 /\ g \notin {}
      BY <2>1, <2>3 DEF ItemsInv, PendingInv
    <3>4. RowsOf(firing) \cup {} \cup pended.pending = Won(b) \cup {h}
      BY <2>3 DEF Won
    <3>5. Counts(pended.ok, pended.total + pended.captured,
                 RowsOf(firing) \cup {} \cup pended.pending)
      BY <2>3, <2>4, <3>4
    <3>6. /\ pended.pc # "idle" /\ pended.pc # "report"
          /\ pended.pc # "request" => pended.captured = 0
      BY <2>3
    <3> DEFINE none == {}
    <3>7. /\ none \in SUBSET Hashes /\ \A g \in none : raw_signals[g] = 0
          /\ raw_signals' = [g \in Hashes |-> IF g \in none THEN firing ELSE raw_signals[g]]
          /\ \A g \in pended.pending : raw_signals[g] = 0 /\ g \notin none
          /\ Counts(pended.ok, pended.total + pended.captured,
                    RowsOf(firing) \cup none \cup pended.pending)
      BY <3>2, <3>3, <3>5
    <3> HIDE DEF none
    <3> QED  BY <1>t, <2>1, <2>3, <2>5, <3>1, <3>6, <3>7, StepKeeps
  <2>6. CASE /\ ~InTransaction(b)
             /\ batch' = [batch EXCEPT ![b] = inserted]
             /\ raw_signals' = [raw_signals EXCEPT ![h] = batch[b].firing]
             /\ UNCHANGED write_lock
    <3>1. inserted \in Batches
      BY <1>t, <2>6 DEF TypeOK
    <3>2. raw_signals' = [g \in Hashes |-> IF g \in {h} THEN firing ELSE raw_signals[g]]
      BY <1>t, <2>6 DEF TypeOK
    <3>3. inserted.pending = {}
      BY <2>2, <2>6 DEF InTransaction, ItemsInv, PendingInv
    <3>4. RowsOf(firing) \cup {h} \cup inserted.pending = Won(b) \cup {h}
      BY <2>2 DEF Won
    <3>5. Counts(inserted.ok, inserted.total + inserted.captured,
                 RowsOf(firing) \cup {h} \cup inserted.pending)
      BY <2>2, <2>4, <3>4
    <3>6. /\ inserted.pc # "idle" /\ inserted.pc # "report"
          /\ inserted.pc # "request" => inserted.captured = 0
      BY <2>2
    <3>7. {h} \in SUBSET Hashes /\ \A g \in {h} : raw_signals[g] = 0
      BY <2>1
    <3>8. \A g \in inserted.pending : raw_signals[g] = 0 /\ g \notin {h}
      BY <3>3
    <3>9. inserted.pending # {} => write_lock' = b
      BY <3>3
    <3> QED
      BY <1>t, <2>1, <2>2, <2>6, <3>1, <3>2, <3>5, <3>6, <3>7, <3>8, <3>9, StepKeeps
  <2> QED  BY <1>6, <2>5, <2>6 DEF InsertNew, inserted, pended
<1>7. ASSUME NEW b \in Callers, NEW h \in Hashes, InsertDuplicate(b, h)
      PROVE  ItemsInv'
  <2> DEFINE next == [batch[b] EXCEPT !.items = @ \ {h}, !.dirty = FALSE]
  <2>1. batch' = [batch EXCEPT ![b] = next] /\ Running(b) /\ CanWrite(b)
    BY <1>7 DEF InsertDuplicate, Running
  <2>2. next \in Batches
    BY <1>t, <2>1 DEF TypeOK
  <2>3. /\ next.pc = batch[b].pc /\ next.firing = batch[b].firing
        /\ next.pending = batch[b].pending /\ next.ok = batch[b].ok
        /\ next.total = batch[b].total /\ next.captured = batch[b].captured
    BY <1>b DEF Batches
  <2>4. /\ UNCHANGED <<raw_signals, scheduler_runs, firings>>
        /\ write_lock' = b /\ next.pc = "request"
    BY <1>7, <2>3 DEF InsertDuplicate
  <2> HIDE DEF next
  <2> QED  BY <1>t, <2>1, <2>2, <2>3, <2>4, LocalKeeps
<1>8. ASSUME NEW b \in Callers, HealthCommit(b)
      PROVE  ItemsInv'
  <2> DEFINE next == [Idle EXCEPT !.pc = "report", !.firing = batch[b].firing,
                        !.total = batch[b].total, !.ok = batch[b].ok]
             pending == batch[b].pending
  <2>1. /\ batch' = [batch EXCEPT ![b] = next] /\ Running(b)
        /\ UNCHANGED <<scheduler_runs, firings>>
    BY <1>8 DEF HealthCommit, Running
  <2>2. next \in Batches
    BY <1>t, <2>1 DEF TypeOK
  <2>3. /\ next.pc = "report" /\ next.firing = batch[b].firing
        /\ next.pending = {} /\ next.captured = 0
        /\ next.ok = batch[b].ok /\ next.total = batch[b].total
    BY DEF Idle
  <2>4. raw_signals' = [h \in Hashes |-> IF h \in pending THEN batch[b].firing ELSE raw_signals[h]]
    BY <1>8 DEF HealthCommit, Committed
  <2>5. pending = {} \/ CanWrite(b)
    BY DEF ItemsInv, PendingInv, CanWrite
  <2>6. write_lock' = write_lock \/ CanWrite(b)
    BY <1>8 DEF HealthCommit, Released, InTransaction, CanWrite
  <2>7. \A h \in pending : raw_signals[h] = 0
    BY DEF ItemsInv, PendingInv
  <2>8. Counts(next.ok, next.total + next.captured,
               RowsOf(batch[b].firing) \cup pending \cup next.pending)
    <3>1. batch[b].captured = 0
      BY <1>8 DEF HealthCommit, ItemsInv, PendingInv
    <3>2. RowsOf(batch[b].firing) \cup pending \cup next.pending = Won(b)
      BY <2>3 DEF Won
    <3>3. Counts(batch[b].ok, batch[b].total + batch[b].captured, Won(b))
      BY <2>1 DEF ItemsInv, CountInv
    <3> QED  BY <2>3, <3>1, <3>2, <3>3
  <2>9. /\ next.pc # "idle"
        /\ next.pc = "report" => next.pending = {}
        /\ next.pc # "request" => next.captured = 0
        /\ next.pending # {} => write_lock' = b
        /\ \A h \in next.pending : raw_signals[h] = 0 /\ h \notin pending
    BY <2>3
  <2> HIDE DEF next
  <2> QED
    BY <1>t, <1>c, <2>1, <2>2, <2>3, <2>4, <2>5, <2>6, <2>7, <2>8, <2>9, StepKeeps
<1>9. ASSUME NEW b \in Callers, Report(b)
      PROVE  ItemsInv'
  <2>1. /\ Running(b) /\ batch[b].pc = "report" /\ batch' = [batch EXCEPT ![b] = Idle]
        /\ UNCHANGED <<raw_signals, write_lock, firings>>
        /\ WriteRow(b, batch[b].ok, batch[b].total)
    BY <1>9 DEF Report, Running
  <2>2. batch[b].pending = {} /\ batch[b].captured = 0
    BY <2>1 DEF ItemsInv, PendingInv
  <2>3. Counts(batch[b].ok, batch[b].total + batch[b].captured, Won(b))
    BY <2>1 DEF ItemsInv, CountInv
  <2>4. Won(b) = RowsOf(batch[b].firing)
    BY <2>2 DEF Won
  <2>5. Counts(batch[b].ok, batch[b].total, RowsOf(batch[b].firing))
    BY <1>c, <2>2, <2>3, <2>4
  <2> QED  BY <1>t, <1>c, <2>1, <2>5, EndKeeps
<1>10. ASSUME NEW b \in Callers, BatchRaises(b)
       PROVE  ItemsInv'
  <2>1. /\ Running(b) /\ batch' = [batch EXCEPT ![b] = Idle]
        /\ UNCHANGED <<raw_signals, firings>>
        /\ write_lock' = write_lock \/ write_lock = b
        /\ UNCHANGED scheduler_runs \/ WriteRow(b, FALSE, 0)
    BY <1>10 DEF BatchRaises, Running, Released, InTransaction
  <2>2. Counts(FALSE, 0, RowsOf(batch[b].firing))
    <3>1. RowsOf(batch[b].firing) \in SUBSET Hashes
      BY DEF RowsOf
    <3>2. Cardinality(RowsOf(batch[b].firing)) \in Nat
      BY <3>1, RowsFinite
    <3> QED  BY <3>2 DEF Counts
  <2> QED  BY <1>t, <2>1, <2>2, EndKeeps
<1>11. CASE Crash
  <2>1. \A b \in Callers : batch'[b].pc = "idle" /\ batch'[b].pending = {} /\ batch'[b].captured = 0
    BY <1>11 DEF Crash, Idle
  <2>2. UNCHANGED <<raw_signals, scheduler_runs, firings>>
    BY <1>11 DEF Crash
  <2>3. PendingInv' /\ CountInv'
    BY <2>1 DEF PendingInv, CountInv, Running
  <2>4. FiringInv'
    BY <2>1, <2>2 DEF ItemsInv, FiringInv, Running
  <2>5. ReportedItems'
    BY <2>2 DEF ItemsInv, ReportedItems, RowsOf
  <2> QED  BY <1>t, <2>3, <2>4, <2>5 DEF ItemsInv
<1>12. CASE UNCHANGED vars
  <2>1. PendingInv' /\ FiringInv' /\ CountInv' /\ ReportedItems'
    BY <1>12 DEF vars, ItemsInv, PendingInv, FiringInv, CountInv, ReportedItems,
                 Running, Won, RowsOf, Counts
  <2> QED  BY <1>t, <2>1 DEF ItemsInv
<1> QED
  BY <1>1, <1>2, <1>3, <1>4, <1>5, <1>6, <1>7, <1>8, <1>9, <1>10, <1>11, <1>12
  DEF Next, BatchStep

\* The initial state satisfies the invariant.
LEMMA InitItemsInv == Init => ItemsInv
<1> SUFFICES ASSUME Init
             PROVE  ItemsInv
  OBVIOUS
<1>1. \A b \in Callers : batch[b].pc = "idle" /\ batch[b].pending = {} /\ batch[b].captured = 0
  BY DEF Init, Idle
<1>2. PendingInv /\ CountInv
  BY <1>1 DEF PendingInv, CountInv, Running
<1>3. FiringInv
  BY <1>1 DEF Init, FiringInv, Running
<1>4. ReportedItems
  BY DEF Init, ReportedItems
<1> QED  BY <1>2, <1>3, <1>4, InitTypeOK DEF ItemsInv

\* A batch's scheduler_runs row counts the rows the batch committed.
THEOREM ItemsReported == Spec => []ReportedItems
<1>1. ItemsInv => ReportedItems
  BY DEF ItemsInv
<1> QED  BY <1>1, InitItemsInv, NextItemsInv, PTL DEF Spec

---------------------------------------------------------------------------
(* Health: the commit of a batch is the only step that moves it            *)

\* The steps of a batch that is asking its sources.
Asking(b) ==
    \/ \E s \in Sources : TakeSource(b, s)
    \/ \E status \in Statuses, items \in SUBSET Hashes : Request(b, status, items)
    \/ \E h \in Hashes : InsertNew(b, h) \/ InsertDuplicate(b, h)
    \/ EndSource(b) \/ SourceRaises(b)

\* A batch that is asking goes on asking, with the rows it loaded.
LEMMA AskingGoesOn ==
    ASSUME TypeOK, NEW b \in Callers, Asking(b)
    PROVE  /\ {batch[b].pc, batch'[b].pc} \subseteq {"loop", "request"}
           /\ batch'[b].loaded = batch[b].loaded
           /\ \A c \in Callers : c # b => batch'[c] = batch[c]
<1>b. batch \in [Callers -> Batches] /\ batch[b] \in Batches
  BY DEF TypeOK
<1> DEFINE Moves(new) ==
             /\ batch' = [batch EXCEPT ![b] = new]
             /\ new.pc \in {"loop", "request"} /\ new.loaded = batch[b].loaded
<1>1. ASSUME NEW new, Moves(new), batch[b].pc \in {"loop", "request"}
      PROVE  /\ {batch[b].pc, batch'[b].pc} \subseteq {"loop", "request"}
             /\ batch'[b].loaded = batch[b].loaded
             /\ \A c \in Callers : c # b => batch'[c] = batch[c]
  BY <1>1, <1>b
<1>2. ASSUME NEW s \in Sources, TakeSource(b, s)
      PROVE  \E new : Moves(new) /\ batch[b].pc \in {"loop", "request"}
  BY <1>2, <1>b DEF TakeSource, Batches
<1>3. ASSUME NEW status \in Statuses, NEW items \in SUBSET Hashes, Request(b, status, items)
      PROVE  \E new : Moves(new) /\ batch[b].pc \in {"loop", "request"}
  BY <1>3, <1>b DEF Request, Batches
<1>4. ASSUME NEW h \in Hashes, InsertNew(b, h) \/ InsertDuplicate(b, h)
      PROVE  \E new : Moves(new) /\ batch[b].pc \in {"loop", "request"}
  BY <1>4, <1>b DEF InsertNew, InsertDuplicate, Batches
<1>5. CASE EndSource(b)
  <2> DEFINE new == [NextSource(b) EXCEPT !.dirty = b \in Attached,
                        !.results[batch[b].source] = batch[b].answers,
                        !.total = @ + batch[b].captured]
  <2>1. new.pc = "loop" /\ new.loaded = batch[b].loaded
    BY <1>b DEF NextSource, Batches
  <2>2. batch' = [batch EXCEPT ![b] = new] /\ batch[b].pc = "request"
    BY <1>5 DEF EndSource
  <2> HIDE DEF new
  <2> QED  BY <1>1, <2>1, <2>2
<1>6. CASE SourceRaises(b)
  <2> DEFINE new == [NextSource(b) EXCEPT !.ok = FALSE]
  <2>1. new.pc = "loop" /\ new.loaded = batch[b].loaded
    BY <1>b DEF NextSource, Batches
  <2>2. batch' = [batch EXCEPT ![b] = new] /\ batch[b].pc = "request"
    BY <1>6 DEF SourceRaises
  <2> HIDE DEF new
  <2> QED  BY <1>1, <2>1, <2>2
<1> HIDE DEF Moves
<1> QED  BY <1>1, <1>2, <1>3, <1>4, <1>5, <1>6 DEF Asking

\* Every step starts a batch, asks, commits, or ends a batch or all of them.
LEMMA StepKinds ==
    ASSUME Next
    PROVE  \/ Crash
           \/ \E b \in Callers :
                 \/ \E chosen \in SUBSET Sources : Start(b, chosen)
                 \/ Asking(b)
                 \/ HealthCommit(b)
                 \/ Report(b) \/ BatchRaises(b)
BY DEF Next, BatchStep, Asking

\* A commit is a step of one batch, which it takes to its report.
LEMMA CommitsOne ==
    ASSUME TypeOK, NEW c \in Callers, HealthCommit(c)
    PROVE  /\ batch[c].pc = "loop" /\ batch'[c].pc = "report"
           /\ \A b \in Callers : b # c => batch'[b] = batch[b]
           /\ \A b \in Callers : b # c => strikes'[b] = strikes[b]
<1> DEFINE new == [Idle EXCEPT !.pc = "report",
                      !.firing = batch[c].firing, !.total = batch[c].total, !.ok = batch[c].ok]
           counted == [s \in Sources |-> Counted(c, s, strikes[c][s])]
<1>1. batch' = [batch EXCEPT ![c] = new] /\ batch[c].pc = "loop"
  BY DEF HealthCommit
<1>2. strikes' = [strikes EXCEPT ![c] = counted]
  BY DEF HealthCommit
<1>3. new.pc = "report"
  BY DEF Idle
<1>4. DOMAIN batch = Callers /\ DOMAIN strikes = Callers
  BY DEF TypeOK
<1> HIDE DEF new, counted
<1> QED  BY <1>1, <1>2, <1>3, <1>4

\* A report, or an exception, ends one batch.
LEMMA EndsOne ==
    ASSUME TypeOK, NEW c \in Callers, Report(c) \/ BatchRaises(c)
    PROVE  /\ batch'[c].pc = "idle"
           /\ \A b \in Callers : b # c => batch'[b] = batch[b]
<1>1. batch' = [batch EXCEPT ![c] = Idle]
  BY DEF Report, BatchRaises
<1>2. Idle.pc = "idle"
  BY DEF Idle
<1>3. DOMAIN batch = Callers
  BY DEF TypeOK
<1> QED  BY <1>1, <1>2, <1>3

\* Health and strikes change in the commit of a batch, which is also the only step that
\* takes a batch from its loop to its report.
LEMMA OnlyCommit ==
    ASSUME TypeOK, [Next]_vars
    PROVE  /\ UNCHANGED <<sources, strikes>> \/ \E b \in Callers : HealthCommit(b)
           /\ \A b \in Callers :
                 batch[b].pc = "loop" /\ batch'[b].pc = "report" => HealthCommit(b)
<1>1. UNCHANGED <<sources, strikes>> \/ \E b \in Callers : HealthCommit(b)
  BY DEF Next, BatchStep, vars, Start, TakeSource, Request, InsertNew,
      InsertDuplicate, EndSource, SourceRaises, Report, BatchRaises, Crash
<1>2. ASSUME NEW b \in Callers, batch[b].pc = "loop" /\ batch'[b].pc = "report"
      PROVE  HealthCommit(b)
  <2>1. CASE Crash \/ UNCHANGED vars
    BY <1>2, <2>1 DEF Crash, Idle, vars
  <2>2. ASSUME NEW c \in Callers, Asking(c)
        PROVE  FALSE
    BY <1>2, <2>2, AskingGoesOn
  <2>3. ASSUME NEW c \in Callers, NEW chosen \in SUBSET Sources, Start(c, chosen)
        PROVE  FALSE
    BY <1>2, <2>3 DEF Start, TypeOK, Idle
  <2>4. ASSUME NEW c \in Callers, Report(c) \/ BatchRaises(c)
        PROVE  FALSE
    BY <1>2, <2>4, EndsOne
  <2>5. ASSUME NEW c \in Callers, HealthCommit(c)
        PROVE  HealthCommit(b)
    BY <1>2, <2>5, CommitsOne
  <2> QED  BY <2>1, <2>2, <2>3, <2>4, <2>5, StepKinds
<1> QED  BY <1>1, <1>2

\* When all that answered were refused, no source gets a verdict.
LEMMA RefusedNoVerdict ==
    ASSUME TypeOK, UABlockGuard, NEW b \in Callers,
           \A s \in Sources : batch[b].results[s] # {} => "forbidden" \in batch[b].results[s],
           NEW s \in Sources
    PROVE  Verdict(b, s) = "none"
<1> DEFINE answered == {r \in batch[b].chosen : batch[b].results[r] # {}}
           refused == {r \in answered : "forbidden" \in batch[b].results[r]}
<1>1. batch[b].chosen \in SUBSET Sources
  BY DEF TypeOK, Batches
<1>2. refused = answered
  BY <1>1
<1>3. IsFiniteSet(answered) /\ Cardinality(answered) \in Nat
  BY <1>1, SourcingAssumption, FS_Subset, FS_CardinalityType
<1>4. CASE answered = {}
  BY <1>4 DEF Verdict
<1>5. CASE answered # {}
  <2>1. Cardinality(answered) # 0
    BY <1>3, <1>5, FS_EmptySet
  <2>2. 2 * Cardinality(refused) > Cardinality(answered)
    <3> HIDE DEF answered, refused
    <3> QED  BY <1>2, <1>3, <2>1
  <2> QED  BY <2>2 DEF Verdict, UABlocked
<1> QED  BY <1>4, <1>5

\* No source is punished for a block of our own user agent: for every number of sources
\* and callers.  The guard is Reddit's: the other kinds have none.
THEOREM BlockSparesAll ==
    ASSUME UABlockGuard
    PROVE  Spec => GlobalBlockSparesAll
<1>1. ASSUME TypeOK, [Next]_vars, NEW b \in Callers,
             batch[b].pc = "loop" /\ batch'[b].pc = "report",
             \A s \in Sources :
                batch[b].results[s] # {} => "forbidden" \in batch[b].results[s]
      PROVE  UNCHANGED sources
  <2>1. HealthCommit(b)
    BY <1>1, OnlyCommit
  <2>2. ASSUME NEW s \in Sources
        PROVE  Flushed(b, s) = sources[s]
    <3>1. Verdict(b, s) = "none"
      BY <1>1, RefusedNoVerdict
    <3>2. AfterVerdict(batch[b].loaded[s], Verdict(b, s)) = batch[b].loaded[s]
      BY <3>1 DEF AfterVerdict
    <3>3. sources[s] \in Health
      BY <1>1 DEF TypeOK
    <3> QED  BY <3>2, <3>3 DEF Flushed, Health
  <2>3. sources \in [Sources -> Health]
    BY <1>1 DEF TypeOK
  <2> QED  BY <2>1, <2>2, <2>3 DEF HealthCommit
<1>2. TypeOK /\ [Next]_vars =>
         [\A b \in Callers :
            /\ batch[b].pc = "loop" /\ batch'[b].pc = "report"
            /\ \A s \in Sources :
                  batch[b].results[s] # {} => "forbidden" \in batch[b].results[s]
            => UNCHANGED sources]_vars
  BY <1>1
<1> QED  BY <1>2, TypeCorrect, PTL DEF Spec, GlobalBlockSparesAll

\* Of several runbooks at once none sees its strikes alone: each adds to what the others
\* wrote.  With one, a source's counter never exceeds that runbook's strikes, and a
\* batch that runs has loaded what the rows still hold.
OneHand == \A a, b \in Attached : a = b

StrikesInv ==
    \A b \in Attached :
        /\ \A s \in Sources : sources[s].consecutive_failures <= strikes[b][s]
        /\ batch[b].pc \in {"loop", "request"} => batch[b].loaded = sources

\* In a commit that has loaded what the rows hold, a source's row becomes what its
\* verdict makes of it.
LEMMA FlushedIsVerdict ==
    ASSUME TypeOK, NEW b \in Callers, batch[b].loaded = sources, NEW s \in Sources
    PROVE  Flushed(b, s) = AfterVerdict(sources[s], Verdict(b, s))
<1>1. sources[s] \in Health
  BY DEF TypeOK
<1>2. AfterVerdict(sources[s], Verdict(b, s)) \in Health
  BY <1>1, AfterVerdictTyped
<1> QED  BY <1>1, <1>2 DEF Flushed, Health

\* A batch in its loop or at a request has just started or was there, with the same rows
\* loaded.
LEMMA LoadedKept ==
    ASSUME TypeOK, [Next]_vars, NEW b \in Callers,
           batch'[b].pc \in {"loop", "request"}
    PROVE  \/ batch'[b].loaded = sources
           \/ /\ batch[b].pc \in {"loop", "request"}
              /\ batch'[b].loaded = batch[b].loaded
<1>1. CASE UNCHANGED vars
  BY <1>1 DEF vars
<1>2. CASE Crash
  BY <1>2 DEF Crash, Idle
<1>3. ASSUME NEW c \in Callers, Asking(c)
      PROVE  /\ batch[b].pc \in {"loop", "request"}
             /\ batch'[b].loaded = batch[b].loaded
  BY <1>3, AskingGoesOn
<1>4. ASSUME NEW c \in Callers, NEW chosen \in SUBSET Sources, Start(c, chosen)
      PROVE  batch'[b].loaded = sources \/ batch'[b] = batch[b]
  BY <1>4 DEF Start, TypeOK, Idle
<1>5. ASSUME NEW c \in Callers, HealthCommit(c) \/ Report(c) \/ BatchRaises(c)
      PROVE  batch'[b] = batch[b]
  <2>1. CASE HealthCommit(c)
    BY <2>1, CommitsOne
  <2>2. CASE Report(c) \/ BatchRaises(c)
    BY <2>2, EndsOne
  <2> QED  BY <1>5, <2>1, <2>2
<1> QED  BY <1>1, <1>2, <1>3, <1>4, <1>5, StepKinds

\* One runbook at a time never disables a source before its time.
LEMMA NextStrikesInv ==
    ASSUME OneHand, TypeOK, TypeOK', StrikesInv, [Next]_vars
    PROVE  StrikesInv'
<1> SUFFICES ASSUME NEW b \in Attached
             PROVE  /\ \A s \in Sources : sources'[s].consecutive_failures <= strikes'[b][s]
                    /\ batch'[b].pc \in {"loop", "request"} => batch'[b].loaded = sources'
  BY DEF StrikesInv
<1>b. b \in Callers /\ \A c \in Attached : c = b
  BY SourcingAssumption DEF OneHand
<1>1. CASE \E c \in Callers : HealthCommit(c)
  <2> PICK c \in Callers : HealthCommit(c)
    BY <1>1
  <2>1. CASE c \notin Attached
    <3>1. sources' = sources /\ strikes'[b] = strikes[b] /\ batch'[b] = batch[b]
      BY <2>1, <1>b DEF HealthCommit, TypeOK
    <3> QED  BY <3>1 DEF StrikesInv
  <2>2. CASE c = b
    <3>1. batch[b].loaded = sources
      BY <2>2 DEF HealthCommit, StrikesInv
    <3>2. ASSUME NEW s \in Sources
          PROVE  sources'[s].consecutive_failures <= strikes'[b][s]
      <4>1. sources'[s] = AfterVerdict(sources[s], Verdict(b, s))
        BY <2>2, <1>b, <3>1, FlushedIsVerdict DEF HealthCommit
      <4>2. strikes'[b][s] = Counted(b, s, strikes[b][s])
        BY <2>2, <1>b DEF HealthCommit, TypeOK
      <4>3. sources[s] \in Health /\ strikes[b][s] \in Nat
        BY <1>b DEF TypeOK
      <4>4. sources[s].consecutive_failures <= strikes[b][s]
        BY DEF StrikesInv
      <4> QED  BY <4>1, <4>2, <4>3, <4>4 DEF AfterVerdict, Counted, Health
    <3>3. batch'[b].pc = "report"
      BY <2>2, <1>b DEF HealthCommit, TypeOK
    <3> QED  BY <3>2, <3>3
  <2> QED  BY <2>1, <2>2, <1>b
<1>2. CASE UNCHANGED <<sources, strikes>>
  <2>1. batch'[b].pc \in {"loop", "request"} => batch'[b].loaded = sources'
    BY <1>2, <1>b, LoadedKept DEF StrikesInv
  <2> QED  BY <1>2, <2>1 DEF StrikesInv
<1> QED  BY <1>1, <1>2, OnlyCommit

\* A source is disabled by Threshold terminal batches in a row and by nothing else, for
\* every threshold and whatever the scheduled jobs do meanwhile, while one runbook runs
\* at a time.
THEOREM DisabledOnlyByStrikes ==
    ASSUME OneHand
    PROVE  Spec => DisabledByStrikes
<1>1. Init => StrikesInv
  BY SourcingAssumption DEF Init, StrikesInv, Idle, Healthy
<1>2. ASSUME TypeOK, StrikesInv, [Next]_vars,
             NEW s \in Sources, sources[s].is_active, ~sources'[s].is_active
      PROVE  \E b \in Attached : strikes'[b][s] >= Threshold
  <2>1. PICK b \in Callers : HealthCommit(b)
    BY <1>2, OnlyCommit
  <2>2. b \in Attached /\ batch[b].loaded = sources
    BY <1>2, <2>1 DEF HealthCommit, StrikesInv
  <2>3. sources'[s] = AfterVerdict(sources[s], Verdict(b, s))
    BY <1>2, <2>1, <2>2, FlushedIsVerdict DEF HealthCommit
  <2>4. sources[s] \in Health /\ strikes[b][s] \in Nat /\ Threshold \in Nat
    BY <1>2, SourcingAssumption DEF TypeOK
  <2>5. Verdict(b, s) = "terminal" /\ sources[s].consecutive_failures + 1 >= Threshold
    BY <1>2, <2>3, <2>4 DEF AfterVerdict, Health
  <2>6. strikes'[b][s] = strikes[b][s] + 1
    BY <1>2, <2>1, <2>5 DEF HealthCommit, Counted, TypeOK
  <2>7. sources[s].consecutive_failures <= strikes[b][s]
    BY <1>2, <2>2 DEF StrikesInv
  <2>8. strikes'[b][s] >= Threshold
    BY <2>4, <2>5, <2>6, <2>7 DEF Health
  <2> QED  BY <2>2, <2>8
<1>3. TypeOK /\ StrikesInv /\ [Next]_vars =>
         [\A s \in Sources :
            sources[s].is_active /\ ~sources'[s].is_active =>
                \E b \in Attached : strikes'[b][s] >= Threshold]_vars
  BY <1>2
<1>4. TypeOK /\ TypeOK' /\ StrikesInv /\ [Next]_vars => StrikesInv'
  BY NextStrikesInv
<1> QED  BY <1>1, <1>3, <1>4, TypeCorrect, PTL DEF Spec, DisabledByStrikes
=============================================================================
