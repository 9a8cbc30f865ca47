-------------------------- MODULE SchedulerProofs --------------------------
(***************************************************************************)
(* Proofs about Scheduler, for every set of jobs, grid and number of       *)
(* operator threads: its types, that an ingest firing is counted once,     *)
(* that the pause in memory agrees with the one on disk, that no job       *)
(* starts between an answered pause and the next resume and, for grids     *)
(* that are far enough apart, that normalize starts before the cluster job *)
(* of its slot.                                                            *)
(***************************************************************************)
EXTENDS Scheduler, TLAPS, FiniteSetTheorems, WellFoundedInduction

\* A worker that has not ended has written no row; one whose body raised has
\* at most the row its pipeline function wrote on the way out.
RowsInv ==
    \A j \in Jobs :
        /\ work[j] = "working" => rows[j] = 0
        /\ work[j] = "failed" => rows[j] <= 1
        /\ (work[j] = "failed" /\ j \notin Pipeline) => rows[j] = 0
        /\ j \notin Pipeline => rows[j] <= 1

\* The inductive invariant of the types and of the row count.
RecordsInv == TypeOK /\ RowsInv

\* What is under way is known: nothing outside a process that is up, one
\* request at most while the history says it runs alone.
RequestsInv ==
    /\ proc # "up" => Busy = {}
    /\ proc = "booting" => state = "running"
    /\ last \notin {"busy", "overlapped"} => Busy = {}
    /\ last = "busy" => \A o, p \in Busy : o = p

Target(o) == IF request[o].op = "pause" THEN "paused" ELSE "running"

\* How far a request that runs alone has come.
AloneInv ==
    last = "busy" =>
        \A o \in Operators :
            /\ request[o].pc = "persist" =>
                 request[o].op # "restart" /\ state = Target(o)
            /\ request[o].pc = "switch" => request[o].op # "restart"
            /\ request[o].pc \in {"shutdown", "start"} => request[o].op = "restart"
            /\ (request[o].pc = "audit" /\ request[o].ok /\ request[o].op # "restart")
                 => state = Target(o) /\ (paused_flag <=> request[o].op = "pause")

\* The inductive invariant of PauseAgrees.
PauseInv == RecordsInv /\ RequestsInv /\ AloneInv /\ PauseAgrees

---------------------------------------------------------------------------
\* A step of a job's body keeps the rows within what the batch and _wrap write.
LEMMA JobEndsRecords ==
    ASSUME RecordsInv, NEW j \in Jobs, JobEnds(j)
    PROVE  RecordsInv'
<1> USE DEF RecordsInv, TypeOK, RowsInv, Ends, lifecycle, control, Works
<1>1. CASE NoActiveSources(j)
  BY <1>1 DEF NoActiveSources
<1>2. CASE Completes(j)
  BY <1>2 DEF Completes
<1>3. CASE Raises(j)
  BY <1>3 DEF Raises
<1>4. CASE RaisesWithRow(j)
  BY <1>4 DEF RaisesWithRow
<1>5. CASE WrapRecords(j)
  BY <1>5 DEF WrapRecords
<1>6. CASE WrapFails(j)
  BY <1>6 DEF WrapFails
<1> QED
  BY <1>1, <1>2, <1>3, <1>4, <1>5, <1>6 DEF JobEnds

\* A step of a request keeps the types and touches no job.
LEMMA RequestTypes ==
    ASSUME RecordsInv, NEW o \in Operators, Begin(o) \/ RequestStep(o)
    PROVE  RecordsInv'
<1> USE DEF RecordsInv, TypeOK, RowsInv, lifecycle, jobs, Requests, Outcomes,
            NoRequest, Goto, Fails, Answer
<1>1. CASE Begin(o)
  BY <1>1 DEF Begin
<1>2. CASE Switch(o)
  BY <1>2 DEF Switch
<1>3. CASE SwitchRaises(o)
  BY <1>3 DEF SwitchRaises
<1>4. CASE Persist(o)
  BY <1>4 DEF Persist
<1>5. CASE RequestLost(o)
  BY <1>5 DEF RequestLost
<1>6. CASE Shutdown(o)
  BY <1>6 DEF Shutdown
<1>7. CASE Start(o)
  BY <1>7 DEF Start
<1>8. CASE StartRaises(o)
  BY <1>8 DEF StartRaises
<1>9. CASE Audit(o)
  BY <1>9 DEF Audit
<1> QED
  BY <1>1, <1>2, <1>3, <1>4, <1>5, <1>6, <1>7, <1>8, <1>9 DEF RequestStep

\* The invariant of types and rows holds at the start and is kept.
LEMMA RecordsInvariant == Spec => []RecordsInv
<1>1. Init => RecordsInv
  <2> SUFFICES ASSUME Init PROVE RecordsInv
    OBVIOUS
  <2>1. phase \in 0 .. Cycle - 1
    BY SchedulerAssumption DEF Init
  <2>2. request \in [Operators -> Requests]
    BY DEF Init, Requests, NoRequest
  <2>3. work \in [Jobs -> Works] /\ rows \in [Jobs -> 0 .. 2] /\ RowsInv
    BY DEF Init, Works, RowsInv
  <2> QED
    BY <2>1, <2>2, <2>3 DEF Init, RecordsInv, TypeOK, Outcomes
<1>2. RecordsInv /\ [Next]_vars => RecordsInv'
  <2> SUFFICES ASSUME RecordsInv, [Next]_vars PROVE RecordsInv'
    OBVIOUS
  <2> USE SchedulerAssumption DEF RecordsInv, TypeOK, RowsInv
  <2>1. CASE Tick
    BY <2>1 DEF Tick, lifecycle, control
  <2>2. ASSUME NEW j \in Jobs, Fire(j) PROVE RecordsInv'
    BY <2>2 DEF Fire, lifecycle, control, Works
  <2>3. ASSUME NEW j \in Jobs, Skip(j) PROVE RecordsInv'
    BY <2>3 DEF Skip, lifecycle, control
  <2>4. ASSUME NEW j \in Jobs, JobEnds(j) PROVE RecordsInv'
    BY <2>4, JobEndsRecords
  <2>5. CASE Boot
    BY <2>5 DEF Boot, control
  <2>6. CASE ReapplyPause
    BY <2>6 DEF ReapplyPause, jobs, Outcomes
  <2>7. CASE FlagUnreadable
    BY <2>7 DEF FlagUnreadable, jobs, Outcomes
  <2>8. CASE Stop
    BY <2>8 DEF Stop, jobs, control
  <2>9. CASE Exit
    BY <2>9 DEF Exit, Requests, NoRequest, Works
  <2>10. ASSUME NEW o \in Operators, Begin(o) \/ RequestStep(o) PROVE RecordsInv'
    BY <2>10, RequestTypes
  <2>11. CASE UNCHANGED vars
    BY <2>11 DEF vars
  <2> QED
    BY <2>1, <2>2, <2>3, <2>4, <2>5, <2>6, <2>7, <2>8, <2>9, <2>10, <2>11 DEF Next
<1> QED
  BY <1>1, <1>2, PTL DEF Spec

\* Every state of the scheduler has the types of TypeOK: no firing ever
\* leaves a third row.
THEOREM TypeCorrect == Spec => []TypeOK
BY RecordsInvariant, PTL DEF RecordsInv

\* An ingest firing leaves at most one row: _wrap never adds to a batch's.
THEOREM IngestCounted == Spec => []IngestCountedOnce
<1>1. RecordsInv => IngestCountedOnce
  BY DEF RecordsInv, RowsInv, IngestCountedOnce
<1> QED
  BY <1>1, RecordsInvariant, PTL

---------------------------------------------------------------------------
\* A step of a request keeps what is known of the requests under way.
LEMMA RequestKeepsPause ==
    ASSUME PauseInv, RecordsInv', NEW o \in Operators, RequestStep(o)
    PROVE  (RequestsInv /\ AloneInv /\ PauseAgrees)'
<1> USE DEF PauseInv, RecordsInv, TypeOK, RequestsInv, AloneInv, PauseAgrees,
            Busy, Target, lifecycle, jobs, Requests, Outcomes, NoRequest, Goto,
            Fails, Answer
<1>1. CASE Switch(o)
  BY <1>1 DEF Switch
<1>2. CASE SwitchRaises(o)
  BY <1>2 DEF SwitchRaises
<1>3. CASE Persist(o)
  <2>1. paused_flag' <=> request[o].op = "pause"
    BY <1>3 DEF Persist
  <2>2. /\ request[o].pc = "persist"
        /\ request' = [request EXCEPT ![o].pc = "audit"]
        /\ UNCHANGED <<proc, state, last>>
    BY <1>3 DEF Persist
  <2> QED
    BY <2>1, <2>2
<1>4. CASE RequestLost(o)
  BY <1>4 DEF RequestLost
<1>5. CASE Shutdown(o)
  BY <1>5 DEF Shutdown
<1>6. CASE Start(o)
  BY <1>6 DEF Start
<1>7. CASE StartRaises(o)
  BY <1>7 DEF StartRaises
<1>8. CASE Audit(o)
  BY <1>8 DEF Audit
<1> QED
  BY <1>1, <1>2, <1>3, <1>4, <1>5, <1>6, <1>7, <1>8 DEF RequestStep

\* A new request runs alone exactly if no other is under way.
LEMMA BeginKeepsPause ==
    ASSUME PauseInv, RecordsInv', NEW o \in Operators, Begin(o)
    PROVE  (RequestsInv /\ AloneInv /\ PauseAgrees)'
BY DEF PauseInv, RecordsInv, TypeOK, RequestsInv, AloneInv, PauseAgrees, Begin,
       Busy, Target, lifecycle, jobs, Requests, Outcomes

\* The agreement of the two pauses, with what it rests on, is kept.
LEMMA PauseInvariant == Spec => []PauseInv
<1>1. Init => RequestsInv /\ AloneInv /\ PauseAgrees
  BY DEF Init, RequestsInv, AloneInv, PauseAgrees, Busy, NoRequest
<1>2. PauseInv /\ RecordsInv' /\ [Next]_vars => PauseInv'
  <2> SUFFICES ASSUME PauseInv, RecordsInv', [Next]_vars
               PROVE  (RequestsInv /\ AloneInv /\ PauseAgrees)'
    BY DEF PauseInv
  <2> USE DEF PauseInv, RequestsInv, AloneInv, PauseAgrees, Busy, Target
  <2>1. CASE Tick
    BY <2>1 DEF Tick, lifecycle, control
  <2>2. ASSUME NEW j \in Jobs, Fire(j) PROVE (RequestsInv /\ AloneInv /\ PauseAgrees)'
    BY <2>2 DEF Fire, lifecycle, control
  <2>3. ASSUME NEW j \in Jobs, Skip(j) PROVE (RequestsInv /\ AloneInv /\ PauseAgrees)'
    BY <2>3 DEF Skip, lifecycle, control
  <2>4. ASSUME NEW j \in Jobs, JobEnds(j)
        PROVE  (RequestsInv /\ AloneInv /\ PauseAgrees)'
    BY <2>4 DEF JobEnds, NoActiveSources, Completes, Raises, RaisesWithRow,
                WrapRecords, WrapFails, Ends, lifecycle, control
  <2>5. CASE Boot
    BY <2>5 DEF Boot, control
  <2>6. CASE ReapplyPause
    BY <2>6 DEF ReapplyPause, jobs
  <2>7. CASE FlagUnreadable
    BY <2>7 DEF FlagUnreadable, jobs
  <2>8. CASE Stop
    BY <2>8 DEF Stop, jobs, control
  <2>9. CASE Exit
    BY <2>9 DEF Exit, NoRequest
  <2>10. ASSUME NEW o \in Operators, Begin(o) \/ RequestStep(o)
         PROVE  (RequestsInv /\ AloneInv /\ PauseAgrees)'
    BY <2>10, BeginKeepsPause, RequestKeepsPause
  <2>11. CASE UNCHANGED vars
    BY <2>11 DEF vars
  <2> QED
    BY <2>1, <2>2, <2>3, <2>4, <2>5, <2>6, <2>7, <2>8, <2>9, <2>10, <2>11 DEF Next
<1>3. Init /\ RecordsInv => PauseInv
  BY <1>1 DEF PauseInv
<1> QED
  BY <1>2, <1>3, RecordsInvariant, PTL DEF Spec

\* The pause in memory and the row of runtime_state agree whenever the last
\* thing done to them was a boot that read the row, or a pause or a resume
\* that answered ok and ran alone, with any number of operator threads.
THEOREM PauseAgreed == Spec => []PauseAgrees
BY PauseInvariant, PTL DEF PauseInv

---------------------------------------------------------------------------
(* A pause that was answered: no job starts until it is resumed.           *)

\* What a request is about to do is what it was asked for, and a restart on its way
\* from shutdown to start has closed the pool.
StagesInv ==
    \A o \in Operators :
        /\ request[o].pc \in {"switch", "persist"} => request[o].op # "restart"
        /\ request[o].pc = "start" => pool = "closed"

\* Between an answered pause and the next resume, the row is there, no resume is under
\* way, and a scheduler that runs again has a closed pool.
AskedInv ==
    asked =>
        /\ paused_flag
        /\ \A o \in Busy : request[o].op # "resume"
        /\ proc = "up" => state # "running" \/ pool = "closed"

\* The inductive invariant of PausedUntilResumed.
SilenceInv == PauseInv /\ StagesInv /\ AskedInv

\* A step of a request keeps the scheduler silent.
LEMMA RequestKeepsSilence ==
    ASSUME SilenceInv, NEW o \in Operators, Begin(o) \/ RequestStep(o)
    PROVE  (StagesInv /\ AskedInv)'
<1> USE DEF SilenceInv, StagesInv, AskedInv, Busy, lifecycle, jobs
<1>0. request \in [Operators -> Requests] /\ paused_flag \in BOOLEAN /\ asked \in BOOLEAN
  BY DEF PauseInv, RecordsInv, TypeOK
<1>1. CASE Begin(o)
  <2>1. PICK op \in {"pause", "resume", "restart"} :
          /\ request' = [request EXCEPT ![o] =
                 [pc |-> IF op = "restart" THEN "shutdown" ELSE "switch",
                  op |-> op, ok |-> TRUE]]
          /\ asked' = (asked /\ op # "resume")
    BY <1>1 DEF Begin
  <2>2. UNCHANGED <<proc, state, pool, paused_flag>>
    BY <1>1 DEF Begin
  <2>3. /\ request'[o].op = op
        /\ request'[o].pc = IF op = "restart" THEN "shutdown" ELSE "switch"
        /\ \A p \in Operators : p # o => request'[p] = request[p]
    BY <1>0, <2>1
  <2>4. StagesInv'
    BY <2>2, <2>3
  <2>5. AskedInv'
    BY <2>1, <2>2, <2>3
  <2> QED
    BY <2>4, <2>5
<1>2. CASE Switch(o)
  BY <1>0, <1>2 DEF Switch, Goto, Requests
<1>3. CASE SwitchRaises(o)
  BY <1>0, <1>3 DEF SwitchRaises, Fails, Requests
<1>4. CASE Persist(o)
  <2>1. /\ request[o].pc = "persist" /\ request[o].op \in {"pause", "resume"}
        /\ request' = [request EXCEPT ![o].pc = "audit"]
        /\ paused_flag' = (request[o].op = "pause")
        /\ UNCHANGED <<proc, state, pool, asked>>
    BY <1>0, <1>4 DEF Persist, Goto, Requests
  <2>2. ASSUME asked PROVE paused_flag'
    BY <2>1, <2>2
  <2> QED
    BY <1>0, <2>1, <2>2 DEF Requests
<1>5. CASE RequestLost(o)
  BY <1>0, <1>5 DEF RequestLost, Answer, Requests, NoRequest
<1>6. CASE Shutdown(o)
  BY <1>0, <1>6 DEF Shutdown, Goto, Requests
<1>7. CASE Start(o)
  BY <1>0, <1>7 DEF Start, Goto, Requests
<1>8. CASE StartRaises(o)
  BY <1>0, <1>8 DEF StartRaises, Fails, Requests
<1>9. CASE Audit(o)
  <2>1. /\ request[o].pc = "audit" /\ request' = [request EXCEPT ![o] = NoRequest]
        /\ asked' = (asked \/ (request[o].ok /\ request[o].op = "pause" /\ last = "busy"))
        /\ UNCHANGED <<proc, state, pool, paused_flag>>
    BY <1>9 DEF Audit, Answer
  <2>2. StagesInv'
    BY <1>0, <2>1 DEF NoRequest
  <2>3. CASE asked
    BY <1>0, <2>1, <2>3 DEF NoRequest
  <2>4. CASE request[o].ok /\ request[o].op = "pause" /\ last = "busy"
    <3>1. state = "paused" /\ paused_flag
      BY <2>1, <2>4 DEF PauseInv, AloneInv, Target
    <3>2. \A p \in Operators : p # o => request[p].pc = "idle"
      BY <2>1, <2>4 DEF PauseInv, RequestsInv
    <3> QED
      BY <1>0, <2>1, <2>2, <3>1, <3>2 DEF NoRequest
  <2>5. CASE ~asked'
    BY <2>2, <2>5
  <2> QED
    BY <2>1, <2>3, <2>4, <2>5, <2>2
<1> QED
  BY <1>1, <1>2, <1>3, <1>4, <1>5, <1>6, <1>7, <1>8, <1>9 DEF RequestStep

\* Every step keeps the scheduler silent.
LEMMA SilenceStep == SilenceInv /\ [Next]_vars => (StagesInv /\ AskedInv)'
<1> SUFFICES ASSUME SilenceInv, [Next]_vars PROVE (StagesInv /\ AskedInv)'
  OBVIOUS
<1> USE DEF SilenceInv, StagesInv, AskedInv, Busy
<1>1. CASE Tick
  BY <1>1 DEF Tick, lifecycle, control
<1>2. ASSUME NEW j \in Jobs, Fire(j) PROVE (StagesInv /\ AskedInv)'
  BY <1>2 DEF Fire, lifecycle, control
<1>3. ASSUME NEW j \in Jobs, Skip(j) PROVE (StagesInv /\ AskedInv)'
  BY <1>3 DEF Skip, lifecycle, control
<1>4. ASSUME NEW j \in Jobs, JobEnds(j) PROVE (StagesInv /\ AskedInv)'
  BY <1>4 DEF JobEnds, NoActiveSources, Completes, Raises, RaisesWithRow,
              WrapRecords, WrapFails, Ends, lifecycle, control
<1>5. CASE Boot
  BY <1>5 DEF Boot, control, PauseInv, RequestsInv
<1>6. CASE ReapplyPause
  BY <1>6 DEF ReapplyPause, jobs
<1>7. CASE FlagUnreadable
  BY <1>7 DEF FlagUnreadable, jobs
<1>8. CASE Stop
  BY <1>8 DEF Stop, jobs, control
<1>9. CASE Exit
  BY <1>9 DEF Exit, NoRequest
<1>10. ASSUME NEW o \in Operators, Begin(o) \/ RequestStep(o) PROVE (StagesInv /\ AskedInv)'
  BY <1>10, RequestKeepsSilence
<1>11. CASE UNCHANGED vars
  BY <1>11 DEF vars
<1> QED
  BY <1>1, <1>2, <1>3, <1>4, <1>5, <1>6, <1>7, <1>8, <1>9, <1>10, <1>11 DEF Next

\* What starts a job is Fire, on an open pool.
LEMMA StartsFromPool ==
    ASSUME RecordsInv, [Next]_vars, NEW j \in Jobs, Starts(j)
    PROVE  state = "running" /\ pool = "open"
<1>0. work \in [Jobs -> Works]
  BY DEF RecordsInv, TypeOK
<1>1. ASSUME NEW i \in Jobs, Fire(i) PROVE state = "running" /\ pool = "open"
  BY <1>1 DEF Fire
<1>2. ASSUME NEW i \in Jobs, JobEnds(i) PROVE FALSE
  BY <1>0, <1>2 DEF JobEnds, NoActiveSources, Completes, Raises, RaisesWithRow,
                    WrapRecords, WrapFails, Ends, Starts, Working
<1>3. CASE Exit
  BY <1>0, <1>3 DEF Exit, Starts, Working
<1>4. ASSUME UNCHANGED work PROVE FALSE
  BY <1>4 DEF Starts, Working
<1>5. ASSUME NEW i \in Jobs, Skip(i) PROVE FALSE
  BY <1>4, <1>5 DEF Skip
<1>6. ~ (Tick \/ Boot \/ ReapplyPause \/ FlagUnreadable \/ Stop)
  BY <1>4 DEF Tick, Boot, ReapplyPause, FlagUnreadable, Stop, jobs
<1>7. ASSUME NEW o \in Operators, Begin(o) \/ RequestStep(o) PROVE FALSE
  BY <1>4, <1>7 DEF Begin, RequestStep, Switch, SwitchRaises, Persist, RequestLost,
                    Shutdown, Start, StartRaises, Audit, jobs
<1>8. ~ UNCHANGED vars
  BY <1>4 DEF vars
<1> QED
  BY <1>1, <1>2, <1>3, <1>5, <1>6, <1>7, <1>8 DEF Next

\* Once the process is up, no job starts between an answered pause and the next resume,
\* with any jobs and any number of operator threads, over crashes, boots and restarts.
THEOREM PauseIsKept == Spec => PausedUntilResumed
<1>1. Init => StagesInv /\ AskedInv
  BY DEF Init, StagesInv, AskedInv, NoRequest
<1>2. PauseInv /\ StagesInv /\ AskedInv /\ [Next]_vars => (StagesInv /\ AskedInv)'
  BY SilenceStep DEF SilenceInv
<1>3. PauseInv /\ StagesInv /\ AskedInv /\ [Next]_vars
        => [proc = "up" => \A j \in Jobs : Starts(j) => ~asked]_vars
  BY StartsFromPool DEF PauseInv, AskedInv
<1> QED
  BY <1>1, <1>2, <1>3, PauseInvariant, PTL DEF Spec, PausedUntilResumed

---------------------------------------------------------------------------
(* The grid: which job starts first.                                       *)

\* Once the cluster job of a slot has started, its normalize job is too late.
OrderInv == clustered => ~InGrace(NormalizeJob, phase)

\* A time of day before now is now less the ticks since, or a day later.
LEMMA TimeSince ==
    ASSUME NEW x \in 0 .. Cycle - 1, NEW d \in 0 .. Cycle - 1
    PROVE  (x - d) % Cycle = IF d <= x THEN x - d ELSE x - d + Cycle
<1>1. CASE d <= x
  BY <1>1, SchedulerAssumption
<1>2. CASE x < d
  <2>1. x - d + Cycle \in 0 .. Cycle - 1 /\ x - d = Cycle * (-1) + (x - d + Cycle)
    BY <1>2, SchedulerAssumption
  <2> QED
    BY <1>2, <2>1, SchedulerAssumption
<1> QED
  BY <1>1, <1>2

\* The day starts over after its last tick.
LEMMA TimeAfter ==
    ASSUME NEW x \in 0 .. Cycle - 1
    PROVE  (x + 1) % Cycle = IF x + 1 = Cycle THEN 0 ELSE x + 1
BY SchedulerAssumption

\* Some slot is the latest: among the distances to them one is least.
LEMMA LeastPhase ==
    ASSUME NEW T \in SUBSET (0 .. Cycle - 1), T # {}
    PROVE  \E x \in T : \A y \in T : x <= y
<1> DEFINE Upto(x) == {y \in T : y <= x}
           Family == {Upto(x) : x \in T}
<1>1. IsFiniteSet(T)
  <2>1. IsFiniteSet(0 .. Cycle - 1)
    BY FS_Interval, SchedulerAssumption
  <2> QED
    BY <2>1, FS_Subset
<1>2. Family \subseteq FiniteSubsetsOf(T)
  BY <1>1, FS_Subset DEF FiniteSubsetsOf
<1>3. Family # {}
  OBVIOUS
<1>4. IsWellFoundedOn(StrictSubsetOrdering(T), FiniteSubsetsOf(T))
  BY FS_StrictSubsetOrderingWellFounded
<1>5. \E X \in Family : \A Y \in Family : <<Y, X>> \notin StrictSubsetOrdering(T)
  <2> HIDE DEF Family
  <2> QED
    BY <1>2, <1>3, <1>4, WFMin
<1>6. PICK x \in T : \A y \in T : <<Upto(y), Upto(x)>> \notin StrictSubsetOrdering(T)
  BY <1>5
<1>7. ASSUME NEW y \in T, y < x PROVE FALSE
  <2>1. /\ \A z \in T : z <= y => z <= x
        /\ x <= x
        /\ ~ (x <= y)
    BY <1>7, SchedulerAssumption
  <2>2. /\ Upto(y) \subseteq Upto(x)
        /\ x \in Upto(x)
        /\ x \notin Upto(y)
    BY <2>1
  <2>3. <<Upto(y), Upto(x)>> \in StrictSubsetOrdering(T)
    BY <2>2 DEF StrictSubsetOrdering
  <2> QED
    BY <1>6, <2>3
<1> QED
  BY <1>7, SchedulerAssumption

\* Lateness is the distance to the latest slot.
LEMMA LatenessIsLeast ==
    ASSUME phase \in 0 .. Cycle - 1, NEW j \in Jobs
    PROVE  /\ Lateness(j) \in 0 .. Cycle - 1
           /\ (phase - Lateness(j)) % Cycle \in Slots[j]
<1> DEFINE T == {d \in 0 .. Cycle - 1 : (phase - d) % Cycle \in Slots[j]}
<1>1. PICK s \in Slots[j] : s \in 0 .. Cycle - 1
  BY SchedulerAssumption
<1>2. T # {}
  <2>1. CASE s <= phase
    <3>1. phase - s \in 0 .. Cycle - 1 /\ (phase - (phase - s)) % Cycle = s
      BY <1>1, <2>1, SchedulerAssumption, TimeSince
    <3> QED
      BY <3>1
  <2>2. CASE phase < s
    <3>1. phase - s + Cycle \in 0 .. Cycle - 1 /\ ~ (phase - s + Cycle <= phase)
      BY <1>1, <2>2, SchedulerAssumption
    <3>2. (phase - (phase - s + Cycle)) % Cycle = phase - (phase - s + Cycle) + Cycle
      BY <3>1, TimeSince
    <3>3. (phase - (phase - s + Cycle)) % Cycle = s
      BY <1>1, <3>2, SchedulerAssumption
    <3> QED
      BY <3>1, <3>3
  <2> QED
    BY <1>1, <2>1, <2>2, SchedulerAssumption
<1>3. PICK x \in T : \A y \in T : x <= y
  <2>1. T \in SUBSET (0 .. Cycle - 1)
    OBVIOUS
  <2> HIDE DEF T
  <2> QED
    BY <1>2, <2>1, LeastPhase
<1>4. \A e \in 0 .. x - 1 : (phase - e) % Cycle \notin Slots[j]
  BY <1>3, SchedulerAssumption
<1>5. x \in 0 .. Cycle - 1 /\ (phase - x) % Cycle \in Slots[j]
  OBVIOUS
<1> QED
  BY <1>4, <1>5 DEF Lateness

\* A job that starts on time is within the grace of a slot.
LEMMA OnTimeInGrace ==
    ASSUME phase \in 0 .. Cycle - 1, NEW j \in Jobs, OnTime(j)
    PROVE  InGrace(j, phase)
BY LatenessIsLeast DEF OnTime, InGrace

\* A tick moves a job into the grace of a slot only on the slot itself.
LEMMA TickInGrace ==
    ASSUME NEW x \in 0 .. Cycle - 1, NEW j \in Jobs,
           InGrace(j, (x + 1) % Cycle), (x + 1) % Cycle \notin Slots[j]
    PROVE  InGrace(j, x)
<1> DEFINE y == (x + 1) % Cycle
<1>1. y \in 0 .. Cycle - 1 /\ y = IF x + 1 = Cycle THEN 0 ELSE x + 1
  BY TimeAfter, SchedulerAssumption
<1>2. PICK d \in 0 .. Cycle - 1 : d <= Grace /\ (y - d) % Cycle \in Slots[j]
  BY DEF InGrace
<1>3. (y - 0) % Cycle = y
  BY <1>1, TimeSince, SchedulerAssumption
<1>4. d # 0
  BY <1>2, <1>3
<1>5. d - 1 \in 0 .. Cycle - 1 /\ d - 1 <= Grace
  BY <1>2, <1>4, SchedulerAssumption
<1>6. (x - (d - 1)) % Cycle = (y - d) % Cycle
  <2>1. (x - (d - 1)) % Cycle = IF d - 1 <= x THEN x - (d - 1) ELSE x - (d - 1) + Cycle
    BY <1>5, TimeSince
  <2>2. (y - d) % Cycle = IF d <= y THEN y - d ELSE y - d + Cycle
    BY <1>1, TimeSince
  <2> HIDE DEF y
  <2> QED
    BY <1>1, <1>4, <2>1, <2>2, SchedulerAssumption
<1> QED
  BY <1>2, <1>5, <1>6 DEF InGrace

\* Whatever starts the normalize job, or ends the lateness of its slot, finds
\* the order of the grid.
LEMMA OrderStep ==
    ASSUME OffsetOutlastsGrace, RecordsInv, OrderInv, [Next]_vars
    PROVE  OrderInv' /\ (Starts(NormalizeJob) => ~clustered)
<1> USE SchedulerAssumption
<1>0. phase \in 0 .. Cycle - 1 /\ clustered \in BOOLEAN /\ work \in [Jobs -> Works]
  BY DEF RecordsInv, TypeOK
<1>1. CASE Tick
  <2>1. work' = work /\ phase' = (phase + 1) % Cycle
    BY <1>1 DEF Tick
  <2>2. ASSUME clustered' PROVE ~InGrace(NormalizeJob, phase')
    <3>1. clustered /\ phase' \notin Slots[NormalizeJob]
      BY <1>1, <2>2 DEF Tick
    <3> QED
      BY <1>0, <2>1, <3>1, TickInGrace DEF OrderInv
  <2> QED
    BY <2>1, <2>2 DEF OrderInv, Starts, Working
<1>2. ASSUME NEW j \in Jobs, Fire(j)
      PROVE  OrderInv' /\ (Starts(NormalizeJob) => ~clustered)
  <2>1. InGrace(j, phase) /\ phase' = phase
    BY <1>0, <1>2, OnTimeInGrace DEF Fire
  <2>2. clustered' = (clustered \/ j = ClusterJob)
    BY <1>2 DEF Fire
  <2>3. Starts(NormalizeJob) => j = NormalizeJob
    BY <1>0, <1>2 DEF Fire, Starts, Working
  <2> QED
    BY <1>0, <2>1, <2>2, <2>3 DEF OrderInv, OffsetOutlastsGrace
<1>3. ASSUME NEW j \in Jobs, JobEnds(j)
      PROVE  OrderInv' /\ (Starts(NormalizeJob) => ~clustered)
  <2>1. UNCHANGED <<phase, clustered>>
    BY <1>3 DEF JobEnds, NoActiveSources, Completes, Raises, RaisesWithRow,
                WrapRecords, WrapFails, Ends
  <2>2. ~Starts(NormalizeJob)
    BY <1>0, <1>3 DEF JobEnds, NoActiveSources, Completes, Raises, RaisesWithRow,
                      WrapRecords, WrapFails, Ends, Starts, Working
  <2> QED
    BY <2>1, <2>2 DEF OrderInv
<1>4. CASE Exit
  BY <1>0, <1>4 DEF Exit, OrderInv, Starts, Working
<1>5. ASSUME UNCHANGED <<phase, work, clustered>>
      PROVE  OrderInv' /\ (Starts(NormalizeJob) => ~clustered)
  BY <1>5 DEF OrderInv, Starts, Working
<1>6. ASSUME NEW j \in Jobs, Skip(j) PROVE UNCHANGED <<phase, work, clustered>>
  BY <1>6 DEF Skip
<1>7. CASE Boot \/ ReapplyPause \/ FlagUnreadable \/ Stop
  <2>1. UNCHANGED <<phase, work, clustered>>
    BY <1>7 DEF Boot, ReapplyPause, FlagUnreadable, Stop, jobs
  <2> QED
    BY <2>1, <1>5
<1>8. ASSUME NEW o \in Operators, Begin(o) \/ RequestStep(o)
      PROVE  UNCHANGED <<phase, work, clustered>>
  BY <1>8 DEF Begin, RequestStep, Switch, SwitchRaises, Persist, RequestLost,
              Shutdown, Start, StartRaises, Audit, jobs
<1>9. CASE UNCHANGED vars
  BY <1>5, <1>9 DEF vars
<1> QED
  BY <1>1, <1>2, <1>3, <1>4, <1>5, <1>6, <1>7, <1>8, <1>9 DEF Next

\* On grids whose offset outlasts the grace, the normalize job of a slot never
\* starts after the cluster job meant to read what it wrote: no crash, boot,
\* pause, resume or slow job reorders them, whatever is due.
THEOREM NormalizeFirst ==
    ASSUME OffsetOutlastsGrace
    PROVE  Spec => NormalizeStartsFirst
<1>1. Init => OrderInv
  BY DEF Init, OrderInv
<1>2. RecordsInv /\ OrderInv /\ [Next]_vars => OrderInv'
  BY OrderStep
<1>3. RecordsInv /\ OrderInv /\ [Next]_vars => [Starts(NormalizeJob) => ~clustered]_vars
  BY OrderStep
<1> QED
  BY <1>1, <1>2, <1>3, RecordsInvariant, PTL DEF Spec, NormalizeStartsFirst
=============================================================================
