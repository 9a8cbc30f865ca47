----------------------------- MODULE Scheduler -----------------------------
(***************************************************************************)
(* The process around the jobs: the lifespan of main.py boots it, starts   *)
(* APScheduler and applies a pause the operator had asked for; register_all*)
(* puts every job on a fixed grid; _wrap runs one and records a failure;   *)
(* the handlers of routes/ops.py pause, resume and restart the scheduler,  *)
(* each in a thread of its own, in several steps.                          *)
(*                                                                         *)
(* Time is a phase of Cycle ticks that the grids of all the jobs share.    *)
(* What a job does is in Normalize, Cluster and Sourcing: here it is       *)
(* working until it ends.                                                  *)
(***************************************************************************)
EXTENDS Integers, FiniteSets

CONSTANTS
    Jobs,        \* EXPECTED_JOB_IDS
    NormalizeJob, ClusterJob,
    Operators,   \* threads that serve the operator's requests
    Cycle,       \* ticks after which the grids of all the jobs repeat
    Slots,       \* Slots[j]: the phases at which the trigger of j fires
    Grace        \* misfire_grace_time, in ticks

ASSUME SchedulerAssumption ==
    /\ NormalizeJob \in Jobs /\ ClusterJob \in Jobs
    /\ NormalizeJob # ClusterJob
    /\ Cycle \in Nat \ {0}
    /\ Slots \in [Jobs -> SUBSET (0 .. Cycle - 1)]
    /\ \A j \in Jobs : Slots[j] # {}
    /\ Grace \in Nat

VARIABLES
    phase,        \* the time of day
    proc,         \* the process
    state,        \* scheduler.state
    pool,         \* the threads of its executor: shutdown closes them for good
    due,          \* jobs whose next_run_time has come
    work,         \* what each job's worker thread is at
    rows,         \* scheduler_runs rows of each job's latest firing
    paused_flag,  \* the row of runtime_state
    request,      \* the request each operator thread serves
    last,         \* history: the last request, when it ran alone
    asked,        \* history: a pause was answered, and no resume asked for since
    clustered     \* history: the cluster job ran since the last normalize slot

lifecycle == <<proc, state, pool>>
jobs == <<due, work, rows, clustered>>
control == <<paused_flag, request, last, asked>>
vars == <<phase, proc, state, pool, due, work, rows, paused_flag, request, last,
          asked, clustered>>

Pipeline == {NormalizeJob, ClusterJob}
Works == {"idle", "working", "failed"}
Requests == [pc : {"idle", "switch", "persist", "shutdown", "start", "audit"},
             op : {"pause", "resume", "restart"}, ok : BOOLEAN]
NoRequest == [pc |-> "idle", op |-> "pause", ok |-> TRUE]
Outcomes == {"boot", "pause", "resume", "restart", "failed", "busy", "overlapped"}

Busy == {o \in Operators : request[o].pc # "idle"}
Working(j) == work[j] # "idle"

\* Ticks since the latest of j's slots: coalesce leaves only that one.
Lateness(j) ==
    CHOOSE d \in 0 .. Cycle - 1 :
        /\ (phase - d) % Cycle \in Slots[j]
        /\ \A e \in 0 .. d - 1 : (phase - e) % Cycle \notin Slots[j]

\* j has a slot in the Grace ticks before p, p included: at p it may start.
InGrace(j, p) == \E d \in 0 .. Cycle - 1 : d <= Grace /\ (p - d) % Cycle \in Slots[j]

\* The offset of register_all: at no time of day may both start.
OffsetOutlastsGrace ==
    \A p \in 0 .. Cycle - 1 : InGrace(ClusterJob, p) => ~InGrace(NormalizeJob, p)

Init ==
    /\ phase = 0
    /\ proc = "down"
    /\ state = "stopped"
    /\ pool = "closed"
    /\ due = {}
    /\ work = [j \in Jobs |-> "idle"]
    /\ rows = [j \in Jobs |-> 0]
    /\ paused_flag = FALSE
    /\ request = [o \in Operators |-> NoRequest]
    /\ last = "failed"
    /\ asked = FALSE
    /\ clustered = FALSE

---------------------------------------------------------------------------
(* APScheduler's timer and workers.                                        *)

\* A due job that a running scheduler hands to a worker.
OnTime(j) == ~Working(j) /\ Lateness(j) <= Grace

\* A tick is longer than the scheduler takes to wake up.
Tick ==
    /\ state = "running" => due = {}
    /\ phase' = (phase + 1) % Cycle
    /\ due' = due \cup {j \in Jobs : phase' \in Slots[j]}
    /\ clustered' = (clustered /\ phase' \notin Slots[NormalizeJob])
    /\ UNCHANGED <<lifecycle, work, rows, control>>

\* Mutant: no misfire_grace_time, so a job starts however late it is.
FireLate(j) ==
    /\ state = "running" /\ pool = "open"
    /\ j \in due /\ ~Working(j)
    /\ due' = due \ {j}
    /\ work' = [work EXCEPT ![j] = "working"]
    /\ rows' = [rows EXCEPT ![j] = 0]
    /\ clustered' = (clustered \/ j = ClusterJob)
    /\ UNCHANGED <<phase, lifecycle, control>>
Fire(j) ==
    /\ state = "running" /\ pool = "open"
    /\ j \in due /\ OnTime(j)
    /\ due' = due \ {j}
    /\ work' = [work EXCEPT ![j] = "working"]
    /\ rows' = [rows EXCEPT ![j] = 0]
    /\ clustered' = (clustered \/ j = ClusterJob)
    /\ UNCHANGED <<phase, lifecycle, control>>

\* max_instances, misfire_grace_time, or a closed pool, which raises what APScheduler
\* only logs: this firing is dropped.
Skip(j) ==
    /\ state = "running"
    /\ j \in due
    /\ ~OnTime(j) \/ pool = "closed"
    /\ due' = due \ {j}
    /\ UNCHANGED <<phase, lifecycle, work, rows, clustered, control>>

---------------------------------------------------------------------------
(* A firing: the body of a job in _wrap.                                   *)

Ends(j, how, n) ==
    /\ work' = [work EXCEPT ![j] = how]
    /\ rows' = [rows EXCEPT ![j] = @ + n]
    /\ UNCHANGED <<phase, lifecycle, due, clustered, control>>

NoActiveSources(j) == j \notin Pipeline /\ work[j] = "working" /\ Ends(j, "idle", 0)

\* Mutant: the batch records its run and starts over.
CompletesAndRepeats(j) == work[j] = "working" /\ Ends(j, "working", 1)
\* The batch wrote its own row.
Completes(j) == work[j] = "working" /\ Ends(j, "idle", 1)

\* It raises with no row of its own: before writing it, or in writing it.
Raises(j) == work[j] = "working" /\ Ends(j, "failed", 0)

\* Mutant: run_ingest_batch too writes its row while an exception passes.
RaisesWithRowAny(j) == work[j] = "working" /\ Ends(j, "failed", 1)
\* normalize_raw_signals and cluster_signals write theirs on the way out.
RaisesWithRow(j) == j \in Pipeline /\ work[j] = "working" /\ Ends(j, "failed", 1)

\* The except branch of _wrap, whose own commit may fail.
WrapFails(j) == work[j] = "failed" /\ Ends(j, "idle", 0)
WrapRecords(j) == work[j] = "failed" /\ Ends(j, "idle", 1)

\* Mutant: no except branch, and a firing that raises stays where it is.
JobEndsUnlessRaises(j) ==
    NoActiveSources(j) \/ Completes(j) \/ Raises(j) \/ RaisesWithRow(j)
JobEnds(j) ==
    \/ NoActiveSources(j) \/ Completes(j) \/ Raises(j) \/ RaisesWithRow(j)
    \/ WrapRecords(j) \/ WrapFails(j)

---------------------------------------------------------------------------
(* lifespan (main.py).                                                     *)

\* start_scheduler builds a pool; register_all replaces every job, whose next firing is
\* counted from now, and start() fires before the pause is looked up.
Boot ==
    /\ proc = "down"
    /\ proc' = "booting"
    /\ state' = "running"
    /\ pool' = "open"
    /\ due' \in SUBSET {j \in due : phase \in Slots[j]}
    /\ UNCHANGED <<phase, work, rows, clustered, control>>

\* Mutant: the pause is not applied again.
ReapplyNothing ==
    /\ proc = "booting"
    /\ proc' = "up"
    /\ last' = "boot"
    /\ UNCHANGED <<phase, state, pool, jobs, paused_flag, request, asked>>
ReapplyPause ==
    /\ proc = "booting"
    /\ proc' = "up"
    /\ state' = IF paused_flag THEN "paused" ELSE state
    /\ last' = "boot"
    /\ UNCHANGED <<phase, pool, jobs, paused_flag, request, asked>>

\* runtime_state cannot be read: the process starts un-paused, as documented.
FlagUnreadable ==
    /\ proc = "booting"
    /\ proc' = "up"
    /\ last' = "failed"
    /\ asked' = FALSE
    /\ UNCHANGED <<phase, state, pool, jobs, paused_flag, request>>

\* The server has answered its requests; workers are not waited for.
Stop ==
    /\ proc = "up" /\ Busy = {}
    /\ proc' = "stopping"
    /\ state' = "stopped"
    /\ pool' = "closed"
    /\ UNCHANGED <<phase, jobs, control>>

\* The process is gone, killed at any point or after Stop.
Exit ==
    /\ proc # "down"
    /\ proc' = "down"
    /\ state' = "stopped"
    /\ pool' = "closed"
    /\ work' = [j \in Jobs |-> "idle"]
    /\ request' = [o \in Operators |-> NoRequest]
    /\ UNCHANGED <<phase, due, rows, clustered, paused_flag, last, asked>>

---------------------------------------------------------------------------
(* The handlers of routes/ops.py.                                          *)

Goto(o, pc) == request' = [request EXCEPT ![o].pc = pc]
Answer(o) == request' = [request EXCEPT ![o] = NoRequest]
Fails(o) == request' = [request EXCEPT ![o].pc = "audit", ![o].ok = FALSE]

Begin(o) ==
    /\ proc = "up" /\ o \notin Busy
    /\ \E op \in {"pause", "resume", "restart"} :
         /\ request' = [request EXCEPT ![o] =
                [pc |-> IF op = "restart" THEN "shutdown" ELSE "switch",
                 op |-> op, ok |-> TRUE]]
         /\ asked' = (asked /\ op # "resume")
    /\ last' = IF Busy = {} THEN "busy" ELSE "overlapped"
    /\ UNCHANGED <<phase, lifecycle, jobs, paused_flag>>

\* scheduler.pause() and resume(), which raise when it is stopped.
Switch(o) ==
    /\ request[o].pc = "switch" /\ state # "stopped"
    /\ state' = IF request[o].op = "pause" THEN "paused" ELSE "running"
    /\ Goto(o, "persist")
    /\ UNCHANGED <<phase, proc, pool, jobs, paused_flag, last, asked>>
SwitchRaises(o) ==
    /\ request[o].pc = "switch" /\ state = "stopped"
    /\ Fails(o)
    /\ UNCHANGED <<phase, lifecycle, jobs, paused_flag, last, asked>>

\* Mutant: resuming leaves the row behind.
PersistPauseOnly(o) ==
    /\ request[o].pc = "persist"
    /\ paused_flag' = (paused_flag \/ request[o].op = "pause")
    /\ Goto(o, "audit")
    /\ UNCHANGED <<phase, lifecycle, jobs, last, asked>>
\* set_scheduler_paused.
Persist(o) ==
    /\ request[o].pc = "persist"
    /\ paused_flag' = (request[o].op = "pause")
    /\ Goto(o, "audit")
    /\ UNCHANGED <<phase, lifecycle, jobs, last, asked>>

\* A commit fails: the session needs a rollback before it can be used again,
\* so the audit row is not written either, and the handler raises.
RequestLost(o) ==
    /\ \/ request[o].pc = "persist" /\ paused_flag # (request[o].op = "pause")
       \/ request[o].pc = "audit"
    /\ Answer(o)
    /\ last' = IF last = "busy" THEN "failed" ELSE last
    /\ UNCHANGED <<phase, lifecycle, jobs, paused_flag, asked>>

\* shutdown(wait=False) closes the pool and leaves its workers to end; what it raises
\* when stopped, and so closed, is only logged.
Shutdown(o) ==
    /\ request[o].pc = "shutdown"
    /\ state' = "stopped"
    /\ pool' = "closed"
    /\ Goto(o, "start")
    /\ UNCHANGED <<phase, proc, jobs, paused_flag, last, asked>>

\* Mutant: the restart builds a pool too, and still does not look at the pause.
StartWithPool(o) ==
    /\ request[o].pc = "start" /\ state = "stopped"
    /\ state' = "running"
    /\ pool' = "open"
    /\ Goto(o, "audit")
    /\ UNCHANGED <<phase, proc, jobs, paused_flag, last, asked>>
\* start() takes the executor as it is, its pool closed.  It raises when another
\* request has started the scheduler in between, or the jobstore cannot be opened.
Start(o) ==
    /\ request[o].pc = "start" /\ state = "stopped"
    /\ state' = "running"
    /\ Goto(o, "audit")
    /\ UNCHANGED <<phase, proc, pool, jobs, paused_flag, last, asked>>
StartRaises(o) ==
    /\ request[o].pc = "start"
    /\ Fails(o)
    /\ UNCHANGED <<phase, lifecycle, jobs, paused_flag, last, asked>>

\* The audit row is committed and the page answered.
Audit(o) ==
    /\ request[o].pc = "audit"
    /\ Answer(o)
    /\ last' = CASE last # "busy" -> last
                 [] last = "busy" /\ request[o].ok -> request[o].op
                 [] OTHER -> "failed"
    /\ asked' = (asked \/ (request[o].ok /\ request[o].op = "pause" /\ last = "busy"))
    /\ UNCHANGED <<phase, lifecycle, jobs, paused_flag>>

RequestStep(o) ==
    \/ Switch(o) \/ SwitchRaises(o) \/ Persist(o) \/ RequestLost(o)
    \/ Shutdown(o) \/ Start(o) \/ StartRaises(o) \/ Audit(o)

---------------------------------------------------------------------------
Next ==
    \/ Tick
    \/ \E j \in Jobs : Fire(j) \/ Skip(j) \/ JobEnds(j)
    \/ Boot \/ ReapplyPause \/ FlagUnreadable \/ Stop \/ Exit
    \/ \E o \in Operators : Begin(o) \/ RequestStep(o)

\* Time passes, the scheduler's thread wakes up, and a firing ends: every
\* request a job makes has a timeout.
Fairness ==
    /\ WF_vars(Tick)
    /\ \A j \in Jobs : WF_vars(Fire(j)) /\ WF_vars(Skip(j)) /\ WF_vars(JobEnds(j))

Spec == Init /\ [][Next]_vars /\ Fairness

---------------------------------------------------------------------------
(* Properties.                                                             *)

\* Every variable keeps to its set, and a job's rows to what _wrap and the
\* batch may write.
TypeOK ==
    /\ phase \in 0 .. Cycle - 1
    /\ proc \in {"down", "booting", "up", "stopping"}
    /\ state \in {"stopped", "running", "paused"}
    /\ pool \in {"open", "closed"}
    /\ due \in SUBSET Jobs
    /\ work \in [Jobs -> Works]
    /\ rows \in [Jobs -> 0 .. 2]
    /\ paused_flag \in BOOLEAN
    /\ request \in [Operators -> Requests]
    /\ last \in Outcomes
    /\ asked \in BOOLEAN
    /\ clustered \in BOOLEAN

\* The pause in memory and the one in runtime_state agree: after a boot that
\* could read the row, and after a pause or a resume that answered ok and ran
\* alone, the scheduler is paused exactly if the row is there.  A restart in
\* place, a lost commit or two requests at a time may part them.
PauseAgrees ==
    (proc = "up" /\ Busy = {} /\ last \in {"boot", "pause", "resume"})
        => (paused_flag <=> state = "paused")

\* An ingest job leaves no second row: when _wrap adds its own, the batch has
\* none (the docstring of _wrap).  The pipeline's two jobs may leave two.
IngestCountedOnce == \A j \in Jobs \ Pipeline : rows[j] <= 1

Starts(j) == ~Working(j) /\ work[j]' = "working"

\* The normalize job of a slot never starts after the cluster job that was
\* meant to read what it wrote, however the process stops, boots, pauses and
\* resumes: the offset of their grids (register_all) outlasts the grace.
NormalizeStartsFirst == [][Starts(NormalizeJob) => ~clustered]_vars

\* Once the process is up, no job starts between a pause that was answered and the
\* next resume, over crashes, boots and restarts in place.  A restart in place does run
\* the scheduler again and does not look at the pause (restart_scheduler): that no job
\* starts is due to the pool it has closed.
PausedUntilResumed ==
    [][proc = "up" => \A j \in Jobs : Starts(j) => ~asked]_vars

\* Every job fires again and again once the scheduler is left running by a boot or a
\* resume: no failure, pause, misfire or crash takes a job out for good.  A restart in
\* place takes out all of them, see RestartRevives.
JobsKeepFiring ==
    <>[](proc = "up" /\ state = "running" /\ pool = "open")
        => \A j \in Jobs : []<>Working(j) /\ []<>~Working(j)

\* The docstring of restart_scheduler: the restart is the remedy for a stale job and
\* "anything that wedges the scheduler".  After one that answered ok, jobs fire.
RestartRevives ==
    <>[](proc = "up" /\ state = "running" /\ last = "restart")
        => \A j \in Jobs : []<>Working(j)
=============================================================================
