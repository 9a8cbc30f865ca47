------------------------------ MODULE Backfill ------------------------------
(***************************************************************************)
(* scripts/backfill_buildability.py beside the application: runs of the    *)
(* script, which may overlap, each with one LLM call and one commit per    *)
(* candidate and a cost guard read back from llm_runs; and the             *)
(* application's own callers of the client.                                *)
(***************************************************************************)
EXTENDS LlmClient

CONSTANTS
    Runs,          \* processes running the script
    MaxCandidate,  \* candidates without a buildability value have ids 1 .. MaxCandidate
    Limits,        \* --limit
    Budget,        \* --budget
    MaxStarts      \* bound: runs of the script and calls of the application started

ASSUME BackfillAssumption ==
    /\ Runs \subseteq Callers
    /\ "buildability" \in Tasks
    /\ MaxCandidate \in Nat /\ Limits \subseteq Nat
    /\ Budget \in Nat /\ MaxStarts \in Nat

Candidates == 1 .. MaxCandidate

VARIABLES
    buildability,  \* per candidate: whether the column has a value
    script,        \* per run: the locals of backfill
    starts         \* how many runs and application calls were started

backfillVars == <<clientVars, buildability, script, starts>>

\* `own` and `alone` are history: what this run's rows cost, and whether no other
\* run was under way at any time of this one.
NoScript ==
    [pc |-> "idle", todo |-> {}, candidate |-> 0, since |-> 0, own |-> 0, alone |-> TRUE]

Scripts ==
    [pc : {"idle", "next", "call", "check"}, todo : SUBSET Candidates,
     candidate : 0 .. MaxCandidate, since : Nat, own : Nat, alone : BOOLEAN]

Running(r) == script[r].pc # "idle"

BackfillInit ==
    /\ ClientInit
    /\ buildability = [c \in Candidates |-> FALSE]
    /\ script = [r \in Runs |-> NoScript]
    /\ starts = 0

-----------------------------------------------------------------------------
\* Mutant: newest first.
UnassessedNewest(limit) ==
    LET open == {c \in Candidates : ~buildability[c]}
    IN  {c \in open : Cardinality({d \in open : d > c}) < limit}

\* Mutant: no IS NULL filter.
UnassessedAll(limit) == {c \in Candidates : c <= limit}

\* _unassessed: the oldest `limit` candidates whose buildability is NULL.
Unassessed(limit) ==
    LET open == {c \in Candidates : ~buildability[c]}
    IN  {c \in open : Cardinality({d \in open : d < c}) < limit}

\* _run_cost_usd: every buildability row since the run started, whoever's it is.
RunCost(r) == llm_runs["buildability"].cost - script[r].since

\* main returns when nothing is to be done; otherwise backfill reads its work list.
Start(r, limit) ==
    /\ ~Running(r)
    /\ starts < MaxStarts
    /\ Unassessed(limit) # {}
    /\ starts' = starts + 1
    /\ script' = [q \in Runs |->
                    IF q = r
                      THEN [NoScript EXCEPT !.pc = "next", !.todo = Unassessed(limit),
                                            !.since = llm_runs["buildability"].cost,
                                            !.alone = \A p \in Runs : ~Running(p)]
                      ELSE IF Running(q) THEN [script[q] EXCEPT !.alone = FALSE] ELSE script[q]]
    /\ UNCHANGED <<clientVars, buildability>>

\* _assess_one, for the first of the list.
NextCandidate(r) ==
    /\ script[r].pc = "next"
    /\ \E c \in script[r].todo :
          /\ \A d \in script[r].todo : c <= d
          /\ script' = [script EXCEPT ![r].pc = "call", ![r].candidate = c, ![r].todo = @ \ {c}]
    /\ JudgeJson(r, "buildability")
    /\ UNCHANGED <<buildability, starts>>

Finish(r) ==
    /\ script[r].pc = "next"
    /\ script[r].todo = {}
    /\ script' = [script EXCEPT ![r] = NoScript]
    /\ UNCHANGED <<clientVars, buildability, starts>>

\* The row is updated by its id and committed, whatever it holds by now.
AssessCommit(r) ==
    /\ script[r].pc = "call"
    /\ call[r].pc = "returned"
    /\ ~locked
    /\ buildability' = [buildability EXCEPT ![script[r].candidate] = TRUE]
    /\ script' = [script EXCEPT ![r].pc = "check", ![r].own = @ + call[r].cost]
    /\ UNCHANGED <<clientVars, starts>>

\* Mutant: no busy_timeout, so a commit waits for the lock.
BackfillRaisesNeverLocked(r) ==
    /\ script[r].pc = "call"
    /\ call[r].pc = "failed"
    /\ script' = [script EXCEPT ![r] = NoScript]
    /\ UNCHANGED <<clientVars, buildability, starts>>

\* Mutant: a candidate whose call failed is put back on the list.
BackfillRaisesRequeues(r) ==
    /\ script[r].pc = "call"
    /\ call[r].pc = "failed"
    /\ script' = [script EXCEPT ![r].pc = "next", ![r].todo = @ \cup {script[r].candidate}]
    /\ UNCHANGED <<clientVars, buildability, starts>>

\* Nothing catches what the call or the commit raises: the run is over.
BackfillRaises(r) ==
    /\ script[r].pc = "call"
    /\ \/ call[r].pc = "failed"
       \/ call[r].pc = "returned" /\ locked
    /\ script' = [script EXCEPT ![r] = NoScript]
    /\ UNCHANGED <<clientVars, buildability, starts>>

\* Mutant: the guard looks at the last call alone.
CheckBudgetLastCall(r) ==
    /\ script[r].pc = "check"
    /\ script' = [script EXCEPT ![r] = IF call[r].cost > Budget THEN NoScript
                                       ELSE [@ EXCEPT !.pc = "next", !.candidate = 0]]
    /\ UNCHANGED <<clientVars, buildability, starts>>

CheckBudget(r) ==
    /\ script[r].pc = "check"
    /\ script' = [script EXCEPT ![r] = IF RunCost(r) > Budget THEN NoScript
                                       ELSE [@ EXCEPT !.pc = "next", !.candidate = 0]]
    /\ UNCHANGED <<clientVars, buildability, starts>>

\* The process is killed, at any point.
Kill(r) ==
    /\ Running(r)
    /\ script' = [script EXCEPT ![r] = NoScript]
    /\ AbandonCall(r)
    /\ UNCHANGED <<buildability, starts>>

RunStep(r) ==
    NextCandidate(r) \/ Finish(r) \/ AssessCommit(r) \/ BackfillRaises(r) \/ CheckBudget(r)

\* The pipeline and the routes call the client too, each for a task of its own.
AppAsks(c) ==
    /\ starts < MaxStarts
    /\ starts' = starts + 1
    /\ \E t \in Tasks \ {"buildability"} :
          Judge(c, t) \/ JudgeJson(c, t) \/ Mechanic(c, t) \/ MechanicJson(c, t)
    /\ UNCHANGED <<buildability, script>>

BackfillNext ==
    \/ \E r \in Runs : (\E limit \in Limits : Start(r, limit)) \/ RunStep(r) \/ Kill(r)
    \/ \E c \in Callers \ Runs : AppAsks(c)
    \/ \E c \in Callers : CallStep(c) /\ UNCHANGED <<buildability, script, starts>>
    \/ LockToggles /\ UNCHANGED <<buildability, script, starts>>

\* A call's requests time out and its commits wait 5 s at most; a running script
\* is a process the system runs.  Nothing promises that a run is started.
BackfillFairness ==
    /\ \A r \in Runs : WF_backfillVars(RunStep(r))
    /\ \A c \in Callers : WF_backfillVars(CallStep(c) /\ UNCHANGED <<buildability, script, starts>>)

BackfillSpec == BackfillInit /\ [][BackfillNext]_backfillVars

-----------------------------------------------------------------------------
BackfillTypeOK ==
    /\ ClientTypeOK
    /\ buildability \in [Candidates -> BOOLEAN]
    /\ script \in [Runs -> Scripts]
    /\ \A r \in Runs : script[r].pc \in {"call", "check"} => script[r].candidate \in Candidates
    /\ starts \in Nat

\* Candidates get their value in the order of their ids, over crashes, failed calls,
\* budget aborts, limits and overlapping runs ("stable resume order").  So one whose
\* call fails each time keeps every younger one waiting, in this and in later runs.
OldestFirst ==
    \A c, d \in Candidates : c < d /\ buildability[d] => buildability[c]

\* The cost guard: what the rows of one run cost is at most the budget and the last
\* call, although the guard sums all buildability rows since the run started and so
\* counts those of an overlapping run too (backfill, _run_cost_usd).
OwnSpendBounded ==
    \A r \in Runs : \E cost \in Costs \cup {0} : script[r].own <= Budget + cost

\* Resuming is idempotent: a run that no other overlaps never pays for a candidate
\* that has its value, wherever the runs before it were cut off.
AloneNeverAsksTwice ==
    [][\A r \in Runs :
          NextCandidate(r) /\ script[r].alone => ~buildability[script'[r].candidate]]_backfillVars

\* Every run ends: by its list, its budget or an error.
BackfillEnds == \A r \in Runs : Running(r) ~> ~Running(r)

\* How many more steps of its own a run with these locals, and its call with those, take
\* at most: per candidate listed one to take it, a request for each attempt, a row, a
\* commit and a look at the budget.
Remaining(run, llm) ==
    LET listed == (MaxRetries + 4) * Cardinality(run.todo)
        answer == CASE llm.pc = "request" -> 2 + MaxRetries - llm.attempt
                    [] llm.pc = "log" -> 1
                    [] OTHER -> 0
    IN  CASE run.pc = "idle" -> 0
          [] run.pc = "next" -> listed + 1
          [] run.pc = "check" -> listed + 2
          [] run.pc = "call" -> listed + 3 + answer

StepsLeft(r) == Remaining(script[r], call[r])

\* The work of a run is bounded by the list it read when it started: whatever it or its
\* call does brings it nearer its end, and nothing that another run, the application or
\* the database does puts the end off (backfill takes each candidate once and _call
\* retries MAX_RETRIES times, over failures, lock-outs and overlapping runs).
RunsShorten ==
    [][\A r \in Runs : Running(r) =>
          /\ StepsLeft(r)' <= StepsLeft(r)
          /\ RunStep(r) \/ CallStep(r) \/ Kill(r) => StepsLeft(r)' < StepsLeft(r)]_backfillVars
=============================================================================
