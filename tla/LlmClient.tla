----------------------------- MODULE LlmClient -----------------------------
(***************************************************************************)
(* LLMClient (llm/client.py), the only way to Anthropic: four methods, the *)
(* model policy, one retry loop and one llm_runs row per call.             *)
(*                                                                         *)
(* Each caller is a thread or process of its own.  The row is written in a *)
(* session of the client's, so it waits for SQLite's write lock: when      *)
(* another transaction holds it past busy_timeout the commit raises and    *)
(* the caller loses the answer with the row.                               *)
(*                                                                         *)
(* An answer that does not parse is retried like a transient error, but it *)
(* was billed, and only the last attempt's tokens reach the row: `billed`  *)
(* counts what was paid, llm_runs what was recorded.                       *)
(***************************************************************************)
EXTENDS Naturals, FiniteSets

CONSTANTS
    Callers,   \* threads and processes that call the client
    Tasks,     \* the tasks they name
    Costs      \* what one answer can cost

ASSUME ClientAssumption ==
    /\ IsFiniteSet(Callers) /\ IsFiniteSet(Tasks)
    /\ Costs \subseteq Nat

\* Tasks that only Opus may be asked.
JudgmentTasks ==
    {"cluster", "buildability", "merge", "score", "synthesize", "prd", "architecture"}

\* Mutant: one model has no price.
PricedOpusOnly == {"opus"}

\* Models with a price in PRICING.
Priced == {"opus", "haiku"}

MaxRetries == 3

Retryable ==
    {"RateLimitError", "APITimeoutError", "APIConnectionError", "InternalServerError",
     "JSONParseError"}

VARIABLES
    call,       \* per caller: the locals of _call
    llm_runs,   \* per task: how many rows, and the sum of their est_cost_usd
    locked,     \* some other write transaction is open
    asked,      \* history, per task: calls made
    unlogged,   \* history, per task: calls that ended without a row
    billed,     \* history, per task: what the answers cost
    malformed   \* history: tasks with an answer that did not parse

clientVars == <<call, llm_runs, locked, asked, unlogged, billed, malformed>>

NoCall ==
    [pc |-> "idle", task |-> "", model |-> "opus", parses |-> FALSE, attempt |-> 1, ok |-> FALSE,
     cost |-> 0]

Calls ==
    [pc : {"idle", "request", "log", "returned", "failed"}, task : Tasks \cup {""},
     model : {"opus", "haiku"}, parses : BOOLEAN, attempt : 1 .. MaxRetries, ok : BOOLEAN,
     cost : Nat]

InCall(c) == call[c].pc \in {"request", "log"}

ClientInit ==
    /\ call = [c \in Callers |-> NoCall]
    /\ llm_runs = [t \in Tasks |-> [rows |-> 0, cost |-> 0]]
    /\ locked = FALSE
    /\ asked = [t \in Tasks |-> 0]
    /\ unlogged = [t \in Tasks |-> 0]
    /\ billed = [t \in Tasks |-> 0]
    /\ malformed = {}

-----------------------------------------------------------------------------
\* A model without a price costs nothing, silently.
Estimated(model, cost) == IF model \in Priced THEN cost ELSE 0

\* _call: the request is built once and sent up to MaxRetries times.
BeginCall(c, task, model, parses) ==
    /\ ~InCall(c)
    /\ call' = [call EXCEPT ![c] = [NoCall EXCEPT !.pc = "request", !.task = task,
                                                  !.model = model, !.parses = parses]]
    /\ asked' = [asked EXCEPT ![task] = @ + 1]
    /\ UNCHANGED <<llm_runs, locked, unlogged, billed, malformed>>

Judge(c, task) == BeginCall(c, task, "opus", FALSE)

JudgeJson(c, task) == BeginCall(c, task, "opus", TRUE)

\* Mutant: the policy is not checked.
MechanicUnchecked(c, task) == BeginCall(c, task, "haiku", FALSE)

\* The mechanic methods raise PolicyViolation before any request.
Mechanic(c, task) == task \notin JudgmentTasks /\ BeginCall(c, task, "haiku", FALSE)

MechanicJson(c, task) == task \notin JudgmentTasks /\ BeginCall(c, task, "haiku", TRUE)

\* The loop goes on after a retryable error, except the last time.
AfterError(c, error) ==
    IF error \in Retryable /\ call[c].attempt < MaxRetries
      THEN [call EXCEPT ![c].attempt = @ + 1]
      ELSE [call EXCEPT ![c].pc = "log", ![c].ok = FALSE, ![c].cost = 0]

Refused(c, error) ==
    /\ call[c].pc = "request"
    /\ call' = AfterError(c, error)
    /\ UNCHANGED <<llm_runs, locked, asked, unlogged, billed, malformed>>

Transient(c) == \E error \in Retryable \ {"JSONParseError"} : Refused(c, error)

\* Mutant: only retryable errors are logged.
RejectedUnlogged(c) ==
    /\ call[c].pc = "request"
    /\ call' = [call EXCEPT ![c] = [NoCall EXCEPT !.pc = "failed"]]
    /\ UNCHANGED <<llm_runs, locked, asked, unlogged, billed, malformed>>

Rejected(c) == Refused(c, "APIError")

\* The answer came and parse_fn raised.
Malformed(c) ==
    /\ call[c].pc = "request"
    /\ call[c].parses
    /\ \E cost \in Costs : billed' = [billed EXCEPT ![call[c].task] = @ + cost]
    /\ call' = AfterError(c, "JSONParseError")
    /\ malformed' = malformed \cup {call[c].task}
    /\ UNCHANGED <<llm_runs, locked, asked, unlogged>>

Answered(c) ==
    /\ call[c].pc = "request"
    /\ \E cost \in Costs :
          /\ billed' = [billed EXCEPT ![call[c].task] = @ + cost]
          /\ call' = [call EXCEPT ![c].pc = "log", ![c].ok = TRUE,
                                  ![c].cost = Estimated(call[c].model, cost)]
    /\ UNCHANGED <<llm_runs, locked, asked, unlogged, malformed>>

\* The row of the call; only a success carries its cost.
WriteRow(c) ==
    /\ call[c].pc = "log"
    /\ ~locked
    /\ llm_runs' = [llm_runs EXCEPT ![call[c].task].rows = @ + 1,
                                    ![call[c].task].cost = @ + call[c].cost]
    /\ UNCHANGED <<locked, asked, unlogged, billed, malformed>>

LogSuccess(c) ==
    /\ call[c].ok
    /\ WriteRow(c)
    /\ call' = [call EXCEPT ![c] = [NoCall EXCEPT !.pc = "returned", !.cost = call[c].cost]]

LogFailure(c) ==
    /\ ~call[c].ok
    /\ WriteRow(c)
    /\ call' = [call EXCEPT ![c] = [NoCall EXCEPT !.pc = "failed"]]

\* busy_timeout ran out: OperationalError leaves _call in place of its result.
LogLocked(c) ==
    /\ call[c].pc = "log"
    /\ locked
    /\ call' = [call EXCEPT ![c] = [NoCall EXCEPT !.pc = "failed"]]
    /\ unlogged' = [unlogged EXCEPT ![call[c].task] = @ + 1]
    /\ UNCHANGED <<llm_runs, locked, asked, billed, malformed>>

\* The caller's process dies inside the call, or outside.
AbandonCall(c) ==
    /\ call' = [call EXCEPT ![c] = NoCall]
    /\ unlogged' = IF InCall(c) THEN [unlogged EXCEPT ![call[c].task] = @ + 1] ELSE unlogged
    /\ UNCHANGED <<llm_runs, locked, asked, billed, malformed>>

\* What the call does by itself: requests end (timeouts), commits end (busy_timeout).
CallStep(c) ==
    \/ Transient(c) \/ Rejected(c) \/ Malformed(c) \/ Answered(c)
    \/ LogSuccess(c) \/ LogFailure(c) \/ LogLocked(c)

\* An ingest batch, a decision or another script opens or ends a write transaction.
LockToggles ==
    /\ locked' = ~locked
    /\ UNCHANGED <<call, llm_runs, asked, unlogged, billed, malformed>>

-----------------------------------------------------------------------------
ClientTypeOK ==
    /\ call \in [Callers -> Calls]
    /\ \A c \in Callers :
          InCall(c) => /\ call[c].task \in Tasks
                       /\ call[c].model = "haiku" => call[c].task \notin JudgmentTasks
    /\ llm_runs \in [Tasks -> [rows : Nat, cost : Nat]]
    /\ locked \in BOOLEAN
    /\ asked \in [Tasks -> Nat]
    /\ unlogged \in [Tasks -> Nat]
    /\ billed \in [Tasks -> Nat]
    /\ malformed \subseteq Tasks

\* Every call has one llm_runs row, unless its writer was locked out or killed:
\* a retry adds no row, a failure or a refusal leaves none out, and two callers
\* of one task are not mixed up (_call and its two log methods).
RowPerCall ==
    \A t \in Tasks :
        asked[t] = llm_runs[t].rows + unlogged[t]
                   + Cardinality({c \in Callers : InCall(c) /\ call[c].task = t})

\* The audit log equals the bill of a task while none of its calls is under way,
\* except after an answer that did not parse or a row that was lost: the two ways
\* the budget guard and the cost pages come to read less than was paid (_call
\* drops the tokens of an attempt it retries; estimate_cost_usd prices the rest).
BillRecorded ==
    \A t \in Tasks \ malformed :
        unlogged[t] = 0 /\ (\A c \in Callers : InCall(c) => call[c].task # t)
            => llm_runs[t].cost = billed[t]
=============================================================================
