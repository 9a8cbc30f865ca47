# apfun in TLA+

apfun collects complaints from public sources, turns them into candidate ideas and lets
one operator decide about them. This directory models the part of it where state is
shared and things can go wrong: the ingest batches and their rate limiters, the Stage 1
pipeline and the inbox, over one SQLite database, the scheduler that starts them, and
around them what the adapters see of a site, the LLM client and the operator's scripts.
TLC checks the models on small instances, and TLAPS proves the main results for every
value of the constants.

Paths below are relative to the repository's root.

## 1. The system

One process (`apfun/main.py`) runs a FastAPI application and an APScheduler
`BackgroundScheduler` in the same address space. Scheduled jobs run in worker threads,
request handlers (`def`, not `async def`) in Starlette's thread pool; they share nothing
but the database and a few module globals.

| component | state it keeps | operations | talks to |
|---|---|---|---|
| tables and sessions (`apfun/db.py`, `apfun/models/`) | the rows; one write transaction at a time | `try_insert` (a SAVEPOINT), commit, rollback | everyone |
| adapters (`sourcing/*.py`, `review_sites/`) | - | fetch and parse one page or a few, insert what is new | the sites, once per slot of their job |
| sourcing (`apfun/sourcing/`) | `raw_signals`, `sources.consecutive_failures`, `is_active` | ingest batches per source kind, retries, health updates | the network, the rate limiters |
| rate limiter (`_rate_limit.py`) | tokens, last refill, a lock | `acquire` | sourcing threads |
| Stage 0 (`pipeline/normalize.py`, `_extractors.py`) | `signal_text` | `normalize_raw_signals` | reads `raw_signals` |
| Stage 1 (`pipeline/cluster.py`) | `candidates`, `candidate_signals`, marks in `signal_text` | `cluster_signals` | the models Haiku and Opus |
| merge (`pipeline/merge.py`) | the same tables | `merge_candidates` | Opus |
| inbox (`web/routes/inbox.py`) | `approvals`, `candidates.decision` | approve, reject, unsure, merge; listings | the operator |
| scheduler (`scheduler/`, `web/routes/ops.py`, `main.py`) | jobs, paused flag in `runtime_state` | fire, pause, resume, restart | all jobs |
| LLM client (`llm/client.py`) | `llm_runs` | `judge`, `judge_json`, `mechanic`, `mechanic_json`, retries | Anthropic; called by cluster, merge, the backfill |
| scripts (`scripts/`) | locals of their own process | backfill, import, seed, capture | tables, the LLM client |

Data flows `raw_signals -> signal_text -> candidates + candidate_signals -> approvals`,
and no component waits for another: each polls the tables.

### What is hard in it

* **Transactions are shorter than the code suggests.** No hook sends `BEGIN`
  (`db.py:53-56`), so a SELECT sees the last commit, and a transaction opens at the
  first INSERT, UPDATE or DELETE that is flushed. The SAVEPOINT of `try_insert` is the
  outermost transaction when none is open, so its RELEASE commits. A duplicate instead
  rolls back *to* the SAVEPOINT, and SQLite then keeps the transaction, and the write
  lock, until the session commits.
* **The scheduled ingest jobs hand over detached rows** (`jobs.py:98`): a session that
  is closed loaded them, so assignments to them reach no table.
* **Model calls sit between reading and writing** (`merge.py:130`,
  `cluster.py:290,373`): minutes in which other threads commit.
* **A run has several commits**: a batch of the normalizer, a mark of the prepass, a
  link to an existing candidate.
* **Failure and restart** at any of these points; what was committed stays.
* **A fetch has no memory.** No adapter keeps how far it got; a post is captured if it
  is on the page, in the time window and above the threshold when a slot runs.
* **Money and rows are counted apart**: an attempt is paid when its answer comes, and
  recorded later in another session, which the write lock can turn away.
* **A restart in place reuses the executor** that the shutdown before it has closed
  (`ops.py:425-431`), and a site orders its listing as it likes.
* **A duplicate in an import rolls back everything** the import has written, and leaves
  its objects in a cache (`import_reviews.py:153`).
* **Caps** (`_MAX_SIGNALS_PER_RUN`, `_MAX_BUCKETS_PER_RUN`) leave work for a later run.

### What makes each component correct

* Sourcing: a row of `scheduler_runs` counts what its batch committed; a source is
  disabled by three terminal batches in a row and by nothing else, and not by a block of
  our own proxy or user agent.
* Rate limiter: no interval sees more requests than burst and rate allow.
* Normalizer: a run's committed batches leave no gap; it does not undo marks.
* Cluster: no candidate without evidence, no evidence that was discarded, and a run ends
  whatever the models answer.
* Merge: evidence moves and is never lost; each source is merged once; redirects from
  merged candidates end.
* Scheduler: a pause lasts until it is resumed, across crashes, boots and restarts in
  place; each job keeps firing; normalize starts before the cluster job that reads its
  output.
* Inbox: a decision changes only when the operator decides ("HITL durability").
* Adapters: a post waits for its row, from when it can be read, no longer than the slots
  explain.
* LLM client: a row per call, and rows that add up to the bill.
* Backfill: oldest first, no candidate paid for twice, within the budget, and it ends,
  after no more steps than its list is long.
* Import: an honest report, reviews under the source they name, one source per name.
* All of it: what the inbox displays changes only as `IdeaLedger` allows.

`PROJECT.json` lists the hazards behind these, each at its line.

## 2. The modules

| module | models | lines of code it stands for |
|---|---|---|
| `IdeaTables` | the shared tables, the queries, SQLite's write lock, a row arriving from sourcing | `models/`, `db.py` |
| `Normalize` | `normalize_raw_signals`: one action per SELECT, row, commit, failure | `normalize.py` |
| `Cluster` | `cluster_signals`: load, one Haiku answer, bucketing, one Opus answer, lookup, insert, link, commit, failure | `cluster.py` |
| `Merge` | `merge_candidates`: validation, transaction, failure | `merge.py`, `inbox.py:488` |
| `Inbox` | `_decide`: load, commit, failure | `inbox.py:413` |
| `Funnel` | the composition, crashes, all properties, the refinement mapping, fairness | `jobs.py`, `main.py` |
| `IdeaLedger` | the abstract specification | - |
| `RateLimit` | `TokenBucket` and `run_with_retry`: one action per turn of the bucket's loop, per outcome of a request, per tick | `_rate_limit.py`, `_base.py:74`, `indiehackers.py:164` |
| `Sourcing` | `run_ingest_batch` with the kinds' `ingest`, `_insert_signal` and health updates, and the jobs that call it | `_base.py:118`, `reddit.py`, `hn.py`, `producthunt.py`, `indiehackers.py`, `review_sites/_common.py`, `db.py:68`, `jobs.py:54` |
| `Scheduler` | the process, APScheduler's state, the jobs' firings and the `/ops` requests: boot, fire, skip, `_wrap`, pause, resume, restart, exit | `main.py:31`, `setup.py`, `jobs.py`, `pause_state.py`, `ops.py:393` |
| `Feed` | a site's listing and the adapters' fetches: one action per kind, per slot lost, per post published, voted up or down, or moved up | `hn.py`, `producthunt.py`, `reddit.py`, `indiehackers.py`, `g2.py`, `trustpilot.py`, `review_sites/_common.py`, `jobs.py:191` |
| `LlmClient` | `LLMClient`: begin by method, one action per outcome of an attempt, the row, the lock | `llm/client.py`, `llm_run.py` |
| `Backfill` | `backfill` in several processes, and the application's calls beside it (extends `LlmClient`) | `backfill_buildability.py` |
| `ReviewImport` | `import_csv` in several processes, `seed_sources`, a scraper's insert | `import_reviews.py`, `seed_sources.py` |
| `Periphery` | the sum of the last four | - |
| `MCFunnel`, `MCSourcing`, `MCScheduler`, `MCPeriphery` | model values, files, symmetry for TLC | - |
| `FunnelTypes`, `FunnelSafety`, `FunnelLedger`, `FunnelMarks`, `RateLimitProofs`, `SourcingProofs`, `SchedulerProofs`, `PeripheryProofs` | theorems and proofs | - |

`Funnel` composes the first five. `Sourcing` and `RateLimit` meet it through narrow
interfaces and are checked alone: of a batch, `Funnel` sees committed rows only
(`IngestRow`), and of the bucket, a batch sees only that a request takes time.
`Scheduler` meets the jobs the same way: a job is at work until it ends, with or without
its row. `Feed` says what a batch finds, `Sourcing` what becomes of it.

`Periphery` is a sum and not a product: its parts share nothing but SQLite's write lock,
and each has others who take that lock at any time (`locked` in `LlmClient`, `Scraped`
and the other scripts in `ReviewImport`). `part` says which one moves.

How state corresponds:

* Ids are `1 .. n` as SQLite hands them out (no row of these tables is ever deleted
  except links). `raw_signals` is the number of rows; only which ids exist matters.
* `signal_text[r]` is `"none"` (no row), `"open"` or `"low"` (`is_low_signal`).
* A `dedup_key` is a record: the slug, and for a merged candidate the source ids that
  `_merged_dedup_key` puts before it. A problem statement that itself reads "merge 1 2
  ..." could slug to a merged key; the model keeps the two apart.
* `run[w]`, `norm`, `merging[m]`, `deciding[o]` are the locals of the threads.
* `write_lock` names the cluster run whose transaction is open. It is the only write
  transaction that spans several actions; those of the normalizer, of a merge and of a
  decision take the lock with their first statement and are one action, enabled while no
  transaction is open. `run[w].view` is what an open transaction reads and has written;
  other threads see the last commit.
* A model's answer is any value of the schema's type: Haiku any topic or none, Opus any
  cards with any ids, in the bucket or not. An exception anywhere (a model's error, a
  locked database, a UNIQUE violation) is a `...Fail` action.
* `Crash` loses every local and the open transaction.
* `LinkCollides` is the race of `try_insert` in a cluster run with another writer of the
  same link: the SELECT missed it, the INSERT meets it. The model takes both at once and
  allows the collision whenever the link exists.

In `Sourcing`, `batch[b]` holds the locals of the batch that caller `b` runs; `pending`
are the rows its open transaction inserted, `dirty` says that an assignment to a source
awaits its flush, and `loaded` is what the sources' rows held when the batch loaded
them. The sources come in any order, although the code's list has one. Callers in
`Attached` are the runbooks; the scheduled job is not. `strikes` is a history variable:
what the counter would be if nothing were lost. The kinds differ in what a listing is (a
subreddit, a query, a topic, a group, a product) and in `UABlockGuard`, which only
Reddit has.

In `RateLimit`, time is a number of ticks and a token is `Unit` units, so that a tick
refills a whole number of units; the code's floats round. `stopwatch` is a history
variable that may be set at any moment, so that invariants about it hold for every
interval. A restart of the process starts with a full bucket, as `Init` does.

In `Scheduler`, `state` is `scheduler.state`, `pool` the thread pool inside its executor
(`setup.py:62-64` makes one per process), `paused_flag` the row of `runtime_state`,
`due` the jobs whose `next_run_time` in the jobstore has come, and `request[o]` the
local state of a handler's thread. Time is the phase of a cycle that all grids share:
`coalesce=True` makes of any number of missed firings one, that of the latest slot, so
how late a job is follows from the phase. `work[j]` is the worker of job `j` (one, as
`max_instances=1` allows), and `rows[j]` counts what its latest firing wrote. `asked`,
`last` and `clustered` are history variables. APScheduler is external, and this is what
is taken of version 3 of it: `add_job(replace_existing=True)` counts the next firing from
the boot; `shutdown` does not stop workers, and closes the executor's pool; `start` takes
up a stopped scheduler with the executors it has, and opens no pool again; what
submitting to a closed pool raises is only logged, and that firing is over (`Skip`);
`pause` and `resume` raise when stopped; and a running scheduler wakes up within a tick.

In `Feed`, `posts` are those of one source in the order of their publication, and the
`place` of each is where the site lists it. Only two requests ask for an order by date:
that of hn (`search_by_date`, `hn.py:43`) and that of reddit with `fetch_kind` "new" (as
seeded). The leaderboard of Product Hunt is the API's (`producthunt.py:201`), the group
pages and the review sites are asked for no order, and even in a listing by date a post
moves up when one before it is taken down. So `Publish` puts a post at any place, and
`Climb` moves one up at any time, in every kind; orders of a site that are less free
than that are among these. `qualified` says since when a post's points or votes are over
the threshold (`Downvote` may take them below again; kinds without a threshold qualify a
post at birth), and `shown`, a history field, since when it is on the pages that a fetch
reaches. `slot` is the next slot of the kind's job, and a slot that is due runs within
`Grace` or is lost (`Missed`). `whole` is a history variable: the last slot whose fetch
read all that its pages had. A fetch takes no time; the pages of one fetch are of one
listing.

In `LlmClient`, `call[c]` holds the locals of `_call`, `llm_runs` the number of rows and
the sum of their costs per task, and `locked` says that some other transaction is open,
which may begin and end at any time. `asked`, `unlogged`, `billed` and `malformed` are
history. A model's cost is one number, and the waits between attempts are not there. In
`Backfill`, `script[r].todo` is the work list, which `_unassessed` reads once (`main`
reads it before and `backfill` again; the model reads once, so a run starts with what
the second read finds), `since` is `run_start` as the sum at that moment, `own` and
`alone` are history. Merged candidates are assessed too, as `_unassessed` does not
filter them.

In `ReviewImport`, `tables` is what is committed and `working` what the open transaction
sees. A source's id is its position in `sources`, as SQLite hands ids out, and `cache`
is `source_cache` with the ids its objects carry; a rollback leaves it alone. A review's
content hash is its identity. A foreign key that fails is an `IntegrityError` as a
duplicate is, and `_insert_review` treats it as one. `committed`, `lost`, `crowd` and
`wounded` are history.

A `dedup_key` lookup that matches and a link that exists are no writes, as in the code.
The ORM sends an UPDATE only for columns that differ from what was loaded;
`AfterUpserts` and `AfterVerdict` say so, because a value that someone else changed in
between then survives.

## 3. The runs

| run | instance | question | result |
|---|---|---|---|
| `funnel` | 5 signals (one flagged by its extractor, one of a source without extractor), 5 candidates, 3 slugs, one cluster run with caps 2 and 1, one merge, one decision | do the tables and the display keep their promises when everything interleaves, fails and crashes? | holds |
| `overlap` | 2 signals, two cluster runs, one merge, two decisions, fairness | the same for overlapping runs; is a decision the last verdict; does every run end? | holds |
| `rate_limit` | 2 threads, burst 2, a token every 2 ticks, 3 attempts, 7 ticks | do grants and requests stay within burst and rate? | holds |
| `sourcing` | 2 sources (with 2 and 1 listings), 2 items, 4 outcomes of a request, threshold 2, a scheduled and a manual caller, 2 batches | does a row of `scheduler_runs` say what was committed, does health move only by the rules? | holds |
| `strikes` | the scheduled job, threshold 3, 3 batches | is a source disabled after three terminal batches? | violated |
| `scheduler` | 3 jobs, a cycle of 4 ticks with normalize 2 before cluster, grace 1, one operator thread, fairness | do pause, boot and restart, firing and misfiring, rows and order fit together? | holds |
| `periphery` | five kinds of sites with one post more than their pages hold, over 6 ticks; 2 backfill runs and the application, 3 candidates, budget 1, 2 starts; 2 importers, 2 files of 3 rows, the seeder with 2 names, the scraper, 3 scripts; fairness of the backfill | what do the parts around the funnel keep when slots are lost, calls fail, the database is locked and scripts overlap or die? | holds |
| `restarted` | the same as `scheduler` | do jobs fire after a restart in place? | violated |
| `double_merge` | two merge requests | is a source merged once? | violated |
| `renormalize` | the normalizer with `only_new=False` | do marks survive? | violated |
| `excess` | cap 1, no failures, fairness | is the excess over the cap processed? | violated |
| `merged_evidence` | one run, one merge | is evidence always on a live candidate? | violated |

Bounds. `MaxRaw`, `MaxCandidates`, `MaxApprovals` and `MaxCards` bound what would grow
for ever; `Asked` limits the verdicts that requests carry. Five candidates are enough
for two clustered candidates, their merge, a third one and a second merge on top of the
first, hence chains of redirects, and a run that matches the key of a merged candidate.
`BatchSize = 1` puts a commit between any two signals. With `MaxSignals = 2` and one
bucket both caps are hit. The five-signal instance has one decision and one verdict so
that it ends in minutes; `overlap` has two of each. Slugs and topics are
interchangeable, so `funnel` and the safety violations use symmetry; the runs with
liveness do not.

`MaxFirings = 2` lets two batches overlap, and each end, fail or crash at any step; two
strikes then disable a source. Two listings let a source answer both ways in one batch,
and a batch of two sources can be refused by one, both or none. `MaxClock = 7` is longer
than the two sleeps of a call that is retried twice plus a wait for a token, and longer
than it takes to refill an empty bucket.

The tick of `Scheduler` is the 300 s of `misfire_grace_time`, so normalize (:00) is two
ticks ahead of cluster (:10). The 2 h cycle is cut to four ticks, the shortest in which
a job can be on time, late and too late before its next slot. Nothing else in
`Scheduler` is bounded. One operator thread keeps the liveness check small; that
`PauseAgrees` holds for any number is proved.

In `Periphery`, a tick is a step of the shortest proportion between the jobs' intervals,
and what counts are the proportions of `jobs.py` and of the seeded sources: hn asks for
more than one interval, producthunt for exactly one, a review site reads two pages and
the others one. Each listing has one post more than its pages hold (`MaxPosts`), so a
post can be buried, climb and be buried again, and `MaxTime = 6` holds
three slots of the six-hour jobs and two of the daily ones, so that a slot can be lost
between two that run. Two starts with three attempts per call, three candidates with
limits of 1 and of all, and a budget that the second call exceeds let runs overlap,
resume, meet a call of the application, stop by the guard and by an error. The run has
one cost; the theorem `BackfillWithinBudget` is for all prices. The file with a repeated
review rolls back a row it has counted, the other one meets reviews that the scraper or
the other import has taken, and `--source-name` may be a name that the seeding creates
at the same time. Three scripts are two at once and one after them.

A normalizer run, a stopwatch and a scheduler can always start again, so `Funnel`,
`RateLimit` and `Scheduler` never stop, and their runs check for deadlock. `Sourcing`
stops when its `MaxFirings` batches are over, and `Periphery` at `MaxTime`, `MaxStarts`
and `MaxScripts`: their runs do not.

Fairness. `RunEnds` and `ExcessIsProcessed` assume weak fairness of each cluster run's
own steps (the thread is scheduled, a model call returns or raises at its timeout) and
of the two failures that are certain: waiting for the write lock longer than
`busy_timeout` (5 s, `db.py:42`) and flushing a `dedup_key` that was taken meanwhile.
`JobsKeepFiring` assumes that time passes, that APScheduler's thread runs, and that a
firing ends, since each request a job makes has a timeout; it speaks of a scheduler that
is left running with an open pool, which a boot gives and a restart in place takes away.
`BackfillEnds` assumes that a
running script gets its turns and that a call's attempts end, each at the SDK's timeout,
and its commit, at `busy_timeout`; that the lock is free at some time is not assumed,
nor that a call ever succeeds. Nothing is assumed of the operator, of merges, of the
normalizer or of crashes. The scheduler fires `pipeline.cluster` every two hours, which
is the fairness of `ClusterLoad`. `CalmSpec`, for `excess`, has no failures, crashes or
requests at all, so its counterexample cannot be blamed on one.

### What the violations show

* `strikes`: `docs/tasks/005-reddit-ingester.md:92` wants a source disabled at three
  consecutive terminal failures. `_active_sources` (`jobs.py:98`) returns rows of a
  session it has closed, and the batch commits another session: the counter is never
  written, so under the scheduler no source is ever disabled, and `last_fetched_at`
  stays empty too. The unit tests pass attached rows.
* `restarted`: `restart_scheduler` (`ops.py:398-401`) and `docs/operator/SETUP.md:115`
  offer the restart for a stale or wedged job. It calls `shutdown` and `start` on the one
  scheduler (`ops.py:425-431`), whose executor `build_scheduler` made (`setup.py:62-64`):
  its pool is closed and stays so. The answer is ok and the state is running, but each
  firing is dropped, and no job starts until the process is restarted.
* `double_merge`: `merge.py:78-79` says that a source "can never be a source again".
  Validation (105-114) runs before the Opus call and is not repeated in the transaction
  (141-180). Two requests with a common source both commit; the second moves whatever
  links are left and rewrites `merged_into_id`.
* `renormalize`: `signal_text.py:17-20` promises that Haiku's marks stop further calls.
  `normalize.py:178` overwrites them when `only_new` is False, the default, which the
  first-pass runbook uses.
* `excess`: `cluster.py:18-19` says that excess is processed by the next scheduled run.
  Signals that got a topic and no card stay first in line, so the next run can load
  exactly the same ones.
* `merged_evidence`: request 031 wants the evidence of a soft-deleted candidate on the
  merged one. `cluster.py:417-419` matches soft-deleted candidates, so later evidence is
  linked where no listing shows it.

Limits met while modelling that have no run of their own. After a pause, a restart in
place runs the scheduler while the row of `runtime_state` stays: the page then shows a
running scheduler, and the next boot pauses it again. `docs/operator/SETUP.md:115`
promises that a pause lasts "until you explicitly resume", and `PausedUntilResumed` holds,
but only since the restart has closed the pool: `StartWithPool`, which would mend
`RestartRevives` alone, breaks it. The docstring of `_wrap`
(`jobs.py:57-60`) says that a firing is not counted twice; normalize and cluster write a
row in a `finally` block and re-raise, so `RaisesWithRow` and `WrapRecords` leave two,
and `IngestCountedOnce` is what holds. A commit that fails in `set_scheduler_paused`
leaves the session unusable, so the audit row that `ops.py:469` promises always is lost
with it (`RequestLost`). And with two decision requests of the one operator in flight on
the same candidate, `DecisionIsLastApproval` fails, since the ORM writes no decision
that equals the one loaded. `overlap` has one request at a time.

In the LLM client and the scripts:

* The comment at `client.py:553-554` has a parse failure "fully logged". Its tokens are
  read, but when the attempt is retried the next one overwrites them, and the log of the
  retry (572-) has none: `llm_runs` holds the last attempt's cost only, and none when
  that one does not parse either. `BillRecorded` therefore leaves out tasks with such an
  answer. The cost guard of the backfill is meant for "retry storms"
  (`backfill_buildability.py:14`), and these are what it does not see.
* The backfill is "safe to resume" (`SETUP.md:109`). It is, with two limits: a candidate
  whose call fails every time is the first of each list and keeps the younger ones
  waiting (`OldestFirst`), and two runs at once ask twice (`AloneNeverAsksTwice` is
  about a run that is alone).
* The import's docstring says that importing a file again "produces zero new rows"
  (`import_reviews.py:26`). With a duplicate inside, the rows before the last duplicate
  go with the rollback, and are reported as inserted; the next import of the same file
  counts and loses the same rows (`ReportHonest`, `TailImported`).
* After a rollback that dropped a source, `source_cache` holds its id, and the next
  source gets that id: reviews are then filed under another product (`wounded` in
  `RightSource`).
* An import that overlaps another, or the seeding, can create a source twice; each later
  import of that name then raises in `scalar_one_or_none` (`crowd` in `NamesUnique`).

In the adapters:

* `docs/tasks/006-hn-ingester.md:12` and `007-producthunt-ingester.md:16` plan paging.
  The code reads one page per query, filtered by points afterwards (hn) or by votes.
* Product Hunt is asked for one day, and once a day, and shows the page it ranks first:
  a post that gets its votes or its place after its slot, or meets a slot that is lost,
  is not asked for again (`InWindow`, `Climb`).
  `CapturedInTime` says exactly how much of that can happen: nothing, as long as slots
  are read whole and the window holds.
* `review_sites/_common.py:55-57` says that adapters handle a 429. They do not look for
  it: its page has no cards and ends the fetch as an empty one does, unless it has a
  block's words. A later page that fails drops the reviews of the pages before it.
* "blocked" and "parse_error" are to surface in `scheduler_runs` (`_common.py:62-63`,
  `indiehackers.py:313-316`); `run_ingest_batch` does not write `error_class` there.
* `since_hours` of the Reddit and Indie Hackers seeds (`seed_sources.py:156,185`) is
  read by no code.

## 4. The proofs

| theorem | states | assumes |
|---|---|---|
| `FunnelTypes!TypeCorrect` | `[]TypeOK` | - |
| `FunnelSafety!RedirectsEnd` | `[]MergedIntoNewer` | - |
| `FunnelSafety!EvidenceKept` | `EvidenceNeverLost` | - |
| `FunnelLedger!NothingBaseless` | `[]LiveHasEvidence` | one merge request at a time |
| `FunnelLedger!SourcesMergedOnce` | `MergedOnce` | one merge request at a time |
| `FunnelLedger!FunnelIsALedger` | `ImplementsLedger` | one merge request at a time |
| `FunnelLedger!DecisionsAreRecorded` | `[]DecisionIsLastApproval` | one decision request at a time (`OneOperator`) |
| `FunnelMarks!NoGap` | `[]NormalizedPrefix` | - |
| `FunnelMarks!MarksKept` | `MarksSurvive` | callers pass `only_new=True` |
| `FunnelMarks!NothingDiscardedIsLinked` | `[]LinkedAreClusterable` | the same (`OnlyNew`), and one cluster run at a time (`OneRun`) |
| `RateLimitProofs!TypeCorrect` | `[]TypeOK`, and so `0 <= tokens <= burst` | - |
| `RateLimitProofs!GrantsBounded` | `[]GrantsWithinRate` | - |
| `RateLimitProofs!RequestsBounded` | `[]RequestsWithinRate` | - |
| `SourcingProofs!TypeCorrect` | `[]TypeOK` | - |
| `SourcingProofs!ItemsReported` | `[]ReportedItems` | - |
| `SourcingProofs!BlockSparesAll` | `GlobalBlockSparesAll` | the kind has the guard (`UABlockGuard`) |
| `SourcingProofs!DisabledOnlyByStrikes` | `DisabledByStrikes` | one runbook at a time (`OneHand`) |
| `SchedulerProofs!TypeCorrect` | `[]TypeOK` | - |
| `SchedulerProofs!IngestCounted` | `[]IngestCountedOnce` | - |
| `SchedulerProofs!PauseAgreed` | `[]PauseAgrees` | - |
| `SchedulerProofs!PauseIsKept` | `PausedUntilResumed` | - |
| `SchedulerProofs!NormalizeFirst` | `NormalizeStartsFirst` | the grids' offset outlasts the grace (`OffsetOutlastsGrace`) |
| `PeripheryProofs!PostsCapturedInTime` | `[]CapturedInTime` | - |
| `PeripheryProofs!CallsLogged` | `[]RowPerCall` | - |
| `PeripheryProofs!BillIsRecorded` | `[]BillRecorded` | - |
| `PeripheryProofs!BackfillOldestFirst` | `[]OldestFirst` | - |
| `PeripheryProofs!BackfillIdempotent` | `AloneNeverAsksTwice` | - |
| `PeripheryProofs!BackfillWithinBudget` | `[]OwnSpendBounded` | - |
| `PeripheryProofs!BackfillShortens` | `RunsShorten` | - |
| `PeripheryProofs!ImportReportHonest` | `[]ReportHonest` | - |
| `PeripheryProofs!ImportTail` | `[]TailImported` | - |
| `PeripheryProofs!ImportRightSource` | `[]RightSource` | - |
| `PeripheryProofs!SourceNamesUnique` | `[]NamesUnique` | - |
| `PeripheryProofs!PeripheryTypes` | `[]PeripheryTypeOK` | - |
| `PeripheryProofs!PeripherySafe` | all of these of `PeripherySpec` | - |

All hold for any number of signals, candidates, slugs, topics, cluster runs, operators,
threads, sources, batches, callers, jobs, scripts, files and posts, any batch size,
caps, rate, burst, interval, window, page, price and budget, on the named assumptions of
the component modules (`TablesAssumption`, `NormalizeAssumption`, `ClusterAssumption`,
`InboxAssumption`, `RateLimitAssumption`, `SourcingAssumption`, `SchedulerAssumption`,
`FeedAssumption`, `ClientAssumption`, `BackfillAssumption`, `ImportAssumption`), which
TLC evaluates in every run. The hypotheses of the third column are conditions under
which the code keeps the promise, and each is needed:

* One merge request, and `only_new=True`: `double_merge` and `renormalize` refute the
  statements without them.
* `OneRun`: of two cluster runs that overlap, one can link a signal from the topic that
  Haiku gave it while the other commits Haiku's mark for the same signal (TLC finds
  this when `LinkedAreClusterable` is added to `overlap`). The scheduler starts no
  second run (`max_instances=1`); a runbook started by hand beside it would.
* `OneOperator`: two decisions that overlap on one candidate, see section 3. The inbox
  has one operator.
* `OneHand`: of two runbooks, one can load the counter with the other's strike in it and
  disable a source that neither saw fail `Threshold` times. The scheduled job may
  overlap the runbook, since what it assigns is lost.
* `UABlockGuard`: only Reddit's `ingest` has the guard.
* `OffsetOutlastsGrace`: with a cluster slot within the grace of a normalize slot, both
  may start at one moment, in either order. `register_all` puts ten minutes between
  them, `_JOB_DEFAULTS` five minutes of grace, and `MCScheduler` assumes it of the grid
  that `scheduler` runs on, so TLC evaluates it.

The argument, module by module:

* `FunnelTypes`. `TypeOK` is not inductive: a link's target may be the null id as far as
  the type goes. `TypeInv` adds `LinkHasTarget` and bounds the normalizer's positions by
  what is ingested.
* `FunnelSafety`. The facts that relate tables to locals: a candidate row that does not
  exist is blank, requests name rows that exist, the view of an open transaction extends
  the committed tables (`ViewExtends`: nobody else can write while the lock is held), a
  card about to be inserted has a slug (`InsertHasCard`). With these, a commit only adds
  rows, and a merge points at a row newer than its sources.
* `FunnelLedger`. Under one merge request, the sources validated before the Opus call
  are still live at the commit (`RequestsValid`), since only a merge soft-deletes. Cards
  keep evidence (`CardsHaveEvidence`), and in an open transaction every live candidate
  has a link except the one being linked (`ViewHasEvidence`). Each action then maps to a
  step of `IdeaLedger` or to a stutter: `PersistCommit` and a single link to `Publish`,
  `MergeCommit` to `Combine`, `DecideCommit` to `Decide`, or to nothing when the
  candidate is not on display. For the decisions, what a request has loaded is still
  its candidate's decision when it commits (`LoadedIsCurrent`), so an UPDATE that the
  ORM leaves out would have changed nothing; and only candidates that exist were decided
  (`ApprovedExist`), so that a row that is inserted as pending has no approval.
* `FunnelMarks`. `BatchCovered` says that each row between offset and position is
  skipped for a reason, pending or written. With `only_new`, a row without text is never
  touched by a cluster run (`UntouchedAhead`), so a pending upsert never meets a mark.
  `LinkedAreClusterable` says nothing of what will be linked: `KnowledgeInv` follows a
  signal from Haiku's topic through the bucket and the card to the link, all of which
  only ever name open signals, whatever ids Opus claims, while the signals that still
  wait for Haiku, the only ones that can be marked, are in none of these.
* `RateLimitProofs`. What was granted since the stopwatch started and what is in the
  bucket is paid for by a full bucket and the refills since (`GrantsArePaid`); a refill
  that is capped only loses. A request was granted its token, or its thread held it when
  the interval began (`TokensAreSpent`).
* `SourcingProofs`. What a running batch has counted is the number of rows it has
  committed plus those its transaction holds (`CountInv`). That needs: only the holder
  of the write lock has pending rows, and no one else commits the same item meanwhile
  (`PendingInv`); firings are not shared, and a firing that has its row is over
  (`FiringInv`). For `GlobalBlockSparesAll`: if all sources with an answer
  were refused, they are more than half of themselves, or none and no verdict falls. For
  `DisabledByStrikes`, a source's counter is at most the runbook's own strikes, and a
  batch that runs has loaded what the rows still hold (`StrikesInv`).
* `SchedulerProofs`. `RowsInv` says how many rows each stage of a firing can have
  written. The agreement of the two pauses breaks in the middle of a request, so
  `AloneInv` follows a request that runs alone, step by step, and `RequestsInv` says
  that none outlives the process and that a booting scheduler is running. For
  `PausedUntilResumed`, `AskedInv` says that between an answered pause and the next
  resume the row is there, no resume is under way, and a scheduler that runs has a closed
  pool; `StagesInv` gives the last of these, since a restart has closed the pool before
  it starts anything. Only `Fire` starts a job, and it needs an open one. For the order
  of the two jobs, `OrderInv` says that once the cluster job has started, no normalize
  slot lies within the grace any more: true when it starts, by the offset, and until the
  next normalize slot, since time only leads away from the last one. The lemmas about
  `Lateness` do its arithmetic on the cycle; that some slot is the latest is a use of
  the least element of a set of numbers.
* `PeripheryProofs`, for each part of the sum. *Feed*: a readable post without a row
  became readable no earlier than the last slot read whole (`FeedInv`), since a fetch
  that reads all pages leaves no readable post behind, and a post that gets its votes or
  its place later does so later than that slot; a post that others push down, or that
  keeps its place, keeps its time (`MovedTyped`, `PlacedInv`). *Calls*: a step of a call
  adds one caller to those in a call (`Pending`) or takes one away, together with its
  row or its loss; the lemma `PendingCount` counts them. *Bill*: `BillInv` says that a
  task's bill is what its rows cost and what its callers have yet to log. That is a sum
  over the callers, and a sum is a recursion; so `Owing` is a set with one member per
  unit of cost, and the lemmas count sets. *End*: `StepsLeft` counts the steps that a
  run's list and its call can still take; only a run that waits for an answer has a call
  (`CallInv`), so each step of its own lowers that number, and no step of others enters
  it. *Order*: a run's list is a prefix of what is open, so all that is older than its
  first entry has its value (`InOrder`); a run that is alone keeps its list to itself
  (`Exclusive`); `WorkInv` is both. *Budget*: what a run's rows cost is at most what the
  task's rows cost since its start, and the guard has compared that sum before each
  further call (`SpendInv`, `Guarded`). *Import*: `LockInv` says that only the lock's
  holder has anything uncommitted; with it, for each importer, what it added is at most
  what it counted (`Counted`), the rows since the last skipped one are in its view
  (`Tailed`), and the ids in its cache carry the names they were looked up by
  (`Cached`). A step of someone else only commits while the importer holds no
  transaction, and then only adds (`Grows`). *Names*: while no two scripts overlap, what
  a script has looked up as missing is still missing when it creates it (`UniqueInv`).
  `PartsOf` then carries each result to `PeripherySpec`.

Each invariant and action property of the passing runs is stated by one of the
theorems. Model-checked only are the liveness properties `RunEnds`, `JobsKeepFiring` and
`BackfillEnds`, which are out of the prover's reach. Of `BackfillEnds`, `RunsShorten` is
the part that can be proved: a bounded number that each step of a run lowers. What
remains is that a running script has a step to take (ENABLED) and that fairness takes
it. The violations are TLC's.

## 5. What is left out, and the plan

Left out of the modules above: the `scheduler_runs` rows of the pipeline in `Funnel`
(`Scheduler` has them), texts, weights and badges, the values of buildability
(`Backfill` has whether one is set), the order of the listings, `_run_pass_2_merge` (no
caller), and everything marked `partly` or `not_modelled` in `PROJECT.json`, with the
reason there.

Limits of what is modelled: review sites take one token per product, while an adapter
loads several pages for it (`Feed` counts them, in a clock of its own); the time a batch
holds the write lock after a duplicate (its later sources' network calls) is no number
in `Sourcing`, and in `LlmClient` and `Backfill` a lock of any length. `Feed` has one
listing per source, so the queries, topics and products of one source are each a listing
of their own; a post that is taken down keeps its row in `posts`, and only lets others
climb. A Reddit post that is edited or deleted between two slots has another content
hash and gives a second `raw_signals` row; `Feed` and `Sourcing` take a post's content as
fixed. `ClusterFail` rolls back what is not committed; a `KeyboardInterrupt` passes by
the `except Exception` of `cluster.py:224` and reaches the `finally`, whose commit (243)
then keeps what the run has flushed so far, which may be a candidate with some of its
links or none. Only Ctrl-C in a runbook can raise it: worker threads get none.

Not modelled, with the reason in `PROJECT.json`: the developer scripts and the read-only
pages (no state), the migrations and the tables of later stages (no code uses them).

Next, in this order:

1. Proofs: for cluster runs what `RunsShorten` is for the backfill, a measure of what is
   left (signals without a topic, buckets, cards, links) that each of their own steps
   lowers, beside `RunEnds`; and a refinement of `Sourcing` by what `Funnel` sees of it,
   rows that are committed and stay.
2. Pages in `RateLimit`: a request that is several page loads, to say how many loads per
   second a site sees.
3. The two overlapping decisions that break `DecisionIsLastApproval`, should the inbox
   ever get a second operator.

