# TLA+ verification of the SBS Peru complaint sandbox

The repository is a sandbox in which financial institutions report customer
complaints to a supervisor. Institutions post single complaints (tier 1) or CSV
batches (tier 2) to a FastAPI service, a chain of agents analyses each complaint,
analysts send findings to an approval queue, and the head of supervision decides
them. The service keeps its state in PostgreSQL, its rate limits, replay keys and
job queue in Redis, and its event streams in the API process. A set of scripts
feeds it, seeds it and demonstrates it.

This directory holds TLA+ modules that model the places where several processes
share state and the pure rules that decide what is stored and shown, TLC
configurations that check them on small instances, and TLAPS proofs of every
safety property for every instance. Paths below are relative to the
repository; `sbs_api/` stands for `api/sbs_api/`.

- [1. Inventory](#1-inventory)
- [2. How the modules model the code](#2-how-the-modules-model-the-code)
- [3. The runs](#3-the-runs)
- [4. The proofs](#4-the-proofs)
- [5. Where code and documents disagree](#5-where-code-and-documents-disagree)
- [6. What is not modelled](#6-what-is-not-modelled)
- [7. Plan](#7-plan)

To check a module by hand:

    tlc -config MC_ComplaintIntake.cfg MC_ComplaintIntake.tla
    tlapm ComplaintIntakeProofs.tla

## 1. Inventory

### Components, their state and their operations

| Component | State | Operations | Modules |
|---|---|---|---|
| Idempotency slots (`sbs_api/dependencies/idempotency.py`, `sbs_api/scheduler/sweep.py`) | `idempotency_records`, one row per institution and key | claim (insert first, then read and wait), complete, sweep | `IdempotencySlots` |
| Tier 1 intake (`sbs_api/routes/complaints.py`) | `complaints`, the request's session | tenant check, circuit breaker, claim, insert, complete, commit, answer, background dispatch | `ComplaintIntake`, `AtMostOnceIntake` |
| Complaint status, lists (`sbs_api/routes/complaints.py`, `sbs_api/dependencies/etag.py`, `sbs_api/auth/cursor.py`) | `resolution_status`, `etag_version`; the cursor's key file | GET with ETag, PATCH under If-Match; keyset pages | `ComplaintStatus`, `PagedReads` |
| Tier 2 batches (`sbs_api/routes/batches.py`, `sbs_api/workers/`, `sbs_api/scheduler/prune_batches.py`) | `batches`, `batch_row_rejections`, CSV files, arq jobs | submit, enqueue, process, fail, dispatch agents, enqueue the webhook, prune | `BatchIngestion` |
| Outbound webhook (`sbs_api/webhook/delivery.py`) | `webhook_deliveries` with its attempt history, arq jobs | find or create the row, sign, POST, record, retry, dead letter | `WebhookDelivery` |
| Approval queue (`sbs_api/routes/findings.py`, `sbs_api/routes/approvals.py`) | `pending_approvals`, observations, feedback, narrative drafts, audit rows | send, approve, approve with edits, reject, send back; save and resolve a narrative | `Approvals`, `ApprovalNarratives` |
| SSE bus (`sbs_api/sse/manager.py`, `sbs_api/routes/sse.py`, `app/src/hooks/useSSE.ts`) | ring buffer and subscriber queues per topic, the client's reduced view | publish, snapshot, subscribe, replay, drop, reconnect, restart | `SSEBus` |
| Cockpit, aggregates, findings, peer risk | none of their own | pages of several SELECTs; cohorts, percentiles, series; list and drill-down | `Dashboards`, `PeerRisk`, `SupervisorViews` |
| Agent pipeline (`sbs_api/agents/`) | `agent_runs`, the chain's transaction, shared providers | start, loop, finish, sweep; dispatch, sandbox, backfill | `AgentPipeline`, `DemoIngestion`, `CloudDialect`, `TriageRules` |
| Demo and sandbox ingestion (`sbs_api/demo_ingestion/`) | raw complaints, complaints, audit rows, events | ingest with retries in one transaction | `DemoIngestion`, `DataQuality` |
| DIValeVale (`sbs_api/agents/divalevale/`, `sbs_api/ingestion/pipeline.py`, `sbs_api/webhooks/`) | `enrichment_requests`, validation audit, the institution's inbox, the circuit breaker | two validation passes, enrichment, fulfilment, batch verdicts | `ValidationRules`, `RecordValidation` |
| Request perimeter (`sbs_api/dependencies/`, `sbs_api/auth/`, `sbs_api/middleware/`) | certificates, tokens, secrets, replay keys | body cap, mTLS, token, signature, replay claim | `RequestPerimeter` |
| Rate limiter (`sbs_api/rate_limit/`) | a Redis hash per bucket | refill and draw | `TokenBucket`, `RequestPerimeter` |
| Connection pool (`sbs_api/db/session.py`) | pooled connections | check out, hold, return, time out | `ConnectionPool` |
| Social ingestion (`sbs_api/ingestion/social/`) | `social_signals` with its unique index | run the adapters, resolve, classify, persist | `SocialSignals` |
| Data quality, redaction, taxonomy | none | pure functions | `DataQuality`, `Redaction`, `Taxonomy` |
| Feeds and the recorded demonstration (`scripts/`) | counters, exit codes, the listener's log | send, retry, replay, count; batches in front of the worker | `InstitutionFeeds`, `AnnexRows`, `DemoReplay` |
| Seeding, enrichment, backfill (`scripts/`) | agent rows, resolution columns | delete and insert a story; rewrite the resolution columns; run chains | `DemoSeeds`, `Enrichment`, `DemoIngestion` |
| Web application, SDK helpers, generators, configuration | browser sessions | pages, proxies, clients | see section 6 |

### How they interact

```
 feeds, institutions --signed POST--> perimeter --> rate limiter
                                          |
        +---------------------------------+---------------------------+
        v                                 v                           v
 intake --claim/complete--> slots   create_batch --enqueue--> process_batch (arq)
   | \--background task--+                                        |    \--enqueue--> webhook
   |                     v                                        v                    |
   |                agent chain <--dispatch per row-------- complaints            institution
   |                  |      \--publish--> SSE bus --> cockpit (snapshot + deltas)
   v                  v
 status PATCH    findings --send--> approval queue <--decide-- head of supervision
 (ETag)          (list, drill-down)      ^ narrative drafts

 sandbox submission = raw row + complaint + chain + events in one transaction
 scripts (seed, enrich, backfill, social) write the same tables beside all of this
```

Handlers run concurrently in one or more API processes, jobs in arq workers,
timers in the scheduler, scripts wherever an operator starts them. They share
nothing but the tables, Redis and a few files, and PostgreSQL runs at READ
COMMITTED: a handler's reads are not protected by anything but the unique indexes
and the row locks its own writes take.

### What is hard about them

- A claim is committed in a session of its own, the work in another: every failure
  in between leaves the claim behind.
- Handlers read, decide and write without locking what they read (approvals,
  findings, narratives, status PATCH, `_record_attempt`, `process_batch`'s status
  check, the enrichment).
- arq gives a job a new try after `Retry` or when its worker died, and none after
  any other exception. Code and comments do not always expect that.
- Side effects (enqueue, agents, events, enrichment requests) stand before or
  after a commit; a crash or a rollback between the two separates them.
- One transaction spans a whole ingestion with its agents, and an inner retry
  rolls all of it back.
- Pages are made of several statements, each with a snapshot of its own, and a
  stream's snapshot and its deltas overlap.
- Processes have different clocks, and several numbers (windows, TTLs, tries) must
  fit together without any code that relates them.
- Expiry, sweep and prune delete rows and files under handlers and jobs.

`PROJECT.json` lists every such place with its line under `hazards`, with the
properties that cover it or the reason why none does.

### What makes each component correct

- *Intake*: a key is owned by one request at a time and creates one complaint; row
  and complaint become visible together; no answer is untrue; agents start at most
  once; every request is answered.
- *Status, lists*: no PATCH writes over a row its client has not seen; a retried
  PATCH is not made twice; terminal statuses are terminal. A walk over a list
  misses and repeats nothing that was there throughout.
- *Batches*: all or nothing, true counts, a true event, terminal batches stay as
  they are unless an error follows their commit, every job ends, every stored row
  reaches the agents unless the job that stored it is cut short.
- *Webhook*: `delivered` is true, the attempt history is complete, a settled row
  is kept, no repetition without a fault, every job and row ends.
- *Approvals*: one decision per row with exactly its effects, one pending row per
  complaint, no answer is untrue, every commit is announced, what is approved is
  what was shown.
- *Streams and pages*: a view is what its snapshot and events say; figures of one
  page belong together; a stalled pool is a crowded pool.
- *Chains and ingestion*: a run row says how the run ended; a receipt stands for
  everything it promises; one chain per complaint.
- *Scripts*: what a feed reports is so; a story is told once; rows are what the
  last enrichment makes of them; every post is one signal.
- *Rules*: a verdict is earned; a default is visible; what is detected is
  redacted; more complaints never look better; list and drill-down agree.
- *Perimeter*: the same signed bytes are served once; the limit is the limit.

## 2. How the modules model the code

An action is one database round trip, file operation or network call of one actor;
everything else may step in between two actions. Data is abstract: a body is a
model value (its SHA-256 tells bodies apart), a row of a CSV is a complaint id or
`Invalid`, a text is a set of spans. Faults (a refused statement, a dead process,
a lost answer) are actions of their own, spent from a budget where they would be
unbounded. *History variables* (`swept`, `raced`, `overlapped`, `overtaken`,
`mixed`, `lost`, ...) record what the properties speak of; no action of the code
depends on one. Operators headed "Mutant:" are wrong versions of a neighbouring
definition; they show that the properties notice such an error, and no
specification uses them. Each module has its properties at its end; type
invariants are conjuncts of what is proved where a module has proofs.

### Intake: `AtMostOnceIntake`, `IdempotencySlots`, `ComplaintIntake`

`AtMostOnceIntake` is the abstract specification: requests carry a key, a body and
a complaint; one is *accepted* only if no accepted request under its key is
remembered and none has its complaint; what a request is told (its own receipt, an
earlier one's, a refusal, nothing) is so when it is told. `ComplaintIntake`
implements it: `Abstract` is the refinement mapping (accepted requests are those
whose complaint is committed, forgotten ones those whose row was swept, answers by
what they claim) and `KeepsPromise` the property. `InstitutionFeeds` is checked
against the same specification in place of the service, so that clients and
service meet at one interface.

`IdempotencySlots` has the table's row type and its statements as operators:
`Placeholder` and `Insertable` (the INSERT), `ReadOutcome` (what one SELECT of the
conflict path concludes), `Completed` (`mark_complete`), `Sweepable` (the DELETE).
`ComplaintIntake` composes them with the handler.

| Action | Code |
|---|---|
| `Arrive` | tenant check, circuit breaker |
| `Claim`, `ClaimConflict` | the INSERT of `claim_idempotency_slot` in its own session |
| `ReadSlot`, `ReadAgain` | the loop that reads the row up to four times |
| `Flush`, `FlushDuplicate` | the INSERT of the complaint, and its `complaints_pkey` conflict |
| `Commit` | `mark_complete` and the commit |
| `Respond`, `Dispatch` | the 201 and the background task |
| `Fail` | any exception, disconnect or crash |
| `Expire`, `Sweep` | the clock and the scheduler's DELETE |

`expired` says that the row is older than the sweep's grace period; time is not
modelled otherwise. What clients send is chosen in `Init`: a retry is a second
request with the same key and body.

### Reading and changing complaints: `ComplaintStatus`, `PagedReads`, `ConnectionPool`

`ComplaintStatus`: `Get`, `Check` (load, compare ETag and transition), `Flush`
(the UPDATE takes the row lock), `Commit`, `Reply`, `Retry`. `read` is the row the
handler has loaded: `Commit` increments the version *read*, as the code does.
SQLAlchemy writes changed columns only, hence the IF in `Commit`.

`PagedReads`: a client walks a list page by page (`Begin`, `Page`, `CutShort`)
while rows arrive and are resolved; `Precedes` and `Past` are the ORDER BY and the
keyset condition, `FirstRows` a page (the set of its rows: their order is the
list's), `IsLast` the row its signed cursor `CursorAfter` is made from. The processes make or load the
cursor's key file (`LoadKey`, `NoKeyFile`, `OpenKeyFile`, `WriteKey`) and restart.

`ConnectionPool`: who holds which connection of one API process. `TakeOne` is the
pool's checkout; a POST takes a second one for its claim while it keeps the first,
a cockpit stream keeps one, the pool's timeout is always possible for one that
waits.

### Batches and their event: `BatchIngestion`, `WebhookDelivery`

`Enqueue`, `EnqueueFails`, `Accept` and `CreateFails` are `create_batch`;
`enqueue_job` precedes the commit, as in the code. `Begin`, `SetProcessing`,
`OpenFile`, `InsertRow`, `RejectRow`, `CommitRows`, `DispatchAgents`,
`EnqueueWebhook` and `MarkFailed` are `process_batch`; `Deadlock`, `Error` and
`Crash` are the ways it fails and `Except` its except clauses. The `try` takes in
the COMMIT of the rows and what follows it: an `Error` at `committed` (an
acknowledgement that is lost, an exception of later code) leads to `MarkFailed`,
which overwrites `complete`. `cut` records what cut a job short after its commit. `Reenqueue` is the
operator of the comment at `sbs_api/routes/batches.py:223`, `Prune` the retention
job. `WaitsFor` is the wait of an INSERT for another transaction's uncommitted id;
two transactions in a cycle are PostgreSQL's deadlock. The idempotency claim of a
submission is the protocol of `IdempotencySlots` and is not repeated.

In `WebhookDelivery`, `Begin`, `GiveUp` and the retry by `pc = "queued"` are arq;
`NoConfig`, `Find`, `Create`, `RejectUrl`, `Post`, `RecordRead`, `RecordWrite`,
`Finish` are `deliver_webhook_for_batch`. The receiver is external: a 2xx means it
has the event, any other outcome means it may have it.

### Approvals: `Approvals`, `ApprovalNarratives`

`SendRead`, `SendCommit` are `send_to_approvals`; `DecideRead`, `Flush`,
`DecideCommit` the four decisions, which differ in `StatusOf`, `Observations`,
`Feedback` and in the columns `Decided` sets; `Publish` the SSE event and the
answer. `raced` and `sendRace` record that two requests were between their read
and their commit at once. `ApprovalNarratives` adds the text: `Drafts` (agents),
`SaveRead`, `SaveCommit`, `SaveFails` (an analyst's draft with its `before_text`),
`ShowDetail` (the page), `ResolveNarrative` and the decisions that resolve the
narrative afresh. Both describe one finding.

### Streams and pages: `SSEBus`, `Dashboards`, `PeerRisk`, `SupervisorViews`

`SSEBus`: `Publish` puts an event in the ring and the queues, before or after its
fact is committed (`CommitFact`); `Open` and `Greet` are the client and the
snapshot, `Subscribe` the replay by Last-Event-ID (`Newer`, the end of the ring),
`Send` the generator, which takes the head of backlog or queue, and the client's
reducer, `Close` and `BusRestart` the failures.

`Dashboards`: a page is its sequence of SELECTs, one `Read` each, while
complaints, chains and decisions commit and the clock moves; windows and limits
are the code's, scaled down. A decision is stamped when its handler finds the row
pending (`Decide`) and visible when it commits (`CommitDecision`); two may overlap.
A chain, too, dates its rows before it commits them (`FinishChain`). `PeerRisk` (cohorts, percentiles, z-scores in exact
fractions, daily series) and `SupervisorViews` (the findings list with its
filters, the drill-down) are operators.

### Agents and ingestion: `AgentPipeline`, `DemoIngestion`, `TriageRules`, `CloudDialect`

`AgentPipeline` is the chain: `EnterChain`, `StartAgent`, `ToolTurn`, `TextTurn`,
`EndLoop`, `ProviderFails`, `StatementRaises`, `FinishAgent`. Rows are the
transaction's until its caller commits. The replay provider's cursors
(`Positions`) are shared by the chains of a process. `DemoIngestion` composes it
with its three callers: a submission (`ClaimSlot`, `InsertRaw`, `InsertComplaint`,
`InsertCollides`, `WriteRecord`, `AfterAgents`, `SweepRaises`, `Publish`,
`CommitSubmission`), a dispatch (`BeginDispatch`, `EndChain`), and the backfill
(`Select`, `Take`, `EndScan`). `TriageRules` has the classification and routing
tables. `CloudDialect` is how concurrent completions learn which parameters a
deployment takes.

### DIValeVale: `ValidationRules`, `RecordValidation`

`ValidationRules` has both passes, the recovery from the narrative and the routing
as operators over classes of values. `RecordValidation` makes transactions of
them: `Validate` (for a submission or a fulfilment), `Send` (the enrichment
request goes out at once), `ReadPending`, `CommitRecord`, `Rollback`,
`ValidateBatch`, `CommitBatch`, and `Break`, the circuit breaker with its
operators.

### Perimeter: `TokenBucket`, `RequestPerimeter`

`TokenBucket` is the Lua script in exact fractions. `RequestPerimeter` sends
copies of signed bytes through `TooLarge`, `Authenticate`, `Verify`, `Claim`,
`Limited` in processes whose clocks are off Redis's (`now`) by `Offset`, and may
stall between two steps; `Administer` revokes, reassigns and rotates.

### Rules: `DataQuality`, `Taxonomy`, `Redaction`, `AnnexRows`

Operators, examined case by case over classes of values: every Annex 1-A rule and
legacy check with the columns and the receipt they lead to; the field
dictionaries; how overlapping detections are resolved and replaced; what the
sample loader and the batch writer make of a spreadsheet row.

### Scripts: `InstitutionFeeds`, `DemoReplay`, `DemoSeeds`, `Enrichment`, `SocialSignals`

`InstitutionFeeds` has every program that posts to the sandbox, of seven kinds in
one module since they differ in `KeyOf`, `StampOf`, `React` and `OnException`.
`Break` is an error answer of the API after the row was committed.
`DemoReplay` is the recorded demonstration beside worker and listener; a batch is
named by the place on the command line of its institution, which may be named twice. `DemoSeeds`
has the three scripts that replace a complaint's agent rows by a story;
`Enrichment` the script that rewrites the resolution columns, where
`WrittenColumn` says what SQLAlchemy writes: the columns that differ from what was
loaded. `SocialSignals` has the social job with its adapters and unique index; a
signal says whose run inserted it (`by`), as its primary key would.

## 3. The runs

An MC module puts together modules that share no state and lets one of them run at
a time, chosen in the initial state by `topic` (or `case` in `MC_Rules`); the
others stay as they began. The number of distinct states is the sum over the
topics.

| Run | Modules, bounds | Distinct states | Shows |
|---|---|---|---|
| `intake` | 3 requests, 2 keys, 3 bodies, 2 complaint ids, 3 re-reads (the code's number), 2 failures | 446,718 | idempotency, true rows and answers, liveness, and that the handlers implement `AtMostOnceIntake` |
| `intake_orphan` | the same, no failure | | `ProcessingEnds` is violated |
| `batch` | 2 batches, 3 jobs, 2 ids, 2 tries, 2 faults | 566,881 | one story per batch, terminal batches kept but for errors after the commit, jobs end, stored rows reach the agents unless their job is cut short |
| `batch_race` | 1 batch, 1 job, no fault | | `SentBatchIsRun` is violated |
| `approvals` | decisions: 2 sends, 2 decisions of any kind, 2 faults; narratives: 3 saves, 1 page, 1 send-back | 286,400 | one decision with all its effects, true answers, announcements, what is approved was shown |
| `approvals_doubleclick` | 1 send, 2 decisions, no fault | | `NoSecondObservation` is violated |
| `readers` | status: 3 clients, 2 faults; walks: 3 rows, pages of 1, 2 processes, 1 restart; bus: 1 client, 3 facts, ring 2, queue 1, 3 connects, 1 reboot; pages: 5 complaints, days of 2, windows of 3, limits 1 and 2, 3 commits; pool: 3 connections, 3 POSTs, 1 stream | 1,612,393 | seven properties of those who read while others write |
| `pipeline` | chains: 1 submission, 1 dispatch, the backfill with 1 scan, 2 tries, 2 loop iterations, 1 fault; seeds: 3 scripts, 3 complaints; social: 3 jobs, 3 posts, 3 days; dialect: 3 completions, 3 attempts; enrich: 2 runs, 2 complaints, 3 days, 1 status change | 3,565,042 | six properties of what the agents and the scripts write |
| `rules` | validation: 2 sessions, 2 sends, 3 transactions, batches at the quarantine threshold; perimeter: 2 payloads in 3 copies, clocks 1 apart, window 2, TTL 5; cases: thousands of inputs per rule | 2,636,944 | eight properties of verdicts, rules and the perimeter |
| `second_request` | the same | | `NoSecondRequest` is violated |
| `feeds` | feeds: every kind alone and two at once, 1 or 2 rows, 2 expiries; webhook: 2 jobs, 2 tries, 3 attempts, 2 faults; demo: 2 institutions, 4 setups, 2 deliveries | 418,298 | what feeds report, what rows of deliveries tell, when a recording is earned |
| `webhook_deadletter` | 1 job, the code's 5 tries and 6 attempts, no fault | | `EveryRowSettles` is violated |

Why the bounds are enough to meet the interesting cases:

- *intake*: three requests give an owner, a retry and an intruder. The bodies make
  same key and same body (replay), same key and other body (reuse), other key and
  same complaint id (duplicate, also from another institution) and another
  institution's body (not found). Two failures can take both the owner and its
  retry away. Expiry and sweep are not bounded.
- *batch*: two batches hold two ids in opposite order, the smallest cycle of
  waiting transactions; one of them has a third, invalid row; the other is run
  twice, which gives both a late and an overlapping rerun.
- *webhook*: two jobs share a row, or each create one. `MaxAttempts` is one above
  `MaxTries`, as in the code (6 and 5); `webhook_deadletter` has the real numbers.
- *approvals*: two sends and two decisions are what it takes to race in either
  handler; a second row appears when the first one has been decided in between.
- *readers*: with two clients racing, a third sees the result before, between and
  after; rows share a timestamp, so that the tie-break matters; ring and queue
  both overflow; every window and limit of the pages cuts something off; four
  users for three connections, of which two suffice for one POST.
- *pipeline*: the dispatch and the script meet on one complaint, the submission
  and the dispatch share a provider; each of three seeders can choose one
  complaint. Three completions are two that race and one that finds the result.
  Two enrichment runs have different days and sources; a row can arrive, be
  resolved, be patched and be taken back to pending.
- *rules*: two sessions are a submission beside another's fulfilment, or the same
  complaint twice; two payloads draw on a limit of one, and the third copy repeats
  one of them at every second of its window.
- *feeds*: one retry is all a feed ever makes; two expiries are the one it
  survives and the one it does not.

Symmetry is used in `rules` only, for the two validation sessions, whose order
nothing depends on; that run has no liveness property. Deadlock is checked in
`intake`, `batch`, `approvals` and `rules`, whose `Terminated` (or idle) steps
stutter when, and only when, every actor has come to its end. It is off in
`readers`, `pipeline` and `feeds`: their topics stop when the bounds are used up.

### Fairness

Weak fairness is given to the steps of a handler, job or stream that has begun:
the event loop and the database run a started handler, a running worker takes what
is queued, a stream sends what it has. Nobody is obliged to send a request, to
answer a webhook, to connect or stay connected, to re-enqueue a batch, to sweep or
prune, and no fault is obliged to happen. Actions that share a disjunction under
one `WF` (`Work`, `Handle`, `BusFairness`) are the program counter's alternatives
of one actor, so fairness of the disjunction is fairness of the actor. In `feeds`
one `WF` covers all feeds: each ends after finitely many steps, so that it
suffices that one of them goes on, and an HTTP client always returns, by an answer
or by its timeout.

The liveness properties are: every request past the breaker is answered
(`EveryRequestAnswered`), every queued job ends (`EveryRunEnds`), every stored row
of a batch reaches the agents unless the job that stored it is cut short after its
commit (`StoredRowsReachAgents`), every committed decision its topic unless its own
request fails (`EveryDecisionAnnounced`), whatever else fails, an open stream
delivers what it holds (`StreamsCatchUp`), and a feed accounts for every row it
took (`EveryRowReported`).

### Properties with a condition

Several handlers read without a lock, so some properties are false when two of
them overlap. Each is stated with the condition that makes it true (`raced`,
`sendRace`, `overtaken`, `mixed`, ...), and that condition is exactly that two
actors were between their read and their write at once. `ChainOnceUnlessRaced`
tells chains apart by their authors, and the backfill is one author: two scans of it
over one complaint are outside of what it says. What the code loses
without the condition is shown by the violation runs and in section 5.

### Mutants

Every property has at least one mutant in `PROJECT.json`: a wrong version of a
definition that models code (a dropped guard, a missing reset, a swapped order)
under which TLC finds the property violated. A property with several conjuncts is
a conjunction of named parts, each with its own comment in its module.

## 4. The proofs

Eight modules hold proofs, for all values of the constants under the assumptions
named in the modules. Most assumptions say that a constant has its type, that a
mark for "nobody" is no member, and that sets which are counted are finite. Those
that say more are what the code or its operator provides:

| Assumption | Why |
|---|---|
| `ReplayAssumption`, `DriftAssumption` (`RequestPerimeter`) | the settings that the code relates nowhere, and the clocks of its processes; the defaults meet them |
| `PipelineAssumption`: two loop iterations or more | a recorded script has a tool turn or two and a final one; `MAX_ITERATIONS_DEFAULT` is 5 |
| `IngestionAssumption`: dispatches are of different complaints, none of them a submission's | a dispatch is the background task of one `POST`, whose id is in the table already |
| `DashboardsAssumption`: an id names one institution, whose tier is none of the cohorts' labels | the primary key; the service and its scripts write `large`, `mid` and `small` only, and one called `TIER_1` would be taken into that cohort's bucket |
| `SocialAssumption`, `PagingAssumption`: a post or a row is told by its id | the platform's post id, the primary key |
| `PagingAssumption`: `NoKey` is no key | a missing file is not the text of one |
| `FeedsAssumption`: a feed has a row or more, the marks for answers are no sends | a feed without rows does nothing |
| `ReplayAssumption` (`DemoReplay`): the command line names an institution | argparse's `nargs` |
| `EnrichmentAssumption`: lags are positive, a reported row has all columns | `LAG_MIN_DAYS` is 3; the loader's fixed columns |
| `SeedsAssumption`: the scripts of the journey are told from the chain | they sign their rows |
| `ValidationAssumption`: records are of the classes of `ValidationRules` | what the two passes tell apart |

No property is inductive by itself. What follows says for each theorem what its
invariant adds; `X => []Inv` is always `Init => IInv`, `IInv /\ [Next]_vars => IInv'`
action by action, and `IInv => Inv`. Every inductive invariant was checked by TLC as
an invariant of its component's run before it was proved.

**`ComplaintIntakeProofs`.** That a commit completes the right row needs the fact
that nobody could take the row away since the claim. `IInv` says so:

- `OwnerMadeRow`: a row was made by its owner, who has the row's key and body and
  is past the claim;
- `OwnerHoldsRow`: between claim and commit the row is in processing and belongs
  to the handler. The sweep spares processing rows, the unique index refuses
  others: that is where both are needed;
- `FlushedHasId`: an uncommitted complaint has its id for itself;
- `StoredHasCommitted`, `IdsMatch`: who can be found in the complaints table;
- `RowAndComplaintAgree`: a complete row and its complaint exist together.

`MutualExclusion`, `AtomicAcceptance`, `AtMostOncePerKey`, `KeyUsedOnce` and
`AgentsStartAtMostOnce` follow. `TruthfulAnswers`, `OrphansExplained` and
`TruthfulRows` need to know besides when a handler has answered and that a stored
complaint stays stored (`OutcomeInv`). `ResponsesImmutable` is an action property.

`PromiseKept` is the refinement: `Init` maps to `Fresh` of `AtMostOnceIntake`; a
step that leaves alone what the mapping is made of is a stutter; `Commit` is the
abstract `Accept`, which needs that no other accepted request under the key is
remembered (`IInv`) and that rows belong to requests the sweep has not passed over
(`RowsRemembered`); a reply is the abstract answer of its kind, which needs that
what it claims is so (`OutcomeInv`); `Sweep` is `Forget`.

**`ReadersProofs`.** As long as `raced` is false, a handler that has
passed its checks is the only one and the row is as it read it (`OneHandler`);
hence a version that a client has seen stands for one status (`VersionNamesRow`),
and a client that has written holds an outdated version, which makes its retry
fail with 412 (`WrittenOnce`). `WritesBounded` bounds writes by faults and is
needed for the type of `writes`. `AppliedOnce`, `NoBlindWrite`, `TerminalKept` and
`SafeWrites` follow.

`WalksWhole`: the order of a list is strict and total (`ListOrder`), so that a page
is the rows before a place in it; `WalkLocal` says that whatever was shown lies
behind the cursor, and that what was in the list throughout and lies behind the
cursor was shown. For the key: if nobody meets a process that makes it, there is
one key, in the file, in memory and in every cursor (`OneKey`).

`PagesAlwaysAddUp`: the tables only grow while a page is made, so that a figure is
at most what the table holds now, and a later figure is at least what an earlier
one was (`CockpitInv`, `TrendInv`, `TileInv`: what each figure owes to the ones
before it and to the tables). The queue is the exception: approvals leave the list
as they are decided. `QueueInv` says that whoever is in the list and no longer
pending has been decided in a way that a KPI still to be read counts, or in one that
none counts (`Settled`, `Covers`): sent back, overlapped, or stamped before the day
of the KPIs. That counts by a key sum to the rows, and that the three
scopes count the same complaints (`CountsSum`, `BucketCounts`, `LabelsArePeers`),
needs no induction: a sum is the cardinality of a set of numbered pairs.

`PoolStalls`: `HoldsFew` bounds what a request holds by where it is:
one connection while it claims, two after that. If all connections are held by
claims and streams, each is held by another user: an injection of the connections
into the users under way, which gives the cardinality bound of `PoolStalls` for
pools of every size (`CrowdedWhenStalled`).

`ViewsFollow`: ids of the ring are ascending and below the next one (`RingHolds`);
what a stream has still to send comes after what it has sent, and is in the ring or
older than it (`PendingHolds`); an event that could still arrive has not been
counted, or only by the snapshot (`CountHolds`); and a client that has lost nothing
has counted every live fact or will: it is in its queue if the stream is open, in
the ring past its last id if it is not (`NothingLost`).

**`BatchIngestionProofs`.** Until a job commits, its batch is one that a job may
start, unless two jobs overlap (`OpenUntilCommit`, `OneAtATime`): that is why
`TerminalIsFinal` holds. A job that fails a batch after its commit (`Late`) has an
error in `cut` and changes nothing but the status; it has announced nothing, since
the event is a job's last step (`EventIsLast`). The ids an open transaction has inserted are in no table
and in no other transaction (`InsertsAreNew`), and there are as many as the job
has counted (`RowsAccountedFor`): from these, the commit's counts are the table's
(`OneBatchOneStory`). A job that has committed still has the batch as it counted it
when it announces it (`CommittedAsCounted`).

**`ApprovalsProofs`.** A row is as it was sent until a decision on it commits, and
then says what some committed decision says (`RowsHaveDeciders`): that is enough
for `ApprovalAnswersTrue`, race or no race. Without a race at most one request may
still decide a row or has decided it (`UnracedHasOne`), and a send that goes on has
found nothing pending and is the only one (`UnracedSend`): `OneStory`.
`NarrativesTrue`: a save that overlapped none has read the text of the last save
begun before it (`ReadsWhatCameBefore`), and an open page shows the narrative
unless it has changed since (`PagesShowNarrative`).

**`FeedsProofs`.** `RowsTell`, `SettlersLeave`: a job that works on a row is known
to the row (`WorkersHaveRows`), what `_record_attempt` has read is the row's
history if no other job works on it (`ReadIsCurrent`), and who has settled a row is
past every statement that writes it (`SettlersAreThrough`). `SentOnce`: a send that
its feed has not come to is unknown to the service (`UnmadeUnknown`); a second send
follows a refusal or the receipt of the first (`SecondsEarned`); what was let in
has left its signature (`LetInCached`); a row whose error answer the feed has heard
and that is stored anyway is one the API broke on after its commit (`Broken`). `RecordingEarned`: the script has looked at
as many batches as it has results (`NoneSkipped`), each after its job was over
(`OverWhenLookedAt`).

**`RulesProofs`.** `ReplaysRefused`: a verified copy was checked inside its
signature's window and not long ago (`VerifiedInTime`); so the key of an accepted
copy outlives the last moment at which another copy can reach its claim
(`ClaimOutlives`), which is where `ReplayAssumption` is needed. `LimiterFair`: the
bucket's time stamp is that of a process that wrote it (`LastWriter`), so that
draws and level together never exceed what has been refilled, plus what late clocks
gave back. `ValidationEarned`: what passes both passes is usable (`ValidIsUsable`)
and the recovery touches only what the narrative gives (`RecoveryIsFair`); a session
that meets no other one reads all that is pending (`AloneUnlessRaced`, `ReadsAll`).

The rest of that module is about operators, for every input; a corollary says that
the specification the run checks examines such inputs only (`CaseFits`), so that
the run's property is a theorem of it.

- `ViewsAgree`, `FindingsTell`: of whole runs the list and the drill-down look for
  the same one, the newest (`NewestIs`, `LabelsAgree`).
- `StandInsAreReported`, `WordsDoNotMatter`, `SubmissionsOpen`: where a column gets a
  value that the submission did not have, a rule of the report is broken
  (`AnnexReports`) or the field is among the unknown terms; and no term means two
  codes of one dictionary (`ProductsApart`, `MotivesApart`, `ChannelsApart`), so
  that the terms of a code are read alike (`TermsShareCodes`).
- `LoadersFit`, `SheetsAlwaysFit`: what is cut and padded has the length the schemas
  ask for (`CutToTen`, `CutTo8000`, `PaddedToSix`); each line of the CSV is a row of
  the sheet (`CodedRow`); and a complaint id tells the last ten digits of a code
  (`IdsTellLastTen`).
- `AllIsRedacted`, `TextAlwaysRedacted`: the order of detections is strict and total
  (`BeforeOrders`), so that there is exactly one way to keep them greedily
  (`KeptExists`); the characters that stay are numbered by how many stay up to them
  (`KthIs`), which puts every tag in one place (`StitchedIs`) and makes the number of
  a tag the number of tags of its kind up to it (`TagsCount`).

**`PeerRiskProofs`.** `NeverBetter`: one more complaint changes one count, and that
by one (`CountsOneMore`). A sum is the cardinality of a set of numbered pairs, so
that it splits (`SumSplit`); the deviation then grows by n - 1 and the variance by
twice the deviation and n - 1. With five peers or more a z-score of 2 stays one
(`ManyDeviate`); with four or fewer there is none, by the Cauchy-Schwarz inequality
(`Cauchy`, `FewAreNear`). The percentile of the others does not move, and the days of
a series are the complaints of its window by their day (`CountsSum`). The theorem is
about exact fractions; numpy's rounding to two and three decimals is not in it.
`WorseNeverBetter` in `RulesProofs` is the corollary for the run. The module has the
lemmas on least numbers, parts and sums that other modules cite.

**`PipelineProofs`.**

- `DialectSettles`: a completion that nobody has overtaken sends the field the
  provider holds, and after its k-th refusal at most 2 - k of its two parameters
  are still wrong (`Learning`, `Converges`); the temperature is never taken up
  again (`Dropped`).
- `PostsHaveSignals`: a run loses no post, it has still to look at it, is inserting
  it or it has a signal (`NoneLost`); the unique index spans what is committed and
  what waits to be (`IndexHolds`).
- `EndsTold`: only the row of the agent at work is open (`RowsOpen`, `OneOpen`), and
  a replayed script nobody has started over is heard turn by turn (`Heard`).
  `StoredWholly` adds what a submission holds at each of its steps
  (`SubmissionLocal`), `ChainedOnce` whose runs are whose (`RunsHaveOwners`) and
  what the backfill may take (`TakenAreFree`). Each of the three invariants rests
  on the one before.
- `EnrichedTwiceIsOnce`: each column of a row that a run has loaded, and that
  nobody else wrote, is what the run loaded or what it will write (`LoadedHolds`).
- `StoriesAreOne`: a complaint that is not crossed has one script at work on it
  (`OneAtWork`), whose DELETE has seen all that its story replaces (`SeedLocal`).
- `ScriptsTellOne` takes the last two together, of the composed specification that
  the run checks.

Only model-checked is all liveness (`EveryRequestAnswered`, `EveryRunEnds`,
`StoredRowsReachAgents`, `EveryDecisionAnnounced`, `StreamsCatchUp`,
`EveryRowReported`): the prover has neither `ENABLED` nor rules for fairness.

Where an operator of the code sorts, sums or goes through a list, the module states
what comes out (a cardinality, the k-th smallest, the one set of detections that is
kept), and the lemmas show that there is such a result: the library's induction
theorems cannot be used, so that `KeptExists`, `KthIs` and `Cauchy` argue from the
least counterexample (`LeastOf`).

No module declares a RECURSIVE operator.

## 5. Where code and documents disagree

Five disagreements have a run; `PROJECT.json` quotes the lines under `findings`.

1. `intake_orphan`: a request refused as a duplicate leaves its idempotency row in
   processing, and nothing removes it: the key answers `IN_FLIGHT` for ever, where
   `api/openapi/error-catalog.md:53` tells the client that a retry will find the
   request completed.
2. `webhook_deadletter`: arq stops after five tries, so the sixth attempt that
   `sbs_api/webhook/delivery.py:66` calls the dead letter is never made, and the
   row of a silent receiver stays `pending`.
3. `batch_race`: `enqueue_job` precedes the commit of the batch row; a quick
   worker finds no batch and drops the job, and the batch is pending for ever
   although the enqueue succeeded.
4. `approvals_doubleclick`: two concurrent approvals insert two observations.
5. `second_request`: `sbs_api/agents/divalevale/agent.py:219` promises "no auto
   second request"; the validation that a fulfilment goes through sends one.

The others were met while modelling. The models follow the code, and the
properties name the case or are stated without what the text claims.

*Intake, status, approvals.*
`docs/adr/0029-idempotency-policy.md:42` lets an expired record be processed
normally; `claim_idempotency_slot` does not look at `expires_at`.
`sbs_api/models/requests.py:69` says that the new status must differ from the
current one; `ALLOWED_TRANSITIONS` permits pendiente to pendiente. The `reason` of
a status PATCH is described as audited and is not.
`sbs_api/dependencies/idempotency.py:206` calls PATCH "already serialised by the
ETag check"; two PATCHes with one If-Match both succeed, and a committed atendido
can become anulado. `docs/adr/0034-batch-ingestion-architecture.md:91` and
`sbs_api/workers/batch_worker.py:14` expect arq to retry after an
`OperationalError`; arq ends such a job. Approve resolves the narrative afresh and
may approve a draft the page never showed; two overlapping saves share one
`before_text`; agent-drafted text is not recorded as `before_text`.
`sbs_api/workers/batch_worker.py:12` says "Once terminal, the row does not change";
when the COMMIT of the rows is not acknowledged, or an exception follows it, the
same job turns `complete` into `failed` with the rows stored.

*Streams, pages, pool.*
`resync-required` (`sbs_api/routes/sse.py:21`) is never emitted; the client
carries no Last-Event-ID into a new connection (`app/src/hooks/useSSE.ts:81`), and
a fresh subscription replays the ring over a snapshot that has it, so that events
count twice. Figures of one page come from several statements: the high-priority
tile may exceed the triaged one, a percentage may exceed 100 when a complaint
commits in between, a decision between list and KPIs at midnight is in neither, and
neither is one stamped before midnight and committed after the list was read.
`sbs_api/cockpit/builder.py:255` speaks of one row per non-resolved anomaly and
counts every successful correlator run. As many POSTs and cockpit streams as the
pool has connections stall until it times out. `cmd_tier2_status` takes an error
or its page cap for the end of a list.

*Agents and ingestion.*
"Failure here does not roll back ingestion"
(`sbs_api/demo_ingestion/orchestrator.py:789`, step of the agents) is not so for a
failed statement, and the retry of the insert rolls back the raw row; the sweep of
open runs finds only what was raised outside an agent's own `try`. `reset()` of
the shared replay provider clears the cursors of other complaints. The backfill
selects first and runs later, so a dispatch under way gets a second chain, and a
demo complaint whose agents failed is never selected.
`sbs_api/agents/providers/cloud.py:327` says that one retry is enough to settle
each parameter; two completions refused at once flip the field twice.
`sbs_api/agents/tools/queries.py:53` reads `annex["errors"]`, which never exists,
so that the route `reject` is unreachable. A webhook of DIValeVale goes out before
its row commits; the rows of an accepted batch are audited as quarantined; a
concurrent fulfilment can overwrite `FULFILLED` by `ESCALATED`; `ingest_entry`
passes the supervisor's institution id, which Pass 1 refuses.
`social_ingestion_job` is called a cron entry and nothing schedules it; a stub
adapter takes the signals of the whole run with it.

*Rules.*
No channel satisfies both the Anexo A codes (rule 013) and the taxonomy, so that
every accepted receipt carries `flag_unknown_taxonomy`. `resolution_status` holds
16 characters and `status` is unbounded: a longer one is a 500 where
`sbs_api/models/demo_ingestion.py:32` is "intentionally permissive". The date rule
023 relies on format errors "surfaced by their own rules", which fecha_resolucion
has not. `favor_entidad` of the taxonomy is `favor_empresa` in rule 022;
en_proceso is mapped, and an error of R020. `COBRO_INDEBIDO` normalises to a code
that the classification table has not. `sbs_api/peer_risk/percentiles.py:118` says
that a maximum lands at 100; a value counts its own rank by half, so that none
does, and in cohorts below five nobody can be an outlier. The favour percentages
of `sbs_api/routes/aggregates.py:17` add up to less than 100 for other
resolutions. The findings list ignores a partial triage that the drill-down shows,
limits before it filters, and its highest band excludes 1.0. A dropped longer
detection may leave characters unredacted.

*Perimeter.*
The replay key outlives the signature's window for the defaults (600, 300, 60 s);
`config.py` relates the three settings nowhere (`ReplayAssumption`). A replay
claim precedes the rate limit and the validation of the body, so that a 429 or 422
uses the signature up. A process whose clock is behind gives budget back.

*Scripts.*
`scripts/enrich_complaints.py:26` calls a second run idempotent; a run writes only
the columns that differ from what it loaded, so that a status change or a run of
another day in between leaves a mixed row. It takes anulado back to pendiente past
the state machine, without a new ETag. Two seeding scripts on one complaint leave
two stories; the journey route kills its script after 15 s and a retry, under a
fresh key, stores a second complaint. `scripts/demo_load_sbs_sample.py:271` says
that every row is accepted; zero ubigeos, control characters and codes that share
their last ten digits are not. Its exit code is 1 only if both tiers fail. The
sandbox route promises "a 200 replay" and replays the stored 201. A refused token
ends a feed despite "keep the loop alive" (`scripts/nrt_feed.py:226`); `run_large`
counts rows as failed that are stored, and so does every feed after a 5xx that
follows the commit.

## 6. What is not modelled

- *Cryptography, TLS, JWT*: verdicts here.
- *Language models, regular expressions, Spanish texts*: what a model answers and
  what a detector finds is chosen; what the code does with it is modelled.
- *Read-only parts*: the agents' status endpoint, the taxonomy sources endpoint,
  the pipeline tile, the provider's health check, the forecast's smoothing, the
  cross-source strip, health probes.
- *Tools of one turn that run at once on one session*: a fault of the turn.
- *`detect_system_signal`* (`sbs_api/agents/triage_signals.py`): nothing in the
  service calls it.
- *The legacy idempotency functions* (`lookup_cached`, `store`), called by nobody,
  and the claim of a batch submission, which is `IdempotencySlots` again.
- *`scripts/seed_demo.py`*: writes the registry once, with fixed rows.
- *Web application*: it renders what the API answers; its SSE client is in
  `SSEBus`, its journey route in `DemoSeeds`.
- *Configuration, errors, middleware for logging, SDK helpers, generators,
  migrations, standards pack, infrastructure*: no state that several actors share.
  The migrations were read for the constraints the models rely on.
- *Time* outside of perimeter, limiter, pages and scripts: timeouts, expiries and
  retention ages are nondeterministic; the models say nothing about how long
  anything takes.
- *Several complaints in one approval queue, several topics, several institutions'
  webhooks*: they share no state.
- *One hazard without a property*: a crash between the commit of a complaint and
  its agents; nothing in the service promises to find it.

## 7. Plan

The model is as wide as the code allows, and every safety property that a run checks
is a theorem. What is left are abstract specifications that further components
implement, as the intake implements `AtMostOnceIntake`:

1. `BatchIngestion`: a batch is stored at once or not at all, and said to be so once.
2. `Approvals`: a finding is decided once, with all the effects of the decision.
3. `Redaction`: the tags of a kind, in the order of the text, stand for the kept
   detections of that kind in theirs.
