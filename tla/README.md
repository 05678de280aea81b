# StockBrief backend: TLA+ specifications

TLA+ modules of the StockBrief backend (`src/app`), TLC runs that model-check
them on small instances, and TLAPS proofs of the properties that matter most
for every size. Paths below are relative to the repository.

    tlc -workers 2 -config MCIngestionRuns_safe.cfg MCIngestionRuns   # one run
    tlapm IngestionRunsProofs.tla                                     # one proof module

## 1. The system

StockBrief recommends Korean stocks from public data. One Python package runs
as AWS Lambda functions: an API (FastAPI) for users and a maintenance function
for schedulers and operators. All state is in one PostgreSQL database, reached
through SQLAlchemy sessions with `autoflush=False` (`app/db.py:25`), and in an
S3 archive of raw payloads. Nothing runs in background threads: concurrency is
**between invocations**. Schedules overlap, EventBridge and the Lambda service
retry, an operator repeats a job by hand, two requests of one user arrive
together, and an invocation can be killed at its timeout between any two
statements. PostgreSQL runs every transaction at READ COMMITTED, so correctness
rests on unique indexes, row locks and the order of statements.

### Components

| Component | State | Operations | What makes it correct |
|---|---|---|---|
| **Ingestion ledger** `services/ingestion_idempotency.py`, `ingestion/orchestrator.py`, `ingestion/status.py`, `ingestion/archiver.py` | `ingestion_runs` rows, raw archive objects | start or restart a run, replay, fetch, archive, persist, mark, reconcile stale runs | one executor per run and per input; a success is backed by its own data and archive and never undone; every started run ends |
| **Provider batch** `run_provider_batch` | position in the ticker list, row locks of the open transaction | one `_run_ticker` per ticker, in the list's order | no lock is kept over a provider call; batches do not block each other for ever |
| **KRX prices** `ingestion/krx_technicals.py`, `_persist_krx_prices` | `price_metrics` rows: close and 20-day metrics | daily ingestion of a ticker, market-wide bootstrap, metric refresh | the latest row has the metrics of the latest 21 closes; no deadlock over the rows |
| **Provider clients and cache** `services/external/*` | `api_cache_entries`, call logs | cached request, retries with backoff, fallback | a fallback is never taken for data; only a rival's insert of the same key can fail a run |
| **Evidence store** `ingestion/persistence.py`, `_persist_*`, `readiness.py` (evidence clean-up) | `source_documents`, `evidence_chunks`, `news_items`, `disclosures` | upserts by external id, content hash, evidence id | one row per identity under races; the ticker a row names has its evidence |
| **Score refresh** `ingestion/score_refresh.py`, `recommendation/materializer.py` | `recommendation_scores`, `_reasons`, `risk_signals` | refresh of a day, provider freshness annotation | overlapping refreshes neither double rows nor lose updates |
| **Score engine** `recommendation/engine.py`, `factors.py` | none | weighted total, evidence level, reasons, percentile ranks | ranks agree with their definition at ties; scores stay in range and follow the data |
| **Scheduler gate** `ingestion/readiness.py` | none (reads the ledger) | blockers before schedules are enabled | passes only when every pair has succeeded and nothing is stale, and can pass |
| **Read APIs** `services/candidate_service.py`, `evidence_service.py`, `stock_service.py` | none | latest score per ticker, gates, sort, page | a walk over the pages sees everything once; a recommendation is backed by live evidence |
| **User state** `app/auth.py`, `app/protected_routes.py` | `users`, `user_preferences`, `watchlists` | get-or-create, preferences, watchlist add, patch, delete, import | no lost or doubled rows under concurrent requests of one user |
| **Chat** `routes/chat.py`, `services/chat/*` | `chat_sessions`, `chat_messages` | compose with guards and retry, store the exchange | no answer is returned or stored that missed a guard; exchanges are whole |

How they interact: the maintenance function calls `handle_ingestion_event`
(ledger, batch, clients, evidence store, KRX prices in one session),
`refresh_score_snapshots` (the same batch, then the materializer, in the same
session), the bootstrap and the reconciliation. The API reads scores and
evidence and writes user state and chat. Components share the database session:
**every provider call commits it** (`cache.set`, `logger.log`), and a replay
leaves it with a row lock.

`PROJECT.json` lists every part of the repository with what is modelled of it,
and every hazard found in the code, at its line, with the properties aimed at it.

### The hard behaviours

1. *Start protocol*: two SELECT ... FOR UPDATE, an INSERT and a recovery, with
   other jobs in between; two unique indexes decide.
2. *Death and reclamation*: a killed job leaves its row `started`; the
   reconciliation fails rows by age only and takes no lock.
3. *Late writes*: marks are UPDATEs by primary key that do not look at the
   status they replace.
4. *Locks that outlive a call*: a replay or a `ValueError` returns without
   commit or rollback.
5. *Stale reads*: autoflush is off, and at READ COMMITTED a transaction
   computes from what others had committed when it read.
6. *Insert races*: cache entries, users, preferences, watchlist items, chat
   sessions and evidence chunks are looked up and then inserted; some of the
   losers recover in a savepoint or after a rollback, some answer with an error.
7. *Answers made of several statements*: a list is a count and a page, the
   scheduler gate is five checks; others commit in between.
8. *Guards in an order*: a model's answer passes the policy, the provider's
   checks, one citation retry and the normalisation, with a fallback at each.

## 2. Modules

| Module | Models | State -> code |
|---|---|---|
| `IngestionRuns` | the ledger, its jobs, the Lambda runtime, the reconciler | `status`, `hash`, `age` = columns `status`, `input_hash`, `started_at`; `archive` = the S3 object under the run's key; `pc[j]` = the next statement of `_run_ticker`; `picked` = rows the reconciliation has read and not yet committed; `producer` = whose data was committed (history) |
| `RunLedger` | what the ledger promises: `Begin`, `Finish`, `Abandon` | abstract; `IngestionRuns` implements it with the two variables of the same name |
| `BatchLocks` | several `run_provider_batch` and their row locks | `held[b]` = rows locked by the batch's open transaction; `order`, `pos` = the ticker list |
| `KrxTechnicals` | price rows and metrics of one ticker under overlapping transactions | `close`, `tech` = committed rows; `seen`, `plan`, `todo`, `held` = the session: row found, pending metrics, unflushed rows, locks |
| `ScoreRefresh` | the transactions that materialize and annotate the scores of a day | `score`, `reasons`, `risks` = committed rows of `recommendation_scores`, `_reasons`, `risk_signals`; `found`, `fresh`, `draft` = the session's row: as the upsert's SELECT returned it, its `data_freshness` as the annotation's SELECT returned it, as written and locked; `cutReasons`, `cutRisks` = rows its DELETEs have removed and lock; `snap` = rows a waiting DELETE is after; `data`, `input` = the versions of a ticker's financials, prices and evidence, as committed and as read; `touched` (history) = tickers others have committed since the SELECT |
| `Acquisition` | one run between its ledger entry and its result: cached calls, fallback, the archive, and the upserts of one transaction, beside the clean-up of evidence | `cache` = `api_cache_entries`; `doc`, `row` = the ticker of committed `source_documents` and of the row made from them; `chunks` = `evidence_chunks`; `dirty`, `held` = writes of the session, not flushed and not committed; `sweep` = the clean-up; `archived`, `met`, `swept` = histories |
| `Accounts` | the `/me` requests of one user | `profile`, `prefs`, `watch` = rows of `users`, `user_preferences`, `watchlists`; `read` = what the session has loaded; `known`, `pos`, `pending` = an import's tickers, place and uncommitted inserts; `met` (history) = what was as the request wants it |
| `AccountPromise` | what those requests promise | abstract; `Accounts` implements it |
| `Chat` | `POST /chat` and `POST /me/chat-sessions` with their providers | `owner`, `messages` = `chat_sessions`, `chat_messages`; `draft` = an inserted, uncommitted session; `calls`, `turns` = attempts and tool turns; `reply` = the answer so far |
| `ChatPromise` | what those requests promise | abstract; `Chat` implements it |
| `Scoring` | `factors.py`, `engine.py` as operators | no state |
| `Listings` | the SQL and the Python of the lists as operators over tables | no state |
| `Readiness` | the maintenance checks as operators | no state |
| `Tables` | the absent value and orders the three share | no state |
| `Decisions` | the statements and checks an answer is made of, with commits of others in between | `db` = the tables; `got` = what the handler has read; `answer`, `shown` = what the client has |
| `MC*` | instances for TLC | |
| `*Proofs` | theorems: of `IngestionRuns`, `BatchLocks`, `KrxTechnicals`, `ScoreRefresh`, `Acquisition`, `Accounts`, `Chat`, `Decisions` | |

Correspondence, as far as it is not evident from the comments in the modules:

**IngestionRuns.** A job is one `_run_ticker` in one invocation; a retry is
another job with the same request; the time an invocation spends on earlier
tickers is time the job spends before its lookup. One action is one statement
or one transaction; a `SELECT ... FOR UPDATE` and the UPDATE that commits with
it are one action, as the row is locked in between (waiting for the lock is
waiting for the action). The SELECT and UPDATE of `mark_failed_by_run_id` are
one action because nothing between them depends on what was read.
`started_at` is an age counted up to `MaxAge`, the invocation's running time is
`elapsed`. The archive is assumed to be configured. `_run_ticker` hashes the
request's explicit `run_id` into `input_hash`, but the service accepts any
pair, and so does the model: `Requests` is a constant, and the runs use all pairs.

**BatchLocks.** The batches are overlaps or retries of one scheduled request,
so a ticker names its run and its hash. `partial_failed` is merged with
`failed`, both restartable. The database aborts some transaction of a circle of
waiting (`Victim`), which the code turns into a failed result after a rollback.
Invocations die at any point (`Kill`).

**KrxTechnicals.** A transaction covers one payload item: an ingestion commits
with its run's mark, a bootstrap with the next provider call or at its end.
The order of statements differs (ingestion: SELECT, flush, refresh, flush,
commit; bootstrap: SELECT, refresh, flush, commit) and is kept. An UPDATE is
issued only when a column changes, as the unit of work does. `Abort` is a
rollback, a kill, a deadlock victim or a unique violation. Metrics are
represented by the sample they are computed from; the arithmetic is left out.

**ScoreRefresh.** A job is the transaction from the first SELECT of
`materialize_recommendation_scores` to the commit of
`handle_refresh_score_snapshots_event`; the provider batch before it has
committed, and other ingestions are `Ingest`. Its request says which tickers
are materialized and whether they are annotated (`refresh`), not annotated
(`bare`: no ticker and no selector in the event) or only annotated
(`annotate`: the ingestion failed for every ticker). `_score_input` reads
financials, prices, evidence and risks in four SELECTs (`ReadPart`, `ReadRisks`),
and an ingestion may commit between any two: what a score is computed from is a
version of each part, not one version of all. The annotation SELECTs the score
rows again (`Load`). The materializer has let go of its rows by then and the
session's identity map is weak, so that the SELECT returns them as flushed by the
job or as committed by whoever was last; when the noted status is there already
no UPDATE is issued and no lock taken. A DELETE is two actions:
it takes its snapshot, waits for a transaction that is deleting the same rows,
and removes those that are still there; what others have inserted meanwhile
stays. An UPDATE writes the columns that differ from those the session has
read, and is not issued when none does. A score is the reading it was computed
from; three reasons are one row with its writer, risk rows are the
set of their writers. A statement the unique indexes refuse has no action but
`Abort`, which is also a deadlock victim, an exception and a kill. With
`autoflush=False` the new reasons and risk rows are inserted by later flushes;
no other transaction can tell, so `Insert` has them together.

**Acquisition.** A run is one `_run_ticker` after `start_or_restart_run` has
said that it executes. A call is a cache key; `Feed` says what the provider
answers to it, and every attempt may fail instead. `cache.set` commits by
itself, so an entry is visible to others at once; two runs that both saw no
entry and both insert it end with one failed run, because the `except` uses the
session before a rollback. The payload is archived between the last call and the
first upsert; the archive may refuse it, and the run fails (`Archive`). Below that
is one transaction: `dirty` holds
what the unit of work has not flushed, a flush issues its statements in any
order (primary keys are random UUIDs), `held` holds what is flushed and so
locked. A SELECT finds what is committed or flushed. A new document is flushed
at once, a new chunk in a savepoint, a new row with the next flush; the
disclosures are flushed before the statements. A value its column refuses (a
disclosure type of more than 100 characters, a NUL in a text: `Unfit`) fails the
flush it is in, and is not the IntegrityError the savepoint recovers from
(`DataError`). A document
or row the session has found is written with the ticker only when that differs
from what was read: this is why two overlapping runs can leave a document and
its row with different tickers (`OwnersAgree` says only they can). An item's
content is taken to determine its key; the KRX, NAVER and OpenDART calls all
pass an `external_id`, so the lookup by content hash then finds nothing new. Of
a market-wide price list a run keeps the items of its own ticker (`Keeps`,
`Kept`) and passes over the others one by one (`Skip`).

**Accounts.** Rows of two users never meet, so one user stands for all. A
request is one action per statement that another request can come before:
authentication (SELECT, INSERT, re-SELECT after a conflict, UPDATE from the
token's claims), then the handler. A commit is part of the last statement
before it; `expire_on_commit` makes the next access a read, hence `Reload`,
`Refresh` and `List`. An import inserts item by item in savepoints and waits for
a rival's uncommitted insert of the same ticker; a circle of such waits ends
with a `Victim`. An UPDATE or DELETE of an item that is gone (or is another row
by then) is an error, as SQLAlchemy counts the rows. What has been asked for is
an input; the nickname stands for all fields of the profile.

**Chat.** The request reads its data, composes (an answer that is not allowed by
the policy is composed here and asks no model), asks the provider, checks,
normalises, and stores. Its first database session is closed before the model is
called; the second one begins with `find`. The insert of a session id another
user has taken since is a conflict, of one's own a plain continuation. What the
guards can tell of an answer is a record of five fields; the runtime behind
AgentCore runs its tools for at most `MaxTurns` and returns only answers of the
forms `RuntimeAnswers` lists. A request that sends no session id gets a fresh
one, which stands for itself.

**Scoring.** Numbers are fixed-point: thousandths of points for scores,
fractions for ranks. The sums over components, confidences and penalties are a
recursive function over the length of the list (`Sums`), as the loops of `sum`. Weights and thresholds are those of the code; rounding to a
decimal is modelled except for half-way cases. Deliberately not claimed, because
the code does not promise it and it is false: that a valuation rises with net
income (a small profit adds a bad PER to a good PBR), and that dropping data
never raises a component.

**Listings, Readiness, Decisions.** Tables are sets of records with the columns
a filter, an order or a gate looks at. SQL orders that do not end in a key
(`SortedRows`) are every order they admit. The candidates list and the evidence
list with chunks alone run in SQL, the recommendations and the mixed evidence
list in Python, as in the code. One action is one statement or one check of the
gate; a commit of the materializer, an ingestion, the clean-up or a run may come
between two. The egress check takes its URLs from the settings and not from the
secret the readiness check has loaded, as the code does.

## 3. Runs

| Run | Question | Bounds |
|---|---|---|
| `ledger_safe` | do the start protocol, the marks and the reconciliation keep one executor per run and input, successes final and backed, and implement `RunLedger`? | 3 jobs, 2 run ids, 2 hashes, all 4 requests, 1 reconciler, timeout 1 tick, stale after 2 |
| `ledger_progress` | does every started row end, who leaves one behind, and does the input index hold when live runs are reclaimed? | 2 jobs, timeout 1 tick, stale after 1; fairness |
| `replay_policy` | is an input that has succeeded always replayed? **No** (section 5) | 3 jobs, no reconciler |
| `krx_metrics` | are metrics computed from full windows, is the latest row right after a transaction that overlapped none, do ingestions lock in one order? | 3 transactions, 3 dates, closes none/1/2, window of 2 rows |
| `krx_bootstrap` | does a bootstrap give the latest row its metrics? **No** (section 5) | the same |
| `batch_locks` | where are locks held, when can batches deadlock, does every batch end? | 2 batches, 3 tickers in both orders, every mixture of earlier statuses; fairness |
| `score_refresh` | do overlapping refreshes double rows, deadlock, fail by themselves, or leave rows of two pieces? | 2 refreshes of 5 kinds, 2 tickers, 2 providers, an OpenDART ingestion (financials and disclosures) of one ticker, any earlier rows with one set of providers |
| `score_providers` | do the providers of a day's refreshes accumulate? **No** (section 5) | the same |
| `acquisition` | what is stored, what can fail a run, whose is the evidence? | 2 runs, 10 pairs of requests over shared calls and items, 3 tickers, 10 items (2 of them unfit), 2 attempts, 1 expired entry at a time |
| `accounts` | which requests can fail, and are they whole? | 3 requests in 57 combinations, 3 tickers (one without a stock), a list with one item |
| `chat` | who sees what, which answers are shown, are exchanges whole, does every request end? | 2 requests of 6 kinds, 2 users and a guest, 1 shared session id, 6 deployments, 7 answers, 5 evidence items |
| `decisions` | are ranks, scores, lists and the gate right? | about 10 700 pairs of tables and question, 1 commit of others |

Why the bounds are enough to be interesting: three jobs give an executor, a
rival and a job that reclaims; two runs and two hashes are needed for "same run,
other hash" and "other run, same hash". Two ticks separate `LambdaTimeout` from
`MaxAge`. A window of two rows stands for 21: there are tables with fewer,
exactly as many, and more rows than the window; three dates allow a new latest
row, a correction of the latest and a correction of an earlier one. Two batches
in opposite orders make the circle of waiting. The counters are bounded by the
model: ages saturate at `MaxAge`, elapsed time at `LambdaTimeout`. Two
refreshes over two tickers in one order are what a circle of locks needs, and an
ingestion that commits two parts at once, between two SELECTs of a reading, gives
scores of mixed versions and lets one refresh find a row unchanged while the
other changes it. The pairs of `acquisition` are chosen one per way
two runs can meet: over a cache key, a news URL, a disclosure with two tickers,
a price list that holds both tickers, and not at all; one answer repeats an
item, one run lacks its credentials, and one pair meets values that a row and a
chunk refuse. The triples of `accounts` put every
kind of request beside every kind that can meet it, and imports in opposite
orders beside a removal. The seven answers of `chat` are one for each way a
guard or the normalisation can treat one. In `decisions` four rows give ties of
two and three and a sector of one; the lists have three stocks, two scores of
one, undated and mock evidence, and pages of one and two; the gate has more
pairs than its limit, equal, and fewer, and the run that starts meanwhile is a
new one or the restart of one the gate may have seen.

**What the constants must satisfy** is stated in named assumptions, which TLC
evaluates for every instance and the proofs use. In `Acquisition`:
`AsksAssumption` (an OpenDART run makes two calls, the others one; only its
financial statements have years), `CacheKeysAssumption` (a cache key names its
call: the clients build it from the operation, ticker, years and division),
`WarmAssumption` (statements were cached as complete by a call that had rows for
each year: `data_status` is `available` only then). In `Decisions`:
`StartsAssumption` and `NewRowsAssumption` (primary keys and unique constraints
of the tables, which columns may be NULL, and the bounds of the request models:
a confidence in [0, 1], a penalty and a limit not negative, the first page at
offset 0), `NoneAssumption` (NULL is no value). Those of the other modules say
that times, dates and tickers are numbers and that names differ.

`CHECK_DEADLOCK FALSE` stands in the cfgs of the modules whose systems stop when
every transaction, batch, request or question is done: all but `IngestionRuns`.

**Timing.** `SafeTiming` (`LambdaTimeout < MaxAge`) is what the operators
guarantee: the function's timeout is 30 s by default
(`infra/terraform/variables.tf:36`) and the reconciliation refuses less than a
minute and defaults to 60 (`status.py:166`); the timeout may be configured up
to 15 minutes, so the hypothesis is explicit. The runbook also asks that no
invocation be running. `OneReconciler` is needed as well: two overlapping
reconciliations may both read a stale row, and the second fails a run that was
restarted in between. `ledger_progress` drops the timing, so that live runs are
reclaimed, and shows that the input index holds on its own.

**Fairness.** A job's own steps are weakly fair: Lambda runs an invocation until
it returns or is killed (`Kill` is never forced or forbidden). That started
runs end after a death holds only if operators reconcile, so `StartedRunEnds`
has that as its premise: weak fairness of the clock and of the SELECT, strong
fairness of the write, because dry runs may come in between. In `BatchLocks` a
batch's step is weakly fair, which includes PostgreSQL resolving deadlocks;
waiting for a row lock disables the step. In `Accounts` the same holds for a
request's step. In `Chat` a request's step is weakly fair because every call it
waits for has a timeout (`CallFails`); a kill is never forced.

## 4. Properties and proofs

| Property | Says | TLC | Proved |
|---|---|---|---|
| `OneExecutor` | no two jobs execute one run or one input | `ledger_safe` | under `SafeTiming`, `OneReconciler` |
| `SucceededIsBacked` | a success has its own job's data, input and archive | `ledger_safe` | same |
| `ReplayIsBacked` | a replay points at a success | `ledger_safe` | same |
| `SuccessIsFinal` | nothing changes a succeeded row | `ledger_safe` | same |
| `LiveRunsAreSpared` | only its own job ends a live run | `ledger_safe` | same |
| `ImplementsRunLedger` | refinement | `ledger_safe` | same |
| `HashOwnedOnce` | no two live or succeeded rows of one input, any timing | `ledger_progress` | no hypothesis |
| `StuckOnlyAfterDeath`, `StartedRunEnds` | liveness | `ledger_progress` | TLC only |
| `MetricsNeedFullWindow` | metrics come from a full, positive window that ends at their row | `krx_metrics` | any dates, closes and window |
| `QuietRunRefreshes` | a transaction alone leaves the latest row right | `krx_metrics` | no hypothesis |
| `IngestionsWaitInDateOrder` | no circle of waiting among ingestions | `krx_metrics` | no hypothesis |
| `NoLockWhileWorking`, `InOrderNoDeadlock` | locks and deadlocks of batches | `batch_locks` | any number of batches and tickers |
| `EveryBatchEnds` | liveness | `batch_locks` | TLC only |
| `RisksFollowReasons` | overlapping refreshes never double the risk rows | `score_refresh` | any number of jobs and tickers |
| `RefreshesDoNotDeadlock` | refreshes of rows that carry a provider do not wait in a circle | `score_refresh` | any number of jobs and tickers |
| `RefusalsNeedARival` | a refresh is refused by a unique constraint only at a ticker another has committed meanwhile | `score_refresh` | any number of jobs and tickers |
| `RefreshIsWhole` | score, freshness and reasons of a ticker nobody else has committed meanwhile are of one reading, its provider noted; after renewing the freshness, that much even in an overlap | `score_refresh` | any number of jobs, tickers and ingestions |
| `StoredIsAnswered` | a success rests on answers for every part of its call, and nothing stored is a fallback | `acquisition` | any runs, items, answers and cache keys |
| `FailuresNeedARival` | a run alone whose payload is archived, repeats no item and fits its columns does not fail, whatever cache, store and provider hold | `acquisition` | any runs, items, answers and cache keys |
| `OwnersHaveEvidence` | the ticker a row names has its evidence, but for the clean-up's window | `acquisition` | any runs, items and answers |
| `ErrorsNeedARival` | a request of a user fails only beside one that can make it | `accounts` | any requests, tickers and values |
| `KeepsPromise` (`Accounts`) | refinement: requests take effect once and whole | `accounts` | any requests, tickers and values |
| `EveryRequestEnds` | liveness, circles of imports included | `accounts`, `chat` | TLC only |
| `SessionsArePrivate` | a session shows its user only their own exchanges | `chat` | any users, sessions, requests |
| `ShownAnswersAreGrounded` | a model's answer that is shown passed every guard, retried or not | `chat` | any answers and settings |
| `CitationsAreEvidence` | citations are evidence of the request, none twice | `chat` | any reasons, evidence and limits |
| `KeepsPromise` (`Chat`) | refinement: exchanges are stored whole, once, before the answer | `chat` | any users, sessions, requests |
| `RanksMatchReference` | ranks are the share of rivals beaten, ties counting half | `decisions` | any rows, directions and partition sizes |
| `ScoresAreSound` | range, monotone in risks, news and operating income; reasons are the best three | `decisions` | any figures, prices, evidence and risks |
| `ListsAreFaithful` | an undisturbed walk over the pages is complete, a recommendation is backed; takes no side on stocks without risk signals (section 5) | `decisions` | any tables, filters, limits and commits |
| `GateIsHonest` | the gate opens only on what holds, and opens when it does | `decisions` | any environment, runs, pairs and limit |

The inductive invariants (`IInv` in each module; the runs of `IngestionRuns`,
`KrxTechnicals`, `BatchLocks`, `ScoreRefresh`, `Acquisition` and `Chat` check it
too, that of `Accounts` has no run of its own, and those of `Decisions`, one per
kind of question, stand in its proof module):

* **IngestionRuns.** `OneExecutor` is not inductive: nothing in it says why a
  mark cannot hit a row that was reclaimed and restarted. `ExecutorOwnsRow`
  does: while a job executes, its row is `started`, carries its hash, and is
  *no older than the invocation*. With `SafeTiming` an executing job's row is
  then never stale, so the reconciler does not select it; `PickedIsStale`
  carries this over to the moment it writes, which is where one reconciler is
  needed. `RowsNotShared` and `HashOwnedOnce` give the rest. The proof reduces
  the thirteen job actions to four forms (moves, starts, archive, ends) and has
  one lemma per form. The refinement follows from the same forms.
* **KrxTechnicals.** `RowsLockedOnce`; `IngestionWritesUpwards` (what an
  ingestion has yet to write lies at or after what it holds), from which the
  order of waiting follows; `QuietViewHolds` (while a transaction is alone the
  committed row is as it found it and what it plans is the metrics of what it
  sees), from which `QuietRunRefreshes` follows at the commit.
  `PlansNeedFullWindow` (a planned sample is a full window that ends at a row
  which is committed or the transaction's own; committed rows stay) gives
  `MetricsNeedFullWindow`.
* **BatchLocks.** `HoldsOnlyPassed`: the rows a batch holds are those of tickers
  before its position, or the one it is restarting. With ascending lists
  whoever waits, waits for a ticker above all it holds; a set of batches in a
  circle has one whose awaited ticker is least, and that one is itself waited
  for with a lower one: contradiction. The least element comes from the
  well-foundedness of `<` on the naturals.
* **ScoreRefresh.** The risk rows have no unique index. What protects them is
  that a refresh gets past its INSERT of the reasons only if it has deleted the
  committed ones, or the score row is its own: it `Owns` the ticker, and
  `PassedIsOwned` says that the risk rows it has deleted are then all there
  are. `RowsLockedOnce` makes ownership exclusive, `SessionRowsExist` ties the
  session to rows that cannot vanish. One lemma (`StepKeeps`) covers every step
  that commits nothing; the commit is proved on its own. For deadlocks,
  `LocksFollowLoop`: tickers come in ascending order, and a refresh whose rows
  carry a provider has written, and so locked, the score row of every ticker it
  has come to, because the upsert always drops the providers. Then it can only
  wait at an upsert, for one that is at a later ticker if it waits as well.
  `SightIsCurrent` (a selected row is as it was found, unless its ticker is
  `touched`) gives `RefusalsNeedARival`. A further session invariant
  (`SessionsAreRight` in the proof module) says what the job's row holds at each
  of its statements: of its reading, of the row its first SELECT returned and of
  the freshness its second SELECT returned, for untouched tickers and for renewed
  ones. `RefreshIsWhole` follows at the commit: the columns an UPDATE leaves out
  are those it would have written.
* **Acquisition.** `IInv` is proved in layers, each by itself inductive given
  those before it. `FetchInv`: what is cached, noted and received rests on
  answers of the provider, and says so where a part of its call has none;
  `StoredIsAnswered` follows. `Inv`: `SessionIsWhole` (outside the upserts a
  session is empty, a row it writes comes with its document and, for a chunked
  item, with the chunk of the run's own ticker, and a row of which it does not
  write the ticker is stored), `WritesAreExclusive` (flushed rows are locked once),
  and `SweepIsExcused` (what the clean-up has selected and not yet committed is
  not of the owner, or of one that committed since); a commit then stores an owner
  only together with its evidence. `PlacedInv`: what a session writes is of items
  it has passed, once each, and actors that overlap have met. `SightInv`: what a
  run has seen of the cache and the store is still so, or a rival it has met
  shares the call or the item with it; the only failures a run can make for itself
  are an unregistered ticker, a refused archive, a repeated item and a value a
  column refuses (`ArchiveComesFirst` ties the second to the archive), hence
  `FailuresNeedARival`.
  `OwnerInv`: a document and its row name one ticker unless runs of two tickers
  contest them. The steps of a run reduce to five forms (fetches, proceeds,
  writes, flushes, ends), the commit and the clean-up.
* **Chat.** That a session shows only its user's exchanges needs the owner of a
  session at the moment of the commit: `TransactionsAreReady` says the
  transaction has found its user's session or drafted it, `DraftsAreExclusive`
  that a drafted id is still nobody's (the unique index makes the rival wait),
  and `MessagesArePlaced` that messages sit in the session their request named.
  `AttemptsAreCounted` ties attempts to the provider, so that retries end.
  `CitationsAreEvidence` needs what the selections of the normalisation return:
  each keeps a part of the evidence read, and none keeps an item twice. The
  refinement of `ChatPromise` follows step by step: the commit is `Store`, the
  answer is `Answer`, everything before is a stutter.
* **Accounts.** `PendingIsExclusive` (a savepoint's insert makes the rival wait,
  so that no two uncommitted inserts are of one row), `HandlersAreReady` (a
  handler runs only for a user row that is there, with what it read), and
  `NothingIsLost` (what a request leaves out was, at some moment of the request,
  as it wants it: `met`). The refinement of `AccountPromise` has four forms: a
  step it does not see, a failure, an effect on some of the targets, and an end
  with nothing left to do. For `ErrorsNeedARival`, a request is `Doomed` when its
  next statement is bound to fail; only a removal makes an item vanish and only a
  PUT inserts or changes preferences, so that whoever is doomed by another has a
  rival that has begun (`OnlyRivalsDoom`), and a rival that has begun remains one.

* **Decisions.** An answer is computed from one or several reads, so each kind of
  question has an invariant of what has been read and, once there is an answer,
  what the answer is.
  *Gate* (`GateInv`): what the probes found is exact for the environment, which
  does not change; the runs keep unique ids, and a succeeded run the gate has seen
  is there for ever. So an open gate's runs still hold when it opens. A run is of
  one pair, hence the pairs that have one inject into the runs shown, and more
  pairs than the limit leave a blocker.
  *Ranks* (`RankInv`): a finite strict total order gives each element its own
  place (`ElementsArePlaced`), so the sorted peers are what the order says, the
  ties of a row stand between the better and the worse ones, and the mean of their
  first and last place is the share of the rivals beaten.
  *Scores* (`ScoreInv`): each component is a monotone function of the figures it
  uses (division rounds down and `Clamp` cuts, both keep order; the step from a
  loss to a profit in `IncomeScore` does too), sums of lists compare term by term,
  and one news item more adds at least what it can take from the mean confidence.
  The reasons are the first three of a total order of the eight components.
  *Walks* (`WalkInv`): the keys order the rows with a unique last component, what
  has been shown are the first elements of the list, and there is more exactly
  while offset + limit < total; a list that nobody has disturbed has the keys the
  table promises.
  *Recommendations* (`RecommendInv`): one score per ticker, date and version; rows
  that passed the gate keep the evidence the gate saw, and without a commit in
  between they are the best of the candidates.

The library's induction theorems cannot be instantiated by the installed provers.
Where a proof needs induction (sums, cached years, places in a list) it takes the
least counterexample, from the well-foundedness of `<`, or counts a finite set
and an injection of it. What is left to TLC is liveness under fairness
(`StuckOnlyAfterDeath`, `StartedRunEnds`, `EveryBatchEnds`, `EveryRequestEnds`) and
ENABLED: every invariant and every action property of a passing run is a theorem.

## 5. Where code and documents differ

* `replay_policy`: `docs/engineering/DB_SCHEMA.md:314` promises a replay for an
  input that succeeded under another run id. `start_or_restart_run` looks the
  input up only when no row has the requested run id; a failed row of that id
  is restarted, and the commit (line 130) fails on the unique index. The caller
  gets a failed result. The run shows it: the first job fails under one run id, a
  second succeeds with the same input under another, and a retry of the first
  fails. (The batch's own requests cannot do this, the service's
  interface can.)
* `krx_bootstrap`: the runbook promises metrics on the latest row once 21 rows
  exist. The bootstrap adds a row and refreshes without a flush; production
  sessions do not autoflush, so the refresh does not see the row, and the newest
  row stays without metrics. The ingestion path flushes first and is right. The
  test passes on a session with autoflush.

* `score_providers`: the runbook runs one refresh per provider and expects
  `data_freshness.providers.<provider>` on the rows (`:304`, `:313`). The
  annotation merges into the providers it finds, but the materializer of the
  same transaction has just replaced `data_freshness` without them: after the
  second provider's refresh the first one is gone. Keeping them in the
  materializer alone would not do: a refresh that changes nothing then issues
  no UPDATE and locks no row until it annotates, and two refreshes can deadlock
  (the mutation `MutMaterialized`). A related gap has no run of
  its own: a refresh whose upsert changes nothing, on a row without providers, and
  whose annotation finds its provider noted by another refresh meanwhile, issues
  no UPDATE and locks no score row. An annotation alone that had SELECTed the row
  before may then write its own dictionary over it, and the refresh commits
  without its provider. It takes three overlapping refreshes; `RefreshIsWhole`
  therefore promises the provider only for untouched or renewed rows.

* *Stocks without a risk signal*: `docs/engineering/SCORE_ENGINE.md:133-140` lists
  "At least 1 risk signal" among the checks a stock must pass to appear in
  `GET /v1/recommendations/candidates`. The code has no such check
  (`candidate_service.py:385-418`, `_passes_evidence_gate`), and
  `tests/test_evidence_gate.py:48`
  (`test_candidate_list_allows_rows_without_risk_signal_gate`) demands that such a
  stock be listed. Document and test contradict each other, which no run can
  settle: the model lists such stocks, as the code does, and `ListsAreFaithful`
  demands the presence only of candidates that have a risk signal.

## 6. Plan

Everything the survey named as core logic is modelled, and every safety property
of the runs is proved. What is left: the liveness properties, which stay with
TLC; a second look at the largest leaves of `AcquisitionProofs` and
`DecisionsProofs`, which take most of the provers' time; and the parts of
section 7, should they get a protocol of their own.

## 7. Not modelled

* *Scripts, Terraform, migrations, seeds*: run once or by hand, without a
  protocol; what they fix for the system (timeouts, schedules, unique keys) is
  in the models.
* *Configuration, dispatch and wording*: settings other than those section 2
  names, the maintenance handler's dispatch, logs, disclaimers, texts, prompts.
* *Parsing and cleaning of payloads and events*: functions of strings without
  state, unit tested. What an answer comes to (items, none, an error status) is
  modelled.
* *The patterns of the chat guards*: a guard is what it decides, not how.
* *Single reads*: stock detail, latest price, candidate detail, meta.
* Of the modelled parts: the stocks master rows the bootstrap upserts, locks a
  bootstrap holds over several tickers, the choice of a batch of tickers by
  universe and market, the locks a replayed batch carries into the refresh that
  follows it, the arithmetic of the 20-day metrics, half-way cases of rounding,
  the call log, and the connection pool.
