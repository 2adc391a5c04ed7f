# Formal models of the crawling service

TLA+ modules, TLC configurations and TLAPS proofs about the service under `src/app/`: one FastAPI
process that crawls web pages for registered *sources* (monitoring) and for single URLs (instant
crawls), stores each page as a versioned document in Postgres, learns per domain how to fetch it
politely, and tells what changed.

Everything runs in one asyncio event loop over one database. What makes the system hard is therefore
always the same thing: a coroutine reads a row, awaits, and acts on what it read, while other
coroutines did the same. Sessions, `SELECT ... FOR UPDATE`, one unique index and the order of
commits are all that keeps this straight; the models are about those.

## 1. The parts of the system

| Part | State it keeps | Operations | Talks to | Hard behaviour | What makes it correct |
|---|---|---|---|---|---|
| Crawl jobs (`crawl_repository.py`, `crawl_engine.run_crawl`) | `crawl_job` rows: status, source | create, mark_started, mark_finished, request_cancel, finalize | scheduler, API, registry | tasks outlive or die before their row | a row being worked on is active; every job reaches a terminal status; one crawl per source |
| Scheduler (`scheduling/scheduler.py`) | the tick's local lists | list due, slice, check, create, launch | jobs, registry, sources | awaits inside the tick, restarts, errors | the cap holds; a due source is served |
| Registry (`crawling/registry.py`) | job id -> asyncio task | register, cancel, done-callback | scheduler, cancel handler | memory only: lost at restart | a slot comes back whatever ends the task |
| Cancel, create, search handlers (`api/v1/`) | - | POST crawl, POST cancel, instant search | jobs, registry | read, decide, write in separate statements | cancelling ends in a terminal status |
| Domain policy (`domain_policy_service.py`, `record_fetch_outcome`) | policy columns of `fetch_strategy_stats` | gate, update after outcome | page tasks of all crawls | concurrent writers, late outcomes, stale snapshots | no outcome lost; the breaker opens, probes and closes; bounded politeness |
| Document store (`document_repository.py`, second half of `_process_page`) | `document`, `document_version`, `change_record` | find-or-create, update, unchanged | monitoring events | creation race, lost update, stale fetch | gapless versions; a race costs one retry |
| Source monitoring (`source_repository.py`) | `source_urls` JSONB list, `monitoring_events`, interval | record success/failure, add_event, reschedule | page tasks, scheduler | all URLs of a source in one value; two commits per transition | REMOVED exactly at the threshold, once; no entry lost |
| Crawl loop (`run_crawl`, frontier, budgets) | request queue, in-flight page tasks, counters | fetch next, start page, collect, drain | page tasks | budgets read before an await, orphans | the budget is kept; nothing runs after the verdict |
| Intelligence (`services/intelligence/`, `intelligence_repository.py`) | entities, aliases, mentions, stories | resolve, mention, choose a story, attach | document rows | lock order and deadlock, candidates read without a lock, swallowed database errors | one entity per name; no document lost from its story; nobody waits for ever |
| Domain and pattern learning (`domain_profile_service.py`, `fetch_router.py`, `crawl_repository.py`) | counters of the stats rows, buckets per page type, rollups | advise HTTP or browser, count an outcome, health | page tasks | two transactions per outcome, advice read long before it is used | counters add up; a site that needs a browser is learned to need one |
| Fetchers (`fetchers.py`, `browser_scroll.py`) | process-wide browser slots | HTTP with redirects and Retry-After, browser, scroll | the network | failures while a slot is held, redirects mixed with retries | bounded requests; slots come back |
| URL security (`url_security.py`) | none | validate URL, pin address | DNS | its exception is none of httpx's | pure filter |
| Failure classification | none | category of a failed fetch | policy, monitoring, learning | - | decision table |
| Extraction, page classification, change detection | none | functions of a page | page tasks | thresholds, fallbacks, what a comparison ignores | what is stored is what the page told last |
| Deduplication, normalization | none | functions of a text or URL | - | - | heuristics |
| Discovery (`discovery/`, probes of `preflight/`) | the discovery columns of the stats row | robots, sitemap walk, feeds, pagination | crawl loop | cyclic indexes, limits at several levels, lost files | ends within bounds; complete unless it says otherwise; listings are read page by page |
| Preflight (`preflight/`) | saved reports | probe a URL, sample pages, render, score | API, discovery, browser | each probe may fail in its own way | a report or an error for each request; finding more scores no less |
| Search, documents/domains/intelligence API | none | read-only SQL | - | - | - |
| Artifact store | objects keyed by hash | put | page tasks | - | idempotent |
| Events, metrics, logging | counters | publish | - | nobody reads them back | - |

`PROJECT.json` lists the same parts with their files, and under `hazards` each place where this code
can go wrong in a way a test would hardly reach, with the property that watches it; what was found to go wrong, or to be left to chance, is in section 3.

## 2. The modules

| Module | What it is |
|---|---|
| `CrawlJobs` | jobs, tasks, registry, scheduler, API handlers, restart |
| `CrawlJobs_proofs` | type correctness, `EngagedIsActive`, `OneCrawlPerSource`, `MonitoringWithinCap` |
| `CircuitBreaker` | abstract: the breaker as a sequential counter with a timer, which a failure while open may or may not restart |
| `DomainCircuit` | the stats row, page tasks that read, lock, write and commit it |
| `DomainCircuit_proofs` | types, no lost outcome, politeness, refinement of `CircuitBreaker` |
| `VersionedStore` | abstract: each URL has a list of contents, neighbours differ |
| `DocumentStore` | documents, versions, change records, events and the sessions that write them |
| `DocumentStore_proofs` | types, version order, one retry, events, refinement of `VersionedStore` |
| `SourceMonitor` | entries and events of one source's URLs, page tasks that record outcomes |
| `SourceMonitor_proofs` | types, no lost entry, events follow statuses |
| `CrawlRun` | the loop of one crawl, its request queue, page tasks and budgets |
| `CrawlRun_proofs` | types, budgets, final statistics, coverage |
| `Matching` | pure: which entity a name stands for, whether a document belongs to a story |
| `StoryLinking` | page tasks that lock entity, document and story rows and link documents to stories |
| `StoryLinking_proofs` | types and all its invariants |
| `PageJudgement` | pure: page type, choice of extractor, quality, completeness, soft blocks, need of a browser |
| `ChangeDetection` | pure: whether a page differs from the stored document, by its type |
| `Learning` | pure: counters of a domain and of URL patterns, the advice and the health drawn from them |
| `PageVisits` | page tasks that visit URLs of a domain: route, fetch, escalate, count, store |
| `PageVisits_proofs` | types and all its invariants |
| `SeedDiscovery` | robots, sitemap walk, feeds: the seeds of a crawl |
| `Preflight` | the report about one URL; extends `SeedDiscovery`, whose probes it uses |
| `Fetching` | one fetch over HTTP or with a browser that needs a slot |
| `Pagination` | pure: the next page of a listing |
| `SiteReading` | the composition of the last four: discovery or preflight, then page tasks that follow a listing |
| `SiteReading_proofs` | types and all its invariants |
| `MC...` | the same on model values, with the symmetry sets |

One action is the code a coroutine runs between two points where another coroutine can see a
difference: an await that ends a transaction, takes a row lock, or separates a read from the write
that depends on it. A local variable that survives such a point is state of the task.

Definitions whose comment begins with *Broken:* are deliberate faults. No specification uses them;
put in the place of the definition below them they must make a property fail (`mutants` in
`PROJECT.json`), which shows that the property depends on that piece of code.

### 2.1 CrawlJobs

| TLA+ | Code |
|---|---|
| `status`, `source` | `CrawlJob.status`, `.source_id`; `"absent"`: no such row |
| `monitored`, `due` | `Source.status == "active"`, `next_crawl_at` null or past |
| `task[j]` | how far `run_crawl` (or `_run_instant_crawl`) of this job is |
| `verdict` | `final_status`, decided before it is written |
| `registry` | `registry._running_tasks` |
| `interrupted` | `task.cancel()` called, `CancelledError` not thrown yet |
| `posted`, `canceller` | handlers suspended between their commits |
| `tick`, `listed`, `dispatched` | `_dispatch_due_sources` and its two lists |

`ListDue` computes the free slots once and slices the due sources in an arbitrary order (the query
has no `ORDER BY`); `SkipSource`/`DispatchSource` are the first loop, one commit each;
`LaunchMonitoring` the second. `MarkStarted`, `QueueOpened`, `LoopSeesCancel`, `LoopEnds`,
`LoopFails`, `Drained`, `MarkFinished`, `Reschedule` follow `run_crawl`; the `Guarded` phases are those
inside its `try`, where `CancelledError` is turned into the status `cancelled` (`CancelledInTry`).
Elsewhere it just ends the task (`CancelledOutsideTry`), as a stray exception does (`DiesOutsideTry`).
`Restart` clears everything but the rows. `Forget` lets the identity of a terminal row be used for a
later job; no code corresponds to it, it keeps `Jobs` finite without bounding the number of crawls.

### 2.2 DomainCircuit and CircuitBreaker

The row holds `failures`, `circuit`, `delay`, `concurrency` and the *age* of `circuit_opened_at`, which
saturates at `OpenDuration` because nothing depends on more. A page task reads the row and passes the
gate (`Admit`), sleeps for the delay and sends (`Send`), gets an outcome (`FetchEnds`), takes the row
lock with a fresh read (`LockRow`) and commits (`Commit`); it may be aborted anywhere. A page that the
gate refuses changes nothing and is a stutter. `siteUp` decides whether fetches may fail, `streak` is
the history the row has to agree with, `saw` the circuit a page saw at the gate.

`CircuitBreaker` says how failures are counted and when the clock starts. What a failure does to the clock of a circuit that is open
already it leaves open, because code and docstring differ there (section 3), as it leaves open how many pages probe: a proof of `ImplementsBreaker`
says nothing for or against either.

### 2.3 DocumentStore and VersionedStore

`Extract` picks a URL and takes the page's present content; `Find` reads the document, taking its row
lock if it exists; then either `CommitUnchanged`, `CommitUpdate`, or, for a new document,
`CheckNearDuplicate`, `Insert` and `CommitNew`. An insert waits for a concurrent insert of the same URL
(unique index); when that one commits, `InsertConflicts` goes back to `Find` once. For a monitoring
crawl the event is added in the commit of the version, because `add_event` commits the session. `Raise`
is an exception that leaves `_process_page`.

### 2.4 SourceMonitor

| TLA+ | Code |
|---|---|
| `entries` | `source.source_urls`, by `normalized_url`: `status`, `failure_count` |
| `last` | the newest `REMOVED`/`RESTORED` element of `source.monitoring_events` for each URL |
| `task[p].list`, `.news` | the copy of the JSONB list that a session is changing |
| `task[p].kind` | `just_removed` / `was_restored`, returned to `_process_page` |
| `seen`, `run`, `confused` | history, which no code reads: URLs with an outcome, failures in a row that say the page is gone, URLs whose latest announcement was lost or overtaken |

`Fetch` is a page task up to the answer of its fetch; `LockSource` and `Record` are
`upsert_source_url_success` or `record_source_url_failure` up to the commit; `LockForEvent` and `AddEvent`
are the second transaction that announces a transition. `site` is one answer for the whole web site; since
it may change between any two fetches, each URL still sees every sequence of answers. A soft-blocked page has a
good status and is a success here, as it is in the code. Two page tasks may have the same URL: two links of a
crawl may normalize to one URL, and pages left in flight by a failed crawl meet those of the next.
Left out: the events `NEW`, `UPDATED`, `UNCHANGED` (the first two are in `DocumentStore`), document ids in the entries,
the adaptive interval, deleting the source.

### 2.5 CrawlRun

| TLA+ | Code |
|---|---|
| `queue[u]`, `depth[u]` | the request of that URL in Crawlee's `RequestQueue` and its `user_data`; a URL is there once |
| `loop`, `inFlight`, `verdict` | how far `run_crawl` is, `in_flight`, `final_status` |
| `phase[u]`, `todo[u]`, `adding[u]` | how far `_process_page` is, the rest of the list it is enqueueing, the URL whose name is being resolved |
| `read`, `browser` | whose HTML was extracted; whose fetch is, or was, the browser's |
| `attempted`, `discovered`, `paginated`, `browsed` | `RunStats` |
| `NextPage`, `Items`, `Links` | what pagination, item listing and link extraction find on a page, after the domain and sink filters |

`CheckCancelled`, `StartPage`, `Filled`, `Collect`, `Drained` are the `while` loop; `LoopRaises` and `Thrown` its two
`except` clauses, after which page tasks in flight run on alone. `Route`, `Escalate`, `Extracted`, `Resolve`, `Enqueue`, `Store` are the
places where a page looks at a budget or uses it up. The queue gives out pending requests in any order. `Raise` is any unexpected
exception of a page, `FileNotFoundError` of the queue after its three attempts included. The same task phases appear in
`CrawlJobs` as one page budget; the two modules share `final_status` and the cancel request, and what a page writes
to the database is in 2.2 to 2.4, 2.6 and 2.7.

### 2.6 StoryLinking and Matching

| TLA+ | Code |
|---|---|
| `rows`, `aliases`, `mentions` | `Entity` rows by normalized name, their aliases, `Document.entity_mentions` |
| `attached`, `story` | `Document.attached_story_id`; `Story.story_documents`, `.story_entities` |
| `holder` | the transaction that has a row locked, or has inserted it |
| `cache`, `subject`, `wants` | `type_cache`, the `ResolutionDecision` of the present name, the row locks it still needs |
| `created`, `also`, `resolved` | what the session has written and not committed |
| `chosen`, `listed` | the story, and the document list read under its lock |

`Resolve` decides on one name from the cache, which was filled without locks; `Lock` grants one row lock and reads the row afresh (or
inserts it, `get_or_create_entity_locked`); `Record` adds the mention. `ChooseStory` is candidate generation and scoring, which reads
what others have committed; `Attach` rewrites the story and the document and commits. `Fails` is an error the database has no part in:
what was written so far is committed by `Rest` with the page. `Victim` is the database ending a circle of waiting tasks: its error is swallowed, and
`NextStatement` and `Raise` are what follows. `Matching` has the decision tables of `entity_resolver.py` and `match_scorer.py`; how similar two
texts or times are is any of `Texts`.

### 2.7 PageVisits, Learning, PageJudgement and ChangeDetection

A *view* is a response reduced to what the code decides on: declared type, length of text, markers, what each extractor
would find in it. A *face* is what a URL answers to HTTP and what it shows in a browser. On views, `PageJudgement` is
`classify`, `extract_for_page`, `score_extraction`, `score_completeness`, `assess_javascript_dependency` and `detect_soft_block`, with the thresholds of the source.
`ChangeDetection` is `detect_change`. `Learning` is `record_fetch_outcome` and `record_pattern_outcome` (as one function from an outcome
to what it adds to each counter), the rollup, `_decide_from_stats`, `decide_routing` and `compute_health_score`; scores are thousandths, and an average is kept as its sum and count.

A task of `PageVisits` goes through `ReadDomain`, `Route` (which reads the pattern and the browser budget), `Fetch` with extraction, `Escalate`,
`RecordFetch`, `RecordPattern` and `Store`: one action per transaction or fetch. The versions of a document, the entries of its source, the domain's circuit and
the request queue are those of the other modules and are left out here; `documents` is the latest content alone.

### 2.8 SiteReading: SeedDiscovery, Preflight, Fetching and Pagination

`SeedDiscovery` keeps the recursion of `discover_sitemap_urls` as a stack of calls (`walk`), so that every file is a step that may fail on its own.
`Preflight` extends it, because the preflight service calls the same probes; `purpose` says which of the two is running. `Fetching` is one fetch for
each task: requests, redirects and the one wait for Retry-After per URL, or a browser between `Acquire` and the release of its slot, scrolling.
`Pagination` is `detect_pagination` over what a page shows: a rel=next, a text link, numbered links, offsets. A listing is a row of pages each of which
names the next (`NamesNext`: by a link, or as the nearest offset ahead), which `ListingAssumption` demands of the sites. `SiteReading` composes them with a queue of URLs:
`Discover` and `Assess` run a step of a probe, `StartCrawl` enqueues the seeds, and tasks fetch pages and follow listings (`Follow` and `Enqueue` are the two halves
of `_safe_enqueue`). Left out: robots rules for single paths, the lengths of texts, and the saving of a preflight report, which may fail; numbered links that lead to one page count once.

## 3. What the runs check

| Run | Instance | Shows |
|---|---|---|
| `CrawlJobs_safety` | 3 jobs, 2 sources, cap 2, one cancel request, one restart; symmetric | `EngagedIsActive`: whoever is going to write a row finds it active. `OneCrawlPerSource`: in spite of the window between `mark_finished` and `reschedule`, cancel requests and restarts. `MonitoringWithinCap`: although slots are counted before the awaits |
| `CrawlJobs_progress` | 2 jobs, 1 source, cap 1, one each of instant crawl, cancel request, stray exception, page failure | `SlotsComeBack` always; `JobsFinish`, `DueIsServed` where no cancel request and no stray exception has interfered |
| `CrawlJobs_cancel_stuck` | 1 job | *fails*: a cancelled job may stay `cancelling` for ever |
| `CrawlJobs_restart` | 1 source, one restart | *fails*: the source of an interrupted crawl is never crawled again |
| `DomainCircuit_outage` | 2 pages, thresholds 2 and 3, Retry-After beyond the ceiling | `RowTellsStreak`, `PausesWhileFailing`, `ImplementsBreaker`, `Recovers` |
| `DocumentStore_store` | 2 URLs, 2 bodies, 2 pages, one change, one abort | `VersionsInOrder`, `EventsTellVersions`, `RetrySuffices`, `ImplementsHistory`; `Converges`: a stale fetch may be stored late, but not for good |
| `DocumentStore_duplicates` | 3 URLs with one body | *fails*: the third URL with a body makes the crawl fail |
| `SourceMonitor_entries` | 2 URLs, 2 pages, threshold 2, answers 200, 404 and 429, one abort | `EntriesTellHistory`, `EventsTellStatus`, `StatusConverges` |
| `CrawlRun_pages` | 4 URLs (one off-site seed), 2 at a time, page budgets 2 and 5, depth 1, small budgets, one exception, one cancel request | `BudgetsNearlyKept`, `CompletedIsCovered`, `ReportIsFinal`, `CrawlEnds` |
| `StoryLinking_links` | 2 documents of two domains, an organization in two spellings and a person, in either order; 2 stories, 2 pages | `OneEntityPerName`: though both caches lack the name. `AttachedIsListed`: no document is lost when two tasks rewrite a story. `StoriesAreFounded`, `CommonGround`: texts alone never decide. `PagesEnd`: deadlocks included |
| `PageVisits_visits` | 2 tasks, 2 URLs of two patterns, three visits, one change of the site, one failed fetch, one abort, browser budget 1; symmetric | `ObservationsAddUp`: domain and pattern counters agree but for tasks between or cut off between the two transactions. `HealthIsBounded`. `BrowserIsLearned`: wherever HTTP finds nothing, as in an application that is an empty shell. `StoredIsLatest`: whatever the rules of change detection ignore, nothing watched for is missed |
| `SiteReading_reading` | 5 sites (limits exceeded, a self-listing index, garbled, read whole, all limits met), 2 tasks, 1 slot, 1 redirect, one fault anywhere, 5 homepages for preflight | `WalkBounded`, `UntruncatedIsComplete`, `RequestsBounded`, `BrowsersHoldSlots`, `ListingIsRead`, `MoreScoresNoLess`, `ReadingEnds` |

**The runs that fail** state what the repository's documentation says and are refuted by what the
code does; `findings` in `PROJECT.json` quotes both. In short:
a task cancelled before it is inside the `try` block, or a row cancelled just after it finished,
keeps `cancelling`, which integration.md tells clients to poll until it ends; rows of crawls interrupted by a
restart are never cleaned up and block their source through the active-job test, although the README
promises that a redeploy costs one late tick; `find_by_normalized_hash` uses `scalar_one_or_none` on a column that is not
unique, and fails the crawl where a comment says that duplicates are flagged.

**Also true of the code**, part of the models or visible with small changes to a configuration, and not made runs of their own:

* Scheduling: with fewer slots than due sources `DueIsServed` fails even undisturbed (`CrawlJobs_progress` with two sources), because the slice comes
  before the active-job test and the query has no order; the comment at `scheduler.py:50-53` says that what is skipped is only delayed by one poll interval.
* Circuit, where the code does the opposite of its docstrings: `should_allow_request` says that after the window "exactly one probe request is allowed through"
  and that a failed one will "re-open it with a fresh timer" (`domain_policy_service.py:93-96`), but it lets every page through, and a failure keeps the time of the first opening
  (line 77), so that the gate then stays open; `test_failed_probe_after_open_reopens_with_fresh_timer` asserts that the time is kept (`test_domain_policy_service.py:78`).
  "A closed circuit already required surviving a half-open probe" (line 14), but the success of a request sent before the outage closes it as well (line 59).
* Circuit, besides: a page admitted before the outage sends its request during it. Whether the opening is announced is judged against a snapshot that may be several
  outcomes old (`crawl_engine.py:1047`): one outage may be announced twice, or not at all.
* Crawl loop: `_safe_enqueue` counts a URL as discovered whether or not the queue had it, although a comment (`crawl_engine.py:476`) calls that
  harmless: links found again use up the budget of URLs. A browser fetch that fails or loses against HTTP is
  not counted, so `crawl_max_browser_pages` does not bound browser fetches. Exceptions of the pages in the last round of a crawl that used
  up `max_pages` are not looked at, and the crawl is `completed`. A URL first met on a long path keeps that path's depth. The extra seeds of a discovery
  enter the queue without the budget and the filters that links pass.
* Intelligence: a failure that comes from the database (a deadlock victim) is swallowed without a rollback, and the next statement of the page fails the crawl,
  although "the crawl must succeed regardless" (`crawl_engine.py:1068`). Two persons of one name are to have a row each (`entity_resolver.py:17`), but the unique index gives them one;
  any type of entity counts as the second signal for which the same text asks an organization or a location. A document attached anew stays in the list of its former story.
* Learning: once the browser is preferred, no HTTP fetch is made that could win a comparison. A pattern with a few comparisons overrules the domain's many.
  The historical type of a pattern is written back as the type of a page that shows none, and so supports itself (`page_classifier.py:199`, `crawl_repository.py:548`).
  `domain_browser_superior_rate_threshold` is not read; 0.6 is written in the code. Launches that fail during an escalation are not counted.
* Monitoring: with threshold 1 a URL first seen failing needs two failures (`source_repository.py:209`).
* Storing: any password field or marker such as captcha makes a page a wall, whatever its body holds (`soft_block_detector.py:93`). An answer 404 or 500 with a long body becomes the next version of the document. An index page is compared by its items only, and
  a page judged unchanged keeps the stored page type.
* Fetching: a host name that stops resolving raises an error of its own, which passes `http_fetch_page` and fails the crawl, so that the source never
  records a failure (`url_security.py:176`, `fetchers.py:86`); preflight answers 500 for the same reason. Preflight's browser takes no slot. A page rendered
  is discarded if closing the browser fails.
* Discovery: a sitemap walk may return more than the "≤2000 total" of `README.md:603`, since the total is tested once per nested file and level; an index that lists itself is read again at each level;
  a walk cut by its depth or a lost file is not called truncated. Where a page names no second offset, its own offset is taken as the step (`pagination.py:212`); the comment above
  speaks of common page sizes, which the code does not test. A sample page that is lost leaves the preflight's score, one that cannot be extracted lowers it.

**Bounds.** Two tasks are enough for each race here, because every conflict is between a reader and one
writer in between; three jobs for two sources leave room for a finished job's successor beside an
old row. Budgets (`MaxCancels`, `MaxRestarts`, `MaxFaults`, `MaxChanges`, `MaxAborts`, ...) bound the
environment, not the code; the number of crawls is unbounded (`Forget`), so is the number of pages
(a task that ends starts over). In `CrawlRun` the budgets are small enough to be hit and, in other behaviours of
the same run, large enough to be left over, so that `CompletedIsCovered` speaks of both. `MaxRun = 3` is one beyond the removal threshold, so that a removed URL fails once
more. `MaxStreak` lets the circuit open and fail twice more. `MaxDelay = 6` with floors 3 and 2
lets doubling and Retry-After = 9 both meet the ceiling. In `StoryLinking` two stories let each document found its own; the person and the organization are named in
either order, so that tasks deadlock. `Texts = {0, 100}` are the extremes of a score that grows with it. In `PageVisits` `MinObservations = 2` is reached within
`MaxVisits = 3`, and browser budget 1 is used up. In `SiteReading` every limit of the walk (nested files, URLs per file, total, depth) is met by one site and exceeded by another,
offsets end at 8, beyond the last page 6, and one fault can hit any probe, request or browser step. Its limits are smaller than the program's (1 redirect for 5, 3 URLs for 2,000), which changes when a limit
bites and not what happens then.
Symmetry is used in safety runs only (`CrawlJobs_safety`, `PageVisits_visits`), where jobs, sources or tasks are interchangeable.

**Fairness.** `FairSpec` assumes that the event loop resumes a coroutine whose await is over, and every
await here is bounded (timeouts of the HTTP client, statements of a live database, Postgres row locks
in order of arrival). It does *not* assume that clients act, that clocks pass `next_crawl_at`, or that
crashes or faults happen. Strong fairness appears where an aborted task starts over: a page is
not aborted at the same point for ever. In `StoryLinking` a row lock has strong fairness: Postgres grants
it in order of arrival, and always finds a circle of waiting. In `SiteReading` every request is answered or times out, and a free browser slot goes to
some task that waits. `Recovers`, `Converges` and `StatusConverges` further assume that the domain or URL keeps
being crawled, which is what an active source does at each interval.

## 4. What is proved

For every value of the constants, from the assumptions named in the modules:

* `CrawlJobs_proofs`: `TypeCorrect`, `WorkIsVisible`, `NoPileUp`, `CapHolds`. The invariant `IInv` adds `Placement` (a
  job is in at most one of `posted`, `dispatched`, `registry`, and its task phase agrees with that) to the
  two safety properties: without it a job could be launched twice or have a task before its row. `CapInv` speaks of what the tick has promised: the
  jobs in `dispatched`, the sources in `listed` and the scheduler's running tasks together never exceed the cap, which
  is what makes the early count safe.
* `DomainCircuit_proofs`: `TypeCorrect`, `NoLostOutcome`, `Polite`, `Refines`. `LockInv` says that at most one page holds
  the row and that its copy is the row; from that every commit is one step of the sequential breaker.
* `DocumentStore_proofs`: `TypeCorrect`, `Ordered`, `RetryIsEnough`, `EventsInStep`, `Refines`. `SessionInv` relates what a
  session has seen to what can be in the store meanwhile: a locked row does not change, an insert in flight is alone, and a task in its
  second attempt knows that the document exists.
* `SourceMonitor_proofs`: `TypeCorrect`, `NoLostEntry`, `EventsFollow`. `LockInv` (whoever holds the source row has its present
  lists) makes each commit change one entry only; `Settled` says of each URL that is not confused that one right announcement is owed,
  or else that the last one made is right. The decision tables of `failure_classification.py` enter through the lemma
  `Classification`.
* `CrawlRun_proofs`: `TypeCorrect`, `BudgetsHold`, `NothingAfterReport`, `NothingLeftBehind`. `CrewInv`: whoever works is in flight, and
  those are at most `Concurrency`. `BudgetInv` counts with each budget those who have looked at it and not yet used it up (`GaugeStep`);
  `LedInv` says of each URL a page leads to that it is known, refused or still to be enqueued; `DrainInv` why the loop ended.

* `StoryLinking_proofs`: `TypesHold`, `NamesAreUnique`, `NoDocumentIsLost`, `NoStoryIsUnfounded`, `StoriesHaveCommonGround`, that is all its invariants. `NameInv`: a row that was
  inserted stays locked until it is committed, and an entity that a task has in its cache or mentions is committed or its own. `StoryInv`: from the moment a task has locked its story, the list it read is
  the story's; and a story that has no document yet has been chosen by one task only. `MatchesShare` adds up the weights: without a common entity the score stays below the threshold.
* `PageVisits_proofs`: `TypeCorrect`, `HealthIsANumber`, `NothingIsLost`, `TheBrowserIsLearned`, `StoredTellsLatest`, that is all its invariants. `Consistent` says of a row of counters what makes each rate a rate: successes within attempts, extraction failures within successes, blocked within
  attempts. `NothingIsLost` needs sums over all patterns and over all types of a pattern: a sum changes by what one of its terms changes, which is shown without induction, by looking at the smallest set for which it
  would be wrong. That the pattern and the domain count the same is then a ledger: tasks between the two transactions and tasks cut off there make up the difference. `TheBrowserIsLearned`
  follows what a task knows of its page from the fetch to the counters: where HTTP finds nothing, each observation adds to those counters that make the browser preferable, whichever way it was routed.
  `StoredTellsLatest` is that each rule of `detect_change` which finds no change leaves what the type is watched for as it was.
* `SiteReading_proofs`: `TypeCorrect`, `SlotsAreHeld`, `FetchesAreBounded`, `WalkIsBounded`, `WholeWalkIsComplete`, `ListingsAreRead`, `MoreIsWorthMore`, that is all its invariants.
  `Sent` bounds the requests of a fetch by its redirects and whether it has waited for the present URL.
  `DiscoveryInv` gives the stack of calls its type: files of the site to read, URLs of the site found; `DiscoveryActs` lists what any step, of a crawl or of a preflight, does to it.
  *Bounded* is shown by a weight: a file still to be read at a level weighs one and all the files it may lead to at the levels below, so that opening it never adds
  to the files read and the weights left (`WeightsFall`). The levels are those of `_depth > 2`, written in the code (`sitemap_discovery.py:56`): the theorem has `MaxDepth = 2` as its hypothesis, and leaves all other limits open.
  *Complete* is shown without following the recursion: `CompleteInv` says that what the opened files list is opened or still to be read, and that what the opened ones hold of pages has been gathered by some call; when
  nothing is left to read, the opened files are a set that holds all that its indexes list (`SelfContained`), and the files a sitemap leads to are, by definition of `Reached`, in every such set.
  `ListInv` says of each URL that was given out that a task works on it, or that what it leads to is known, or which of the excuses of `ListingIsRead` holds; `NamedIsFound` is what `detect_pagination` finds.
  `MoreIsWorthMore` compares the weighted parts of two scores, each a quotient rounded half to even, as Python does: `RoundedGrows` is the monotony of that rounding.

The assumptions are on the parameters only. Those of `SiteReading` say what a site and a page are (`SitesAssumption`: what a sitemap leads to is a file of the site, whether it is there or not; `PreflightAssumption`:
what is recorded of a homepage; `ListingAssumption`), and TLC evaluates each of them on the sites of its run.

Only model-checked: everything about liveness (`SlotsComeBack`, `JobsFinish`, `DueIsServed`, `Recovers`, `Converges`, `StatusConverges`, `CrawlEnds`, `PagesEnd`, `ReadingEnds`), which is out
of the proof system's reach, and the three runs that fail. Every invariant that a passing run checks is a theorem.

## 5. Not modelled

* Parsing: HTML, feeds, XML, scripts, dates and prices; what is found in them is an input of `PageJudgement`, `SeedDiscovery`, `Pagination`.
* Language models and similarity measures (named entities, fuzzy names, simhash, cosine of texts): inputs of `Matching`.
* Rewriting and filtering of strings: URL normalization, patterns of URLs, the address filter of `url_security.py`. They keep no state, and nothing in them is a question of order.
* Deduplication: the exact hash is what `DocumentStore` compares; the near-duplicate flag reads other documents without a lock, so that of two pages with one body stored at once neither may be flagged (`crawl_engine.py:671`).
* Read-only endpoints and search, the artifact store (writing an object twice writes the same bytes), metrics, logs, internal events: no code of the service reads them back.
* Fields that only accompany what is modelled: severities and text differences, importance, confidence and counts of mentions, latencies and sizes, preferred extractors, adaptive intervals, evidence rows.
* The deletion of a source during its crawl, and migrations.
