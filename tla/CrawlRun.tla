------------------------------- MODULE CrawlRun -------------------------------
(***************************************************************************)
(* One crawl: the loop of run_crawl, the page tasks it starts and the      *)
(* request queue and counters they share.  A page is fetched, may be       *)
(* fetched again by the browser, and enqueues its next page, the items it  *)
(* lists and, once it is stored, its links.  Every enqueue awaits name     *)
(* resolution between looking at a budget and using it up; the counters    *)
(* are plain attributes that no lock protects.                             *)
(*                                                                         *)
(* The queue holds a URL once, so a URL names its request and its task.    *)
(***************************************************************************)
EXTENDS Integers, Sequences, FiniteSets

CONSTANTS
    Urls,               \* unique keys of requests
    Seeds,              \* the seed URL and the discovered extra seeds
    NoUrl,
    NextPage,           \* detect_pagination: a page's next page, or NoUrl
    Items,              \* the sequence of its listed items
    Links,              \* the sequence of its internal links; of all three,
                        \* what the domain and the sink filter let through
    OffSite,            \* URLs of another registrable domain
    PageLimits,         \* values of job.max_pages
    MaxDepth,           \* job.max_depth
    Concurrency,        \* settings.crawl_default_concurrency
    MaxBrowser,         \* settings.crawl_max_browser_pages
    MaxDiscovered,      \* settings.crawl_max_discovered_urls
    MaxPagination,      \* settings.crawl_max_pagination_pages
    MaxRaises           \* bound: unexpected exceptions while the loop runs

VARIABLES
    maxPages,   \* job.max_pages
    queue,      \* the state of each URL's request
    depth,      \* user_data of the request
    loop,       \* progress of run_crawl
    inFlight,   \* in_flight: tasks started and not collected
    cancelling, \* the job's row says so
    verdict,    \* final_status
    phase,      \* progress of each page task
    read,       \* URLs whose HTML was extracted
    browser,    \* URLs whose task fetches, or has fetched, by browser
    todo,       \* what the task has still to enqueue in this stage
    adding,     \* the URL it is enqueueing
    rejected,   \* history: URLs refused by the address validation
    attempted, discovered, paginated, browsed, \* RunStats
    raises      \* environment budget

jobVars   == <<maxPages, cancelling>>
queueVars == <<queue, depth>>
loopVars  == <<loop, inFlight, verdict>>
taskVars  == <<phase, read, browser, todo, adding>>
stats     == <<attempted, discovered, paginated, browsed>>
vars      == <<jobVars, queueVars, loopVars, taskVars, stats, rejected, raises>>

ASSUME RunAssumption ==
    /\ Seeds \subseteq Urls /\ IsFiniteSet(Seeds) /\ NoUrl \notin Urls
    /\ NextPage \in [Urls -> Urls \cup {NoUrl}]
    /\ Items \in [Urls -> Seq(Urls)] /\ Links \in [Urls -> Seq(Urls)]
    /\ PageLimits \subseteq Nat /\ Concurrency \in Nat \ {0}
    /\ {MaxDepth, MaxBrowser, MaxDiscovered, MaxPagination, MaxRaises} \subseteq Nat

Enqueueing == {"paginating", "listing", "linking"}
Working    == {"routing", "fetching", "escalating", "storing"} \cup Enqueueing
Phases     == Working \cup {"absent", "done", "raised"}

TypeOK ==
    /\ maxPages \in PageLimits /\ cancelling \in BOOLEAN
    /\ queue \in [Urls -> {"unknown", "pending", "taken", "handled"}]
    /\ depth \in [Urls -> Nat]
    /\ loop \in {"checking", "filling", "waiting", "draining", "finished", "broken"}
    /\ inFlight \subseteq Urls
    /\ verdict \in {"none", "completed", "cancelled", "failed"}
    /\ phase \in [Urls -> Phases]
    /\ read \subseteq Urls /\ browser \subseteq Urls /\ rejected \subseteq Urls
    /\ todo \in [Urls -> Seq(Urls)]
    /\ adding \in [Urls -> Urls \cup {NoUrl}]
    /\ attempted \in Nat /\ discovered \in Nat /\ paginated \in Nat
    /\ browsed \in Nat /\ raises \in Nat

\* run_crawl has reached its verdict, by its loop or by an exception.
Over == loop \in {"finished", "broken"}

-----------------------------------------------------------------------------
(***************************************************************************)
(* A page task, _process_page.                                             *)
(***************************************************************************)

Goto(u, ph) == phase' = [phase EXCEPT ![u] = ph]

Handle(u) == queue' = [queue EXCEPT ![u] = "handled"]

\* The page is off-site or too deep, or its domain's circuit is open.
Skip(u) ==
    /\ phase[u] = "routing"
    /\ Goto(u, "done")
    /\ Handle(u)
    /\ UNCHANGED <<jobVars, depth, loopVars, read, browser, todo, adding, stats, rejected, raises>>

\* decide_routing may say either; the browser only while its budget lasts.
Route(u) ==
    /\ phase[u] = "routing"
    /\ u \notin OffSite /\ depth[u] <= MaxDepth
    /\ browser' \in {browser} \cup (IF browsed < MaxBrowser THEN {browser \cup {u}} ELSE {})
    /\ Goto(u, "fetching")
    /\ UNCHANGED <<jobVars, queueVars, loopVars, read, todo, adding, stats, rejected, raises>>

\* A transport failure: recorded, and the request is done with.
FetchFails(u) ==
    /\ phase[u] = "fetching"
    /\ Goto(u, "done")
    /\ Handle(u)
    /\ UNCHANGED <<jobVars, depth, loopVars, read, browser, todo, adding, stats, rejected, raises>>

\* An answer without HTML is stored as it is.
FetchedOther(u) ==
    /\ phase[u] = "fetching"
    /\ Goto(u, "storing")
    /\ UNCHANGED <<jobVars, queueVars, loopVars, read, browser, todo, adding, stats, rejected, raises>>

\* Broken: escalation without looking at the budget.
EscalateAlways(u) ==
    /\ phase[u] = "fetching"
    /\ u \notin browser
    /\ Goto(u, "escalating")
    /\ UNCHANGED <<jobVars, queueVars, loopVars, read, browser, todo, adding, stats, rejected, raises>>

\* A page fetched by HTTP that seems to need the browser.
Escalate(u) ==
    /\ phase[u] = "fetching"
    /\ u \notin browser
    /\ browsed < MaxBrowser
    /\ Goto(u, "escalating")
    /\ UNCHANGED <<jobVars, queueVars, loopVars, read, browser, todo, adding, stats, rejected, raises>>

\* The page is extracted; after an escalation the better of two extractions
\* decides which fetch counts.
Extracted(u) ==
    /\ phase[u] \in {"fetching", "escalating"}
    /\ browser' \in {browser} \cup (IF phase[u] = "escalating" THEN {browser \cup {u}} ELSE {})
    /\ read' = read \cup {u}
    /\ Goto(u, "paginating")
    /\ todo' = [todo EXCEPT ![u] = IF NextPage[u] = NoUrl THEN <<>> ELSE <<NextPage[u]>>]
    /\ UNCHANGED <<jobVars, queueVars, loopVars, adding, stats, rejected, raises>>

\* What a stage may still enqueue.
BudgetLeft(u) ==
    /\ discovered < MaxDiscovered
    /\ phase[u] = "paginating" => paginated < MaxPagination

\* _safe_enqueue up to the name resolution.
Resolve(u) ==
    /\ phase[u] \in Enqueueing /\ adding[u] = NoUrl
    /\ todo[u] # <<>> /\ BudgetLeft(u)
    /\ adding' = [adding EXCEPT ![u] = Head(todo[u])]
    /\ todo' = [todo EXCEPT ![u] = Tail(@)]
    /\ UNCHANGED <<jobVars, queueVars, loopVars, phase, read, browser, stats, rejected, raises>>

\* The host has no address, or one that is not allowed: nothing is enqueued.
Refuse(u) ==
    /\ phase[u] \in Enqueueing /\ adding[u] # NoUrl
    /\ adding' = [adding EXCEPT ![u] = NoUrl]
    /\ rejected' = rejected \cup {adding[u]}
    /\ UNCHANGED <<jobVars, queueVars, loopVars, phase, read, browser, todo, stats, raises>>

\* Else the URL is enqueued.  The queue keeps one that it knows as it is; the
\* counters count it again.
Enqueue(u) ==
    LET v == adding[u] IN
    /\ phase[u] \in Enqueueing /\ v # NoUrl
    /\ adding' = [adding EXCEPT ![u] = NoUrl]
    /\ queue' = [queue EXCEPT ![v] = IF @ = "unknown" THEN "pending" ELSE @]
    /\ depth' = [depth EXCEPT ![v] =
         IF queue[v] # "unknown" THEN @
         ELSE IF phase[u] = "paginating" THEN depth[u] ELSE depth[u] + 1]
    /\ discovered' = discovered + 1
    /\ paginated' = IF phase[u] = "paginating" THEN paginated + 1 ELSE paginated
    /\ UNCHANGED <<jobVars, loopVars, phase, read, browser, todo, attempted, browsed, rejected, raises>>

StageOver(u) == adding[u] = NoUrl /\ (todo[u] = <<>> \/ ~BudgetLeft(u))

\* From the next page to the items; both only above the depth limit.
ListItems(u) ==
    /\ phase[u] = "paginating" /\ StageOver(u)
    /\ Goto(u, "listing")
    /\ todo' = [todo EXCEPT ![u] = IF depth[u] < MaxDepth THEN Items[u] ELSE <<>>]
    /\ UNCHANGED <<jobVars, queueVars, loopVars, read, browser, adding, stats, rejected, raises>>

ItemsListed(u) ==
    /\ phase[u] = "listing" /\ StageOver(u)
    /\ Goto(u, "storing")
    /\ UNCHANGED <<jobVars, queueVars, loopVars, read, browser, todo, adding, stats, rejected, raises>>

\* Phase 3, where the browser page is counted.
Store(u) ==
    /\ phase[u] = "storing"
    /\ browsed' = IF u \in browser THEN browsed + 1 ELSE browsed
    /\ Goto(u, "linking")
    /\ todo' = [todo EXCEPT ![u] = IF u \in read /\ depth[u] < MaxDepth THEN Links[u] ELSE <<>>]
    /\ UNCHANGED <<jobVars, queueVars, loopVars, read, browser, adding, attempted, discovered,
                   paginated, rejected, raises>>

Finish(u) ==
    /\ phase[u] = "linking" /\ StageOver(u)
    /\ Goto(u, "done")
    /\ Handle(u)
    /\ UNCHANGED <<jobVars, depth, loopVars, read, browser, todo, adding, stats, rejected, raises>>

\* An await of the task raises: the database, the artifact store, the queue,
\* which after the verdict is dropped.
Raise(u) ==
    /\ phase[u] \in Working
    /\ raises > 0 \/ Over
    /\ raises' = IF Over THEN raises ELSE raises - 1
    /\ Goto(u, "raised")
    /\ UNCHANGED <<jobVars, queueVars, loopVars, read, browser, todo, adding, stats, rejected>>

-----------------------------------------------------------------------------
(***************************************************************************)
(* The loop, run_crawl.                                                    *)
(***************************************************************************)

Ended(u) == phase[u] \in {"done", "raised"}

\* The row is looked at before each round; a cancel request ends the loop.
CheckCancelled ==
    /\ loop = "checking"
    /\ loop' = IF attempted >= maxPages \/ cancelling THEN "draining" ELSE "filling"
    /\ verdict' = IF attempted < maxPages /\ cancelling THEN "cancelled" ELSE verdict
    /\ UNCHANGED <<jobVars, queueVars, inFlight, taskVars, stats, rejected, raises>>

RoomForPage == Cardinality(inFlight) < Concurrency /\ attempted < maxPages

\* fetch_next_request gives some pending request and a task is made for it.
StartPage(u) ==
    /\ loop = "filling" /\ RoomForPage
    /\ queue[u] = "pending"
    /\ queue' = [queue EXCEPT ![u] = "taken"]
    /\ inFlight' = inFlight \cup {u}
    /\ attempted' = attempted + 1
    /\ Goto(u, "routing")
    /\ UNCHANGED <<jobVars, depth, loop, verdict, read, browser, todo, adding, discovered,
                   paginated, browsed, rejected, raises>>

NoneWith(state) == \A u \in Urls : queue[u] # state

\* Broken: an empty queue ends the loop although pages are in flight, which
\* may fill it again.
FilledOrEmpty ==
    /\ loop = "filling"
    /\ ~RoomForPage \/ NoneWith("pending")
    /\ loop' = IF NoneWith("pending") THEN "draining"
               ELSE IF inFlight # {} THEN "waiting" ELSE "checking"
    /\ UNCHANGED <<jobVars, queueVars, inFlight, verdict, taskVars, stats, rejected, raises>>

\* No task can be started: wait for one, or else, when nothing is in flight,
\* leave the loop if the queue is finished and come back later if not.
Filled ==
    /\ loop = "filling"
    /\ ~RoomForPage \/ NoneWith("pending")
    /\ loop' = IF inFlight # {} THEN "waiting"
               ELSE IF NoneWith("pending") /\ NoneWith("taken") THEN "draining"
               ELSE "checking"
    /\ UNCHANGED <<jobVars, queueVars, inFlight, verdict, taskVars, stats, rejected, raises>>

\* Broken: an exception of a task is not raised again.
CollectQuietly ==
    /\ loop = "waiting"
    /\ \E u \in inFlight : Ended(u)
    /\ inFlight' = {u \in inFlight : ~Ended(u)}
    /\ loop' = "checking"
    /\ UNCHANGED <<jobVars, queueVars, verdict, taskVars, stats, rejected, raises>>

\* asyncio.wait for the first to end; the exception of a task that raised
\* ends the loop, and the others stay alone.
Collect ==
    /\ loop = "waiting"
    /\ \E u \in inFlight : Ended(u)
    /\ inFlight' = {u \in inFlight : ~Ended(u)}
    /\ IF \E u \in inFlight : phase[u] = "raised"
       THEN loop' = "broken" /\ verdict' = "failed"
       ELSE loop' = "checking" /\ UNCHANGED verdict
    /\ UNCHANGED <<jobVars, queueVars, taskVars, stats, rejected, raises>>

\* Broken: the verdict is reached without waiting for the rest.
DrainedAtOnce ==
    /\ loop = "draining"
    /\ loop' = "finished"
    /\ verdict' = IF verdict = "none" THEN "completed" ELSE verdict
    /\ UNCHANGED <<jobVars, queueVars, inFlight, taskVars, stats, rejected, raises>>

\* The tasks still in flight are waited for, but their exceptions are not
\* looked at.
Drained ==
    /\ loop = "draining"
    /\ \A u \in inFlight : Ended(u)
    /\ loop' = "finished"
    /\ verdict' = IF verdict = "none" THEN "completed" ELSE verdict
    /\ UNCHANGED <<jobVars, queueVars, inFlight, taskVars, stats, rejected, raises>>

\* An await of the loop itself raises.
LoopRaises ==
    /\ ~Over /\ raises > 0
    /\ raises' = raises - 1
    /\ loop' = "broken" /\ verdict' = "failed"
    /\ UNCHANGED <<jobVars, queueVars, inFlight, taskVars, stats, rejected>>

\* The cancel handler sets the status of the row,
RequestCancel ==
    /\ ~cancelling /\ ~Over
    /\ cancelling' = TRUE
    /\ UNCHANGED <<maxPages, queueVars, loopVars, taskVars, stats, rejected, raises>>

\* and cancels the task, if it is in this process: CancelledError is thrown
\* at the await, and the pages stay alone.
Thrown ==
    /\ ~Over /\ cancelling
    /\ loop' = "broken" /\ verdict' = "cancelled"
    /\ UNCHANGED <<jobVars, queueVars, inFlight, taskVars, stats, rejected, raises>>

-----------------------------------------------------------------------------
\* The seeds are in the queue, whatever the budget says.
Init ==
    /\ maxPages \in PageLimits /\ cancelling = FALSE
    /\ queue = [u \in Urls |-> IF u \in Seeds THEN "pending" ELSE "unknown"]
    /\ depth = [u \in Urls |-> 0]
    /\ loop = "checking" /\ inFlight = {} /\ verdict = "none"
    /\ phase = [u \in Urls |-> "absent"]
    /\ read = {} /\ browser = {} /\ rejected = {}
    /\ todo = [u \in Urls |-> <<>>]
    /\ adding = [u \in Urls |-> NoUrl]
    /\ attempted = 0 /\ discovered = Cardinality(Seeds) /\ paginated = 0 /\ browsed = 0
    /\ raises = MaxRaises

PageStep(u) ==
    \/ Skip(u) \/ Route(u) \/ FetchFails(u) \/ FetchedOther(u) \/ Escalate(u) \/ Extracted(u)
    \/ Resolve(u) \/ Refuse(u) \/ Enqueue(u) \/ ListItems(u) \/ ItemsListed(u) \/ Store(u) \/ Finish(u)

LoopStep == CheckCancelled \/ (\E u \in Urls : StartPage(u)) \/ Filled \/ Collect \/ Drained

Next ==
    \/ \E u \in Urls : PageStep(u) \/ Raise(u)
    \/ LoopStep \/ LoopRaises
    \/ RequestCancel \/ Thrown

Spec == Init /\ [][Next]_vars

\* The event loop resumes whoever can go on.
FairSpec ==
    /\ Spec
    /\ WF_vars(LoopStep)
    /\ \A u \in Urls : WF_vars(PageStep(u))

-----------------------------------------------------------------------------
(***************************************************************************)
(* Properties.                                                             *)
(***************************************************************************)

Larger(a, b) == IF a >= b THEN a ELSE b

\* README.md:52, config.py:37.  Budgets are looked at before an await and
\* used up after it, by as many pages as are in flight: each is exceeded by
\* one less than those at most.  The seeds are not subject to them.
BudgetsNearlyKept ==
    /\ attempted <= maxPages
    /\ discovered <= Larger(MaxDiscovered, Cardinality(Seeds)) + Concurrency - 1
    /\ paginated <= MaxPagination + Concurrency - 1
    /\ browsed <= MaxBrowser + Concurrency - 1

\* The URLs a page of the crawl leads to.
Elements(s) == {s[i] : i \in DOMAIN s}
LedTo(u) ==
    IF u \notin read THEN {}
    ELSE ({NextPage[u]} \ {NoUrl})
         \cup (IF depth[u] < MaxDepth THEN Elements(Items[u]) \cup Elements(Links[u]) ELSE {})

Known(v) == queue[v] # "unknown"

\* Everything the crawl knows was crawled, and it knows all its pages led to.
Covered ==
    \A u \in Urls : Known(u) => /\ queue[u] = "handled"
                                /\ \A v \in LedTo(u) : Known(v) \/ v \in rejected

\* A crawl reported as completed has crawled all it could reach, unless a
\* budget is used up: no page added while another was waited for, while the
\* queue was empty for a moment or in the last round is left behind.
CompletedIsCovered ==
    /\ verdict = "completed"
    /\ attempted < maxPages /\ discovered < MaxDiscovered /\ paginated < MaxPagination
    => Covered

\* The statistics written with the verdict are final: after a verdict reached
\* by the loop no page task is left to change them.  (After an exception or
\* CancelledError there are.)
ReportIsFinal == [][loop = "finished" => UNCHANGED <<queueVars, taskVars, stats, rejected>>]_vars

\* Whatever its pages do, a crawl reaches a verdict; it never spins waiting
\* for a request that nobody will handle.  Its page tasks end too.
CrawlEnds == <>[](Over /\ \A u \in Urls : phase[u] \notin Working)
=============================================================================
