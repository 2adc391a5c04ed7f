---------------------------- MODULE SiteReading ----------------------------
(***************************************************************************)
(* How a site is read: seeds are discovered, page tasks fetch the seeds    *)
(* over HTTP or in one of the browser slots, and every page fetched may    *)
(* lead to the next page of its listing.  Or a preflight is asked what it  *)
(* thinks of the site.  The request queue and its budgets are those of     *)
(* CrawlRun, here without depth and ordinary links.                        *)
(***************************************************************************)
EXTENDS Preflight, Fetching, Pagination

CONSTANTS
    Home,           \* the seed URL
    Shown,          \* what each page of a site shows, for DetectPagination
    MaxPagination,  \* settings.crawl_max_pagination_pages
    MaxTroubles     \* bound: faults of the network

VARIABLES
    known,      \* URLs the request queue has seen
    pending,    \* URLs it has still to give out
    page,       \* the URL each task works on
    adding,     \* the task is enqueueing its next page
    paginated,  \* RunStats.pagination_pages_enqueued
    unread,     \* history: pages whose fetch failed
    broken,     \* a task's exception has ended the crawl
    troubles    \* environment budget

readingVars == <<known, pending, page, adding, paginated, unread, broken>>
askVars     == <<discoveryVars, preflightVars>>
vars        == <<askVars, fetchVars, readingVars, troubles>>

\* NoPage is no URL.
ASSUME ReadingAssumption ==
    /\ {MaxPagination, MaxTroubles} \subseteq Nat
    /\ Home # NoPage
    /\ \A s \in Sites :
         NoPage \notin Elements(s.entries) \cup UNION {Elements(s.has[f]) : f \in DOMAIN s.kind}

Shows(s, u) == Shown[s.style, u]

\* The page u of a listing names the next one: by a link that says so, or as
\* the nearest of the offsets that lie ahead.
NamesNext(shown, u, next) ==
    \/ shown.rel = next
    \/ shown.rel = NoPage /\ shown.text = next
    \/ /\ shown.rel = NoPage /\ shown.text = NoPage /\ next <= MaxOffset
       /\ shown.offsets \subseteq Nat /\ next \in shown.offsets
       /\ \A v \in shown.offsets : v > u => v >= next

\* What a listing is.
ASSUME ListingAssumption ==
    \A s \in Sites : \A u \in s.listing \ {s.last} :
        u \in Nat /\ s.step \in Nat \ {0} /\ NamesNext(Shows(s, u), u, u + s.step)

TypeOK ==
    /\ DiscoveryTypeOK /\ PreflightTypeOK /\ FetchTypeOK
    /\ pending \subseteq known
    /\ \A t \in Tasks : (page[t] = NoPage) <=> (at[t] = "idle")
    /\ adding \in [Tasks -> BOOLEAN]
    /\ {paginated, troubles} \subseteq Nat /\ broken \in BOOLEAN

Init ==
    /\ DiscoveryInit /\ PreflightInit /\ FetchInit
    /\ known = {} /\ pending = {}
    /\ page = [t \in Tasks |-> NoPage] /\ adding = [t \in Tasks |-> FALSE]
    /\ paginated = 0 /\ unread = {} /\ broken = FALSE
    /\ troubles = MaxTroubles

Trouble == troubles > 0 /\ troubles' = troubles - 1

Discover ==
    /\ purpose = "crawl"
    /\ \/ DiscoveryStep /\ UNCHANGED troubles
       \/ DiscoveryFault /\ Trouble
    /\ UNCHANGED <<preflightVars, fetchVars, readingVars>>

Assess ==
    /\ \/ PreflightStep /\ UNCHANGED troubles
       \/ PreflightFault /\ Trouble
    /\ UNCHANGED <<fetchVars, readingVars>>

\* run_crawl puts the seed and the extra seeds into its queue, whatever the
\* budgets and filters say.
StartCrawl ==
    /\ stage = "over" /\ known = {}
    /\ known' = {Home} \cup Seeds
    /\ pending' = known'
    /\ UNCHANGED <<askVars, fetchVars, page, adding, paginated, unread, broken, troubles>>

\* A task is started for a page of the queue, with either fetcher.
StartPage(t) ==
    /\ ~broken
    /\ \E u \in pending :
         /\ pending' = pending \ {u}
         /\ page' = [page EXCEPT ![t] = u]
    /\ \E phase \in {"requesting", "waiting"} : Begin(t, phase)
    /\ UNCHANGED <<askVars, known, adding, paginated, unread, broken, troubles>>

FetchPage(t) ==
    /\ \/ FetchStep(t) /\ UNCHANGED troubles
       \/ FetchFault(t) /\ Trouble
    /\ UNCHANGED <<askVars, readingVars>>

\* Broken: the task ends and keeps its page.
LeaveHolding(t) ==
    /\ Finish(t)
    /\ UNCHANGED <<askVars, page, adding, paginated, troubles>>

\* The task ends.
Leave(t) ==
    /\ Finish(t)
    /\ page' = [page EXCEPT ![t] = NoPage]
    /\ UNCHANGED <<askVars, adding, paginated, troubles>>

NextOf(t) == DetectPagination(Shows(site, page[t]), page[t])

MayFollow(t) == NextOf(t) # NoPage /\ paginated < MaxPagination

\* The page leads nowhere, or the budget for pagination is used up.
LeadsNowhere(t) ==
    /\ at[t] = "fetched" /\ ~adding[t] /\ ~MayFollow(t)
    /\ Leave(t)
    /\ UNCHANGED <<known, pending, unread, broken>>

\* _safe_enqueue up to the name resolution.
Follow(t) ==
    /\ at[t] = "fetched" /\ ~adding[t] /\ MayFollow(t)
    /\ adding' = [adding EXCEPT ![t] = TRUE]
    /\ UNCHANGED <<askVars, fetchVars, known, pending, page, paginated, unread, broken, troubles>>

\* The next page is enqueued; a page the queue knows is counted again.
Enqueue(t) ==
    LET v == NextOf(t) IN
    /\ adding[t]
    /\ adding' = [adding EXCEPT ![t] = FALSE]
    /\ Finish(t)
    /\ page' = [page EXCEPT ![t] = NoPage]
    /\ known' = known \cup {v}
    /\ pending' = pending \cup ({v} \ known)
    /\ paginated' = paginated + 1
    /\ UNCHANGED <<askVars, unread, broken, troubles>>

\* A failed fetch is recorded and the task ends;
GiveUp(t) ==
    /\ at[t] = "failed"
    /\ Leave(t)
    /\ unread' = unread \cup {page[t]}
    /\ UNCHANGED <<known, pending, broken>>

\* an exception ends the crawl: no further page is started.
Break(t) ==
    /\ at[t] = "raised"
    /\ Leave(t)
    /\ broken' = TRUE
    /\ UNCHANGED <<known, pending, unread>>

TaskStep(t) ==
    StartPage(t) \/ FetchPage(t) \/ LeadsNowhere(t) \/ Follow(t) \/ Enqueue(t) \/ GiveUp(t) \/ Break(t)

Next == Discover \/ Assess \/ StartCrawl \/ \E t \in Tasks : TaskStep(t)

Spec == Init /\ [][Next]_vars

\* The event loop resumes whoever can go on, and every request is answered or
\* times out.
FairSpec ==
    /\ Spec
    /\ WF_vars(Discover) /\ WF_vars(Assess) /\ WF_vars(StartCrawl)
    /\ \A t \in Tasks : WF_vars(TaskStep(t))

-----------------------------------------------------------------------------
(***************************************************************************)
(* Properties.                                                             *)
(***************************************************************************)

\* sitemap_discovery.py:34.  An index that lists hundreds of files, or lists
\* itself, does not run away: the files read and the URLs found are bounded,
\* the URLs by one limit for every level of indexes and one more file.
WalkBounded ==
    /\ files <= 1 + MaxNested + MaxNested * MaxNested
    /\ Len(outcome.pages) <= MaxDepth * (MaxTotal - 1) + MaxPerFile

\* Whatever an index in the set lists is in it too.
SelfContained(S) == \A f \in S : site.kind[f] = "index" => Elements(site.has[f]) \subseteq S

\* Files the sitemap leads to: those no closed set with its own file can do
\* without.
Reached ==
    LET Files == DOMAIN site.kind IN
    {f \in Files : \A S \in SUBSET Files : root \in S /\ SelfContained(S) => f \in S}

\* A walk that was not cut short and lost no file has found every page of
\* every file the sitemap leads to.
UntruncatedIsComplete ==
    (purpose = "crawl" /\ outcome.sitemap = "available" /\ stage # "walking" /\ ~truncated /\ lost = {}) =>
    \A f \in Reached :
        site.kind[f] = "pages" => Elements(site.has[f]) \subseteq Elements(outcome.pages)

\* fetchers.py:79, 107.  However redirects and requests to wait alternate, a
\* fetch sends at most two requests for each of its URLs.
RequestsBounded == \A t \in Tasks : requests[t] <= 2 * (MaxRedirects + 1)

Chromiums == {t \in Tasks : at[t] \in InBrowser}

\* fetchers.py:20.  The page tasks of all crawls run no more browsers than
\* there are slots, and a slot that is not taken by one is free.
BrowsersHoldSlots == free + Cardinality(Chromiums) = Slots

\* The listing page that comes after a page of the listing.
Successor == [u \in Nat |-> u + site.step]

\* pagination.py:35.  A listing whose pages name their neighbours is read
\* page by page: when the crawl has come to rest, no page between two pages
\* it knows was passed over, unless a fetch failed or a budget is used up.
ListingIsRead ==
    (/\ pending = {} /\ stage = "over" /\ Home \in known /\ \A t \in Tasks : at[t] = "idle"
     /\ ~broken /\ unread = {} /\ paginated < MaxPagination)
    => \A u \in site.listing \ {site.last} : u \in known => Successor[u] \in known

\* The evidence with one thing more found.
Improved(e) ==
    {[e EXCEPT !.ok = TRUE], [e EXCEPT !.allowed = TRUE], [e EXCEPT !.type = "html"], [e EXCEPT !.links = @ + 1]}
    \cup {[e EXCEPT !.attempts[i] = "extracted"] : i \in DOMAIN e.attempts}
    \cup (IF e.browser = "same"
          THEN {[e EXCEPT !.browser = "improved", !.attempts = Append(@, "extracted")]}
          ELSE IF e.browser = "failed" THEN {[e EXCEPT !.browser = "same"]} ELSE {})

\* scoring.py:83.  Had a preflight found more, its score would be no lower: a
\* sitemap, a feed, a link more, a page more that could be extracted, a
\* browser that helps.
MoreScoresNoLess ==
    report.status = "completed" =>
    \A sitemap, feed \in BOOLEAN, e \in Improved(evidence) \cup {evidence} :
        (outcome.sitemap = "available" => sitemap) /\ (outcome.feed = "available" => feed)
        => report.score <= Capability(sitemap, feed, e)

\* Discovery ends, and the reading or the preflight too: no fetch waits for a
\* slot for ever, no listing goes on for ever, and every preflight ends with a
\* report or an error.
ReadingEnds ==
    <>[](IF purpose = "preflight" THEN stage \in {"reported", "raised"}
         ELSE stage = "over" /\ (pending = {} \/ broken) /\ \A t \in Tasks : at[t] = "idle")
=============================================================================
