------------------------------- MODULE PageVisits -------------------------------
(***************************************************************************)
(* The page tasks of a crawl visit URLs of one domain.  Each visit reads    *)
(* what has been learned of the domain and of the URL's pattern, chooses    *)
(* HTTP or a browser, extracts a document, perhaps asks a browser after     *)
(* all, judges whether the page is a wall, and writes in three              *)
(* transactions: the domain's profile, the pattern's profile, and the       *)
(* document.  Other tasks run between any two of these steps, the site      *)
(* changes, fetches fail, and a task may be cut off.                        *)
(*                                                                         *)
(* The circuit of the domain is the subject of DomainCircuit, the versions  *)
(* of a document and its uniqueness of DocumentStore, entries of the        *)
(* source of SourceMonitor, the queue of CrawlRun.                          *)
(***************************************************************************)
EXTENDS Learning, ChangeDetection

CONSTANTS
    Tasks,
    Urls,
    Seeds,              \* URLs visited at depth 0
    Patterns,
    PatternOf,          \* normalize_url_pattern
    Faces,              \* what each URL may answer: to HTTP, and to a browser
    MaxBrowserPages,    \* settings.crawl_max_browser_pages
    MaxVisits, MaxChanges, MaxFailures, MaxAborts   \* bounds

ASSUME VisitAssumption ==
    /\ IsFiniteSet(Tasks) /\ IsFiniteSet(Patterns)
    /\ Seeds \subseteq Urls /\ PatternOf \in [Urls -> Patterns]
    /\ MaxBrowserPages \in Nat \ {0}

VARIABLES
    site,           \* what each URL answers
    domain,         \* FetchStrategyStats
    patterns,       \* URLPatternStats
    documents,      \* the stored documents
    browserPages,   \* RunStats.browser_pages
    phase,          \* progress of each task
    visit,          \* what each task has read, decided and found
    spent,          \* of the bounds
    latest          \* history: the last page of each URL that came to be stored

dbVars == <<domain, patterns, documents>>
vars   == <<site, dbVars, browserPages, phase, visit, spent, latest>>

Phases == {"idle", "reading", "fetching", "escalating", "visited", "counted", "learned"}

\* page: the response that was kept; found: its type and document.
NoVisit ==
    [url |-> Nothing, advice |-> Nothing, prior |-> FALSE, hint |-> Nothing, strategy |-> Nothing,
     page |-> Nothing, found |-> Nothing, comparison |-> Nothing, success |-> FALSE, used_browser |-> FALSE]

NoDocument == [type |-> Nothing, content |-> Nothing]

\* Phases of a visit that has been routed.
Routed == {"fetching", "escalating", "visited", "counted", "learned"}

TypeOK ==
    /\ DOMAIN domain = DomainKeys
    /\ browserPages \in Nat
    /\ phase \in [Tasks -> Phases]
    /\ DOMAIN visit = Tasks
    /\ \A t \in Tasks :
         /\ DOMAIN visit[t] = DOMAIN NoVisit
         /\ visit[t].advice \in Strategies \cup {Nothing}
         /\ phase[t] \in Routed => visit[t].strategy \in Strategies
         /\ visit[t].used_browser \in BOOLEAN

Goto(t, ph) == phase' = [phase EXCEPT ![t] = ph]

Done(t) == Goto(t, "idle") /\ visit' = [visit EXCEPT ![t] = NoVisit]

Spend(what) == spent' = [spent EXCEPT ![what] = @ + 1]

-----------------------------------------------------------------------------
(***************************************************************************)
(* Reading and routing.                                                    *)
(***************************************************************************)

ReadDomain(t) ==
    /\ phase[t] = "idle" /\ spent.visits < MaxVisits
    /\ \E u \in Urls :
         visit' = [visit EXCEPT ![t] =
            [NoVisit EXCEPT !.url = u, !.advice = DecideFromStats(domain), !.prior = Prior(domain)]]
    /\ Spend("visits")
    /\ Goto(t, "reading")
    /\ UNCHANGED <<site, dbVars, browserPages, latest>>

Advice(row, ofDomain) == DecideRouting(DecideFromStats(Rollup(row)), ofDomain)

BudgetLeft == browserPages < MaxBrowserPages

\* A spent budget forces HTTP.
Route(t) ==
    LET row == patterns[PatternOf[visit[t].url]] IN
    /\ phase[t] = "reading"
    /\ visit' = [visit EXCEPT ![t].hint = row.page_type,
                              ![t].strategy = IF BudgetLeft THEN Advice(row, visit[t].advice) ELSE "http"]
    /\ Goto(t, "fetching")
    /\ UNCHANGED <<site, dbVars, browserPages, spent, latest>>

-----------------------------------------------------------------------------
(***************************************************************************)
(* Fetching and extracting: no database, and long.                         *)
(***************************************************************************)

Extract(t, page) ==
    IF page.html THEN ExtractForPage(page, visit[t].url \in Seeds, visit[t].hint)
    ELSE [type |-> Nothing, document |-> Nothing]

Fetch(t) ==
    LET browser == visit[t].strategy = "browser"
        face    == site[visit[t].url]
        page    == IF browser THEN face.browser ELSE face.http
        found   == Extract(t, page)
        again   == ~browser /\ page.html /\ BudgetLeft /\ Escalates(page, found.document, visit[t].prior)
    IN
    /\ phase[t] = "fetching"
    /\ visit' = [visit EXCEPT ![t].page = page, ![t].found = found,
                              ![t].success = TRUE, ![t].used_browser = browser]
    /\ Goto(t, IF again THEN "escalating" ELSE "visited")
    /\ UNCHANGED <<site, dbVars, browserPages, spent, latest>>

\* No answer.
FetchFails(t) ==
    /\ phase[t] = "fetching" /\ spent.failures < MaxFailures
    /\ Spend("failures")
    /\ Goto(t, "visited")
    /\ UNCHANGED <<site, dbVars, browserPages, visit, latest>>

\* Broken: what the comparison came to is told only where HTTP is kept.
EscalateSilently(t) ==
    LET page  == site[visit[t].url].browser
        found == Extract(t, page)
        label == Compare(visit[t].found.document, found.document)
    IN
    /\ phase[t] = "escalating" /\ page.html
    /\ visit' = [visit EXCEPT ![t] =
         IF label = "browser_superior" THEN [@ EXCEPT !.page = page, !.found = found, !.used_browser = TRUE]
         ELSE [@ EXCEPT !.comparison = label]]
    /\ Goto(t, "visited")
    /\ UNCHANGED <<site, dbVars, browserPages, spent, latest>>

\* The browser's page is compared with the one in hand, and the better kept.
Escalate(t) ==
    LET page  == site[visit[t].url].browser
        found == Extract(t, page)
        label == Compare(visit[t].found.document, found.document)
    IN
    /\ phase[t] = "escalating" /\ page.html
    /\ visit' = [visit EXCEPT ![t] =
         IF label = "browser_superior"
         THEN [@ EXCEPT !.page = page, !.found = found, !.comparison = label, !.used_browser = TRUE]
         ELSE [@ EXCEPT !.comparison = label]]
    /\ Goto(t, "visited")
    /\ UNCHANGED <<site, dbVars, browserPages, spent, latest>>

\* No answer, or no HTML: the page in hand is kept, nothing is compared.
EscalationFails(t) ==
    /\ phase[t] = "escalating"
    /\ IF site[visit[t].url].browser.html THEN spent.failures < MaxFailures /\ Spend("failures")
       ELSE spent' = spent
    /\ Goto(t, "visited")
    /\ UNCHANGED <<site, dbVars, browserPages, visit, latest>>

-----------------------------------------------------------------------------
(***************************************************************************)
(* What a visit came to.                                                   *)
(***************************************************************************)

Document(v) == IF v.success THEN v.found.document ELSE Nothing

Wall(v) == IF Document(v) = Nothing THEN Nothing ELSE Verdict(v.page, Document(v))

\* A wall overrides the type.
Type(v) == IF ~v.success THEN Nothing ELSE IF Wall(v) # Nothing THEN Wall(v) ELSE v.found.type

Category(v) ==
    IF ~v.success THEN "unreachable"
    ELSE IF Wall(v) # Nothing THEN "soft_blocked" ELSE v.page.category

Outcome(v) ==
    [strategy      |-> IF v.success /\ v.used_browser THEN "browser" ELSE IF v.success THEN "http" ELSE v.strategy,
     success       |-> v.success,
     extraction_ok |-> Document(v) # Nothing /\ Wall(v) = Nothing,
     category      |-> Category(v),
     js_required   |-> v.strategy = "http" /\ v.used_browser,
     quality       |-> QualityOf(Document(v)),
     completeness  |-> IF Document(v) = Nothing THEN Nothing ELSE Completeness(v.page, Document(v)),
     comparison    |-> v.comparison,
     type          |-> Type(v)]

-----------------------------------------------------------------------------
(***************************************************************************)
(* Writing: three transactions.                                            *)
(***************************************************************************)

\* record_fetch_outcome, on the locked row.
RecordFetch(t) ==
    /\ phase[t] = "visited"
    /\ domain' = Counted(domain, Outcome(visit[t]))
    /\ Goto(t, "counted")
    /\ UNCHANGED <<site, patterns, documents, browserPages, visit, spent, latest>>

\* record_pattern_outcome, on the locked row.  A failed fetch ends here.
RecordPattern(t) ==
    LET v == visit[t] IN
    /\ phase[t] = "counted"
    /\ patterns' = [patterns EXCEPT ![PatternOf[v.url]] = CountedPattern(@, Outcome(v))]
    /\ browserPages' = IF v.used_browser THEN browserPages + 1 ELSE browserPages
    /\ IF v.success THEN Goto(t, "learned") /\ visit' = visit ELSE Done(t)
    /\ UNCHANGED <<site, domain, documents, spent, latest>>

\* Nothing that is no document, and no wall, is stored.
WriteGate(v) == Document(v) # Nothing /\ Wall(v) = Nothing

\* The document is created, rewritten if what its type watches has changed,
\* or left as it is, its type included.
Store(t) ==
    LET v   == visit[t]
        old == documents[v.url]
        new == [type |-> Type(v), content |-> Document(v).said]
    IN
    /\ phase[t] = "learned"
    /\ IF WriteGate(v)
       THEN /\ documents' = [documents EXCEPT ![v.url] =
                 IF old = NoDocument THEN new
                 ELSE IF DetectChange(old.content, new.content, new.type) = "NO_CHANGE" THEN old ELSE new]
            /\ latest' = [latest EXCEPT ![v.url] = new]
       ELSE UNCHANGED <<documents, latest>>
    /\ Done(t)
    /\ UNCHANGED <<site, domain, patterns, browserPages, spent>>

\* The task is cancelled, or raises: what it has committed stays.
Abort(t) ==
    /\ phase[t] # "idle" /\ spent.aborts < MaxAborts
    /\ Spend("aborts")
    /\ Done(t)
    /\ UNCHANGED <<site, dbVars, browserPages, latest>>

SiteChanges ==
    /\ spent.changes < MaxChanges
    /\ \E u \in Urls : \E face \in Faces[u] \ {site[u]} : site' = [site EXCEPT ![u] = face]
    /\ Spend("changes")
    /\ UNCHANGED <<dbVars, browserPages, phase, visit, latest>>

-----------------------------------------------------------------------------
Init ==
    /\ site \in {f \in [Urls -> UNION {Faces[u] : u \in Urls}] : \A u \in Urls : f[u] \in Faces[u]}
    /\ domain = Zeros(DomainKeys)
    /\ patterns = [p \in Patterns |-> NoPattern]
    /\ documents = [u \in Urls |-> NoDocument] /\ latest = [u \in Urls |-> NoDocument]
    /\ browserPages = 0
    /\ phase = [t \in Tasks |-> "idle"] /\ visit = [t \in Tasks |-> NoVisit]
    /\ spent = [visits |-> 0, changes |-> 0, failures |-> 0, aborts |-> 0]

Work(t) ==
    \/ ReadDomain(t) \/ Route(t) \/ Fetch(t) \/ Escalate(t)
    \/ RecordFetch(t) \/ RecordPattern(t) \/ Store(t)

Next ==
    \/ \E t \in Tasks : Work(t) \/ FetchFails(t) \/ EscalationFails(t) \/ Abort(t)
    \/ SiteChanges

Spec == Init /\ [][Next]_vars

-----------------------------------------------------------------------------
(***************************************************************************)
(* Properties.                                                             *)
(***************************************************************************)

\* crawl_repository.py:264: several tasks count into the same rows at once,
\* from what they read long before.  No observation is lost or counted twice:
\* the domain has those of its patterns, and those of tasks that were cut off
\* or are between the two transactions.
ObservationsAddUp ==
    LET between == Cardinality({t \in Tasks : phase[t] = "counted"})
    IN  Attempts(domain) - SumFunction([p \in Patterns |-> Attempts(Rollup(patterns[p]))]) - between
            \in 0 .. spent.aborts

\* domain_profile_service.py:36: whatever happened in whatever order, and
\* however slow the domain, its health is between none and full.
HealthIsBounded == \A latency \in {0, 1001, 5000, 20000} : HealthScore(domain, latency) \in 0 .. 1000

\* domain_profile_service.py:162: where nothing has been found in any page
\* over HTTP, the domain's row advises the browser as soon as it has been
\* observed enough, by whatever advice and in whatever order the pages were
\* visited, with the budget or without, and whatever the browser found.
NothingOverHttp(face) ==
    LET finds == face.http.finds
    IN  {finds.article, finds.forum, finds.listing, finds.index, finds.generic, finds.scrapling} = {Nothing}

BrowserIsLearned ==
    (/\ \A u \in Urls : NothingOverHttp(site[u])
     /\ spent.changes = 0 /\ spent.failures = 0
     /\ Attempts(domain) >= MinObservations)
    => DecideFromStats(domain) = "browser"

\* What a page of a type is watched for.
Watched(type, s) ==
    IF type \in News THEN <<s.title, s.body, s.author, s.published_at, s.images, s.tags>>
    ELSE IF type \in Forums THEN <<s.title, {<<Identity(post), post.text>> : post \in s.posts}>>
    ELSE IF type = "CLASSIFIED_LISTING"
         THEN <<s.title, s.body, Number(s.price), s.status, s.location, s.images, s.attributes>>
    ELSE IF type \in Indexes /\ Items(s) # {} THEN <<{<<i.id, i.price, i.status>> : i \in Items(s)}>>
    ELSE <<s.title, s.body>>

\* crawl_engine.py:740: whoever wrote a document last, with whatever fetcher,
\* the stored one tells what the last page to be stored told, in all that its
\* type is watched for.
StoredIsLatest ==
    \A u \in Urls :
        latest[u] # NoDocument =>
            Watched(latest[u].type, documents[u].content) = Watched(latest[u].type, latest[u].content)
=============================================================================
