--------------------------- MODULE SeedDiscovery ---------------------------
(***************************************************************************)
(* What is looked for before a crawl: discover_extra_seeds reads           *)
(* robots.txt, looks for a sitemap, walks it file by file, looks for a     *)
(* feed and reads its entries; persist_discovery_outcome writes what       *)
(* became of it to the domain's row.                                       *)
(*                                                                         *)
(* A site is a record: the sitemaps its robots.txt lists, the kind of each *)
(* of its files, what they contain, and the answers at the usual feeds.    *)
(***************************************************************************)
EXTENDS Integers, Sequences, FiniteSets

CONSTANTS
    Sites,
    Default,        \* the file /sitemap.xml
    MaxSitemaps,    \* sitemaps asked for
    MaxFeeds,       \* feeds asked for
    MaxDepth,       \* _depth
    MaxNested,      \* MAX_NESTED_SITEMAPS
    MaxPerFile,     \* MAX_URLS_PER_SITEMAP
    MaxTotal,       \* MAX_TOTAL_URLS
    MaxEntries      \* _MAX_FEED_ENTRIES

VARIABLES
    site,       \* the web site
    purpose,    \* who asks: a crawl, or a preflight request
    stage,      \* progress of the discovery
    candidates, \* URLs still to be asked for, of sitemaps or feeds
    seen,       \* saw_blocked, saw_failed, saw_not_present, saw_invalid
    root,       \* sitemap.sitemap_url
    walk,       \* the calls of discover_sitemap_urls in progress
    files,      \* sitemap_files_fetched
    truncated,  \* SitemapDiscoveryResult.truncated
    lost,       \* history: files of the walk that were not read
    outcome,    \* DiscoveryOutcome
    row         \* the discovery columns of the domain's row

discoveryVars == <<site, purpose, stage, candidates, seen, root, walk, files, truncated, lost, outcome, row>>

ASSUME DiscoveryAssumption ==
    /\ {MaxSitemaps, MaxFeeds, MaxDepth, MaxNested, MaxPerFile, MaxEntries} \subseteq Nat
    /\ MaxTotal \in Nat \ {0}

Elements(s) == {s[i] : i \in DOMAIN s}

\* Sitemaps lead to files of the site, whether these are there or not.
ASSUME SitesAssumption ==
    \A s \in Sites :
        LET Files == DOMAIN s.kind IN
        /\ IsFiniteSet(Files) /\ DOMAIN s.has = Files /\ Default \in Files
        /\ s.listed \in Seq(Files)
        /\ \A f \in Files : s.has[f] \in Seq(IF s.kind[f] = "index" THEN Files ELSE Elements(s.has[f]))
        /\ s.entries \in Seq(Elements(s.entries))

Statuses == {"unknown", "available", "blocked", "failed", "invalid", "not_present"}

NothingFound == [sitemap |-> "unknown", feed |-> "unknown", pages |-> <<>>, entries |-> <<>>]

First(s, n) == SubSeq(s, 1, IF Len(s) < n THEN Len(s) ELSE n)

DiscoveryInit ==
    /\ site \in Sites
    /\ \/ purpose = "crawl" /\ stage = "robots"
       \/ purpose = "preflight" /\ stage = "resolving"
    /\ candidates = <<>> /\ seen = {}
    /\ root = Default /\ walk = <<>> /\ files = 0 /\ truncated = FALSE /\ lost = {}
    /\ outcome = NothingFound
    /\ row = [sitemap |-> "unknown", feed |-> "unknown", pages |-> 0, entries |-> 0]

\* check_robots: without a list of sitemaps, or without an answer, the usual
\* place is tried.
AfterRobots(listed) ==
    /\ stage = "robots"
    /\ stage' = "sitemap"
    /\ candidates' = IF listed = <<>> THEN <<Default>> ELSE First(listed, MaxSitemaps)
    /\ UNCHANGED <<site, purpose, seen, root, walk, files, truncated, lost, outcome, row>>

ReadRobots  == AfterRobots(site.listed)
RobotsFails == AfterRobots(<<>>)

-----------------------------------------------------------------------------
(***************************************************************************)
(* check_sitemap and check_feeds: candidates are asked for in turn.        *)
(***************************************************************************)

\* The worst that was seen.
Worst(s) ==
    IF "blocked" \in s THEN "blocked"
    ELSE IF "failed" \in s THEN "failed"
    ELSE IF "invalid" \in s THEN "invalid" ELSE "not_present"

\* A candidate is no use; the next one is tried.
NoUse(what) ==
    /\ seen' = seen \cup {what}
    /\ candidates' = Tail(candidates)
    /\ UNCHANGED <<site, purpose, stage, root, walk, files, truncated, lost, outcome, row>>

\* On to the feeds, with what is known about the sitemap.
SitemapIs(status) ==
    /\ outcome' = [outcome EXCEPT !.sitemap = status]
    /\ stage' = "feeds" /\ candidates' = First(site.feeds, MaxFeeds) /\ seen' = {}
    /\ UNCHANGED <<site, purpose, root, walk, files, truncated, lost, row>>

\* A preflight leaves it at that.  For a crawl the walk starts with the
\* sitemap's own URL as the only file to read.
SitemapFound(file) ==
    IF purpose = "preflight" THEN SitemapIs("available") ELSE
    /\ outcome' = [outcome EXCEPT !.sitemap = "available"]
    /\ stage' = "walking"
    /\ root' = file
    /\ walk' = <<[rest |-> <<file>>, urls |-> <<>>]>>
    /\ UNCHANGED <<site, purpose, candidates, seen, files, truncated, lost, row>>

\* A file that is there and no XML, or a redirect, ends the search.
CheckSitemap ==
    /\ stage = "sitemap"
    /\ IF candidates = <<>> THEN SitemapIs(Worst(seen))
       ELSE LET file == Head(candidates) IN
            CASE site.kind[file] = "absent"  -> NoUse("not_present")
              [] site.kind[file] = "garbled" -> SitemapIs("invalid")
              [] OTHER                       -> SitemapFound(file)

FeedIs(status) ==
    /\ outcome' = [outcome EXCEPT !.feed = status]
    /\ stage' = IF purpose = "preflight" THEN "sampling"
                ELSE IF status = "available" THEN "entries" ELSE "recording"
    /\ candidates' = <<>> /\ seen' = {}
    /\ UNCHANGED <<site, purpose, root, walk, files, truncated, lost, row>>

CheckFeeds ==
    /\ stage = "feeds"
    /\ IF candidates = <<>> THEN FeedIs(Worst(seen \ {"not_present"}))
       ELSE CASE Head(candidates) = "absent"  -> NoUse("not_present")
              [] Head(candidates) = "garbled" -> NoUse("invalid")
              [] OTHER                        -> FeedIs("available")

\* The request fails, or is refused with 403 or 429.
CandidateFails ==
    /\ stage \in {"sitemap", "feeds"} /\ candidates # <<>>
    /\ \E what \in {"failed", "blocked"} : NoUse(what)

-----------------------------------------------------------------------------
(***************************************************************************)
(* discover_sitemap_urls, which calls itself for every nested file: the    *)
(* last element of walk is the innermost call.                             *)
(***************************************************************************)

Top == walk[Len(walk)]

\* The innermost call goes on with its next file.
Advanced == [walk EXCEPT ![Len(walk)].rest = Tail(@)]

MayOpen == stage = "walking" /\ Top.rest # <<>> /\ Len(Top.urls) < MaxTotal

\* A file that cannot be fetched or parsed, or lies too deep, gives nothing.
Lose(file) ==
    /\ lost' = lost \cup {file}
    /\ walk' = Advanced
    /\ UNCHANGED <<site, purpose, stage, candidates, seen, root, files, truncated, outcome, row>>

TooDeep == Len(walk) - 1 > MaxDepth

\* Broken: all the pages of a file.
ReadPagesAll(file) ==
    /\ walk' = [Advanced EXCEPT ![Len(walk)].urls = @ \o site.has[file]]
    /\ truncated' = (truncated \/ Len(site.has[file]) > MaxPerFile)

ReadPages(file) ==
    /\ walk' = [Advanced EXCEPT ![Len(walk)].urls = @ \o First(site.has[file], MaxPerFile)]
    /\ truncated' = (truncated \/ Len(site.has[file]) > MaxPerFile)

\* Broken: files beyond the limit are passed over in silence.
ReadIndexSilently(file) ==
    /\ walk' = Append(Advanced, [rest |-> First(site.has[file], MaxNested), urls |-> <<>>])
    /\ UNCHANGED truncated

ReadIndex(file) ==
    /\ walk' = Append(Advanced, [rest |-> First(site.has[file], MaxNested), urls |-> <<>>])
    /\ truncated' = (truncated \/ Len(site.has[file]) > MaxNested)

OpenFile ==
    LET file == Head(Top.rest) IN
    /\ MayOpen
    /\ IF TooDeep \/ site.kind[file] \in {"absent", "garbled"} THEN Lose(file)
       ELSE /\ IF site.kind[file] = "index" THEN ReadIndex(file) ELSE ReadPages(file)
            /\ files' = files + 1
            /\ UNCHANGED <<site, purpose, stage, candidates, seen, root, lost, outcome, row>>

FileFails == MayOpen /\ Lose(Head(Top.rest))

\* A call has read all its files, or found enough, and gives its URLs to its
\* caller; the outermost to the discovery.
Return ==
    /\ stage = "walking"
    /\ Top.rest = <<>> \/ Len(Top.urls) >= MaxTotal
    /\ truncated' = (truncated \/ Top.rest # <<>>)
    /\ UNCHANGED <<site, purpose, root, files, lost, row>>
    /\ LET calls == SubSeq(walk, 1, Len(walk) - 1) IN
       IF calls # <<>>
       THEN /\ walk' = [calls EXCEPT ![Len(calls)].urls = @ \o Top.urls]
            /\ UNCHANGED <<stage, candidates, seen, outcome>>
       ELSE /\ walk' = <<>>
            /\ outcome' = [outcome EXCEPT !.pages = Top.urls]
            /\ stage' = "feeds" /\ candidates' = First(site.feeds, MaxFeeds) /\ seen' = {}

-----------------------------------------------------------------------------
Entries(urls) ==
    /\ stage = "entries"
    /\ outcome' = [outcome EXCEPT !.entries = urls]
    /\ stage' = "recording"
    /\ UNCHANGED <<site, purpose, candidates, seen, root, walk, files, truncated, lost, row>>

\* _feed_entry_links; an exception there ends the discovery with what it has.
ReadEntries  == Entries(First(site.entries, MaxEntries))
EntriesFail  == Entries(<<>>)

Recorded(columns) ==
    /\ stage = "recording"
    /\ stage' = "over"
    /\ row' = columns
    /\ UNCHANGED <<site, purpose, candidates, seen, root, walk, files, truncated, lost, outcome>>

\* persist_discovery_outcome, whose failure is swallowed.
Record == Recorded([sitemap |-> outcome.sitemap, feed |-> outcome.feed,
                    pages |-> Len(outcome.pages), entries |-> Len(outcome.entries)])
RecordFails == Recorded(row)

DiscoveryStep ==
    ReadRobots \/ CheckSitemap \/ OpenFile \/ Return \/ CheckFeeds \/ ReadEntries \/ Record

DiscoveryFault == RobotsFails \/ CandidateFails \/ FileFails \/ EntriesFail \/ RecordFails

\* The extra seeds.
Seeds == LET urls == outcome.pages \o outcome.entries IN {urls[i] : i \in DOMAIN urls}

DiscoveryTypeOK ==
    /\ site \in Sites
    /\ purpose \in {"crawl", "preflight"}
    /\ stage \in {"resolving", "connecting", "robots", "sitemap", "walking", "feeds", "entries", "recording",
                  "over", "sampling", "rendering", "reporting", "reported", "raised"}
    /\ seen \subseteq Statuses
    /\ Len(walk) <= MaxDepth + 2
    /\ files \in Nat /\ truncated \in BOOLEAN
    /\ {outcome.sitemap, outcome.feed, row.sitemap, row.feed} \subseteq Statuses
    /\ {row.pages, row.entries} \subseteq Nat
=============================================================================
