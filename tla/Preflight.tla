----------------------------- MODULE Preflight -----------------------------
(***************************************************************************)
(* POST /preflight: PreflightService.run resolves the host, walks the      *)
(* redirects of the homepage, looks for robots.txt, sitemap and feeds as   *)
(* the discovery does, extracts some sample pages, renders the homepage if *)
(* it seems to need it, and saves a report with a score.  Its Chromium is  *)
(* launched outside the slots of the page tasks.                           *)
(***************************************************************************)
EXTENDS SeedDiscovery

CONSTANTS
    MaxHops,        \* MAX_REDIRECTS
    MaxSamples,     \* settings.preflight_max_sample_pages
    Homepages       \* [type, body, links, js, extracted]: what a homepage may be

VARIABLES
    hops,       \* redirects followed
    home,       \* the homepage, once it is there
    evidence,   \* what the checks found
    report      \* the saved report: its status and score

preflightVars == <<hops, home, evidence, report>>

ASSUME PreflightAssumption ==
    /\ {MaxHops, MaxSamples} \subseteq Nat
    /\ Homepages \subseteq
         [type : {"html", "other", "none"}, body : BOOLEAN, links : Nat, js : BOOLEAN, extracted : BOOLEAN]

NoEvidence ==
    [ok |-> FALSE, type |-> "none", allowed |-> TRUE, links |-> 0, js |-> FALSE,
     attempts |-> <<>>, browser |-> "none"]

NoHomepage == [type |-> "none", body |-> FALSE, links |-> 0, js |-> FALSE, extracted |-> FALSE]

NoReport == [status |-> "none", score |-> 0]

PreflightInit ==
    /\ hops = 0 /\ home = NoHomepage
    /\ evidence = NoEvidence /\ report = NoReport

At(s) == purpose = "preflight" /\ stage = s

Go(s) ==
    /\ stage' = s
    /\ UNCHANGED <<site, purpose, candidates, seen, root, walk, files, truncated, lost, outcome, row>>

\* _failed_report
Fail == Go("reported") /\ report' = [status |-> "failed", score |-> 0]

-----------------------------------------------------------------------------
(***************************************************************************)
(* calculate_capability_score                                              *)
(***************************************************************************)

Least(a, b) == IF a <= b THEN a ELSE b

\* round(p / q): half goes to the even neighbour.
Rounded(p, q) ==
    LET d == p \div q  r == 2 * (p % q)
    IN IF r > q \/ (r = q /\ d % 2 = 1) THEN d + 1 ELSE d

Points(condition, points) == IF condition THEN points ELSE 0

DiscoveryScore(sitemap, feed, e) ==
    Rounded(2 * (Points(sitemap, 40) + Points(feed, 30)) + Least(60, 3 * e.links), 2)

FetchScore(e) == Least(IF e.ok THEN 100 ELSE 40, IF e.allowed THEN 100 ELSE 50)

ExtractionScore(e) ==
    LET fetched == {i \in DOMAIN e.attempts : e.attempts[i] # "lost"}
        good    == {i \in fetched : e.attempts[i] = "extracted"}
    IN IF fetched = {} THEN 0 ELSE Rounded(100 * Cardinality(good), Cardinality(fetched))

\* Broken: the points for a page the browser did and did not improve are
\* swapped.
RenderingScoreSwapped(e) ==
    IF ~e.js /\ e.attempts # <<>> /\ e.attempts[1] = "extracted" THEN 100
    ELSE CASE e.browser = "none"     -> IF e.js THEN 50 ELSE 80
           [] e.browser = "failed"   -> 30
           [] e.browser = "improved" -> 70
           [] e.browser = "same"     -> 90

RenderingScore(e) ==
    IF ~e.js /\ e.attempts # <<>> /\ e.attempts[1] = "extracted" THEN 100
    ELSE CASE e.browser = "none"     -> IF e.js THEN 50 ELSE 80
           [] e.browser = "failed"   -> 30
           [] e.browser = "improved" -> 90
           [] e.browser = "same"     -> 70

ContentTypeScore(e) == CASE e.type = "html" -> 100 [] e.type = "other" -> 60 [] e.type = "none" -> 40

Capability(sitemap, feed, e) ==
    Rounded(30 * DiscoveryScore(sitemap, feed, e) + 25 * FetchScore(e) + 25 * ExtractionScore(e)
            + 10 * RenderingScore(e) + 10 * ContentTypeScore(e), 100)

-----------------------------------------------------------------------------
(***************************************************************************)
(* PreflightService.run                                                    *)
(***************************************************************************)

\* validate_scheme and check_dns.
Resolved ==
    /\ At("resolving") /\ Go("connecting")
    /\ UNCHANGED preflightVars

NotResolved == At("resolving") /\ Fail /\ UNCHANGED <<hops, home, evidence>>

\* check_http: one more hop, or too many of them.
Redirect ==
    /\ At("connecting")
    /\ \/ /\ hops < MaxHops
          /\ hops' = hops + 1
          /\ UNCHANGED <<discoveryVars, report>>
       \/ Fail /\ UNCHANGED hops
    /\ UNCHANGED <<home, evidence>>

Connected ==
    /\ At("connecting") /\ Go("robots")
    /\ home' \in Homepages
    /\ \E ok \in BOOLEAN :
         evidence' = [evidence EXCEPT !.ok = ok, !.type = home'.type, !.links = home'.links, !.js = home'.js]
    /\ UNCHANGED <<hops, report>>

Unreachable == At("connecting") /\ Fail /\ UNCHANGED <<hops, home, evidence>>

\* The transport cannot resolve the name any more: its error is caught nowhere
\* and the request ends without a report.
Raised == At("connecting") /\ Go("raised") /\ UNCHANGED preflightVars

\* check_robots, check_sitemap and check_feeds.
Checked ==
    /\ purpose = "preflight"
    /\ \/ /\ ReadRobots
          /\ \E allowed \in BOOLEAN : evidence' = [evidence EXCEPT !.allowed = allowed]
       \/ (CheckSitemap \/ CheckFeeds) /\ UNCHANGED evidence
    /\ UNCHANGED <<hops, home, report>>

CheckFails ==
    /\ purpose = "preflight"
    /\ RobotsFails \/ CandidateFails
    /\ UNCHANGED preflightVars

Tried(what) == evidence' = [evidence EXCEPT !.attempts = Append(@, what)]

\* The homepage, then pages that the sitemap and the homepage name.
Sampled ==
    /\ At("sampling") /\ home.body
    /\ IF evidence.attempts = <<>>
       THEN Tried(IF home.extracted THEN "extracted" ELSE "fetched")
       ELSE /\ Len(evidence.attempts) < MaxSamples
            /\ evidence.links > 0 \/ outcome.sitemap = "available"
            /\ \E what \in {"fetched", "extracted", "lost"} : Tried(what)
    /\ UNCHANGED <<discoveryVars, hops, home, report>>

\* No page, or no further one.
SamplesDone ==
    /\ At("sampling")
    /\ home.body => evidence.attempts # <<>>
    /\ Go(IF home.js THEN "rendering" ELSE "reporting")
    /\ UNCHANGED preflightVars

\* try_browser_render
Rendered ==
    /\ At("rendering") /\ Go("reporting")
    /\ \/ evidence' = [evidence EXCEPT !.browser = "same"]
       \/ evidence' = [evidence EXCEPT !.browser = "improved", !.attempts = Append(@, "extracted")]
    /\ UNCHANGED <<hops, home, report>>

RenderingFails ==
    /\ At("rendering") /\ Go("reporting")
    /\ evidence' = [evidence EXCEPT !.browser = "failed"]
    /\ UNCHANGED <<hops, home, report>>

Report ==
    /\ At("reporting") /\ Go("reported")
    /\ report' = [status |-> "completed",
                  score |-> Capability(outcome.sitemap = "available", outcome.feed = "available", evidence)]
    /\ UNCHANGED <<hops, home, evidence>>

PreflightStep == Resolved \/ Redirect \/ Connected \/ Checked \/ Sampled \/ SamplesDone \/ Rendered \/ Report

PreflightFault == NotResolved \/ Unreachable \/ Raised \/ CheckFails \/ RenderingFails

PreflightTypeOK ==
    /\ hops \in 0..MaxHops /\ home \in Homepages \cup {NoHomepage}
    /\ {evidence.ok, evidence.allowed, evidence.js} \subseteq BOOLEAN
    /\ \A i \in DOMAIN evidence.attempts : evidence.attempts[i] \in {"fetched", "extracted", "lost"}
    /\ report.status \in {"none", "completed", "failed"} /\ report.score \in 0..100
=============================================================================
