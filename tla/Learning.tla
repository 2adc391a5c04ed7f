-------------------------------- MODULE Learning --------------------------------
(***************************************************************************)
(* What is learned from the visits of a domain's pages, and what is decided *)
(* from it: whether the next page is fetched over HTTP or with a browser,   *)
(* and the health of the domain.  A profile counts outcomes by key; scores  *)
(* are in thousandths and are kept as sums, the program keeps averages.     *)
(***************************************************************************)
EXTENDS PageJudgement, Functions

CONSTANT MinObservations    \* settings.domain_learning_min_observations

Strategies == {"http", "browser"}

Comparisons == {"browser_superior", "http_superior", "equivalent"}

ASSUME LearningAssumption ==
    MinObservations \in Nat \ {0} /\ Nothing \notin Strategies \cup Comparisons

\* Kept for the domain and for every URL pattern.
CommonKeys ==
    {"http_attempts", "http_successes", "browser_attempts", "browser_successes",
     "soft_blocked", "refused", "quality", "quality_observations",
     "browser_superior_count", "http_superior_count", "browser_equivalent_count"}

DomainKeys ==
    CommonKeys \cup {"http_extraction_failures", "js_required_count", "completeness", "completeness_observations"}

PatternKeys == CommonKeys \cup {"extraction_successes"}

Zeros(keys) == [k \in keys |-> 0]

Once(condition) == Points(condition, 1)

Amount(score) == IF score = Nothing THEN 0 ELSE score

\* Broken: extraction is counted as failed where nothing was fetched.
NothingExtracted(o) == ~o.extraction_ok

ExtractionFailed(o) == o.success /\ ~o.extraction_ok

\* What the outcome of a visit adds to each key.
Gain(o) ==
    LET http    == o.strategy = "http"
        browser == o.strategy = "browser"
    IN  [http_attempts             |-> Once(http),
         http_successes            |-> Once(http /\ o.success),
         http_extraction_failures  |-> Once(http /\ ExtractionFailed(o)),
         browser_attempts          |-> Once(browser),
         browser_successes         |-> Once(browser /\ o.success),
         extraction_successes      |-> Once(o.success /\ o.extraction_ok),
         soft_blocked              |-> Once(o.category = "soft_blocked"),
         refused                   |-> Once(o.category = "refused"),
         js_required_count         |-> Once(o.js_required),
         quality                   |-> Amount(o.quality),
         quality_observations      |-> Once(o.quality # Nothing),
         completeness              |-> Amount(o.completeness),
         completeness_observations |-> Once(o.completeness # Nothing),
         browser_superior_count    |-> Once(o.comparison = "browser_superior"),
         http_superior_count       |-> Once(o.comparison = "http_superior"),
         browser_equivalent_count  |-> Once(o.comparison = "equivalent")]

Counted(profile, o) == [k \in DOMAIN profile |-> profile[k] + Gain(o)[k]]

-----------------------------------------------------------------------------
(***************************************************************************)
(* A URL pattern has one row: a bucket of counters for every page type it  *)
(* has been seen with, and the last of these types.                        *)
(***************************************************************************)

NoPattern == [page_type |-> Nothing, buckets |-> <<>>]

Bucket(row, type) == IF type \in DOMAIN row.buckets THEN row.buckets[type] ELSE Zeros(PatternKeys)

\* Broken: only the bucket of the present type is written back.
CountedOfType(row, o) ==
    LET type == IF o.type = Nothing THEN "UNKNOWN" ELSE o.type IN
    [page_type |-> type, buckets |-> [t \in {type} |-> Counted(Bucket(row, t), o)]]

\* record_pattern_outcome.
CountedPattern(row, o) ==
    LET type == IF o.type = Nothing THEN "UNKNOWN" ELSE o.type IN
    [page_type |-> type,
     buckets   |-> [t \in DOMAIN row.buckets \cup {type} |->
                      IF t = type THEN Counted(Bucket(row, t), o) ELSE row.buckets[t]]]

\* _rollup_pattern_aggregates.
Rollup(row) ==
    [k \in PatternKeys |-> SumFunction([t \in DOMAIN row.buckets |-> row.buckets[t][k]])]

Attempts(profile) == profile.http_attempts + profile.browser_attempts

-----------------------------------------------------------------------------
(***************************************************************************)
(* Routing.                                                                *)
(***************************************************************************)

\* A counter that a kind of row does not have counts nothing.
Stat(profile, k) == IF k \in DOMAIN profile THEN profile[k] ELSE 0

\* part / whole > thousandths / 1000; nothing of nothing is no rate.
Exceeds(part, whole, thousandths) == whole > 0 /\ 1000 * part > thousandths * whole

BrowserViable(p) == p.browser_attempts = 0 \/ Exceeds(p.browser_successes, p.browser_attempts, 500)

\* The observations of a score are many, the score is low.
Poor(p, score, observations) ==
    /\ Stat(p, observations) >= MinObservations /\ Stat(p, score) < 400 * Stat(p, observations)
    /\ p.http_attempts >= MinObservations

BrowserWins(p) ==
    LET compared == p.browser_superior_count + p.http_superior_count + p.browser_equivalent_count
    IN  compared >= MinObservations /\ 10 * p.browser_superior_count >= 6 * compared

\* _decide_from_stats.
DecideFromStats(p) ==
    IF Attempts(p) < MinObservations THEN Nothing
    ELSE IF /\ BrowserViable(p)
            /\ \/ BrowserWins(p)
               \/ Poor(p, "quality", "quality_observations")
               \/ Poor(p, "completeness", "completeness_observations")
               \/ p.http_attempts >= MinObservations /\ Exceeds(p.soft_blocked, p.http_attempts, 300)
               \/ Exceeds(p.http_attempts - p.http_successes, p.http_attempts, 600)
               \/ Exceeds(Stat(p, "http_extraction_failures"), p.http_successes, 600)
         THEN "browser" ELSE "http"

\* decide_routing, as it is called: no strategy is requested, and nothing is
\* known yet of this page.  The pattern's row is asked first.
DecideRouting(ofPattern, ofDomain) ==
    IF ofPattern # Nothing THEN ofPattern ELSE IF ofDomain # Nothing THEN ofDomain ELSE "http"

\* Browsers have been needed for two in five of the pages fetched over HTTP.
Prior(p) == p.http_attempts > 0 /\ 10 * p.js_required_count >= 4 * p.http_attempts

-----------------------------------------------------------------------------
(***************************************************************************)
(* Health, in tenths of a point.                                           *)
(***************************************************************************)

Share(weight, part, whole) == (weight * part) \div whole

Blocked(p) == p.soft_blocked + p.refused

LatencyScore(latency) ==
    IF latency <= 1000 THEN 150 ELSE IF latency >= 10000 THEN 0 ELSE Share(150, 10000 - latency, 9000)

\* compute_health_score.
HealthScore(p, latency) ==
    LET total == Attempts(p) IN
    IF total < MinObservations THEN 500
    ELSE Share(400, p.http_successes + p.browser_successes, total)
       + (IF p.http_successes = 0 THEN 300
          ELSE Share(300, p.http_successes - p.http_extraction_failures, p.http_successes))
       + Share(150, total - Blocked(p), total)
       + LatencyScore(latency)
=============================================================================
