-------------------------- MODULE PageVisits_proofs --------------------------
(***************************************************************************)
(* The health of a domain, the ledger its tasks keep in two transactions,   *)
(* what is learned of a site that says nothing over HTTP, and what is       *)
(* stored: for any site, any number of tasks, and however pages are judged. *)
(* Of PageJudgement only what is not found is looked into.                  *)
(***************************************************************************)
EXTENDS PageVisits, FiniteSetTheorems, WellFoundedInduction, TLAPS

\* A visit has these fields, with any values.
Visits(V) ==
    [url : V, advice : V, prior : V, hint : V, strategy : V, page : V, found : V, comparison : V, success : V,
     used_browser : V]

Shape ==
    /\ phase \in [Tasks -> Phases]
    /\ \E V : visit \in [Tasks -> Visits(V)]

LEMMA ShapeInit == Init => Shape
<1> SUFFICES ASSUME Init PROVE Shape
  OBVIOUS
<1>1. NoVisit \in Visits({Nothing, FALSE})
  BY DEF NoVisit, Visits
<1> QED BY <1>1 DEF Init, Shape, Phases

LEMMA ShapeNext ==
    ASSUME Shape, [Next]_vars
    PROVE  Shape'
<1>1. CASE UNCHANGED vars
  BY <1>1 DEF vars, Shape
<1>2. CASE SiteChanges
  BY <1>2 DEF SiteChanges, Shape
<1>4. ASSUME NEW t \in Tasks, Work(t) \/ FetchFails(t) \/ EscalationFails(t) \/ Abort(t) PROVE Shape'
  <2>0. PICK V : visit \in [Tasks -> Visits(V)]
    BY DEF Shape
  <2> DEFINE W(values) == V \cup values
  <2>1. \A values : [Tasks -> Visits(V)] \subseteq [Tasks -> Visits(W(values))]
    BY DEF Visits
  <2>2. ASSUME \E values : visit' \in [Tasks -> Visits(W(values))], \E ph \in Phases : Goto(t, ph)
        PROVE  Shape'
    BY <2>2 DEF Shape, Goto
  <2> HIDE DEF W
  <2>3. ASSUME Done(t) PROVE Shape'
    <3>1. NoVisit \in Visits(W({Nothing, FALSE}))
      BY DEF NoVisit, Visits, W
    <3>2. visit \in [Tasks -> Visits(W({Nothing, FALSE}))]
      BY <2>0, <2>1
    <3>3. visit' \in [Tasks -> Visits(W({Nothing, FALSE}))]
      BY <2>3, <3>1, <3>2 DEF Done
    <3>4. Goto(t, "idle") /\ "idle" \in Phases
      BY <2>3 DEF Done, Phases
    <3> QED BY <2>2, <3>3, <3>4
  <2>4. \A ph \in Phases : Goto(t, ph) /\ UNCHANGED visit => Shape'
    BY <2>0 DEF Goto, Shape
  <2>5. CASE ReadDomain(t)
    <3>1. PICK u, a, p : visit' = [visit EXCEPT ![t] = [NoVisit EXCEPT !.url = u, !.advice = a, !.prior = p]]
      BY <2>5 DEF ReadDomain
    <3> DEFINE X == W({Nothing, FALSE, u, a, p})
    <3>2. [NoVisit EXCEPT !.url = u, !.advice = a, !.prior = p] \in Visits(X)
      BY DEF NoVisit, Visits, W
    <3>3. visit \in [Tasks -> Visits(X)]
      BY <2>0, <2>1
    <3>4. visit' \in [Tasks -> Visits(X)]
      BY <3>1, <3>2, <3>3
    <3>5. Goto(t, "reading") /\ "reading" \in Phases
      BY <2>5 DEF ReadDomain, Phases
    <3> QED BY <2>2, <3>4, <3>5
  <2>6. CASE Route(t)
    <3>1. PICK h, s : visit' = [visit EXCEPT ![t].hint = h, ![t].strategy = s]
      BY <2>6 DEF Route
    <3> DEFINE X == W({h, s})
    <3>2. visit \in [Tasks -> Visits(X)] /\ h \in X /\ s \in X
      BY <2>0, <2>1 DEF W
    <3> HIDE DEF X
    <3>3. visit' \in [Tasks -> Visits(X)]
      <4>1. visit[t] \in Visits(X)
        BY <3>2
      <4>2. [visit[t] EXCEPT !.hint = h, !.strategy = s] \in Visits(X)
        BY <3>2, <4>1 DEF Visits
      <4>3. visit' = [visit EXCEPT ![t] = [visit[t] EXCEPT !.hint = h, !.strategy = s]]
        BY <3>1, <3>2
      <4> QED BY <3>2, <4>2, <4>3
    <3>4. Goto(t, "fetching") /\ "fetching" \in Phases
      BY <2>6 DEF Route, Phases
    <3> USE DEF X
    <3> QED BY <2>2, <3>3, <3>4
  <2>7. CASE Fetch(t)
    <3>1. PICK p, f, b : visit' = [visit EXCEPT ![t].page = p, ![t].found = f, ![t].success = TRUE, ![t].used_browser = b]
      BY <2>7 DEF Fetch
    <3> DEFINE X == W({p, f, b, TRUE})
    <3>2. visit \in [Tasks -> Visits(X)] /\ p \in X /\ f \in X /\ b \in X /\ TRUE \in X
      BY <2>0, <2>1 DEF W
    <3> HIDE DEF X
    <3>3. visit' \in [Tasks -> Visits(X)]
      <4>1. visit[t] \in Visits(X)
        BY <3>2
      <4>2. [visit[t] EXCEPT !.page = p, !.found = f, !.success = TRUE, !.used_browser = b] \in Visits(X)
        BY <3>2, <4>1 DEF Visits
      <4>3. visit' = [visit EXCEPT ![t] = [visit[t] EXCEPT !.page = p, !.found = f, !.success = TRUE, !.used_browser = b]]
        BY <3>1, <3>2
      <4> QED BY <3>2, <4>2, <4>3
    <3>4. \E ph \in Phases : Goto(t, ph)
      BY <2>7 DEF Fetch, Phases
    <3> USE DEF X
    <3> QED BY <2>2, <3>3, <3>4
  <2>8. CASE Escalate(t)
    <3>1. PICK p, f, c, v :
            /\ visit' = [visit EXCEPT ![t] = v]
            /\ v \in {[visit[t] EXCEPT !.page = p, !.found = f, !.comparison = c, !.used_browser = TRUE],
                     [visit[t] EXCEPT !.comparison = c]}
      BY <2>8 DEF Escalate
    <3> DEFINE X == W({p, f, c, TRUE})
    <3>2. visit \in [Tasks -> Visits(X)] /\ p \in X /\ f \in X /\ c \in X /\ TRUE \in X
      BY <2>0, <2>1 DEF W
    <3> HIDE DEF X
    <3>5. [visit[t] EXCEPT !.comparison = c] \in Visits(X)
      BY <3>2 DEF Visits
    <3>6. [visit[t] EXCEPT !.page = p, !.found = f, !.comparison = c, !.used_browser = TRUE] \in Visits(X)
      BY <3>2 DEF Visits
    <3>3. visit' \in [Tasks -> Visits(X)]
      BY <3>1, <3>2, <3>5, <3>6
    <3>4. Goto(t, "visited") /\ "visited" \in Phases
      BY <2>8 DEF Escalate, Phases
    <3> USE DEF X
    <3> QED BY <2>2, <3>3, <3>4
  <2>9. CASE FetchFails(t) \/ EscalationFails(t) \/ RecordFetch(t)
    <3>1. "visited" \in Phases /\ "counted" \in Phases
      BY DEF Phases
    <3> QED BY <2>4, <2>9, <3>1 DEF FetchFails, EscalationFails, RecordFetch
  <2>10. CASE RecordPattern(t)
    <3>1. "learned" \in Phases
      BY DEF Phases
    <3> QED BY <2>3, <2>4, <2>10, <3>1 DEF RecordPattern
  <2>11. CASE Store(t) \/ Abort(t)
    BY <2>3, <2>11 DEF Store, Abort
  <2> QED BY <1>4, <2>5, <2>6, <2>7, <2>8, <2>9, <2>10, <2>11 DEF Work
<1> QED BY <1>1, <1>2, <1>4 DEF Next

LEMMA ShapeHolds == Spec => []Shape
BY ShapeInit, ShapeNext, PTL DEF Spec

-----------------------------------------------------------------------------
(***************************************************************************)
(* What the budget is compared with is a number, and a visit says whether   *)
(* its page came from a browser.                                           *)
(***************************************************************************)

UsageInv == browserPages \in Nat /\ \A t \in Tasks : visit[t].used_browser \in BOOLEAN

LEMMA TasksCount ==
    \A S : S \subseteq Tasks => IsFiniteSet(S) /\ Cardinality(S) \in Nat
BY VisitAssumption, FS_CardinalityType, FS_Subset

LEMMA UsageInit == Init => UsageInv
<1> SUFFICES ASSUME Init PROVE UsageInv
  OBVIOUS
<1>1. browserPages = 0 /\ \A t \in Tasks : visit[t] = NoVisit
  BY DEF Init
<1>2. NoVisit.used_browser = FALSE
  BY DEF NoVisit
<1> QED BY <1>1, <1>2 DEF UsageInv

LEMMA UsageStep ==
    ASSUME Shape, UsageInv, [Next]_vars
    PROVE  UsageInv'
<1>1. CASE UNCHANGED vars
  BY <1>1 DEF vars, UsageInv
<1>2. CASE SiteChanges
  BY <1>2 DEF SiteChanges, UsageInv
<1>3. ASSUME NEW t \in Tasks, Work(t) \/ FetchFails(t) \/ EscalationFails(t) \/ Abort(t)
      PROVE  UsageInv'
  <2>0. PICK V : visit \in [Tasks -> Visits(V)]
    BY DEF Shape
  <2>1. browserPages' \in Nat
    <3>1. CASE RecordPattern(t)
      <4>1. browserPages' = browserPages \/ browserPages' = browserPages + 1
        BY <3>1, Zenon DEF RecordPattern
      <4> QED BY <4>1 DEF UsageInv
    <3>2. ASSUME ~RecordPattern(t) PROVE UNCHANGED browserPages
      BY <1>3, <3>2, Zenon DEF Work, ReadDomain, Route, Fetch, FetchFails, Escalate, EscalationFails,
                               RecordFetch, Store, Abort, dbVars
    <3> QED BY <3>1, <3>2 DEF UsageInv
  <2>2. ASSUME NEW v, visit' = [visit EXCEPT ![t] = v], v.used_browser \in BOOLEAN
        PROVE  UsageInv'
    BY <2>0, <2>1, <2>2 DEF UsageInv
  <2>3. NoVisit.used_browser \in BOOLEAN /\ visit[t].used_browser \in BOOLEAN /\ visit[t] \in Visits(V)
    BY <2>0 DEF NoVisit, UsageInv
  <2>4. CASE ReadDomain(t)
    <3>1. PICK u, a, p : visit' = [visit EXCEPT ![t] = [NoVisit EXCEPT !.url = u, !.advice = a, !.prior = p]]
      BY <2>4 DEF ReadDomain
    <3> QED BY <2>2, <3>1 DEF NoVisit
  <2>5. CASE Route(t)
    <3>1. PICK h, s : visit' = [visit EXCEPT ![t] = [visit[t] EXCEPT !.hint = h, !.strategy = s]]
      BY <2>0, <2>5 DEF Route
    <3> QED BY <2>2, <2>3, <3>1 DEF Visits
  <2>6. CASE Fetch(t)
    <3>1. PICK p, f : visit' = [visit EXCEPT ![t].page = p, ![t].found = f, ![t].success = TRUE,
                                            ![t].used_browser = (visit[t].strategy = "browser")]
      BY <2>6 DEF Fetch
    <3> DEFINE v == [visit[t] EXCEPT !.page = p, !.found = f, !.success = TRUE,
                                     !.used_browser = (visit[t].strategy = "browser")]
    <3>2. visit' = [visit EXCEPT ![t] = v]
      BY <2>0, <3>1
    <3>3. v.used_browser \in BOOLEAN
      BY <2>3 DEF Visits
    <3> HIDE DEF v
    <3> QED BY <2>2, <3>2, <3>3
  <2>7. CASE Escalate(t)
    <3>1. PICK p, f, c, v :
            /\ visit' = [visit EXCEPT ![t] = v]
            /\ v \in {[visit[t] EXCEPT !.page = p, !.found = f, !.comparison = c, !.used_browser = TRUE],
                     [visit[t] EXCEPT !.comparison = c]}
      BY <2>7 DEF Escalate
    <3> QED BY <2>2, <2>3, <3>1 DEF Visits
  <2>8. CASE FetchFails(t) \/ EscalationFails(t) \/ RecordFetch(t)
    BY <2>1, <2>8 DEF FetchFails, EscalationFails, RecordFetch, UsageInv
  <2>9. CASE RecordPattern(t)
    <3>1. visit' = visit \/ visit' = [visit EXCEPT ![t] = NoVisit]
      BY <2>9 DEF RecordPattern, Done
    <3> QED BY <2>1, <2>2, <2>3, <3>1 DEF UsageInv
  <2>10. CASE Store(t) \/ Abort(t)
    BY <2>2, <2>3, <2>10 DEF Store, Abort, Done
  <2> QED BY <1>3, <2>4, <2>5, <2>6, <2>7, <2>8, <2>9, <2>10 DEF Work
<1> QED BY <1>1, <1>2, <1>3 DEF Next

-----------------------------------------------------------------------------
(***************************************************************************)
(* Health: whatever a visit comes to, it is one attempt, a success is an    *)
(* attempt, a page without a document is a success, and a wall or a refusal *)
(* is one of them.                                                         *)
(***************************************************************************)

HealthKeys ==
    {"http_attempts", "http_successes", "http_extraction_failures", "browser_attempts", "browser_successes",
     "soft_blocked", "refused"}

Consistent(p) ==
    /\ \A k \in HealthKeys : p[k] \in Nat
    /\ p.http_extraction_failures <= p.http_successes /\ p.http_successes <= p.http_attempts
    /\ p.browser_successes <= p.browser_attempts
    /\ p.soft_blocked + p.refused <= p.http_attempts + p.browser_attempts

LEMMA GainIsConsistent ==
    ASSUME NEW o, o.strategy \in Strategies
    PROVE  Consistent(Gain(o))
<1> DEFINE http == o.strategy = "http"
           browser == o.strategy = "browser"
<1>1. /\ Gain(o).http_attempts = Once(http) /\ Gain(o).http_successes = Once(http /\ o.success)
      /\ Gain(o).http_extraction_failures = Once(http /\ ExtractionFailed(o))
      /\ Gain(o).browser_attempts = Once(browser) /\ Gain(o).browser_successes = Once(browser /\ o.success)
      /\ Gain(o).soft_blocked = Once(o.category = "soft_blocked") /\ Gain(o).refused = Once(o.category = "refused")
  BY DEF Gain
<1>2. Once(http) + Once(browser) = 1
  BY DEF Strategies, Once, Points
<1>3. Once(o.category = "soft_blocked") + Once(o.category = "refused") <= 1
  BY DEF Once, Points
<1>4. /\ Once(http /\ ExtractionFailed(o)) <= Once(http /\ o.success)
      /\ Once(http /\ o.success) <= Once(http) /\ Once(browser /\ o.success) <= Once(browser)
  BY DEF Once, Points, ExtractionFailed
<1>5. \A c : Once(c) \in Nat
  BY DEF Once, Points
<1>6. \A k \in HealthKeys : Gain(o)[k] \in Nat
  BY <1>1, <1>5 DEF HealthKeys
<1> HIDE DEF http, browser
<1> QED BY <1>1, <1>2, <1>3, <1>4, <1>6 DEF Consistent

LEMMA CountingIsConsistent ==
    ASSUME NEW p, HealthKeys \subseteq DOMAIN p, Consistent(p), NEW o, o.strategy \in Strategies
    PROVE  Consistent(Counted(p, o)) /\ DOMAIN Counted(p, o) = DOMAIN p
<1>1. Consistent(Gain(o))
  BY GainIsConsistent
<1>2. \A k \in HealthKeys : Counted(p, o)[k] = p[k] + Gain(o)[k] /\ p[k] \in Nat /\ Gain(o)[k] \in Nat
  BY <1>1 DEF Counted, Consistent
<1>3. DOMAIN Counted(p, o) = DOMAIN p
  BY DEF Counted
<1> DEFINE c == Counted(p, o)
           g == Gain(o)
<1> HIDE DEF c, g
<1>4. /\ c.http_attempts = p.http_attempts + g.http_attempts /\ c.http_successes = p.http_successes + g.http_successes
      /\ c.http_extraction_failures = p.http_extraction_failures + g.http_extraction_failures
      /\ c.browser_attempts = p.browser_attempts + g.browser_attempts
      /\ c.browser_successes = p.browser_successes + g.browser_successes
      /\ c.soft_blocked = p.soft_blocked + g.soft_blocked /\ c.refused = p.refused + g.refused
  BY <1>2 DEF c, g, HealthKeys
<1>5. Consistent(g) /\ \A k \in HealthKeys : c[k] \in Nat
  BY <1>1, <1>2 DEF c, g
<1>6. Consistent(c)
  BY <1>4, <1>5 DEF Consistent, HealthKeys
<1> QED BY <1>3, <1>6 DEF c

\* A share of a weight is no more than the weight.
LEMMA ShareIsBounded ==
    ASSUME NEW weight \in Nat, NEW part \in Nat, NEW whole \in Nat \ {0}, part <= whole
    PROVE  (weight * part) \div whole \in 0..weight
<1>1. weight * part \in Nat /\ weight * part <= weight * whole
  OBVIOUS
<1>2. \A n \in Nat : n <= weight * whole => n \div whole \in 0..weight
  OBVIOUS
<1> QED BY <1>1, <1>2

LEMMA ShareFits ==
    ASSUME NEW weight \in Nat, NEW part \in Nat, NEW whole \in Nat \ {0}, part <= whole
    PROVE  Share(weight, part, whole) \in 0..weight
BY ShareIsBounded DEF Share

Health == 0 .. 1000

LEMMA HealthOfConsistent ==
    ASSUME NEW p, Consistent(p), NEW latency \in Nat
    PROVE  HealthScore(p, latency) \in Health
<1> DEFINE total == Attempts(p)
<1>1. /\ p.http_attempts \in Nat /\ p.http_successes \in Nat /\ p.http_extraction_failures \in Nat
      /\ p.browser_attempts \in Nat /\ p.browser_successes \in Nat /\ p.soft_blocked \in Nat /\ p.refused \in Nat
  BY DEF Consistent, HealthKeys
<1>2. total \in Nat /\ p.http_successes + p.browser_successes <= total /\ Blocked(p) \in 0..total
  BY <1>1 DEF Consistent, Attempts, Blocked
<1>3. MinObservations \in Nat \ {0}
  BY LearningAssumption
<1>4. LatencyScore(latency) \in 0..150
  <2>1. CASE latency > 1000 /\ latency < 10000
    BY <2>1 DEF LatencyScore, Share
  <2>2. CASE latency <= 1000 \/ latency >= 10000
    BY <2>2 DEF LatencyScore
  <2> QED BY <2>1, <2>2
<1>5. CASE total < MinObservations
  BY <1>5 DEF HealthScore, Health
<1>6. CASE total >= MinObservations
  <2> HIDE DEF total
  <2>1. total \in Nat \ {0}
    BY <1>2, <1>3, <1>6
  <2> DEFINE won      == p.http_successes + p.browser_successes
             read     == p.http_successes - p.http_extraction_failures
             open     == total - Blocked(p)
             fetching == Share(400, won, total)
             reading  == IF p.http_successes = 0 THEN 300 ELSE Share(300, read, p.http_successes)
             opening  == Share(150, open, total)
             speed    == LatencyScore(latency)
  <2>2. /\ won \in Nat /\ won <= total /\ read \in Nat /\ read <= p.http_successes
        /\ open \in Nat /\ open <= total
    BY <1>1, <1>2, <2>1 DEF Consistent
  <2>3. ~(total < MinObservations)
    BY <1>3, <1>6, <2>1
  <2>4. HealthScore(p, latency) = fetching + reading + opening + speed
    BY <2>3 DEF HealthScore, total
  <2> HIDE DEF won, read, open
  <2>5. \A weight \in Nat : Share(weight, won, total) \in 0..weight /\ Share(weight, open, total) \in 0..weight
    BY <2>1, <2>2, ShareFits, Zenon
  <2>6. ASSUME p.http_successes # 0 PROVE \A weight \in Nat : Share(weight, read, p.http_successes) \in 0..weight
    <3>1. p.http_successes \in Nat \ {0}
      BY <1>1, <2>6
    <3> QED BY <2>2, <3>1, ShareFits, Zenon
  <2>8. fetching \in 0..400 /\ opening \in 0..150 /\ reading \in 0..300
    <3>1. fetching \in 0..400
      <4>1. \A weight \in Nat : weight = 400 => Share(weight, won, total) \in 0..400
        BY <2>5, Zenon
      <4> QED BY <4>1
    <3>2. opening \in 0..150
      <4>1. \A weight \in Nat : weight = 150 => Share(weight, open, total) \in 0..150
        BY <2>5, Zenon
      <4> QED BY <4>1
    <3>3. CASE p.http_successes = 0
      BY <3>1, <3>2, <3>3
    <3>4. CASE p.http_successes # 0
      <4>1. \A weight \in Nat : weight = 300 => Share(weight, read, p.http_successes) \in 0..300
        <5>1. \A weight \in Nat : Share(weight, read, p.http_successes) \in 0..weight
          BY <2>6, <3>4
        <5> QED BY <5>1, Zenon
      <4>2. reading \in 0..300
        BY <3>4, <4>1
      <4> QED BY <3>1, <3>2, <4>2
    <3> QED BY <3>3, <3>4
  <2>7. speed \in 0..150
    BY <1>4
  <2> HIDE DEF fetching, reading, opening, speed
  <2> QED BY <2>4, <2>7, <2>8 DEF Health
<1> QED BY <1>2, <1>3, <1>5, <1>6

\* A visit that has been routed has a strategy.
HealthInv ==
    /\ DOMAIN domain = DomainKeys /\ Consistent(domain)
    /\ \A t \in Tasks :
         /\ visit[t].advice \in Strategies \cup {Nothing}
         /\ phase[t] \in Routed => visit[t].strategy \in Strategies

LEMMA HealthInit == Init => HealthInv
<1> SUFFICES ASSUME Init PROVE HealthInv
  OBVIOUS
<1>1. DOMAIN domain = DomainKeys /\ \A k \in DomainKeys : domain[k] = 0
  BY DEF Init, Zeros
<1>2. HealthKeys \subseteq DomainKeys
  BY DEF HealthKeys, DomainKeys, CommonKeys
<1>3. \A k \in HealthKeys : domain[k] = 0
  BY <1>1, <1>2
<1>4. Consistent(domain)
  BY <1>3 DEF Consistent, HealthKeys
<1>5. \A t \in Tasks : visit[t].advice = Nothing /\ phase[t] \notin Routed
  BY DEF Init, NoVisit, Routed
<1> QED BY <1>1, <1>4, <1>5 DEF HealthInv

LEMMA AdviceIsStrategy ==
    /\ \A p : DecideFromStats(p) \in Strategies \cup {Nothing}
    /\ \A row, a : a \in Strategies \cup {Nothing} => Advice(row, a) \in Strategies
<1>1. \A p : DecideFromStats(p) \in Strategies \cup {Nothing}
  BY DEF DecideFromStats, Strategies
<1>2. \A a, b : a \in Strategies \cup {Nothing} /\ b \in Strategies \cup {Nothing} => DecideRouting(b, a) \in Strategies
  BY DEF DecideRouting, Strategies
<1> QED BY <1>1, <1>2 DEF Advice

LEMMA HealthStep ==
    ASSUME Shape, HealthInv, [Next]_vars
    PROVE  HealthInv'
<1>1. CASE UNCHANGED vars
  BY <1>1 DEF vars, dbVars, HealthInv, Consistent
<1>2. CASE SiteChanges
  BY <1>2 DEF SiteChanges, dbVars, HealthInv, Consistent
<1>3. ASSUME NEW t \in Tasks, Work(t) \/ FetchFails(t) \/ EscalationFails(t) \/ Abort(t)
      PROVE  HealthInv'
  <2>0. PICK V : visit \in [Tasks -> Visits(V)]
    BY DEF Shape
  <2>1. visit[t].advice \in Strategies \cup {Nothing} /\ (phase[t] \in Routed => visit[t].strategy \in Strategies)
    BY DEF HealthInv
  <2>2. ASSUME NEW ph, Goto(t, ph), \A s \in Tasks \ {t} : visit'[s] = visit[s],
               visit'[t].advice \in Strategies \cup {Nothing}, ph \in Routed => visit'[t].strategy \in Strategies,
               DOMAIN domain' = DomainKeys /\ Consistent(domain')
        PROVE  HealthInv'
    <3>1. phase'[t] = ph /\ \A s \in Tasks \ {t} : phase'[s] = phase[s]
      BY <2>2 DEF Shape, Goto
    <3>2. \A s \in Tasks :
            /\ visit'[s].advice \in Strategies \cup {Nothing}
            /\ phase'[s] \in Routed => visit'[s].strategy \in Strategies
      BY <2>2, <3>1 DEF HealthInv
    <3> QED BY <2>2, <3>2 DEF HealthInv, Consistent
  <2>3. ASSUME UNCHANGED domain PROVE DOMAIN domain' = DomainKeys /\ Consistent(domain')
    BY <2>3 DEF HealthInv, Consistent
  <2>4. ASSUME Done(t), UNCHANGED domain PROVE HealthInv'
    <3>1. Goto(t, "idle") /\ visit'[t] = NoVisit /\ \A r \in Tasks \ {t} : visit'[r] = visit[r]
      BY <2>0, <2>4 DEF Done
    <3>2. visit'[t].advice = Nothing /\ "idle" \notin Routed
      BY <3>1 DEF NoVisit, Routed
    <3> QED BY <2>2, <2>3, <2>4, <3>1, <3>2
  <2>5. CASE ReadDomain(t)
    <3>1. PICK u, p : visit' = [visit EXCEPT ![t] = [NoVisit EXCEPT !.url = u, !.advice = DecideFromStats(domain), !.prior = p]]
      BY <2>5 DEF ReadDomain
    <3>2. visit'[t].advice = DecideFromStats(domain) /\ \A s \in Tasks \ {t} : visit'[s] = visit[s]
      BY <2>0, <3>1 DEF NoVisit
    <3>3. Goto(t, "reading") /\ "reading" \notin Routed /\ UNCHANGED domain
      BY <2>5 DEF ReadDomain, Routed, dbVars
    <3> QED BY <2>2, <2>3, <3>2, <3>3, AdviceIsStrategy
  <2>6. CASE Route(t)
    <3> DEFINE row == patterns[PatternOf[visit[t].url]]
               way == IF BudgetLeft THEN Advice(row, visit[t].advice) ELSE "http"
    <3>1. visit' = [visit EXCEPT ![t].hint = row.page_type, ![t].strategy = way]
      BY <2>6 DEF Route
    <3>2. way \in Strategies
      BY <2>1, AdviceIsStrategy DEF Strategies
    <3> HIDE DEF row, way
    <3>3. /\ visit'[t].advice = visit[t].advice /\ visit'[t].strategy = way
          /\ \A r \in Tasks \ {t} : visit'[r] = visit[r]
      BY <2>0, <3>1 DEF Visits
    <3>4. Goto(t, "fetching") /\ UNCHANGED domain
      BY <2>6 DEF Route, dbVars
    <3> QED BY <2>1, <2>2, <2>3, <3>2, <3>3, <3>4
  <2>7. CASE Fetch(t)
    <3>1. PICK p, f, b : visit' = [visit EXCEPT ![t].page = p, ![t].found = f, ![t].success = TRUE, ![t].used_browser = b]
      BY <2>7 DEF Fetch
    <3>2. /\ visit'[t].advice = visit[t].advice /\ visit'[t].strategy = visit[t].strategy
          /\ \A r \in Tasks \ {t} : visit'[r] = visit[r]
      BY <2>0, <3>1 DEF Visits
    <3>3. /\ UNCHANGED domain /\ phase[t] = "fetching" /\ "fetching" \in Routed
          /\ \E ph : Goto(t, ph)
      BY <2>7 DEF Fetch, dbVars, Routed
    <3> QED BY <2>1, <2>2, <2>3, <3>2, <3>3
  <2>8. CASE Escalate(t)
    <3>1. PICK p, f, c, v :
            /\ visit' = [visit EXCEPT ![t] = v]
            /\ v \in {[visit[t] EXCEPT !.page = p, !.found = f, !.comparison = c, !.used_browser = TRUE],
                     [visit[t] EXCEPT !.comparison = c]}
      BY <2>8 DEF Escalate
    <3>2. /\ visit'[t].advice = visit[t].advice /\ visit'[t].strategy = visit[t].strategy
          /\ \A r \in Tasks \ {t} : visit'[r] = visit[r]
      BY <2>0, <3>1 DEF Visits
    <3>3. UNCHANGED domain /\ phase[t] = "escalating" /\ "escalating" \in Routed /\ Goto(t, "visited")
      BY <2>8 DEF Escalate, dbVars, Routed
    <3> QED BY <2>1, <2>2, <2>3, <3>2, <3>3
  <2>9. CASE FetchFails(t) \/ EscalationFails(t)
    <3>1. UNCHANGED <<domain, visit>> /\ phase[t] \in Routed /\ Goto(t, "visited")
      BY <2>9 DEF FetchFails, EscalationFails, dbVars, Routed
    <3> QED BY <2>1, <2>2, <2>3, <3>1
  <2>10. CASE RecordFetch(t)
    <3>1. /\ UNCHANGED visit /\ phase[t] \in Routed /\ Goto(t, "counted")
          /\ domain' = Counted(domain, Outcome(visit[t]))
      BY <2>10 DEF RecordFetch, Routed
    <3>2. Outcome(visit[t]).strategy \in Strategies
      <4>1. Outcome(visit[t]).strategy
              = IF visit[t].success /\ visit[t].used_browser THEN "browser"
                ELSE IF visit[t].success THEN "http" ELSE visit[t].strategy
        BY DEF Outcome
      <4> QED BY <2>1, <3>1, <4>1 DEF Strategies
    <3>3. HealthKeys \subseteq DomainKeys
      BY DEF HealthKeys, DomainKeys, CommonKeys
    <3>4. Consistent(domain) /\ DOMAIN domain = DomainKeys
      BY DEF HealthInv
    <3>5. DOMAIN domain' = DomainKeys /\ Consistent(domain')
      <4> DEFINE o == Outcome(visit[t])
      <4>1. o.strategy \in Strategies /\ domain' = Counted(domain, o)
        BY <3>1, <3>2
      <4> HIDE DEF o
      <4> QED BY <3>3, <3>4, <4>1, CountingIsConsistent
    <3> QED BY <2>1, <2>2, <3>1, <3>5
  <2>11. CASE RecordPattern(t)
    <3>1. UNCHANGED domain /\ phase[t] \in Routed /\ (Done(t) \/ (Goto(t, "learned") /\ visit' = visit))
      <4>1. \/ Done(t)
            \/ (Goto(t, "learned") /\ visit' = visit)
        BY <2>11 DEF RecordPattern
      <4>2. UNCHANGED domain /\ phase[t] = "counted"
        BY <2>11 DEF RecordPattern
      <4> QED BY <4>1, <4>2 DEF Routed
    <3>2. CASE Done(t)
      BY <2>4, <3>1, <3>2
    <3>3. CASE Goto(t, "learned") /\ visit' = visit
      BY <2>1, <2>2, <2>3, <3>1, <3>3
    <3> QED BY <3>1, <3>2, <3>3
  <2>12. CASE Store(t) \/ Abort(t)
    BY <2>4, <2>12 DEF Store, Abort, dbVars
  <2> QED BY <1>3, <2>5, <2>6, <2>7, <2>8, <2>9, <2>10, <2>11, <2>12 DEF Work
<1> QED BY <1>1, <1>2, <1>3 DEF Next

\* HealthIsBounded (domain_profile_service.py:36): for any number of tasks and
\* any site, the health is a number between none and full.
THEOREM HealthIsANumber == Spec => []HealthIsBounded
<1>1. HealthInv => HealthIsBounded
  <2> DEFINE latencies == {0, 1001, 5000, 20000}
  <2>1. latencies \subseteq Nat
    OBVIOUS
  <2>2. HealthIsBounded <=> \A latency \in latencies : HealthScore(domain, latency) \in Health
    BY DEF HealthIsBounded, Health
  <2> HIDE DEF latencies
  <2> QED BY <2>1, <2>2, HealthOfConsistent, Zenon DEF HealthInv
<1>2. Shape /\ HealthInv /\ [Next]_vars => HealthInv'
  BY HealthStep
<1> QED BY <1>1, <1>2, HealthInit, ShapeHolds, PTL DEF Spec

-----------------------------------------------------------------------------
(***************************************************************************)
(* Sums over finite sets, which the library defines by recursion.  That a  *)
(* set of finite sets has a smallest one stands in for induction.          *)
(***************************************************************************)

\* Natural numbers have a least.
LEMMA LeastNumber ==
    ASSUME NEW S \in SUBSET Nat, S # {}
    PROVE  \E m \in S : \A n \in S : m <= n
<1>1. PICK m \in S : \A n \in S : ~ (<<n, m>> \in OpToRel(<, Nat))
  BY NatLessThanWellFounded, WFMin
<1>2. OpToRel(<, Nat) = {ss \in Nat \X Nat : ss[1] < ss[2]}
  BY Zenon DEF OpToRel
<1>3. \A n \in S : ~ (n < m)
  BY <1>1, <1>2
<1> QED BY <1>3

\* A smallest of some finite sets.
LEMMA SmallestSet ==
    ASSUME NEW F, F # {}, \A S \in F : IsFiniteSet(S)
    PROVE  \E S \in F : \A T \in F : T \subseteq S => T = S
<1> DEFINE sizes == {Cardinality(S) : S \in F}
<1>1. sizes \in SUBSET Nat /\ sizes # {}
  BY FS_CardinalityType
<1>2. PICK m \in sizes : \A n \in sizes : m <= n
  <2> HIDE DEF sizes
  <2> QED BY <1>1, LeastNumber
<1>3. PICK S \in F : m = Cardinality(S)
  OBVIOUS
<1>4. ASSUME NEW T \in F, T \subseteq S PROVE T = S
  <2>1. Cardinality(S) <= Cardinality(T)
    BY <1>2, <1>3
  <2>2. IsFiniteSet(S) /\ Cardinality(T) <= Cardinality(S) /\ (Cardinality(S) = Cardinality(T) => S = T)
    BY <1>4, FS_Subset
  <2>3. Cardinality(S) \in Nat /\ Cardinality(T) \in Nat
    BY FS_CardinalityType
  <2> QED BY <2>1, <2>2, <2>3
<1> QED BY <1>4

\* What a sum takes first, and how the library defines it.
Some(s) == CHOOSE x \in s : TRUE

Sums(f, S, g) == g = [s \in SUBSET S |-> IF s = {} THEN 0 ELSE f[Some(s)] + g[s \ {Some(s)}]]

LEMMA SumIsRecursive ==
    ASSUME NEW f, NEW S
    PROVE  SumFunctionOnSet(f, S) = (CHOOSE g : Sums(f, S, g))[S]
BY DEF SumFunctionOnSet, FoldFunctionOnSet, MapThenFoldSet, Sums, Some

\* The sum takes one index away, and those that are left are summed.
LEMMA SumUnfolds ==
    ASSUME NEW f, NEW S, IsFiniteSet(S)
    PROVE  SumFunctionOnSet(f, S) = IF S = {} THEN 0 ELSE f[Some(S)] + SumFunctionOnSet(f, S \ {Some(S)})
<1> DEFINE Sum(s) == SumFunctionOnSet(f, s)
           Unfolds(s) == Sum(s) = IF s = {} THEN 0 ELSE f[Some(s)] + Sum(s \ {Some(s)})
           Wrong == {s \in SUBSET S : ~Unfolds(s)}
<1>1. SUFFICES ASSUME Wrong # {} PROVE FALSE
  BY <1>1
<1>2. \A s \in Wrong : IsFiniteSet(s)
  BY FS_Subset
<1>3. PICK T \in Wrong : \A s \in Wrong : s \subseteq T => s = T
  <2> HIDE DEF Wrong
  <2> QED BY <1>1, <1>2, SmallestSet
<1>4. \A s \in SUBSET T : s # T => Unfolds(s)
  BY <1>3
<1>5. \A s : s # {} => Some(s) \in s
  BY DEF Some
<1> HIDE DEF Sum
<1>6. \E g : Sums(f, T, g)
  <2> DEFINE g == [s \in SUBSET T |-> IF s = {} THEN 0 ELSE f[Some(s)] + Sum(s \ {Some(s)})]
  <2>1. \A s \in SUBSET T : s # {} => g[s \ {Some(s)}] = Sum(s \ {Some(s)})
    <3> SUFFICES ASSUME NEW s \in SUBSET T, s # {} PROVE g[s \ {Some(s)}] = Sum(s \ {Some(s)})
      OBVIOUS
    <3> DEFINE r == s \ {Some(s)}
    <3>1. r \in SUBSET T /\ r # T
      BY <1>5
    <3> HIDE DEF r
    <3>2. Unfolds(r)
      BY <1>4, <3>1
    <3>3. g[r] = Sum(r)
      BY <3>1, <3>2
    <3> QED BY <3>3 DEF r
  <2>2. g = [s \in SUBSET T |-> IF s = {} THEN 0 ELSE f[Some(s)] + g[s \ {Some(s)}]]
    BY <2>1
  <2> QED BY <2>2 DEF Sums
<1> DEFINE h == CHOOSE g : Sums(f, T, g)
<1>7. Sums(f, T, h)
  BY <1>6
<1>8. Sum(T) = h[T]
  BY SumIsRecursive DEF Sum
<1> HIDE DEF h
<1>9. \A s \in SUBSET T : h[s] = IF s = {} THEN 0 ELSE f[Some(s)] + h[s \ {Some(s)}]
  BY <1>7 DEF Sums
<1> DEFINE Bad == {s \in SUBSET T : s # T /\ h[s] # Sum(s)}
<1>10. Bad = {}
  <2> SUFFICES ASSUME Bad # {} PROVE FALSE
    OBVIOUS
  <2>1. \A s \in Bad : IsFiniteSet(s)
    BY <1>2, FS_Subset
  <2>2. PICK s \in Bad : \A r \in Bad : r \subseteq s => r = s
    <3> HIDE DEF Bad
    <3> QED BY <2>1, SmallestSet
  <2>3. Unfolds(s) /\ h[s] # Sum(s) /\ s \in SUBSET T /\ s # T
    BY <1>4
  <2>4. s # {}
    BY <1>9, <2>3
  <2> DEFINE r == s \ {Some(s)}
  <2>5. r \subseteq s /\ r # s /\ r \in SUBSET T /\ r # T
    BY <1>5, <2>3, <2>4
  <2>6. h[r] = Sum(r)
    BY <2>2, <2>5
  <2> QED BY <1>9, <2>3, <2>4, <2>6
<1>11. Unfolds(T)
  <2>1. CASE T = {}
    BY <1>8, <1>9, <2>1
  <2>2. CASE T # {}
    <3> DEFINE r == T \ {Some(T)}
    <3>1. r \in SUBSET T /\ r # T
      BY <1>5, <2>2
    <3>2. h[r] = Sum(r)
      BY <1>10, <3>1
    <3> QED BY <1>8, <1>9, <2>2, <3>2
  <2> QED BY <2>1, <2>2
<1> QED BY <1>3, <1>11

\* Sums of integers, of naturals.
LEMMA SumOfInts ==
    ASSUME NEW f, NEW S, IsFiniteSet(S), \A x \in S : f[x] \in Int
    PROVE  SumFunctionOnSet(f, S) \in Int
<1> DEFINE Sum(s) == SumFunctionOnSet(f, s)
           Wrong == {s \in SUBSET S : Sum(s) \notin Int}
<1>1. SUFFICES ASSUME Wrong # {} PROVE FALSE
  BY <1>1
<1>2. \A s \in Wrong : IsFiniteSet(s)
  BY FS_Subset
<1>3. PICK T \in Wrong : \A s \in Wrong : s \subseteq T => s = T
  <2> HIDE DEF Wrong
  <2> QED BY <1>1, <1>2, SmallestSet
<1>4. Sum(T) = IF T = {} THEN 0 ELSE f[Some(T)] + Sum(T \ {Some(T)})
  BY <1>2, SumUnfolds
<1>5. T # {} => Some(T) \in T
  BY DEF Some
<1> HIDE DEF Sum
<1>6. T # {} => Sum(T \ {Some(T)}) \in Int
  BY <1>3, <1>5
<1> QED BY <1>3, <1>4, <1>5, <1>6

LEMMA SumOfNats ==
    ASSUME NEW f, NEW S, IsFiniteSet(S), \A x \in S : f[x] \in Nat
    PROVE  SumFunctionOnSet(f, S) \in Nat
<1> DEFINE Sum(s) == SumFunctionOnSet(f, s)
           Wrong == {s \in SUBSET S : Sum(s) \notin Nat}
<1>1. SUFFICES ASSUME Wrong # {} PROVE FALSE
  BY <1>1
<1>2. \A s \in Wrong : IsFiniteSet(s)
  BY FS_Subset
<1>3. PICK T \in Wrong : \A s \in Wrong : s \subseteq T => s = T
  <2> HIDE DEF Wrong
  <2> QED BY <1>1, <1>2, SmallestSet
<1>4. Sum(T) = IF T = {} THEN 0 ELSE f[Some(T)] + Sum(T \ {Some(T)})
  BY <1>2, SumUnfolds
<1>5. T # {} => Some(T) \in T
  BY DEF Some
<1> HIDE DEF Sum
<1>6. T # {} => Sum(T \ {Some(T)}) \in Nat
  BY <1>3, <1>5
<1> QED BY <1>3, <1>4, <1>5, <1>6

\* Sums of the same numbers are the same.
LEMMA SumOfSame ==
    ASSUME NEW f, NEW g, NEW S, IsFiniteSet(S), \A x \in S : f[x] = g[x]
    PROVE  SumFunctionOnSet(f, S) = SumFunctionOnSet(g, S)
<1> DEFINE F(s) == SumFunctionOnSet(f, s)
           G(s) == SumFunctionOnSet(g, s)
           Wrong == {s \in SUBSET S : F(s) # G(s)}
<1>1. SUFFICES ASSUME Wrong # {} PROVE FALSE
  BY <1>1
<1>2. \A s \in Wrong : IsFiniteSet(s)
  BY FS_Subset
<1>3. PICK T \in Wrong : \A s \in Wrong : s \subseteq T => s = T
  <2> HIDE DEF Wrong
  <2> QED BY <1>1, <1>2, SmallestSet
<1>4. /\ F(T) = IF T = {} THEN 0 ELSE f[Some(T)] + F(T \ {Some(T)})
      /\ G(T) = IF T = {} THEN 0 ELSE g[Some(T)] + G(T \ {Some(T)})
  BY <1>2, SumUnfolds
<1>5. T # {} => Some(T) \in T
  BY DEF Some
<1> HIDE DEF F, G
<1>6. T # {} => F(T \ {Some(T)}) = G(T \ {Some(T)})
  BY <1>3, <1>5
<1> QED BY <1>3, <1>4, <1>5, <1>6

\* Whichever index is taken away first.
LEMMA SumWithout ==
    ASSUME NEW f, NEW S, IsFiniteSet(S), \A x \in S : f[x] \in Int, NEW i \in S
    PROVE  SumFunctionOnSet(f, S) = f[i] + SumFunctionOnSet(f, S \ {i})
<1> DEFINE Sum(s) == SumFunctionOnSet(f, s)
           Wrong == {s \in SUBSET S : \E x \in s : Sum(s) # f[x] + Sum(s \ {x})}
<1>1. SUFFICES ASSUME Wrong # {} PROVE FALSE
  BY <1>1
<1>2. \A s \in Wrong : IsFiniteSet(s)
  BY FS_Subset
<1>3. PICK T \in Wrong : \A s \in Wrong : s \subseteq T => s = T
  <2> HIDE DEF Wrong
  <2> QED BY <1>1, <1>2, SmallestSet
<1>4. PICK x \in T : Sum(T) # f[x] + Sum(T \ {x})
  BY <1>3
<1> DEFINE c == Some(T)
<1>5. c \in T
  BY <1>4 DEF Some
<1>6. Sum(T) = f[c] + Sum(T \ {c})
  BY <1>2, <1>4, SumUnfolds
<1>7. x # c
  BY <1>4, <1>6
<1>8. \A s \in SUBSET S : Sum(s) \in Int
  BY FS_Subset, SumOfInts
<1> HIDE DEF Sum, c
<1>9. \A s \in SUBSET T : s # T => \A y \in s : Sum(s) = f[y] + Sum(s \ {y})
  BY <1>3
<1>10. Sum(T \ {c}) = f[x] + Sum((T \ {c}) \ {x})
  BY <1>5, <1>7, <1>9
<1>11. Sum(T \ {x}) = f[c] + Sum((T \ {x}) \ {c})
  BY <1>5, <1>7, <1>9
<1> DEFINE rest == Sum((T \ {c}) \ {x})
<1>12. Sum((T \ {x}) \ {c}) = rest
  <2>1. (T \ {x}) \ {c} = (T \ {c}) \ {x}
    OBVIOUS
  <2> QED BY <2>1
<1>13. f[x] \in Int /\ f[c] \in Int /\ rest \in Int
  BY <1>5, <1>8
<1>14. Sum(T) = f[c] + (f[x] + rest) /\ f[x] + Sum(T \ {x}) = f[x] + (f[c] + rest)
  BY <1>6, <1>10, <1>11, <1>12
<1> HIDE DEF rest
<1>15. f[c] + (f[x] + rest) = f[x] + (f[c] + rest)
  BY <1>13
<1> QED BY <1>4, <1>14, <1>15

\* One number is no more than the sum.
LEMMA SumIsAtLeast ==
    ASSUME NEW f, NEW S, IsFiniteSet(S), \A x \in S : f[x] \in Nat, NEW i \in S
    PROVE  f[i] <= SumFunctionOnSet(f, S)
<1>1. SumFunctionOnSet(f, S) = f[i] + SumFunctionOnSet(f, S \ {i})
  BY SumWithout
<1>2. SumFunctionOnSet(f, S \ {i}) \in Nat
  BY FS_Subset, SumOfNats
<1> QED BY <1>1, <1>2

\* One number more, or one that is another.
LEMMA SumChanges ==
    ASSUME NEW f, NEW g, NEW S, IsFiniteSet(S), NEW i \in S,
           \A x \in S : f[x] \in Int /\ g[x] \in Int, \A x \in S \ {i} : f[x] = g[x]
    PROVE  SumFunctionOnSet(g, S) = SumFunctionOnSet(f, S) + g[i] - f[i]
<1>1. SumFunctionOnSet(f, S) = f[i] + SumFunctionOnSet(f, S \ {i})
  BY SumWithout
<1>2. SumFunctionOnSet(g, S) = g[i] + SumFunctionOnSet(g, S \ {i})
  BY SumWithout
<1>3. IsFiniteSet(S \ {i})
  BY FS_Subset
<1>4. SumFunctionOnSet(f, S \ {i}) = SumFunctionOnSet(g, S \ {i}) /\ SumFunctionOnSet(f, S \ {i}) \in Int
  BY <1>3, SumOfSame, SumOfInts
<1> QED BY <1>1, <1>2, <1>4

\* Sums of nothing.
LEMMA SumOfZeros ==
    ASSUME NEW f, NEW S, IsFiniteSet(S), \A x \in S : f[x] = 0
    PROVE  SumFunctionOnSet(f, S) = 0
<1> DEFINE Sum(s) == SumFunctionOnSet(f, s)
           Wrong == {s \in SUBSET S : Sum(s) # 0}
<1>1. SUFFICES ASSUME Wrong # {} PROVE FALSE
  BY <1>1
<1>2. \A s \in Wrong : IsFiniteSet(s)
  BY FS_Subset
<1>3. PICK T \in Wrong : \A s \in Wrong : s \subseteq T => s = T
  <2> HIDE DEF Wrong
  <2> QED BY <1>1, <1>2, SmallestSet
<1>4. Sum(T) = IF T = {} THEN 0 ELSE f[Some(T)] + Sum(T \ {Some(T)})
  BY <1>2, SumUnfolds
<1>5. T # {} => Some(T) \in T
  BY DEF Some
<1> HIDE DEF Sum
<1>6. T # {} => Sum(T \ {Some(T)}) = 0
  BY <1>3, <1>5
<1> QED BY <1>3, <1>4, <1>5, <1>6
-----------------------------------------------------------------------------
(***************************************************************************)
(* What each step of a task does to its own visit and leaves to others.    *)
(***************************************************************************)

Others(t) == \A s \in Tasks \ {t} : phase'[s] = phase[s] /\ visit'[s] = visit[s]

\* The bounds are counted upwards, and the site changes at a cost.
SpentOK == spent \in [visits : Nat, changes : Nat, failures : Nat, aborts : Nat]

LEMMA SpentInit == Init => SpentOK
BY DEF Init, SpentOK

LEMMA SpendDoes ==
    ASSUME SpentOK, NEW what \in {"visits", "changes", "failures", "aborts"}, Spend(what)
    PROVE  /\ SpentOK'
           /\ spent'.changes = spent.changes + (IF what = "changes" THEN 1 ELSE 0)
           /\ spent'.failures = spent.failures + (IF what = "failures" THEN 1 ELSE 0)
           /\ spent'.aborts = spent.aborts + (IF what = "aborts" THEN 1 ELSE 0)
BY DEF SpentOK, Spend

LEMMA SpentStep ==
    ASSUME SpentOK, [Next]_vars
    PROVE  /\ SpentOK'
           /\ spent'.changes >= spent.changes /\ spent'.failures >= spent.failures /\ spent'.aborts >= spent.aborts
           /\ spent'.changes = spent.changes => site' = site
<1>0. spent.changes \in Nat /\ spent.failures \in Nat /\ spent.aborts \in Nat
  BY DEF SpentOK
<1>1. CASE spent' = spent /\ site' = site
  BY <1>0, <1>1 DEF SpentOK
<1>2. CASE Spend("changes")
  BY <1>0, <1>2, SpendDoes
<1>3. ASSUME NEW what \in {"visits", "failures", "aborts"}, Spend(what), site' = site
      PROVE  /\ SpentOK'
             /\ spent'.changes >= spent.changes /\ spent'.failures >= spent.failures /\ spent'.aborts >= spent.aborts
  BY <1>0, <1>3, SpendDoes
<1>4. \/ spent' = spent /\ site' = site
      \/ Spend("changes")
      \/ \E what \in {"visits", "failures", "aborts"} : Spend(what) /\ site' = site
  <2>1. CASE UNCHANGED vars
    BY <2>1 DEF vars
  <2>2. CASE SiteChanges
    BY <2>2 DEF SiteChanges
  <2>3. ASSUME NEW t \in Tasks, Work(t) PROVE (spent' = spent /\ site' = site) \/ (Spend("visits") /\ site' = site)
    BY <2>3 DEF Work, ReadDomain, Route, Fetch, Escalate, RecordFetch, RecordPattern, Store
  <2>4. ASSUME NEW t \in Tasks, FetchFails(t) \/ EscalationFails(t) \/ Abort(t)
        PROVE  site' = site /\ (spent' = spent \/ Spend("failures") \/ Spend("aborts"))
    BY <2>4 DEF FetchFails, EscalationFails, Abort
  <2> QED BY <2>1, <2>2, <2>3, <2>4 DEF Next
<1> QED BY <1>1, <1>2, <1>3, <1>4

LEMMA GoesTo ==
    ASSUME Shape, NEW t \in Tasks, NEW ph, Goto(t, ph)
    PROVE  phase'[t] = ph /\ \A s \in Tasks \ {t} : phase'[s] = phase[s]
BY DEF Shape, Goto

LEMMA ReadDomainDoes ==
    ASSUME Shape, NEW t \in Tasks, ReadDomain(t)
    PROVE  /\ Others(t) /\ phase[t] = "idle" /\ phase'[t] = "reading"
           /\ visit'[t].url \in Urls /\ visit'[t].advice = DecideFromStats(domain)
           /\ visit'[t].comparison = Nothing
           /\ UNCHANGED <<site, domain, patterns, documents, latest>>
<1>1. PICK V : visit \in [Tasks -> Visits(V)]
  BY DEF Shape
<1>2. PICK u \in Urls : \E p : visit' = [visit EXCEPT ![t] =
          [NoVisit EXCEPT !.url = u, !.advice = DecideFromStats(domain), !.prior = p]]
  BY DEF ReadDomain
<1>3. PICK p : visit' = [visit EXCEPT ![t] =
          [NoVisit EXCEPT !.url = u, !.advice = DecideFromStats(domain), !.prior = p]]
  BY <1>2
<1>4. /\ visit'[t] = [NoVisit EXCEPT !.url = u, !.advice = DecideFromStats(domain), !.prior = p]
      /\ \A s \in Tasks \ {t} : visit'[s] = visit[s]
  BY <1>1, <1>3
<1>5. visit'[t].url = u /\ visit'[t].advice = DecideFromStats(domain) /\ visit'[t].comparison = Nothing
  BY <1>4 DEF NoVisit
<1>6. Goto(t, "reading") /\ phase[t] = "idle" /\ UNCHANGED <<site, domain, patterns, documents, latest>>
  BY DEF ReadDomain, dbVars
<1> QED BY <1>4, <1>5, <1>6, GoesTo DEF Others

LEMMA RouteDoes ==
    ASSUME Shape, NEW t \in Tasks, Route(t)
    PROVE  /\ Others(t) /\ phase[t] = "reading" /\ phase'[t] = "fetching"
           /\ visit'[t].url = visit[t].url /\ visit'[t].advice = visit[t].advice
           /\ visit'[t].comparison = visit[t].comparison
           /\ visit'[t].strategy \in {"http", Advice(patterns[PatternOf[visit[t].url]], visit[t].advice)}
           /\ UNCHANGED <<site, domain, patterns, documents, latest>>
<1>1. PICK V : visit \in [Tasks -> Visits(V)]
  BY DEF Shape
<1> DEFINE row == patterns[PatternOf[visit[t].url]]
           way == IF BudgetLeft THEN Advice(row, visit[t].advice) ELSE "http"
<1>2. visit' = [visit EXCEPT ![t].hint = row.page_type, ![t].strategy = way]
  BY DEF Route
<1>3. way \in {"http", Advice(row, visit[t].advice)}
  OBVIOUS
<1>4. Goto(t, "fetching") /\ phase[t] = "reading" /\ UNCHANGED <<site, domain, patterns, documents, latest>>
  BY DEF Route, dbVars
<1> HIDE DEF row, way
<1>5. /\ visit'[t].url = visit[t].url /\ visit'[t].advice = visit[t].advice
      /\ visit'[t].comparison = visit[t].comparison /\ visit'[t].strategy = way
      /\ \A s \in Tasks \ {t} : visit'[s] = visit[s]
  BY <1>1, <1>2 DEF Visits
<1>6. Others(t) /\ phase'[t] = "fetching"
  BY <1>4, <1>5, GoesTo DEF Others
<1> QED BY <1>3, <1>4, <1>5, <1>6 DEF row

LEMMA FetchDoes ==
    ASSUME Shape, NEW t \in Tasks, Fetch(t)
    PROVE  LET browser == visit[t].strategy = "browser"
               face    == site[visit[t].url]
           IN  /\ Others(t) /\ phase[t] = "fetching" /\ phase'[t] \in {"escalating", "visited"}
               /\ browser => phase'[t] = "visited"
               /\ visit'[t].url = visit[t].url /\ visit'[t].advice = visit[t].advice
               /\ visit'[t].comparison = visit[t].comparison /\ visit'[t].strategy = visit[t].strategy
               /\ visit'[t].success = TRUE /\ visit'[t].used_browser = browser
               /\ visit'[t].found = Extract(t, IF browser THEN face.browser ELSE face.http)
               /\ UNCHANGED <<site, domain, patterns, documents, latest>>
<1>1. PICK V : visit \in [Tasks -> Visits(V)]
  BY DEF Shape
<1> DEFINE browser == visit[t].strategy = "browser"
           face    == site[visit[t].url]
           page    == IF browser THEN face.browser ELSE face.http
           found   == Extract(t, page)
<1>2. visit' = [visit EXCEPT ![t].page = page, ![t].found = found, ![t].success = TRUE, ![t].used_browser = browser]
  BY DEF Fetch
<1>3. PICK ph \in {"escalating", "visited"} : Goto(t, ph) /\ (browser => ph = "visited")
  BY DEF Fetch
<1>4. phase[t] = "fetching" /\ UNCHANGED <<site, domain, patterns, documents, latest>>
  BY DEF Fetch, dbVars
<1> HIDE DEF page, found, browser
<1>5. /\ visit'[t].url = visit[t].url /\ visit'[t].advice = visit[t].advice
      /\ visit'[t].comparison = visit[t].comparison /\ visit'[t].strategy = visit[t].strategy
      /\ visit'[t].success = TRUE /\ visit'[t].used_browser = browser /\ visit'[t].found = found
      /\ \A s \in Tasks \ {t} : visit'[s] = visit[s]
  BY <1>1, <1>2 DEF Visits
<1>6. Others(t) /\ phase'[t] = ph
  BY <1>3, <1>5, GoesTo DEF Others
<1> QED BY <1>3, <1>4, <1>5, <1>6 DEF found, page, browser

LEMMA EscalateDoes ==
    ASSUME Shape, NEW t \in Tasks, Escalate(t)
    PROVE  /\ Others(t) /\ phase[t] = "escalating" /\ phase'[t] = "visited"
           /\ visit'[t].url = visit[t].url /\ visit'[t].advice = visit[t].advice
           /\ visit'[t].strategy = visit[t].strategy /\ visit'[t].success = visit[t].success
           /\ \/ visit'[t].comparison = "browser_superior" /\ visit'[t].used_browser = TRUE
              \/ visit'[t].used_browser = visit[t].used_browser /\ visit'[t].found = visit[t].found
           /\ UNCHANGED <<site, domain, patterns, documents, latest>>
<1>1. PICK V : visit \in [Tasks -> Visits(V)]
  BY DEF Shape
<1>2. PICK p, f, c, v :
            /\ visit' = [visit EXCEPT ![t] = v]
            /\ v \in {[visit[t] EXCEPT !.page = p, !.found = f, !.comparison = "browser_superior", !.used_browser = TRUE],
                     [visit[t] EXCEPT !.comparison = c]}
  BY DEF Escalate
<1>3. visit'[t] = v /\ \A s \in Tasks \ {t} : visit'[s] = visit[s]
  BY <1>1, <1>2
<1>4. visit[t] \in Visits(V)
  BY <1>1
<1>5. /\ v.url = visit[t].url /\ v.advice = visit[t].advice
      /\ v.strategy = visit[t].strategy /\ v.success = visit[t].success
  BY <1>2, <1>4 DEF Visits
<1>6. \/ v.comparison = "browser_superior" /\ v.used_browser = TRUE
      \/ v.used_browser = visit[t].used_browser /\ v.found = visit[t].found
  BY <1>2, <1>4 DEF Visits
<1>7. Goto(t, "visited") /\ phase[t] = "escalating" /\ UNCHANGED <<site, domain, patterns, documents, latest>>
  BY DEF Escalate, dbVars
<1>8. Others(t) /\ phase'[t] = "visited"
  BY <1>3, <1>7, GoesTo DEF Others
<1> QED BY <1>3, <1>5, <1>6, <1>7, <1>8

LEMMA FailureDoes ==
    ASSUME Shape, NEW t \in Tasks, FetchFails(t) \/ EscalationFails(t)
    PROVE  /\ Others(t) /\ phase[t] \in {"fetching", "escalating"} /\ phase'[t] = "visited" /\ visit'[t] = visit[t]
           /\ phase[t] = "fetching" => Spend("failures")
           /\ UNCHANGED <<site, domain, patterns, documents, latest>>
<1>1. Goto(t, "visited") /\ UNCHANGED <<visit, site, domain, patterns, documents, latest>>
  BY DEF FetchFails, EscalationFails, dbVars
<1>2. phase[t] \in {"fetching", "escalating"} /\ (phase[t] = "fetching" => Spend("failures"))
  BY DEF FetchFails, EscalationFails
<1> QED BY <1>1, <1>2, GoesTo DEF Others

LEMMA DoneDoes ==
    ASSUME Shape, NEW t \in Tasks, Done(t)
    PROVE  Others(t) /\ phase'[t] = "idle" /\ visit'[t] = NoVisit
<1>1. PICK V : visit \in [Tasks -> Visits(V)]
  BY DEF Shape
<1>2. visit'[t] = NoVisit /\ \A s \in Tasks \ {t} : visit'[s] = visit[s]
  BY <1>1 DEF Done
<1>3. Goto(t, "idle")
  BY DEF Done
<1> QED BY <1>2, <1>3, GoesTo DEF Others

LEMMA RecordFetchDoes ==
    ASSUME Shape, NEW t \in Tasks, RecordFetch(t)
    PROVE  /\ Others(t) /\ phase[t] = "visited" /\ phase'[t] = "counted" /\ visit'[t] = visit[t]
           /\ domain' = Counted(domain, Outcome(visit[t]))
           /\ UNCHANGED <<site, patterns, documents, latest, spent>>
<1>1. /\ Goto(t, "counted") /\ phase[t] = "visited" /\ domain' = Counted(domain, Outcome(visit[t]))
      /\ UNCHANGED <<visit, site, patterns, documents, latest, spent>>
  BY DEF RecordFetch
<1> QED BY <1>1, GoesTo DEF Others

LEMMA RecordPatternDoes ==
    ASSUME Shape, NEW t \in Tasks, RecordPattern(t)
    PROVE  /\ Others(t) /\ phase[t] = "counted"
           /\ \/ phase'[t] = "learned" /\ visit'[t] = visit[t]
              \/ phase'[t] = "idle" /\ visit'[t] = NoVisit
           /\ patterns' = [patterns EXCEPT ![PatternOf[visit[t].url]] =
                             CountedPattern(patterns[PatternOf[visit[t].url]], Outcome(visit[t]))]
           /\ UNCHANGED <<site, domain, documents, latest, spent>>
<1>1. /\ phase[t] = "counted"
      /\ patterns' = [patterns EXCEPT ![PatternOf[visit[t].url]] =
                             CountedPattern(patterns[PatternOf[visit[t].url]], Outcome(visit[t]))]
      /\ UNCHANGED <<site, domain, documents, latest, spent>>
  BY DEF RecordPattern
<1>2. Done(t) \/ (Goto(t, "learned") /\ visit' = visit)
  BY DEF RecordPattern
<1>3. CASE Done(t)
  BY <1>1, <1>3, DoneDoes
<1>4. CASE Goto(t, "learned") /\ visit' = visit
  <2>1. Others(t) /\ phase'[t] = "learned"
    BY <1>4, GoesTo DEF Others
  <2> QED BY <1>1, <1>4, <2>1
<1> QED BY <1>2, <1>3, <1>4

LEMMA StoreOrAbortDoes ==
    ASSUME Shape, NEW t \in Tasks, Store(t) \/ Abort(t)
    PROVE  /\ Others(t) /\ phase'[t] = "idle" /\ visit'[t] = NoVisit
           /\ Store(t) => phase[t] = "learned" /\ spent' = spent
           /\ Abort(t) => Spend("aborts")
           /\ UNCHANGED <<site, domain, patterns>>
<1>1. Done(t) /\ UNCHANGED <<site, domain, patterns>>
  BY DEF Store, Abort, dbVars
<1>2. (Store(t) => phase[t] = "learned" /\ spent' = spent) /\ (Abort(t) => Spend("aborts"))
  BY DEF Store, Abort
<1> QED BY <1>1, <1>2, DoneDoes

-----------------------------------------------------------------------------
(***************************************************************************)
(* The ledger: what the domain's row has counted, its patterns' rows have  *)
(* counted too, but for the visits between the two transactions and those  *)
(* cut off there; attempts, each way of fetching, each result of comparing. *)
(***************************************************************************)

LedgerKeys ==
    {"http_attempts", "http_successes", "browser_attempts", "browser_superior_count", "http_superior_count",
     "browser_equivalent_count"}

Measures == LedgerKeys \cup {"attempts"}

Count(m, profile) == IF m = "attempts" THEN Attempts(profile) ELSE profile[m]

Noted(m, v) == m = "attempts" \/ Gain(Outcome(v))[m] = 1

LEMMA GainIsOneOrNone ==
    ASSUME NEW o
    PROVE  /\ \A k \in LedgerKeys : Gain(o)[k] \in {0, 1}
           /\ o.strategy \in Strategies => Gain(o).http_attempts + Gain(o).browser_attempts = 1
<1>1. \A c : Once(c) \in {0, 1}
  BY DEF Once, Points
<1>2. /\ Gain(o).http_attempts = Once(o.strategy = "http") /\ Gain(o).browser_attempts = Once(o.strategy = "browser")
      /\ Gain(o).http_successes = Once(o.strategy = "http" /\ o.success)
      /\ Gain(o).browser_superior_count = Once(o.comparison = "browser_superior")
      /\ Gain(o).http_superior_count = Once(o.comparison = "http_superior")
      /\ Gain(o).browser_equivalent_count = Once(o.comparison = "equivalent")
  BY DEF Gain
<1>3. \A k \in LedgerKeys : Gain(o)[k] \in {0, 1}
  BY <1>1, <1>2 DEF LedgerKeys
<1>4. o.strategy \in Strategies => Once(o.strategy = "http") + Once(o.strategy = "browser") = 1
  BY DEF Strategies, Once, Points
<1> QED BY <1>2, <1>3, <1>4

LEMMA OutcomeHasStrategy ==
    ASSUME NEW v, v.strategy \in Strategies
    PROVE  Outcome(v).strategy \in Strategies
<1>1. Outcome(v).strategy
        = IF v.success /\ v.used_browser THEN "browser" ELSE IF v.success THEN "http" ELSE v.strategy
  BY DEF Outcome
<1> QED BY <1>1 DEF Strategies

\* A row of counters.
Counters(profile) == LedgerKeys \subseteq DOMAIN profile /\ \A k \in LedgerKeys : profile[k] \in Nat

LEMMA CountedCounters ==
    ASSUME NEW p, Counters(p), NEW o
    PROVE  /\ Counters(Counted(p, o)) /\ DOMAIN Counted(p, o) = DOMAIN p
           /\ \A k \in LedgerKeys : Counted(p, o)[k] = p[k] + Gain(o)[k]
<1>1. DOMAIN Counted(p, o) = DOMAIN p /\ \A k \in LedgerKeys : Counted(p, o)[k] = p[k] + Gain(o)[k]
  BY DEF Counters, Counted
<1>2. \A k \in LedgerKeys : p[k] \in Nat /\ Gain(o)[k] \in {0, 1}
  BY GainIsOneOrNone DEF Counters
<1>3. \A k \in LedgerKeys : Counted(p, o)[k] \in Nat
  BY <1>1, <1>2
<1> QED BY <1>1, <1>3 DEF Counters

\* A pattern's row.
Buckets(row) == IsFiniteSet(DOMAIN row.buckets) /\ \A ty \in DOMAIN row.buckets : Counters(row.buckets[ty])

\* The rollup of a row, as a sum.
Column(row, k) == [ty \in DOMAIN row.buckets |-> row.buckets[ty][k]]

LEMMA RollupIsSum ==
    ASSUME NEW row, Buckets(row), NEW k \in LedgerKeys
    PROVE  /\ Rollup(row)[k] = SumFunctionOnSet(Column(row, k), DOMAIN row.buckets)
           /\ Rollup(row)[k] \in Nat
<1>1. k \in PatternKeys
  BY DEF LedgerKeys, PatternKeys, CommonKeys
<1>2. Rollup(row)[k] = SumFunctionOnSet(Column(row, k), DOMAIN row.buckets)
  BY <1>1 DEF Rollup, SumFunction, Column
<1>3. \A ty \in DOMAIN row.buckets : Column(row, k)[ty] \in Nat
  BY DEF Column, Buckets, Counters
<1> QED BY <1>2, <1>3, SumOfNats DEF Buckets

LEMMA RollupHasKeys == \A row : DOMAIN Rollup(row) = PatternKeys
BY DEF Rollup

\* Whatever its type, an outcome is counted once in the rollup.
LEMMA RollupCounts ==
    ASSUME NEW row, Buckets(row), NEW o
    PROVE  /\ Buckets(CountedPattern(row, o))
           /\ \A k \in LedgerKeys : Rollup(CountedPattern(row, o))[k] = Rollup(row)[k] + Gain(o)[k]
<1> DEFINE type == IF o.type = Nothing THEN "UNKNOWN" ELSE o.type
           D    == DOMAIN row.buckets
           E    == D \cup {type}
           new  == CountedPattern(row, o)
<1>1. new.buckets = [ty \in E |-> IF ty = type THEN Counted(Bucket(row, ty), o) ELSE row.buckets[ty]]
  BY DEF CountedPattern
<1> HIDE DEF type, new
<1>2. DOMAIN new.buckets = E /\ new.buckets[type] = Counted(Bucket(row, type), o)
      /\ \A ty \in D \ {type} : new.buckets[ty] = row.buckets[ty]
  BY <1>1
<1>3. Counters(Bucket(row, type)) /\ \A k \in LedgerKeys : type \notin D => Bucket(row, type)[k] = 0
  <2>1. Counters(Zeros(PatternKeys)) /\ \A k \in LedgerKeys : Zeros(PatternKeys)[k] = 0
    BY DEF Counters, Zeros, LedgerKeys, PatternKeys, CommonKeys
  <2> QED BY <2>1 DEF Bucket, Buckets
<1>4. /\ Counters(new.buckets[type])
      /\ \A k \in LedgerKeys : new.buckets[type][k] = Bucket(row, type)[k] + Gain(o)[k]
  BY <1>2, <1>3, CountedCounters
<1>5. IsFiniteSet(D) /\ IsFiniteSet(E)
  BY FS_AddElement DEF Buckets
<1>6. \A ty \in E : Counters(new.buckets[ty])
  BY <1>2, <1>4 DEF Buckets
<1>7. Buckets(new)
  BY <1>2, <1>5, <1>6 DEF Buckets
<1>8. ASSUME NEW k \in LedgerKeys PROVE Rollup(new)[k] = Rollup(row)[k] + Gain(o)[k]
  <2> DEFINE f == Column(row, k)
             g == Column(new, k)
  <2>1. \A ty \in E : g[ty] = new.buckets[ty][k] /\ g[ty] \in Nat
    BY <1>2, <1>6 DEF Column, Counters
  <2>2. \A ty \in D : f[ty] = row.buckets[ty][k] /\ f[ty] \in Nat
    BY DEF Column, Counters, Buckets
  <2>3. \A ty \in D \ {type} : f[ty] = g[ty]
    BY <1>2, <2>1, <2>2
  <2>4. Rollup(new)[k] = SumFunctionOnSet(g, E) /\ Rollup(row)[k] = SumFunctionOnSet(f, D)
    BY <1>2, <1>7, RollupIsSum
  <2>5. Gain(o)[k] \in {0, 1}
    BY GainIsOneOrNone
  <2>6. g[type] = Bucket(row, type)[k] + Gain(o)[k]
    BY <1>4, <2>1
  <2> HIDE DEF f, g
  <2>7. CASE type \in D
    <3>1. E = D /\ Bucket(row, type)[k] = f[type]
      BY <2>2, <2>7 DEF Bucket
    <3>2. SumFunctionOnSet(g, D) = SumFunctionOnSet(f, D) + g[type] - f[type]
      BY <1>5, <2>1, <2>2, <2>3, <2>7, SumChanges
    <3>3. SumFunctionOnSet(f, D) \in Nat /\ f[type] \in Nat
      BY <1>5, <2>2, <2>7, SumOfNats
    <3>4. g[type] = f[type] + Gain(o)[k] /\ Rollup(new)[k] = SumFunctionOnSet(g, D)
      BY <2>4, <2>6, <3>1
    <3> QED BY <2>4, <2>5, <3>2, <3>3, <3>4
  <2>8. CASE type \notin D
    <3>1. E \ {type} = D /\ Bucket(row, type)[k] = 0
      BY <1>3, <2>8
    <3>2. SumFunctionOnSet(g, E) = g[type] + SumFunctionOnSet(g, E \ {type})
      BY <1>5, <2>1, SumWithout
    <3>3. SumFunctionOnSet(g, D) = SumFunctionOnSet(f, D) /\ SumFunctionOnSet(f, D) \in Nat
      BY <1>5, <2>2, <2>3, <2>8, SumOfSame, SumOfNats
    <3> QED BY <2>4, <2>5, <2>6, <3>1, <3>2, <3>3
  <2> QED BY <2>7, <2>8
<1> QED BY <1>7, <1>8 DEF new

\* Counting an outcome moves a measure by what the visit notes of it.
Note(m, v) == IF Noted(m, v) THEN 1 ELSE 0

LEMMA CountMoves ==
    ASSUME NEW p, NEW q, NEW v, Counters(p), v.strategy \in Strategies,
           \A k \in LedgerKeys : q[k] = p[k] + Gain(Outcome(v))[k], NEW m \in Measures
    PROVE  Count(m, q) = Count(m, p) + Note(m, v) /\ Count(m, p) \in Nat /\ Count(m, q) \in Nat
<1>1. \A k \in LedgerKeys : p[k] \in Nat /\ Gain(Outcome(v))[k] \in {0, 1}
  BY GainIsOneOrNone DEF Counters
<1>2. Gain(Outcome(v)).http_attempts + Gain(Outcome(v)).browser_attempts = 1
  BY OutcomeHasStrategy, GainIsOneOrNone
<1>3. CASE m = "attempts"
  <2>1. "http_attempts" \in LedgerKeys /\ "browser_attempts" \in LedgerKeys
    BY DEF LedgerKeys
  <2>2. /\ q.http_attempts = p.http_attempts + Gain(Outcome(v)).http_attempts
        /\ q.browser_attempts = p.browser_attempts + Gain(Outcome(v)).browser_attempts
        /\ p.http_attempts \in Nat /\ p.browser_attempts \in Nat
        /\ Gain(Outcome(v)).http_attempts \in {0, 1} /\ Gain(Outcome(v)).browser_attempts \in {0, 1}
    BY <1>1, <2>1
  <2>3. Attempts(q) = Attempts(p) + 1 /\ Attempts(p) \in Nat
    BY <1>2, <2>2 DEF Attempts
  <2> QED BY <1>3, <2>3 DEF Count, Note, Noted
<1>4. CASE m \in LedgerKeys
  <2>1. m # "attempts"
    BY <1>4 DEF LedgerKeys
  <2> QED BY <1>1, <1>4, <2>1 DEF Count, Note, Noted
<1> QED BY <1>3, <1>4 DEF Measures

\* The visits between the two transactions.
Between(m) == {t \in Tasks : phase[t] = "counted" /\ Noted(m, visit[t])}

PerPattern(m) == [p \in Patterns |-> Count(m, Rollup(patterns[p]))]

OfPatterns(m) == SumFunctionOnSet(PerPattern(m), Patterns)

\* A visit on its way has a URL, one that has been routed a strategy.
RowsInv ==
    /\ DOMAIN domain = DomainKeys /\ Counters(domain)
    /\ DOMAIN patterns = Patterns /\ \A p \in Patterns : Buckets(patterns[p])
    /\ \A t \in Tasks :
         /\ phase[t] # "idle" => visit[t].url \in Urls
         /\ phase[t] \in Routed => visit[t].strategy \in Strategies
         /\ visit[t].advice \in Strategies \cup {Nothing}

LedgerInv ==
    \A m \in Measures : Count(m, domain) - OfPatterns(m) - Cardinality(Between(m)) \in 0 .. spent.aborts

LEMMA RowsInit == Init => RowsInv
<1> SUFFICES ASSUME Init PROVE RowsInv
  OBVIOUS
<1>1. DOMAIN domain = DomainKeys /\ Counters(domain)
  BY DEF Init, Counters, Zeros, LedgerKeys, DomainKeys, CommonKeys
<1>2. \A p \in Patterns : patterns[p] = NoPattern
  BY DEF Init
<1>3. Buckets(NoPattern)
  BY FS_EmptySet DEF NoPattern, Buckets
<1>4. \A t \in Tasks : phase[t] = "idle" /\ visit[t].advice = Nothing
  BY DEF Init, NoVisit
<1> QED BY <1>1, <1>2, <1>3, <1>4 DEF Init, RowsInv, Routed

LEMMA RowsStep ==
    ASSUME Shape, RowsInv, [Next]_vars
    PROVE  RowsInv'
<1>1. CASE UNCHANGED vars \/ SiteChanges
  <2>1. UNCHANGED <<domain, patterns, phase, visit>>
    BY <1>1 DEF vars, dbVars, SiteChanges
  <2> QED BY <2>1 DEF RowsInv, Counters, Buckets
<1>2. ASSUME NEW t \in Tasks, Work(t) \/ FetchFails(t) \/ EscalationFails(t) \/ Abort(t)
      PROVE  RowsInv'
  <2>1. ASSUME Others(t),
               DOMAIN domain' = DomainKeys, Counters(domain'),
               DOMAIN patterns' = Patterns, \A p \in Patterns : Buckets(patterns'[p]),
               phase'[t] # "idle" => visit'[t].url \in Urls,
               phase'[t] \in Routed => visit'[t].strategy \in Strategies,
               visit'[t].advice \in Strategies \cup {Nothing}
        PROVE  RowsInv'
    <3>1. \A s \in Tasks :
            /\ phase'[s] # "idle" => visit'[s].url \in Urls
            /\ phase'[s] \in Routed => visit'[s].strategy \in Strategies
            /\ visit'[s].advice \in Strategies \cup {Nothing}
      BY <2>1 DEF RowsInv, Others
    <3> QED BY <2>1, <3>1 DEF RowsInv, Counters, Buckets
  <2>2. /\ DOMAIN domain = DomainKeys /\ Counters(domain)
        /\ DOMAIN patterns = Patterns /\ \A p \in Patterns : Buckets(patterns[p])
        /\ phase[t] # "idle" => visit[t].url \in Urls
        /\ phase[t] \in Routed => visit[t].strategy \in Strategies
        /\ visit[t].advice \in Strategies \cup {Nothing}
    BY DEF RowsInv
  <2>3. CASE ReadDomain(t)
    <3>1. "reading" \notin Routed
      BY DEF Routed
    <3> QED BY <2>1, <2>2, <2>3, <3>1, ReadDomainDoes, AdviceIsStrategy
  <2>4. CASE Route(t)
    <3>1. Advice(patterns[PatternOf[visit[t].url]], visit[t].advice) \in Strategies /\ "http" \in Strategies
      BY <2>2, AdviceIsStrategy DEF Strategies
    <3> QED BY <2>1, <2>2, <2>4, <3>1, RouteDoes
  <2>5. CASE Fetch(t)
    BY <2>1, <2>2, <2>5, FetchDoes DEF Routed
  <2>6. CASE Escalate(t)
    BY <2>1, <2>2, <2>6, EscalateDoes DEF Routed
  <2>7. CASE FetchFails(t) \/ EscalationFails(t)
    BY <2>1, <2>2, <2>7, FailureDoes DEF Routed
  <2>8. CASE RecordFetch(t)
    <3>1. domain' = Counted(domain, Outcome(visit[t]))
      BY <2>8, RecordFetchDoes
    <3>2. Counters(domain') /\ DOMAIN domain' = DomainKeys
      BY <2>2, <3>1, CountedCounters
    <3> QED BY <2>1, <2>2, <2>8, <3>2, RecordFetchDoes DEF Routed
  <2>9. CASE RecordPattern(t)
    <3>1. patterns' = [patterns EXCEPT ![PatternOf[visit[t].url]] =
                             CountedPattern(patterns[PatternOf[visit[t].url]], Outcome(visit[t]))]
      BY <2>9, RecordPatternDoes
    <3>2. DOMAIN patterns' = Patterns /\ \A p \in Patterns : Buckets(patterns'[p])
      BY <2>2, <3>1, RollupCounts
    <3>3. NoVisit.advice = Nothing
      BY DEF NoVisit
    <3> QED BY <2>1, <2>2, <2>9, <3>2, <3>3, RecordPatternDoes DEF Routed
  <2>10. CASE Store(t) \/ Abort(t)
    <3>1. NoVisit.advice = Nothing /\ "idle" \notin Routed
      BY DEF NoVisit, Routed
    <3> QED BY <2>1, <2>2, <2>10, <3>1, StoreOrAbortDoes
  <2> QED BY <1>2, <2>3, <2>4, <2>5, <2>6, <2>7, <2>8, <2>9, <2>10 DEF Work
<1> QED BY <1>1, <1>2 DEF Next

LEMMA MeasuresOfRows ==
    ASSUME RowsInv, NEW m \in Measures
    PROVE  /\ Count(m, domain) \in Nat
           /\ \A p \in Patterns : PerPattern(m)[p] = Count(m, Rollup(patterns[p])) /\ PerPattern(m)[p] \in Nat
           /\ OfPatterns(m) \in Nat
           /\ IsFiniteSet(Between(m)) /\ Cardinality(Between(m)) \in Nat
<1>1. ASSUME NEW p, \A k \in LedgerKeys : p[k] \in Nat PROVE Count(m, p) \in Nat
  BY <1>1 DEF Count, Measures, Attempts, LedgerKeys
<1>2. \A p \in Patterns : PerPattern(m)[p] = Count(m, Rollup(patterns[p]))
  BY DEF PerPattern
<1>3. \A p \in Patterns : \A k \in LedgerKeys : Rollup(patterns[p])[k] \in Nat
  BY RollupIsSum DEF RowsInv
<1>4. \A p \in Patterns : PerPattern(m)[p] \in Nat
  BY <1>1, <1>2, <1>3
<1>5. OfPatterns(m) \in Nat
  BY <1>4, SumOfNats, VisitAssumption DEF OfPatterns
<1>6. Between(m) \subseteq Tasks
  BY DEF Between
<1>7. IsFiniteSet(Between(m)) /\ Cardinality(Between(m)) \in Nat
  BY <1>6, TasksCount
<1>8. Count(m, domain) \in Nat
  BY <1>1 DEF RowsInv, Counters
<1> QED BY <1>2, <1>4, <1>5, <1>7, <1>8

\* A task enters and leaves the visits between as its phase says.
LEMMA BetweenMoves ==
    ASSUME NEW t \in Tasks, Others(t), NEW m \in Measures, IsFiniteSet(Between(m))
    PROVE  LET before == phase[t] = "counted" /\ Noted(m, visit[t])
               after  == phase'[t] = "counted" /\ Noted(m, visit'[t])
           IN  Cardinality(Between(m)') =
                 Cardinality(Between(m)) + (IF after THEN 1 ELSE 0) - (IF before THEN 1 ELSE 0)
<1> DEFINE before == phase[t] = "counted" /\ Noted(m, visit[t])
           after  == phase'[t] = "counted" /\ Noted(m, visit'[t])
           rest   == Between(m) \ {t}
<1>1. Between(m)' = {s \in Tasks : phase'[s] = "counted" /\ Noted(m, visit'[s])}
  BY DEF Between
<1>2. \A s \in Tasks \ {t} : s \in Between(m)' <=> s \in Between(m)
  BY <1>1 DEF Others, Between
<1>3. (t \in Between(m)' <=> after) /\ (t \in Between(m) <=> before)
  BY <1>1 DEF Between
<1>4. Between(m)' = (IF after THEN rest \cup {t} ELSE rest)
  <2>1. Between(m)' \subseteq Tasks /\ Between(m) \subseteq Tasks
    BY <1>1 DEF Between
  <2> HIDE DEF after, before
  <2> QED BY <1>2, <1>3, <2>1
<1>5. /\ IsFiniteSet(rest) /\ t \notin rest
      /\ Cardinality(rest) = Cardinality(Between(m)) - (IF before THEN 1 ELSE 0)
      /\ Cardinality(Between(m)) \in Nat
  BY <1>3, FS_RemoveElement, FS_CardinalityType
<1> HIDE DEF rest
<1>6. Cardinality(rest \cup {t}) = Cardinality(rest) + 1
  BY <1>5, FS_AddElement
<1> HIDE DEF before, after
<1>7. Cardinality(Between(m)') = Cardinality(rest) + (IF after THEN 1 ELSE 0)
  BY <1>4, <1>5, <1>6, FS_CardinalityType
<1> QED BY <1>5, <1>7 DEF before, after

LEMMA LedgerInit == Init /\ RowsInv => LedgerInv
<1> SUFFICES ASSUME Init, RowsInv, NEW m \in Measures
             PROVE  Count(m, domain) - OfPatterns(m) - Cardinality(Between(m)) \in 0 .. spent.aborts
  BY DEF LedgerInv
<1>1. Count(m, domain) = 0
  <2>1. \A k \in LedgerKeys : domain[k] = 0
    BY DEF Init, Zeros, LedgerKeys, DomainKeys, CommonKeys
  <2> QED BY <2>1 DEF Count, Measures, Attempts, LedgerKeys
<1>2. Between(m) = {}
  BY DEF Init, Between
<1>3. OfPatterns(m) = 0
  <2>1. \A k \in LedgerKeys : Rollup(NoPattern)[k] = 0
    <3> SUFFICES ASSUME NEW k \in LedgerKeys PROVE Rollup(NoPattern)[k] = 0
      OBVIOUS
    <3>1. Buckets(NoPattern) /\ DOMAIN NoPattern.buckets = {}
      BY FS_EmptySet DEF NoPattern, Buckets
    <3> QED BY <3>1, RollupIsSum, SumOfZeros, FS_EmptySet
  <2>2. Count(m, Rollup(NoPattern)) = 0
    BY <2>1 DEF Count, Measures, Attempts, LedgerKeys
  <2>3. \A p \in Patterns : PerPattern(m)[p] = 0
    BY <2>2 DEF Init, PerPattern
  <2> QED BY <2>3, SumOfZeros, VisitAssumption DEF OfPatterns
<1> QED BY <1>1, <1>2, <1>3, FS_EmptySet DEF Init

\* The other direction of a step: what a pattern's row gains.
LEMMA PatternGains ==
    ASSUME RowsInv, RowsInv', NEW t \in Tasks, phase[t] = "counted", NEW m \in Measures,
           patterns' = [patterns EXCEPT ![PatternOf[visit[t].url]] =
                          CountedPattern(patterns[PatternOf[visit[t].url]], Outcome(visit[t]))]
    PROVE  OfPatterns(m)' = OfPatterns(m) + Note(m, visit[t])
<1> DEFINE p == PatternOf[visit[t].url]
           f == PerPattern(m)
           g == PerPattern(m)'
<1>1. p \in Patterns /\ visit[t].strategy \in Strategies
  BY VisitAssumption DEF RowsInv, Routed
<1> HIDE DEF p
<1>2. /\ patterns'[p] = CountedPattern(patterns[p], Outcome(visit[t]))
      /\ \A q \in Patterns \ {p} : patterns'[q] = patterns[q]
  BY <1>1 DEF RowsInv, p
<1>3. \A k \in LedgerKeys : Rollup(patterns'[p])[k] = Rollup(patterns[p])[k] + Gain(Outcome(visit[t]))[k]
  BY <1>1, <1>2, RollupCounts DEF RowsInv
<1>4. Counters(Rollup(patterns[p]))
  <2>1. LedgerKeys \subseteq DOMAIN Rollup(patterns[p])
    BY RollupHasKeys DEF LedgerKeys, PatternKeys, CommonKeys
  <2> QED BY <1>1, <2>1, RollupIsSum DEF RowsInv, Counters
<1>5. \A q \in Patterns : f[q] = Count(m, Rollup(patterns[q])) /\ f[q] \in Nat
  BY MeasuresOfRows
<1>6. \A q \in Patterns : g[q] = Count(m, Rollup(patterns'[q]))
  BY DEF PerPattern
<1>7. g[p] = f[p] + Note(m, visit[t]) /\ g[p] \in Nat /\ Note(m, visit[t]) \in Nat
  BY <1>1, <1>3, <1>4, <1>5, <1>6, CountMoves DEF Note
<1>8. \A q \in Patterns \ {p} : g[q] = f[q]
  BY <1>2, <1>5, <1>6
<1>9. \A q \in Patterns : g[q] \in Nat
  BY <1>5, <1>7, <1>8
<1>10. OfPatterns(m)' = SumFunctionOnSet(g, Patterns) /\ OfPatterns(m) = SumFunctionOnSet(f, Patterns)
  BY DEF OfPatterns
<1>11. OfPatterns(m) \in Nat
  BY MeasuresOfRows
<1> HIDE DEF f, g
<1>12. SumFunctionOnSet(g, Patterns) = SumFunctionOnSet(f, Patterns) + g[p] - f[p]
  BY <1>1, <1>5, <1>8, <1>9, SumChanges, VisitAssumption
<1> QED BY <1>1, <1>5, <1>7, <1>10, <1>11, <1>12

LEMMA LedgerStep ==
    ASSUME Shape, SpentOK, RowsInv, LedgerInv, [Next]_vars
    PROVE  LedgerInv'
<1>0. RowsInv' /\ SpentOK' /\ spent'.aborts >= spent.aborts
  BY RowsStep, SpentStep
<1> SUFFICES ASSUME NEW m \in Measures
             PROVE  Count(m, domain') - OfPatterns(m)' - Cardinality(Between(m)') \in 0 .. spent'.aborts
  BY DEF LedgerInv, Count, Attempts
<1> DEFINE D == Count(m, domain)
           P == OfPatterns(m)
           B == Cardinality(Between(m))
           a == spent.aborts
<1>1. D \in Nat /\ P \in Nat /\ B \in Nat /\ IsFiniteSet(Between(m)) /\ D - P - B \in 0 .. a
  BY MeasuresOfRows DEF LedgerInv
<1>2. a \in Nat /\ spent'.aborts \in Nat /\ spent'.aborts >= a
  BY <1>0 DEF SpentOK
<1>3. UNCHANGED patterns => OfPatterns(m)' = P
  BY DEF OfPatterns, PerPattern
<1>4. CASE UNCHANGED vars \/ SiteChanges
  <2>1. UNCHANGED <<domain, patterns, phase, visit>>
    BY <1>4 DEF vars, dbVars, SiteChanges
  <2>2. Between(m)' = Between(m) /\ Count(m, domain') = D
    BY <2>1 DEF Between
  <2> QED BY <1>1, <1>2, <1>3, <2>1, <2>2
<1>5. ASSUME NEW t \in Tasks, Work(t) \/ FetchFails(t) \/ EscalationFails(t) \/ Abort(t)
      PROVE  Count(m, domain') - OfPatterns(m)' - Cardinality(Between(m)') \in 0 .. spent'.aborts
  <2>1. ASSUME Others(t), UNCHANGED <<domain, patterns>>, phase[t] # "counted", phase'[t] # "counted"
        PROVE  Count(m, domain') - OfPatterns(m)' - Cardinality(Between(m)') \in 0 .. spent'.aborts
    <3>1. Cardinality(Between(m)') = B
      BY <1>1, <2>1, BetweenMoves
    <3>2. Count(m, domain') = D
      BY <2>1
    <3> HIDE DEF D, P, B, a
    <3> QED BY <1>1, <1>2, <1>3, <2>1, <3>1, <3>2
  <2>2. CASE ReadDomain(t)
    BY <2>1, <2>2, ReadDomainDoes
  <2>3. CASE Route(t)
    BY <2>1, <2>3, RouteDoes
  <2>4. CASE Fetch(t)
    BY <2>1, <2>4, FetchDoes
  <2>5. CASE Escalate(t)
    BY <2>1, <2>5, EscalateDoes
  <2>6. CASE FetchFails(t) \/ EscalationFails(t)
    BY <2>1, <2>6, FailureDoes
  <2>7. CASE RecordFetch(t)
    <3>1. /\ Others(t) /\ phase[t] = "visited" /\ phase'[t] = "counted" /\ visit'[t] = visit[t]
          /\ domain' = Counted(domain, Outcome(visit[t])) /\ UNCHANGED <<patterns, spent>>
      BY <2>7, RecordFetchDoes
    <3>2. Cardinality(Between(m)') = B + Note(m, visit[t])
      BY <1>1, <3>1, BetweenMoves DEF Note
    <3>3. Count(m, domain') = D + Note(m, visit[t])
      <4>1. Counters(domain) /\ visit[t].strategy \in Strategies
        BY <3>1 DEF RowsInv, Routed
      <4>2. \A k \in LedgerKeys : domain'[k] = domain[k] + Gain(Outcome(visit[t]))[k]
        BY <3>1, <4>1, CountedCounters
      <4> QED BY <4>1, <4>2, CountMoves
    <3>4. Note(m, visit[t]) \in Nat
      BY DEF Note
    <3> HIDE DEF D, P, B, a
    <3> QED BY <1>1, <1>2, <1>3, <3>1, <3>2, <3>3, <3>4
  <2>8. CASE RecordPattern(t)
    <3>1. /\ Others(t) /\ phase[t] = "counted" /\ phase'[t] # "counted" /\ UNCHANGED <<domain, spent>>
      BY <2>8, RecordPatternDoes
    <3>2. Cardinality(Between(m)') = B - Note(m, visit[t])
      BY <1>1, <3>1, BetweenMoves DEF Note
    <3>3. OfPatterns(m)' = P + Note(m, visit[t])
      BY <1>0, <2>8, <3>1, RecordPatternDoes, PatternGains
    <3>4. Note(m, visit[t]) \in Nat /\ Count(m, domain') = D
      BY <3>1 DEF Note
    <3> HIDE DEF D, P, B, a
    <3> QED BY <1>1, <1>2, <3>1, <3>2, <3>3, <3>4
  <2>9. CASE Store(t)
    BY <2>1, <2>9, StoreOrAbortDoes
  <2>10. CASE Abort(t)
    <3>1. Others(t) /\ phase'[t] # "counted" /\ UNCHANGED <<domain, patterns>> /\ Spend("aborts")
      BY <2>10, StoreOrAbortDoes
    <3>2. spent'.aborts = a + 1
      BY <3>1, SpendDoes
    <3>3. Cardinality(Between(m)') \in {B, B - 1}
      BY <1>1, <3>1, BetweenMoves
    <3>4. Count(m, domain') = D
      BY <3>1
    <3> HIDE DEF D, P, B, a
    <3> QED BY <1>1, <1>2, <1>3, <3>1, <3>2, <3>3, <3>4
  <2> QED BY <1>5, <2>2, <2>3, <2>4, <2>5, <2>6, <2>7, <2>8, <2>9, <2>10 DEF Work
<1> QED BY <1>4, <1>5 DEF Next

\* ObservationsAddUp (crawl_repository.py:264): for any number of tasks and
\* patterns, whatever the interleaving, no observation is lost or counted
\* twice but for those of tasks cut off between the two transactions.
THEOREM NothingIsLost == Spec => []ObservationsAddUp
<1>1. RowsInv /\ LedgerInv => ObservationsAddUp
  <2> SUFFICES ASSUME RowsInv, LedgerInv PROVE ObservationsAddUp
    OBVIOUS
  <2> DEFINE m == "attempts"
  <2>1. Count(m, domain) - OfPatterns(m) - Cardinality(Between(m)) \in 0 .. spent.aborts
    BY DEF LedgerInv, Measures
  <2>2. Count(m, domain) = Attempts(domain)
    BY DEF Count
  <2>3. Between(m) = {t \in Tasks : phase[t] = "counted"}
    BY DEF Between, Noted
  <2>4. OfPatterns(m) = SumFunction([p \in Patterns |-> Attempts(Rollup(patterns[p]))])
    BY DEF OfPatterns, PerPattern, Count, SumFunction
  <2> HIDE DEF m
  <2> QED BY <2>1, <2>2, <2>3, <2>4 DEF ObservationsAddUp
<1>2. Shape /\ RowsInv /\ [Next]_vars => RowsInv'
  BY RowsStep
<1>3. Shape /\ SpentOK /\ RowsInv /\ LedgerInv /\ [Next]_vars => LedgerInv'
  BY LedgerStep
<1>4. SpentOK /\ [Next]_vars => SpentOK'
  BY SpentStep
<1> QED BY <1>1, <1>2, <1>3, <1>4, RowsInit, LedgerInit, SpentInit, ShapeHolds, PTL DEF Spec

-----------------------------------------------------------------------------
(***************************************************************************)
(* The browser is learned.  Where nothing is found over HTTP a visit either *)
(* ends with a page fetched over HTTP, and extraction has failed, or with   *)
(* one fetched by the browser; the first of these have been found superior. *)
(***************************************************************************)

Premise == (\A u \in Urls : NothingOverHttp(site[u])) /\ spent.changes = 0 /\ spent.failures = 0

\* What makes any row advise the browser.
Enough == domain.http_attempts > 0 \/ domain.browser_superior_count >= MinObservations

\* A visit after its fetches.
Fetched(v) ==
    /\ v.success = TRUE
    /\ \/ v.used_browser = FALSE /\ v.found.document = Nothing
       \/ v.used_browser = TRUE /\ v.comparison = "browser_superior"
       \/ v.used_browser = TRUE /\ v.comparison = Nothing /\ v.strategy = "browser"

Tried(p) ==
    /\ p.http_successes = p.http_attempts /\ p.http_extraction_failures = p.http_attempts
    /\ p.browser_successes = p.browser_attempts
    /\ \/ p.http_attempts > 0
       \/ /\ p.http_superior_count = 0 /\ p.browser_equivalent_count = 0
          /\ p.browser_superior_count = p.browser_attempts \/ p.browser_superior_count >= MinObservations

OnItsWay(t) ==
    /\ visit[t].advice = "browser" => Enough
    /\ phase[t] \in Routed /\ visit[t].strategy = "browser" => Enough
    /\ phase[t] \in {"reading", "fetching", "escalating"} => visit[t].comparison = Nothing
    /\ phase[t] \in {"visited", "counted", "learned"} => Fetched(visit[t])
    /\ phase[t] = "escalating" =>
         visit[t].success = TRUE /\ visit[t].used_browser = FALSE /\ visit[t].found.document = Nothing

LearnInv == Premise => Tried(domain) /\ \A t \in Tasks : OnItsWay(t)

LEMMA NothingIsNoWord == Nothing \notin {"http", "browser", "browser_superior", "http_superior", "equivalent"}
BY LearningAssumption DEF Strategies, Comparisons

\* No extractor, no document, whatever the type.
LEMMA NothingFound ==
    ASSUME NEW view, NEW seed, NEW hint,
           {view.finds.article, view.finds.forum, view.finds.listing, view.finds.index, view.finds.generic,
            view.finds.scrapling} = {Nothing}
    PROVE  ExtractForPage(view, seed, hint).document = Nothing
<1>1. \A type : ExtractByType(view, type) = Nothing
  BY DEF ExtractByType, FromIndex, Otherwise
<1>2. Scrapled(view, Nothing) = Nothing
  BY DEF Scrapled, Otherwise
<1> QED BY <1>1, <1>2 DEF ExtractForPage

LEMMA LearnInit == Init => LearnInv
<1> SUFFICES ASSUME Init PROVE LearnInv
  OBVIOUS
<1>1. \A k \in DomainKeys : domain[k] = 0
  BY DEF Init, Zeros
<1>2. Tried(domain)
  BY <1>1 DEF Tried, DomainKeys, CommonKeys
<1>3. \A t \in Tasks : visit[t].advice = Nothing /\ phase[t] = "idle"
  BY DEF Init, NoVisit
<1> QED BY <1>2, <1>3, NothingIsNoWord DEF LearnInv, OnItsWay, Routed

\* Counters of the domain that the argument looks at.
LEMMA DomainCounts ==
    ASSUME RowsInv, HealthInv
    PROVE  /\ domain.http_attempts \in Nat /\ domain.http_successes \in Nat /\ domain.http_extraction_failures \in Nat
           /\ domain.browser_attempts \in Nat /\ domain.browser_successes \in Nat
           /\ domain.browser_superior_count \in Nat /\ domain.http_superior_count \in Nat
           /\ domain.browser_equivalent_count \in Nat
BY DEF RowsInv, Counters, LedgerKeys, HealthInv, Consistent, HealthKeys

\* A row that advises the browser where HTTP has been tried by nobody has
\* found the browser superior often enough.
LEMMA WhyBrowser ==
    ASSUME NEW p, DOMAIN p = PatternKeys, p.http_attempts = 0, p.http_superior_count = 0, p.browser_equivalent_count = 0,
           p.http_successes \in Nat, p.browser_superior_count \in Nat, DecideFromStats(p) = "browser"
    PROVE  p.browser_superior_count >= MinObservations
<1>1. MinObservations \in Nat \ {0}
  BY LearningAssumption
<1>2. ~Poor(p, "quality", "quality_observations") /\ ~Poor(p, "completeness", "completeness_observations")
  BY <1>1 DEF Poor
<1>3. /\ ~(p.http_attempts >= MinObservations)
      /\ ~Exceeds(p.http_attempts - p.http_successes, p.http_attempts, 600)
  BY <1>1 DEF Exceeds
<1>4. Stat(p, "http_extraction_failures") = 0
  BY DEF Stat, PatternKeys, CommonKeys
<1>5. ~Exceeds(Stat(p, "http_extraction_failures"), p.http_successes, 600)
  BY <1>4 DEF Exceeds
<1>6. BrowserWins(p)
  BY <1>2, <1>3, <1>5, NothingIsNoWord DEF DecideFromStats
<1> QED BY <1>1, <1>6 DEF BrowserWins

\* A pattern's row has not counted what the domain's has not.
LEMMA PatternsCountLess ==
    ASSUME SpentOK, RowsInv, LedgerInv, NEW p \in Patterns, NEW k \in LedgerKeys
    PROVE  Rollup(patterns[p])[k] \in Nat /\ Rollup(patterns[p])[k] <= domain[k]
<1>1. k \in Measures /\ k # "attempts"
  BY DEF Measures, LedgerKeys
<1>2. domain[k] - OfPatterns(k) - Cardinality(Between(k)) \in 0 .. spent.aborts
  BY <1>1 DEF LedgerInv, Count
<1>3. /\ domain[k] \in Nat /\ OfPatterns(k) \in Nat /\ Cardinality(Between(k)) \in Nat
      /\ \A q \in Patterns : PerPattern(k)[q] = Rollup(patterns[q])[k] /\ PerPattern(k)[q] \in Nat
  BY <1>1, MeasuresOfRows DEF Count
<1>4. PerPattern(k)[p] <= OfPatterns(k)
  BY <1>3, SumIsAtLeast, VisitAssumption DEF OfPatterns
<1> QED BY <1>2, <1>3, <1>4 DEF SpentOK

\* The advice to use the browser has its reason in the domain's row.
LEMMA AdviceHasReason ==
    ASSUME SpentOK, RowsInv, HealthInv, LedgerInv, Tried(domain)
    PROVE  /\ DecideFromStats(domain) = "browser" => Enough
           /\ \A p \in Patterns : DecideFromStats(Rollup(patterns[p])) = "browser" => Enough
<1>1. MinObservations \in Nat \ {0}
  BY LearningAssumption
<1>2. ASSUME DecideFromStats(domain) = "browser" PROVE Enough
  <2>1. Attempts(domain) >= MinObservations
    BY <1>1, <1>2, DomainCounts, NothingIsNoWord DEF DecideFromStats, Attempts
  <2> QED BY <1>1, <2>1, DomainCounts DEF Tried, Enough, Attempts
<1>3. ASSUME NEW p \in Patterns, DecideFromStats(Rollup(patterns[p])) = "browser", ~Enough PROVE FALSE
  <2> DEFINE r == Rollup(patterns[p])
  <2>1. domain.http_attempts = 0 /\ domain.http_superior_count = 0 /\ domain.browser_equivalent_count = 0
    BY <1>3, DomainCounts DEF Tried, Enough
  <2>2. \A k \in LedgerKeys : r[k] \in Nat /\ r[k] <= domain[k]
    BY PatternsCountLess
  <2>3. DOMAIN r = PatternKeys
    BY RollupHasKeys
  <2>4. r.http_successes \in Nat
    BY <2>2 DEF LedgerKeys
  <2> HIDE DEF r
  <2>5. r.http_attempts = 0 /\ r.http_superior_count = 0 /\ r.browser_equivalent_count = 0
        /\ r.browser_superior_count \in Nat /\ r.browser_superior_count <= domain.browser_superior_count
    BY <2>1, <2>2 DEF LedgerKeys
  <2>6. r.browser_superior_count >= MinObservations
    BY <1>3, <2>3, <2>4, <2>5, WhyBrowser DEF r
  <2> QED BY <1>1, <1>3, <2>5, <2>6, DomainCounts DEF Enough
<1> QED BY <1>2, <1>3


\* A counted visit leaves the domain's row as it should be.
LEMMA CountingTried ==
    ASSUME NEW v, Fetched(v), v.strategy = "browser" => Enough, RowsInv, HealthInv, Tried(domain),
           domain' = Counted(domain, Outcome(v))
    PROVE  Tried(domain') /\ (Enough => Enough')
<1> DEFINE o == Outcome(v)
           g == Gain(o)
           d == domain
           e == domain'
<1>1. \A k \in DomainKeys : e[k] = d[k] + g[k]
  BY DEF Counted, RowsInv
<1>2. /\ e.http_attempts = d.http_attempts + g.http_attempts /\ e.http_successes = d.http_successes + g.http_successes
      /\ e.http_extraction_failures = d.http_extraction_failures + g.http_extraction_failures
      /\ e.browser_attempts = d.browser_attempts + g.browser_attempts
      /\ e.browser_successes = d.browser_successes + g.browser_successes
      /\ e.browser_superior_count = d.browser_superior_count + g.browser_superior_count
      /\ e.http_superior_count = d.http_superior_count + g.http_superior_count
      /\ e.browser_equivalent_count = d.browser_equivalent_count + g.browser_equivalent_count
  BY <1>1 DEF DomainKeys, CommonKeys
<1>3. /\ g.http_attempts = Once(o.strategy = "http") /\ g.http_successes = Once(o.strategy = "http" /\ o.success)
      /\ g.http_extraction_failures = Once(o.strategy = "http" /\ ExtractionFailed(o))
      /\ g.browser_attempts = Once(o.strategy = "browser")
      /\ g.browser_successes = Once(o.strategy = "browser" /\ o.success)
      /\ g.browser_superior_count = Once(o.comparison = "browser_superior")
      /\ g.http_superior_count = Once(o.comparison = "http_superior")
      /\ g.browser_equivalent_count = Once(o.comparison = "equivalent")
  BY DEF Gain
<1>4. /\ o.strategy = IF v.success /\ v.used_browser THEN "browser" ELSE IF v.success THEN "http" ELSE v.strategy
      /\ o.success = v.success /\ o.comparison = v.comparison
      /\ o.extraction_ok = (Document(v) # Nothing /\ Wall(v) = Nothing)
  BY DEF Outcome
<1>5. v.success = TRUE
  BY DEF Fetched
<1>6. MinObservations \in Nat \ {0}
  BY LearningAssumption
<1>7. \A c : Once(c) \in {0, 1} /\ (c => Once(c) = 1) /\ (~c => Once(c) = 0)
  BY DEF Once, Points
<1> HIDE DEF o, g, d, e
<1>8. /\ d.http_attempts \in Nat /\ d.http_successes \in Nat /\ d.http_extraction_failures \in Nat
      /\ d.browser_attempts \in Nat /\ d.browser_successes \in Nat
      /\ d.browser_superior_count \in Nat /\ d.http_superior_count \in Nat
      /\ d.browser_equivalent_count \in Nat
  BY DomainCounts DEF d
<1>9. CASE v.used_browser = FALSE /\ v.found.document = Nothing
  <2>1. o.strategy = "http" /\ o.success = TRUE /\ ExtractionFailed(o)
    <3>1. o.strategy = "http" /\ o.success = TRUE
      BY <1>4, <1>5, <1>9
    <3>2. Document(v) = Nothing
      BY <1>5, <1>9 DEF Document
    <3>3. ~o.extraction_ok
      BY <1>4, <3>2
    <3> QED BY <3>1, <3>3 DEF ExtractionFailed
  <2>2. /\ g.http_attempts = 1 /\ g.http_successes = 1 /\ g.http_extraction_failures = 1
        /\ g.browser_attempts = 0 /\ g.browser_successes = 0 /\ g.browser_superior_count \in {0, 1}
    BY <1>3, <1>7, <2>1
  <2> QED BY <1>2, <1>6, <1>8, <2>2 DEF Tried, Enough, d, e
<1>10. CASE v.used_browser = TRUE
  <2>1. o.strategy = "browser" /\ o.success = TRUE
    BY <1>4, <1>5, <1>10
  <2>2. /\ g.http_attempts = 0 /\ g.http_successes = 0 /\ g.http_extraction_failures = 0
        /\ g.browser_attempts = 1 /\ g.browser_successes = 1
    BY <1>3, <1>7, <2>1
  <2>3. CASE v.comparison = "browser_superior"
    <3>1. g.browser_superior_count = 1 /\ g.http_superior_count = 0 /\ g.browser_equivalent_count = 0
      BY <1>3, <1>4, <1>7, <2>3
    <3> QED BY <1>2, <1>6, <1>8, <2>2, <3>1 DEF Tried, Enough, d, e
  <2>4. CASE v.comparison = Nothing /\ v.strategy = "browser"
    <3>1. g.browser_superior_count = 0 /\ g.http_superior_count = 0 /\ g.browser_equivalent_count = 0
      BY <1>3, <1>4, <1>7, <2>4, NothingIsNoWord
    <3> QED BY <1>2, <1>6, <1>8, <2>2, <2>4, <3>1 DEF Tried, Enough, d, e
  <2> QED BY <1>10, <2>3, <2>4 DEF Fetched
<1> QED BY <1>9, <1>10 DEF Fetched

LEMMA LearnStep ==
    ASSUME Shape, SpentOK, RowsInv, HealthInv, LedgerInv, LearnInv, [Next]_vars
    PROVE  LearnInv'
<1> SUFFICES ASSUME Premise' PROVE Tried(domain') /\ \A s \in Tasks : OnItsWay(s)'
  BY DEF LearnInv, Tried
<1>1. spent'.changes = 0 /\ spent'.failures = 0 /\ spent.changes = 0 /\ spent.failures = 0 /\ site' = site
  <2>1. spent'.changes >= spent.changes /\ spent'.failures >= spent.failures
        /\ (spent'.changes = spent.changes => site' = site)
    BY SpentStep
  <2>2. spent.changes \in Nat /\ spent.failures \in Nat /\ spent'.changes = 0 /\ spent'.failures = 0
    BY DEF SpentOK, Premise
  <2> QED BY <2>1, <2>2
<1>2. \A u \in Urls : NothingOverHttp(site[u])
  BY <1>1 DEF Premise
<1>3. Tried(domain) /\ \A s \in Tasks : OnItsWay(s)
  BY <1>1, <1>2 DEF LearnInv, Premise
<1>4. CASE UNCHANGED vars \/ SiteChanges
  <2>1. UNCHANGED <<domain, phase, visit>>
    BY <1>4 DEF vars, dbVars, SiteChanges
  <2> QED BY <1>3, <2>1 DEF Tried, OnItsWay, Enough
<1>5. ASSUME NEW t \in Tasks, Work(t) \/ FetchFails(t) \/ EscalationFails(t) \/ Abort(t)
      PROVE  Tried(domain') /\ \A s \in Tasks : OnItsWay(s)'
  <2>1. ASSUME Others(t), Tried(domain'), Enough => Enough', OnItsWay(t)'
        PROVE  Tried(domain') /\ \A s \in Tasks : OnItsWay(s)'
    <3>1. ASSUME NEW s \in Tasks \ {t} PROVE OnItsWay(s)'
      <4>1. phase'[s] = phase[s] /\ visit'[s] = visit[s] /\ OnItsWay(s)
        BY <1>3, <2>1 DEF Others
      <4> QED BY <2>1, <4>1 DEF OnItsWay
    <3> QED BY <2>1, <3>1
  <2>2. ASSUME UNCHANGED domain PROVE Tried(domain') /\ Enough' = Enough
    BY <1>3, <2>2 DEF Tried, Enough
  <2>3. OnItsWay(t)
    BY <1>3
  <2>4. CASE ReadDomain(t)
    <3>1. visit'[t].advice = "browser" => Enough
      BY <1>3, <2>4, ReadDomainDoes, AdviceHasReason
    <3>2. OnItsWay(t)'
      BY <2>2, <2>4, <3>1, ReadDomainDoes DEF OnItsWay, Routed
    <3> QED BY <2>1, <2>2, <2>4, <3>2, ReadDomainDoes
  <2>5. CASE Route(t)
    <3> DEFINE row == patterns[PatternOf[visit[t].url]]
    <3>1. phase[t] = "reading" /\ PatternOf[visit[t].url] \in Patterns
      BY <2>5, RouteDoes, VisitAssumption DEF RowsInv
    <3>2. Advice(row, visit[t].advice) = "browser" => Enough
      <4>1. Advice(row, visit[t].advice) = "browser"
              => DecideFromStats(Rollup(row)) = "browser" \/ visit[t].advice = "browser"
        BY DEF Advice, DecideRouting
      <4>2. DecideFromStats(Rollup(row)) = "browser" => Enough
        BY <1>3, <3>1, AdviceHasReason
      <4> QED BY <2>3, <4>1, <4>2 DEF OnItsWay
    <3>3. /\ Others(t) /\ phase'[t] = "fetching" /\ UNCHANGED domain
          /\ visit'[t].advice = visit[t].advice /\ visit'[t].comparison = visit[t].comparison
          /\ visit'[t].strategy \in {"http", Advice(row, visit[t].advice)}
      BY <2>5, RouteDoes
    <3> HIDE DEF row
    <3>4. OnItsWay(t)'
      BY <2>2, <2>3, <3>1, <3>2, <3>3 DEF OnItsWay
    <3> QED BY <2>1, <2>2, <3>3, <3>4
  <2>6. CASE Fetch(t)
    <3> DEFINE face == site[visit[t].url]
    <3>1. /\ Others(t) /\ phase[t] = "fetching" /\ phase'[t] \in {"escalating", "visited"}
          /\ visit[t].strategy = "browser" => phase'[t] = "visited"
          /\ visit'[t].advice = visit[t].advice /\ visit'[t].comparison = visit[t].comparison
          /\ visit'[t].strategy = visit[t].strategy /\ visit'[t].success = TRUE
          /\ visit'[t].used_browser = (visit[t].strategy = "browser")
          /\ visit'[t].found = Extract(t, IF visit[t].strategy = "browser" THEN face.browser ELSE face.http)
          /\ UNCHANGED domain
      BY <2>6, FetchDoes
    <3>2. visit[t].url \in Urls
      BY <3>1 DEF RowsInv
    <3>3. Extract(t, face.http).document = Nothing
      <4>1. \A seed, hint : ExtractForPage(face.http, seed, hint).document = Nothing
        BY <1>2, <3>2, NothingFound DEF NothingOverHttp
      <4> HIDE DEF face
      <4> QED BY <4>1 DEF Extract
    <3>4. visit'[t].used_browser = FALSE => visit'[t].found.document = Nothing
      BY <3>1, <3>3
    <3> HIDE DEF face
    <3>5. visit[t].comparison = Nothing
      BY <2>3, <3>1 DEF OnItsWay
    <3>6. Fetched(visit'[t])
      BY <3>1, <3>4, <3>5 DEF Fetched
    <3>7. OnItsWay(t)'
      BY <2>2, <2>3, <3>1, <3>4, <3>5, <3>6 DEF OnItsWay, Routed
    <3> QED BY <2>1, <2>2, <3>1, <3>7
  <2>7. CASE Escalate(t)
    <3>1. /\ Others(t) /\ phase[t] = "escalating" /\ phase'[t] = "visited" /\ UNCHANGED domain
          /\ visit'[t].advice = visit[t].advice /\ visit'[t].strategy = visit[t].strategy
          /\ visit'[t].success = visit[t].success
          /\ \/ visit'[t].comparison = "browser_superior" /\ visit'[t].used_browser = TRUE
             \/ visit'[t].used_browser = visit[t].used_browser /\ visit'[t].found = visit[t].found
      BY <2>7, EscalateDoes
    <3>2. Fetched(visit'[t])
      BY <2>3, <3>1 DEF OnItsWay, Fetched
    <3>3. OnItsWay(t)'
      BY <2>2, <2>3, <3>1, <3>2 DEF OnItsWay, Routed
    <3> QED BY <2>1, <2>2, <3>1, <3>3
  <2>8. CASE FetchFails(t) \/ EscalationFails(t)
    <3>1. /\ Others(t) /\ phase[t] \in {"fetching", "escalating"} /\ phase'[t] = "visited" /\ visit'[t] = visit[t]
          /\ phase[t] = "fetching" => Spend("failures")
          /\ UNCHANGED domain
      BY <2>8, FailureDoes
    <3>2. ~Spend("failures")
      BY <1>1, SpendDoes
    <3>3. Fetched(visit'[t])
      BY <2>3, <3>1, <3>2 DEF OnItsWay, Fetched
    <3>4. OnItsWay(t)'
      BY <2>2, <2>3, <3>1, <3>3 DEF OnItsWay, Routed
    <3> QED BY <2>1, <2>2, <3>1, <3>4
  <2>9. CASE RecordFetch(t)
    <3>1. /\ Others(t) /\ phase[t] = "visited" /\ phase'[t] = "counted" /\ visit'[t] = visit[t]
          /\ domain' = Counted(domain, Outcome(visit[t]))
      BY <2>9, RecordFetchDoes
    <3>2. Fetched(visit[t]) /\ (visit[t].strategy = "browser" => Enough)
      BY <2>3, <3>1 DEF OnItsWay, Routed
    <3>3. Tried(domain') /\ (Enough => Enough')
      BY <1>3, <3>1, <3>2, CountingTried
    <3>4. OnItsWay(t)'
      BY <2>3, <3>1, <3>2, <3>3 DEF OnItsWay, Routed
    <3> QED BY <2>1, <3>1, <3>3, <3>4
  <2>10. CASE RecordPattern(t)
    <3>1. /\ Others(t) /\ phase[t] = "counted" /\ UNCHANGED domain
          /\ \/ phase'[t] = "learned" /\ visit'[t] = visit[t]
             \/ phase'[t] = "idle" /\ visit'[t] = NoVisit
      BY <2>10, RecordPatternDoes
    <3>2. OnItsWay(t)'
      <4>1. CASE phase'[t] = "learned" /\ visit'[t] = visit[t]
        BY <2>2, <2>3, <3>1, <4>1 DEF OnItsWay, Routed
      <4>2. CASE phase'[t] = "idle" /\ visit'[t] = NoVisit
        <5>1. NoVisit.advice = Nothing
          BY DEF NoVisit
        <5> QED BY <4>2, <5>1, NothingIsNoWord DEF OnItsWay, Routed
      <4> QED BY <3>1, <4>1, <4>2
    <3> QED BY <2>1, <2>2, <3>1, <3>2
  <2>11. CASE Store(t) \/ Abort(t)
    <3>1. Others(t) /\ phase'[t] = "idle" /\ visit'[t] = NoVisit /\ UNCHANGED domain
      BY <2>11, StoreOrAbortDoes
    <3>2. NoVisit.advice = Nothing
      BY DEF NoVisit
    <3>3. OnItsWay(t)'
      BY <3>1, <3>2, NothingIsNoWord DEF OnItsWay, Routed
    <3> QED BY <2>1, <2>2, <3>1, <3>3
  <2> QED BY <1>5, <2>4, <2>5, <2>6, <2>7, <2>8, <2>9, <2>10, <2>11 DEF Work
<1> QED BY <1>4, <1>5 DEF Next

\* BrowserIsLearned (domain_profile_service.py:162): for any site, budget and
\* number of tasks.
THEOREM TheBrowserIsLearned == Spec => []BrowserIsLearned
<1>1. RowsInv /\ HealthInv /\ LearnInv => BrowserIsLearned
  <2> SUFFICES ASSUME RowsInv, HealthInv, LearnInv, Premise, Attempts(domain) >= MinObservations
               PROVE  DecideFromStats(domain) = "browser"
    BY DEF BrowserIsLearned, Premise
  <2>1. Tried(domain) /\ MinObservations \in Nat \ {0}
    BY LearningAssumption DEF LearnInv
  <2>2. ~(Attempts(domain) < MinObservations)
    BY <2>1, DomainCounts DEF Attempts
  <2>3. BrowserViable(domain)
    BY <2>1, DomainCounts DEF Tried, BrowserViable, Exceeds
  <2>4. BrowserWins(domain) \/ Exceeds(Stat(domain, "http_extraction_failures"), domain.http_successes, 600)
    <3>1. CASE domain.http_attempts > 0
      <4>1. Stat(domain, "http_extraction_failures") = domain.http_attempts /\ domain.http_successes = domain.http_attempts
        BY <2>1 DEF Stat, RowsInv, DomainKeys, Tried
      <4> QED BY <3>1, <4>1, DomainCounts DEF Exceeds
    <3>2. CASE ~(domain.http_attempts > 0)
      BY <2>1, <2>2, <3>2, DomainCounts DEF Tried, BrowserWins, Attempts
    <3> QED BY <3>1, <3>2
  <2> QED BY <2>2, <2>3, <2>4 DEF DecideFromStats
<1>2. Shape /\ RowsInv /\ [Next]_vars => RowsInv'
  BY RowsStep
<1>3. Shape /\ SpentOK /\ RowsInv /\ LedgerInv /\ [Next]_vars => LedgerInv'
  BY LedgerStep
<1>4. SpentOK /\ [Next]_vars => SpentOK'
  BY SpentStep
<1>5. Shape /\ HealthInv /\ [Next]_vars => HealthInv'
  BY HealthStep
<1>6. Shape /\ SpentOK /\ RowsInv /\ HealthInv /\ LedgerInv /\ LearnInv /\ [Next]_vars => LearnInv'
  BY LearnStep
<1> QED BY <1>1, <1>2, <1>3, <1>4, <1>5, <1>6, RowsInit, LedgerInit, SpentInit, HealthInit, LearnInit, ShapeHolds, PTL
        DEF Spec

-----------------------------------------------------------------------------
(***************************************************************************)
(* What is stored.  A document is left as it is only where the rules of    *)
(* the type its page has now see no difference: then nothing of what that  *)
(* type is watched for differs.                                            *)
(***************************************************************************)

\* change_detection, forums: every post has a counterpart with its text.
LEMMA ForumUnchanged ==
    ASSUME NEW a, NEW b, ForumChange(a, b) = "NO_CHANGE"
    PROVE  /\ a.title = b.title
           /\ {<<Identity(p), p.text>> : p \in a.posts} = {<<Identity(p), p.text>> : p \in b.posts}
<1>1. /\ {Identity(p) : p \in a.posts} = {Identity(p) : p \in b.posts}
      /\ \A p \in a.posts, q \in b.posts : Identity(p) = Identity(q) => p.text = q.text
      /\ a.title = b.title
  BY DEF ForumChange
<1>2. ASSUME NEW p \in a.posts PROVE \E q \in b.posts : <<Identity(p), p.text>> = <<Identity(q), q.text>>
  BY <1>1
<1>3. ASSUME NEW q \in b.posts PROVE \E p \in a.posts : <<Identity(p), p.text>> = <<Identity(q), q.text>>
  <2>1. PICK p \in a.posts : Identity(p) = Identity(q)
    BY <1>1
  <2> QED BY <1>1, <2>1
<1> QED BY <1>1, <1>2, <1>3

\* change_detection, indexes: either neither has items, or each item has a
\* counterpart with its price and status.
LEMMA IndexUnchanged ==
    ASSUME NEW a, NEW b, IndexChange(a, b) = "NO_CHANGE"
    PROVE  \/ Items(a) = {} /\ Items(b) = {} /\ a.title = b.title /\ a.body = b.body
           \/ /\ Items(a) # {} /\ Items(b) # {}
              /\ {<<i.id, i.price, i.status>> : i \in Items(a)} = {<<i.id, i.price, i.status>> : i \in Items(b)}
<1> DEFINE A == Items(a)
           B == Items(b)
<1>1. CASE A = {} /\ B = {}
  BY <1>1 DEF IndexChange, GenericChange
<1>2. CASE ~(A = {} /\ B = {})
  <2>1. /\ Ids(a) = Ids(b)
        /\ \A k \in {k \in A \X B : k[1].id = k[2].id} : k[1].price = k[2].price /\ k[1].status = k[2].status
    BY <1>2 DEF IndexChange
  <2>2. Ids(a) = {i.id : i \in A} /\ Ids(b) = {i.id : i \in B}
    BY DEF Ids
  <2> HIDE DEF A, B
  <2>3. ASSUME NEW i \in A, NEW j \in B, i.id = j.id PROVE i.price = j.price /\ i.status = j.status
    <3>1. <<i, j>> \in {k \in A \X B : k[1].id = k[2].id}
      BY <2>3
    <3> QED BY <2>1, <3>1
  <2>4. ASSUME NEW i \in A PROVE \E j \in B : <<i.id, i.price, i.status>> = <<j.id, j.price, j.status>>
    <3>1. PICK j \in B : i.id = j.id
      BY <2>1, <2>2
    <3> QED BY <2>3, <3>1
  <2>5. ASSUME NEW j \in B PROVE \E i \in A : <<i.id, i.price, i.status>> = <<j.id, j.price, j.status>>
    <3>1. PICK i \in A : i.id = j.id
      BY <2>1, <2>2
    <3> QED BY <2>3, <3>1
  <2>6. {<<i.id, i.price, i.status>> : i \in A} = {<<i.id, i.price, i.status>> : i \in B}
    BY <2>4, <2>5
  <2>7. A # {} /\ B # {}
    BY <1>2, <2>4, <2>5
  <2> QED BY <2>6, <2>7 DEF A, B
<1> QED BY <1>1, <1>2

LEMMA UnchangedIsSame ==
    ASSUME NEW a, NEW b, NEW type, DetectChange(a, b, type) = "NO_CHANGE"
    PROVE  Watched(type, a) = Watched(type, b)
<1>1. CASE a = b
  BY <1>1
<1>2. CASE a # b /\ type \in News
  <2>1. NewsChange(a, b) = "NO_CHANGE"
    BY <1>2 DEF DetectChange, ExactlyEqual
  <2>2. /\ a.title = b.title /\ a.body = b.body /\ a.author = b.author
        /\ a.published_at = b.published_at /\ a.images = b.images /\ a.tags = b.tags
    BY <2>1 DEF NewsChange
  <2> QED BY <1>2, <2>2 DEF Watched
<1>3. CASE a # b /\ type \notin News /\ type \in Forums
  <2>1. ForumChange(a, b) = "NO_CHANGE"
    BY <1>3 DEF DetectChange, ExactlyEqual
  <2>2. /\ a.title = b.title
        /\ {<<Identity(p), p.text>> : p \in a.posts} = {<<Identity(p), p.text>> : p \in b.posts}
    BY <2>1, ForumUnchanged
  <2>3. /\ Watched(type, a) = <<a.title, {<<Identity(p), p.text>> : p \in a.posts}>>
        /\ Watched(type, b) = <<b.title, {<<Identity(p), p.text>> : p \in b.posts}>>
    BY <1>3, Zenon DEF Watched
  <2> QED BY <2>2, <2>3, Zenon
<1>4. CASE a # b /\ type \notin News \cup Forums /\ type = "CLASSIFIED_LISTING"
  <2>1. ListingChange(a, b) = "NO_CHANGE"
    BY <1>4 DEF DetectChange, ExactlyEqual
  <2>2. /\ Number(a.price) = Number(b.price) /\ a.status = b.status /\ a.body = b.body /\ a.title = b.title
        /\ a.location = b.location /\ a.images = b.images /\ a.attributes = b.attributes
    BY <2>1 DEF ListingChange
  <2> QED BY <1>4, <2>2 DEF Watched
<1>5. CASE a # b /\ type \notin News \cup Forums /\ type # "CLASSIFIED_LISTING" /\ type \in Indexes
  <2>1. IndexChange(a, b) = "NO_CHANGE"
    BY <1>5 DEF DetectChange, ExactlyEqual
  <2>2. \A s : Watched(type, s) = IF Items(s) # {} THEN <<{<<i.id, i.price, i.status>> : i \in Items(s)}>>
                                  ELSE <<s.title, s.body>>
    BY <1>5, Zenon DEF Watched
  <2>3. CASE Items(a) = {} /\ Items(b) = {} /\ a.title = b.title /\ a.body = b.body
    BY <2>2, <2>3
  <2>4. CASE /\ Items(a) # {} /\ Items(b) # {}
             /\ {<<i.id, i.price, i.status>> : i \in Items(a)} = {<<i.id, i.price, i.status>> : i \in Items(b)}
    BY <2>2, <2>4, Zenon
  <2> QED BY <2>1, <2>3, <2>4, IndexUnchanged
<1>6. CASE a # b /\ type \notin News \cup Forums /\ type # "CLASSIFIED_LISTING" /\ type \notin Indexes
  <2>1. GenericChange(a, b) = "NO_CHANGE"
    BY <1>6 DEF DetectChange, ExactlyEqual
  <2>2. a.title = b.title /\ a.body = b.body
    BY <2>1 DEF GenericChange
  <2> QED BY <1>6, <2>2 DEF Watched
<1> QED BY <1>1, <1>2, <1>3, <1>4, <1>5, <1>6

StoredInv ==
    /\ documents = [u \in Urls |-> documents[u]]
    /\ latest = [u \in Urls |-> latest[u]]
    /\ StoredIsLatest

LEMMA StoredStep ==
    ASSUME Shape, RowsInv, StoredInv, [Next]_vars
    PROVE  StoredInv'
<1>1. CASE UNCHANGED <<documents, latest>>
  BY <1>1 DEF StoredInv, StoredIsLatest
<1>2. ASSUME NEW t \in Tasks, Store(t), ~UNCHANGED <<documents, latest>> PROVE StoredInv'
  <2> DEFINE v   == visit[t]
             old == documents[v.url]
             new == [type |-> Type(v), content |-> Document(v).said]
             now == IF old = NoDocument THEN new
                    ELSE IF DetectChange(old.content, new.content, new.type) = "NO_CHANGE" THEN old ELSE new
  <2>1. v.url \in Urls
    BY <1>2 DEF RowsInv, Store
  <2>2. documents' = [documents EXCEPT ![v.url] = now] /\ latest' = [latest EXCEPT ![v.url] = new]
    BY <1>2 DEF Store
  <2>3. Watched(new.type, now.content) = Watched(new.type, new.content)
    <3> HIDE DEF old, new
    <3> QED BY UnchangedIsSame
  <2> HIDE DEF v, old, new, now
  <2>4. /\ documents' = [u \in Urls |-> documents'[u]] /\ latest' = [u \in Urls |-> latest'[u]]
        /\ documents'[v.url] = now /\ latest'[v.url] = new
        /\ \A u \in Urls \ {v.url} : documents'[u] = documents[u] /\ latest'[u] = latest[u]
    BY <2>1, <2>2 DEF StoredInv
  <2>5. ASSUME NEW u \in Urls, latest'[u] # NoDocument
        PROVE  Watched(latest'[u].type, documents'[u].content) = Watched(latest'[u].type, latest'[u].content)
    <3>1. CASE u = v.url
      BY <2>3, <2>4, <3>1
    <3>2. CASE u # v.url
      BY <2>4, <2>5, <3>2 DEF StoredInv, StoredIsLatest
    <3> QED BY <3>1, <3>2
  <2> QED BY <2>4, <2>5 DEF StoredInv, StoredIsLatest
<1>3. CASE UNCHANGED vars \/ SiteChanges
  <2>1. UNCHANGED <<documents, latest>>
    BY <1>3 DEF vars, dbVars, SiteChanges
  <2> QED BY <1>1, <2>1
<1>4. ASSUME NEW t \in Tasks, Work(t) \/ FetchFails(t) \/ EscalationFails(t) \/ Abort(t)
      PROVE  Store(t) \/ UNCHANGED <<documents, latest>>
  <2>1. CASE ReadDomain(t)
    BY <2>1, ReadDomainDoes
  <2>2. CASE Route(t)
    BY <2>2, RouteDoes
  <2>3. CASE Fetch(t)
    BY <2>3, FetchDoes
  <2>4. CASE Escalate(t)
    BY <2>4, EscalateDoes
  <2>5. CASE FetchFails(t) \/ EscalationFails(t)
    BY <2>5, FailureDoes
  <2>6. CASE RecordFetch(t)
    BY <2>6, RecordFetchDoes
  <2>7. CASE RecordPattern(t)
    BY <2>7, RecordPatternDoes
  <2>8. CASE Abort(t)
    BY <2>8 DEF Abort, dbVars
  <2> QED BY <1>4, <2>1, <2>2, <2>3, <2>4, <2>5, <2>6, <2>7, <2>8 DEF Work
<1> QED BY <1>1, <1>2, <1>3, <1>4 DEF Next

\* StoredIsLatest (crawl_engine.py:740): whichever tasks wrote the documents
\* of however many URLs, and whatever their pages were judged to be.
THEOREM StoredTellsLatest == Spec => []StoredIsLatest
<1>1. Init => StoredInv
  <2> SUFFICES ASSUME Init PROVE StoredInv
    OBVIOUS
  <2>1. documents = [u \in Urls |-> NoDocument] /\ latest = [u \in Urls |-> NoDocument]
    BY DEF Init
  <2> QED BY <2>1 DEF StoredInv, StoredIsLatest
<1>2. StoredInv => StoredIsLatest
  BY DEF StoredInv
<1>3. Shape /\ RowsInv /\ [Next]_vars => RowsInv'
  BY RowsStep
<1>4. Shape /\ RowsInv /\ StoredInv /\ [Next]_vars => StoredInv'
  BY StoredStep
<1> QED BY <1>1, <1>2, <1>3, <1>4, RowsInit, ShapeHolds, PTL DEF Spec

-----------------------------------------------------------------------------
\* Types (crawl_engine.py:312): what a task holds of its page has the type it
\* is used at, for any number of tasks and any site.
THEOREM TypeCorrect == Spec => []TypeOK
<1>1. Shape /\ UsageInv /\ HealthInv => TypeOK
  <2> SUFFICES ASSUME Shape, UsageInv, HealthInv PROVE TypeOK
    OBVIOUS
  <2>1. PICK V : visit \in [Tasks -> Visits(V)]
    BY DEF Shape
  <2>2. DOMAIN visit = Tasks /\ \A t \in Tasks : visit[t] \in Visits(V)
    BY <2>1
  <2>3. \A r \in Visits(V) : DOMAIN r = DOMAIN NoVisit
    BY DEF Visits, NoVisit
  <2> QED BY <2>2, <2>3 DEF TypeOK, Shape, UsageInv, HealthInv
<1>2. Shape /\ UsageInv /\ [Next]_vars => UsageInv'
  BY UsageStep
<1>3. Shape /\ HealthInv /\ [Next]_vars => HealthInv'
  BY HealthStep
<1> QED BY <1>1, <1>2, <1>3, UsageInit, HealthInit, ShapeHolds, PTL DEF Spec
=============================================================================
