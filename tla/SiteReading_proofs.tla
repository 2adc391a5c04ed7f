------------------------- MODULE SiteReading_proofs -------------------------
(***************************************************************************)
(* For any sites, page tasks, slots and limits: fetches are bounded and    *)
(* browser slots are never lost, whatever the discovery or a preflight     *)
(* does; a preflight that found more scores no less; the discovery, the    *)
(* preflight and the tasks keep to their types; the walk through the       *)
(* sitemaps is bounded; and a walk that was not cut short is complete.     *)
(***************************************************************************)
EXTENDS SiteReading, FiniteSetTheorems, SequenceTheorems, TLAPS

\* What a step of the reading does to the fetches: one of them begins, goes
\* on or is over, or nothing happens to any.
FetchesMove(t) ==
    \/ \E phase \in {"requesting", "waiting"} : Begin(t, phase)
    \/ FetchStep(t)
    \/ FetchFault(t)
    \/ Finish(t)

LEMMA NextMovesFetches ==
    ASSUME [Next]_vars
    PROVE  UNCHANGED fetchVars \/ \E t \in Tasks : FetchesMove(t)
<1>1. CASE UNCHANGED vars
  BY <1>1 DEF vars
<1>2. CASE Discover
  BY <1>2 DEF Discover
<1>3. CASE Assess
  BY <1>3 DEF Assess
<1>4. CASE StartCrawl
  BY <1>4 DEF StartCrawl
<1>5. ASSUME NEW t \in Tasks, TaskStep(t)
      PROVE  UNCHANGED fetchVars \/ FetchesMove(t)
  <2>1. CASE StartPage(t)
    BY <2>1 DEF StartPage, FetchesMove
  <2>2. CASE FetchPage(t)
    BY <2>2 DEF FetchPage, FetchesMove
  <2>3. CASE Follow(t)
    BY <2>3 DEF Follow
  <2>4. CASE LeadsNowhere(t) \/ GiveUp(t) \/ Break(t)
    BY <2>4 DEF LeadsNowhere, GiveUp, Break, Leave, FetchesMove
  <2>5. CASE Enqueue(t)
    BY <2>5 DEF Enqueue, FetchesMove
  <2> QED BY <1>5, <2>1, <2>2, <2>3, <2>4, <2>5 DEF TaskStep
<1> QED BY <1>1, <1>2, <1>3, <1>4, <1>5 DEF Next

-----------------------------------------------------------------------------
(***************************************************************************)
(* Type correctness of the fetches.                                        *)
(***************************************************************************)

LEMMA Limits ==
    /\ MaxRedirects \in Nat /\ MaxScrolls \in Nat /\ MaxNewItems \in Nat /\ MaxNoChange \in Nat
    /\ Slots \in Nat \ {0} /\ IsFiniteSet(Tasks)
<1>1. /\ {MaxRedirects, MaxScrolls, MaxNewItems, MaxNoChange} \subseteq Nat
      /\ Slots \in Nat \ {0} /\ IsFiniteSet(Tasks)
  BY FetchingAssumption
<1> QED BY <1>1

LEMMA FetchTypeInit == FetchInit => FetchTypeOK
BY Limits DEF FetchInit, FetchTypeOK

LEMMA FetchTypeStep ==
    ASSUME FetchTypeOK, NEW t \in Tasks, FetchesMove(t), at[t] \in InBrowser => free < Slots
    PROVE  FetchTypeOK'
<1> USE Limits
<1>1. ASSUME NEW phase \in {"requesting", "waiting"}, Begin(t, phase) PROVE FetchTypeOK'
  BY <1>1 DEF Begin, To, FetchTypeOK, Fetches
<1>2. CASE Finish(t)
  BY <1>2 DEF Finish, To, FetchTypeOK, Fetches
<1>3. CASE Redirected(t)
  <2>1. /\ requests' = [requests EXCEPT ![t] = @ + 1] /\ UNCHANGED <<rounds, noChange, rendered, free>>
    BY <1>3 DEF Redirected, Ask, browserVars
  <2>2. CASE /\ hop[t] < MaxRedirects /\ hop' = [hop EXCEPT ![t] = @ + 1]
             /\ retried' = [retried EXCEPT ![t] = FALSE] /\ UNCHANGED at
    BY <2>1, <2>2 DEF FetchTypeOK
  <2>3. CASE at' = [at EXCEPT ![t] = "failed"] /\ UNCHANGED <<hop, retried>>
    BY <2>1, <2>3 DEF FetchTypeOK, Results
  <2> QED BY <1>3, <2>2, <2>3 DEF Redirected, To
<1>4. CASE AskedToWait(t)
  BY <1>4 DEF AskedToWait, Ask, To, FetchTypeOK, Fetches, browserVars
<1>5. CASE Resume(t)
  BY <1>5 DEF Resume, To, FetchTypeOK, Fetches, browserVars
<1>6. CASE Answered(t) \/ RequestFails(t) \/ Unresolved(t)
  BY <1>6 DEF Answered, RequestFails, Unresolved, Ask, To, FetchTypeOK, Results, browserVars
<1>7. CASE Acquire(t)
  BY <1>7 DEF Acquire, To, FetchTypeOK, Fetches, InBrowser, httpVars
<1>8. CASE Launched(t)
  BY <1>8 DEF Launched, To, FetchTypeOK, Fetches, InBrowser, httpVars, browserVars
<1>9. CASE Loaded(t)
  BY <1>9 DEF Loaded, To, FetchTypeOK, Fetches, InBrowser, httpVars
<1>10. CASE Scroll(t)
  <2>1. PICK items \in 0..MaxNewItems, other \in BOOLEAN :
          /\ noChange' = [noChange EXCEPT ![t] = IF items = 0 /\ ~other THEN noChange[t] + 1 ELSE 0]
          /\ \/ To(t, "closing") /\ rendered' = [rendered EXCEPT ![t] = TRUE]
             \/ UNCHANGED <<at, rendered>>
    BY <1>10 DEF Scroll
  <2>2. rounds' = [rounds EXCEPT ![t] = @ + 1] /\ rounds[t] < MaxScrolls /\ UNCHANGED <<hop, retried, requests, free>>
    BY <1>10 DEF Scroll, httpVars
  <2>3. rounds' \in [Tasks -> 0..MaxScrolls] /\ noChange' \in [Tasks -> Nat]
    BY <2>1, <2>2 DEF FetchTypeOK
  <2> QED BY <2>1, <2>2, <2>3 DEF To, FetchTypeOK, Fetches, InBrowser
<1>11. CASE ScrollEnds(t)
  BY <1>11 DEF ScrollEnds, To, FetchTypeOK, Fetches, InBrowser, httpVars
<1>12. CASE RenderFails(t)
  BY <1>12 DEF RenderFails, To, FetchTypeOK, Fetches, InBrowser, httpVars, browserVars
<1>13. CASE LaunchFails(t) \/ Closed(t) \/ CloseFails(t)
  BY <1>13 DEF InBrowser, LaunchFails, Closed, CloseFails, To, FetchTypeOK, Results, httpVars
<1> QED BY <1>1, <1>2, <1>3, <1>4, <1>5, <1>6, <1>7, <1>8, <1>9, <1>10, <1>11, <1>12, <1>13
        DEF FetchesMove, FetchStep, FetchFault

-----------------------------------------------------------------------------
(***************************************************************************)
(* Slots: the tasks in a browser change by the one that moves.             *)
(***************************************************************************)

LEMMA ChromiumsFinite == IsFiniteSet(Chromiums) /\ Cardinality(Chromiums) \in Nat
<1>1. Chromiums \subseteq Tasks
  BY DEF Chromiums
<1> QED BY <1>1, Limits, FS_Subset, FS_CardinalityType

\* A task that has a browser open keeps a slot from being free.
LEMMA SlotInUse ==
    ASSUME FetchTypeOK, BrowsersHoldSlots, NEW t \in Tasks, at[t] \in InBrowser
    PROVE  free < Slots
<1>1. t \in Chromiums
  BY DEF Chromiums
<1>2. Cardinality(Chromiums) # 0
  BY <1>1, ChromiumsFinite, FS_EmptySet
<1>3. free \in Nat /\ Slots \in Nat
  BY Limits DEF FetchTypeOK
<1> QED BY <1>2, <1>3, ChromiumsFinite DEF BrowsersHoldSlots

LEMMA SlotsStep ==
    ASSUME FetchTypeOK, BrowsersHoldSlots, NEW t \in Tasks, FetchesMove(t)
    PROVE  BrowsersHoldSlots'
<1> DEFINE Moves == \E phase \in Fetches \cup Results \cup {"idle"} : at' = [at EXCEPT ![t] = phase]
<1>1. free \in Nat /\ Slots \in Nat /\ at \in [Tasks -> {"idle"} \cup Fetches \cup Results]
  BY Limits DEF FetchTypeOK
<1>2. CASE UNCHANGED free /\ UNCHANGED at
  BY <1>2 DEF BrowsersHoldSlots, Chromiums
<1>3. ASSUME UNCHANGED free, NEW phase, at' = [at EXCEPT ![t] = phase],
             at[t] \in InBrowser <=> phase \in InBrowser
      PROVE  BrowsersHoldSlots'
  <2>1. \A s \in Tasks : at'[s] \in InBrowser <=> at[s] \in InBrowser
    BY <1>1, <1>3
  <2>2. Chromiums' = Chromiums
    BY <2>1 DEF Chromiums
  <2> QED BY <1>3, <2>2 DEF BrowsersHoldSlots
<1>4. ASSUME free' = free - 1, NEW phase \in InBrowser, at' = [at EXCEPT ![t] = phase], at[t] \notin InBrowser
      PROVE  BrowsersHoldSlots'
  <2>1. Chromiums' = Chromiums \cup {t} /\ t \notin Chromiums
    BY <1>1, <1>4 DEF Chromiums
  <2>2. Cardinality(Chromiums') = Cardinality(Chromiums) + 1
    BY <2>1, ChromiumsFinite, FS_AddElement
  <2> QED BY <1>1, <1>4, <2>2, ChromiumsFinite DEF BrowsersHoldSlots
<1>5. ASSUME free' = free + 1, NEW phase, phase \notin InBrowser, at' = [at EXCEPT ![t] = phase], at[t] \in InBrowser
      PROVE  BrowsersHoldSlots'
  <2>1. Chromiums' = Chromiums \ {t} /\ t \in Chromiums
    BY <1>1, <1>5 DEF Chromiums
  <2>2. Cardinality(Chromiums') = Cardinality(Chromiums) - 1
    BY <2>1, ChromiumsFinite, FS_RemoveElement
  <2> QED BY <1>1, <1>5, <2>2, ChromiumsFinite DEF BrowsersHoldSlots
<1>6. CASE Acquire(t)
  <2>1. free' = free - 1 /\ at' = [at EXCEPT ![t] = "launching"] /\ at[t] \notin InBrowser
    BY <1>6 DEF Acquire, To, InBrowser
  <2>2. "launching" \in InBrowser
    BY DEF InBrowser
  <2> QED BY <1>4, <2>1, <2>2
<1>7. CASE LaunchFails(t) \/ CloseFails(t) \/ Closed(t)
  <2>1. \E phase \in {"failed", "fetched"} :
          free' = free + 1 /\ at' = [at EXCEPT ![t] = phase] /\ at[t] \in InBrowser
    BY <1>7 DEF LaunchFails, CloseFails, Closed, To, InBrowser
  <2>2. "failed" \notin InBrowser /\ "fetched" \notin InBrowser
    BY DEF InBrowser
  <2> QED BY <1>5, <2>1, <2>2
<1>8. CASE Launched(t) \/ Loaded(t) \/ ScrollEnds(t) \/ RenderFails(t)
  <2>1. \E phase \in {"loading", "scrolling", "closing"} :
          UNCHANGED free /\ at' = [at EXCEPT ![t] = phase] /\ at[t] \in InBrowser
    BY <1>8 DEF Launched, Loaded, ScrollEnds, RenderFails, To, InBrowser, browserVars
  <2>2. {"loading", "scrolling", "closing"} \subseteq InBrowser
    BY DEF InBrowser
  <2> QED BY <1>3, <2>1, <2>2
<1>9. CASE Scroll(t)
  <2>1. /\ UNCHANGED free /\ at[t] = "scrolling"
        /\ UNCHANGED at \/ at' = [at EXCEPT ![t] = "closing"]
    BY <1>9 DEF Scroll, To
  <2>2. "scrolling" \in InBrowser /\ "closing" \in InBrowser
    BY DEF InBrowser
  <2> QED BY <1>2, <1>3, <2>1, <2>2
<1>10. CASE Redirected(t) \/ AskedToWait(t) \/ Resume(t) \/ Answered(t) \/ RequestFails(t) \/ Unresolved(t)
  <2>1. UNCHANGED free /\ at[t] \in {"requesting", "pausing"}
    BY <1>10 DEF Redirected, AskedToWait, Resume, Answered, RequestFails, Unresolved, Ask, browserVars
  <2>2. UNCHANGED at \/ \E phase \in {"requesting", "pausing", "fetched", "failed", "raised"} : at' = [at EXCEPT ![t] = phase]
    BY <1>10 DEF Redirected, AskedToWait, Resume, Answered, RequestFails, Unresolved, To
  <2>3. {"requesting", "pausing", "fetched", "failed", "raised"} \cap InBrowser = {}
    BY DEF InBrowser
  <2> QED BY <1>2, <1>3, <2>1, <2>2, <2>3
<1>11. CASE Finish(t) \/ \E phase \in {"requesting", "waiting"} : Begin(t, phase)
  <2>1. /\ UNCHANGED free /\ at[t] \notin InBrowser
        /\ \E phase \in {"idle", "requesting", "waiting"} : at' = [at EXCEPT ![t] = phase]
    BY <1>11 DEF Finish, Begin, To, InBrowser, Results
  <2>2. {"idle", "requesting", "waiting"} \cap InBrowser = {}
    BY DEF InBrowser
  <2> QED BY <1>3, <2>1, <2>2
<1> QED BY <1>6, <1>7, <1>8, <1>9, <1>10, <1>11 DEF FetchesMove, FetchStep, FetchFault

-----------------------------------------------------------------------------
(***************************************************************************)
(* Requests: at most two for every URL on the way, and one of them only    *)
(* after the other was answered with a request to wait.                    *)
(***************************************************************************)

Sent(t) ==
    requests[t] <= 2 * hop[t] + (IF at[t] \in Results THEN 2 ELSE IF retried[t] THEN 1 ELSE 0)

LEMMA SentStep ==
    ASSUME FetchTypeOK, NEW t \in Tasks, FetchesMove(t), NEW s \in Tasks, Sent(s)
    PROVE  Sent(s)'
<1>1. /\ at \in [Tasks -> {"idle"} \cup Fetches \cup Results]
      /\ hop \in [Tasks -> Nat] /\ retried \in [Tasks -> BOOLEAN] /\ requests \in [Tasks -> Nat]
  BY Limits DEF FetchTypeOK
<1>2. CASE Redirected(t)
  BY <1>1, <1>2 DEF Sent, Redirected, Ask, To, Results
<1>3. CASE AskedToWait(t)
  BY <1>1, <1>3 DEF Sent, AskedToWait, Ask, To, Results
<1>4. CASE Answered(t) \/ RequestFails(t) \/ Unresolved(t)
  BY <1>1, <1>4 DEF Sent, Answered, RequestFails, Unresolved, Ask, To, Results
<1>5. CASE Resume(t)
  BY <1>1, <1>5 DEF Sent, Resume, To, Results
<1>6. CASE Finish(t)
  BY <1>1, <1>6 DEF Sent, Finish, To, Results
<1>7. CASE \E phase \in {"requesting", "waiting"} : Begin(t, phase)
  BY <1>1, <1>7 DEF Sent, Begin, To, Results
<1>8. CASE Acquire(t) \/ Launched(t) \/ Loaded(t) \/ ScrollEnds(t) \/ RenderFails(t)
           \/ LaunchFails(t) \/ Closed(t) \/ CloseFails(t) \/ Scroll(t)
  <2>1. UNCHANGED <<hop, retried, requests>> /\ at[t] \notin Results
    BY <1>8 DEF Acquire, Launched, Loaded, ScrollEnds, RenderFails, LaunchFails, Closed, CloseFails, Scroll,
                httpVars, Results
  <2>2. \A u \in Tasks \ {t} : at'[u] = at[u]
    BY <1>1, <1>8 DEF Acquire, Launched, Loaded, ScrollEnds, RenderFails, LaunchFails, Closed, CloseFails, Scroll, To
  <2> QED BY <1>1, <2>1, <2>2 DEF Sent
<1> QED BY <1>2, <1>3, <1>4, <1>5, <1>6, <1>7, <1>8 DEF FetchesMove, FetchStep, FetchFault

-----------------------------------------------------------------------------
(***************************************************************************)
(* The three together are inductive.                                       *)
(***************************************************************************)

FetchInv == FetchTypeOK /\ BrowsersHoldSlots /\ \A t \in Tasks : Sent(t)

LEMMA FetchInvInit == Init => FetchInv
<1> SUFFICES ASSUME Init PROVE FetchInv
  OBVIOUS
<1>1. FetchInit
  BY DEF Init
<1>2. FetchTypeOK
  BY <1>1, FetchTypeInit
<1>3. Chromiums = {}
  BY <1>1 DEF FetchInit, Chromiums, InBrowser
<1>4. BrowsersHoldSlots
  BY <1>1, <1>3, Limits, FS_EmptySet DEF FetchInit, BrowsersHoldSlots
<1>5. \A t \in Tasks : Sent(t)
  BY <1>1 DEF FetchInit, Sent, Results
<1> QED BY <1>2, <1>4, <1>5 DEF FetchInv

LEMMA FetchInvStep == FetchInv /\ [Next]_vars => FetchInv'
<1> SUFFICES ASSUME FetchInv, [Next]_vars PROVE FetchInv'
  OBVIOUS
<1>1. CASE UNCHANGED fetchVars
  BY <1>1 DEF FetchInv, FetchTypeOK, BrowsersHoldSlots, Chromiums, Sent, fetchVars
<1>2. ASSUME NEW t \in Tasks, FetchesMove(t) PROVE FetchInv'
  <2>1. at[t] \in InBrowser => free < Slots
    BY SlotInUse DEF FetchInv
  <2>2. FetchTypeOK'
    BY <1>2, <2>1, FetchTypeStep DEF FetchInv
  <2>3. BrowsersHoldSlots'
    BY <1>2, SlotsStep DEF FetchInv
  <2>4. \A s \in Tasks : Sent(s)'
    BY <1>2, SentStep DEF FetchInv
  <2> QED BY <2>2, <2>3, <2>4 DEF FetchInv
<1> QED BY <1>1, <1>2, NextMovesFetches

LEMMA FetchInvHolds == Spec => []FetchInv
BY FetchInvInit, FetchInvStep, PTL DEF Spec

\* BrowsersHoldSlots (fetchers.py:20): however launches, pages and closing
\* fail, browsers of all tasks never outnumber the slots and none is lost.
THEOREM SlotsAreHeld == Spec => []BrowsersHoldSlots
<1>1. FetchInv => BrowsersHoldSlots
  BY DEF FetchInv
<1> QED BY <1>1, FetchInvHolds, PTL

\* RequestsBounded (fetchers.py:79, 107): for any limit on redirects, a fetch
\* sends at most two requests for each URL it is led to.
THEOREM FetchesAreBounded == Spec => []RequestsBounded
<1>1. FetchInv => RequestsBounded
  <2> SUFFICES ASSUME FetchInv, NEW t \in Tasks PROVE requests[t] <= 2 * (MaxRedirects + 1)
    BY DEF RequestsBounded
  <2>1. hop[t] \in 0..MaxRedirects /\ requests[t] \in Nat /\ MaxRedirects \in Nat
    BY Limits DEF FetchInv, FetchTypeOK
  <2>2. requests[t] <= 2 * hop[t] + 2
    BY <2>1 DEF FetchInv, Sent
  <2> QED BY <2>1, <2>2
<1> QED BY <1>1, FetchInvHolds, PTL
-----------------------------------------------------------------------------
(***************************************************************************)
(* Type correctness of the discovery: the walk is a sequence of calls, each *)
(* with files of the site to read and URLs of the site found.              *)
(***************************************************************************)

Files == DOMAIN site.kind

SiteUrls == (UNION {Elements(site.has[f]) : f \in Files}) \cup Elements(site.entries)

Calls == [rest : Seq(Files), urls : Seq(SiteUrls)]

Stages ==
    {"resolving", "connecting", "robots", "sitemap", "walking", "feeds", "entries", "recording", "over",
     "sampling", "rendering", "reporting", "reported", "raised"}

\* Before any file is read.
Early == {"resolving", "connecting", "robots", "sitemap"}

WalkInv ==
    /\ root \in Files /\ walk \in Seq(Calls) /\ Len(walk) <= MaxDepth + 2
    /\ stage = "walking" <=> walk # <<>>
    /\ files \in Nat /\ truncated \in BOOLEAN
    /\ stage \in Early => files = 0 /\ ~truncated /\ lost = {}

DiscoveryInv ==
    /\ site \in Sites /\ purpose \in {"crawl", "preflight"} /\ stage \in Stages
    /\ stage = "sitemap" => candidates \in Seq(Files)
    /\ seen \subseteq Statuses
    /\ outcome \in [sitemap : Statuses, feed : Statuses, pages : Seq(SiteUrls), entries : Seq(SiteUrls)]
    /\ row \in [sitemap : Statuses, feed : Statuses, pages : Nat, entries : Nat]
    /\ WalkInv

LEMMA Discovering ==
    /\ MaxSitemaps \in Nat /\ MaxFeeds \in Nat /\ MaxDepth \in Nat /\ MaxNested \in Nat /\ MaxPerFile \in Nat /\ MaxEntries \in Nat
    /\ MaxTotal \in Nat \ {0}
<1>1. {MaxSitemaps, MaxFeeds, MaxDepth, MaxNested, MaxPerFile, MaxEntries} \subseteq Nat /\ MaxTotal \in Nat \ {0}
  BY DiscoveryAssumption
<1> QED BY <1>1

\* The first of a sequence are some of it, and no more than the limit.
LEMMA FirstIs ==
    ASSUME NEW S, NEW s \in Seq(S), NEW n \in Nat
    PROVE  /\ First(s, n) \in Seq(S)
           /\ Len(First(s, n)) = IF Len(s) < n THEN Len(s) ELSE n
           /\ \A i \in 1 .. Len(First(s, n)) : i \in 1 .. Len(s) /\ First(s, n)[i] = s[i]
<1> DEFINE k == IF Len(s) < n THEN Len(s) ELSE n
<1>1. k \in Nat /\ k <= Len(s)
  OBVIOUS
<1>2. \A i \in 1 .. k : s[i] \in S
  BY <1>1
<1> HIDE DEF k
<1>3. /\ SubSeq(s, 1, k) \in Seq(S)
      /\ Len(SubSeq(s, 1, k)) = IF 1 <= k THEN k - 1 + 1 ELSE 0
      /\ \A i \in 1 .. k - 1 + 1 : SubSeq(s, 1, k)[i] = s[1 + i - 1]
  BY <1>1, <1>2, SubSeqProperties
<1>4. First(s, n) = SubSeq(s, 1, k)
  BY DEF First, k
<1>5. Len(SubSeq(s, 1, k)) = k
  BY <1>1, <1>3
<1>6. \A i \in 1 .. k : i \in 1 .. Len(s) /\ SubSeq(s, 1, k)[i] = s[i]
  BY <1>1, <1>3
<1> QED BY <1>3, <1>4, <1>5, <1>6 DEF k

\* What a file of the site has.
LEMMA FileHas ==
    ASSUME site \in Sites, NEW f \in Files
    PROVE  /\ site.has[f] \in Seq(SiteUrls)
           /\ site.kind[f] = "index" => site.has[f] \in Seq(Files)
<1> DEFINE has == site.has[f]
<1>1. has \in Seq(IF site.kind[f] = "index" THEN Files ELSE Elements(has))
  BY SitesAssumption DEF Files
<1>2. Elements(has) \subseteq SiteUrls
  BY DEF SiteUrls
<1>3. CASE site.kind[f] = "index"
  <2>1. has \in Seq(Files)
    BY <1>1, <1>3
  <2> HIDE DEF has
  <2>2. \A i \in 1 .. Len(has) : has[i] \in Elements(has)
    BY <2>1 DEF Elements
  <2>3. has \in Seq(Elements(has))
    BY <2>1, <2>2
  <2> QED BY <1>2, <2>1, <2>3, SeqMonotonic DEF has
<1>4. CASE site.kind[f] # "index"
  <2>1. has \in Seq(Elements(has))
    BY <1>1, <1>4
  <2> HIDE DEF has
  <2> QED BY <1>2, <1>4, <2>1, SeqMonotonic DEF has
<1> QED BY <1>3, <1>4

LEMMA SiteLists ==
    ASSUME site \in Sites
    PROVE  Default \in Files /\ site.listed \in Seq(Files) /\ site.entries \in Seq(SiteUrls) /\ IsFiniteSet(Files)
<1>1. Default \in Files /\ site.listed \in Seq(Files) /\ site.entries \in Seq(Elements(site.entries)) /\ IsFiniteSet(Files)
  BY SitesAssumption DEF Files
<1>2. Elements(site.entries) \subseteq SiteUrls
  BY DEF SiteUrls
<1> QED BY <1>1, <1>2, SeqMonotonic

-----------------------------------------------------------------------------
(***************************************************************************)
(* What a step may do to the discovery, whoever takes it.                  *)
(***************************************************************************)

Opens == OpenFile /\ ~TooDeep /\ site.kind[Head(Top.rest)] \notin {"absent", "garbled"}

DiscoveryAct ==
    \/ UNCHANGED discoveryVars
    \/ \E listed \in Seq(Files) : AfterRobots(listed)
    \/ \E what \in Statuses : NoUse(what) /\ candidates # <<>> /\ stage \in {"sitemap", "feeds"}
    \/ \E status \in Statuses :
         stage = "sitemap" /\ SitemapIs(status) /\ (status = "available" => purpose = "preflight")
    \/ stage = "sitemap" /\ candidates # <<>> /\ purpose = "crawl" /\ SitemapFound(Head(candidates))
    \/ MayOpen /\ Lose(Head(Top.rest))
    \/ Opens
    \/ Return
    \/ \E status \in Statuses : stage = "feeds" /\ FeedIs(status)
    \/ \E urls \in Seq(SiteUrls) : Entries(urls)
    \/ \E columns \in [sitemap : Statuses, feed : Statuses, pages : Nat, entries : Nat] : Recorded(columns)
    \/ \E s \in Stages \ {"walking", "sitemap"} :
         Go(s) /\ purpose = "preflight" /\ stage # "walking" /\ (s \in Early => stage \in Early)

LEMMA DiscoveryActs ==
    ASSUME DiscoveryInv, [Next]_vars
    PROVE  DiscoveryAct
<1> USE DEF DiscoveryAct
<1>0. /\ site.listed \in Seq(Files) /\ site.entries \in Seq(SiteUrls) /\ <<>> \in Seq(Files) /\ <<>> \in Seq(SiteUrls)
      /\ First(site.entries, MaxEntries) \in Seq(SiteUrls)
  <2>1. site \in Sites
    BY DEF DiscoveryInv
  <2>2. site.listed \in Seq(Files) /\ site.entries \in Seq(SiteUrls)
    BY <2>1, SiteLists
  <2>3. First(site.entries, MaxEntries) \in Seq(SiteUrls)
    BY <2>2, FirstIs, Discovering
  <2>4. <<>> \in Seq(Files) /\ <<>> \in Seq(SiteUrls)
    OBVIOUS
  <2> QED BY <2>2, <2>3, <2>4
<1>1. CASE UNCHANGED discoveryVars
  BY <1>1
<1>2. CASE ReadRobots \/ RobotsFails
  BY <1>0, <1>2 DEF ReadRobots, RobotsFails
<1>3. CASE CandidateFails
  <2>1. {"failed", "blocked"} \subseteq Statuses
    BY DEF Statuses
  <2> QED BY <1>3, <2>1 DEF CandidateFails
<1>4. CASE CheckSitemap
  <2>1. Worst(seen) \in Statuses \ {"available"} /\ {"invalid", "available", "not_present"} \subseteq Statuses
    BY DEF Worst, Statuses
  <2>2. stage = "sitemap"
    BY <1>4 DEF CheckSitemap
  <2>3. CASE candidates = <<>>
    BY <1>4, <2>1, <2>2, <2>3 DEF CheckSitemap
  <2>4. CASE candidates # <<>> /\ site.kind[Head(candidates)] = "absent"
    <3>1. NoUse("not_present")
      BY <1>4, <2>4 DEF CheckSitemap
    <3> QED BY <2>1, <2>2, <2>4, <3>1
  <2>5. CASE candidates # <<>> /\ site.kind[Head(candidates)] = "garbled"
    <3>1. SitemapIs("invalid")
      BY <1>4, <2>5 DEF CheckSitemap
    <3> QED BY <2>1, <2>2, <3>1
  <2>6. CASE candidates # <<>> /\ site.kind[Head(candidates)] \notin {"absent", "garbled"}
    <3>1. SitemapFound(Head(candidates))
      BY <1>4, <2>6 DEF CheckSitemap
    <3>2. CASE purpose = "preflight"
      <4>1. SitemapIs("available")
        BY <3>1, <3>2 DEF SitemapFound
      <4> QED BY <2>1, <2>2, <3>2, <4>1
    <3>3. CASE purpose = "crawl"
      BY <2>2, <2>6, <3>1, <3>3
    <3> QED BY <3>2, <3>3 DEF DiscoveryInv
  <2> QED BY <2>3, <2>4, <2>5, <2>6
<1>5. CASE OpenFile
  <2>1. MayOpen
    BY <1>5 DEF OpenFile
  <2>2. CASE TooDeep \/ site.kind[Head(Top.rest)] \in {"absent", "garbled"}
    <3>1. Lose(Head(Top.rest))
      BY <1>5, <2>2 DEF OpenFile
    <3> QED BY <2>1, <3>1
  <2>3. CASE ~(TooDeep \/ site.kind[Head(Top.rest)] \in {"absent", "garbled"})
    BY <1>5, <2>3 DEF Opens
  <2> QED BY <2>2, <2>3
<1>6. CASE FileFails
  BY <1>6 DEF FileFails
<1>7. CASE Return
  BY <1>7
<1>8. CASE CheckFeeds
  <2>1. Worst(seen \ {"not_present"}) \in Statuses /\ {"invalid", "available", "not_present"} \subseteq Statuses
    BY DEF Worst, Statuses
  <2>2. stage = "feeds"
    BY <1>8 DEF CheckFeeds
  <2>3. \/ FeedIs(Worst(seen \ {"not_present"})) \/ FeedIs("available")
        \/ candidates # <<>> /\ (NoUse("not_present") \/ NoUse("invalid"))
    BY <1>8 DEF CheckFeeds
  <2> QED BY <2>1, <2>2, <2>3
<1>9. CASE ReadEntries \/ EntriesFail
  BY <1>0, <1>9 DEF ReadEntries, EntriesFail
<1>10. CASE Record \/ RecordFails
  <2>1. [sitemap |-> outcome.sitemap, feed |-> outcome.feed, pages |-> Len(outcome.pages), entries |-> Len(outcome.entries)]
          \in [sitemap : Statuses, feed : Statuses, pages : Nat, entries : Nat]
    BY LenProperties DEF DiscoveryInv
  <2>2. row \in [sitemap : Statuses, feed : Statuses, pages : Nat, entries : Nat]
    BY DEF DiscoveryInv
  <2> QED BY <1>10, <2>1, <2>2 DEF Record, RecordFails
<1>11. CASE \E s \in {"connecting", "robots", "rendering", "reporting", "reported", "raised"} :
              /\ Go(s) /\ purpose = "preflight"
              /\ stage \in {"resolving", "connecting", "sampling", "rendering", "reporting"}
              /\ s \in {"connecting", "robots"} => stage \in {"resolving", "connecting"}
  <2>1. PICK s \in {"connecting", "robots", "rendering", "reporting", "reported", "raised"} :
              /\ Go(s) /\ purpose = "preflight"
              /\ stage \in {"resolving", "connecting", "sampling", "rendering", "reporting"}
              /\ s \in {"connecting", "robots"} => stage \in {"resolving", "connecting"}
    BY <1>11
  <2>2. s \in Stages \ {"walking", "sitemap"} /\ stage # "walking" /\ (s \in Early => stage \in Early)
    BY <2>1 DEF Stages, Early
  <2> QED BY <2>1, <2>2
<1>12. CASE Assess
  <2>1. CASE Resolved \/ NotResolved \/ Redirect \/ Connected \/ Unreachable \/ Raised
    BY <1>1, <1>11, <2>1 DEF Resolved, NotResolved, Redirect, Connected, Unreachable, Raised, Fail, At
  <2>2. CASE Checked \/ CheckFails
    BY <1>2, <1>3, <1>4, <1>8, <2>2 DEF Checked, CheckFails
  <2>3. CASE Sampled
    BY <1>1, <2>3 DEF Sampled
  <2>4. CASE SamplesDone \/ Rendered \/ RenderingFails \/ Report
    BY <1>11, <2>4 DEF SamplesDone, Rendered, RenderingFails, Report, At
  <2> QED BY <1>12, <2>1, <2>2, <2>3, <2>4 DEF Assess, PreflightStep, PreflightFault
<1>13. CASE Discover
  BY <1>2, <1>3, <1>4, <1>5, <1>6, <1>7, <1>8, <1>9, <1>10, <1>13 DEF Discover, DiscoveryStep, DiscoveryFault
<1>14. CASE StartCrawl
  BY <1>1, <1>14 DEF StartCrawl, askVars
<1>15. ASSUME NEW t \in Tasks, TaskStep(t) PROVE UNCHANGED discoveryVars
  BY <1>15 DEF TaskStep, StartPage, FetchPage, LeadsNowhere, Follow, Enqueue, GiveUp, Break, Leave, askVars
<1>16. CASE UNCHANGED vars
  BY <1>1, <1>16 DEF vars, askVars
<1> QED BY <1>1, <1>12, <1>13, <1>14, <1>15, <1>16 DEF Next

-----------------------------------------------------------------------------
(***************************************************************************)
(* What the walk's steps do to its calls.                                  *)
(***************************************************************************)

LEMMA TopIs ==
    ASSUME walk \in Seq(Calls), walk # <<>>
    PROVE  /\ Len(walk) \in Nat \ {0} /\ Top \in Calls
           /\ Top.rest \in Seq(Files) /\ Top.urls \in Seq(SiteUrls)
           /\ Top.rest # <<>> => /\ Head(Top.rest) \in Files /\ Tail(Top.rest) \in Seq(Files)
                                 /\ Len(Tail(Top.rest)) = Len(Top.rest) - 1
                                 /\ Elements(Top.rest) = {Head(Top.rest)} \cup Elements(Tail(Top.rest))
<1>1. Len(walk) \in Nat \ {0} /\ Top \in Calls
  <2> HIDE DEF Calls
  <2>1. Len(walk) \in Nat \ {0}
    BY EmptySeq
  <2> QED BY <2>1, ElementOfSeq DEF Top
<1>2. Top.rest \in Seq(Files) /\ Top.urls \in Seq(SiteUrls)
  BY <1>1 DEF Calls
<1> DEFINE r == Top.rest
<1>3. ASSUME r # <<>>
      PROVE  /\ Head(r) \in Files /\ Tail(r) \in Seq(Files) /\ Len(Tail(r)) = Len(r) - 1
             /\ Elements(r) = {Head(r)} \cup Elements(Tail(r))
  <2>0. r \in Seq(Files)
    BY <1>2
  <2> HIDE DEF r
  <2>1. /\ Head(r) \in Files /\ Tail(r) \in Seq(Files) /\ Len(Tail(r)) = Len(r) - 1
        /\ \A i \in 1 .. Len(Tail(r)) : Tail(r)[i] = r[i + 1]
    BY <1>3, <2>0, HeadTailProperties
  <2>2. DOMAIN r = 1 .. Len(r) /\ DOMAIN Tail(r) = 1 .. Len(Tail(r)) /\ Len(r) \in Nat \ {0} /\ Head(r) = r[1]
    BY <1>3, <2>0, <2>1
  <2>3. ASSUME NEW i \in 1 .. Len(r) PROVE r[i] \in {Head(r)} \cup Elements(Tail(r))
    <3>1. CASE i = 1
      BY <2>2, <3>1
    <3>2. CASE i # 1
      <4>1. i - 1 \in 1 .. Len(Tail(r)) /\ r[i] = Tail(r)[i - 1]
        BY <2>1, <2>2, <3>2
      <4> QED BY <2>2, <4>1 DEF Elements
    <3> QED BY <3>1, <3>2
  <2>4. ASSUME NEW i \in 1 .. Len(Tail(r)) PROVE Tail(r)[i] \in Elements(r)
    BY <2>1, <2>2 DEF Elements
  <2>5. Head(r) \in Elements(r)
    BY <2>2 DEF Elements
  <2>6. Elements(r) = {Head(r)} \cup Elements(Tail(r))
    BY <2>2, <2>3, <2>4, <2>5 DEF Elements
  <2> QED BY <2>1, <2>6
<1> QED BY <1>1, <1>2, <1>3

LEMMA CallsAre ==
    ASSUME NEW c \in Calls, NEW x
    PROVE  /\ [c EXCEPT !.rest = x] = [rest |-> x, urls |-> c.urls]
           /\ [c EXCEPT !.urls = x] = [rest |-> c.rest, urls |-> x]
BY DEF Calls

LEMMA AdvancedIs ==
    ASSUME walk \in Seq(Calls), walk # <<>>, Top.rest # <<>>
    PROVE  /\ Advanced \in Seq(Calls) /\ Len(Advanced) = Len(walk)
           /\ Advanced[Len(walk)] = [rest |-> Tail(Top.rest), urls |-> Top.urls]
           /\ \A i \in 1 .. Len(walk) - 1 : Advanced[i] = walk[i]
<1> DEFINE n    == Len(walk)
           call == [rest |-> Tail(Top.rest), urls |-> Top.urls]
<1>1. n \in 1 .. Len(walk) /\ call \in Calls /\ Top \in Calls
  BY TopIs DEF Calls
<1>2. Advanced = [walk EXCEPT ![n] = call]
  <2>1. Advanced = [walk EXCEPT ![n] = [walk[n] EXCEPT !.rest = Tail(walk[n].rest)]]
    BY DEF Advanced
  <2>2. [walk[n] EXCEPT !.rest = Tail(walk[n].rest)] = call
    BY <1>1, CallsAre DEF Top
  <2> QED BY <2>1, <2>2
<1> HIDE DEF call
<1> HIDE DEF n
<1>3. /\ [walk EXCEPT ![n] = call] \in Seq(Calls) /\ Len([walk EXCEPT ![n] = call]) = Len(walk)
      /\ \A j \in 1 .. Len(walk) : [walk EXCEPT ![n] = call][j] = IF j = n THEN call ELSE walk[j]
  BY <1>1, ExceptSeq
<1>4. /\ Advanced \in Seq(Calls) /\ Len(Advanced) = Len(walk)
      /\ \A j \in 1 .. Len(walk) : Advanced[j] = IF j = n THEN call ELSE walk[j]
  BY <1>2, <1>3, Zenon
<1>5. n \in Nat \ {0} /\ n = Len(walk)
  BY TopIs DEF n
<1>6. Advanced[n] = call /\ \A i \in 1 .. n - 1 : Advanced[i] = walk[i]
  BY <1>4, <1>5
<1> QED BY <1>4, <1>5, <1>6 DEF call

\* A file is opened: an index gives a further call, any other file URLs.
LEMMA OpensDoes ==
    ASSUME site \in Sites, walk \in Seq(Calls), walk # <<>>, Opens
    PROVE  LET n    == Len(walk)
               file == Head(Top.rest)
               has  == site.has[file]
           IN  /\ stage = "walking" /\ Top.rest # <<>> /\ Len(Top.urls) < MaxTotal /\ n - 1 <= MaxDepth /\ file \in Files
               /\ files' = files + 1 /\ UNCHANGED <<site, purpose, stage, candidates, seen, root, lost, outcome, row>>
               /\ walk' \in Seq(Calls) /\ \A i \in 1 .. n - 1 : walk'[i] = walk[i]
               /\ \/ /\ site.kind[file] = "index" /\ Len(walk') = n + 1
                     /\ walk'[n] = [rest |-> Tail(Top.rest), urls |-> Top.urls]
                     /\ walk'[n + 1] = [rest |-> First(has, MaxNested), urls |-> <<>>]
                     /\ truncated' = (truncated \/ Len(has) > MaxNested)
                  \/ /\ site.kind[file] # "index" /\ Len(walk') = n
                     /\ walk'[n] = [rest |-> Tail(Top.rest), urls |-> Top.urls \o First(has, MaxPerFile)]
                     /\ truncated' = (truncated \/ Len(has) > MaxPerFile)
<1> DEFINE n    == Len(walk)
           file == Head(Top.rest)
           has  == site.has[file]
<1>1. /\ MayOpen /\ ~TooDeep /\ site.kind[file] \notin {"absent", "garbled"}
      /\ IF site.kind[file] = "index" THEN ReadIndex(file) ELSE ReadPages(file)
      /\ files' = files + 1 /\ UNCHANGED <<site, purpose, stage, candidates, seen, root, lost, outcome, row>>
  BY DEF Opens, OpenFile
<1>2. stage = "walking" /\ Top.rest # <<>> /\ Len(Top.urls) < MaxTotal
  BY <1>1 DEF MayOpen
<1>3. n \in Nat \ {0} /\ file \in Files /\ Top.urls \in Seq(SiteUrls) /\ Tail(Top.rest) \in Seq(Files)
  BY <1>2, TopIs
<1>4. n - 1 <= MaxDepth
  BY <1>1, <1>3, Discovering DEF TooDeep
<1>5. has \in Seq(SiteUrls) /\ (site.kind[file] = "index" => has \in Seq(Files))
  BY <1>3, FileHas
<1>6. /\ Advanced \in Seq(Calls) /\ Len(Advanced) = n
      /\ Advanced[n] = [rest |-> Tail(Top.rest), urls |-> Top.urls]
      /\ \A i \in 1 .. n - 1 : Advanced[i] = walk[i]
  BY <1>2, AdvancedIs
<1>7. CASE site.kind[file] = "index"
  <2> DEFINE call == [rest |-> First(has, MaxNested), urls |-> <<>>]
  <2>1. walk' = Append(Advanced, call) /\ truncated' = (truncated \/ Len(has) > MaxNested)
    BY <1>1, <1>7 DEF ReadIndex
  <2>2. First(has, MaxNested) \in Seq(Files)
    BY <1>5, <1>7, FirstIs, Discovering
  <2>3. call \in Calls
    BY <2>2 DEF Calls
  <2> HIDE DEF call, n, has, file
  <2>4. /\ walk' \in Seq(Calls) /\ Len(walk') = n + 1 /\ walk'[n + 1] = call
        /\ \A i \in 1 .. n : walk'[i] = Advanced[i]
    BY <1>6, <2>1, <2>3, AppendProperties
  <2>5. walk'[n] = [rest |-> Tail(Top.rest), urls |-> Top.urls] /\ \A i \in 1 .. n - 1 : walk'[i] = walk[i]
    BY <1>3, <1>6, <2>4
  <2> QED BY <1>1, <1>2, <1>3, <1>4, <1>7, <2>1, <2>4, <2>5 DEF call, n, has, file
<1>8. CASE site.kind[file] # "index"
  <2> DEFINE new  == First(has, MaxPerFile)
             call == [rest |-> Tail(Top.rest), urls |-> Top.urls \o new]
  <2>1. walk' = [Advanced EXCEPT ![n].urls = @ \o new] /\ truncated' = (truncated \/ Len(has) > MaxPerFile)
    BY <1>1, <1>8 DEF ReadPages
  <2>2. new \in Seq(SiteUrls)
    BY <1>5, FirstIs, Discovering
  <2> HIDE DEF new
  <2>3. call \in Calls
    BY <1>3, <2>2, ConcatProperties DEF Calls
  <2>4. walk' = [Advanced EXCEPT ![n] = call]
    <3>1. walk' = [Advanced EXCEPT ![n] = [Advanced[n] EXCEPT !.urls = Advanced[n].urls \o new]]
      BY <2>1
    <3>2. Advanced[n] \in Calls /\ Advanced[n].rest = Tail(Top.rest) /\ Advanced[n].urls = Top.urls
      BY <1>3, <1>6 DEF Calls
    <3>3. \A more : [Advanced[n] EXCEPT !.urls = more] = [rest |-> Advanced[n].rest, urls |-> more]
      BY <3>2, CallsAre
    <3>4. [Advanced[n] EXCEPT !.urls = Advanced[n].urls \o new] = call
      BY <3>2, <3>3, Zenon
    <3> QED BY <3>1, <3>4
  <2> HIDE DEF call, n, has, file
  <2>5. n \in 1 .. Len(Advanced)
    BY <1>3, <1>6
  <2>6. /\ walk' \in Seq(Calls) /\ Len(walk') = n
        /\ \A j \in 1 .. n : walk'[j] = IF j = n THEN call ELSE Advanced[j]
    BY <1>6, <2>3, <2>4, <2>5, ExceptSeq
  <2>7. walk'[n] = call /\ \A i \in 1 .. n - 1 : walk'[i] = walk[i]
    BY <1>3, <1>6, <2>6
  <2> QED BY <1>1, <1>2, <1>3, <1>4, <1>8, <2>1, <2>6, <2>7 DEF call, n, has, file, new
<1> QED BY <1>7, <1>8

\* A file is lost.
LEMMA LoseDoes ==
    ASSUME walk \in Seq(Calls), walk # <<>>, MayOpen, Lose(Head(Top.rest))
    PROVE  LET n == Len(walk) IN
           /\ stage = "walking" /\ Top.rest # <<>> /\ Len(Top.urls) < MaxTotal
           /\ lost' = lost \cup {Head(Top.rest)}
           /\ UNCHANGED <<site, purpose, stage, candidates, seen, root, files, truncated, outcome, row>>
           /\ walk' \in Seq(Calls) /\ Len(walk') = n /\ \A i \in 1 .. n - 1 : walk'[i] = walk[i]
           /\ walk'[n] = [rest |-> Tail(Top.rest), urls |-> Top.urls]
BY AdvancedIs DEF Lose, MayOpen

\* A call gives its URLs to its caller, or to the discovery.
LEMMA ReturnDoes ==
    ASSUME walk \in Seq(Calls), walk # <<>>, Return
    PROVE  LET n == Len(walk) IN
           /\ stage = "walking" /\ (Top.rest = <<>> \/ Len(Top.urls) >= MaxTotal)
           /\ truncated' = (truncated \/ Top.rest # <<>>)
           /\ UNCHANGED <<site, purpose, root, files, lost, row>>
           /\ \/ /\ n > 1 /\ UNCHANGED <<stage, candidates, seen, outcome>>
                 /\ walk' \in Seq(Calls) /\ Len(walk') = n - 1 /\ \A i \in 1 .. n - 2 : walk'[i] = walk[i]
                 /\ walk'[n - 1] = [rest |-> walk[n - 1].rest, urls |-> walk[n - 1].urls \o Top.urls]
              \/ /\ n = 1 /\ walk' = <<>> /\ outcome' = [outcome EXCEPT !.pages = Top.urls]
                 /\ stage' = "feeds" /\ seen' = {}
<1> DEFINE n     == Len(walk)
           calls == SubSeq(walk, 1, n - 1)
<1>1. /\ stage = "walking" /\ (Top.rest = <<>> \/ Len(Top.urls) >= MaxTotal)
      /\ truncated' = (truncated \/ Top.rest # <<>>)
      /\ UNCHANGED <<site, purpose, root, files, lost, row>>
  BY DEF Return
<1>2. IF calls # <<>>
      THEN /\ walk' = [calls EXCEPT ![Len(calls)].urls = @ \o Top.urls]
           /\ UNCHANGED <<stage, candidates, seen, outcome>>
      ELSE /\ walk' = <<>>
           /\ outcome' = [outcome EXCEPT !.pages = Top.urls]
           /\ stage' = "feeds" /\ seen' = {}
  BY DEF Return
<1>3. n \in Nat \ {0} /\ Top.urls \in Seq(SiteUrls)
  BY TopIs
<1>4. \A i \in 1 .. n : walk[i] \in Calls
  <2> HIDE DEF Calls
  <2> QED BY ElementOfSeq
<1>5. calls \in Seq(Calls) /\ Len(calls) = n - 1 /\ \A i \in 1 .. n - 1 : calls[i] = walk[i]
  <2> HIDE DEF n
  <2>1. n - 1 \in Int /\ \A i \in 1 .. n - 1 : walk[i] \in Calls
    BY <1>3, <1>4
  <2>2. /\ calls \in Seq(Calls) /\ Len(calls) = IF 1 <= n - 1 THEN n - 1 - 1 + 1 ELSE 0
        /\ \A i \in 1 .. n - 1 - 1 + 1 : calls[i] = walk[1 + i - 1]
    BY <2>1, SubSeqProperties
  <2> HIDE DEF calls
  <2>3. Len(calls) = n - 1
    BY <1>3, <2>2
  <2>4. \A i \in 1 .. n - 1 : calls[i] = walk[i]
    BY <1>3, <2>2
  <2> QED BY <2>2, <2>3, <2>4
<1> HIDE DEF calls
<1>6. CASE calls = <<>>
  <2>1. n = 1
    BY <1>3, <1>5, <1>6
  <2> QED BY <1>1, <1>2, <1>6, <2>1
<1>7. CASE calls # <<>>
  <2> DEFINE call == [rest |-> walk[n - 1].rest, urls |-> walk[n - 1].urls \o Top.urls]
  <2>1. n > 1 /\ n - 1 \in 1 .. Len(calls)
    BY <1>3, <1>5, <1>7
  <2>2. walk[n - 1] \in Calls
    BY <1>3, <1>4, <2>1
  <2>3. call \in Calls
    BY <1>3, <2>2, ConcatProperties DEF Calls
  <2>4. walk' = [calls EXCEPT ![n - 1] = call]
    <3>1. walk' = [calls EXCEPT ![n - 1].urls = @ \o Top.urls]
      BY <1>2, <1>5, <1>7
    <3>2. calls[n - 1] = walk[n - 1]
      BY <1>5, <2>1
    <3>3. walk' = [calls EXCEPT ![n - 1] = [calls[n - 1] EXCEPT !.urls = calls[n - 1].urls \o Top.urls]]
      BY <3>1
    <3>4. \A more : [calls[n - 1] EXCEPT !.urls = more] = [rest |-> calls[n - 1].rest, urls |-> more]
      BY <2>2, <3>2, CallsAre
    <3>5. [calls[n - 1] EXCEPT !.urls = calls[n - 1].urls \o Top.urls] = call
      BY <3>2, <3>4, Zenon
    <3> QED BY <3>3, <3>5
  <2> HIDE DEF call, n
  <2>5. /\ walk' \in Seq(Calls) /\ Len(walk') = Len(calls)
        /\ \A j \in 1 .. Len(calls) : walk'[j] = IF j = n - 1 THEN call ELSE calls[j]
    BY <1>5, <2>1, <2>3, <2>4, ExceptSeq
  <2>6. Len(walk') = n - 1 /\ walk'[n - 1] = call /\ \A i \in 1 .. n - 2 : walk'[i] = walk[i]
    BY <1>3, <1>5, <2>1, <2>5
  <2> QED BY <1>1, <1>2, <1>7, <2>1, <2>5, <2>6 DEF call, n
<1> QED BY <1>6, <1>7

LEMMA DiscoveryInvInit == Init => DiscoveryInv
<1> SUFFICES ASSUME Init PROVE DiscoveryInv
  OBVIOUS
<1>1. DiscoveryInit
  BY DEF Init
<1>2. site \in Sites /\ purpose \in {"crawl", "preflight"} /\ stage \in Early /\ stage # "sitemap" /\ Early \subseteq Stages
  BY <1>1 DEF DiscoveryInit, Early, Stages
<1>3. Default \in Files
  BY <1>2, SiteLists
<1>4. NothingFound \in [sitemap : Statuses, feed : Statuses, pages : Seq(SiteUrls), entries : Seq(SiteUrls)]
  BY DEF NothingFound, Statuses
<1>5. row \in [sitemap : Statuses, feed : Statuses, pages : Nat, entries : Nat]
  BY <1>1 DEF DiscoveryInit, Statuses
<1>6. walk = <<>> /\ walk \in Seq(Calls) /\ Len(walk) = 0 /\ stage # "walking"
  BY <1>1 DEF DiscoveryInit
<1>7. MaxDepth \in Nat
  BY Discovering
<1>8. /\ candidates = <<>> /\ seen = {} /\ root = Default /\ files = 0 /\ truncated = FALSE /\ lost = {}
      /\ outcome = NothingFound
  BY <1>1 DEF DiscoveryInit
<1> HIDE DEF Early, Stages, Files, SiteUrls, Calls, Statuses
<1>9. WalkInv
  <2>1. Len(walk) <= MaxDepth + 2
    BY <1>6, <1>7
  <2>2. stage = "walking" <=> walk # <<>>
    BY <1>6
  <2>3. root \in Files /\ walk \in Seq(Calls) /\ files \in Nat /\ truncated \in BOOLEAN
        /\ (stage \in Early => files = 0 /\ ~truncated /\ lost = {})
    BY <1>3, <1>6, <1>8
  <2> QED BY <2>1, <2>2, <2>3 DEF WalkInv
<1> QED BY <1>2, <1>4, <1>5, <1>8, <1>9 DEF DiscoveryInv

LEMMA OutcomeIs ==
    ASSUME NEW o \in [sitemap : Statuses, feed : Statuses, pages : Seq(SiteUrls), entries : Seq(SiteUrls)],
           NEW status \in Statuses, NEW urls \in Seq(SiteUrls)
    PROVE  {[o EXCEPT !.sitemap = status], [o EXCEPT !.feed = status], [o EXCEPT !.pages = urls], [o EXCEPT !.entries = urls]}
             \subseteq [sitemap : Statuses, feed : Statuses, pages : Seq(SiteUrls), entries : Seq(SiteUrls)]
OBVIOUS

LEMMA DiscoveryInvStep ==
    ASSUME DiscoveryInv, [Next]_vars
    PROVE  DiscoveryInv'
<1>0. /\ site \in Sites /\ purpose \in {"crawl", "preflight"} /\ stage \in Stages
      /\ stage = "sitemap" => candidates \in Seq(Files)
      /\ seen \subseteq Statuses
      /\ outcome \in [sitemap : Statuses, feed : Statuses, pages : Seq(SiteUrls), entries : Seq(SiteUrls)]
      /\ row \in [sitemap : Statuses, feed : Statuses, pages : Nat, entries : Nat]
      /\ root \in Files /\ walk \in Seq(Calls) /\ Len(walk) <= MaxDepth + 2
      /\ stage = "walking" <=> walk # <<>>
      /\ files \in Nat /\ truncated \in BOOLEAN
      /\ stage \in Early => files = 0 /\ ~truncated /\ lost = {}
      /\ MaxDepth \in Nat
  BY Discovering DEF DiscoveryInv, WalkInv
<1>a. {"walking", "feeds", "entries", "recording", "over", "sampling"} \subseteq Stages \ Early
      /\ "sitemap" \in Stages \cap Early /\ "robots" \in Early /\ {"available", "unknown"} \subseteq Statuses
  BY DEF Stages, Early, Statuses
<1>b. site' = site => Files' = Files /\ SiteUrls' = SiteUrls /\ Calls' = Calls
  BY DEF Files, SiteUrls, Calls
<1> HIDE DEF DiscoveryInv
<1> SUFFICES ASSUME DiscoveryAct
             PROVE  /\ UNCHANGED <<site, purpose>> /\ stage' \in Stages
                    /\ stage' = "sitemap" => candidates' \in Seq(Files)
                    /\ seen' \subseteq Statuses
                    /\ outcome' \in [sitemap : Statuses, feed : Statuses, pages : Seq(SiteUrls), entries : Seq(SiteUrls)]
                    /\ row' \in [sitemap : Statuses, feed : Statuses, pages : Nat, entries : Nat]
                    /\ root' \in Files /\ walk' \in Seq(Calls) /\ Len(walk') <= MaxDepth + 2
                    /\ stage' = "walking" <=> walk' # <<>>
                    /\ files' \in Nat /\ truncated' \in BOOLEAN
                    /\ stage' \in Early => files' = 0 /\ ~truncated' /\ lost' = {}
  <2>1. DiscoveryAct
    BY DiscoveryActs
  <2>2. Early' = Early /\ Stages' = Stages /\ Statuses' = Statuses
    BY DEF Early, Stages, Statuses
  <2> QED BY <1>0, <1>b, <2>1, <2>2 DEF DiscoveryInv, WalkInv
<1> HIDE DEF Files, SiteUrls, Calls, Stages, Early, Statuses
<1>1. CASE UNCHANGED discoveryVars
  BY <1>0, <1>1 DEF discoveryVars
<1>2. ASSUME NEW listed \in Seq(Files), AfterRobots(listed)
      PROVE  candidates' \in Seq(Files)
  <2>1. Default \in Files
    BY <1>0, SiteLists
  <2>2. First(listed, MaxSitemaps) \in Seq(Files)
    BY FirstIs, Discovering
  <2> QED BY <1>2, <2>1, <2>2 DEF AfterRobots
<1>3. CASE \E listed \in Seq(Files) : AfterRobots(listed)
  BY <1>0, <1>2, <1>3, <1>a DEF AfterRobots
<1>4. ASSUME candidates # <<>>, stage = "sitemap"
      PROVE  Head(candidates) \in Files /\ Tail(candidates) \in Seq(Files)
  BY <1>0, <1>4, HeadTailProperties
<1>5. ASSUME NEW what \in Statuses, NoUse(what), candidates # <<>>, stage \in {"sitemap", "feeds"}
      PROVE  (stage' = "sitemap" => candidates' \in Seq(Files)) /\ seen' \subseteq Statuses
  BY <1>0, <1>4, <1>5 DEF NoUse
<1>6. CASE \E what \in Statuses : NoUse(what) /\ candidates # <<>> /\ stage \in {"sitemap", "feeds"}
  BY <1>0, <1>5, <1>6 DEF NoUse
<1>7. ASSUME NEW status \in Statuses, stage = "sitemap", SitemapIs(status)
      PROVE  outcome' \in [sitemap : Statuses, feed : Statuses, pages : Seq(SiteUrls), entries : Seq(SiteUrls)]
  BY <1>0, <1>7, OutcomeIs DEF SitemapIs
<1>8. CASE \E status \in Statuses :
             stage = "sitemap" /\ SitemapIs(status) /\ (status = "available" => purpose = "preflight")
  BY <1>0, <1>7, <1>8, <1>a DEF SitemapIs
<1>9. CASE stage = "sitemap" /\ candidates # <<>> /\ purpose = "crawl" /\ SitemapFound(Head(candidates))
  <2> DEFINE file == Head(candidates)
  <2>1. /\ outcome' = [outcome EXCEPT !.sitemap = "available"] /\ stage' = "walking" /\ root' = file
        /\ walk' = <<[rest |-> <<file>>, urls |-> <<>>]>>
        /\ UNCHANGED <<site, purpose, candidates, seen, files, truncated, lost, row>>
    BY <1>9 DEF SitemapFound
  <2>2. file \in Files
    BY <1>4, <1>9
  <2>3. outcome' \in [sitemap : Statuses, feed : Statuses, pages : Seq(SiteUrls), entries : Seq(SiteUrls)]
    BY <1>0, <1>a, <2>1, OutcomeIs
  <2> HIDE DEF file
  <2>4. [rest |-> <<file>>, urls |-> <<>>] \in Calls
    BY <2>2 DEF Calls
  <2>5. walk' \in Seq(Calls) /\ Len(walk') = 1 /\ walk' # <<>>
    BY <2>1, <2>4
  <2> QED BY <1>0, <1>a, <2>1, <2>2, <2>3, <2>5
<1>10. CASE MayOpen /\ Lose(Head(Top.rest))
  <2>0. walk # <<>>
    BY <1>0, <1>10 DEF MayOpen
  <2>1. /\ stage = "walking" /\ walk' \in Seq(Calls) /\ Len(walk') = Len(walk)
        /\ UNCHANGED <<site, purpose, stage, candidates, seen, root, files, truncated, outcome, row>>
    BY <1>0, <1>10, <2>0, LoseDoes
  <2>2. walk' # <<>>
    BY <1>0, <2>0, <2>1, EmptySeq
  <2> QED BY <1>0, <1>a, <2>1, <2>2
<1>11. CASE Opens
  <2>0. walk # <<>>
    BY <1>0, <1>11 DEF Opens, OpenFile, MayOpen
  <2>1. /\ stage = "walking" /\ walk' \in Seq(Calls) /\ files' = files + 1 /\ Len(walk) - 1 <= MaxDepth
        /\ Len(walk') = Len(walk) + 1 \/ Len(walk') = Len(walk)
        /\ truncated' \in BOOLEAN
        /\ UNCHANGED <<site, purpose, stage, candidates, seen, root, lost, outcome, row>>
    BY <1>0, <1>11, <2>0, OpensDoes
  <2>2. Len(walk) \in Nat \ {0}
    BY <1>0, <2>0, TopIs
  <2>3. walk' # <<>> /\ Len(walk') <= MaxDepth + 2 /\ files' \in Nat
    BY <1>0, <2>1, <2>2
  <2> QED BY <1>0, <1>a, <2>1, <2>3
<1>12. CASE Return
  <2>0. walk # <<>>
    BY <1>0, <1>12 DEF Return
  <2>1. /\ stage = "walking" /\ truncated' \in BOOLEAN
        /\ UNCHANGED <<site, purpose, root, files, lost, row>>
        /\ \/ /\ Len(walk) > 1 /\ UNCHANGED <<stage, candidates, seen, outcome>>
              /\ walk' \in Seq(Calls) /\ Len(walk') = Len(walk) - 1
           \/ /\ walk' = <<>> /\ outcome' = [outcome EXCEPT !.pages = Top.urls]
              /\ stage' = "feeds" /\ seen' = {}
    BY <1>0, <1>12, <2>0, ReturnDoes
  <2>2. Len(walk) \in Nat \ {0} /\ Top.urls \in Seq(SiteUrls)
    BY <1>0, <2>0, TopIs
  <2>3. CASE Len(walk) > 1 /\ UNCHANGED <<stage, candidates, seen, outcome>> /\ walk' \in Seq(Calls) /\ Len(walk') = Len(walk) - 1
    <3>1. walk' # <<>> /\ Len(walk') <= MaxDepth + 2
      BY <1>0, <2>2, <2>3
    <3> QED BY <1>0, <1>a, <2>1, <2>3, <3>1
  <2>4. CASE walk' = <<>> /\ outcome' = [outcome EXCEPT !.pages = Top.urls] /\ stage' = "feeds" /\ seen' = {}
    <3>1. outcome' \in [sitemap : Statuses, feed : Statuses, pages : Seq(SiteUrls), entries : Seq(SiteUrls)]
      BY <1>0, <1>a, <2>2, <2>4, OutcomeIs
    <3>2. walk' \in Seq(Calls) /\ Len(walk') <= MaxDepth + 2
      BY <1>0, <2>4
    <3> QED BY <1>0, <1>a, <2>1, <2>4, <3>1, <3>2
  <2> QED BY <2>1, <2>3, <2>4
<1>13. ASSUME NEW status \in Statuses, FeedIs(status)
       PROVE  outcome' \in [sitemap : Statuses, feed : Statuses, pages : Seq(SiteUrls), entries : Seq(SiteUrls)]
  BY <1>0, <1>13, OutcomeIs DEF FeedIs
<1>14. CASE \E status \in Statuses : stage = "feeds" /\ FeedIs(status)
  BY <1>0, <1>13, <1>14, <1>a DEF FeedIs
<1>15. ASSUME NEW urls \in Seq(SiteUrls), Entries(urls)
       PROVE  outcome' \in [sitemap : Statuses, feed : Statuses, pages : Seq(SiteUrls), entries : Seq(SiteUrls)]
  BY <1>0, <1>a, <1>15, OutcomeIs DEF Entries
<1>16. CASE \E urls \in Seq(SiteUrls) : Entries(urls)
  BY <1>0, <1>15, <1>16, <1>a DEF Entries
<1>17. CASE \E columns \in [sitemap : Statuses, feed : Statuses, pages : Nat, entries : Nat] : Recorded(columns)
  BY <1>0, <1>17, <1>a DEF Recorded
<1>18. CASE \E s \in Stages \ {"walking", "sitemap"} :
              Go(s) /\ purpose = "preflight" /\ stage # "walking" /\ (s \in Early => stage \in Early)
  BY <1>0, <1>18 DEF Go
<1> QED BY <1>1, <1>3, <1>6, <1>8, <1>9, <1>10, <1>11, <1>12, <1>14, <1>16, <1>17, <1>18 DEF DiscoveryAct

LEMMA DiscoveryAlways == Spec => []DiscoveryInv
BY DiscoveryInvInit, DiscoveryInvStep, PTL DEF Spec

-----------------------------------------------------------------------------
(***************************************************************************)
(* Scores: what rounding to even does, and that it never turns a smaller   *)
(* quotient into a larger number.                                          *)
(***************************************************************************)

LEMMA RoundedIs ==
    ASSUME NEW p \in Nat, NEW q \in Nat \ {0}
    PROVE  LET r == Rounded(p, q) IN
           /\ r \in Nat
           /\ 2 * p <= 2 * (r * q) + q /\ (2 * p = 2 * (r * q) + q => r % 2 = 0)
           /\ 2 * (r * q) <= 2 * p + q /\ (2 * (r * q) = 2 * p + q => r % 2 = 0)
<1> DEFINE d == p \div q
           m == p % q
<1>1. d \in Nat /\ m \in 0 .. q - 1 /\ p = d * q + m
  OBVIOUS
<1>2. Rounded(p, q) = IF 2 * m > q \/ (2 * m = q /\ d % 2 = 1) THEN d + 1 ELSE d
  BY DEF Rounded
<1> HIDE DEF d, m
<1>3. (d + 1) * q = d * q + q /\ d * q \in Nat
  BY <1>1
<1> DEFINE k == d * q
<1>4. k \in Nat /\ (d + 1) * q = k + q /\ p = k + m /\ d * q = k
  BY <1>1, <1>3
<1>5. d % 2 \in {0, 1} /\ (d % 2 = 1 => (d + 1) % 2 = 0)
  BY <1>1
<1> HIDE DEF k
<1>6. CASE 2 * m > q \/ (2 * m = q /\ d % 2 = 1)
  BY <1>1, <1>2, <1>4, <1>5, <1>6
<1>7. CASE ~(2 * m > q \/ (2 * m = q /\ d % 2 = 1))
  BY <1>1, <1>2, <1>4, <1>5, <1>7
<1> QED BY <1>6, <1>7

\* Of two multiples of a positive number, the smaller has the smaller factor.
LEMMA Factors ==
    ASSUME NEW a \in Int, NEW b \in Int, NEW k \in Nat \ {0}, a * k <= b * k
    PROVE  a <= b
<1> SUFFICES ASSUME a >= b + 1 PROVE FALSE
  OBVIOUS
<1>1. (a - b) * k >= k
  OBVIOUS
<1>2. (a - b) * k = a * k - b * k
  OBVIOUS
<1> QED BY <1>1, <1>2

LEMMA RoundedGrows ==
    ASSUME NEW p \in Nat, NEW q \in Nat \ {0}, NEW u \in Nat, NEW v \in Nat \ {0}, p * v <= u * q
    PROVE  Rounded(p, q) <= Rounded(u, v)
<1> DEFINE r == Rounded(p, q)
           s == Rounded(u, v)
           k == q * v
<1>1. /\ r \in Nat /\ 2 * (r * q) <= 2 * p + q /\ (2 * (r * q) = 2 * p + q => r % 2 = 0)
      /\ s \in Nat /\ 2 * u <= 2 * (s * v) + v /\ (2 * u = 2 * (s * v) + v => s % 2 = 0)
  BY RoundedIs
<1>2. k \in Nat \ {0}
  OBVIOUS
<1> HIDE DEF r, s
<1>3. (2 * (r * q)) * v <= (2 * p + q) * v /\ (2 * u) * q <= (2 * (s * v) + v) * q
  BY <1>1
<1>4. /\ (2 * (r * q)) * v = (2 * r) * k /\ (2 * p + q) * v = 2 * (p * v) + k
      /\ (2 * u) * q = 2 * (u * q) /\ (2 * (s * v) + v) * q = (2 * s + 1) * k
  BY <1>1
<1>5. (2 * r) * k = (2 * r - 1) * k + k
  BY <1>1, <1>2
<1> DEFINE x == (2 * r - 1) * k
           y == (2 * s + 1) * k
           a == p * v
           b == u * q
<1>6. x \in Int /\ y \in Int /\ a \in Int /\ b \in Int /\ a <= b
  BY <1>1, <1>2
<1>7. x <= 2 * a /\ 2 * b <= y
  BY <1>2, <1>3, <1>4, <1>5, <1>6
<1>8. x <= y
  <2> HIDE DEF x, y, a, b
  <2> QED BY <1>6, <1>7
<1>9. 2 * r - 1 <= 2 * s + 1
  <2> HIDE DEF k
  <2> QED BY <1>1, <1>2, <1>8, Factors
<1>10. SUFFICES ASSUME r = s + 1 PROVE FALSE
  BY <1>1, <1>9 DEF r, s
<1>11. x = y
  BY <1>1, <1>10
<1>12. x = 2 * a /\ 2 * b = y
  <2> HIDE DEF x, y, a, b
  <2> QED BY <1>6, <1>7, <1>11
<1>13. (2 * (r * q)) * v = (2 * p + q) * v /\ (2 * u) * q = (2 * (s * v) + v) * q
  BY <1>2, <1>4, <1>5, <1>12
<1>14. \A i, j \in Int, n \in Nat \ {0} : i * n = j * n => i = j
  <2> SUFFICES ASSUME NEW i \in Int, NEW j \in Int, NEW n \in Nat \ {0}, i * n = j * n PROVE i = j
    OBVIOUS
  <2>1. i * n <= j * n /\ j * n <= i * n
    OBVIOUS
  <2>2. i <= j /\ j <= i
    BY <2>1, Factors
  <2> QED BY <2>2
<1>15. 2 * (r * q) = 2 * p + q /\ 2 * u = 2 * (s * v) + v
  <2> DEFINE e == 2 * (r * q)
             f == 2 * p + q
             g == 2 * u
             h == 2 * (s * v) + v
  <2>1. e \in Int /\ f \in Int /\ g \in Int /\ h \in Int /\ e * v = f * v /\ g * q = h * q
    BY <1>1, <1>13
  <2> HIDE DEF e, f, g, h
  <2>2. e = f /\ g = h
    BY <1>14, <2>1
  <2> QED BY <2>2 DEF e, f, g, h
<1>16. r % 2 = 0 /\ s % 2 = 0
  BY <1>1, <1>15
<1> QED BY <1>1, <1>10, <1>16

LEMMA RoundedPercent ==
    ASSUME NEW p \in Nat, NEW q \in Nat \ {0}, p <= 100 * q
    PROVE  Rounded(p, q) \in 0 .. 100
<1> DEFINE u == 100
           v == 1
<1>1. u \in Nat /\ v \in Nat \ {0} /\ p * v <= u * q
  OBVIOUS
<1>2. Rounded(u, v) = 100
  BY DEF Rounded
<1> HIDE DEF u, v
<1>3. Rounded(p, q) <= Rounded(u, v)
  BY <1>1, RoundedGrows
<1>4. Rounded(p, q) \in Nat
  BY RoundedIs
<1> QED BY <1>2, <1>3, <1>4

Evidence ==
    [ok : BOOLEAN, type : {"html", "other", "none"}, allowed : BOOLEAN, links : Nat, js : BOOLEAN,
     attempts : Seq({"fetched", "extracted", "lost"}), browser : {"none", "failed", "improved", "same"}]

\* The pages that were fetched, and those that could be extracted.
Fetched(e) == {i \in DOMAIN e.attempts : e.attempts[i] # "lost"}
Good(e)    == {i \in Fetched(e) : e.attempts[i] = "extracted"}

Portion(good, fetched) == IF fetched = {} THEN 0 ELSE Rounded(100 * Cardinality(good), Cardinality(fetched))

LEMMA ExtractionIsPortion == \A e : ExtractionScore(e) = Portion(Good(e), Fetched(e))
BY DEF ExtractionScore, Portion, Good, Fetched

LEMMA FetchedIsFinite ==
    ASSUME NEW e \in Evidence
    PROVE  IsFiniteSet(Fetched(e)) /\ Good(e) \subseteq Fetched(e)
<1>1. e.attempts \in Seq({"fetched", "extracted", "lost"})
  BY DEF Evidence
<1>2. DOMAIN e.attempts = 1 .. Len(e.attempts) /\ Len(e.attempts) \in Nat
  BY <1>1
<1>3. IsFiniteSet(1 .. Len(e.attempts))
  BY <1>2, FS_Interval
<1>4. Fetched(e) \subseteq 1 .. Len(e.attempts)
  BY <1>2 DEF Fetched
<1> QED BY <1>3, <1>4, FS_Subset DEF Good

\* A page more that could be extracted never makes the portion smaller.
LEMMA PortionGrows ==
    ASSUME NEW F, NEW G, IsFiniteSet(F), G \subseteq F, NEW i
    PROVE  /\ Portion(G, F) \in 0 .. 100
           /\ Portion(G, F) <= Portion(G \cup {i}, F \cup {i})
<1> DEFINE f == Cardinality(F)
           g == Cardinality(G)
           h == Cardinality(F \cup {i})
           k == Cardinality(G \cup {i})
<1>1. /\ IsFiniteSet(G) /\ IsFiniteSet(F \cup {i}) /\ IsFiniteSet(G \cup {i})
      /\ f \in Nat /\ g \in Nat /\ g <= f /\ h \in Nat /\ k \in Nat
      /\ h = (IF i \in F THEN f ELSE f + 1) /\ k = (IF i \in G THEN g ELSE g + 1)
  <2>1. IsFiniteSet(G) /\ g <= f
    BY FS_Subset
  <2>2. IsFiniteSet(F \cup {i}) /\ h = IF i \in F THEN f ELSE f + 1
    BY FS_AddElement
  <2>3. IsFiniteSet(G \cup {i}) /\ k = IF i \in G THEN g ELSE g + 1
    BY <2>1, FS_AddElement
  <2>4. \A S : IsFiniteSet(S) => Cardinality(S) \in Nat
    BY FS_CardinalityType, Zenon
  <2> QED BY <2>1, <2>2, <2>3, <2>4
<1>2. F # {} => f # 0
  BY FS_EmptySet
<1>3. Portion(G, F) \in 0 .. 100
  <2>1. CASE F = {}
    BY <2>1 DEF Portion
  <2>2. CASE F # {}
    <3>1. Portion(G, F) = Rounded(100 * g, f)
      BY <2>2 DEF Portion
    <3> DEFINE p == 100 * g
    <3>2. p \in Nat /\ f \in Nat \ {0} /\ p <= 100 * f
      BY <1>1, <1>2, <2>2
    <3> HIDE DEF f, p
    <3>3. Rounded(p, f) \in 0 .. 100
      BY <3>2, RoundedPercent
    <3> QED BY <3>1, <3>3 DEF p
  <2> QED BY <2>1, <2>2
<1>4. F \cup {i} # {} /\ h # 0
  BY <1>1, FS_EmptySet
<1>5. Portion(G \cup {i}, F \cup {i}) = Rounded(100 * k, h)
  BY <1>4 DEF Portion
<1>6. CASE F = {}
  <2>1. Portion(G, F) = 0 /\ Rounded(100 * k, h) \in Nat
    <3>1. 100 * k \in Nat /\ h \in Nat \ {0}
      BY <1>1, <1>4
    <3> HIDE DEF h, k
    <3> QED BY <1>6, <3>1, RoundedIs DEF Portion
  <2> QED BY <1>3, <1>5, <2>1
<1>7. CASE F # {}
  <2>1. Portion(G, F) = Rounded(100 * g, f)
    BY <1>7 DEF Portion
  <2>2. 100 * g \in Nat /\ f \in Nat \ {0} /\ 100 * k \in Nat /\ h \in Nat \ {0}
    BY <1>1, <1>2, <1>4, <1>7
  <2>3. (100 * g) * h <= (100 * k) * f
    <3>1. i \in G => i \in F
      OBVIOUS
    <3> HIDE DEF f, g, h, k
    <3>2. CASE h = f /\ k = g
      BY <1>1, <3>2
    <3>3. CASE h = f /\ k = g + 1
      <4>1. (100 * (g + 1)) * f = (100 * g) * f + 100 * f
        BY <1>1
      <4> QED BY <1>1, <3>3, <4>1
    <3>4. CASE h = f + 1 /\ k = g + 1
      <4>1. (100 * (g + 1)) * f = (100 * g) * f + 100 * f /\ (100 * g) * (f + 1) = (100 * g) * f + 100 * g
        BY <1>1
      <4> QED BY <1>1, <3>4, <4>1
    <3> QED BY <1>1, <3>1, <3>2, <3>3, <3>4
  <2>4. Rounded(100 * g, f) <= Rounded(100 * k, h)
    <3> HIDE DEF f, g, h, k
    <3> QED BY <2>2, <2>3, RoundedGrows
  <2> QED BY <1>3, <1>5, <2>1, <2>4
<1> QED BY <1>3, <1>6, <1>7

\* The parts of the score.
LEMMA PartsAre ==
    ASSUME NEW e \in Evidence, NEW sitemap \in BOOLEAN, NEW feed \in BOOLEAN
    PROVE  /\ DiscoveryScore(sitemap, feed, e) \in 0 .. 100 /\ FetchScore(e) \in 0 .. 100
           /\ ExtractionScore(e) \in 0 .. 100 /\ RenderingScore(e) \in 0 .. 100 /\ ContentTypeScore(e) \in 0 .. 100
<1>1. DiscoveryScore(sitemap, feed, e) \in 0 .. 100
  <2> DEFINE p == 2 * (Points(sitemap, 40) + Points(feed, 30)) + Least(60, 3 * e.links)
  <2>1. p \in Nat /\ p <= 200
    BY DEF Points, Least, Evidence
  <2>2. DiscoveryScore(sitemap, feed, e) = Rounded(p, 2)
    BY DEF DiscoveryScore
  <2> HIDE DEF p
  <2>3. \A q \in Nat \ {0} : q = 2 => Rounded(p, q) \in 0 .. 100
    <3> SUFFICES ASSUME NEW q \in Nat \ {0}, q = 2 PROVE Rounded(p, q) \in 0 .. 100
      OBVIOUS
    <3>1. p <= 100 * q
      BY <2>1
    <3> QED BY <2>1, <3>1, RoundedPercent
  <2> QED BY <2>2, <2>3
<1>2. FetchScore(e) \in 0 .. 100
  BY DEF FetchScore, Least
<1>3. ExtractionScore(e) \in 0 .. 100
  BY FetchedIsFinite, ExtractionIsPortion, PortionGrows
<1>4. RenderingScore(e) \in 0 .. 100
  BY DEF RenderingScore, Evidence
<1>5. ContentTypeScore(e) \in 0 .. 100
  BY DEF ContentTypeScore, Evidence
<1> QED BY <1>1, <1>2, <1>3, <1>4, <1>5

\* A score of parts that are no smaller is no smaller.
LEMMA CapabilityGrows ==
    ASSUME NEW e \in Evidence, NEW sitemap \in BOOLEAN, NEW feed \in BOOLEAN,
           NEW f \in Evidence, NEW map \in BOOLEAN, NEW news \in BOOLEAN,
           DiscoveryScore(sitemap, feed, e) <= DiscoveryScore(map, news, f), FetchScore(e) <= FetchScore(f),
           ExtractionScore(e) <= ExtractionScore(f), RenderingScore(e) <= RenderingScore(f),
           ContentTypeScore(e) <= ContentTypeScore(f)
    PROVE  Capability(sitemap, feed, e) \in 0 .. 100 /\ Capability(sitemap, feed, e) <= Capability(map, news, f)
<1> DEFINE Total(s, n, v) == 30 * DiscoveryScore(s, n, v) + 25 * FetchScore(v) + 25 * ExtractionScore(v)
                             + 10 * RenderingScore(v) + 10 * ContentTypeScore(v)
           p == Total(sitemap, feed, e)
           u == Total(map, news, f)
<1>1. p \in Nat /\ p <= 10000 /\ u \in Nat /\ p <= u
  <2> DEFINE a1 == DiscoveryScore(sitemap, feed, e)
             a2 == FetchScore(e)
             a3 == ExtractionScore(e)
             a4 == RenderingScore(e)
             a5 == ContentTypeScore(e)
             b1 == DiscoveryScore(map, news, f)
             b2 == FetchScore(f)
             b3 == ExtractionScore(f)
             b4 == RenderingScore(f)
             b5 == ContentTypeScore(f)
  <2>1. a1 \in 0 .. 100 /\ a2 \in 0 .. 100 /\ a3 \in 0 .. 100 /\ a4 \in 0 .. 100 /\ a5 \in 0 .. 100
    BY PartsAre
  <2>2. b1 \in 0 .. 100 /\ b2 \in 0 .. 100 /\ b3 \in 0 .. 100 /\ b4 \in 0 .. 100 /\ b5 \in 0 .. 100
    BY PartsAre
  <2>3. a1 <= b1 /\ a2 <= b2 /\ a3 <= b3 /\ a4 <= b4 /\ a5 <= b5
    OBVIOUS
  <2>4. /\ p = 30 * a1 + 25 * a2 + 25 * a3 + 10 * a4 + 10 * a5
        /\ u = 30 * b1 + 25 * b2 + 25 * b3 + 10 * b4 + 10 * b5
    OBVIOUS
  <2> HIDE DEF a1, a2, a3, a4, a5, b1, b2, b3, b4, b5, p, u
  <2> QED BY <2>1, <2>2, <2>3, <2>4
<1>2. Capability(sitemap, feed, e) = Rounded(p, 100) /\ Capability(map, news, f) = Rounded(u, 100)
  BY DEF Capability
<1> HIDE DEF p, u
<1>3. \A q \in Nat \ {0} : q = 100 => Rounded(p, q) \in 0 .. 100 /\ Rounded(p, q) <= Rounded(u, q)
  <2> SUFFICES ASSUME NEW q \in Nat \ {0}, q = 100
               PROVE  Rounded(p, q) \in 0 .. 100 /\ Rounded(p, q) <= Rounded(u, q)
    OBVIOUS
  <2>0. p \in Nat /\ u \in Nat /\ p * 100 <= u * 100 /\ p <= 100 * 100
    BY <1>1
  <2>1. p <= 100 * q
    BY <2>0
  <2>2. Rounded(p, q) \in 0 .. 100
    <3>1. p \in Nat
      BY <2>0
    <3> QED BY <2>1, <3>1, RoundedPercent
  <2>3. Rounded(p, q) <= Rounded(u, q)
    <3>1. p * q = p * 100 /\ u * q = u * 100
      OBVIOUS
    <3>2. p \in Nat /\ u \in Nat /\ p * q <= u * q
      BY <2>0, <3>1
    <3> QED BY <3>2, RoundedGrows
  <2> QED BY <2>2, <2>3
<1> QED BY <1>2, <1>3

\* One thing more that is found.
More(e, f) ==
    /\ f \in Evidence
    /\ e.links <= f.links /\ (e.ok => f.ok) /\ (e.allowed => f.allowed) /\ f.type \in {e.type, "html"} /\ f.js = e.js
    /\ \/ /\ f.attempts = e.attempts
          /\ f.browser = e.browser \/ (e.browser = "failed" /\ f.browser = "same")
       \/ /\ f.browser = e.browser
          /\ \E i \in DOMAIN e.attempts : f.attempts = [e.attempts EXCEPT ![i] = "extracted"]
       \/ /\ e.browser = "same" /\ f.browser = "improved"
          /\ f.attempts = Append(e.attempts, "extracted")

LEMMA ImprovedIsMore ==
    ASSUME NEW e \in Evidence, NEW f \in Improved(e) \cup {e}
    PROVE  More(e, f)
<1>0. /\ e.attempts \in Seq({"fetched", "extracted", "lost"}) /\ e.links \in Nat
      /\ e.ok \in BOOLEAN /\ e.allowed \in BOOLEAN /\ e.js \in BOOLEAN
      /\ e.type \in {"html", "other", "none"} /\ e.browser \in {"none", "failed", "improved", "same"}
  BY DEF Evidence
<1>1. CASE f = e
  BY <1>0, <1>1 DEF More
<1>2. CASE f = [e EXCEPT !.ok = TRUE]
  <2>1. /\ f \in Evidence /\ f.ok = TRUE /\ f.links = e.links /\ f.allowed = e.allowed /\ f.type = e.type
        /\ f.js = e.js /\ f.attempts = e.attempts /\ f.browser = e.browser
    BY <1>2 DEF Evidence
  <2> QED BY <1>0, <2>1 DEF More
<1>3. CASE f = [e EXCEPT !.allowed = TRUE]
  <2>1. /\ f \in Evidence /\ f.ok = e.ok /\ f.links = e.links /\ f.allowed = TRUE /\ f.type = e.type
        /\ f.js = e.js /\ f.attempts = e.attempts /\ f.browser = e.browser
    BY <1>3 DEF Evidence
  <2> QED BY <1>0, <2>1 DEF More
<1>4. CASE f = [e EXCEPT !.type = "html"]
  BY <1>0, <1>4 DEF More, Evidence
<1>5. CASE f = [e EXCEPT !.links = @ + 1]
  BY <1>0, <1>5 DEF More, Evidence
<1>6. ASSUME NEW i \in DOMAIN e.attempts, f = [e EXCEPT !.attempts[i] = "extracted"] PROVE More(e, f)
  <2> DEFINE tried == [e.attempts EXCEPT ![i] = "extracted"]
  <2>1. tried \in Seq({"fetched", "extracted", "lost"})
    BY <1>0
  <2>2. f = [e EXCEPT !.attempts = tried]
    BY <1>6
  <2> HIDE DEF tried
  <2>3. /\ f \in Evidence /\ f.attempts = tried /\ f.ok = e.ok /\ f.links = e.links /\ f.allowed = e.allowed
        /\ f.type = e.type /\ f.js = e.js /\ f.browser = e.browser
    BY <2>1, <2>2 DEF Evidence
  <2>4. \E j \in DOMAIN e.attempts : f.attempts = [e.attempts EXCEPT ![j] = "extracted"]
    BY <2>3 DEF tried
  <2>5. e.links <= f.links /\ f.type \in {e.type, "html"} /\ f.js = e.js /\ (e.ok => f.ok) /\ (e.allowed => f.allowed)
    BY <1>0, <2>3
  <2> QED BY <2>3, <2>4, <2>5, Zenon DEF More
<1>7. CASE e.browser = "same" /\ f = [e EXCEPT !.browser = "improved", !.attempts = Append(@, "extracted")]
  <2> DEFINE tried == Append(e.attempts, "extracted")
  <2>1. tried \in Seq({"fetched", "extracted", "lost"})
    BY <1>0
  <2>2. f = [e EXCEPT !.browser = "improved", !.attempts = tried]
    BY <1>7
  <2>3. f.attempts = Append(e.attempts, "extracted")
    BY <2>2 DEF Evidence
  <2> HIDE DEF tried
  <2>4. /\ f \in Evidence /\ f.ok = e.ok /\ f.links = e.links /\ f.allowed = e.allowed /\ f.type = e.type
        /\ f.js = e.js /\ f.browser = "improved"
    BY <2>1, <2>2 DEF Evidence
  <2> QED BY <1>0, <1>7, <2>3, <2>4 DEF More
<1>8. CASE e.browser = "failed" /\ f = [e EXCEPT !.browser = "same"]
  BY <1>0, <1>8 DEF More, Evidence
<1> QED BY <1>1, <1>2, <1>3, <1>4, <1>5, <1>6, <1>7, <1>8 DEF Improved

LEMMA MoreIsNoLess ==
    ASSUME NEW e \in Evidence, NEW f, More(e, f), NEW sitemap \in BOOLEAN, NEW feed \in BOOLEAN,
           NEW map \in BOOLEAN, NEW news \in BOOLEAN, sitemap => map, feed => news
    PROVE  Capability(sitemap, feed, e) <= Capability(map, news, f)
<1>0. /\ e.attempts \in Seq({"fetched", "extracted", "lost"}) /\ f.attempts \in Seq({"fetched", "extracted", "lost"})
      /\ e.links \in Nat /\ f.links \in Nat /\ e.links <= f.links /\ f \in Evidence
  BY DEF Evidence, More
<1>1. DiscoveryScore(sitemap, feed, e) <= DiscoveryScore(map, news, f)
  <2> DEFINE p == 2 * (Points(sitemap, 40) + Points(feed, 30)) + Least(60, 3 * e.links)
             u == 2 * (Points(map, 40) + Points(news, 30)) + Least(60, 3 * f.links)
  <2>0. /\ Points(sitemap, 40) \in Nat /\ Points(map, 40) \in Nat /\ Points(sitemap, 40) <= Points(map, 40)
        /\ Points(feed, 30) \in Nat /\ Points(news, 30) \in Nat /\ Points(feed, 30) <= Points(news, 30)
    BY SMT DEF Points
  <2>a. /\ Least(60, 3 * e.links) \in Nat /\ Least(60, 3 * f.links) \in Nat
        /\ Least(60, 3 * e.links) <= Least(60, 3 * f.links)
    BY <1>0, SMT DEF Least
  <2>1. p \in Nat /\ u \in Nat /\ p <= u
    BY <2>0, <2>a, SMT
  <2>2. DiscoveryScore(sitemap, feed, e) = Rounded(p, 2) /\ DiscoveryScore(map, news, f) = Rounded(u, 2)
    BY DEF DiscoveryScore
  <2> HIDE DEF p, u
  <2>3. \A q \in Nat \ {0} : q = 2 => Rounded(p, q) <= Rounded(u, q)
    <3> SUFFICES ASSUME NEW q \in Nat \ {0}, q = 2 PROVE Rounded(p, q) <= Rounded(u, q)
      OBVIOUS
    <3>1. p * q <= u * q
      BY <2>1
    <3> QED BY <2>1, <3>1, RoundedGrows
  <2> QED BY <2>2, <2>3
<1>2. FetchScore(e) <= FetchScore(f)
  BY DEF FetchScore, Least, More, Evidence
<1>3. ContentTypeScore(e) <= ContentTypeScore(f)
  BY DEF ContentTypeScore, More, Evidence
<1>4. ExtractionScore(e) <= ExtractionScore(f)
  <2>0. DOMAIN e.attempts = 1 .. Len(e.attempts) /\ Len(e.attempts) \in Nat
    BY <1>0
  <2>1. CASE f.attempts = e.attempts
    <3>1. Good(f) = Good(e) /\ Fetched(f) = Fetched(e) /\ Portion(Good(e), Fetched(e)) \in 0 .. 100
      BY <2>1, FetchedIsFinite, PortionGrows DEF Good, Fetched
    <3> QED BY <3>1, ExtractionIsPortion
  <2>2. ASSUME NEW i, DOMAIN f.attempts = DOMAIN e.attempts \cup {i}, f.attempts[i] = "extracted",
               \A j \in DOMAIN e.attempts \ {i} : f.attempts[j] = e.attempts[j]
        PROVE  ExtractionScore(e) <= ExtractionScore(f)
    <3>1. Fetched(f) = Fetched(e) \cup {i} /\ Good(f) = Good(e) \cup {i}
      BY <2>2 DEF Fetched, Good
    <3>2. Portion(Good(e), Fetched(e)) <= Portion(Good(e) \cup {i}, Fetched(e) \cup {i})
      BY FetchedIsFinite, PortionGrows
    <3> QED BY <3>1, <3>2, ExtractionIsPortion
  <2>3. ASSUME NEW i \in DOMAIN e.attempts, f.attempts = [e.attempts EXCEPT ![i] = "extracted"]
        PROVE  ExtractionScore(e) <= ExtractionScore(f)
    <3>1. /\ DOMAIN f.attempts = DOMAIN e.attempts \cup {i} /\ f.attempts[i] = "extracted"
          /\ \A j \in DOMAIN e.attempts \ {i} : f.attempts[j] = e.attempts[j]
      BY <1>0, <2>0, <2>3
    <3> QED BY <2>2, <3>1
  <2>4. CASE f.attempts = Append(e.attempts, "extracted")
    <3> DEFINE i == Len(e.attempts) + 1
    <3>1. /\ Len(f.attempts) = i /\ f.attempts[i] = "extracted"
          /\ \A j \in 1 .. Len(e.attempts) : f.attempts[j] = e.attempts[j]
      BY <1>0, <2>4, AppendProperties
    <3>2. DOMAIN f.attempts = DOMAIN e.attempts \cup {i}
      <4>1. Len(e.attempts) \in Nat /\ DOMAIN e.attempts = 1 .. Len(e.attempts) /\ DOMAIN f.attempts = 1 .. Len(f.attempts)
        BY <1>0
      <4> QED BY <3>1, <4>1
    <3> HIDE DEF i
    <3> QED BY <2>0, <2>2, <3>1, <3>2
  <2> QED BY <2>1, <2>3, <2>4 DEF More
<1>5. RenderingScore(e) <= RenderingScore(f)
  <2> DEFINE Plain(v) == ~v.js /\ v.attempts # <<>> /\ v.attempts[1] = "extracted"
  <2>0. f.js = e.js /\ e.browser \in {"none", "failed", "improved", "same"} /\ f.browser \in {"none", "failed", "improved", "same"}
    BY <1>0 DEF More, Evidence
  <2>1. CASE f.attempts = e.attempts /\ (f.browser = e.browser \/ (e.browser = "failed" /\ f.browser = "same"))
    BY <2>0, <2>1 DEF RenderingScore
  <2>2. CASE /\ f.browser = e.browser
             /\ \E i \in DOMAIN e.attempts : f.attempts = [e.attempts EXCEPT ![i] = "extracted"]
    <3>1. Plain(e) => Plain(f)
      BY <1>0, <2>0, <2>2
    <3> QED BY <2>0, <2>2, <3>1 DEF RenderingScore
  <2>3. CASE e.browser = "same" /\ f.browser = "improved" /\ f.attempts = Append(e.attempts, "extracted")
    <3>1. Plain(e) => Plain(f)
      BY <1>0, <2>0, <2>3
    <3> QED BY <2>0, <2>3, <3>1 DEF RenderingScore
  <2> QED BY <2>1, <2>2, <2>3 DEF More
<1> QED BY <1>0, <1>1, <1>2, <1>3, <1>4, <1>5, CapabilityGrows

-----------------------------------------------------------------------------
(***************************************************************************)
(* A report tells what the checks found, and a preflight that is over does *)
(* nothing more: the score can be compared with what more would have made. *)
(***************************************************************************)

PreflightInv ==
    /\ hops \in 0 .. MaxHops /\ home \in Homepages \cup {NoHomepage} /\ evidence \in Evidence
    /\ report \in [status : {"none", "completed", "failed"}, score : 0 .. 100]
    /\ report.status = "completed" =>
         /\ stage = "reported"
         /\ report.score = Capability(outcome.sitemap = "available", outcome.feed = "available", evidence)

\* A step of the discovery or of a preflight, and what it does to the latter.
LEMMA PreflightActs ==
    ASSUME [Next]_vars
    PROVE  \/ UNCHANGED askVars
           \/ UNCHANGED preflightVars /\ stage # "reported"
           \/ Assess
<1>1. CASE Discover
  <2>1. stage # "reported"
    BY <1>1 DEF Discover, DiscoveryStep, DiscoveryFault, ReadRobots, RobotsFails, AfterRobots, CheckSitemap, OpenFile,
                MayOpen, Return, CheckFeeds, ReadEntries, EntriesFail, Entries, Record, RecordFails, Recorded,
                CandidateFails, FileFails
  <2> QED BY <1>1, <2>1 DEF Discover
<1>2. CASE StartCrawl
  BY <1>2 DEF StartCrawl
<1>3. ASSUME NEW t \in Tasks, TaskStep(t) PROVE UNCHANGED askVars
  BY <1>3 DEF TaskStep, StartPage, FetchPage, LeadsNowhere, Follow, Enqueue, GiveUp, Break, Leave
<1>4. CASE UNCHANGED vars
  BY <1>4 DEF vars
<1> QED BY <1>1, <1>2, <1>3, <1>4 DEF Next

LEMMA EvidenceIs ==
    ASSUME NEW e \in Evidence
    PROVE  /\ \A ok \in BOOLEAN, type \in {"html", "other", "none"}, links \in Nat, js \in BOOLEAN :
                [e EXCEPT !.ok = ok, !.type = type, !.links = links, !.js = js] \in Evidence
           /\ \A allowed \in BOOLEAN : [e EXCEPT !.allowed = allowed] \in Evidence
           /\ \A what \in {"fetched", "extracted", "lost"} :
                [e EXCEPT !.attempts = Append(@, what)] \in Evidence
           /\ [e EXCEPT !.browser = "same"] \in Evidence /\ [e EXCEPT !.browser = "failed"] \in Evidence
           /\ [e EXCEPT !.browser = "improved", !.attempts = Append(@, "extracted")] \in Evidence
<1>1. e.attempts \in Seq({"fetched", "extracted", "lost"})
  BY DEF Evidence
<1>2. \A what \in {"fetched", "extracted", "lost"} : Append(e.attempts, what) \in Seq({"fetched", "extracted", "lost"})
  BY <1>1
<1> QED BY <1>2 DEF Evidence

LEMMA ScoreIsPercent ==
    ASSUME NEW e \in Evidence, NEW sitemap \in BOOLEAN, NEW feed \in BOOLEAN
    PROVE  Capability(sitemap, feed, e) \in 0 .. 100
<1>1. /\ DiscoveryScore(sitemap, feed, e) \in 0 .. 100 /\ FetchScore(e) \in 0 .. 100
      /\ ExtractionScore(e) \in 0 .. 100 /\ RenderingScore(e) \in 0 .. 100 /\ ContentTypeScore(e) \in 0 .. 100
  BY PartsAre
<1>2. \A p \in 0 .. 100 : p <= p
  OBVIOUS
<1> QED BY <1>1, <1>2, CapabilityGrows

LEMMA PreflightInvInit == Init => PreflightInv
<1>1. MaxHops \in Nat
  BY PreflightAssumption
<1>2. <<>> \in Seq({"fetched", "extracted", "lost"})
  OBVIOUS
<1>3. NoEvidence \in Evidence /\ NoReport \in [status : {"none", "completed", "failed"}, score : 0 .. 100]
      /\ NoReport.status = "none"
  BY <1>2 DEF NoEvidence, Evidence, NoReport
<1> QED BY <1>1, <1>3 DEF Init, PreflightInit, PreflightInv

LEMMA PreflightInvStep ==
    ASSUME PreflightInv, [Next]_vars
    PROVE  PreflightInv'
<1> USE DEF PreflightInv
<1>0. MaxHops \in Nat
  BY PreflightAssumption
<1>1. CASE UNCHANGED askVars
  BY <1>1 DEF askVars, discoveryVars, preflightVars
<1>2. CASE UNCHANGED preflightVars /\ stage # "reported"
  BY <1>2 DEF preflightVars
<1>3. CASE Assess
  <2>0. stage # "reported" /\ report.status # "completed"
    BY <1>3 DEF Assess, PreflightStep, PreflightFault, Resolved, Redirect, Connected, Checked, Sampled, SamplesDone,
                Rendered, Report, NotResolved, Unreachable, Raised, CheckFails, RenderingFails, At, ReadRobots,
                RobotsFails, AfterRobots, CheckSitemap, CheckFeeds, CandidateFails
  <2>1. CASE Fail /\ UNCHANGED <<hops, home, evidence>>
    <3>1. report' \in [status : {"none", "completed", "failed"}, score : 0 .. 100] /\ report'.status = "failed"
      BY <2>1 DEF Fail
    <3> QED BY <2>1, <3>1
  <2>2. CASE UNCHANGED preflightVars
    BY <2>0, <2>2 DEF preflightVars
  <2>3. CASE Redirect
    <3>1. CASE hops < MaxHops /\ hops' = hops + 1 /\ UNCHANGED <<discoveryVars, report>> /\ UNCHANGED <<home, evidence>>
      BY <1>0, <2>0, <3>1
    <3> QED BY <2>1, <2>3, <3>1 DEF Redirect
  <2>4. CASE UNCHANGED <<hops, report>> /\ home' \in Homepages \cup {NoHomepage} /\ evidence' \in Evidence
    BY <2>0, <2>4
  <2>5. CASE Connected
    <3>1. PICK ok \in BOOLEAN : /\ home' \in Homepages /\ UNCHANGED <<hops, report>>
            /\ evidence' = [evidence EXCEPT !.ok = ok, !.type = home'.type, !.links = home'.links, !.js = home'.js]
      BY <2>5 DEF Connected
    <3>2. home'.type \in {"html", "other", "none"} /\ home'.links \in Nat /\ home'.js \in BOOLEAN
      BY <3>1, PreflightAssumption
    <3>3. evidence' \in Evidence
      BY <3>1, <3>2, EvidenceIs
    <3> QED BY <2>4, <3>1, <3>3
  <2>6. CASE Checked
    <3>1. CASE UNCHANGED evidence
      BY <2>4, <2>6, <3>1 DEF Checked
    <3>2. CASE \E allowed \in BOOLEAN : evidence' = [evidence EXCEPT !.allowed = allowed]
      <4>1. evidence' \in Evidence
        BY <3>2, EvidenceIs
      <4> QED BY <2>4, <2>6, <4>1 DEF Checked
    <3> QED BY <2>6, <3>1, <3>2 DEF Checked
  <2>7. CASE Sampled
    <3>1. \E what \in {"fetched", "extracted", "lost"} : evidence' = [evidence EXCEPT !.attempts = Append(@, what)]
      BY <2>7 DEF Sampled, Tried
    <3>2. evidence' \in Evidence
      BY <3>1, EvidenceIs
    <3> QED BY <2>4, <2>7, <3>2 DEF Sampled
  <2>8. CASE Rendered \/ RenderingFails
    <3>1. evidence' \in Evidence
      BY <2>8, EvidenceIs DEF Rendered, RenderingFails
    <3> QED BY <2>4, <2>8, <3>1 DEF Rendered, RenderingFails
  <2>9. CASE Report
    <3> DEFINE score == Capability(outcome.sitemap = "available", outcome.feed = "available", evidence)
    <3>1. score \in 0 .. 100
      BY ScoreIsPercent
    <3>2. stage' = "reported" /\ outcome' = outcome /\ evidence' = evidence /\ hops' = hops /\ home' = home
          /\ report' = [status |-> "completed", score |-> score]
      BY <2>9 DEF Report, Go
    <3>3. report' \in [status : {"none", "completed", "failed"}, score : 0 .. 100] /\ report'.score = score
      BY <3>1, <3>2
    <3> QED BY <3>2, <3>3
  <2> QED BY <1>3, <2>1, <2>2, <2>3, <2>5, <2>6, <2>7, <2>8, <2>9
        DEF Assess, PreflightStep, PreflightFault, Resolved, SamplesDone, NotResolved, Unreachable, Raised, CheckFails
<1> QED BY <1>1, <1>2, <1>3, PreflightActs

LEMMA PreflightAlways == Spec => []PreflightInv
BY PreflightInvInit, PreflightInvStep, PTL DEF Spec

\* scoring.py:83.  Whatever a preflight found and whatever it might have found
\* more, its score would be no lower: for every homepage, every number of
\* links and every number of sample pages.
THEOREM MoreIsWorthMore == Spec => []MoreScoresNoLess
<1>1. PreflightInv => MoreScoresNoLess
  <2> SUFFICES ASSUME PreflightInv, report.status = "completed",
                      NEW sitemap \in BOOLEAN, NEW feed \in BOOLEAN, NEW e \in Improved(evidence) \cup {evidence},
                      outcome.sitemap = "available" => sitemap, outcome.feed = "available" => feed
               PROVE  report.score <= Capability(sitemap, feed, e)
    BY DEF MoreScoresNoLess
  <2>1. evidence \in Evidence
        /\ report.score = Capability(outcome.sitemap = "available", outcome.feed = "available", evidence)
    BY DEF PreflightInv
  <2>2. More(evidence, e)
    BY <2>1, ImprovedIsMore
  <2>3. \A map, news \in BOOLEAN : (map => sitemap) /\ (news => feed)
          => Capability(map, news, evidence) <= Capability(sitemap, feed, e)
    BY <2>1, <2>2, MoreIsNoLess
  <2> QED BY <2>1, <2>3
<1> QED BY <1>1, PreflightAlways, PTL

-----------------------------------------------------------------------------
(***************************************************************************)
(* Type correctness of the reading: only URLs are enqueued, and a task has *)
(* a page exactly while it is not idle.                                    *)
(***************************************************************************)

ReadingInv ==
    /\ pending \subseteq known /\ NoPage \notin known
    /\ page \in [Tasks -> known \cup {NoPage}] /\ adding \in [Tasks -> BOOLEAN]
    /\ \A t \in Tasks : (page[t] = NoPage) <=> (at[t] = "idle")
    /\ \A t \in Tasks : adding[t] => at[t] = "fetched" /\ NextOf(t) # NoPage
    /\ paginated \in Nat /\ troubles \in Nat /\ broken \in BOOLEAN

\* A fetch that goes on leaves the other tasks alone and does not end the task.
LEMMA FetchGoesOn ==
    ASSUME FetchTypeOK, NEW t \in Tasks, FetchStep(t) \/ FetchFault(t)
    PROVE  at[t] \in Fetches /\ at' \in [Tasks -> {"idle"} \cup Fetches \cup Results]
           /\ at'[t] # "idle" /\ \A s \in Tasks \ {t} : at'[s] = at[s]
<1>1. at \in [Tasks -> {"idle"} \cup Fetches \cup Results]
  BY DEF FetchTypeOK
<1>2. \/ UNCHANGED at
      \/ \E phase \in Fetches \cup Results : at' = [at EXCEPT ![t] = phase]
  BY DEF FetchStep, FetchFault, Redirected, AskedToWait, Resume, Answered, RequestFails, Unresolved, Acquire,
         LaunchFails, Launched, Loaded, ScrollEnds, Scroll, RenderFails, Closed, CloseFails, To, Fetches, InBrowser,
         Results
<1>3. at[t] \in Fetches
  BY DEF FetchStep, FetchFault, Redirected, AskedToWait, Resume, Answered, RequestFails, Unresolved, Acquire,
         LaunchFails, Launched, Loaded, ScrollEnds, Scroll, RenderFails, Closed, CloseFails, Ask, Fetches, InBrowser
<1>4. "idle" \notin Fetches \cup Results
  BY DEF Fetches, InBrowser, Results
<1> QED BY <1>1, <1>2, <1>3, <1>4

LEMMA SeedsAreUrls ==
    ASSUME DiscoveryInv
    PROVE  NoPage \notin Seeds
<1> DEFINE urls == outcome.pages \o outcome.entries
<1>1. outcome.pages \in Seq(SiteUrls) /\ outcome.entries \in Seq(SiteUrls) /\ site \in Sites
  BY DEF DiscoveryInv
<1>2. urls \in Seq(SiteUrls)
  BY <1>1
<1>3. NoPage \notin SiteUrls
  BY <1>1, ReadingAssumption DEF SiteUrls, Files
<1> HIDE DEF urls
<1>4. \A i \in DOMAIN urls : urls[i] \in SiteUrls
  BY <1>2
<1> QED BY <1>3, <1>4 DEF Seeds, urls

LEMMA ReadingInvInit == Init => ReadingInv
<1>1. MaxTroubles \in Nat
  BY ReadingAssumption
<1>2. ASSUME Init PROVE ReadingInv
  <2>1. /\ known = {} /\ pending = {} /\ page = [t \in Tasks |-> NoPage] /\ adding = [t \in Tasks |-> FALSE]
        /\ paginated = 0 /\ broken = FALSE /\ troubles = MaxTroubles /\ at = [t \in Tasks |-> "idle"]
    BY <1>2 DEF Init, FetchInit
  <2>2. \A t \in Tasks : page[t] = NoPage /\ at[t] = "idle" /\ adding[t] = FALSE
    BY <2>1
  <2> QED BY <1>1, <2>1, <2>2 DEF ReadingInv
<1> QED BY <1>2

LEMMA ReadingInvStep ==
    ASSUME ReadingInv, DiscoveryInv, FetchTypeOK, [Next]_vars
    PROVE  ReadingInv'
<1> USE DEF ReadingInv
<1>0. /\ at \in [Tasks -> {"idle"} \cup Fetches \cup Results]
      /\ "idle" \notin Fetches \cup Results /\ "fetched" \notin Fetches
  BY DEF FetchTypeOK, Fetches, InBrowser, Results
<1>1. site' = site
  BY DiscoveryInvStep, DiscoveryActs
     DEF DiscoveryAct, AfterRobots, NoUse, SitemapIs, SitemapFound, Lose, Opens, OpenFile, Return, FeedIs, Entries,
         Recorded, Go, discoveryVars
<1>2. ASSUME NEW t \in Tasks, page'[t] = page[t] PROVE NextOf(t)' = NextOf(t)
  BY <1>1, <1>2, Zenon DEF NextOf
<1>3. CASE UNCHANGED <<fetchVars, readingVars>> /\ troubles' \in Nat
  BY <1>2, <1>3 DEF fetchVars, readingVars
<1>4. Trouble => troubles' \in Nat
  BY DEF Trouble
<1>5. CASE Discover \/ Assess
  BY <1>3, <1>4, <1>5 DEF Discover, Assess
<1>6. CASE UNCHANGED vars
  BY <1>3, <1>6 DEF vars
<1>7. CASE StartCrawl
  <2>1. NoPage \notin {Home} \cup Seeds
    BY SeedsAreUrls, ReadingAssumption
  <2>2. known' = {Home} \cup Seeds /\ pending' = known' /\ known = {} /\ UNCHANGED <<at, page, adding, paginated, broken, troubles>>
    BY <1>7 DEF StartCrawl, fetchVars
  <2> QED BY <1>2, <2>1, <2>2
<1>8. ASSUME NEW t \in Tasks, TaskStep(t) PROVE ReadingInv'
  <2>1. CASE StartPage(t)
    <3>1. PICK u \in pending : pending' = pending \ {u} /\ page' = [page EXCEPT ![t] = u]
      BY <2>1 DEF StartPage
    <3>2. PICK phase \in {"requesting", "waiting"} : at[t] = "idle" /\ at' = [at EXCEPT ![t] = phase]
      BY <2>1 DEF StartPage, Begin, To
    <3>3. UNCHANGED <<known, adding, paginated, broken, troubles>>
      BY <2>1 DEF StartPage
    <3>4. page' \in [Tasks -> known \cup {NoPage}] /\ \A s \in Tasks : (page'[s] = NoPage) <=> (at'[s] = "idle")
      BY <1>0, <3>1, <3>2
    <3>5. ASSUME NEW s \in Tasks, adding[s] PROVE at'[s] = "fetched" /\ NextOf(s)' # NoPage
      <4>1. s # t
        BY <3>2, <3>5
      <4>2. at'[s] = at[s] /\ page'[s] = page[s]
        BY <1>0, <3>1, <3>2, <4>1
      <4> QED BY <1>2, <3>5, <4>2
    <3> QED BY <3>1, <3>3, <3>4, <3>5
  <2>2. CASE FetchPage(t)
    <3>1. at[t] \in Fetches /\ at'[t] # "idle" /\ \A s \in Tasks \ {t} : at'[s] = at[s]
      BY <2>2, FetchGoesOn DEF FetchPage
    <3>2. UNCHANGED <<known, pending, page, adding, paginated, broken>> /\ troubles' \in Nat
      BY <2>2 DEF FetchPage, readingVars, Trouble
    <3>3. ~adding[t] /\ page[t] # NoPage
      BY <1>0, <3>1
    <3>4. ASSUME NEW s \in Tasks
          PROVE  ((page'[s] = NoPage) <=> (at'[s] = "idle")) /\ (adding'[s] => at'[s] = "fetched" /\ NextOf(s)' # NoPage)
      <4>1. CASE s = t
        BY <3>1, <3>2, <3>3, <4>1
      <4>2. CASE s # t
        BY <1>2, <3>1, <3>2, <4>2
      <4> QED BY <4>1, <4>2
    <3> QED BY <3>2, <3>4
  <2>3. CASE Follow(t)
    <3>1. at[t] = "fetched" /\ NextOf(t) # NoPage /\ adding' = [adding EXCEPT ![t] = TRUE]
          /\ UNCHANGED <<at, known, pending, page, paginated, broken, troubles>>
      BY <2>3 DEF Follow, MayFollow, fetchVars
    <3>2. \A s \in Tasks : NextOf(s)' = NextOf(s)
      BY <1>2, <3>1
    <3> HIDE DEF NextOf
    <3> QED BY <3>1, <3>2
  <2>4. ASSUME Finish(t), page' = [page EXCEPT ![t] = NoPage], known \subseteq known', NoPage \notin known',
               pending' \subseteq known', adding' \in [Tasks -> BOOLEAN], adding'[t] = FALSE,
               \A s \in Tasks \ {t} : adding'[s] = adding[s],
               paginated' \in Nat, broken' \in BOOLEAN, UNCHANGED troubles
        PROVE  ReadingInv'
    <3>1. at' = [at EXCEPT ![t] = "idle"]
      BY <2>4 DEF Finish, To
    <3>2. page' \in [Tasks -> known' \cup {NoPage}] /\ \A s \in Tasks : (page'[s] = NoPage) <=> (at'[s] = "idle")
      BY <1>0, <2>4, <3>1
    <3>3. ASSUME NEW s \in Tasks, adding'[s] PROVE at'[s] = "fetched" /\ NextOf(s)' # NoPage
      <4>1. s # t /\ adding[s]
        BY <2>4, <3>3
      <4>2. at'[s] = at[s] /\ page'[s] = page[s]
        BY <1>0, <2>4, <3>1, <4>1
      <4> QED BY <1>2, <4>1, <4>2
    <3> QED BY <2>4, <3>2, <3>3
  <2>5. CASE Enqueue(t)
    <3> DEFINE v == NextOf(t)
    <3>1. /\ adding[t] /\ adding' = [adding EXCEPT ![t] = FALSE] /\ Finish(t)
          /\ page' = [page EXCEPT ![t] = NoPage] /\ known' = known \cup {v} /\ pending' = pending \cup ({v} \ known)
          /\ paginated' = paginated + 1 /\ UNCHANGED <<broken, troubles>>
      BY <2>5 DEF Enqueue
    <3>2. v # NoPage
      BY <3>1
    <3> HIDE DEF v
    <3>3. adding' \in [Tasks -> BOOLEAN] /\ adding'[t] = FALSE /\ \A s \in Tasks \ {t} : adding'[s] = adding[s]
      BY <3>1
    <3>4. NoPage \notin known' /\ known \subseteq known' /\ pending' \subseteq known' /\ paginated' \in Nat
      BY <3>1, <3>2
    <3> QED BY <2>4, <3>1, <3>3, <3>4
  <2>6. CASE LeadsNowhere(t) \/ GiveUp(t) \/ Break(t)
    <3>1. /\ Finish(t) /\ page' = [page EXCEPT ![t] = NoPage] /\ UNCHANGED <<adding, paginated, troubles, known, pending>>
          /\ at[t] # "fetched" \/ ~adding[t]
          /\ broken' \in BOOLEAN
      BY <2>6 DEF LeadsNowhere, GiveUp, Break, Leave
    <3>2. ~adding[t]
      BY <3>1
    <3> QED BY <2>4, <3>1, <3>2
  <2> QED BY <1>8, <2>1, <2>2, <2>3, <2>5, <2>6 DEF TaskStep
<1> QED BY <1>5, <1>6, <1>7, <1>8 DEF Next

ReadInv == FetchInv /\ DiscoveryInv /\ PreflightInv /\ ReadingInv

LEMMA ReadInvHolds == Spec => []ReadInv
<1>1. Init => ReadInv
  BY FetchInvInit, DiscoveryInvInit, PreflightInvInit, ReadingInvInit DEF ReadInv
<1>2. ReadInv /\ [Next]_vars => ReadInv'
  <2> SUFFICES ASSUME ReadInv, [Next]_vars PROVE ReadInv'
    OBVIOUS
  <2>1. FetchInv /\ DiscoveryInv /\ PreflightInv /\ ReadingInv /\ FetchTypeOK
    BY DEF ReadInv, FetchInv
  <2> QED BY <2>1, FetchInvStep, DiscoveryInvStep, PreflightInvStep, ReadingInvStep DEF ReadInv
<1> QED BY <1>1, <1>2, PTL DEF Spec

\* TypeOK.  Whatever a site lists and shows, the discovery, the preflight and
\* the page tasks keep to their types, and no task works on a page that was
\* never enqueued.
THEOREM TypeCorrect == Spec => []TypeOK
<1>1. ReadInv => TypeOK
  <2> SUFFICES ASSUME ReadInv PROVE TypeOK
    OBVIOUS
  <2>1. FetchTypeOK
    BY DEF ReadInv, FetchInv
  <2>2. DiscoveryTypeOK
    <3>1. Statuses = Statuses /\ stage \in Stages /\ site \in Sites /\ purpose \in {"crawl", "preflight"}
          /\ seen \subseteq Statuses /\ Len(walk) <= MaxDepth + 2 /\ files \in Nat /\ truncated \in BOOLEAN
      BY DEF ReadInv, DiscoveryInv, WalkInv
    <3>2. {outcome.sitemap, outcome.feed, row.sitemap, row.feed} \subseteq Statuses /\ {row.pages, row.entries} \subseteq Nat
      BY DEF ReadInv, DiscoveryInv
    <3> QED BY <3>1, <3>2 DEF DiscoveryTypeOK, Stages
  <2>3. PreflightTypeOK
    <3>1. evidence \in Evidence /\ report \in [status : {"none", "completed", "failed"}, score : 0 .. 100]
          /\ hops \in 0 .. MaxHops /\ home \in Homepages \cup {NoHomepage}
      BY DEF ReadInv, PreflightInv
    <3>2. \A i \in DOMAIN evidence.attempts : evidence.attempts[i] \in {"fetched", "extracted", "lost"}
      <4>1. evidence.attempts \in Seq({"fetched", "extracted", "lost"})
        BY <3>1 DEF Evidence
      <4> QED BY <4>1
    <3>3. {evidence.ok, evidence.allowed, evidence.js} \subseteq BOOLEAN
      BY <3>1 DEF Evidence
    <3> QED BY <3>1, <3>2, <3>3 DEF PreflightTypeOK
  <2>4. /\ pending \subseteq known /\ \A t \in Tasks : (page[t] = NoPage) <=> (at[t] = "idle")
        /\ adding \in [Tasks -> BOOLEAN] /\ {paginated, troubles} \subseteq Nat /\ broken \in BOOLEAN
    BY DEF ReadInv, ReadingInv
  <2> QED BY <2>1, <2>2, <2>3, <2>4 DEF TypeOK
<1> QED BY <1>1, ReadInvHolds, PTL

-----------------------------------------------------------------------------
(***************************************************************************)
(* Bounds of the walk.  Every file still to be read stands for itself and  *)
(* for all it may lead to; a call gets further URLs only while it has      *)
(* fewer than the limit, and those of one file or one call at a time.      *)
(***************************************************************************)

\* What the call at a level has still to read, and has found.
Left(w, i)  == IF i <= Len(w) THEN Len(w[i].rest) ELSE 0
Found(w, i) == IF i <= Len(w) THEN Len(w[i].urls) ELSE 0

Limit == 2 * (MaxTotal - 1) + MaxPerFile

\* Files read, and what the files left at each level may lead to.
Weight(read, first, second, third) ==
    read + first * (1 + MaxNested + MaxNested * MaxNested) + second * (1 + MaxNested) + third

FilesInv ==
    Weight(files, Left(walk, 1), Left(walk, 2), Left(walk, 3)) <= 1 + MaxNested + MaxNested * MaxNested

FoundInv ==
    /\ Len(outcome.pages) <= Limit
    /\ Found(walk, 1) <= Limit /\ Found(walk, 2) <= Limit /\ Found(walk, 3) <= MaxTotal - 1 + MaxPerFile /\ Found(walk, 4) = 0
    /\ \A i \in 1 .. 4 : i < Len(walk) => Found(walk, i) < MaxTotal

\* The outermost call has one file to read.
OutermostInv ==
    /\ Left(walk, 1) = 0 \/ (Left(walk, 1) = 1 /\ Len(walk) = 1)
    /\ Left(walk, 1) = 1 \/ Len(walk) > 1 => Found(walk, 1) = 0

BoundInv == FilesInv /\ FoundInv /\ OutermostInv

LEMMA CountsAre ==
    ASSUME DiscoveryInv
    PROVE  \A i \in Nat \ {0} : Left(walk, i) \in Nat /\ Found(walk, i) \in Nat
<1>1. walk \in Seq(Calls)
  BY DEF DiscoveryInv, WalkInv
<1> SUFFICES ASSUME NEW i \in Nat \ {0} PROVE Left(walk, i) \in Nat /\ Found(walk, i) \in Nat
  OBVIOUS
<1>2. CASE i <= Len(walk)
  <2>1. walk[i] \in Calls
    <3> HIDE DEF Calls
    <3> QED BY <1>1, <1>2
  <2>2. walk[i].rest \in Seq(Files) /\ walk[i].urls \in Seq(SiteUrls)
    BY <2>1 DEF Calls
  <2> QED BY <1>2, <2>2 DEF Left, Found
<1>3. CASE ~(i <= Len(walk))
  BY <1>3 DEF Left, Found
<1> QED BY <1>2, <1>3

\* What the steps of the walk do to these numbers.
LEMMA WalkCounts ==
    ASSUME DiscoveryInv, walk # <<>>, Opens \/ (MayOpen /\ Lose(Head(Top.rest))) \/ Return,
           NEW n \in Nat, n = Len(walk)
    PROVE  /\ n # 0 /\ n <= MaxDepth + 2
           /\ \A j \in Nat \ {0} : j < n - 1 => Left(walk', j) = Left(walk, j) /\ Found(walk', j) = Found(walk, j)
           /\ \/ /\ n <= MaxDepth + 1 /\ files' = files + 1 /\ Left(walk, n) >= 1 /\ Found(walk, n) < MaxTotal
                 /\ Left(walk', n) = Left(walk, n) - 1 /\ outcome' = outcome
                 /\ n > 1 => Left(walk', n - 1) = Left(walk, n - 1) /\ Found(walk', n - 1) = Found(walk, n - 1)
                 /\ \/ /\ Len(walk') = n + 1 /\ Found(walk', n) = Found(walk, n)
                       /\ Left(walk', n + 1) \in 0 .. MaxNested /\ Found(walk', n + 1) = 0
                    \/ /\ Len(walk') = n /\ \E k \in 0 .. MaxPerFile : Found(walk', n) = Found(walk, n) + k
              \/ /\ files' = files /\ Left(walk, n) >= 1 /\ Found(walk, n) < MaxTotal
                 /\ Left(walk', n) = Left(walk, n) - 1 /\ Found(walk', n) = Found(walk, n) /\ Len(walk') = n /\ outcome' = outcome
                 /\ n > 1 => Left(walk', n - 1) = Left(walk, n - 1) /\ Found(walk', n - 1) = Found(walk, n - 1)
              \/ /\ files' = files /\ n > 1 /\ Len(walk') = n - 1 /\ outcome' = outcome
                 /\ Left(walk', n - 1) = Left(walk, n - 1) /\ Found(walk', n - 1) = Found(walk, n - 1) + Found(walk, n)
              \/ /\ files' = files /\ n = 1 /\ walk' = <<>> /\ Len(outcome'.pages) = Found(walk, 1)
<1>0. /\ site \in Sites /\ walk \in Seq(Calls) /\ n <= MaxDepth + 2
      /\ outcome \in [sitemap : Statuses, feed : Statuses, pages : Seq(SiteUrls), entries : Seq(SiteUrls)]
  BY DEF DiscoveryInv, WalkInv
<1>1. /\ n \in Nat \ {0} /\ Top.rest \in Seq(Files) /\ Top.urls \in Seq(SiteUrls)
      /\ Top.rest # <<>> => Len(Tail(Top.rest)) = Len(Top.rest) - 1 /\ Head(Top.rest) \in Files
  BY <1>0, TopIs
<1>2. Left(walk, n) = Len(Top.rest) /\ Found(walk, n) = Len(Top.urls) /\ Left(walk, n) \in Nat /\ Found(walk, n) \in Nat
  BY <1>1 DEF Left, Found, Top
<1>3. /\ \A j \in Nat \ {0} : Left(walk, j) = IF j <= n THEN Len(walk[j].rest) ELSE 0
      /\ \A j \in Nat \ {0} : Found(walk, j) = IF j <= n THEN Len(walk[j].urls) ELSE 0
      /\ \A j \in Nat \ {0} : Left(walk', j) = IF j <= Len(walk') THEN Len(walk'[j].rest) ELSE 0
      /\ \A j \in Nat \ {0} : Found(walk', j) = IF j <= Len(walk') THEN Len(walk'[j].urls) ELSE 0
  BY DEF Left, Found
<1>a. \A c, x, y : c = [rest |-> x, urls |-> y] => c.rest = x /\ c.urls = y
  OBVIOUS
<1>4. MaxDepth \in Nat /\ MaxNested \in Nat /\ MaxPerFile \in Nat /\ MaxTotal \in Nat \ {0}
  BY Discovering
<1>5. CASE Opens
  <2> DEFINE file == Head(Top.rest)
             has  == site.has[file]
  <2>1. /\ Top.rest # <<>> /\ Len(Top.urls) < MaxTotal /\ n - 1 <= MaxDepth /\ file \in Files
        /\ files' = files + 1 /\ outcome' = outcome
        /\ walk' \in Seq(Calls) /\ \A i \in 1 .. n - 1 : walk'[i] = walk[i]
        /\ \/ /\ site.kind[file] = "index" /\ Len(walk') = n + 1
              /\ walk'[n] = [rest |-> Tail(Top.rest), urls |-> Top.urls]
              /\ walk'[n + 1] = [rest |-> First(has, MaxNested), urls |-> <<>>]
           \/ /\ site.kind[file] # "index" /\ Len(walk') = n
              /\ walk'[n] = [rest |-> Tail(Top.rest), urls |-> Top.urls \o First(has, MaxPerFile)]
    BY <1>0, <1>5, OpensDoes
  <2>2. has \in Seq(SiteUrls)
    BY <1>0, <2>1, FileHas
  <2>3. Left(walk, n) >= 1 /\ Len(Tail(Top.rest)) = Left(walk, n) - 1
    BY <1>1, <1>2, <2>1, EmptySeq
  <2> HIDE DEF has, file
  <2>4. Len(First(has, MaxNested)) \in 0 .. MaxNested /\ Len(First(has, MaxPerFile)) \in 0 .. MaxPerFile
        /\ First(has, MaxPerFile) \in Seq(SiteUrls)
    BY <1>4, <2>2, FirstIs
  <2>5. Len(Top.urls \o First(has, MaxPerFile)) = Len(Top.urls) + Len(First(has, MaxPerFile))
    BY <1>1, <2>4
  <2>9. /\ Len(walk') \in Nat /\ \A i \in 1 .. n - 1 : walk'[i] = walk[i]
        /\ n <= Len(walk') /\ Left(walk', n) = Len(walk'[n].rest) /\ Found(walk', n) = Len(walk'[n].urls)
    <3>0. (Len(walk') = n + 1 \/ Len(walk') = n) /\ \A i \in 1 .. n - 1 : walk'[i] = walk[i]
      BY <2>1, Zenon
    <3>1. Len(walk') \in Nat /\ n <= Len(walk') /\ \A i \in 1 .. n - 1 : walk'[i] = walk[i]
      BY <1>1, <3>0
    <3> QED BY <1>1, <1>3, <3>1
  <2>6. \A j \in Nat \ {0} : j < n => Left(walk', j) = Left(walk, j) /\ Found(walk', j) = Found(walk, j)
    <3>1. \A j \in Nat \ {0} : j < n => walk'[j] = walk[j] /\ j <= n /\ j <= Len(walk')
      BY <1>1, <2>9
    <3> QED BY <1>3, <3>1, Zenon
  <2>7. CASE site.kind[file] = "index"
    <3>1. Left(walk', n) = Left(walk, n) - 1 /\ Found(walk', n) = Found(walk, n) /\ Left(walk', n + 1) \in 0 .. MaxNested /\ Found(walk', n + 1) = 0
      <4>1. /\ Len(walk') = n + 1 /\ walk'[n].rest = Tail(Top.rest) /\ walk'[n].urls = Top.urls
            /\ walk'[n + 1].rest = First(has, MaxNested) /\ walk'[n + 1].urls = <<>>
        <5>1. /\ Len(walk') = n + 1 /\ walk'[n] = [rest |-> Tail(Top.rest), urls |-> Top.urls]
              /\ walk'[n + 1] = [rest |-> First(has, MaxNested), urls |-> <<>>]
          BY <2>1, <2>7, Zenon
        <5> QED BY <1>a, <5>1
      <4>2. Left(walk', n + 1) = Len(walk'[n + 1].rest) /\ Found(walk', n + 1) = Len(walk'[n + 1].urls)
        BY <1>1, <1>3, <4>1
      <4>3. Len(<<>>) = 0
        OBVIOUS
      <4> QED BY <1>2, <2>3, <2>4, <2>9, <4>1, <4>2, <4>3
    <3>2. Len(walk') = n + 1 /\ files' = files + 1 /\ outcome' = outcome /\ n <= MaxDepth + 1 /\ Found(walk, n) < MaxTotal
      BY <1>1, <1>2, <1>4, <2>1, <2>7
    <3>3. n # 0 /\ n <= MaxDepth + 2 /\ Left(walk, n) >= 1
      BY <1>0, <1>1, <2>3
    <3>4. n > 1 => n - 1 \in Nat \ {0} /\ n - 1 < n
      BY <1>1
    <3>5. \A j \in Nat \ {0} : j < n - 1 => j < n
      BY <1>1
    <3> QED BY <2>6, <3>1, <3>2, <3>3, <3>4, <3>5
  <2>8. CASE site.kind[file] # "index"
    <3>1. Left(walk', n) = Left(walk, n) - 1 /\ Found(walk', n) = Len(Top.urls \o First(has, MaxPerFile))
      <4>0. walk'[n] = [rest |-> Tail(Top.rest), urls |-> Top.urls \o First(has, MaxPerFile)]
        BY <2>1, <2>8, Zenon
      <4>1. walk'[n].rest = Tail(Top.rest) /\ walk'[n].urls = Top.urls \o First(has, MaxPerFile)
        BY <1>a, <4>0
      <4> QED BY <2>3, <2>9, <4>1
    <3>2. \E k \in 0 .. MaxPerFile : Found(walk', n) = Found(walk, n) + k
      BY <1>2, <2>4, <2>5, <3>1
    <3>3. /\ Len(walk') = n /\ files' = files + 1 /\ outcome' = outcome /\ n <= MaxDepth + 1 /\ Found(walk, n) < MaxTotal
          /\ Left(walk', n) = Left(walk, n) - 1
      <4>1. Len(walk') = n /\ files' = files + 1 /\ outcome' = outcome /\ n - 1 <= MaxDepth /\ Len(Top.urls) < MaxTotal
        BY <2>1, <2>8, Zenon
      <4>2. n \in Nat /\ MaxDepth \in Nat /\ Found(walk, n) = Len(Top.urls)
        BY <1>1, <1>2, <1>4
      <4> QED BY <3>1, <4>1, <4>2
    <3>4. n # 0 /\ n <= MaxDepth + 2 /\ Left(walk, n) >= 1
      BY <1>0, <1>1, <2>3
    <3>5. n > 1 => n - 1 \in Nat \ {0} /\ n - 1 < n
      BY <1>1
    <3>6. \A j \in Nat \ {0} : j < n - 1 => j < n
      BY <1>1
    <3> QED BY <2>6, <3>2, <3>3, <3>4, <3>5, <3>6
  <2> QED BY <2>7, <2>8
<1>6. CASE MayOpen /\ Lose(Head(Top.rest))
  <2>1. /\ Top.rest # <<>> /\ Len(Top.urls) < MaxTotal /\ files' = files /\ outcome' = outcome
        /\ walk' \in Seq(Calls) /\ Len(walk') = n /\ \A i \in 1 .. n - 1 : walk'[i] = walk[i]
        /\ walk'[n] = [rest |-> Tail(Top.rest), urls |-> Top.urls]
    BY <1>0, <1>6, LoseDoes
  <2>2. Left(walk, n) >= 1 /\ Len(Tail(Top.rest)) = Left(walk, n) - 1
    BY <1>1, <1>2, <2>1, EmptySeq
  <2>5. /\ Len(walk') \in Nat /\ \A i \in 1 .. n - 1 : walk'[i] = walk[i]
        /\ n <= Len(walk') /\ Left(walk', n) = Len(walk'[n].rest) /\ Found(walk', n) = Len(walk'[n].urls)
    <3>0. Len(walk') = n /\ \A i \in 1 .. n - 1 : walk'[i] = walk[i]
      BY <2>1, Zenon
    <3>1. Len(walk') \in Nat /\ n <= Len(walk') /\ \A i \in 1 .. n - 1 : walk'[i] = walk[i]
      BY <1>1, <3>0
    <3> QED BY <1>1, <1>3, <3>1
  <2>3. \A j \in Nat \ {0} : j < n => Left(walk', j) = Left(walk, j) /\ Found(walk', j) = Found(walk, j)
    <3>1. \A j \in Nat \ {0} : j < n => walk'[j] = walk[j] /\ j <= n /\ j <= Len(walk')
      BY <1>1, <2>5
    <3> QED BY <1>3, <3>1, Zenon
  <2>4. Left(walk', n) = Left(walk, n) - 1 /\ Found(walk', n) = Found(walk, n)
    <3>1. walk'[n].rest = Tail(Top.rest) /\ walk'[n].urls = Top.urls
      BY <2>1
    <3> QED BY <1>2, <2>2, <2>5, <3>1
  <2>6. /\ Len(walk') = n /\ files' = files /\ outcome' = outcome /\ Found(walk, n) < MaxTotal
        /\ n # 0 /\ n <= MaxDepth + 2 /\ Left(walk, n) >= 1
    BY <1>0, <1>1, <1>2, <2>1, <2>2
  <2>7. n > 1 => n - 1 \in Nat \ {0} /\ n - 1 < n
    BY <1>1
  <2>8. \A j \in Nat \ {0} : j < n - 1 => j < n
    BY <1>1
  <2> QED BY <2>3, <2>4, <2>6, <2>7, <2>8
<1>7. CASE Return
  <2>1. /\ files' = files
        /\ \/ /\ n > 1 /\ outcome' = outcome
              /\ walk' \in Seq(Calls) /\ Len(walk') = n - 1 /\ \A i \in 1 .. n - 2 : walk'[i] = walk[i]
              /\ walk'[n - 1] = [rest |-> walk[n - 1].rest, urls |-> walk[n - 1].urls \o Top.urls]
           \/ n = 1 /\ walk' = <<>> /\ outcome' = [outcome EXCEPT !.pages = Top.urls]
    BY <1>0, <1>7, ReturnDoes
  <2>2. CASE n > 1 /\ outcome' = outcome /\ Len(walk') = n - 1 /\ (\A i \in 1 .. n - 2 : walk'[i] = walk[i])
             /\ walk'[n - 1] = [rest |-> walk[n - 1].rest, urls |-> walk[n - 1].urls \o Top.urls]
    <3>1. \A j \in Nat \ {0} : j < n - 1 => Left(walk', j) = Left(walk, j) /\ Found(walk', j) = Found(walk, j)
      <4>1. \A j \in Nat \ {0} : j < n - 1 => walk'[j] = walk[j] /\ j <= n /\ j <= Len(walk')
        BY <1>1, <2>2
      <4> QED BY <1>3, <4>1, Zenon
    <3>2. walk[n - 1] \in Calls
      <4> HIDE DEF Calls
      <4> QED BY <1>0, <1>1, <2>2
    <3>3. walk[n - 1].urls \in Seq(SiteUrls)
      BY <3>2 DEF Calls
    <3>4. Len(walk[n - 1].urls \o Top.urls) = Len(walk[n - 1].urls) + Len(Top.urls)
      BY <1>1, <3>3
    <3>5. Left(walk', n - 1) = Left(walk, n - 1) /\ Found(walk', n - 1) = Found(walk, n - 1) + Found(walk, n)
      <4>0. walk'[n - 1] = [rest |-> walk[n - 1].rest, urls |-> walk[n - 1].urls \o Top.urls]
        BY <2>2, Zenon
      <4>1. walk'[n - 1].rest = walk[n - 1].rest /\ walk'[n - 1].urls = walk[n - 1].urls \o Top.urls
        <5> DEFINE call == walk'[n - 1]
                   rest == walk[n - 1].rest
                   urls == walk[n - 1].urls \o Top.urls
        <5>1. call = [rest |-> rest, urls |-> urls]
          BY <4>0
        <5> HIDE DEF call, rest, urls
        <5>2. call.rest = rest /\ call.urls = urls
          BY <5>1
        <5> QED BY <5>2 DEF call, rest, urls
      <4>2. n - 1 \in Nat \ {0} /\ n - 1 <= n /\ n - 1 <= Len(walk')
        BY <1>1, <2>2
      <4>3. /\ Left(walk', n - 1) = Len(walk'[n - 1].rest) /\ Found(walk', n - 1) = Len(walk'[n - 1].urls)
            /\ Left(walk, n - 1) = Len(walk[n - 1].rest) /\ Found(walk, n - 1) = Len(walk[n - 1].urls)
        BY <1>3, <4>2
      <4> QED BY <1>2, <3>4, <4>1, <4>3
    <3>6. files' = files /\ n > 1 /\ Len(walk') = n - 1 /\ outcome' = outcome /\ n # 0 /\ n <= MaxDepth + 2
      BY <1>0, <1>1, <2>1, <2>2
    <3> QED BY <3>1, <3>5, <3>6
  <2>3. CASE n = 1 /\ walk' = <<>> /\ outcome' = [outcome EXCEPT !.pages = Top.urls]
    <3>1. outcome'.pages = Top.urls
      BY <1>0, <2>3
    <3>2. Len(outcome'.pages) = Found(walk, 1) /\ files' = files /\ n # 0 /\ n <= MaxDepth + 2
      BY <1>0, <1>1, <1>2, <2>1, <2>3, <3>1
    <3>3. \A j \in Nat \ {0} : ~(j < n - 1)
      BY <2>3
    <3> QED BY <2>3, <3>2, <3>3
  <2> QED BY <2>1, <2>2, <2>3
<1> QED BY <1>5, <1>6, <1>7

LEMMA Weights ==
    ASSUME NEW N \in Nat, NEW b \in Nat
    PROVE  /\ b * (1 + N) \in Nat /\ N * N \in Nat
           /\ b >= 1 => (b - 1) * (1 + N) = b * (1 + N) - (1 + N)
           /\ b <= N => b * (1 + N) <= N + N * N
<1>1. b * (1 + N) = b + b * N /\ b * N \in Nat /\ N * N \in Nat
  OBVIOUS
<1>2. b >= 1 => (b - 1) * (1 + N) = b * (1 + N) - (1 + N)
  OBVIOUS
<1>3. b <= N => b * N <= N * N
  OBVIOUS
<1> QED BY <1>1, <1>2, <1>3

\* How the counts may change: a file is opened, at one of three levels, or
\* files are dropped.
Falls(f, a, b, c, g, u, v, w) ==
    /\ {f, a, b, c, g, u, v, w} \subseteq Nat
    /\ \/ a = 1 /\ u = 0 /\ v <= MaxNested /\ w = 0 /\ g <= f + 1
       \/ u = a /\ b >= 1 /\ v = b - 1 /\ w <= MaxNested /\ g <= f + 1
       \/ u = a /\ v = b /\ c >= 1 /\ w = c - 1 /\ g <= f + 1
       \/ u \in {0, a} /\ v \in {0, b} /\ w \in {0, c} /\ g = f

\* A file that is opened weighs more than all it may lead to.
LEMMA WeightsFall ==
    ASSUME NEW f, NEW a, NEW b, NEW c, NEW g, NEW u, NEW v, NEW w, Falls(f, a, b, c, g, u, v, w),
           Weight(f, a, b, c) <= 1 + MaxNested + MaxNested * MaxNested
    PROVE  Weight(g, u, v, w) <= 1 + MaxNested + MaxNested * MaxNested
<1>0. f \in Nat /\ a \in Nat /\ b \in Nat /\ c \in Nat /\ g \in Nat /\ u \in Nat /\ v \in Nat /\ w \in Nat
  BY DEF Falls
<1> DEFINE N == MaxNested
           M == N * N
           K == 1 + N + M
           A == a * K
           B == b * (1 + N)
           U == u * K
           V == v * (1 + N)
<1>1. N \in Nat /\ M \in Nat /\ K \in Nat /\ A \in Nat /\ B \in Nat /\ U \in Nat /\ V \in Nat /\ K = 1 + N + M
  BY <1>0, Discovering
<1>2. (a = 1 => A = K) /\ (u = 0 => U = 0) /\ (u = a => U = A) /\ (v = 0 => V = 0) /\ (v = b => V = B)
  BY <1>0, <1>1
<1>3. b >= 1 /\ v = b - 1 => V = B - (1 + N)
  BY <1>0, Weights, Discovering
<1>4. v <= N => V <= N + M
  BY <1>0, Weights, Discovering
<1>5. f + A + B + c <= K /\ N \in Nat
  BY <1>0, Discovering DEF Weight
<1> HIDE DEF N, M, K, A, B, U, V
<1>6. CASE a = 1 /\ u = 0 /\ v <= N /\ w = 0 /\ g <= f + 1
  <2>1. f = 0 /\ U = 0 /\ V <= N + M
    BY <1>0, <1>1, <1>2, <1>4, <1>5, <1>6
  <2>2. g + U + V + w <= K
    BY <1>0, <1>1, <1>6, <2>1
  <2> QED BY <2>2 DEF Weight, N, M, K, U, V
<1>7. CASE u = a /\ b >= 1 /\ v = b - 1 /\ w <= N /\ g <= f + 1
  <2>1. g + U + V + w <= K
    BY <1>0, <1>1, <1>2, <1>3, <1>5, <1>7
  <2> QED BY <2>1 DEF Weight, N, M, K, U, V
<1>8. CASE u = a /\ v = b /\ c >= 1 /\ w = c - 1 /\ g <= f + 1
  <2>1. g + U + V + w <= K
    BY <1>0, <1>1, <1>2, <1>5, <1>8
  <2> QED BY <2>1 DEF Weight, N, M, K, U, V
<1>9. CASE u \in {0, a} /\ v \in {0, b} /\ w \in {0, c} /\ g = f
  <2>1. g + U + V + w <= K
    BY <1>0, <1>1, <1>2, <1>5, <1>9
  <2> QED BY <2>1 DEF Weight, N, M, K, U, V
<1> QED BY <1>6, <1>7, <1>8, <1>9 DEF Falls, N

LEMMA Beyond ==
    ASSUME NEW w, NEW i \in Nat, Len(w) \in Nat, i > Len(w)
    PROVE  Left(w, i) = 0 /\ Found(w, i) = 0
BY DEF Left, Found

LEMMA BoundInvInit == Init => BoundInv
<1> SUFFICES ASSUME Init PROVE BoundInv
  OBVIOUS
<1>1. walk = <<>> /\ files = 0 /\ outcome.pages = <<>>
  BY DEF Init, DiscoveryInit, NothingFound
<1>2. Len(walk) = 0 /\ Len(outcome.pages) = 0
  BY <1>1
<1>3. \A i \in 1 .. 4 : Left(walk, i) = 0 /\ Found(walk, i) = 0
  BY <1>2, Beyond
<1>4. MaxNested \in Nat /\ MaxNested * MaxNested \in Nat /\ MaxPerFile \in Nat /\ MaxTotal \in Nat \ {0}
  BY Discovering
<1>5. FilesInv
  BY <1>1, <1>3, <1>4 DEF FilesInv, Weight
<1>6. FoundInv
  BY <1>2, <1>3, <1>4 DEF FoundInv, Limit
<1>7. OutermostInv
  BY <1>3 DEF OutermostInv
<1> QED BY <1>5, <1>6, <1>7 DEF BoundInv

LEMMA BoundInvStep ==
    ASSUME MaxDepth = 2, DiscoveryInv, BoundInv, [Next]_vars
    PROVE  BoundInv'
<1> DEFINE N == MaxNested
           W == 1 + N + N * N
<1>0. /\ N \in Nat /\ MaxPerFile \in Nat /\ MaxTotal \in Nat \ {0}
      /\ \A i \in 1 .. 4 : Left(walk, i) \in Nat /\ Found(walk, i) \in Nat
      /\ files \in Nat /\ Len(walk) \in Nat
      /\ outcome \in [sitemap : Statuses, feed : Statuses, pages : Seq(SiteUrls), entries : Seq(SiteUrls)]
  <2>1. walk \in Seq(Calls)
    BY DEF DiscoveryInv, WalkInv
  <2>2. Len(walk) \in Nat
    BY <2>1
  <2> QED BY <2>2, Discovering, CountsAre DEF DiscoveryInv, WalkInv
<1>1. /\ Weight(files, Left(walk, 1), Left(walk, 2), Left(walk, 3)) <= W
      /\ Len(outcome.pages) <= Limit
      /\ Found(walk, 1) <= Limit /\ Found(walk, 2) <= Limit /\ Found(walk, 3) <= MaxTotal - 1 + MaxPerFile /\ Found(walk, 4) = 0
      /\ \A i \in 1 .. 4 : i < Len(walk) => Found(walk, i) < MaxTotal
      /\ Left(walk, 1) = 0 \/ (Left(walk, 1) = 1 /\ Len(walk) = 1)
      /\ Left(walk, 1) = 1 \/ Len(walk) > 1 => Found(walk, 1) = 0
  BY DEF BoundInv, FilesInv, FoundInv, OutermostInv
<1> SUFFICES /\ Weight(files', Left(walk', 1), Left(walk', 2), Left(walk', 3)) <= W
             /\ Len(outcome'.pages) <= Limit
             /\ Found(walk', 1) <= Limit /\ Found(walk', 2) <= Limit /\ Found(walk', 3) <= MaxTotal - 1 + MaxPerFile /\ Found(walk', 4) = 0
             /\ \A i \in 1 .. 4 : i < Len(walk') => Found(walk', i) < MaxTotal
             /\ Left(walk', 1) = 0 \/ (Left(walk', 1) = 1 /\ Len(walk') = 1)
             /\ Left(walk', 1) = 1 \/ Len(walk') > 1 => Found(walk', 1) = 0
  BY DEF BoundInv, FilesInv, FoundInv, OutermostInv, Limit
<1>2. CASE UNCHANGED <<walk, files>> /\ outcome'.pages = outcome.pages
  BY <1>1, <1>2
<1>3. CASE stage = "sitemap" /\ candidates # <<>> /\ purpose = "crawl" /\ SitemapFound(Head(candidates))
  <2>1. walk' = <<[rest |-> <<Head(candidates)>>, urls |-> <<>>]>> /\ outcome' = [outcome EXCEPT !.sitemap = "available"]
        /\ files' = files
    BY <1>3 DEF SitemapFound
  <2>2. files = 0
    BY <1>3 DEF DiscoveryInv, WalkInv, Early
  <2>3. Len(walk') = 1 /\ Left(walk', 1) = 1 /\ Found(walk', 1) = 0
    BY <2>1 DEF Left, Found
  <2>4. /\ Left(walk', 2) = 0 /\ Left(walk', 3) = 0
        /\ Found(walk', 2) = 0 /\ Found(walk', 3) = 0 /\ Found(walk', 4) = 0
    BY <2>3 DEF Left, Found
  <2>5. outcome'.pages = outcome.pages
    BY <1>0, <2>1
  <2>6. W \in Nat
    <3>1. N \in Nat
      BY <1>0
    <3> QED BY <3>1
  <2>7. Weight(files', Left(walk', 1), Left(walk', 2), Left(walk', 3)) <= W
    <3>1. Weight(0, 1, 0, 0) = W
      BY <1>0 DEF Weight
    <3> QED BY <2>1, <2>2, <2>3, <2>4, <2>6, <3>1
  <2>8. Limit \in Nat /\ MaxTotal \in Nat \ {0} /\ MaxPerFile \in Nat /\ MaxTotal - 1 + MaxPerFile >= 0
    BY <1>0 DEF Limit
  <2>9. \A i \in 1 .. 4 : i < Len(walk') => Found(walk', i) < MaxTotal
    BY <2>3
  <2> HIDE DEF W, N
  <2> QED BY <1>1, <2>3, <2>4, <2>5, <2>7, <2>8, <2>9
<1>4. CASE Opens \/ (MayOpen /\ Lose(Head(Top.rest))) \/ Return
  <2>1. walk # <<>>
    BY <1>4 DEF Opens, OpenFile, MayOpen, Return, DiscoveryInv, WalkInv
  <2>n. PICK n \in Nat : n = Len(walk)
    BY <1>0
  <2>2. /\ n \in 1 .. 4
        /\ \A j \in Nat \ {0} : j < n - 1 => Left(walk', j) = Left(walk, j) /\ Found(walk', j) = Found(walk, j)
        /\ \/ /\ n <= 3 /\ files' = files + 1 /\ Left(walk, n) >= 1 /\ Found(walk, n) < MaxTotal
              /\ Left(walk', n) = Left(walk, n) - 1 /\ outcome' = outcome
              /\ n > 1 => Left(walk', n - 1) = Left(walk, n - 1) /\ Found(walk', n - 1) = Found(walk, n - 1)
              /\ \/ /\ Len(walk') = n + 1 /\ Found(walk', n) = Found(walk, n)
                    /\ Left(walk', n + 1) \in 0 .. N /\ Found(walk', n + 1) = 0
                 \/ /\ Len(walk') = n /\ \E k \in 0 .. MaxPerFile : Found(walk', n) = Found(walk, n) + k
           \/ /\ files' = files /\ Left(walk, n) >= 1 /\ Found(walk, n) < MaxTotal
              /\ Left(walk', n) = Left(walk, n) - 1 /\ Found(walk', n) = Found(walk, n) /\ Len(walk') = n /\ outcome' = outcome
              /\ n > 1 => Left(walk', n - 1) = Left(walk, n - 1) /\ Found(walk', n - 1) = Found(walk, n - 1)
           \/ /\ files' = files /\ n > 1 /\ Len(walk') = n - 1 /\ outcome' = outcome
              /\ Left(walk', n - 1) = Left(walk, n - 1) /\ Found(walk', n - 1) = Found(walk, n - 1) + Found(walk, n)
           \/ /\ files' = files /\ n = 1 /\ walk' = <<>> /\ Len(outcome'.pages) = Found(walk, 1)
    BY <1>4, <2>1, <2>n, WalkCounts
  <2>3. \A i \in 1 .. 4 : i > n => Left(walk, i) = 0 /\ Found(walk, i) = 0
    BY <2>2, <2>n, Beyond
  <2> DEFINE m == Len(walk')
  <2>4. m \in 0 .. 4 /\ (walk' = <<>> => m = 0)
    <3>1. (n <= 3 /\ m = n + 1) \/ m = n \/ (n > 1 /\ m = n - 1) \/ walk' = <<>>
      BY <2>2
    <3>2. walk' = <<>> => m = 0
      OBVIOUS
    <3> HIDE DEF m
    <3> QED BY <2>2, <3>1, <3>2
  <2>5. \A i \in 1 .. 4 : i > m => Left(walk', i) = 0 /\ Found(walk', i) = 0
    BY <2>4, Beyond
  <2> DEFINE F1 == Found(walk, 1)  F2 == Found(walk, 2)  F3 == Found(walk, 3)  F4 == Found(walk, 4)
             G1 == Found(walk', 1) G2 == Found(walk', 2) G3 == Found(walk', 3) G4 == Found(walk', 4)
             a  == Left(walk, 1)   b  == Left(walk, 2)   c  == Left(walk, 3)   d  == Left(walk, 4)
             u  == Left(walk', 1)  v  == Left(walk', 2)  w  == Left(walk', 3)  x  == Left(walk', 4)
             size == Len(outcome'.pages)
             old  == Len(outcome.pages)
  <2>6. /\ {F1, F2, F3, F4, a, b, c, d} \subseteq Nat /\ F4 = 0
        /\ F1 <= Limit /\ F2 <= Limit /\ F3 <= MaxTotal - 1 + MaxPerFile /\ old <= Limit
        /\ (1 < n => F1 < MaxTotal) /\ (2 < n => F2 < MaxTotal) /\ (3 < n => F3 < MaxTotal)
        /\ a = 0 \/ (a = 1 /\ n = 1)
        /\ a = 1 \/ n > 1 => F1 = 0
    <3>1. \A i \in 1 .. 4 : i < n => Found(walk, i) < MaxTotal
      BY <1>1, <2>n
    <3>2. {F1, F2, F3, F4, a, b, c, d} \subseteq Nat
      BY <1>0
    <3>3. (1 < n => F1 < MaxTotal) /\ (2 < n => F2 < MaxTotal) /\ (3 < n => F3 < MaxTotal)
      BY <3>1
    <3>4. /\ F4 = 0
          /\ F1 <= Limit /\ F2 <= Limit /\ F3 <= MaxTotal - 1 + MaxPerFile /\ old <= Limit
          /\ a = 0 \/ (a = 1 /\ n = 1)
          /\ a = 1 \/ n > 1 => F1 = 0
      BY <1>1, <2>n
    <3> QED BY <3>2, <3>3, <3>4
  <2>7. /\ n < 2 => F2 = 0 /\ b = 0
        /\ n < 3 => F3 = 0 /\ c = 0
        /\ n < 4 => d = 0
    BY <2>2, <2>3
  <2>8. /\ m < 1 => G1 = 0 /\ u = 0
        /\ m < 2 => G2 = 0 /\ v = 0
        /\ m < 3 => G3 = 0 /\ w = 0
        /\ m < 4 => G4 = 0 /\ x = 0
    BY <2>4, <2>5
  <2>9. Limit = 2 * (MaxTotal - 1) + MaxPerFile
    BY DEF Limit
  <2> DEFINE Goal == /\ files' \in Nat /\ {u, v, w} \subseteq Nat
                     /\ \/ a = 1 /\ u = 0 /\ v <= N /\ w = 0 /\ files' <= files + 1
                        \/ u = a /\ b >= 1 /\ v = b - 1 /\ w <= N /\ files' <= files + 1
                        \/ u = a /\ v = b /\ c >= 1 /\ w = c - 1 /\ files' <= files + 1
                        \/ u \in {0, a} /\ v \in {0, b} /\ w \in {0, c} /\ files' = files
                     /\ size <= Limit /\ G1 <= Limit /\ G2 <= Limit /\ G3 <= MaxTotal - 1 + MaxPerFile /\ G4 = 0
                     /\ (1 < m => G1 < MaxTotal) /\ (2 < m => G2 < MaxTotal) /\ (3 < m => G3 < MaxTotal)
                     /\ u = 0 \/ (u = 1 /\ m = 1)
                     /\ u = 1 \/ m > 1 => G1 = 0
  <2>10. ASSUME n = 1 PROVE Goal
    <3>1. \/ files' = files + 1 /\ a >= 1 /\ u = a - 1 /\ F1 < MaxTotal /\ size = old /\ m = 2 /\ G1 = F1 /\ v \in 0 .. N /\ G2 = 0
          \/ files' = files + 1 /\ a >= 1 /\ u = a - 1 /\ F1 < MaxTotal /\ size = old /\ m = 1 /\ (\E k \in 0 .. MaxPerFile : G1 = F1 + k)
          \/ files' = files /\ a >= 1 /\ u = a - 1 /\ F1 < MaxTotal /\ size = old /\ m = 1 /\ G1 = F1
          \/ files' = files /\ m = 0 /\ size = F1
      BY <2>2, <2>4, <2>10
    <3> HIDE DEF F1, F2, F3, F4, G1, G2, G3, G4, a, b, c, d, u, v, w, x, size, old, m, N
    <3>2. N \in Nat /\ MaxPerFile \in Nat /\ MaxTotal \in Nat \ {0} /\ files \in Nat
      BY <1>0
    <3>3. CASE files' = files + 1 /\ a >= 1 /\ u = a - 1 /\ F1 < MaxTotal /\ size = old /\ m = 2 /\ G1 = F1 /\ v \in 0 .. N /\ G2 = 0
      BY <2>6, <2>7, <2>8, <2>9, <2>10, <3>2, <3>3
    <3>4. CASE files' = files + 1 /\ a >= 1 /\ u = a - 1 /\ F1 < MaxTotal /\ size = old /\ m = 1 /\ (\E k \in 0 .. MaxPerFile : G1 = F1 + k)
      BY <2>6, <2>7, <2>8, <2>9, <2>10, <3>2, <3>4
    <3>5. CASE files' = files /\ a >= 1 /\ u = a - 1 /\ F1 < MaxTotal /\ size = old /\ m = 1 /\ G1 = F1
      BY <2>6, <2>7, <2>8, <2>9, <2>10, <3>2, <3>5
    <3>6. CASE files' = files /\ m = 0 /\ size = F1
      BY <2>6, <2>7, <2>8, <2>9, <2>10, <3>2, <3>6
    <3> QED BY <3>1, <3>3, <3>4, <3>5, <3>6
  <2>11. ASSUME n = 2 PROVE Goal
    <3>1. \/ files' = files + 1 /\ b >= 1 /\ v = b - 1 /\ F2 < MaxTotal /\ size = old /\ m = 3 /\ G2 = F2 /\ w \in 0 .. N /\ G3 = 0 /\ u = a /\ G1 = F1
          \/ files' = files + 1 /\ b >= 1 /\ v = b - 1 /\ F2 < MaxTotal /\ size = old /\ m = 2 /\ (\E k \in 0 .. MaxPerFile : G2 = F2 + k) /\ u = a /\ G1 = F1
          \/ files' = files /\ b >= 1 /\ v = b - 1 /\ F2 < MaxTotal /\ size = old /\ m = 2 /\ G2 = F2 /\ u = a /\ G1 = F1
          \/ files' = files /\ size = old /\ m = 1 /\ u = a /\ G1 = F1 + F2
      BY <2>2, <2>4, <2>11
    <3> HIDE DEF F1, F2, F3, F4, G1, G2, G3, G4, a, b, c, d, u, v, w, x, size, old, m, N
    <3>2. N \in Nat /\ MaxPerFile \in Nat /\ MaxTotal \in Nat \ {0} /\ files \in Nat
      BY <1>0
    <3>3. CASE files' = files + 1 /\ b >= 1 /\ v = b - 1 /\ F2 < MaxTotal /\ size = old /\ m = 3 /\ G2 = F2 /\ w \in 0 .. N /\ G3 = 0 /\ u = a /\ G1 = F1
      BY <2>6, <2>7, <2>8, <2>9, <2>11, <3>2, <3>3
    <3>4. CASE files' = files + 1 /\ b >= 1 /\ v = b - 1 /\ F2 < MaxTotal /\ size = old /\ m = 2 /\ (\E k \in 0 .. MaxPerFile : G2 = F2 + k) /\ u = a /\ G1 = F1
      BY <2>6, <2>7, <2>8, <2>9, <2>11, <3>2, <3>4
    <3>5. CASE files' = files /\ b >= 1 /\ v = b - 1 /\ F2 < MaxTotal /\ size = old /\ m = 2 /\ G2 = F2 /\ u = a /\ G1 = F1
      BY <2>6, <2>7, <2>8, <2>9, <2>11, <3>2, <3>5
    <3>6. CASE files' = files /\ size = old /\ m = 1 /\ u = a /\ G1 = F1 + F2
      BY <2>6, <2>7, <2>8, <2>9, <2>11, <3>2, <3>6
    <3> QED BY <3>1, <3>3, <3>4, <3>5, <3>6
  <2>12. ASSUME n = 3 PROVE Goal
    <3>1. \/ files' = files + 1 /\ c >= 1 /\ w = c - 1 /\ F3 < MaxTotal /\ size = old /\ m = 4 /\ G3 = F3 /\ x \in 0 .. N /\ G4 = 0 /\ u = a /\ G1 = F1 /\ v = b /\ G2 = F2
          \/ files' = files + 1 /\ c >= 1 /\ w = c - 1 /\ F3 < MaxTotal /\ size = old /\ m = 3 /\ (\E k \in 0 .. MaxPerFile : G3 = F3 + k) /\ u = a /\ G1 = F1 /\ v = b /\ G2 = F2
          \/ files' = files /\ c >= 1 /\ w = c - 1 /\ F3 < MaxTotal /\ size = old /\ m = 3 /\ G3 = F3 /\ u = a /\ G1 = F1 /\ v = b /\ G2 = F2
          \/ files' = files /\ size = old /\ m = 2 /\ v = b /\ G2 = F2 + F3 /\ u = a /\ G1 = F1
      BY <2>2, <2>4, <2>12
    <3> HIDE DEF F1, F2, F3, F4, G1, G2, G3, G4, a, b, c, d, u, v, w, x, size, old, m, N
    <3>2. N \in Nat /\ MaxPerFile \in Nat /\ MaxTotal \in Nat \ {0} /\ files \in Nat
      BY <1>0
    <3>3. CASE files' = files + 1 /\ c >= 1 /\ w = c - 1 /\ F3 < MaxTotal /\ size = old /\ m = 4 /\ G3 = F3 /\ x \in 0 .. N /\ G4 = 0 /\ u = a /\ G1 = F1 /\ v = b /\ G2 = F2
      BY <2>6, <2>7, <2>8, <2>9, <2>12, <3>2, <3>3
    <3>4. CASE files' = files + 1 /\ c >= 1 /\ w = c - 1 /\ F3 < MaxTotal /\ size = old /\ m = 3 /\ (\E k \in 0 .. MaxPerFile : G3 = F3 + k) /\ u = a /\ G1 = F1 /\ v = b /\ G2 = F2
      BY <2>6, <2>7, <2>8, <2>9, <2>12, <3>2, <3>4
    <3>5. CASE files' = files /\ c >= 1 /\ w = c - 1 /\ F3 < MaxTotal /\ size = old /\ m = 3 /\ G3 = F3 /\ u = a /\ G1 = F1 /\ v = b /\ G2 = F2
      BY <2>6, <2>7, <2>8, <2>9, <2>12, <3>2, <3>5
    <3>6. CASE files' = files /\ size = old /\ m = 2 /\ v = b /\ G2 = F2 + F3 /\ u = a /\ G1 = F1
      BY <2>6, <2>7, <2>8, <2>9, <2>12, <3>2, <3>6
    <3> QED BY <3>1, <3>3, <3>4, <3>5, <3>6
  <2>13. ASSUME n = 4 PROVE Goal
    <3>1. \/ files' = files /\ d >= 1 /\ x = d - 1 /\ F4 < MaxTotal /\ size = old /\ m = 4 /\ G4 = F4 /\ u = a /\ G1 = F1 /\ v = b /\ G2 = F2 /\ w = c /\ G3 = F3
          \/ files' = files /\ size = old /\ m = 3 /\ w = c /\ G3 = F3 + F4 /\ u = a /\ G1 = F1 /\ v = b /\ G2 = F2
      BY <2>2, <2>4, <2>13
    <3> HIDE DEF F1, F2, F3, F4, G1, G2, G3, G4, a, b, c, d, u, v, w, x, size, old, m, N
    <3>2. N \in Nat /\ MaxPerFile \in Nat /\ MaxTotal \in Nat \ {0} /\ files \in Nat
      BY <1>0
    <3>3. CASE files' = files /\ d >= 1 /\ x = d - 1 /\ F4 < MaxTotal /\ size = old /\ m = 4 /\ G4 = F4 /\ u = a /\ G1 = F1 /\ v = b /\ G2 = F2 /\ w = c /\ G3 = F3
      BY <2>6, <2>7, <2>8, <2>9, <2>13, <3>2, <3>3
    <3>4. CASE files' = files /\ size = old /\ m = 3 /\ w = c /\ G3 = F3 + F4 /\ u = a /\ G1 = F1 /\ v = b /\ G2 = F2
      BY <2>6, <2>7, <2>8, <2>9, <2>13, <3>2, <3>4
    <3> QED BY <3>1, <3>3, <3>4
  <2>14. Goal
    BY <2>2, <2>10, <2>11, <2>12, <2>13
  <2>15. Weight(files', u, v, w) <= W
    <3>1. Falls(files, a, b, c, files', u, v, w)
      BY <1>0, <2>6, <2>14 DEF Falls
    <3>2. Weight(files, a, b, c) <= W
      BY <1>1
    <3> QED BY <3>1, <3>2, WeightsFall
  <2>16. \A i \in 1 .. 4 : i < m => Found(walk', i) < MaxTotal
    <3>1. (1 < m => G1 < MaxTotal) /\ (2 < m => G2 < MaxTotal) /\ (3 < m => G3 < MaxTotal)
      BY <2>14
    <3>2. \A i \in 1 .. 4 : i < m => i \in {1, 2, 3}
      <4>1. m \in 0 .. 4
        BY <2>4
      <4> HIDE DEF m
      <4> QED BY <4>1
    <3> QED BY <3>1, <3>2
  <2> HIDE DEF W
  <2> QED BY <2>14, <2>15, <2>16
<1>5. DiscoveryAct
  BY DiscoveryActs
<1>6. \/ UNCHANGED <<walk, files>> /\ outcome'.pages = outcome.pages
      \/ stage = "sitemap" /\ candidates # <<>> /\ purpose = "crawl" /\ SitemapFound(Head(candidates))
      \/ Opens \/ (MayOpen /\ Lose(Head(Top.rest))) \/ Return
  <2>1. /\ \A status : [outcome EXCEPT !.sitemap = status].pages = outcome.pages
        /\ \A status : [outcome EXCEPT !.feed = status].pages = outcome.pages
        /\ \A urls : [outcome EXCEPT !.entries = urls].pages = outcome.pages
    BY <1>0
  <2>2. CASE UNCHANGED discoveryVars
    BY <2>2 DEF discoveryVars
  <2>3. CASE \E listed \in Seq(Files) : AfterRobots(listed)
    BY <2>3 DEF AfterRobots
  <2>4. CASE \E what \in Statuses : NoUse(what) /\ candidates # <<>> /\ stage \in {"sitemap", "feeds"}
    BY <2>4 DEF NoUse
  <2>5. CASE \E status \in Statuses :
               stage = "sitemap" /\ SitemapIs(status) /\ (status = "available" => purpose = "preflight")
    BY <2>1, <2>5 DEF SitemapIs
  <2>6. CASE \E status \in Statuses : stage = "feeds" /\ FeedIs(status)
    BY <2>1, <2>6 DEF FeedIs
  <2>7. CASE \E urls \in Seq(SiteUrls) : Entries(urls)
    BY <2>1, <2>7 DEF Entries
  <2>8. CASE \E columns \in [sitemap : Statuses, feed : Statuses, pages : Nat, entries : Nat] : Recorded(columns)
    BY <2>8 DEF Recorded
  <2>9. CASE \E s \in Stages \ {"walking", "sitemap"} :
               Go(s) /\ purpose = "preflight" /\ stage # "walking" /\ (s \in Early => stage \in Early)
    BY <2>9 DEF Go
  <2> QED BY <1>5, <2>2, <2>3, <2>4, <2>5, <2>6, <2>7, <2>8, <2>9 DEF DiscoveryAct
<1> QED BY <1>2, <1>3, <1>4, <1>6

\* WalkBounded (sitemap_discovery.py:34, 56): with the depth the code allows
\* and any limits on files and URLs, whatever the files of a site list, no
\* more of them are read and no more URLs are found.
THEOREM WalkIsBounded == ASSUME MaxDepth = 2 PROVE Spec => []WalkBounded
<1>1. Init => DiscoveryInv /\ BoundInv
  BY DiscoveryInvInit, BoundInvInit
<1>2. (DiscoveryInv /\ BoundInv) /\ [Next]_vars => (DiscoveryInv /\ BoundInv)'
  BY DiscoveryInvStep, BoundInvStep
<1>3. DiscoveryInv /\ BoundInv => WalkBounded
  <2> SUFFICES ASSUME DiscoveryInv, BoundInv PROVE WalkBounded
    OBVIOUS
  <2>1. /\ Left(walk, 1) \in Nat /\ Left(walk, 2) \in Nat /\ Left(walk, 3) \in Nat /\ files \in Nat
        /\ MaxNested \in Nat /\ MaxTotal \in Nat /\ MaxPerFile \in Nat
    BY CountsAre, Discovering DEF DiscoveryInv, WalkInv
  <2>2. Weight(files, Left(walk, 1), Left(walk, 2), Left(walk, 3)) <= 1 + MaxNested + MaxNested * MaxNested
    BY DEF BoundInv, FilesInv
  <2>3. Weight(files, 0, 0, 0) <= 1 + MaxNested + MaxNested * MaxNested
    <3>1. Falls(files, Left(walk, 1), Left(walk, 2), Left(walk, 3), files, 0, 0, 0)
      BY <2>1 DEF Falls
    <3> QED BY <2>2, <3>1, WeightsFall
  <2>4. files <= 1 + MaxNested + MaxNested * MaxNested
    BY <2>1, <2>3 DEF Weight
  <2>5. Len(outcome.pages) <= MaxDepth * (MaxTotal - 1) + MaxPerFile
    BY <2>1 DEF BoundInv, FoundInv, Limit
  <2> QED BY <2>4, <2>5 DEF WalkBounded
<1> QED BY <1>1, <1>2, <1>3, PTL DEF Spec

-----------------------------------------------------------------------------
(***************************************************************************)
(* Completeness of the walk.  The files opened so far and those still to   *)
(* be read hold all that the opened ones list, and the calls in progress   *)
(* hold all their pages; when nothing is left to read, the opened files    *)
(* are a closed set, and so have every file the sitemap leads to.          *)
(***************************************************************************)

ToRead(w) == UNION {Elements(w[i].rest) : i \in DOMAIN w}

Gathered(w, pages) ==
    IF w = <<>> THEN Elements(pages) ELSE UNION {Elements(w[i].urls) : i \in DOMAIN w}

Covers(S, s, first, left, urls) ==
    /\ first \in S \cup left /\ S \subseteq DOMAIN s.kind
    /\ \A f \in S : /\ s.kind[f] = "index" => Elements(s.has[f]) \subseteq S \cup left
                    /\ s.kind[f] = "pages" => Elements(s.has[f]) \subseteq urls

NothingLost == purpose = "crawl" /\ outcome.sitemap = "available" /\ ~truncated /\ lost = {}

CompleteInv == NothingLost => \E S : Covers(S, site, root, ToRead(walk), Gathered(walk, outcome.pages))

\* What a step leaves of the files to read and of the pages, when the files
\* in A are opened.
Keeps(A, s, left, urls, remain, found) ==
    /\ A \subseteq DOMAIN s.kind /\ left \subseteq remain \cup A /\ urls \subseteq found
    /\ \A f \in A : /\ s.kind[f] = "index" => Elements(s.has[f]) \subseteq remain
                    /\ s.kind[f] = "pages" => Elements(s.has[f]) \subseteq found

LEMMA CoversOn ==
    ASSUME NEW s, NEW first, NEW left, NEW urls, NEW S, Covers(S, s, first, left, urls),
           NEW A, NEW remain, NEW found, Keeps(A, s, left, urls, remain, found)
    PROVE  \E T : Covers(T, s, first, remain, found)
<1> WITNESS S \cup A
<1> QED BY DEF Covers, Keeps

\* What the calls have to read and have found, in terms of their elements.
LEMMA ElementsOfCalls ==
    ASSUME NEW w \in Seq(Calls), w # <<>>, NEW pages
    PROVE  /\ Len(w) \in Nat \ {0}
           /\ \A x : x \in ToRead(w) <=> \E i \in 1 .. Len(w) : x \in Elements(w[i].rest)
           /\ \A x : x \in Gathered(w, pages) <=> \E i \in 1 .. Len(w) : x \in Elements(w[i].urls)
<1>1. Len(w) \in Nat \ {0} /\ DOMAIN w = 1 .. Len(w)
  BY EmptySeq
<1> HIDE DEF Calls, Elements
<1> QED BY <1>1, Zenon DEF ToRead, Gathered

LEMMA ElementsOfConcat ==
    ASSUME NEW X, NEW s \in Seq(X), NEW t \in Seq(X)
    PROVE  Elements(s \o t) = Elements(s) \cup Elements(t)
<1>1. /\ Len(s) \in Nat /\ Len(t) \in Nat /\ DOMAIN s = 1 .. Len(s) /\ DOMAIN t = 1 .. Len(t)
      /\ s \o t \in Seq(X) /\ Len(s \o t) = Len(s) + Len(t)
      /\ \A i \in 1 .. Len(s) + Len(t) : (s \o t)[i] = IF i <= Len(s) THEN s[i] ELSE t[i - Len(s)]
  BY ConcatProperties
<1> DEFINE c == s \o t
<1> HIDE DEF c
<1>2. DOMAIN c = 1 .. Len(s) + Len(t)
  BY <1>1 DEF c
<1>3. \A i \in 1 .. Len(s) + Len(t) : c[i] = IF i <= Len(s) THEN s[i] ELSE t[i - Len(s)]
  BY <1>1 DEF c
<1>4. \A i \in DOMAIN c : c[i] \in Elements(s) \cup Elements(t)
  <2> SUFFICES ASSUME NEW i \in 1 .. Len(s) + Len(t) PROVE c[i] \in Elements(s) \cup Elements(t)
    BY <1>2
  <2>1. CASE i <= Len(s)
    BY <1>1, <1>3, <2>1 DEF Elements
  <2>2. CASE ~(i <= Len(s))
    <3>1. i - Len(s) \in 1 .. Len(t) /\ c[i] = t[i - Len(s)]
      BY <1>1, <1>3, <2>2
    <3> QED BY <1>1, <3>1 DEF Elements
  <2> QED BY <2>1, <2>2
<1>5. \A i \in 1 .. Len(s) : s[i] \in Elements(c)
  <2> SUFFICES ASSUME NEW i \in 1 .. Len(s) PROVE s[i] \in Elements(c)
    OBVIOUS
  <2>1. i \in DOMAIN c /\ c[i] = s[i]
    BY <1>1, <1>2, <1>3
  <2> QED BY <2>1 DEF Elements
<1>6. \A i \in 1 .. Len(t) : t[i] \in Elements(c)
  <2> SUFFICES ASSUME NEW i \in 1 .. Len(t) PROVE t[i] \in Elements(c)
    OBVIOUS
  <2>1. i + Len(s) \in 1 .. Len(s) + Len(t) /\ ~(i + Len(s) <= Len(s)) /\ (i + Len(s)) - Len(s) = i
    BY <1>1
  <2>2. i + Len(s) \in DOMAIN c /\ c[i + Len(s)] = t[i]
    BY <1>2, <1>3, <2>1
  <2> QED BY <2>2 DEF Elements
<1> QED BY <1>1, <1>4, <1>5, <1>6, Zenon DEF Elements, c

\* Nothing is left out of a sequence within the limit.
LEMMA AllOfThem ==
    ASSUME NEW X, NEW s \in Seq(X), NEW n \in Nat, ~(Len(s) > n)
    PROVE  Elements(First(s, n)) = Elements(s)
<1>1. /\ Len(s) \in Nat /\ DOMAIN s = 1 .. Len(s) /\ First(s, n) \in Seq(X) /\ Len(First(s, n)) = Len(s)
      /\ \A i \in 1 .. Len(s) : First(s, n)[i] = s[i]
  BY FirstIs
<1>2. DOMAIN First(s, n) = 1 .. Len(s)
  BY <1>1
<1> QED BY <1>1, <1>2, Zenon DEF Elements

\* What the calls from one on change, the others keep.
LEMMA CallsKept ==
    ASSUME NEW w \in Seq(Calls), w # <<>>, NEW v \in Seq(Calls), v # <<>>, NEW pages, NEW k \in Nat, k <= Len(v),
           \A i \in 1 .. k : v[i] = w[i]
    PROVE  /\ \A x \in ToRead(w) : x \in ToRead(v) \/ \E i \in k + 1 .. Len(w) : x \in Elements(w[i].rest)
           /\ \A x \in Gathered(w, pages) : x \in Gathered(v, pages) \/ \E i \in k + 1 .. Len(w) : x \in Elements(w[i].urls)
           /\ \A i \in 1 .. Len(v) : Elements(v[i].rest) \subseteq ToRead(v) /\ Elements(v[i].urls) \subseteq Gathered(v, pages)
<1>1. /\ Len(w) \in Nat \ {0}
      /\ \A x : x \in ToRead(w) <=> \E i \in 1 .. Len(w) : x \in Elements(w[i].rest)
      /\ \A x : x \in Gathered(w, pages) <=> \E i \in 1 .. Len(w) : x \in Elements(w[i].urls)
  BY ElementsOfCalls
<1>2. /\ Len(v) \in Nat \ {0}
      /\ \A x : x \in ToRead(v) <=> \E i \in 1 .. Len(v) : x \in Elements(v[i].rest)
      /\ \A x : x \in Gathered(v, pages) <=> \E i \in 1 .. Len(v) : x \in Elements(v[i].urls)
  BY ElementsOfCalls
<1> HIDE DEF Calls, ToRead, Gathered, Elements
<1>3. \A i \in 1 .. Len(w) : i \in k + 1 .. Len(w) \/ (i \in 1 .. Len(v) /\ v[i] = w[i])
  BY <1>1, <1>2
<1>4. \A x \in ToRead(w) : x \in ToRead(v) \/ \E i \in k + 1 .. Len(w) : x \in Elements(w[i].rest)
  <2> SUFFICES ASSUME NEW x \in ToRead(w) PROVE x \in ToRead(v) \/ \E i \in k + 1 .. Len(w) : x \in Elements(w[i].rest)
    OBVIOUS
  <2>1. PICK i \in 1 .. Len(w) : x \in Elements(w[i].rest)
    BY <1>1
  <2> QED BY <1>2, <1>3, <2>1, Zenon
<1>5. \A x \in Gathered(w, pages) : x \in Gathered(v, pages) \/ \E i \in k + 1 .. Len(w) : x \in Elements(w[i].urls)
  <2> SUFFICES ASSUME NEW x \in Gathered(w, pages)
               PROVE  x \in Gathered(v, pages) \/ \E i \in k + 1 .. Len(w) : x \in Elements(w[i].urls)
    OBVIOUS
  <2>1. PICK i \in 1 .. Len(w) : x \in Elements(w[i].urls)
    BY <1>1
  <2> QED BY <1>2, <1>3, <2>1, Zenon
<1>6. \A i \in 1 .. Len(v) : Elements(v[i].rest) \subseteq ToRead(v) /\ Elements(v[i].urls) \subseteq Gathered(v, pages)
  BY <1>2, Zenon
<1> QED BY <1>4, <1>5, <1>6

\* An opened file is followed by all it has, unless the walk is cut short.
LEMMA OpensKeeps ==
    ASSUME site \in Sites, walk \in Seq(Calls), walk # <<>>, Opens, ~truncated', NEW pages
    PROVE  /\ walk' # <<>>
           /\ Keeps({Head(Top.rest)}, site, ToRead(walk), Gathered(walk, pages), ToRead(walk'), Gathered(walk', pages))
<1> DEFINE file == Head(Top.rest)
           has  == site.has[file]
<1>0. PICK n \in Nat : n = Len(walk)
  OBVIOUS
<1>1. /\ Top.rest # <<>> /\ file \in Files /\ walk' \in Seq(Calls) /\ \A i \in 1 .. n - 1 : walk'[i] = walk[i]
      /\ \/ /\ site.kind[file] = "index" /\ Len(walk') = n + 1 /\ ~(Len(has) > MaxNested)
            /\ walk'[n] = [rest |-> Tail(Top.rest), urls |-> Top.urls]
            /\ walk'[n + 1] = [rest |-> First(has, MaxNested), urls |-> <<>>]
         \/ /\ site.kind[file] # "index" /\ Len(walk') = n /\ ~(Len(has) > MaxPerFile)
            /\ walk'[n] = [rest |-> Tail(Top.rest), urls |-> Top.urls \o First(has, MaxPerFile)]
  BY <1>0, OpensDoes
<1>2. /\ n \in Nat \ {0} /\ Top = walk[n] /\ Top.urls \in Seq(SiteUrls)
      /\ Elements(Top.rest) = {file} \cup Elements(Tail(Top.rest))
  BY <1>0, <1>1, TopIs DEF Top
<1>3. has \in Seq(SiteUrls)
  BY <1>1, FileHas
<1> HIDE DEF file, has, Calls, Elements
<1>4. /\ Elements(First(has, MaxNested)) = Elements(has) \/ Len(has) > MaxNested
      /\ Elements(First(has, MaxPerFile)) = Elements(has) \/ Len(has) > MaxPerFile
      /\ First(has, MaxPerFile) \in Seq(SiteUrls)
  BY <1>3, AllOfThem, FirstIs, Discovering
<1>5. Elements(Top.urls \o First(has, MaxPerFile)) = Elements(Top.urls) \cup Elements(First(has, MaxPerFile))
  BY <1>2, <1>4, ElementsOfConcat
<1>a. \A c, x, y : c = [rest |-> x, urls |-> y] => c.rest = x /\ c.urls = y
  OBVIOUS
<1>6. n - 1 \in Nat /\ n - 1 <= Len(walk') /\ n \in 1 .. Len(walk') /\ n - 1 + 1 .. Len(walk) = {n}
  BY <1>0, <1>1, <1>2
<1>7. walk' # <<>>
  BY <1>6
<1>8. /\ \A x \in ToRead(walk) : x \in ToRead(walk') \/ x \in Elements(Top.rest)
      /\ \A x \in Gathered(walk, pages) : x \in Gathered(walk', pages) \/ x \in Elements(Top.urls)
      /\ \A i \in 1 .. Len(walk') : Elements(walk'[i].rest) \subseteq ToRead(walk')
                                    /\ Elements(walk'[i].urls) \subseteq Gathered(walk', pages)
  <2>1. /\ \A x \in ToRead(walk) : x \in ToRead(walk') \/ \E i \in n - 1 + 1 .. Len(walk) : x \in Elements(walk[i].rest)
        /\ \A x \in Gathered(walk, pages) :
             x \in Gathered(walk', pages) \/ \E i \in n - 1 + 1 .. Len(walk) : x \in Elements(walk[i].urls)
        /\ \A i \in 1 .. Len(walk') : Elements(walk'[i].rest) \subseteq ToRead(walk')
                                      /\ Elements(walk'[i].urls) \subseteq Gathered(walk', pages)
    BY <1>1, <1>6, <1>7, CallsKept
  <2> QED BY <1>2, <1>6, <2>1, Zenon
<1> HIDE DEF ToRead, Gathered
<1>9. CASE site.kind[file] = "index"
  <2>1. Len(walk') = n + 1 /\ ~(Len(has) > MaxNested) /\ walk'[n].rest = Tail(Top.rest) /\ walk'[n].urls = Top.urls
        /\ walk'[n + 1].rest = First(has, MaxNested)
    <3>1. /\ Len(walk') = n + 1 /\ ~(Len(has) > MaxNested)
          /\ walk'[n] = [rest |-> Tail(Top.rest), urls |-> Top.urls]
          /\ walk'[n + 1] = [rest |-> First(has, MaxNested), urls |-> <<>>]
      BY <1>1, <1>9, Zenon
    <3> QED BY <1>a, <3>1
  <2>2. n + 1 \in 1 .. Len(walk')
    BY <1>2, <2>1
  <2>3. /\ Elements(Tail(Top.rest)) \subseteq ToRead(walk') /\ Elements(Top.urls) \subseteq Gathered(walk', pages)
        /\ Elements(has) \subseteq ToRead(walk')
    BY <1>4, <1>6, <1>8, <2>1, <2>2, Zenon
  <2>4. "index" # "pages"
    OBVIOUS
  <2> QED BY <1>1, <1>2, <1>7, <1>8, <1>9, <2>3, <2>4 DEF Keeps, Files, file, has
<1>10. CASE site.kind[file] # "index"
  <2>1. ~(Len(has) > MaxPerFile) /\ walk'[n].rest = Tail(Top.rest) /\ walk'[n].urls = Top.urls \o First(has, MaxPerFile)
    <3>1. ~(Len(has) > MaxPerFile) /\ walk'[n] = [rest |-> Tail(Top.rest), urls |-> Top.urls \o First(has, MaxPerFile)]
      BY <1>1, <1>10, Zenon
    <3> QED BY <1>a, <3>1
  <2>2. Elements(Top.urls \o First(has, MaxPerFile)) = Elements(Top.urls) \cup Elements(has)
    BY <1>4, <1>5, <2>1
  <2>3. /\ Elements(Tail(Top.rest)) \subseteq ToRead(walk')
        /\ Elements(Top.urls) \cup Elements(has) \subseteq Gathered(walk', pages)
    BY <1>6, <1>8, <2>1, <2>2, Zenon
  <2> QED BY <1>1, <1>2, <1>7, <1>8, <1>10, <2>3 DEF Keeps, Files, file, has
<1> QED BY <1>9, <1>10

\* A call gives all it has found to its caller, or to the discovery.
LEMMA ReturnKeeps ==
    ASSUME site \in Sites, walk \in Seq(Calls), walk # <<>>, Return, ~truncated',
           outcome \in [sitemap : Statuses, feed : Statuses, pages : Seq(SiteUrls), entries : Seq(SiteUrls)]
    PROVE  Keeps({}, site, ToRead(walk), Gathered(walk, outcome.pages), ToRead(walk'), Gathered(walk', outcome'.pages))
<1>0. PICK n \in Nat : n = Len(walk)
  OBVIOUS
<1>1. /\ Top.rest = <<>>
      /\ \/ /\ n > 1 /\ outcome' = outcome
            /\ walk' \in Seq(Calls) /\ Len(walk') = n - 1 /\ \A i \in 1 .. n - 2 : walk'[i] = walk[i]
            /\ walk'[n - 1] = [rest |-> walk[n - 1].rest, urls |-> walk[n - 1].urls \o Top.urls]
         \/ n = 1 /\ walk' = <<>> /\ outcome' = [outcome EXCEPT !.pages = Top.urls]
  BY <1>0, ReturnDoes
<1>2. n \in Nat \ {0} /\ Top = walk[n] /\ Top.urls \in Seq(SiteUrls) /\ Elements(Top.rest) = {}
  BY <1>0, <1>1, TopIs DEF Top, Elements
<1>3. CASE n > 1 /\ outcome' = outcome /\ walk' \in Seq(Calls) /\ Len(walk') = n - 1
           /\ (\A i \in 1 .. n - 2 : walk'[i] = walk[i])
           /\ walk'[n - 1] = [rest |-> walk[n - 1].rest, urls |-> walk[n - 1].urls \o Top.urls]
  <2> DEFINE rest == walk[n - 1].rest
             urls == walk[n - 1].urls
  <2>1. urls \in Seq(SiteUrls)
    <3>1. walk[n - 1] \in Calls
      <4> HIDE DEF Calls
      <4> QED BY <1>0, <1>2, <1>3
    <3> QED BY <3>1 DEF Calls
  <2> HIDE DEF rest, urls, Calls, Elements
  <2>2. Elements(urls \o Top.urls) = Elements(urls) \cup Elements(Top.urls)
    BY <1>2, <2>1, ElementsOfConcat
  <2>3. walk'[n - 1].rest = rest /\ walk'[n - 1].urls = urls \o Top.urls
    <3>1. walk'[n - 1] = [rest |-> rest, urls |-> urls \o Top.urls]
      BY <1>3 DEF rest, urls
    <3>2. \A c, x, y : c = [rest |-> x, urls |-> y] => c.rest = x /\ c.urls = y
      OBVIOUS
    <3> QED BY <3>1, <3>2, Zenon
  <2>4. n - 2 \in Nat /\ n - 2 <= Len(walk') /\ n - 1 \in 1 .. Len(walk') /\ n - 2 + 1 .. Len(walk) = {n - 1, n}
    BY <1>0, <1>2, <1>3
  <2>5. walk' # <<>>
    BY <2>4
  <2>6. /\ \A x \in ToRead(walk) : x \in ToRead(walk') \/ \E i \in n - 2 + 1 .. Len(walk) : x \in Elements(walk[i].rest)
        /\ \A x \in Gathered(walk, outcome.pages) :
             x \in Gathered(walk', outcome.pages) \/ \E i \in n - 2 + 1 .. Len(walk) : x \in Elements(walk[i].urls)
        /\ \A i \in 1 .. Len(walk') : Elements(walk'[i].rest) \subseteq ToRead(walk')
                                      /\ Elements(walk'[i].urls) \subseteq Gathered(walk', outcome.pages)
    BY <1>3, <2>4, <2>5, CallsKept
  <2> HIDE DEF ToRead, Gathered
  <2>7. Elements(rest) \subseteq ToRead(walk')
        /\ Elements(urls) \cup Elements(Top.urls) \subseteq Gathered(walk', outcome.pages)
    BY <2>2, <2>3, <2>4, <2>6, Zenon
  <2>8. ToRead(walk) \subseteq ToRead(walk')
    <3> SUFFICES ASSUME NEW x \in ToRead(walk), x \notin ToRead(walk') PROVE FALSE
      OBVIOUS
    <3>1. x \in Elements(walk[n - 1].rest) \/ x \in Elements(walk[n].rest)
      BY <2>4, <2>6
    <3> QED BY <1>2, <2>7, <3>1, Zenon DEF rest
  <2>9. Gathered(walk, outcome.pages) \subseteq Gathered(walk', outcome.pages)
    <3> SUFFICES ASSUME NEW x \in Gathered(walk, outcome.pages), x \notin Gathered(walk', outcome.pages) PROVE FALSE
      OBVIOUS
    <3>1. x \in Elements(walk[n - 1].urls) \/ x \in Elements(walk[n].urls)
      BY <2>4, <2>6
    <3> QED BY <1>2, <2>7, <3>1 DEF urls
  <2> QED BY <1>3, <2>8, <2>9 DEF Keeps
<1>4. CASE n = 1 /\ walk' = <<>> /\ outcome' = [outcome EXCEPT !.pages = Top.urls]
  <2>1. outcome'.pages = Top.urls
    BY <1>4
  <2>2. /\ \A x : x \in ToRead(walk) <=> \E i \in 1 .. Len(walk) : x \in Elements(walk[i].rest)
        /\ \A x : x \in Gathered(walk, outcome.pages) <=> \E i \in 1 .. Len(walk) : x \in Elements(walk[i].urls)
    BY ElementsOfCalls
  <2>3. 1 .. Len(walk) = {n}
    BY <1>0, <1>4
  <2>4. Gathered(walk', outcome'.pages) = Elements(Top.urls)
    BY <1>4, <2>1 DEF Gathered
  <2> HIDE DEF ToRead, Gathered, Elements
  <2>5. ToRead(walk) = {} /\ Gathered(walk, outcome.pages) = Elements(Top.urls)
    BY <1>2, <2>2, <2>3
  <2> QED BY <2>4, <2>5 DEF Keeps
<1> QED BY <1>1, <1>3, <1>4

LEMMA CompleteInvInit == Init => CompleteInv
BY DEF Init, DiscoveryInit, NothingFound, CompleteInv, NothingLost

LEMMA CompleteInvStep ==
    ASSUME DiscoveryInv, CompleteInv, [Next]_vars
    PROVE  CompleteInv'
<1>0. /\ site \in Sites /\ walk \in Seq(Calls) /\ root \in Files
      /\ outcome \in [sitemap : Statuses, feed : Statuses, pages : Seq(SiteUrls), entries : Seq(SiteUrls)]
      /\ stage = "sitemap" => candidates \in Seq(Files)
      /\ stage = "walking" <=> walk # <<>>
      /\ stage \in Early => files = 0 /\ ~truncated /\ lost = {}
      /\ truncated \in BOOLEAN
  BY DEF DiscoveryInv, WalkInv
<1> SUFFICES ASSUME NothingLost'
             PROVE  \E T : Covers(T, site', root', ToRead(walk'), Gathered(walk', outcome'.pages))
  BY DEF CompleteInv, ToRead, Gathered
<1> DEFINE Goal == \E T : Covers(T, site', root', ToRead(walk'), Gathered(walk', outcome'.pages))
<1>1. purpose' = "crawl" /\ outcome'.sitemap = "available" /\ ~truncated' /\ lost' = {}
  BY DEF NothingLost
<1>2. ASSUME UNCHANGED <<site, purpose, root, walk, truncated, lost>>, outcome'.pages = outcome.pages,
             outcome'.sitemap = outcome.sitemap
      PROVE  Goal
  <2>1. NothingLost
    BY <1>1, <1>2 DEF NothingLost
  <2> QED BY <1>2, <2>1 DEF CompleteInv
<1>3. CASE stage = "sitemap" /\ candidates # <<>> /\ purpose = "crawl" /\ SitemapFound(Head(candidates))
  <2> DEFINE file == Head(candidates)
  <2>1. site' = site /\ root' = file /\ walk' = <<[rest |-> <<file>>, urls |-> <<>>]>>
    BY <1>3 DEF SitemapFound
  <2> HIDE DEF file
  <2>2. DOMAIN walk' = {1} /\ walk'[1].rest = <<file>>
    BY <2>1
  <2>3. Elements(<<file>>) = {file}
    BY DEF Elements
  <2>4. ToRead(walk') = {file}
    BY <2>2, <2>3 DEF ToRead
  <2> HIDE DEF ToRead, Gathered
  <2>5. Covers({}, site', root', ToRead(walk'), Gathered(walk', outcome'.pages))
    BY <2>1, <2>4 DEF Covers
  <2> QED BY <2>5
<1>4. ASSUME walk # <<>>, UNCHANGED <<site, purpose, root, lost>>, truncated => truncated',
             outcome'.sitemap = outcome.sitemap,
             NEW A, Keeps(A, site, ToRead(walk), Gathered(walk, outcome.pages), ToRead(walk'), Gathered(walk', outcome'.pages))
      PROVE  Goal
  <2>1. NothingLost
    BY <1>1, <1>4 DEF NothingLost
  <2>2. PICK S : Covers(S, site, root, ToRead(walk), Gathered(walk, outcome.pages))
    BY <2>1 DEF CompleteInv
  <2> HIDE DEF ToRead, Gathered
  <2>3. \E T : Covers(T, site, root, ToRead(walk'), Gathered(walk', outcome'.pages))
    BY <1>4, <2>2, CoversOn
  <2> QED BY <1>4, <2>3
<1>5. CASE MayOpen /\ Lose(Head(Top.rest))
  BY <1>1, <1>5 DEF Lose
<1>6. CASE Opens
  <2>0. walk # <<>>
    BY <1>0, <1>6 DEF Opens, OpenFile, MayOpen
  <2>1. /\ UNCHANGED <<site, purpose, root, lost, outcome>> /\ (truncated => truncated')
    BY <1>0, <1>6, <2>0, OpensDoes
  <2>2. Keeps({Head(Top.rest)}, site, ToRead(walk), Gathered(walk, outcome.pages), ToRead(walk'), Gathered(walk', outcome.pages))
    BY <1>0, <1>1, <1>6, <2>0, OpensKeeps
  <2> HIDE DEF ToRead, Gathered
  <2> QED BY <1>4, <2>0, <2>1, <2>2
<1>7. CASE Return
  <2>0. walk # <<>>
    BY <1>0, <1>7 DEF Return
  <2>1. UNCHANGED <<site, purpose, root, lost>> /\ (truncated => truncated')
    BY <1>0, <1>7, <2>0, ReturnDoes
  <2>2. outcome'.sitemap = outcome.sitemap
    <3>1. outcome' = outcome \/ outcome' = [outcome EXCEPT !.pages = Top.urls]
      BY <1>0, <1>7, <2>0, ReturnDoes
    <3> QED BY <1>0, <3>1
  <2>3. Keeps({}, site, ToRead(walk), Gathered(walk, outcome.pages), ToRead(walk'), Gathered(walk', outcome'.pages))
    BY <1>0, <1>1, <1>7, <2>0, ReturnKeeps
  <2> HIDE DEF ToRead, Gathered
  <2> QED BY <1>4, <2>0, <2>1, <2>2, <2>3
<1>8. DiscoveryAct
  BY DiscoveryActs
<1>9. \/ /\ UNCHANGED <<site, purpose, root, walk, truncated, lost>> /\ outcome'.pages = outcome.pages
         /\ outcome'.sitemap = outcome.sitemap
      \/ stage = "sitemap" /\ candidates # <<>> /\ purpose = "crawl" /\ SitemapFound(Head(candidates))
      \/ Opens \/ (MayOpen /\ Lose(Head(Top.rest))) \/ Return
  <2>1. /\ \A status : [outcome EXCEPT !.sitemap = status].sitemap = status
        /\ \A status : [outcome EXCEPT !.feed = status].pages = outcome.pages
        /\ \A status : [outcome EXCEPT !.feed = status].sitemap = outcome.sitemap
        /\ \A urls : [outcome EXCEPT !.entries = urls].pages = outcome.pages
        /\ \A urls : [outcome EXCEPT !.entries = urls].sitemap = outcome.sitemap
    BY <1>0
  <2>2. CASE UNCHANGED discoveryVars
    BY <2>2 DEF discoveryVars
  <2>3. CASE \E listed \in Seq(Files) : AfterRobots(listed)
    BY <2>3 DEF AfterRobots
  <2>4. CASE \E what \in Statuses : NoUse(what) /\ candidates # <<>> /\ stage \in {"sitemap", "feeds"}
    BY <2>4 DEF NoUse
  <2>5. ~ \E status \in Statuses :
               stage = "sitemap" /\ SitemapIs(status) /\ (status = "available" => purpose = "preflight")
    <3> SUFFICES ASSUME NEW status \in Statuses,
                        stage = "sitemap" /\ SitemapIs(status) /\ (status = "available" => purpose = "preflight")
                 PROVE  FALSE
      OBVIOUS
    <3>1. outcome' = [outcome EXCEPT !.sitemap = status] /\ purpose' = purpose
      BY DEF SitemapIs
    <3>2. status = "available"
      BY <1>1, <2>1, <3>1
    <3> QED BY <1>1, <3>1, <3>2
  <2>6. CASE \E status \in Statuses : stage = "feeds" /\ FeedIs(status)
    BY <2>1, <2>6 DEF FeedIs
  <2>7. CASE \E urls \in Seq(SiteUrls) : Entries(urls)
    BY <2>1, <2>7 DEF Entries
  <2>8. CASE \E columns \in [sitemap : Statuses, feed : Statuses, pages : Nat, entries : Nat] : Recorded(columns)
    BY <2>8 DEF Recorded
  <2>9. CASE \E s \in Stages \ {"walking", "sitemap"} :
               Go(s) /\ purpose = "preflight" /\ stage # "walking" /\ (s \in Early => stage \in Early)
    BY <2>9 DEF Go
  <2> QED BY <1>8, <2>2, <2>3, <2>4, <2>5, <2>6, <2>7, <2>8, <2>9 DEF DiscoveryAct
<1> QED BY <1>2, <1>3, <1>5, <1>6, <1>7, <1>9

\* UntruncatedIsComplete (sitemap_discovery.py:34).  Whatever the files of a
\* site list, whichever of them list one another, and whatever the limits: a
\* walk that reports no truncation and lost no file has found every page of
\* every file the sitemap leads to.
THEOREM WholeWalkIsComplete == Spec => []UntruncatedIsComplete
<1>1. Init => DiscoveryInv /\ CompleteInv
  BY DiscoveryInvInit, CompleteInvInit
<1>2. (DiscoveryInv /\ CompleteInv) /\ [Next]_vars => (DiscoveryInv /\ CompleteInv)'
  BY DiscoveryInvStep, CompleteInvStep
<1>3. DiscoveryInv /\ CompleteInv => UntruncatedIsComplete
  <2> SUFFICES ASSUME DiscoveryInv, CompleteInv, NothingLost, stage # "walking",
                      NEW f \in Reached, site.kind[f] = "pages"
               PROVE  Elements(site.has[f]) \subseteq Elements(outcome.pages)
    BY DEF UntruncatedIsComplete, NothingLost
  <2>1. walk = <<>>
    BY DEF DiscoveryInv, WalkInv
  <2>2. ToRead(walk) = {} /\ Gathered(walk, outcome.pages) = Elements(outcome.pages)
    BY <2>1 DEF ToRead, Gathered
  <2>3. PICK S : Covers(S, site, root, ToRead(walk), Gathered(walk, outcome.pages))
    BY DEF CompleteInv
  <2>4. S \in SUBSET DOMAIN site.kind /\ root \in S /\ SelfContained(S)
    BY <2>2, <2>3 DEF Covers, SelfContained
  <2>5. f \in S
    BY <2>4 DEF Reached
  <2> QED BY <2>2, <2>3, <2>5 DEF Covers
<1> QED BY <1>1, <1>2, <1>3, PTL DEF Spec

-----------------------------------------------------------------------------
(***************************************************************************)
(* Listings.  A URL that was given out is being worked on, or what it      *)
(* leads to is known, unless the fetch failed, the crawl broke or the      *)
(* budget for pagination is used up.                                       *)
(***************************************************************************)

NextPage(u) == DetectPagination(Shows(site, u), u)

Followed(u) ==
    broken \/ u \in unread \/ paginated >= MaxPagination \/ NextPage(u) = NoPage \/ NextPage(u) \in known

ListInv == \A u \in known \ pending : (\E t \in Tasks : page[t] = u) \/ Followed(u)

\* The next page a listing names is the one that is found.
LEMMA NamedIsFound ==
    ASSUME NEW shown, NEW u \in Nat, NEW k \in Nat \ {0}, NamesNext(shown, u, u + k)
    PROVE  DetectPagination(shown, u) = u + k
<1>0. NoPage \notin Nat /\ u + k \in Nat /\ u + k > u /\ u + k # NoPage
  BY PaginationAssumption
<1>1. CASE shown.rel = u + k
  BY <1>0, <1>1 DEF DetectPagination
<1>2. CASE shown.rel = NoPage /\ shown.text = u + k
  BY <1>0, <1>2 DEF DetectPagination
<1>3. CASE /\ shown.rel = NoPage /\ shown.text = NoPage /\ u + k <= MaxOffset
           /\ shown.offsets \subseteq Nat /\ u + k \in shown.offsets
           /\ \A v \in shown.offsets : v > u => v >= u + k
  <2> DEFINE greater == {v \in shown.offsets : v > u}
             ahead   == {u + s : s \in {s \in InferStep(u, shown.offsets) : u + s <= MaxOffset}}
  <2>1. u + k \in greater /\ \A v \in greater : v \in Nat /\ u + k <= v
    BY <1>0, <1>3
  <2>2. Min(greater) = u + k
    <3> HIDE DEF greater
    <3>1. \A x \in greater : (\A y \in greater : x <= y) => x = u + k
      BY <1>0, <2>1
    <3> QED BY <2>1, <3>1, Zenon DEF Min
  <2>3. InferStep(u, shown.offsets) = {k}
    <3>1. greater # {}
      BY <2>1
    <3>2. InferStep(u, shown.offsets) = {Min(greater) - u}
      BY <3>1 DEF InferStep
    <3> HIDE DEF greater
    <3>3. Min(greater) - u = k
      BY <2>2
    <3> QED BY <3>2, <3>3
  <2>4. ahead = {u + k}
    BY <1>3, <2>3
  <2>5. OffsetPagination(shown.offsets, u) = IF ahead = {} THEN NoPage ELSE CHOOSE v \in ahead : TRUE
    BY DEF OffsetPagination, HasOffset
  <2>6. OffsetPagination(shown.offsets, u) = u + k
    <3> HIDE DEF ahead
    <3> QED BY <2>4, <2>5
  <2> QED BY <1>0, <1>3, <2>6 DEF DetectPagination, HasOffset
<1> QED BY <1>1, <1>2, <1>3 DEF NamesNext

LEMMA SiteStays ==
    ASSUME DiscoveryInv, [Next]_vars
    PROVE  site' = site
BY DiscoveryActs
   DEF DiscoveryAct, AfterRobots, NoUse, SitemapIs, SitemapFound, Lose, Opens, OpenFile, Return, FeedIs, Entries,
       Recorded, Go, discoveryVars

LEMMA ListInvStep ==
    ASSUME DiscoveryInv, ReadingInv, ListInv, [Next]_vars
    PROVE  ListInv'
<1>0. /\ pending \subseteq known /\ NoPage \notin known /\ page \in [Tasks -> known \cup {NoPage}]
      /\ \A t \in Tasks : (page[t] = NoPage) <=> (at[t] = "idle")
      /\ paginated \in Nat /\ MaxPagination \in Nat
  BY ReadingAssumption DEF ReadingInv
<1>1. \A u : NextPage(u)' = NextPage(u)
  BY SiteStays DEF NextPage
<1>2. \A t \in Tasks : NextOf(t) = NextPage(page[t])
  BY DEF NextOf, NextPage
<1> HIDE DEF NextPage, NextOf
<1>3. ASSUME broken => broken', unread \subseteq unread', paginated' \in {paginated, paginated + 1}, known \subseteq known'
      PROVE  \A u : Followed(u) => Followed(u)'
  BY <1>0, <1>1, <1>3 DEF Followed
<1>4. CASE UNCHANGED readingVars
  <2>1. \A u : Followed(u) => Followed(u)'
    BY <1>3, <1>4 DEF readingVars
  <2> QED BY <1>4, <2>1 DEF ListInv, readingVars
<1>5. CASE StartCrawl
  BY <1>5 DEF StartCrawl, ListInv
<1>6. ASSUME NEW t \in Tasks, TaskStep(t) PROVE ListInv'
  <2>1. CASE StartPage(t)
    <3>1. at[t] = "idle" /\ UNCHANGED <<known, adding, paginated, unread, broken>>
      BY <2>1 DEF StartPage, Begin
    <3>2. PICK w \in pending : pending' = pending \ {w} /\ page' = [page EXCEPT ![t] = w]
      BY <2>1 DEF StartPage
    <3>3. \A u : Followed(u) => Followed(u)'
      BY <1>3, <3>1
    <3>4. page'[t] = w /\ page[t] = NoPage /\ \A s \in Tasks \ {t} : page'[s] = page[s]
      BY <1>0, <3>1, <3>2
    <3>5. ASSUME NEW u \in known \ pending PROVE (\E s \in Tasks : page'[s] = u) \/ Followed(u)'
      <4>1. CASE Followed(u)
        BY <3>3, <4>1
      <4>2. CASE \E s \in Tasks : page[s] = u
        <5>1. PICK s \in Tasks : page[s] = u
          BY <4>2
        <5>2. s # t
          BY <1>0, <3>4, <5>1
        <5> QED BY <3>4, <5>1, <5>2
      <4> QED BY <4>1, <4>2 DEF ListInv
    <3>6. \A u \in known' \ pending' : u = w \/ u \in known \ pending
      BY <3>1, <3>2
    <3> QED BY <3>4, <3>5, <3>6 DEF ListInv
  <2>2. CASE FetchPage(t)
    BY <1>4, <2>2 DEF FetchPage
  <2>3. CASE Follow(t)
    <3>1. UNCHANGED <<known, pending, page, paginated, unread, broken>>
      BY <2>3 DEF Follow
    <3>2. \A u : Followed(u) => Followed(u)'
      BY <1>3, <3>1
    <3> QED BY <3>1, <3>2 DEF ListInv
  <2>w. PICK w : w = page[t]
    OBVIOUS
  <2>4. ASSUME page' = [page EXCEPT ![t] = NoPage], known \subseteq known', known' \ pending' \subseteq known \ pending,
               broken => broken', unread \subseteq unread', paginated' \in {paginated, paginated + 1},
               Followed(w)'
        PROVE  ListInv'
    <3>1. \A u : Followed(u) => Followed(u)'
      BY <1>3, <2>4
    <3>2. \A s \in Tasks \ {t} : page'[s] = page[s]
      BY <1>0, <2>4
    <3>3. ASSUME NEW u \in known \ pending PROVE (\E s \in Tasks : page'[s] = u) \/ Followed(u)'
      <4>1. CASE Followed(u)
        BY <3>1, <4>1
      <4>2. CASE \E s \in Tasks : page[s] = u
        <5>1. PICK s \in Tasks : page[s] = u
          BY <4>2
        <5>2. CASE s = t
          BY <2>4, <2>w, <5>1, <5>2
        <5>3. CASE s # t
          BY <3>2, <5>1, <5>3
        <5> QED BY <5>2, <5>3
      <4> QED BY <4>1, <4>2 DEF ListInv
    <3> QED BY <2>4, <3>3 DEF ListInv
  <2>5. CASE LeadsNowhere(t)
    <3>1. page' = [page EXCEPT ![t] = NoPage] /\ UNCHANGED <<known, pending, paginated, unread, broken>>
      BY <2>5 DEF LeadsNowhere, Leave
    <3>2. NextPage(w) = NoPage \/ paginated >= MaxPagination
      BY <1>0, <1>2, <2>w, <2>5 DEF LeadsNowhere, MayFollow
    <3>3. Followed(w) /\ (Followed(w) => Followed(w)')
      BY <1>3, <3>1, <3>2 DEF Followed
    <3> QED BY <2>4, <3>1, <3>3
  <2>6. CASE Enqueue(t)
    <3>1. /\ page' = [page EXCEPT ![t] = NoPage] /\ known' = known \cup {NextPage(w)}
          /\ pending' = pending \cup ({NextPage(w)} \ known) /\ paginated' = paginated + 1
          /\ UNCHANGED <<unread, broken>>
      BY <1>2, <2>w, <2>6 DEF Enqueue
    <3>2. Followed(w)'
      BY <1>1, <3>1 DEF Followed
    <3> QED BY <2>4, <3>1, <3>2
  <2>7. CASE GiveUp(t)
    <3>1. page' = [page EXCEPT ![t] = NoPage] /\ unread' = unread \cup {w} /\ UNCHANGED <<known, pending, paginated, broken>>
      BY <2>w, <2>7 DEF GiveUp, Leave
    <3>2. Followed(w)'
      BY <3>1 DEF Followed
    <3> QED BY <2>4, <3>1, <3>2
  <2>8. CASE Break(t)
    <3>1. page' = [page EXCEPT ![t] = NoPage] /\ broken' = TRUE /\ UNCHANGED <<known, pending, paginated, unread>>
      BY <2>8 DEF Break, Leave
    <3>2. Followed(w)'
      BY <3>1 DEF Followed
    <3> QED BY <2>4, <3>1, <3>2
  <2> QED BY <1>6, <2>1, <2>2, <2>3, <2>5, <2>6, <2>7, <2>8 DEF TaskStep
<1>7. CASE Discover \/ Assess
  BY <1>4, <1>7 DEF Discover, Assess
<1>8. CASE UNCHANGED vars
  BY <1>4, <1>8 DEF vars
<1> QED BY <1>5, <1>6, <1>7, <1>8 DEF Next

\* ListingIsRead (pagination.py:35).  Whatever the listings, the number of
\* tasks and the order in which they work: when a crawl has come to rest that
\* did not break, whose fetches succeeded and whose budget was left over, the
\* next page is known of every page of a listing that is.
THEOREM ListingsAreRead == Spec => []ListingIsRead
<1>1. Init => ListInv
  BY DEF Init, ListInv
<1>2. ReadInv /\ ListInv /\ [Next]_vars => ListInv'
  BY ListInvStep DEF ReadInv
<1>3. ReadInv /\ ListInv => ListingIsRead
  <2> SUFFICES ASSUME ReadInv, ListInv, pending = {}, \A t \in Tasks : at[t] = "idle",
                      ~broken, unread = {}, paginated < MaxPagination,
                      NEW u \in site.listing \ {site.last}, u \in known
               PROVE  Successor[u] \in known
    BY DEF ListingIsRead
  <2>1. /\ u \in Nat /\ site.step \in Nat \ {0} /\ NamesNext(Shows(site, u), u, u + site.step)
    BY ListingAssumption DEF ReadInv, DiscoveryInv
  <2>2. NextPage(u) = u + site.step
    BY <2>1, NamedIsFound DEF NextPage
  <2>3. \A t \in Tasks : page[t] # u
    BY DEF ReadInv, ReadingInv
  <2>4. ~(paginated >= MaxPagination) /\ NextPage(u) # NoPage
    <3>1. paginated \in Nat /\ MaxPagination \in Nat /\ NoPage \notin Nat
      BY PaginationAssumption, ReadingAssumption DEF ReadInv, ReadingInv
    <3> HIDE DEF NextPage
    <3> QED BY <2>1, <2>2, <3>1
  <2>5. NextPage(u) \in known
    BY <2>3, <2>4 DEF ListInv, Followed
  <2> QED BY <2>1, <2>2, <2>5 DEF Successor
<1> QED BY <1>1, <1>2, <1>3, ReadInvHolds, PTL DEF Spec

=============================================================================
