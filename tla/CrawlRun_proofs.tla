--------------------------- MODULE CrawlRun_proofs ---------------------------
(***************************************************************************)
(* Type correctness of CrawlRun, and how far its budgets can be exceeded,  *)
(* for any site, any concurrency and any budgets.                          *)
(***************************************************************************)
EXTENDS CrawlRun, FiniteSetTheorems, TLAPS

LEMMA TypeInit == Init => TypeOK
<1> SUFFICES ASSUME Init PROVE TypeOK
  OBVIOUS
<1>1. Cardinality(Seeds) \in Nat
  BY FS_CardinalityType, RunAssumption
<1>2. todo \in [Urls -> Seq(Urls)] /\ adding \in [Urls -> Urls \cup {NoUrl}]
  <2>1. <<>> \in Seq(Urls)
    OBVIOUS
  <2> QED BY <2>1 DEF Init
<1>3. /\ queue \in [Urls -> {"unknown", "pending", "taken", "handled"}]
      /\ depth \in [Urls -> Nat] /\ phase \in [Urls -> Phases]
  BY DEF Init, Phases
<1>4. /\ attempted \in Nat /\ discovered \in Nat /\ paginated \in Nat
      /\ browsed \in Nat /\ raises \in Nat
  BY <1>1, RunAssumption DEF Init
<1>5. read = {} /\ browser = {} /\ rejected = {} /\ inFlight = {}
  BY DEF Init
<1> QED BY <1>2, <1>3, <1>4, <1>5 DEF Init, TypeOK

LEMMA TypeNext == TypeOK /\ [Next]_vars => TypeOK'
<1> SUFFICES ASSUME TypeOK, [Next]_vars PROVE TypeOK'
  OBVIOUS
<1> USE RunAssumption
<1>1. ASSUME NEW u \in Urls, PageStep(u) PROVE TypeOK'
  <2>1. CASE Skip(u)
    BY <2>1 DEF Skip, TypeOK, Goto, Handle, Phases, jobVars, loopVars, stats
  <2>2. CASE Route(u)
    <3>1. phase' \in [Urls -> Phases]
      BY <2>2 DEF Route, TypeOK, Goto, Phases, Working
    <3>2. browser' \subseteq Urls
      BY <2>2 DEF Route, TypeOK
    <3>3. UNCHANGED <<jobVars, queueVars, loopVars, read, todo, adding, stats, rejected, raises>>
      BY <2>2 DEF Route
    <3> QED BY <3>1, <3>2, <3>3 DEF TypeOK, jobVars, queueVars, loopVars, stats
  <2>3. CASE FetchFails(u)
    BY <2>3 DEF FetchFails, TypeOK, Goto, Handle, Phases, jobVars, loopVars, stats
  <2>4. CASE FetchedOther(u)
    BY <2>4 DEF FetchedOther, TypeOK, Goto, Phases, Working, jobVars, queueVars, loopVars, stats
  <2>5. CASE Escalate(u)
    BY <2>5 DEF Escalate, TypeOK, Goto, Phases, Working, jobVars, queueVars, loopVars, stats
  <2>6. CASE Extracted(u)
    <3>1. (IF NextPage[u] = NoUrl THEN <<>> ELSE <<NextPage[u]>>) \in Seq(Urls)
      OBVIOUS
    <3> QED BY <2>6, <3>1 DEF Extracted, TypeOK, Goto, Phases, Working, Enqueueing, jobVars, queueVars, loopVars, stats
  <2>7. CASE Resolve(u)
    <3>1. Head(todo[u]) \in Urls /\ Tail(todo[u]) \in Seq(Urls)
      BY <2>7 DEF Resolve, TypeOK
    <3> QED BY <2>7, <3>1 DEF Resolve, TypeOK, jobVars, queueVars, loopVars, stats
  <2>8. CASE Refuse(u)
    BY <2>8 DEF Refuse, TypeOK, jobVars, queueVars, loopVars, stats
  <2>9. CASE Enqueue(u)
    <3>1. adding[u] \in Urls /\ depth[u] \in Nat
      BY <2>9 DEF Enqueue, TypeOK
    <3>2. queue' \in [Urls -> {"unknown", "pending", "taken", "handled"}]
      BY <2>9, <3>1 DEF Enqueue, TypeOK
    <3>3. depth' \in [Urls -> Nat]
      <4>1. depth \in [Urls -> Nat]
        BY DEF TypeOK
      <4>2. \E d \in Nat : depth' = [depth EXCEPT ![adding[u]] = d]
        <5>1. (IF queue[adding[u]] # "unknown" THEN depth[adding[u]]
               ELSE IF phase[u] = "paginating" THEN depth[u] ELSE depth[u] + 1) \in Nat
          BY <3>1, <4>1
        <5> QED BY <2>9, <5>1 DEF Enqueue
      <4> QED BY <4>1, <4>2
    <3>4. discovered' \in Nat /\ paginated' \in Nat /\ UNCHANGED <<attempted, browsed, raises>>
      BY <2>9 DEF Enqueue, TypeOK
    <3>5. adding' \in [Urls -> Urls \cup {NoUrl}]
      BY <2>9 DEF Enqueue, TypeOK
    <3>6. UNCHANGED <<jobVars, loopVars, phase, read, browser, todo, rejected>>
      BY <2>9 DEF Enqueue
    <3> QED BY <3>2, <3>3, <3>4, <3>5, <3>6 DEF TypeOK, jobVars, loopVars
  <2>10. CASE ListItems(u)
    <3>1. (IF depth[u] < MaxDepth THEN Items[u] ELSE <<>>) \in Seq(Urls)
      OBVIOUS
    <3> QED BY <2>10, <3>1 DEF ListItems, TypeOK, Goto, Phases, Working, Enqueueing, jobVars, queueVars, loopVars, stats
  <2>11. CASE ItemsListed(u)
    BY <2>11 DEF ItemsListed, TypeOK, Goto, Phases, Working, jobVars, queueVars, loopVars, stats
  <2>12. CASE Store(u)
    <3>1. (IF u \in read /\ depth[u] < MaxDepth THEN Links[u] ELSE <<>>) \in Seq(Urls)
      OBVIOUS
    <3>2. browsed' \in Nat
      BY <2>12 DEF Store, TypeOK
    <3>3. todo' \in [Urls -> Seq(Urls)]
      BY <2>12, <3>1 DEF Store, TypeOK
    <3>4. phase' \in [Urls -> Phases]
      BY <2>12 DEF Store, TypeOK, Goto, Phases, Working, Enqueueing
    <3>5. UNCHANGED <<jobVars, queueVars, loopVars, read, browser, adding, attempted, discovered,
                      paginated, rejected, raises>>
      BY <2>12 DEF Store
    <3> QED BY <3>2, <3>3, <3>4, <3>5 DEF TypeOK, jobVars, queueVars, loopVars
  <2>13. CASE Finish(u)
    BY <2>13 DEF Finish, TypeOK, Goto, Handle, Phases, jobVars, loopVars, stats
  <2> QED BY <1>1, <2>1, <2>2, <2>3, <2>4, <2>5, <2>6, <2>7, <2>8, <2>9, <2>10, <2>11, <2>12, <2>13 DEF PageStep
<1>2. ASSUME NEW u \in Urls, Raise(u) PROVE TypeOK'
  <2>1. raises' \in Nat
    BY <1>2 DEF Raise, TypeOK
  <2>2. phase' \in [Urls -> Phases]
    BY <1>2 DEF Raise, TypeOK, Goto, Phases
  <2>3. UNCHANGED <<jobVars, queueVars, loopVars, read, browser, todo, adding, stats, rejected>>
    BY <1>2 DEF Raise
  <2> QED BY <2>1, <2>2, <2>3 DEF TypeOK, jobVars, queueVars, loopVars, stats
<1>3. ASSUME NEW u \in Urls, StartPage(u) PROVE TypeOK'
  <2>1. attempted' \in Nat /\ inFlight' \subseteq Urls
    BY <1>3 DEF StartPage, TypeOK
  <2>2. phase' \in [Urls -> Phases]
    BY <1>3 DEF StartPage, TypeOK, Goto, Phases, Working
  <2>3. queue' \in [Urls -> {"unknown", "pending", "taken", "handled"}]
    BY <1>3 DEF StartPage, TypeOK
  <2>4. UNCHANGED <<jobVars, depth, loop, verdict, read, browser, todo, adding, discovered,
                    paginated, browsed, rejected, raises>>
    BY <1>3 DEF StartPage
  <2> QED BY <2>1, <2>2, <2>3, <2>4 DEF TypeOK, jobVars
<1>4. CASE CheckCancelled
  BY <1>4 DEF CheckCancelled, TypeOK, jobVars, queueVars, taskVars, stats
<1>5. CASE Filled
  BY <1>5 DEF Filled, TypeOK, jobVars, queueVars, taskVars, stats
<1>6. CASE Collect
  BY <1>6 DEF Collect, TypeOK, jobVars, queueVars, taskVars, stats
<1>7. CASE Drained
  BY <1>7 DEF Drained, TypeOK, jobVars, queueVars, taskVars, stats
<1>8. CASE LoopRaises
  BY <1>8 DEF LoopRaises, TypeOK, jobVars, queueVars, taskVars, stats
<1>9. CASE RequestCancel
  BY <1>9 DEF RequestCancel, TypeOK, queueVars, loopVars, taskVars, stats
<1>10. CASE Thrown
  BY <1>10 DEF Thrown, TypeOK, jobVars, queueVars, taskVars, stats
<1>11. CASE UNCHANGED vars
  BY <1>11 DEF vars, TypeOK, jobVars, queueVars, loopVars, taskVars, stats
<1> QED BY <1>1, <1>2, <1>3, <1>4, <1>5, <1>6, <1>7, <1>8, <1>9, <1>10, <1>11 DEF Next, LoopStep

\* Every variable keeps its type.
THEOREM TypeCorrect == Spec => []TypeOK
<1> QED BY TypeInit, TypeNext, PTL DEF Spec

-----------------------------------------------------------------------------
(***************************************************************************)
(* Budgets.                                                                *)
(***************************************************************************)

\* Who works is in flight, and there is room for so many only; what a task
\* does not need yet is untouched.
CrewInv ==
    /\ IsFiniteSet(inFlight) /\ Cardinality(inFlight) <= Concurrency
    /\ \A u \in Urls :
         /\ phase[u] \in Working => u \in inFlight
         /\ queue[u] \in {"unknown", "pending"} => phase[u] = "absent"
         /\ phase[u] \in {"absent", "routing"} => u \notin browser
         /\ phase[u] \notin Enqueueing \cup {"raised"} => adding[u] = NoUrl

LEMMA CrewInit == Init => CrewInv
<1> SUFFICES ASSUME Init PROVE CrewInv
  OBVIOUS
<1>1. IsFiniteSet(inFlight) /\ Cardinality(inFlight) <= Concurrency
  BY FS_EmptySet, RunAssumption DEF Init
<1> QED BY <1>1 DEF Init, CrewInv, Working, Enqueueing

LEMMA CrewNext == TypeOK /\ CrewInv /\ [Next]_vars => CrewInv'
<1> SUFFICES ASSUME TypeOK, CrewInv, [Next]_vars PROVE CrewInv'
  OBVIOUS
<1> USE RunAssumption
<1> DEFINE Crew(u) ==
      /\ phase[u] \in Working => u \in inFlight
      /\ queue[u] \in {"unknown", "pending"} => phase[u] = "absent"
      /\ phase[u] \in {"absent", "routing"} => u \notin browser
      /\ phase[u] \notin Enqueueing \cup {"raised"} => adding[u] = NoUrl
<1>1. \A u \in Urls : Crew(u)
  BY DEF CrewInv
<1>2. ASSUME UNCHANGED inFlight, \A u \in Urls : Crew(u)'
      PROVE  CrewInv'
  BY <1>2 DEF CrewInv
<1>3. ASSUME NEW u \in Urls, PageStep(u) PROVE CrewInv'
  <2>1. /\ UNCHANGED inFlight
        /\ \A v \in Urls \ {u} : /\ phase'[v] = phase[v] /\ adding'[v] = adding[v]
                                 /\ v \in browser' <=> v \in browser
                                 /\ queue'[v] \in {"unknown", "pending"} => queue[v] \in {"unknown", "pending"}
    <3>1. UNCHANGED inFlight
      BY <1>3 DEF PageStep, Skip, Route, FetchFails, FetchedOther, Escalate, Extracted, Resolve,
                  Refuse, Enqueue, ListItems, ItemsListed, Store, Finish, loopVars
    <3>2. \A v \in Urls \ {u} : phase'[v] = phase[v]
      BY <1>3 DEF PageStep, Skip, Route, FetchFails, FetchedOther, Escalate, Extracted, Resolve,
                  Refuse, Enqueue, ListItems, ItemsListed, Store, Finish, Goto, TypeOK
    <3>3. \A v \in Urls \ {u} : adding'[v] = adding[v]
      BY <1>3 DEF PageStep, Skip, Route, FetchFails, FetchedOther, Escalate, Extracted, Resolve,
                  Refuse, Enqueue, ListItems, ItemsListed, Store, Finish, TypeOK
    <3>4. \A v \in Urls \ {u} : v \in browser' <=> v \in browser
      BY <1>3 DEF PageStep, Skip, Route, FetchFails, FetchedOther, Escalate, Extracted, Resolve,
                  Refuse, Enqueue, ListItems, ItemsListed, Store, Finish
    <3>5. \A v \in Urls : queue'[v] \in {"unknown", "pending"} => queue[v] \in {"unknown", "pending"}
      <4>1. queue \in [Urls -> {"unknown", "pending", "taken", "handled"}]
        BY DEF TypeOK
      <4>2. CASE UNCHANGED queue
        BY <4>2
      <4>3. CASE Handle(u)
        BY <4>1, <4>3 DEF Handle
      <4>4. CASE Enqueue(u)
        BY <4>1, <4>4 DEF Enqueue
      <4>5. UNCHANGED queue \/ Handle(u) \/ Enqueue(u)
        BY <1>3 DEF PageStep, Skip, Route, FetchFails, FetchedOther, Escalate, Extracted, Resolve,
                    Refuse, ListItems, ItemsListed, Store, Finish, queueVars
      <4> QED BY <4>2, <4>3, <4>4, <4>5
    <3> QED BY <3>1, <3>2, <3>3, <3>4, <3>5
  <2>2. phase[u] \in Working
    BY <1>3 DEF PageStep, Skip, Route, FetchFails, FetchedOther, Escalate, Extracted, Resolve,
                Refuse, Enqueue, ListItems, ItemsListed, Store, Finish, Working, Enqueueing
  <2>3. u \in inFlight /\ queue[u] \notin {"unknown", "pending"}
    <3>1. phase[u] # "absent"
      BY <2>2 DEF Working, Enqueueing
    <3>2. Crew(u)
      BY <1>1
    <3> QED BY <2>2, <3>1, <3>2
  <2>4. queue'[u] \notin {"unknown", "pending"}
    <3>1. queue \in [Urls -> {"unknown", "pending", "taken", "handled"}]
      BY DEF TypeOK
    <3>2. CASE UNCHANGED queue
      BY <2>3, <3>2
    <3>3. CASE Handle(u)
      BY <3>1, <3>3 DEF Handle
    <3>4. CASE Enqueue(u)
      BY <2>3, <3>1, <3>4 DEF Enqueue
    <3>5. UNCHANGED queue \/ Handle(u) \/ Enqueue(u)
      BY <1>3 DEF PageStep, Skip, Route, FetchFails, FetchedOther, Escalate, Extracted, Resolve,
                  Refuse, ListItems, ItemsListed, Store, Finish, queueVars
    <3> QED BY <3>2, <3>3, <3>4, <3>5
  <2>5. phase'[u] \notin {"absent", "routing"}
    <3>1. phase[u] \notin {"absent", "routing"} \/ phase'[u] \in {"done", "fetching"}
      BY <1>3 DEF PageStep, TypeOK, Skip, Route, FetchFails, FetchedOther, Escalate, Extracted, Resolve,
                Refuse, Enqueue, ListItems, ItemsListed, Store, Finish, Goto, Working, Enqueueing
    <3>2. phase'[u] = phase[u] \/ phase'[u] \in {"done", "fetching", "escalating", "paginating", "listing", "storing", "linking"}
      BY <1>3 DEF PageStep, TypeOK, Skip, Route, FetchFails, FetchedOther, Escalate, Extracted, Resolve,
                Refuse, Enqueue, ListItems, ItemsListed, Store, Finish, Goto
    <3> QED BY <3>1, <3>2
  <2>6. phase'[u] \notin Enqueueing \cup {"raised"} => adding'[u] = NoUrl
    BY <1>1, <1>3 DEF PageStep, TypeOK, Skip, Route, FetchFails, FetchedOther, Escalate, Extracted, Resolve,
                Refuse, Enqueue, ListItems, ItemsListed, Store, Finish, Goto, Enqueueing, StageOver
  <2>7. Crew(u)'
    BY <2>1, <2>3, <2>4, <2>5, <2>6
  <2>8. \A v \in Urls \ {u} : Crew(v)'
    BY <1>1, <2>1
  <2> QED BY <1>2, <2>1, <2>7, <2>8
<1>4. ASSUME NEW u \in Urls, Raise(u) PROVE CrewInv'
  <2>1. \A v \in Urls : Crew(v)'
    BY <1>1, <1>4 DEF Raise, Goto, TypeOK, Working, Enqueueing, queueVars, loopVars
  <2> QED BY <1>2, <1>4, <2>1 DEF Raise, loopVars
<1>5. ASSUME NEW u \in Urls, StartPage(u) PROVE CrewInv'
  <2>1. phase[u] = "absent"
    BY <1>1, <1>5 DEF StartPage
  <2>2. \A v \in Urls : Crew(v)'
    BY <1>1, <1>5, <2>1 DEF StartPage, Goto, TypeOK, Working, Enqueueing
  <2>3. IsFiniteSet(inFlight) /\ Cardinality(inFlight) \in Nat /\ Cardinality(inFlight) < Concurrency
    BY <1>5, FS_CardinalityType DEF StartPage, RoomForPage, CrewInv
  <2>4. IsFiniteSet(inFlight') /\ Cardinality(inFlight') <= Concurrency
    <3>1. inFlight' = inFlight \cup {u}
      BY <1>5 DEF StartPage
    <3>2. /\ IsFiniteSet(inFlight')
          /\ Cardinality(inFlight') \in {Cardinality(inFlight), Cardinality(inFlight) + 1}
      BY <2>3, <3>1, FS_AddElement
    <3> QED BY <2>3, <3>2
  <2> QED BY <2>2, <2>4 DEF CrewInv
<1>6. CASE Collect
  <2>1. inFlight' \subseteq inFlight /\ IsFiniteSet(inFlight)
    BY <1>6 DEF Collect, CrewInv
  <2>2. IsFiniteSet(inFlight') /\ Cardinality(inFlight') <= Cardinality(inFlight)
    BY <2>1, FS_Subset
  <2>3. Cardinality(inFlight) \in Nat /\ Cardinality(inFlight') \in Nat
    BY <2>1, <2>2, FS_CardinalityType
  <2>4. \A u \in inFlight : ~Ended(u) => u \in inFlight'
    BY <1>6 DEF Collect
  <2>5. \A v \in Urls : Crew(v)'
    BY <1>1, <1>6, <2>4 DEF Collect, Ended, Working, Enqueueing, queueVars, taskVars
  <2> QED BY <2>2, <2>3, <2>5 DEF CrewInv
<1>7. CASE CheckCancelled \/ Filled \/ Drained \/ LoopRaises \/ RequestCancel \/ Thrown \/ UNCHANGED vars
  <2>1. UNCHANGED <<inFlight, phase, queue, browser, adding>>
    BY <1>7 DEF CheckCancelled, Filled, Drained, LoopRaises, RequestCancel, Thrown, vars, taskVars, queueVars, loopVars
  <2> QED BY <1>1, <1>2, <2>1
<1> QED BY <1>3, <1>4, <1>5, <1>6, <1>7 DEF Next, LoopStep

\* Those who have looked at a budget and not yet used it up.
Resolving == {u \in Urls : adding[u] # NoUrl /\ phase[u] # "raised"}
Paging    == {u \in Urls : adding[u] # NoUrl /\ phase[u] = "paginating"}
Browsing  == {u \in Urls : \/ phase[u] = "escalating"
                           \/ /\ u \in browser
                              /\ phase[u] \in {"fetching", "paginating", "listing", "storing"}}

Gauge(n, S, limit) == n + Cardinality(S) <= limit + Concurrency - 1

\* What is used up of each budget, with what will be.
BudgetInv ==
    /\ attempted <= maxPages
    /\ Gauge(discovered, Resolving, Larger(MaxDiscovered, Cardinality(Seeds)))
    /\ Gauge(paginated, Paging, MaxPagination)
    /\ Gauge(browsed, Browsing, MaxBrowser)

\* A gauge rises only below its limit, when it cannot rise above what those
\* in flight add to the limit; using up what was looked at leaves it.
LEMMA GaugeStep ==
    ASSUME NEW n \in Nat, NEW m \in Nat, NEW limit \in Nat, NEW S, NEW T, NEW crew,
           IsFiniteSet(crew), Cardinality(crew) <= Concurrency,
           S \subseteq crew, T \subseteq crew, Gauge(n, S, limit),
           \/ m = n /\ (T \subseteq S \/ n < limit)
           \/ m = n + 1 /\ (\E u \in S : T \subseteq S \ {u})
    PROVE  Gauge(m, T, limit)
<1> USE RunAssumption
<1>1. /\ IsFiniteSet(S) /\ IsFiniteSet(T)
      /\ Cardinality(T) <= Cardinality(crew)
  BY FS_Subset
<1>2. /\ Cardinality(S) \in Nat /\ Cardinality(T) \in Nat /\ Cardinality(crew) \in Nat
  BY <1>1, FS_CardinalityType
<1>3. CASE m = n /\ T \subseteq S
  <2>1. Cardinality(T) <= Cardinality(S)
    BY <1>1, <1>3, FS_Subset
  <2> QED BY <1>2, <1>3, <2>1 DEF Gauge
<1>4. CASE m = n /\ n < limit
  BY <1>1, <1>2, <1>4 DEF Gauge
<1>5. ASSUME m = n + 1, NEW u \in S, T \subseteq S \ {u}
      PROVE  Gauge(m, T, limit)
  <2>1. IsFiniteSet(S \ {u}) /\ Cardinality(S \ {u}) = Cardinality(S) - 1
    BY <1>1, <1>5, FS_RemoveElement
  <2>2. Cardinality(T) <= Cardinality(S \ {u})
    BY <1>5, <2>1, FS_Subset
  <2> QED BY <1>2, <1>5, <2>1, <2>2 DEF Gauge
<1> QED BY <1>3, <1>4, <1>5

LEMMA Limit == Larger(MaxDiscovered, Cardinality(Seeds)) \in Nat
<1>1. Cardinality(Seeds) \in Nat
  BY FS_CardinalityType, RunAssumption
<1> QED BY <1>1, RunAssumption DEF Larger

\* Each is in flight.
LEMMA Crewed ==
    ASSUME TypeOK, CrewInv
    PROVE  Resolving \subseteq inFlight /\ Paging \subseteq inFlight /\ Browsing \subseteq inFlight
BY DEF TypeOK, CrewInv, Resolving, Paging, Browsing, Working, Enqueueing

LEMMA BudgetInit == Init => BudgetInv
<1> SUFFICES ASSUME Init PROVE BudgetInv
  OBVIOUS
<1>1. Resolving = {} /\ Paging = {} /\ Browsing = {}
  BY DEF Init, Resolving, Paging, Browsing
<1>2. Cardinality(Seeds) \in Nat
  BY FS_CardinalityType, RunAssumption
<1>3. Cardinality({}) = 0
  BY FS_EmptySet
<1>4. attempted <= maxPages
  BY RunAssumption DEF Init
<1> QED BY <1>1, <1>2, <1>3, <1>4, RunAssumption DEF Init, BudgetInv, Gauge, Larger

\* How the step of a task moves the three gauges.
LEMMA PageGauges ==
    ASSUME TypeOK, CrewInv, NEW u \in Urls, PageStep(u)
    PROVE  /\ UNCHANGED <<attempted, maxPages, inFlight>>
           /\ \/ discovered' = discovered /\ (Resolving' \subseteq Resolving \/ discovered < MaxDiscovered)
              \/ discovered' = discovered + 1 /\ u \in Resolving /\ Resolving' \subseteq Resolving \ {u}
           /\ \/ paginated' = paginated /\ (Paging' \subseteq Paging \/ paginated < MaxPagination)
              \/ paginated' = paginated + 1 /\ u \in Paging /\ Paging' \subseteq Paging \ {u}
           /\ \/ browsed' = browsed /\ (Browsing' \subseteq Browsing \/ browsed < MaxBrowser)
              \/ browsed' = browsed + 1 /\ u \in Browsing /\ Browsing' \subseteq Browsing \ {u}
<1> USE RunAssumption
<1>1. CASE Skip(u)
  BY <1>1 DEF Skip, Goto, TypeOK, CrewInv, Resolving, Paging, Browsing, Enqueueing, jobVars, loopVars, stats
<1>2. CASE Route(u)
  BY <1>2 DEF Route, Goto, TypeOK, CrewInv, Resolving, Paging, Browsing, Enqueueing, jobVars, loopVars, stats
<1>3. CASE FetchFails(u)
  BY <1>3 DEF FetchFails, Goto, TypeOK, CrewInv, Resolving, Paging, Browsing, Enqueueing, jobVars, loopVars, stats
<1>4. CASE FetchedOther(u)
  BY <1>4 DEF FetchedOther, Goto, TypeOK, CrewInv, Resolving, Paging, Browsing, Enqueueing, jobVars, loopVars, stats
<1>5. CASE Escalate(u)
  BY <1>5 DEF Escalate, Goto, TypeOK, CrewInv, Resolving, Paging, Browsing, Enqueueing, jobVars, loopVars, stats
<1>6. CASE Extracted(u)
  <2>1. /\ phase \in [Urls -> Phases] /\ phase[u] \in {"fetching", "escalating"}
        /\ phase' = [phase EXCEPT ![u] = "paginating"]
        /\ adding' = adding /\ adding[u] = NoUrl
        /\ UNCHANGED <<attempted, maxPages, inFlight, discovered, paginated, browsed>>
    BY <1>6 DEF Extracted, Goto, TypeOK, CrewInv, Enqueueing, jobVars, loopVars, stats
  <2>2. \/ browser' = browser
        \/ phase[u] = "escalating" /\ browser' = browser \cup {u}
    <3>1. browser' \in {browser} \cup (IF phase[u] = "escalating" THEN {browser \cup {u}} ELSE {})
      BY <1>6 DEF Extracted
    <3>2. CASE phase[u] = "escalating"
      BY <3>1, <3>2, Zenon
    <3>3. CASE phase[u] # "escalating"
      BY <3>1, <3>3, Zenon
    <3> QED BY <3>2, <3>3
  <2>3. Resolving' \subseteq Resolving /\ Paging' \subseteq Paging
    BY <2>1 DEF Resolving, Paging
  <2>4. Browsing' \subseteq Browsing
    BY <2>1, <2>2 DEF Browsing
  <2> QED BY <2>1, <2>3, <2>4
<1>7. CASE Resolve(u)
  BY <1>7 DEF Resolve, BudgetLeft, TypeOK, CrewInv, Resolving, Paging, Browsing, Enqueueing, jobVars, loopVars, stats
<1>8. CASE Refuse(u)
  BY <1>8 DEF Refuse, TypeOK, CrewInv, Resolving, Paging, Browsing, Enqueueing, jobVars, loopVars, stats
<1>9. CASE Enqueue(u)
  BY <1>9 DEF Enqueue, TypeOK, CrewInv, Resolving, Paging, Browsing, Enqueueing, jobVars, loopVars, stats
<1>10. CASE ListItems(u)
  BY <1>10 DEF ListItems, StageOver, Goto, TypeOK, CrewInv, Resolving, Paging, Browsing, Enqueueing, jobVars, loopVars, stats
<1>11. CASE ItemsListed(u)
  BY <1>11 DEF ItemsListed, StageOver, Goto, TypeOK, CrewInv, Resolving, Paging, Browsing, Enqueueing, jobVars, loopVars, stats
<1>12. CASE Store(u)
  BY <1>12 DEF Store, Goto, TypeOK, CrewInv, Resolving, Paging, Browsing, Enqueueing, jobVars, loopVars, stats
<1>13. CASE Finish(u)
  BY <1>13 DEF Finish, StageOver, Goto, TypeOK, CrewInv, Resolving, Paging, Browsing, Enqueueing, jobVars, loopVars, stats
<1> QED BY <1>1, <1>2, <1>3, <1>4, <1>5, <1>6, <1>7, <1>8, <1>9, <1>10, <1>11, <1>12, <1>13 DEF PageStep

LEMMA BudgetNext == TypeOK /\ CrewInv /\ BudgetInv /\ [Next]_vars => BudgetInv'
<1> SUFFICES ASSUME TypeOK, CrewInv, BudgetInv, [Next]_vars PROVE BudgetInv'
  OBVIOUS
<1> USE RunAssumption
<1> DEFINE Most == Larger(MaxDiscovered, Cardinality(Seeds))
<1>1. /\ Most \in Nat /\ MaxPagination \in Nat /\ MaxBrowser \in Nat /\ MaxDiscovered <= Most
      /\ discovered \in Nat /\ paginated \in Nat /\ browsed \in Nat /\ attempted \in Nat /\ maxPages \in Nat
      /\ TypeOK'
  <2>1. Cardinality(Seeds) \in Nat
    BY FS_CardinalityType
  <2>2. MaxDiscovered <= Most
    BY <2>1 DEF Larger
  <2> QED BY <2>2, Limit, TypeNext DEF TypeOK
<1>2. /\ IsFiniteSet(inFlight) /\ Cardinality(inFlight) <= Concurrency
      /\ Resolving \subseteq inFlight /\ Paging \subseteq inFlight /\ Browsing \subseteq inFlight
  BY Crewed DEF CrewInv
<1>3. /\ attempted <= maxPages
      /\ Gauge(discovered, Resolving, Most) /\ Gauge(paginated, Paging, MaxPagination)
      /\ Gauge(browsed, Browsing, MaxBrowser)
  BY DEF BudgetInv
<1> HIDE DEF Most
\* It is enough to say how a step moves the gauges.
<1>4. ASSUME \/ discovered' = discovered /\ (Resolving' \subseteq Resolving \/ discovered < MaxDiscovered)
             \/ discovered' = discovered + 1 /\ \E u \in Resolving : Resolving' \subseteq Resolving \ {u},
             \/ paginated' = paginated /\ (Paging' \subseteq Paging \/ paginated < MaxPagination)
             \/ paginated' = paginated + 1 /\ \E u \in Paging : Paging' \subseteq Paging \ {u},
             \/ browsed' = browsed /\ (Browsing' \subseteq Browsing \/ browsed < MaxBrowser)
             \/ browsed' = browsed + 1 /\ \E u \in Browsing : Browsing' \subseteq Browsing \ {u},
             Resolving' \subseteq inFlight, Paging' \subseteq inFlight, Browsing' \subseteq inFlight,
             attempted' <= maxPages'
      PROVE  BudgetInv'
  <2>1. discovered' \in Nat /\ paginated' \in Nat /\ browsed' \in Nat
    BY <1>1 DEF TypeOK
  <2>2. Gauge(discovered', Resolving', Most)
    <3>1. \/ discovered' = discovered /\ (Resolving' \subseteq Resolving \/ discovered < Most)
          \/ discovered' = discovered + 1 /\ \E u \in Resolving : Resolving' \subseteq Resolving \ {u}
      BY <1>1, <1>4
    <3> QED BY <1>1, <1>2, <1>3, <1>4, <2>1, <3>1, GaugeStep
  <2>3. Gauge(paginated', Paging', MaxPagination)
    BY <1>1, <1>2, <1>3, <1>4, <2>1, GaugeStep
  <2>4. Gauge(browsed', Browsing', MaxBrowser)
    BY <1>1, <1>2, <1>3, <1>4, <2>1, GaugeStep
  <2> QED BY <1>4, <2>2, <2>3, <2>4 DEF BudgetInv, Gauge, Most
<1>5. ASSUME NEW u \in Urls, PageStep(u) PROVE BudgetInv'
  <2>1. inFlight' = inFlight
    BY <1>5, PageGauges
  <2>2. Resolving' \subseteq inFlight /\ Paging' \subseteq inFlight /\ Browsing' \subseteq inFlight
    <3>1. CrewInv'
      BY CrewNext
    <3> QED BY <1>1, <2>1, <3>1 DEF TypeOK, CrewInv, Resolving, Paging, Browsing, Working, Enqueueing
  <2>3. attempted' <= maxPages'
    BY <1>3, <1>5, PageGauges
  <2> QED BY <1>4, <1>5, <2>2, <2>3, PageGauges
<1>6. ASSUME UNCHANGED <<discovered, paginated, browsed>>, attempted' <= maxPages',
             Resolving' \subseteq Resolving, Paging' \subseteq Paging, Browsing' \subseteq Browsing
      PROVE  BudgetInv'
  BY <1>2, <1>4, <1>6
<1>7. ASSUME NEW u \in Urls, Raise(u) PROVE BudgetInv'
  <2>1. Resolving' \subseteq Resolving /\ Paging' \subseteq Paging /\ Browsing' \subseteq Browsing
    BY <1>7 DEF Raise, Goto, TypeOK, Resolving, Paging, Browsing
  <2> QED BY <1>3, <1>6, <1>7, <2>1 DEF Raise, jobVars, stats
<1>8. ASSUME NEW u \in Urls, StartPage(u) PROVE BudgetInv'
  <2>1. phase[u] = "absent"
    BY <1>8 DEF StartPage, CrewInv
  <2>2. Resolving' \subseteq Resolving /\ Paging' \subseteq Paging /\ Browsing' \subseteq Browsing
    BY <1>8, <2>1 DEF StartPage, Goto, TypeOK, Resolving, Paging, Browsing
  <2>3. attempted' <= maxPages'
    BY <1>1, <1>8 DEF StartPage, RoomForPage, jobVars
  <2> QED BY <1>6, <1>8, <2>2, <2>3 DEF StartPage
<1>9. CASE CheckCancelled \/ Filled \/ Collect \/ Drained \/ LoopRaises \/ RequestCancel \/ Thrown \/ UNCHANGED vars
  <2>1. UNCHANGED <<taskVars, stats, maxPages>>
    BY <1>9 DEF CheckCancelled, Filled, Collect, Drained, LoopRaises, RequestCancel, Thrown, vars, jobVars
  <2>2. Resolving' = Resolving /\ Paging' = Paging /\ Browsing' = Browsing
    BY <2>1 DEF taskVars, Resolving, Paging, Browsing
  <2> QED BY <1>3, <1>6, <2>1, <2>2 DEF stats
<1> QED BY <1>5, <1>7, <1>8, <1>9 DEF Next, LoopStep

\* However many pages are in flight and however they interleave, a budget is
\* exceeded by less than their number.
THEOREM BudgetsHold == Spec => []BudgetsNearlyKept
<1>1. TypeOK /\ CrewInv /\ BudgetInv => BudgetsNearlyKept
  <2> SUFFICES ASSUME TypeOK, CrewInv, BudgetInv PROVE BudgetsNearlyKept
    OBVIOUS
  <2>1. IsFiniteSet(Resolving) /\ IsFiniteSet(Paging) /\ IsFiniteSet(Browsing)
    BY Crewed, FS_Subset DEF CrewInv
  <2>2. Cardinality(Resolving) \in Nat /\ Cardinality(Paging) \in Nat /\ Cardinality(Browsing) \in Nat
    <3>1. \A S : IsFiniteSet(S) => Cardinality(S) \in Nat
      BY FS_CardinalityType, Zenon
    <3> QED BY <2>1, <3>1
  <2>3. discovered \in Nat /\ paginated \in Nat /\ browsed \in Nat
    BY DEF TypeOK
  <2>4. Concurrency \in Nat /\ MaxPagination \in Nat /\ MaxBrowser \in Nat
    BY RunAssumption
  <2>5. /\ Gauge(discovered, Resolving, Larger(MaxDiscovered, Cardinality(Seeds)))
        /\ Gauge(paginated, Paging, MaxPagination)
        /\ Gauge(browsed, Browsing, MaxBrowser)
        /\ attempted <= maxPages
    BY DEF BudgetInv
  <2>6. discovered <= Larger(MaxDiscovered, Cardinality(Seeds)) + Concurrency - 1
    BY <2>2, <2>3, <2>4, <2>5, Limit DEF Gauge
  <2>7. paginated <= MaxPagination + Concurrency - 1 /\ browsed <= MaxBrowser + Concurrency - 1
    BY <2>2, <2>3, <2>4, <2>5 DEF Gauge
  <2> QED BY <2>5, <2>6, <2>7 DEF BudgetsNearlyKept
<1> QED BY <1>1, TypeInit, TypeNext, CrewInit, CrewNext, BudgetInit, BudgetNext, PTL DEF Spec

-----------------------------------------------------------------------------
(***************************************************************************)
(* Verdicts.                                                               *)
(***************************************************************************)

\* A verdict by the loop leaves nobody at work; before its page budget is
\* used up the loop ends only when the queue is finished.
DrainInv ==
    /\ loop = "finished" => \A u \in Urls : phase[u] \notin Working
    /\ loop \in {"draining", "finished"} =>
         \/ attempted >= maxPages
         \/ verdict = "cancelled"
         \/ inFlight = {} /\ NoneWith("pending") /\ NoneWith("taken")
    /\ verdict = "completed" => loop = "finished"
    /\ \A u \in Urls : queue[u] = "handled" => phase[u] = "done"

LEMMA DrainInit == Init => DrainInv
BY DEF Init, DrainInv

\* What a step of a task needs and leaves.
LEMMA PageWorks ==
    ASSUME TypeOK, NEW u \in Urls, PageStep(u) \/ Raise(u)
    PROVE  /\ phase[u] \in Working
           /\ UNCHANGED <<loop, inFlight, verdict, attempted, maxPages>>
           /\ \A v \in Urls \ {u} : phase'[v] = phase[v]
           /\ \A v \in Urls : queue'[v] = queue[v] \/ (v = u /\ queue'[v] = "handled" /\ phase'[v] = "done")
                                                  \/ (queue[v] = "unknown" /\ queue'[v] = "pending")
<1> DEFINE Changed(v) == \/ queue'[v] = queue[v]
                         \/ v = u /\ queue'[v] = "handled" /\ phase'[v] = "done"
                         \/ queue[v] = "unknown" /\ queue'[v] = "pending"
<1>1. phase[u] \in Working
  BY DEF PageStep, Raise, Skip, Route, FetchFails, FetchedOther, Escalate, Extracted, Resolve,
         Refuse, Enqueue, ListItems, ItemsListed, Store, Finish, Working, Enqueueing
<1>2. UNCHANGED <<loop, inFlight, verdict, attempted, maxPages>>
  BY DEF PageStep, Raise, Skip, Route, FetchFails, FetchedOther, Escalate, Extracted, Resolve,
         Refuse, Enqueue, ListItems, ItemsListed, Store, Finish, jobVars, loopVars, stats
<1>3. \A v \in Urls \ {u} : phase'[v] = phase[v]
  BY DEF PageStep, Raise, Skip, Route, FetchFails, FetchedOther, Escalate, Extracted, Resolve,
         Refuse, Enqueue, ListItems, ItemsListed, Store, Finish, Goto, TypeOK
<1>4. \A v \in Urls : Changed(v)
  <2>1. CASE UNCHANGED queue
    BY <2>1
  <2>2. CASE Handle(u) /\ Goto(u, "done")
    BY <2>2 DEF Handle, Goto, TypeOK
  <2>3. CASE Enqueue(u)
    BY <2>3 DEF Enqueue, TypeOK
  <2>4. UNCHANGED queue \/ (Handle(u) /\ Goto(u, "done")) \/ Enqueue(u)
    <3>1. CASE Skip(u) \/ FetchFails(u) \/ Finish(u)
      BY <3>1 DEF Skip, FetchFails, Finish
    <3>2. CASE Route(u) \/ FetchedOther(u) \/ Escalate(u) \/ Extracted(u) \/ Resolve(u) \/ Refuse(u)
      BY <3>2 DEF Route, FetchedOther, Escalate, Extracted, Resolve, Refuse, queueVars
    <3>3. CASE ListItems(u) \/ ItemsListed(u) \/ Store(u) \/ Raise(u)
      BY <3>3 DEF ListItems, ItemsListed, Store, Raise, queueVars
    <3> QED BY <3>1, <3>2, <3>3 DEF PageStep
  <2> QED BY <2>1, <2>2, <2>3, <2>4
<1> QED BY <1>1, <1>2, <1>3, <1>4

LEMMA DrainNext == TypeOK /\ CrewInv /\ DrainInv /\ [Next]_vars => DrainInv'
<1> SUFFICES ASSUME TypeOK, CrewInv, DrainInv, [Next]_vars PROVE DrainInv'
  OBVIOUS
<1>1. ASSUME NEW u \in Urls, PageStep(u) \/ Raise(u) PROVE DrainInv'
  <2>1. loop # "finished" /\ u \in inFlight
    BY <1>1, PageWorks DEF DrainInv, CrewInv
  <2>2. \A v \in Urls : queue'[v] = "handled" => phase'[v] = "done"
    <3> SUFFICES ASSUME NEW v \in Urls, queue'[v] = "handled" PROVE phase'[v] = "done"
      OBVIOUS
    <3>1. phase[u] \in Working
      BY <1>1, PageWorks
    <3>2. CASE queue[v] = "handled"
      BY <1>1, <3>1, <3>2, PageWorks DEF DrainInv, Working, Enqueueing
    <3>3. CASE queue[v] # "handled"
      BY <1>1, <3>3, PageWorks
    <3> QED BY <3>2, <3>3
  <2> QED BY <1>1, <2>1, <2>2, PageWorks DEF DrainInv
<1>2. ASSUME NEW u \in Urls, StartPage(u) PROVE DrainInv'
  <2>1. \A v \in Urls : queue'[v] = "handled" => phase'[v] = "done"
    BY <1>2 DEF StartPage, DrainInv, Goto, TypeOK
  <2> QED BY <1>2, <2>1 DEF StartPage, DrainInv
<1>3. CASE CheckCancelled
  <2>1. attempted \in Nat /\ maxPages \in Nat
    BY RunAssumption DEF TypeOK
  <2>2. loop' = "draining" => attempted >= maxPages \/ verdict' = "cancelled"
    BY <1>3, <2>1 DEF CheckCancelled
  <2> QED BY <1>3, <2>2 DEF CheckCancelled, DrainInv, jobVars, queueVars, taskVars, stats
<1>4. CASE Filled
  <2>1. loop' = "draining" => inFlight' = {} /\ NoneWith("pending")' /\ NoneWith("taken")'
    BY <1>4 DEF Filled, NoneWith, queueVars
  <2> QED BY <1>4, <2>1 DEF Filled, DrainInv, queueVars, taskVars
<1>5. CASE Collect
  BY <1>5 DEF Collect, DrainInv, queueVars, taskVars
<1>6. CASE Drained
  <2>1. \A u \in Urls : phase[u] \notin Working
    BY <1>6 DEF Drained, CrewInv, Ended, Working, Enqueueing
  <2> QED BY <1>6, <2>1 DEF Drained, DrainInv, NoneWith, jobVars, queueVars, taskVars, stats
<1>7. CASE LoopRaises \/ Thrown
  BY <1>7 DEF LoopRaises, Thrown, DrainInv, queueVars, taskVars
<1>8. CASE RequestCancel \/ UNCHANGED vars
  BY <1>8 DEF RequestCancel, vars, DrainInv, NoneWith, jobVars, queueVars, loopVars, taskVars, stats
<1> QED BY <1>1, <1>2, <1>3, <1>4, <1>5, <1>6, <1>7, <1>8 DEF Next, LoopStep

\* The statistics of a crawl that the loop brought to its end are final.
THEOREM NothingAfterReport == Spec => ReportIsFinal
<1>1. TypeOK /\ DrainInv /\ [Next]_vars => (loop = "finished" => UNCHANGED <<queueVars, taskVars, stats, rejected>>)
  <2> SUFFICES ASSUME TypeOK, DrainInv, [Next]_vars, loop = "finished"
               PROVE  UNCHANGED <<queueVars, taskVars, stats, rejected>>
    OBVIOUS
  <2>1. \A u \in Urls : ~PageStep(u) /\ ~Raise(u)
    BY PageWorks DEF DrainInv
  <2>2. ~LoopStep /\ ~LoopRaises
    BY DEF LoopStep, CheckCancelled, StartPage, Filled, Collect, Drained, LoopRaises, Over
  <2>3. RequestCancel \/ Thrown \/ UNCHANGED vars
    BY <2>1, <2>2 DEF Next
  <2> QED BY <2>3 DEF RequestCancel, Thrown, vars
<1> QED BY <1>1, TypeInit, TypeNext, CrewInit, CrewNext, DrainInit, DrainNext, PTL DEF Spec, ReportIsFinal

-----------------------------------------------------------------------------
(***************************************************************************)
(* Coverage.                                                               *)
(***************************************************************************)

\* What a page task has still to enqueue, in this stage and in later ones.
Now(u)   == IF phase[u] \in Enqueueing THEN Elements(todo[u]) \cup ({adding[u]} \ {NoUrl}) ELSE {}
Later(u) ==
    (IF phase[u] = "paginating" /\ depth[u] < MaxDepth THEN Elements(Items[u]) ELSE {})
    \cup (IF phase[u] \in {"paginating", "listing", "storing"} /\ depth[u] < MaxDepth
          THEN Elements(Links[u]) ELSE {})

\* Some budget for URLs is used up.
Short == discovered >= MaxDiscovered \/ paginated >= MaxPagination

Accounted(u) ==
    phase[u] # "raised" =>
        \A v \in LedTo(u) : Known(v) \/ v \in rejected \/ v \in Now(u) \cup Later(u)

\* While budgets last, no URL that a page leads to is forgotten.
LedInv ==
    /\ \A u \in Urls : phase[u] \in {"absent", "routing", "fetching", "escalating"} => u \notin read
    /\ Short \/ \A u \in Urls : Accounted(u)

LEMMA LedInit == Init => LedInv
BY DEF Init, LedInv, Accounted, LedTo

\* A sequence is its head and its tail.
LEMMA HeadTail ==
    ASSUME NEW s \in Seq(Urls), s # <<>>
    PROVE  Elements(s) = Elements(Tail(s)) \cup {Head(s)}
<1>1. /\ Len(s) \in Nat /\ Len(s) >= 1 /\ DOMAIN s = 1 .. Len(s)
      /\ DOMAIN Tail(s) = 1 .. (Len(s) - 1) /\ Head(s) = s[1]
      /\ \A i \in 1 .. (Len(s) - 1) : Tail(s)[i] = s[i + 1]
  OBVIOUS
<1>2. ASSUME NEW i \in DOMAIN s PROVE s[i] \in Elements(Tail(s)) \cup {Head(s)}
  <2>1. CASE i = 1
    BY <1>1, <2>1
  <2>2. CASE i # 1
    <3>1. i - 1 \in DOMAIN Tail(s) /\ Tail(s)[i - 1] = s[i]
      BY <1>1, <1>2, <2>2
    <3> QED BY <3>1 DEF Elements
  <2> QED BY <2>1, <2>2
<1>3. ASSUME NEW i \in DOMAIN Tail(s) PROVE Tail(s)[i] \in Elements(s)
  <2>1. i + 1 \in DOMAIN s /\ s[i + 1] = Tail(s)[i]
    BY <1>1, <1>3
  <2> QED BY <2>1 DEF Elements
<1>4. Head(s) \in Elements(s)
  BY <1>1 DEF Elements
<1> QED BY <1>2, <1>3, <1>4 DEF Elements

LEMMA EmptySequence == Elements(<<>>) = {}
BY DEF Elements

LEMMA OneElement == \A v \in Urls : Elements(<<v>>) = {v}
BY DEF Elements

\* What a page task that is not raised has accounted for stays accounted for
\* by its own step.
LEMMA OwnStep ==
    ASSUME TypeOK, CrewInv, LedInv, NEW u \in Urls, PageStep(u), ~Short, Accounted(u)
    PROVE  Accounted(u)'
<1> USE RunAssumption
<1>1. phase[u] # "raised" /\ phase[u] \in Working /\ queue[u] # "unknown"
  BY PageWorks DEF Working, Enqueueing, CrewInv
<1>2. \A v \in Urls : Known(v) => Known(v)'
  BY PageWorks DEF Known
<1>3. rejected \subseteq rejected' /\ depth'[u] = depth[u]
  <2>1. rejected \subseteq rejected'
    BY DEF PageStep, Skip, Route, FetchFails, FetchedOther, Escalate, Extracted, Resolve,
           Refuse, Enqueue, ListItems, ItemsListed, Store, Finish
  <2>2. CASE Enqueue(u)
    BY <1>1, <2>2 DEF Enqueue, TypeOK
  <2>3. CASE ~Enqueue(u)
    BY <2>3 DEF PageStep, Skip, Route, FetchFails, FetchedOther, Escalate, Extracted, Resolve,
           Refuse, ListItems, ItemsListed, Store, Finish, queueVars
  <2> QED BY <2>1, <2>2, <2>3
<1>4. LedTo(u) \subseteq Urls
  BY DEF LedTo, Elements, TypeOK
<1>5. \A v \in LedTo(u) : Known(v)' \/ v \in rejected' \/ v \in Now(u) \cup Later(u)
  BY <1>1, <1>2, <1>3, <1>4 DEF Accounted
\* Before the extraction a page leads nowhere.
<1>6. CASE Skip(u) \/ Route(u) \/ FetchFails(u) \/ FetchedOther(u) \/ Escalate(u)
  <2>1. u \notin read'
    BY <1>6 DEF LedInv, Skip, Route, FetchFails, FetchedOther, Escalate
  <2> QED BY <2>1 DEF Accounted, LedTo
<1>7. CASE Extracted(u)
  <2>1. /\ phase'[u] = "paginating" /\ adding'[u] = adding[u]
        /\ todo'[u] = IF NextPage[u] = NoUrl THEN <<>> ELSE <<NextPage[u]>>
    BY <1>7 DEF Extracted, Goto, TypeOK
  <2>2. {NextPage[u]} \ {NoUrl} \subseteq Elements(todo'[u])
    <3>1. NextPage[u] \in Urls \cup {NoUrl}
      OBVIOUS
    <3>2. CASE NextPage[u] # NoUrl
      BY <2>1, <3>1, <3>2, OneElement
    <3> QED BY <3>2
  <2>3. \A v \in LedTo(u)' : v \in Now(u)' \cup Later(u)'
    <3>1. Elements(todo'[u]) \subseteq Now(u)'
      BY <2>1 DEF Now, Enqueueing
    <3>2. depth'[u] < MaxDepth => Elements(Items[u]) \cup Elements(Links[u]) \subseteq Later(u)'
      BY <2>1 DEF Later
    <3> QED BY <2>2, <3>1, <3>2 DEF LedTo
  <2> QED BY <2>3 DEF Accounted
<1>8. CASE Resolve(u)
  <2>1. /\ todo[u] \in Seq(Urls) /\ todo[u] # <<>>
        /\ adding'[u] = Head(todo[u]) /\ todo'[u] = Tail(todo[u]) /\ adding[u] = NoUrl
        /\ UNCHANGED <<phase, depth, read>>
    BY <1>8 DEF Resolve, TypeOK, queueVars
  <2>2. Elements(todo[u]) = Elements(todo'[u]) \cup {adding'[u]} /\ adding'[u] # NoUrl
    <3>1. Head(todo[u]) \in Urls
      BY <2>1
    <3> QED BY <2>1, <3>1, HeadTail
  <2>3. Now(u) \subseteq Now(u)' /\ Later(u) = Later(u)' /\ LedTo(u)' = LedTo(u)
    BY <2>1, <2>2 DEF Now, Later, LedTo
  <2> QED BY <1>5, <2>3 DEF Accounted
<1>9. CASE Refuse(u) \/ Enqueue(u)
  <2>1. /\ todo'[u] = todo[u] /\ adding'[u] = NoUrl /\ UNCHANGED <<phase, read>>
    BY <1>9 DEF Refuse, Enqueue, TypeOK
  <2>2. adding[u] \in rejected' \/ queue'[adding[u]] # "unknown"
    <3>1. CASE Refuse(u)
      BY <3>1 DEF Refuse
    <3>2. CASE Enqueue(u)
      <4>1. adding[u] \in Urls
        BY <3>2 DEF Enqueue, TypeOK
      <4> QED BY <3>2, <4>1 DEF Enqueue, TypeOK
    <3> QED BY <1>9, <3>1, <3>2
  <2>3. \A v \in Now(u) : v \in Now(u)' \/ v \in rejected' \/ Known(v)'
    <3> SUFFICES ASSUME NEW v \in Now(u) PROVE v \in Now(u)' \/ v \in rejected' \/ Known(v)'
      OBVIOUS
    <3>1. CASE v = adding[u]
      BY <2>2, <3>1 DEF Known
    <3>2. CASE v # adding[u]
      BY <2>1, <3>2 DEF Now
    <3> QED BY <3>1, <3>2
  <2>4. Later(u) = Later(u)' /\ LedTo(u)' = LedTo(u)
    BY <1>3, <2>1 DEF Later, LedTo
  <2> QED BY <1>5, <2>3, <2>4 DEF Accounted
<1>10. CASE ListItems(u) \/ ItemsListed(u) \/ Store(u) \/ Finish(u)
  <2>1. phase[u] \in Enqueueing => StageOver(u)
    BY <1>10 DEF ListItems, ItemsListed, Store, Finish, Enqueueing
  <2>2. Now(u) = {}
    <3>1. CASE phase[u] \in Enqueueing
      <4>1. BudgetLeft(u)
        BY DEF Short, BudgetLeft, TypeOK
      <4>2. todo[u] = <<>> /\ adding[u] = NoUrl
        BY <2>1, <3>1, <4>1 DEF StageOver
      <4> QED BY <4>2, EmptySequence DEF Now
    <3> QED BY <3>1 DEF Now
  <2>3. UNCHANGED read /\ LedTo(u)' = LedTo(u)
    BY <1>3, <1>10 DEF ListItems, ItemsListed, Store, Finish, LedTo
  <2>4. u \in read => Later(u) \subseteq (Now(u) \cup Later(u))'
    <3>1. CASE ListItems(u)
      BY <1>3, <3>1 DEF ListItems, Goto, TypeOK, Now, Later, Enqueueing
    <3>2. CASE ItemsListed(u)
      BY <1>3, <3>2 DEF ItemsListed, Goto, TypeOK, Now, Later, Enqueueing
    <3>3. CASE Store(u)
      BY <1>3, <3>3 DEF Store, Goto, TypeOK, Now, Later, Enqueueing
    <3>4. CASE Finish(u)
      BY <3>4 DEF Finish, Later
    <3> QED BY <1>10, <3>1, <3>2, <3>3, <3>4
  <2>5. CASE u \in read
    BY <1>5, <2>2, <2>3, <2>4, <2>5 DEF Accounted
  <2>6. CASE u \notin read
    BY <2>3, <2>6 DEF Accounted, LedTo
  <2> QED BY <2>5, <2>6
<1> QED BY <1>6, <1>7, <1>8, <1>9, <1>10 DEF PageStep

\* Nobody else touches what a page task has accounted for.
LEMMA OthersStep ==
    ASSUME TypeOK, CrewInv, LedInv, NEW u \in Urls, Accounted(u),
           u \in read' => u \in read,
           u \in read => depth'[u] = depth[u],
           \A v \in Urls : Known(v) => Known(v)',
           rejected \subseteq rejected',
           phase'[u] = phase[u], todo'[u] = todo[u], adding'[u] = adding[u]
    PROVE  Accounted(u)'
<1>1. CASE u \notin read
  BY <1>1 DEF Accounted, LedTo
<1>2. CASE u \in read
  <2>1. Now(u)' = Now(u) /\ Later(u)' = Later(u) /\ LedTo(u)' \subseteq LedTo(u)
    BY <1>2 DEF Now, Later, LedTo
  <2>2. LedTo(u) \subseteq Urls
    BY RunAssumption DEF LedTo, Elements
  <2> QED BY <2>1, <2>2 DEF Accounted
<1> QED BY <1>1, <1>2

LEMMA LedNext == TypeOK /\ CrewInv /\ LedInv /\ [Next]_vars => LedInv'
<1> SUFFICES ASSUME TypeOK, CrewInv, LedInv, [Next]_vars PROVE LedInv'
  OBVIOUS
<1> USE RunAssumption
<1>1. ASSUME NEW u \in Urls, PageStep(u) PROVE LedInv'
  <2>1. /\ phase[u] \in Working /\ phase[u] # "absent"
        /\ \A v \in Urls \ {u} : phase'[v] = phase[v]
        /\ \A v \in Urls : Known(v) => Known(v)'
    BY <1>1, PageWorks DEF Known, Working, Enqueueing
  <2>2. \A v \in Urls \ {u} : todo'[v] = todo[v] /\ adding'[v] = adding[v]
    BY <1>1 DEF PageStep, TypeOK, Skip, Route, FetchFails, FetchedOther, Escalate, Extracted, Resolve,
                Refuse, Enqueue, ListItems, ItemsListed, Store, Finish
  <2>3. rejected \subseteq rejected' /\ \A v \in Urls \ {u} : v \in read' <=> v \in read
    BY <1>1 DEF PageStep, Skip, Route, FetchFails, FetchedOther, Escalate, Extracted, Resolve,
                Refuse, Enqueue, ListItems, ItemsListed, Store, Finish
  <2>4. \A v \in read : v \in Urls /\ queue[v] # "unknown"
    BY DEF LedInv, CrewInv, TypeOK
  <2>5. \A v \in read : depth'[v] = depth[v]
    <3>1. CASE Enqueue(u)
      BY <2>4, <3>1 DEF Enqueue, TypeOK
    <3>2. CASE ~Enqueue(u)
      BY <1>1, <3>2 DEF PageStep, Skip, Route, FetchFails, FetchedOther, Escalate, Extracted, Resolve,
                  Refuse, ListItems, ItemsListed, Store, Finish, queueVars
    <3> QED BY <3>1, <3>2
  <2>6. /\ discovered' = discovered \/ discovered' = discovered + 1
        /\ paginated' = paginated \/ paginated' = paginated + 1
    BY <1>1, PageGauges
  <2>7. Short => Short'
    <3>1. discovered \in Nat /\ paginated \in Nat
      BY DEF TypeOK
    <3> QED BY <2>6, <3>1 DEF Short
  <2>8. ASSUME ~Short, NEW v \in Urls PROVE Accounted(v)'
    <3>1. Accounted(v)
      BY <2>8 DEF LedInv
    <3>2. CASE v = u
      BY <1>1, <2>8, <3>1, <3>2, OwnStep
    <3>3. CASE v # u
      BY <2>1, <2>2, <2>3, <2>5, <3>1, <3>3, OthersStep
    <3> QED BY <3>2, <3>3
  <2>9. phase'[u] \in {"absent", "routing", "fetching", "escalating"} => u \notin read'
    <3>1. CASE Extracted(u)
      BY <3>1 DEF Extracted, Goto, TypeOK
    <3>2. CASE Skip(u) \/ Route(u) \/ FetchFails(u) \/ FetchedOther(u) \/ Escalate(u)
      BY <3>2 DEF Skip, Route, FetchFails, FetchedOther, Escalate, LedInv
    <3>3. CASE Resolve(u) \/ Refuse(u) \/ Enqueue(u)
      BY <3>3 DEF Resolve, Refuse, Enqueue, Enqueueing
    <3>4. CASE ListItems(u) \/ ItemsListed(u) \/ Store(u) \/ Finish(u)
      BY <3>4 DEF ListItems, ItemsListed, Store, Finish, Goto, TypeOK
    <3> QED BY <1>1, <3>1, <3>2, <3>3, <3>4 DEF PageStep
  <2>10. \A v \in Urls \ {u} : phase'[v] \in {"absent", "routing", "fetching", "escalating"} => v \notin read'
    BY <2>1, <2>3 DEF LedInv
  <2> QED BY <2>7, <2>8, <2>9, <2>10 DEF LedInv
<1>2. ASSUME NEW u \in Urls, Raise(u) PROVE LedInv'
  <2>1. /\ phase' = [phase EXCEPT ![u] = "raised"]
        /\ UNCHANGED <<queue, depth, read, todo, adding, rejected, discovered, paginated>>
    BY <1>2 DEF Raise, Goto, queueVars, stats
  <2>2. \A v \in Urls : v # u => (Accounted(v) <=> Accounted(v)')
    BY <2>1 DEF TypeOK, Accounted, Now, Later, LedTo, Known
  <2>3. Accounted(u)'
    BY <2>1 DEF TypeOK, Accounted
  <2>4. \A v \in Urls : phase'[v] \in {"absent", "routing", "fetching", "escalating"} => v \notin read'
    BY <2>1 DEF TypeOK, LedInv
  <2> QED BY <2>1, <2>2, <2>3, <2>4 DEF LedInv, Short
<1>3. ASSUME NEW u \in Urls, StartPage(u) PROVE LedInv'
  <2>1. /\ phase[u] = "absent" /\ u \notin read /\ phase' = [phase EXCEPT ![u] = "routing"]
        /\ UNCHANGED <<depth, read, todo, adding, rejected, discovered, paginated>>
    BY <1>3 DEF StartPage, Goto, CrewInv, LedInv
  <2>2. \A v \in Urls : Known(v) => Known(v)'
    BY <1>3 DEF StartPage, TypeOK, Known
  <2>3. ASSUME NEW v \in Urls, Accounted(v) PROVE Accounted(v)'
    <3>1. CASE v = u
      BY <2>1, <3>1 DEF Accounted, LedTo
    <3>2. CASE v # u
      <4>1. phase'[v] = phase[v]
        BY <2>1, <3>2 DEF TypeOK
      <4> QED BY <2>1, <2>2, <2>3, <4>1, OthersStep
    <3> QED BY <3>1, <3>2
  <2>4. \A v \in Urls : phase'[v] \in {"absent", "routing", "fetching", "escalating"} => v \notin read'
    BY <2>1 DEF TypeOK, LedInv
  <2> QED BY <2>1, <2>3, <2>4 DEF LedInv, Short
<1>4. CASE CheckCancelled \/ Filled \/ Collect \/ Drained \/ LoopRaises \/ RequestCancel \/ Thrown \/ UNCHANGED vars
  <2>1. UNCHANGED <<queue, depth, phase, read, todo, adding, rejected, discovered, paginated>>
    BY <1>4 DEF CheckCancelled, Filled, Collect, Drained, LoopRaises, RequestCancel, Thrown, vars,
                queueVars, taskVars, stats
  <2>2. \A v \in Urls : Accounted(v)' <=> Accounted(v)
    BY <2>1 DEF Accounted, Now, Later, LedTo, Known
  <2> QED BY <2>1, <2>2 DEF LedInv, Short
<1> QED BY <1>1, <1>2, <1>3, <1>4 DEF Next, LoopStep

\* A crawl reported as completed with budgets left has crawled every URL it
\* could reach, although pages, queue and loop interleave freely.
THEOREM NothingLeftBehind == Spec => []CompletedIsCovered
<1>1. TypeOK /\ CrewInv /\ DrainInv /\ LedInv => CompletedIsCovered
  <2> SUFFICES ASSUME TypeOK, CrewInv, DrainInv, LedInv, verdict = "completed",
                      attempted < maxPages, discovered < MaxDiscovered, paginated < MaxPagination
               PROVE  Covered
    BY DEF CompletedIsCovered
  <2>1. NoneWith("pending") /\ NoneWith("taken")
    BY RunAssumption DEF DrainInv, TypeOK
  <2>2. ~Short
    BY RunAssumption DEF Short, TypeOK
  <2> SUFFICES ASSUME NEW u \in Urls, Known(u)
               PROVE  queue[u] = "handled" /\ \A v \in LedTo(u) : Known(v) \/ v \in rejected
    BY DEF Covered
  <2>3. queue[u] = "handled"
    BY <2>1 DEF NoneWith, Known, TypeOK
  <2>4. phase[u] = "done"
    BY <2>3 DEF DrainInv
  <2>5. Now(u) = {} /\ Later(u) = {}
    BY <2>4 DEF Now, Later, Enqueueing
  <2> QED BY <2>2, <2>3, <2>4, <2>5 DEF LedInv, Accounted
<1> QED BY <1>1, TypeInit, TypeNext, CrewInit, CrewNext, DrainInit, DrainNext, LedInit, LedNext, PTL DEF Spec

=============================================================================
