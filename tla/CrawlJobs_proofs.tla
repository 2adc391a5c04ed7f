-------------------------- MODULE CrawlJobs_proofs --------------------------
(***************************************************************************)
(* Proofs about CrawlJobs, for every set of jobs and sources and every cap. *)
(***************************************************************************)
EXTENDS CrawlJobs, FiniteSetTheorems, TLAPS

\* Where a job identity can be: an unused one has no task, a registered one
\* has a task and conversely, and a job waits for its task in one list at most.
Placement ==
    /\ \A j \in Jobs : status[j] = "absent" => task[j] = "none"
    /\ \A j \in Jobs : j \in registry <=> task[j] # "none"
    /\ \A j \in Jobs : task[j] # "none" => j \notin posted /\ j \notin dispatched
    /\ posted \cap dispatched = {}
    /\ \A j \in posted : source[j] = NoSource

\* The lists of a tick are empty outside the part of the tick that uses them.
TickLists ==
    /\ tick # "checking" => listed = {}
    /\ tick = "sleeping" => dispatched = {}

\* OneCrawlPerSource is not inductive alone: a new job is safe because every
\* job that may still be worked on is visible to get_active_job_for_source.
IInv == TypeOK /\ Placement /\ EngagedIsActive /\ OneCrawlPerSource

USE DEF dbVars, taskVars, apiVars, tickVars

\* Every action keeps each variable in its type.
LEMMA TypeInit == Init => TypeOK
  BY BoundAssumption, SourceAssumption
  DEF Init, TypeOK, Limit, Kinds, Active, Terminal, Phases

LEMMA TypeNext == TypeOK /\ [Next]_vars => TypeOK'
<1> SUFFICES ASSUME TypeOK, [Next]_vars PROVE TypeOK'
  OBVIOUS
<1> USE DEF TypeOK, Active, Terminal, Phases
<1>0. ASSUME NEW kind, Spend(kind) PROVE budget' \in [Kinds -> Nat]
  <2>1. \A k \in Kinds : k = kind => budget[k] - 1 \in Nat
    BY <1>0 DEF Spend
  <2>2. QED BY <1>0, <2>1 DEF Spend
<1>1. CASE SchedulerStep
  BY <1>1 DEF SchedulerStep, ListDue, EndOfChecks, EndOfTick, SkipSource, DispatchSource,
       LaunchMonitoring, CreateJob, CreateTask
<1>2. CASE TickFails
  BY <1>2, <1>0 DEF TickFails
<1>3. CASE Restart
  BY <1>3, <1>0 DEF Restart
<1>4. ASSUME NEW s \in Sources, SetMonitored(s) \/ BecomesDue(s) PROVE TypeOK'
  BY <1>4 DEF SetMonitored, BecomesDue
<1>5. ASSUME NEW j \in Jobs, PostCrawl(j) PROVE TypeOK'
  BY <1>5, <1>0 DEF PostCrawl, CreateJob
<1>6. ASSUME NEW j \in Jobs, LaunchInstant(j) \/ CancelStep(j) \/ Forget(j) PROVE TypeOK'
  <2>1. CASE LaunchInstant(j) \/ Forget(j)
    BY <2>1 DEF LaunchInstant, Forget, CreateTask, SetStatus
  <2>2. CASE CancelWrite(j)
    BY <2>2 DEF CancelWrite, SetStatus
  <2>3. CASE CancelSignal(j)
    BY <2>3 DEF CancelSignal
  <2> QED BY <1>6, <2>1, <2>2, <2>3 DEF CancelStep
<1>7. ASSUME NEW j \in Jobs, DiesOutsideTry(j) \/ CancelRead(j) PROVE TypeOK'
  BY <1>7, <1>0 DEF DiesOutsideTry, CancelRead, EndTask
<1>8. ASSUME NEW j \in Jobs, LoopFails(j) PROVE TypeOK'
  BY <1>8, <1>0 DEF LoopFails, Goto
<1>9. ASSUME NEW j \in Jobs, TaskStep(j) PROVE TypeOK'
  <2> USE DEF Goto, EndTask, SetStatus
  <2>1. CASE SeedsDiscovered(j) \/ MarkStarted(j) \/ QueueOpened(j) \/ LoopSeesCancel(j)
    BY <2>1 DEF SeedsDiscovered, MarkStarted, QueueOpened, LoopSeesCancel
  <2>2. CASE LoopEnds(j) \/ Drained(j) \/ MarkFinished(j)
    BY <2>2 DEF LoopEnds, Drained, MarkFinished
  <2>3. CASE Reschedule(j) \/ Leave(j)
    BY <2>3 DEF Reschedule, Leave
  <2>4. CASE MarkUnwound(j)
    BY <2>4 DEF MarkUnwound
  <2>5. CASE CancelledInTry(j) \/ CancelledOutsideTry(j)
    BY <2>5 DEF CancelledInTry, CancelledOutsideTry
  <2> QED BY <1>8, <1>9, <2>1, <2>2, <2>3, <2>4, <2>5 DEF TaskStep
<1>10. CASE UNCHANGED vars
  BY <1>10 DEF vars
<1> QED
  BY <1>1, <1>2, <1>3, <1>4, <1>5, <1>6, <1>7, <1>9, <1>10 DEF Next

\* Type correctness of the whole component.
THEOREM TypeCorrect == Spec => []TypeOK
  BY TypeInit, TypeNext, PTL DEF Spec

-----------------------------------------------------------------------------
LEMMA PlacementInit == Init => Placement /\ EngagedIsActive /\ OneCrawlPerSource
  BY DEF Init, Placement, EngagedIsActive, OneCrawlPerSource, Engaged, Unfinished, Phases

\* A step of a task, of a cancel handler or of the environment that creates
\* no job and gives no task.
LEMMA PlacementNext == IInv /\ [Next]_vars => Placement'
<1> SUFFICES ASSUME IInv, [Next]_vars PROVE Placement'
  OBVIOUS
<1> USE DEF IInv, TypeOK, Placement
<1>1. CASE SchedulerStep
  <2>1. CASE ListDue \/ EndOfChecks \/ EndOfTick \/ \E s \in Sources : SkipSource(s)
    BY <2>1 DEF ListDue, EndOfChecks, EndOfTick, SkipSource
  <2>2. ASSUME NEW s \in Sources, DispatchSource(s) PROVE Placement'
    <3>1. PICK k \in Jobs : CreateJob(k, s) /\ dispatched' = dispatched \cup {k}
      BY <2>2 DEF DispatchSource
    <3>2. k \notin posted /\ task[k] = "none"
      BY <3>1 DEF CreateJob, EngagedIsActive, Engaged, Active
    <3>3. UNCHANGED <<task, registry, posted>>
      BY <2>2 DEF DispatchSource
    <3> QED BY <3>1, <3>2, <3>3 DEF CreateJob
  <2>3. ASSUME NEW j \in Jobs, LaunchMonitoring(j) PROVE Placement'
    BY <2>3 DEF LaunchMonitoring, CreateTask, EngagedIsActive, Engaged, Active
  <2> QED BY <1>1, <2>1, <2>2, <2>3 DEF SchedulerStep
<1>2. CASE TickFails \/ Restart
  BY <1>2 DEF TickFails, Restart
<1>3. ASSUME NEW s \in Sources, SetMonitored(s) \/ BecomesDue(s) PROVE Placement'
  BY <1>3 DEF SetMonitored, BecomesDue
<1>4. ASSUME NEW j \in Jobs, PostCrawl(j) PROVE Placement'
  <2>1. j \notin dispatched /\ j \notin posted /\ task[j] = "none"
    BY <1>4 DEF PostCrawl, CreateJob, EngagedIsActive, Engaged, Active
  <2> QED BY <1>4, <2>1 DEF PostCrawl, CreateJob
<1>5. ASSUME NEW j \in Jobs, LaunchInstant(j) PROVE Placement'
  BY <1>5 DEF LaunchInstant, CreateTask, EngagedIsActive, Engaged, Active
<1>6. ASSUME NEW j \in Jobs, TaskStep(j) \/ DiesOutsideTry(j) PROVE Placement'
  <2> USE DEF Goto, EndTask, SetStatus, At, Guarded, Phases
  <2>1. CASE SeedsDiscovered(j) \/ MarkStarted(j) \/ QueueOpened(j) \/ LoopSeesCancel(j)
    BY <2>1 DEF SeedsDiscovered, MarkStarted, QueueOpened, LoopSeesCancel
  <2>2. CASE LoopEnds(j) \/ LoopFails(j) \/ Drained(j)
    BY <2>2 DEF LoopEnds, LoopFails, Drained
  <2>3. CASE MarkFinished(j) \/ MarkUnwound(j)
    BY <2>3 DEF MarkFinished, MarkUnwound, Terminal
  <2>4. CASE Reschedule(j) \/ Leave(j) \/ DiesOutsideTry(j)
    BY <2>4 DEF Reschedule, Leave, DiesOutsideTry
  <2>5. CASE CancelledInTry(j) \/ CancelledOutsideTry(j)
    BY <2>5 DEF CancelledInTry, CancelledOutsideTry
  <2> QED BY <1>6, <2>1, <2>2, <2>3, <2>4, <2>5 DEF TaskStep
<1>7. ASSUME NEW j \in Jobs, CancelRead(j) \/ CancelStep(j) PROVE Placement'
  BY <1>7 DEF CancelRead, CancelStep, CancelWrite, CancelSignal, SetStatus
<1>8. ASSUME NEW j \in Jobs, Forget(j) PROVE Placement'
  BY <1>8 DEF Forget, SetStatus, EngagedIsActive, Engaged, Active, Terminal
<1>9. CASE UNCHANGED vars
  BY <1>9 DEF vars
<1> QED
  BY <1>1, <1>2, <1>3, <1>4, <1>5, <1>6, <1>7, <1>8, <1>9 DEF Next

\* Only PostCrawl and DispatchSource engage a job, and only for an identity
\* not in use; every other step leaves the engaged jobs and their sources be.
LEMMA EngagedNext ==
  ASSUME IInv, [Next]_vars
  PROVE  \/ \A j \in Jobs : Engaged(j)' => /\ Engaged(j)
                                           /\ source'[j] = source[j]
                                           /\ status'[j] \in Active
         \/ \E k \in Jobs, s \in Sources \cup {NoSource} :
              /\ \A j \in Jobs \ {k} : Engaged(j)' => /\ Engaged(j)
                                                      /\ source'[j] = source[j]
                                                      /\ status'[j] \in Active
              /\ source'[k] = s /\ status'[k] \in Active
              /\ s \in Sources => ~HasActiveJob(s)
<1> USE DEF IInv, TypeOK, EngagedIsActive, Engaged
<1>1. CASE SchedulerStep
  <2>1. CASE ListDue \/ EndOfChecks \/ EndOfTick \/ \E s \in Sources : SkipSource(s)
    BY <2>1 DEF ListDue, EndOfChecks, EndOfTick, SkipSource
  <2>2. ASSUME NEW s \in Sources, DispatchSource(s)
        PROVE  \E k \in Jobs :
                 /\ \A j \in Jobs \ {k} : Engaged(j)' => /\ Engaged(j)
                                                         /\ source'[j] = source[j]
                                                         /\ status'[j] \in Active
                 /\ source'[k] = s /\ status'[k] \in Active
                 /\ ~HasActiveJob(s)
    <3>1. PICK k \in Jobs : CreateJob(k, s) /\ dispatched' = dispatched \cup {k}
      BY <2>2 DEF DispatchSource
    <3>2. ~HasActiveJob(s) /\ UNCHANGED <<task, posted>>
      BY <2>2 DEF DispatchSource
    <3> QED BY <3>1, <3>2 DEF CreateJob, Active
  <2>3. ASSUME NEW j \in Jobs, LaunchMonitoring(j)
        PROVE  \A i \in Jobs : Engaged(i)' => /\ Engaged(i)
                                              /\ source'[i] = source[i]
                                              /\ status'[i] \in Active
    BY <2>3 DEF LaunchMonitoring, CreateTask
  <2> QED BY <1>1, <2>1, <2>2, <2>3 DEF SchedulerStep
<1>2. CASE TickFails \/ Restart
  BY <1>2 DEF TickFails, Restart, Unfinished
<1>3. ASSUME NEW s \in Sources, SetMonitored(s) \/ BecomesDue(s)
      PROVE  \A i \in Jobs : Engaged(i)' => /\ Engaged(i)
                                            /\ source'[i] = source[i]
                                            /\ status'[i] \in Active
  BY <1>3 DEF SetMonitored, BecomesDue
<1>4. ASSUME NEW j \in Jobs, PostCrawl(j)
      PROVE  /\ \A i \in Jobs \ {j} : Engaged(i)' => /\ Engaged(i)
                                                     /\ source'[i] = source[i]
                                                     /\ status'[i] \in Active
             /\ source'[j] = NoSource /\ status'[j] \in Active
  BY <1>4 DEF PostCrawl, CreateJob, Active
<1>5. ASSUME NEW j \in Jobs, LaunchInstant(j)
      PROVE  \A i \in Jobs : Engaged(i)' => /\ Engaged(i)
                                            /\ source'[i] = source[i]
                                            /\ status'[i] \in Active
  BY <1>5 DEF LaunchInstant, CreateTask
<1>6. ASSUME NEW j \in Jobs, TaskStep(j) \/ DiesOutsideTry(j)
      PROVE  \A i \in Jobs : Engaged(i)' => /\ Engaged(i)
                                            /\ source'[i] = source[i]
                                            /\ status'[i] \in Active
  <2> USE DEF Goto, EndTask, SetStatus, At, Guarded, Phases, Unfinished, Placement
  <2>1. CASE SeedsDiscovered(j) \/ MarkStarted(j) \/ QueueOpened(j) \/ LoopSeesCancel(j)
    BY <2>1 DEF SeedsDiscovered, MarkStarted, QueueOpened, LoopSeesCancel, Active
  <2>2. CASE LoopEnds(j) \/ LoopFails(j) \/ Drained(j)
    BY <2>2 DEF LoopEnds, LoopFails, Drained
  <2>3. CASE MarkFinished(j) \/ MarkUnwound(j)
    BY <2>3 DEF MarkFinished, MarkUnwound, Terminal
  <2>4. CASE Reschedule(j) \/ Leave(j) \/ DiesOutsideTry(j)
    BY <2>4 DEF Reschedule, Leave, DiesOutsideTry
  <2>5. CASE CancelledInTry(j) \/ CancelledOutsideTry(j)
    BY <2>5 DEF CancelledInTry, CancelledOutsideTry
  <2> QED BY <1>6, <2>1, <2>2, <2>3, <2>4, <2>5 DEF TaskStep
<1>7. ASSUME NEW j \in Jobs, CancelRead(j) \/ CancelStep(j)
      PROVE  \A i \in Jobs : Engaged(i)' => /\ Engaged(i)
                                            /\ source'[i] = source[i]
                                            /\ status'[i] \in Active
  BY <1>7 DEF CancelRead, CancelStep, CancelWrite, CancelSignal, SetStatus, Active
<1>8. ASSUME NEW j \in Jobs, Forget(j)
      PROVE  \A i \in Jobs : Engaged(i)' => /\ Engaged(i)
                                            /\ source'[i] = source[i]
                                            /\ status'[i] \in Active
  BY <1>8 DEF Forget, SetStatus, Active, Terminal
<1>9. CASE UNCHANGED vars
  BY <1>9 DEF vars
<1> QED
  BY <1>1, <1>2, <1>3, <1>4, <1>5, <1>6, <1>7, <1>8, <1>9, SourceAssumption DEF Next

LEMMA IInvNext == IInv /\ [Next]_vars => IInv'
<1> SUFFICES ASSUME IInv, [Next]_vars PROVE IInv'
  OBVIOUS
<1>1. TypeOK'
  BY TypeNext DEF IInv
<1>2. Placement'
  BY PlacementNext
<1>3. EngagedIsActive'
  BY EngagedNext DEF EngagedIsActive
<1>4. OneCrawlPerSource'
  <2>1. ASSUME NEW k \in Jobs, NEW s \in Sources, ~HasActiveJob(s),
               NEW j \in Jobs, Engaged(j)
        PROVE  source[j] # s
    BY <2>1 DEF HasActiveJob, IInv, EngagedIsActive
  <2> QED BY EngagedNext, <2>1 DEF OneCrawlPerSource, IInv
<1> QED BY <1>1, <1>2, <1>3, <1>4 DEF IInv

LEMMA IInvariant == Spec => []IInv
  BY TypeInit, PlacementInit, IInvNext, PTL DEF Spec, IInv

\* No source is ever crawled twice at a time, in any number of processes'
\* worth of restarts, cancellations and failures.
THEOREM NoPileUp == Spec => []OneCrawlPerSource
  BY IInvariant, PTL DEF IInv

\* A job that will still be worked on is never shown as finished.
THEOREM WorkIsVisible == Spec => []EngagedIsActive
  BY IInvariant, PTL DEF IInv

-----------------------------------------------------------------------------
\* What the scheduler has promised to run: its registered tasks, the jobs it
\* has created in this tick and the sources it may still create jobs for.
Promised ==
    Cardinality(Monitoring(registry)) + Cardinality(dispatched) + Cardinality(listed)

CapInv == TickLists /\ Promised <= MaxConcurrent

\* A step that adds nothing to the promise keeps it within the cap.
LEMMA PromiseShrinks ==
  ASSUME TypeOK, TypeOK', Promised <= MaxConcurrent,
         Monitoring(registry)' \subseteq Monitoring(registry),
         dispatched' \subseteq dispatched, listed' \subseteq listed
  PROVE  Promised' <= MaxConcurrent
<1>1. /\ IsFiniteSet(Monitoring(registry)) /\ IsFiniteSet(dispatched) /\ IsFiniteSet(listed)
      /\ Monitoring(registry) \subseteq Jobs
  BY JobsAssumption, FS_Subset DEF TypeOK, Monitoring
<1>2. /\ Cardinality(Monitoring(registry)') <= Cardinality(Monitoring(registry))
      /\ IsFiniteSet(Monitoring(registry)')
  BY <1>1, FS_Subset
<1>3. Cardinality(dispatched') <= Cardinality(dispatched) /\ IsFiniteSet(dispatched')
  BY <1>1, FS_Subset
<1>4. Cardinality(listed') <= Cardinality(listed) /\ IsFiniteSet(listed')
  BY <1>1, FS_Subset
<1>5. /\ Cardinality(Monitoring(registry)) \in Nat /\ Cardinality(Monitoring(registry)') \in Nat
      /\ Cardinality(dispatched) \in Nat /\ Cardinality(dispatched') \in Nat
      /\ Cardinality(listed) \in Nat /\ Cardinality(listed') \in Nat
  BY <1>1, <1>2, <1>3, <1>4, FS_CardinalityType
<1>6. Promised' = Cardinality(Monitoring(registry)') + Cardinality(dispatched') + Cardinality(listed')
  BY DEF Promised
<1> QED BY <1>2, <1>3, <1>4, <1>5, <1>6, BoundAssumption DEF Promised

LEMMA CapInit == Init => CapInv
<1> SUFFICES ASSUME Init PROVE CapInv
  OBVIOUS
<1>1. Monitoring(registry) = {} /\ dispatched = {} /\ listed = {}
  BY DEF Init, Monitoring
<1> QED BY <1>1, FS_EmptySet, BoundAssumption DEF CapInv, Promised, TickLists, Init

LEMMA TickListsNext == TypeOK /\ TickLists /\ [Next]_vars => TickLists'
<1> USE DEF TypeOK, TickLists
<1>1. ASSUME TypeOK, TickLists, SchedulerStep PROVE TickLists'
  BY <1>1 DEF SchedulerStep, ListDue, EndOfChecks, EndOfTick, SkipSource, DispatchSource,
       LaunchMonitoring
<1>2. ASSUME TypeOK, TickLists, TickFails \/ Restart PROVE TickLists'
  BY <1>2 DEF TickFails, Restart
<1>3. ASSUME TypeOK, TickLists, NEW s \in Sources, SetMonitored(s) \/ BecomesDue(s)
      PROVE TickLists'
  BY <1>3 DEF SetMonitored, BecomesDue
<1>4. ASSUME TypeOK, TickLists, NEW j \in Jobs,
             PostCrawl(j) \/ LaunchInstant(j) \/ TaskStep(j) \/ DiesOutsideTry(j)
             \/ CancelRead(j) \/ CancelStep(j) \/ Forget(j)
      PROVE UNCHANGED tickVars
  <2>1. CASE TaskStep(j)
    BY <2>1 DEF TaskStep, SeedsDiscovered, MarkStarted, QueueOpened, LoopSeesCancel, LoopEnds,
         LoopFails, Drained, MarkFinished, Reschedule, MarkUnwound, Leave, CancelledInTry,
         CancelledOutsideTry
  <2> QED BY <1>4, <2>1 DEF PostCrawl, LaunchInstant, DiesOutsideTry, CancelRead, CancelStep,
         CancelWrite, CancelSignal, Forget
<1>5. ASSUME TypeOK, TickLists, UNCHANGED vars PROVE TickLists'
  BY <1>5 DEF vars
<1> QED BY <1>1, <1>2, <1>3, <1>4, <1>5 DEF Next

LEMMA CapNext == IInv /\ IInv' /\ CapInv /\ [Next]_vars => CapInv'
<1> SUFFICES ASSUME IInv, IInv', CapInv, [Next]_vars PROVE Promised' <= MaxConcurrent
  BY TickListsNext DEF CapInv, IInv
<1> DEFINE Shrinks == /\ Monitoring(registry)' \subseteq Monitoring(registry)
                      /\ dispatched' \subseteq dispatched /\ listed' \subseteq listed
<1>0. Shrinks => Promised' <= MaxConcurrent
  BY PromiseShrinks DEF IInv, CapInv
<1> HIDE DEF Shrinks
<1>a. /\ registry \subseteq Jobs /\ IsFiniteSet(registry) /\ IsFiniteSet(dispatched)
      /\ IsFiniteSet(listed) /\ IsFiniteSet(Monitoring(registry))
      /\ Cardinality(Monitoring(registry)) <= Cardinality(registry)
  BY JobsAssumption, FS_Subset DEF IInv, TypeOK, Monitoring
<1>b. /\ Cardinality(registry) \in Nat /\ Cardinality(dispatched) \in Nat
      /\ Cardinality(listed) \in Nat /\ Cardinality(Monitoring(registry)) \in Nat
  BY <1>a, FS_CardinalityType
<1>c. Promised' = Cardinality(Monitoring(registry)') + Cardinality(dispatched') + Cardinality(listed')
  BY DEF Promised
<1>1. CASE ListDue
  <2>1. dispatched' = {} /\ listed = {} /\ UNCHANGED <<registry, source>>
    BY <1>1 DEF ListDue, CapInv, TickLists
  <2>2. /\ Cardinality(listed') <= AvailableSlots /\ listed' \subseteq Sources
        /\ IsFiniteSet(listed')
    BY <1>1, JobsAssumption, FS_Subset DEF ListDue, FirstDue
  <2>3. Monitoring(registry)' = Monitoring(registry)
    BY <2>1 DEF Monitoring
  <2>4. Cardinality(listed') \in Nat
    BY <2>2, FS_CardinalityType
  <2>5. Cardinality(dispatched') = 0
    BY <2>1, FS_EmptySet
  <2>6. Cardinality(Monitoring(registry)) <= MaxConcurrent
    BY <1>b, BoundAssumption DEF CapInv, Promised
  <2> QED
    BY <1>a, <1>b, <1>c, <2>2, <2>3, <2>4, <2>5, <2>6, BoundAssumption DEF AvailableSlots
<1>2. ASSUME NEW s \in Sources, DispatchSource(s) PROVE Promised' <= MaxConcurrent
  <2>1. PICK k \in Jobs : CreateJob(k, s) /\ dispatched' = dispatched \cup {k}
    BY <1>2 DEF DispatchSource
  <2>2. s \in listed /\ listed' = listed \ {s} /\ UNCHANGED <<task, registry>>
    BY <1>2 DEF DispatchSource
  <2>3. Monitoring(registry)' = Monitoring(registry)
    <3>1. k \notin registry
      BY <2>1 DEF CreateJob, IInv, Placement
    <3>2. \A i \in registry : source'[i] = source[i]
      BY <2>1, <3>1, <1>a DEF CreateJob, IInv, TypeOK
    <3>3. Monitoring(registry)' = {i \in registry' : source'[i] # NoSource}
      BY DEF Monitoring
    <3>4. registry' = registry
      BY <2>2
    <3> QED BY <3>2, <3>3, <3>4 DEF Monitoring
  <2>4. Cardinality(dispatched') <= Cardinality(dispatched) + 1 /\ Cardinality(dispatched') \in Nat
    <3>1. /\ IsFiniteSet(dispatched \cup {k})
          /\ Cardinality(dispatched \cup {k}) =
               IF k \in dispatched THEN Cardinality(dispatched) ELSE Cardinality(dispatched) + 1
      BY <1>a, FS_AddElement
    <3> QED BY <2>1, <3>1, <1>b
  <2>5. Cardinality(listed') = Cardinality(listed) - 1
    BY <2>2, <1>a, FS_RemoveElement
  <2> QED BY <1>b, <1>c, <2>3, <2>4, <2>5, BoundAssumption DEF CapInv, Promised
<1>3. ASSUME NEW j \in Jobs, LaunchMonitoring(j) PROVE Promised' <= MaxConcurrent
  <2>1. /\ j \in dispatched /\ dispatched' = dispatched \ {j}
        /\ registry' = registry \cup {j} /\ UNCHANGED <<source, listed>>
    BY <1>3 DEF LaunchMonitoring, CreateTask
  <2>2. Monitoring(registry)' \subseteq Monitoring(registry) \cup {j}
    BY <2>1 DEF Monitoring
  <2>3. /\ IsFiniteSet(Monitoring(registry) \cup {j})
        /\ Cardinality(Monitoring(registry) \cup {j}) <= Cardinality(Monitoring(registry)) + 1
        /\ Cardinality(Monitoring(registry) \cup {j}) \in Nat
    BY <1>a, <1>b, FS_AddElement, FS_CardinalityType
  <2>4. /\ Cardinality(Monitoring(registry)') <= Cardinality(Monitoring(registry) \cup {j})
        /\ Cardinality(Monitoring(registry)') \in Nat
    BY <2>2, <2>3, FS_Subset, FS_CardinalityType
  <2>5. Cardinality(dispatched') = Cardinality(dispatched) - 1
    BY <2>1, <1>a, FS_RemoveElement
  <2> QED BY <1>b, <1>c, <2>1, <2>3, <2>4, <2>5, BoundAssumption DEF CapInv, Promised
<1>4. CASE SchedulerStep
  <2>1. CASE EndOfChecks \/ EndOfTick \/ \E s \in Sources : SkipSource(s)
    <3>1. /\ UNCHANGED <<source, registry, dispatched>> /\ listed' \subseteq listed
      BY <2>1 DEF EndOfChecks, EndOfTick, SkipSource
    <3> QED BY <3>1, <1>0 DEF Monitoring, Shrinks
  <2> QED BY <1>1, <1>2, <1>3, <1>4, <2>1 DEF SchedulerStep
<1>5. CASE TickFails \/ Restart
  BY <1>5, <1>0 DEF TickFails, Restart, Monitoring, Shrinks
<1>6. ASSUME NEW s \in Sources, SetMonitored(s) \/ BecomesDue(s)
      PROVE Promised' <= MaxConcurrent
  BY <1>6, <1>0 DEF SetMonitored, BecomesDue, Monitoring, Shrinks
<1>7. ASSUME NEW j \in Jobs, PostCrawl(j) \/ Forget(j) PROVE Promised' <= MaxConcurrent
  <2>1. \A i \in Jobs : source'[i] # NoSource => source[i] # NoSource
    BY <1>7 DEF PostCrawl, CreateJob, Forget, IInv, TypeOK
  <2> QED BY <1>7, <1>0, <1>a, <2>1 DEF PostCrawl, Forget, Monitoring, Shrinks
<1>8. ASSUME NEW j \in Jobs, LaunchInstant(j) PROVE Promised' <= MaxConcurrent
  <2>1. source[j] = NoSource /\ UNCHANGED <<source, listed, dispatched>>
    BY <1>8 DEF LaunchInstant, IInv, Placement
  <2>2. registry' = registry \cup {j}
    BY <1>8 DEF LaunchInstant, CreateTask
  <2> QED BY <1>0, <2>1, <2>2 DEF Monitoring, Shrinks
<1>9. ASSUME NEW j \in Jobs, TaskStep(j) \/ DiesOutsideTry(j) \/ CancelRead(j) \/ CancelStep(j)
      PROVE Promised' <= MaxConcurrent
  <2> USE DEF Goto, EndTask
  <2>1. registry' \subseteq registry /\ UNCHANGED <<source, listed, dispatched>>
    <3>1. CASE TaskStep(j)
      BY <3>1 DEF TaskStep, SeedsDiscovered, MarkStarted, QueueOpened, LoopSeesCancel, LoopEnds,
           LoopFails, Drained, MarkFinished, Reschedule, MarkUnwound, Leave, CancelledInTry,
           CancelledOutsideTry
    <3> QED BY <1>9, <3>1 DEF DiesOutsideTry, CancelRead, CancelStep, CancelWrite, CancelSignal
  <2> QED BY <1>0, <2>1 DEF Monitoring, Shrinks
<1>10. CASE UNCHANGED vars
  BY <1>10, <1>0 DEF vars, Monitoring, Shrinks
<1> QED BY <1>4, <1>5, <1>6, <1>7, <1>8, <1>9, <1>10 DEF Next

\* The scheduler's own crawls never exceed the cap it computes its slots from.
THEOREM CapHolds == Spec => []MonitoringWithinCap
<1>1. IInv /\ CapInv => MonitoringWithinCap
  <2> SUFFICES ASSUME IInv, CapInv PROVE MonitoringWithinCap
    OBVIOUS
  <2>1. IsFiniteSet(Monitoring(registry)) /\ IsFiniteSet(dispatched) /\ IsFiniteSet(listed)
    BY JobsAssumption, FS_Subset DEF IInv, TypeOK, Monitoring
  <2>2. /\ Cardinality(Monitoring(registry)) \in Nat /\ Cardinality(dispatched) \in Nat
        /\ Cardinality(listed) \in Nat
    BY <2>1, FS_CardinalityType
  <2> QED BY <2>2, BoundAssumption DEF CapInv, Promised, MonitoringWithinCap
<1> QED BY <1>1, IInvariant, CapInit, CapNext, PTL DEF Spec
=============================================================================
