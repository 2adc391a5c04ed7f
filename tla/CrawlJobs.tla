------------------------------ MODULE CrawlJobs ------------------------------
(***************************************************************************)
(* The life of a crawl job: the rows of the crawl_job table, the asyncio    *)
(* task that runs each of them, the in-process registry of running tasks,   *)
(* the monitoring scheduler that creates jobs for due sources, the two API  *)
(* handlers that create instant jobs and the one that cancels a job, and a  *)
(* restart of the process that holds all of it except the rows.             *)
(*                                                                         *)
(* One action is the code between two awaits whose results other tasks can  *)
(* observe.  What a crawl does to pages and documents is not visible here:  *)
(* the crawl loop is a phase that ends for one of the reasons the code has. *)
(***************************************************************************)
EXTENDS Naturals, FiniteSets

CONSTANTS
    Sources,          \* monitored sources
    Jobs,             \* identities a crawl_job row may take
    NoSource,         \* source_id of an instant job
    MaxConcurrent,    \* settings.scheduler_max_concurrent_jobs
    MaxInstants,      \* bound: instant crawls requested
    MaxCancels,       \* bound: cancel requests that pass the status test
    MaxRestarts,      \* bound: crashes of the API process
    MaxFaults,        \* bound: exceptions outside run_crawl's try block
    MaxPageFailures   \* bound: crawls that end in the except Exception branch

ASSUME JobsAssumption == IsFiniteSet(Jobs) /\ IsFiniteSet(Sources)
ASSUME SourceAssumption == NoSource \notin Sources
ASSUME BoundAssumption ==
    /\ MaxConcurrent \in Nat
    /\ {MaxInstants, MaxCancels, MaxRestarts, MaxFaults, MaxPageFailures} \subseteq Nat

VARIABLES
    \* Postgres: survives a restart
    status,       \* crawl_job.status, "absent" when there is no such row
    source,       \* crawl_job.source_id
    monitored,    \* source.status = "active"
    due,          \* source.next_crawl_at is null or not in the future
    \* memory of the API process
    task,         \* how far the job's asyncio task is in run_crawl
    verdict,      \* the final_status the task is about to write
    registry,     \* registry._running_tasks
    interrupted,  \* task.cancel() was called, CancelledError not thrown yet
    posted,       \* instant jobs committed whose task is not created yet
    canceller,    \* progress of the cancel handler of a job
    tick,         \* progress of _dispatch_due_sources
    listed,       \* due_sources still to be examined in this tick
    dispatched,   \* jobs of this tick whose task is not created yet
    \* environment budgets
    budget

dbVars   == <<status, source, monitored, due>>
taskVars == <<task, verdict, registry, interrupted>>
apiVars  == <<posted, canceller>>
tickVars == <<tick, listed, dispatched>>
vars     == <<dbVars, taskVars, apiVars, tickVars, budget>>

Active   == {"queued", "running", "cancelling"}
Terminal == {"completed", "cancelled", "failed"}

\* Where a task can be suspended.  "none": no task (not created, or done).
Phases == {"none",
           "discovery",     \* _run_instant_crawl, before run_crawl
           "starting",      \* run_crawl, mark_started not committed
           "opening",       \* running, but before the try block
           "crawling",      \* the page loop
           "draining",      \* loop left, pages in flight awaited
           "dropping",      \* after the try block, mark_finished not committed
           "rescheduling",  \* mark_finished committed, source not rescheduled
           "unwinding",     \* except branch, mark_finished not committed
           "leaving"}       \* except branch, mark_finished committed

Guarded    == {"crawling", "draining"}       \* inside the try block
Unfinished == Phases \ {"none", "rescheduling", "leaving"}

Kinds == {"instant", "cancel", "restart", "fault", "page"}

Limit == [instant |-> MaxInstants, cancel |-> MaxCancels, restart |-> MaxRestarts,
          fault |-> MaxFaults, page |-> MaxPageFailures]

TypeOK ==
    /\ status \in [Jobs -> {"absent"} \cup Active \cup Terminal]
    /\ source \in [Jobs -> Sources \cup {NoSource}]
    /\ monitored \in [Sources -> BOOLEAN]
    /\ due \in [Sources -> BOOLEAN]
    /\ task \in [Jobs -> Phases]
    /\ verdict \in [Jobs -> Terminal]
    /\ registry \subseteq Jobs
    /\ interrupted \subseteq Jobs
    /\ posted \subseteq Jobs
    /\ canceller \in [Jobs -> {"idle", "read", "wrote"}]
    /\ tick \in {"sleeping", "checking", "launching"}
    /\ listed \subseteq Sources
    /\ dispatched \subseteq Jobs
    /\ budget \in [Kinds -> Nat]

Spend(kind) ==
    /\ budget[kind] > 0
    /\ budget' = [budget EXCEPT ![kind] = @ - 1]

-----------------------------------------------------------------------------
(***************************************************************************)
(* Creating jobs.                                                          *)
(***************************************************************************)

\* CrawlRepository.create_job for an identity not in use.
CreateJob(j, s) ==
    /\ status[j] = "absent"
    /\ status' = [status EXCEPT ![j] = "queued"]
    /\ source' = [source EXCEPT ![j] = s]

\* asyncio.create_task followed, without an await, by registry.register.
CreateTask(j, phase) ==
    /\ task' = [task EXCEPT ![j] = phase]
    /\ registry' = registry \cup {j}
    /\ UNCHANGED <<verdict, interrupted>>

\* create_crawl and search_instant, up to the commit of the new row.
PostCrawl(j) ==
    /\ Spend("instant")
    /\ CreateJob(j, NoSource)
    /\ posted' = posted \cup {j}
    /\ UNCHANGED <<monitored, due, taskVars, canceller, tickVars>>

\* create_crawl runs discovery first, search_instant starts run_crawl itself.
LaunchInstant(j) ==
    /\ j \in posted
    /\ posted' = posted \ {j}
    /\ \E phase \in {"discovery", "starting"} : CreateTask(j, phase)
    /\ UNCHANGED <<dbVars, canceller, tickVars, budget>>

-----------------------------------------------------------------------------
(***************************************************************************)
(* The scheduler: one tick lists, slices, checks and creates, then launches.*)
(***************************************************************************)

Due == {s \in Sources : monitored[s] /\ due[s]}

\* Broken: the running tasks are not subtracted.
AvailableSlotsUncounted == MaxConcurrent

AvailableSlots ==
    IF Cardinality(registry) < MaxConcurrent
    THEN MaxConcurrent - Cardinality(registry)
    ELSE 0

\* due_sources[:available_slots] of a query without ORDER BY: any choice.
FirstDue(S) ==
    /\ S \subseteq Due
    /\ Cardinality(S) <= AvailableSlots
    /\ S # Due => Cardinality(S) = AvailableSlots

ListDue ==
    /\ tick = "sleeping"
    /\ tick' = "checking"
    /\ \E S \in SUBSET Sources : FirstDue(S) /\ listed' = S
    /\ UNCHANGED <<dbVars, taskVars, apiVars, dispatched, budget>>

\* Broken: a job being cancelled is taken for finished.
HasActiveJobNarrow(s) ==
    \E j \in Jobs : source[j] = s /\ status[j] \in {"queued", "running"}

\* get_active_job_for_source
HasActiveJob(s) == \E j \in Jobs : source[j] = s /\ status[j] \in Active

SkipSource(s) ==
    /\ tick = "checking" /\ s \in listed
    /\ HasActiveJob(s)
    /\ listed' = listed \ {s}
    /\ UNCHANGED <<dbVars, taskVars, apiVars, tick, dispatched, budget>>

\* Broken: the new job is not appended to the dispatched list.
DispatchSourceForgotten(s) ==
    /\ tick = "checking" /\ s \in listed
    /\ ~HasActiveJob(s)
    /\ listed' = listed \ {s}
    /\ \E j \in Jobs : CreateJob(j, s)
    /\ UNCHANGED <<monitored, due, taskVars, apiVars, tick, dispatched, budget>>

DispatchSource(s) ==
    /\ tick = "checking" /\ s \in listed
    /\ ~HasActiveJob(s)
    /\ listed' = listed \ {s}
    /\ \E j \in Jobs : CreateJob(j, s) /\ dispatched' = dispatched \cup {j}
    /\ UNCHANGED <<monitored, due, taskVars, apiVars, tick, budget>>

EndOfChecks ==
    /\ tick = "checking" /\ listed = {}
    /\ tick' = "launching"
    /\ UNCHANGED <<dbVars, taskVars, apiVars, listed, dispatched, budget>>

\* Second loop: seed discovery never raises, so every job gets its task.
LaunchMonitoring(j) ==
    /\ tick = "launching" /\ j \in dispatched
    /\ dispatched' = dispatched \ {j}
    /\ CreateTask(j, "starting")
    /\ UNCHANGED <<dbVars, apiVars, tick, listed, budget>>

EndOfTick ==
    /\ tick = "launching" /\ dispatched = {}
    /\ tick' = "sleeping"
    /\ UNCHANGED <<dbVars, taskVars, apiVars, listed, dispatched, budget>>

\* A database error while checking: scheduler_loop swallows it, the jobs
\* this tick has created keep their rows and never get a task.
TickFails ==
    /\ tick = "checking"
    /\ Spend("fault")
    /\ tick' = "sleeping"
    /\ listed' = {}
    /\ dispatched' = {}
    /\ UNCHANGED <<dbVars, taskVars, apiVars>>

-----------------------------------------------------------------------------
(***************************************************************************)
(* The task of a job.  Once interrupted, a task runs no statement before    *)
(* CancelledError is thrown at the await it is suspended in.                *)
(***************************************************************************)

At(j, phase) == task[j] = phase /\ j \notin interrupted

Goto(j, phase) ==
    /\ task' = [task EXCEPT ![j] = phase]
    /\ UNCHANGED <<registry, interrupted>>

\* Broken: no done-callback.
EndTaskUnregistered(j) ==
    /\ task' = [task EXCEPT ![j] = "none"]
    /\ interrupted' = interrupted \ {j}
    /\ UNCHANGED registry

\* The task is done: the registry's done-callback drops it.
EndTask(j) ==
    /\ task' = [task EXCEPT ![j] = "none"]
    /\ registry' = registry \ {j}
    /\ interrupted' = interrupted \ {j}

SetStatus(j, value) == status' = [status EXCEPT ![j] = value]

SeedsDiscovered(j) ==
    /\ At(j, "discovery")
    /\ Goto(j, "starting")
    /\ UNCHANGED <<dbVars, verdict, apiVars, tickVars, budget>>

\* mark_started writes "running" whatever the row says by now.
MarkStarted(j) ==
    /\ At(j, "starting")
    /\ SetStatus(j, "running")
    /\ Goto(j, "opening")
    /\ UNCHANGED <<source, monitored, due, verdict, apiVars, tickVars, budget>>

QueueOpened(j) ==
    /\ At(j, "opening")
    /\ Goto(j, "crawling")
    /\ UNCHANGED <<dbVars, verdict, apiVars, tickVars, budget>>

\* ensure_bucket or RequestQueue.open raises outside the try block, or an
\* await of the closing section or of an except branch does.
DiesOutsideTry(j) ==
    /\ task[j] \in Phases \ (Guarded \cup {"none", "discovery"})
    /\ j \notin interrupted
    /\ Spend("fault")
    /\ EndTask(j)
    /\ UNCHANGED <<dbVars, verdict, apiVars, tickVars>>

\* Broken: the row is closed before the pages in flight are.
LoopClosesRow(j) ==
    /\ At(j, "crawling")
    /\ status[j] = "cancelling"
    /\ SetStatus(j, "cancelled")
    /\ verdict' = [verdict EXCEPT ![j] = "cancelled"]
    /\ Goto(j, "draining")
    /\ UNCHANGED <<source, monitored, due, apiVars, tickVars, budget>>

\* The loop re-reads the row and finds the cancel request.
LoopSeesCancel(j) ==
    /\ At(j, "crawling")
    /\ status[j] = "cancelling"
    /\ verdict' = [verdict EXCEPT ![j] = "cancelled"]
    /\ Goto(j, "draining")
    /\ UNCHANGED <<dbVars, apiVars, tickVars, budget>>

\* The page budget is used up or the frontier is finished.
LoopEnds(j) ==
    /\ At(j, "crawling")
    /\ verdict' = [verdict EXCEPT ![j] = "completed"]
    /\ Goto(j, "draining")
    /\ UNCHANGED <<dbVars, apiVars, tickVars, budget>>

\* A page task's exception re-raised by task.result(), or the frontier's own.
LoopFails(j) ==
    /\ At(j, "crawling")
    /\ Spend("page")
    /\ verdict' = [verdict EXCEPT ![j] = "failed"]
    /\ Goto(j, "unwinding")
    /\ UNCHANGED <<dbVars, apiVars, tickVars>>

Drained(j) ==
    /\ At(j, "draining")
    /\ Goto(j, "dropping")
    /\ UNCHANGED <<dbVars, verdict, apiVars, tickVars, budget>>

\* finalize_run and mark_finished after the try block.
MarkFinished(j) ==
    /\ At(j, "dropping")
    /\ SetStatus(j, verdict[j])
    /\ Goto(j, "rescheduling")
    /\ UNCHANGED <<source, monitored, due, verdict, apiVars, tickVars, budget>>

\* Broken: next_crawl_at is not moved.
RescheduleNever(j) ==
    /\ At(j, "rescheduling")
    /\ EndTask(j)
    /\ UNCHANGED <<dbVars, verdict, apiVars, tickVars, budget>>

\* Only a completed crawl moves next_crawl_at into the future.
Reschedule(j) ==
    /\ At(j, "rescheduling")
    /\ \/ /\ source[j] \in Sources /\ verdict[j] = "completed"
          /\ due' = [due EXCEPT ![source[j]] = FALSE]
       \/ /\ source[j] = NoSource \/ verdict[j] # "completed"
          /\ UNCHANGED due
    /\ EndTask(j)
    /\ UNCHANGED <<status, source, monitored, verdict, apiVars, tickVars, budget>>

\* finalize_run and mark_finished inside an except branch.
MarkUnwound(j) ==
    /\ At(j, "unwinding")
    /\ SetStatus(j, verdict[j])
    /\ Goto(j, "leaving")
    /\ UNCHANGED <<source, monitored, due, verdict, apiVars, tickVars, budget>>

Leave(j) ==
    /\ At(j, "leaving")
    /\ EndTask(j)
    /\ UNCHANGED <<dbVars, verdict, apiVars, tickVars, budget>>

\* CancelledError inside the try block reaches except CancelledError ...
CancelledInTry(j) ==
    /\ j \in interrupted /\ task[j] \in Guarded
    /\ task' = [task EXCEPT ![j] = "unwinding"]
    /\ verdict' = [verdict EXCEPT ![j] = "cancelled"]
    /\ interrupted' = interrupted \ {j}
    /\ UNCHANGED <<dbVars, registry, apiVars, tickVars, budget>>

\* ... and anywhere else it ends the task, the row left as it is.
CancelledOutsideTry(j) ==
    /\ j \in interrupted /\ task[j] \notin Guarded
    /\ EndTask(j)
    /\ UNCHANGED <<dbVars, verdict, apiVars, tickVars, budget>>

TaskStep(j) ==
    \/ SeedsDiscovered(j) \/ MarkStarted(j) \/ QueueOpened(j)
    \/ LoopSeesCancel(j) \/ LoopEnds(j) \/ LoopFails(j) \/ Drained(j)
    \/ MarkFinished(j) \/ Reschedule(j) \/ MarkUnwound(j) \/ Leave(j)
    \/ CancelledInTry(j) \/ CancelledOutsideTry(j)

-----------------------------------------------------------------------------
(***************************************************************************)
(* The cancel handler: read the row, write "cancelling", cancel the task.   *)
(***************************************************************************)

CancelRead(j) ==
    /\ canceller[j] = "idle"
    /\ status[j] \in {"queued", "running"}
    /\ Spend("cancel")
    /\ canceller' = [canceller EXCEPT ![j] = "read"]
    /\ UNCHANGED <<dbVars, taskVars, posted, tickVars>>

\* request_cancel commits on the strength of the earlier read.
CancelWrite(j) ==
    /\ canceller[j] = "read"
    /\ canceller' = [canceller EXCEPT ![j] = "wrote"]
    /\ SetStatus(j, "cancelling")
    /\ UNCHANGED <<source, monitored, due, taskVars, posted, tickVars, budget>>

\* registry.cancel
CancelSignal(j) ==
    /\ canceller[j] = "wrote"
    /\ canceller' = [canceller EXCEPT ![j] = "idle"]
    /\ interrupted' = interrupted \cup ({j} \cap registry)
    /\ UNCHANGED <<dbVars, task, verdict, registry, posted, tickVars, budget>>

CancelStep(j) == CancelWrite(j) \/ CancelSignal(j)

-----------------------------------------------------------------------------
(***************************************************************************)
(* Sources, time and the process.                                          *)
(***************************************************************************)

\* POST /sources/{id}/start, /resume and /pause
SetMonitored(s) ==
    /\ monitored' = [monitored EXCEPT ![s] = ~ @]
    /\ UNCHANGED <<status, source, due, taskVars, apiVars, tickVars, budget>>

\* The clock passes next_crawl_at.
BecomesDue(s) ==
    /\ ~ due[s]
    /\ due' = [due EXCEPT ![s] = TRUE]
    /\ UNCHANGED <<status, source, monitored, taskVars, apiVars, tickVars, budget>>

\* The process dies and comes back: lifespan starts a new scheduler_loop and
\* looks at no job.
Restart ==
    /\ Spend("restart")
    /\ task' = [j \in Jobs |-> "none"]
    /\ registry' = {}
    /\ interrupted' = {}
    /\ posted' = {}
    /\ canceller' = [j \in Jobs |-> "idle"]
    /\ tick' = "sleeping"
    /\ listed' = {}
    /\ dispatched' = {}
    /\ UNCHANGED <<dbVars, verdict>>

\* Nothing modelled reads a terminal row again: its identity may be reused.
\* This keeps Jobs finite without bounding how many crawls there are.
Forget(j) ==
    /\ status[j] \in Terminal /\ task[j] = "none" /\ canceller[j] = "idle"
    /\ SetStatus(j, "absent")
    /\ source' = [source EXCEPT ![j] = NoSource]
    /\ UNCHANGED <<monitored, due, taskVars, apiVars, tickVars, budget>>

-----------------------------------------------------------------------------
Init ==
    /\ status = [j \in Jobs |-> "absent"]
    /\ source = [j \in Jobs |-> NoSource]
    /\ monitored = [s \in Sources |-> FALSE]
    /\ due = [s \in Sources |-> TRUE]
    /\ task = [j \in Jobs |-> "none"]
    /\ verdict = [j \in Jobs |-> "completed"]
    /\ registry = {}
    /\ interrupted = {}
    /\ posted = {}
    /\ canceller = [j \in Jobs |-> "idle"]
    /\ tick = "sleeping"
    /\ listed = {}
    /\ dispatched = {}
    /\ budget = Limit

SchedulerStep ==
    \/ ListDue \/ EndOfChecks \/ EndOfTick
    \/ \E s \in Sources : SkipSource(s) \/ DispatchSource(s)
    \/ \E j \in Jobs : LaunchMonitoring(j)

Next ==
    \/ SchedulerStep \/ TickFails \/ Restart
    \/ \E s \in Sources : SetMonitored(s) \/ BecomesDue(s)
    \/ \E j \in Jobs :
         \/ PostCrawl(j) \/ LaunchInstant(j)
         \/ TaskStep(j) \/ DiesOutsideTry(j)
         \/ CancelRead(j) \/ CancelStep(j)
         \/ Forget(j)

Spec == Init /\ [][Next]_vars

\* The event loop resumes every task whose await has completed, the handlers
\* included, and every await modelled here has a timeout or a bounded amount
\* of work.  Clients, the clock, crashes and faults are never obliged to act.
Fairness ==
    /\ WF_vars(SchedulerStep)
    /\ \A j \in Jobs : /\ WF_vars(TaskStep(j))
                       /\ WF_vars(CancelStep(j))
                       /\ WF_vars(LaunchInstant(j))
                       /\ WF_vars(Forget(j))

FairSpec == Spec /\ Fairness

-----------------------------------------------------------------------------
(***************************************************************************)
(* Properties.                                                             *)
(***************************************************************************)

\* Somebody is still going to write this job's row.
Engaged(j) == j \in dispatched \/ j \in posted \/ task[j] \in Unfinished

\* As long as a job is going to be worked on its row says so: the row, not
\* the task, is what get_active_job_for_source and the clients look at.
EngagedIsActive == \A j \in Jobs : Engaged(j) => status[j] \in Active

\* "previous crawl for this source is still running -- don't pile up"
\* (scheduler.py:59): no two crawls of one source are ever under way, however
\* ticks, cancel requests, failures and restarts interleave.
OneCrawlPerSource ==
    \A j, k \in Jobs :
        Engaged(j) /\ Engaged(k) /\ source[j] = source[k] /\ source[j] # NoSource => j = k

Monitoring(S) == {j \in S : source[j] # NoSource}

\* The dispatch cap: instant crawls may exceed it, the scheduler's own crawls
\* never do, although a tick counts running tasks once, before the awaits in
\* which it creates and launches its jobs.
MonitoringWithinCap ==
    Cardinality(Monitoring(registry)) <= MaxConcurrent

\* Every task ends and gives its registry entry back, cancelled, failed or
\* not: a slot of the cap never leaks.
SlotsComeBack == \A j \in Jobs : j \in registry ~> j \notin registry

\* A cancel request or an exception outside the try block has happened: either
\* may leave a row active for ever, as CancelTerminates shows.
Disturbed == budget["cancel"] < MaxCancels \/ budget["fault"] < MaxFaults

\* Undisturbed, every job created reaches a terminal status.
JobsFinish == \A j \in Jobs : status[j] = "queued" ~> status[j] \in Terminal \/ Disturbed

\* scheduler.py:50-53: with more sources due than slots "nothing is dropped,
\* only delayed".  Undisturbed, a due source is crawled and given a later
\* next_crawl_at, unless it is paused first.  True with a slot for every
\* source; with fewer, a source may be cut off at every tick.
DueIsServed == \A s \in Sources : s \in Due ~> s \notin Due \/ Disturbed

\* integration.md:268: a job that is "cancelling" reaches the terminal status.
CancelTerminates == \A j \in Jobs : status[j] = "cancelling" ~> status[j] \in Terminal
=============================================================================
