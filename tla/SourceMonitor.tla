---------------------------- MODULE SourceMonitor ----------------------------
(***************************************************************************)
(* What a monitored source remembers about its URLs.  source.source_urls   *)
(* and source.monitoring_events are two JSONB lists on one row; every page *)
(* task that records an outcome locks the row, copies the list, changes    *)
(* its own entry and writes the whole list back.  A transition to removed  *)
(* or back is announced afterwards, by a second transaction.               *)
(*                                                                         *)
(* Page tasks of one URL may overlap: two URLs of a crawl may have the     *)
(* same normalized form, and pages in flight outlive a crawl that failed   *)
(* or was cancelled, when the next crawl of the source may already run.    *)
(***************************************************************************)
EXTENDS Integers, FiniteSets

CONSTANTS
    Urls,               \* normalized URLs of the source
    Pages,              \* page tasks
    NoEntry,            \* a URL without an entry in source_urls
    NoTask,             \* the locals of a page task that is not there
    RemovalThreshold,   \* settings.monitoring_removal_failure_threshold
    Answers,            \* how fetches end: a transport error or a status
    MaxRun,             \* bound: removal-eligible failures in a row
    MaxAborts           \* bound: page tasks cancelled or failed elsewhere

VARIABLES
    entries,    \* source.source_urls by normalized_url
    last,       \* the last REMOVED or RESTORED event about each URL
    site,       \* how a fetch from the web site ends now
    phase,      \* progress of each page task
    task,       \* its locals, with the list as its session has read it
    seen,       \* history: URLs with a recorded outcome
    run,        \* history: failures in a row that say the page is gone
    confused,   \* history: URLs whose latest announcement is lost or overtaken
    aborts      \* environment budget

taskVars == <<phase, task>>
histVars == <<seen, run, confused>>
vars     == <<entries, last, site, taskVars, histVars, aborts>>

Entries == [status : {"active", "removed"}, failures : Nat]
News    == {"none", "REMOVED", "RESTORED"}
AnyAnswer == [error : {"none", "dns_failure", "tls_failure", "timeout", "connection_failure"},
              status : 100 .. 599]

ASSUME MonitorAssumption ==
    /\ IsFiniteSet(Pages)
    /\ {RemovalThreshold, MaxRun, MaxAborts} \subseteq Nat
    /\ Answers \subseteq AnyAnswer
    /\ NoEntry \notin Entries

EntryLists == [Urls -> Entries \cup {NoEntry}]
NewsLists  == [Urls -> News]

NoList == [u \in Urls |-> NoEntry]
NoNews == [u \in Urls |-> "none"]

Locals == [url : Urls, answer : Answers, list : EntryLists, news : NewsLists, kind : News]

ASSUME TaskAssumption == NoTask \notin Locals

TypeOK ==
    /\ entries \in EntryLists
    /\ last \in NewsLists
    /\ site \in Answers
    /\ phase \in [Pages -> {"idle", "answered", "recording", "owing", "announcing"}]
    /\ task \in [Pages -> Locals \cup {NoTask}]
    /\ \A p \in Pages : task[p] = NoTask <=> phase[p] = "idle"
    /\ seen \subseteq Urls
    /\ run \in [Urls -> Nat]
    /\ confused \subseteq Urls
    /\ aborts \in Nat

-----------------------------------------------------------------------------
(***************************************************************************)
(* failure_classification.                                                 *)
(***************************************************************************)

BlockedOrThrottled == {"http_403", "http_429", "robots_blocked", "soft_blocked"}

IsRemovalEligible(category) == category \notin BlockedOrThrottled \cup {"none"}

ClassifyHttpStatus(code) ==
    CASE code = 403 -> "http_403"
      [] code = 404 -> "http_404"
      [] code = 410 -> "http_410"
      [] code = 429 -> "http_429"
      [] code \in 500 .. 599 -> "http_5xx"
      [] code \in 400 .. 499 \ {403, 404, 410, 429} -> "other_http_error"
      [] OTHER -> "none"

\* The category of a fetch that failed, else of its status.  A soft-blocked
\* page is a page with a good status.
Category(a) == IF a.error # "none" THEN a.error ELSE ClassifyHttpStatus(a.status)

-----------------------------------------------------------------------------
(***************************************************************************)
(* One entry.                                                              *)
(***************************************************************************)

\* upsert_source_url_success
Succeeded == [status |-> "active", failures |-> 0]

\* record_source_url_failure: the threshold is not looked at for a URL that
\* is not in the list yet.
Failed(entry, category) ==
    LET counts == IsRemovalEligible(category) IN
    IF entry = NoEntry
    THEN [status |-> "active", failures |-> IF counts THEN 1 ELSE 0]
    ELSE IF counts
    THEN [status |-> IF entry.failures + 1 >= RemovalThreshold THEN "removed" ELSE entry.status,
          failures |-> entry.failures + 1]
    ELSE entry

\* Broken: a success takes the count back but not the status.
NewEntryNeverBack(entry, a) ==
    IF Category(a) # "none" THEN Failed(entry, Category(a))
    ELSE IF entry = NoEntry THEN Succeeded ELSE [entry EXCEPT !.failures = 0]

NewEntry(entry, a) ==
    IF Category(a) = "none" THEN Succeeded ELSE Failed(entry, Category(a))

\* Broken: every failure beyond the threshold is announced, none taken back.
TransitionOfFailures(entry, new) ==
    IF new.status = "removed" THEN "REMOVED" ELSE "none"

\* just_removed and was_restored, as the event they lead to.
Transition(entry, new) ==
    IF entry = NoEntry \/ entry.status = new.status THEN "none"
    ELSE IF new.status = "removed" THEN "REMOVED" ELSE "RESTORED"

-----------------------------------------------------------------------------
(***************************************************************************)
(* A page task of a monitoring crawl, from the answer to its fetch on.     *)
(***************************************************************************)

\* What an answer says of the page, for the history: an error or an error
\* status says it is gone, unless the site only refuses to show it.
SaysGone(a) == a.error # "none" \/ (a.status >= 400 /\ a.status \notin {403, 429})
SaysThere(a) == a.error = "none" /\ a.status < 400

Goto(p, ph) == phase' = [phase EXCEPT ![p] = ph]

TaskEnds(p) ==
    /\ Goto(p, "idle")
    /\ task' = [task EXCEPT ![p] = NoTask]

SourceLocked == \E p \in Pages : phase[p] \in {"recording", "announcing"}

\* Failures under way, to bound run.
Failing(u) == {p \in Pages : phase[p] \in {"answered", "recording"}
                               /\ task[p].url = u /\ SaysGone(task[p].answer)}

Fetch(p, u) ==
    /\ phase[p] = "idle"
    /\ SaysGone(site) => run[u] + Cardinality(Failing(u)) < MaxRun
    /\ task' = [task EXCEPT ![p] = [url |-> u, answer |-> site, kind |-> "none",
                                    list |-> NoList, news |-> NoNews]]
    /\ Goto(p, "answered")
    /\ UNCHANGED <<entries, last, site, histVars, aborts>>

\* Broken: the source row is read without FOR UPDATE.
ReadSource(p) ==
    /\ phase[p] = "answered"
    /\ task' = [task EXCEPT ![p].list = entries]
    /\ Goto(p, "recording")
    /\ UNCHANGED <<entries, last, site, histVars, aborts>>

\* _get_source_locked at the start of either recorder.
LockSource(p) ==
    /\ phase[p] = "answered"
    /\ ~SourceLocked
    /\ task' = [task EXCEPT ![p].list = entries]
    /\ Goto(p, "recording")
    /\ UNCHANGED <<entries, last, site, histVars, aborts>>

\* Tasks that have still to announce a transition of the URL.
Owing(u) == {p \in Pages : phase[p] \in {"owing", "announcing"} /\ task[p].url = u}

\* The rest of the recorder: the list with one entry changed is committed.
Record(p) ==
    LET u    == task[p].url
        old  == task[p].list[u]
        new  == NewEntry(old, task[p].answer)
        kind == Transition(old, new)
    IN
    /\ phase[p] = "recording"
    /\ entries' = [task[p].list EXCEPT ![u] = new]
    /\ seen' = seen \cup {u}
    /\ run' = [run EXCEPT ![u] = IF SaysGone(task[p].answer) THEN @ + 1
                                 ELSE IF SaysThere(task[p].answer) THEN 0 ELSE @]
    /\ \/ /\ kind = "none"
          /\ TaskEnds(p)
          /\ UNCHANGED confused
       \/ /\ kind # "none"
          /\ Goto(p, "owing")
          /\ task' = [task EXCEPT ![p].kind = kind, ![p].list = NoList]
          /\ confused' = IF Owing(u) = {} THEN confused \ {u} ELSE confused \cup {u}
    /\ UNCHANGED <<last, site, aborts>>

\* add_event: the same row once more, in a transaction of its own.
LockForEvent(p) ==
    /\ phase[p] = "owing"
    /\ ~SourceLocked
    /\ task' = [task EXCEPT ![p].news = last]
    /\ Goto(p, "announcing")
    /\ UNCHANGED <<entries, last, site, histVars, aborts>>

AddEvent(p) ==
    /\ phase[p] = "announcing"
    /\ last' = [task[p].news EXCEPT ![task[p].url] = task[p].kind]
    /\ TaskEnds(p)
    /\ UNCHANGED <<entries, site, histVars, aborts>>

\* The task is cancelled, or an await of it raises, or the process dies; an
\* open transaction rolls back.
Abort(p) ==
    /\ phase[p] # "idle" /\ aborts > 0
    /\ aborts' = aborts - 1
    /\ confused' = IF phase[p] \in {"owing", "announcing"}
                   THEN confused \cup {task[p].url} ELSE confused
    /\ TaskEnds(p)
    /\ UNCHANGED <<entries, last, site, seen, run>>

SiteChanges ==
    /\ site' \in Answers \ {site}
    /\ UNCHANGED <<entries, last, taskVars, histVars, aborts>>

-----------------------------------------------------------------------------
Init ==
    /\ entries = NoList
    /\ last = NoNews
    /\ site \in Answers
    /\ phase = [p \in Pages |-> "idle"]
    /\ task = [p \in Pages |-> NoTask]
    /\ seen = {}
    /\ run = [u \in Urls |-> 0]
    /\ confused = {}
    /\ aborts = MaxAborts

PageStep(p) == LockSource(p) \/ Record(p) \/ LockForEvent(p) \/ AddEvent(p)

Next ==
    \/ SiteChanges
    \/ \E p \in Pages : PageStep(p) \/ Abort(p) \/ (\E u \in Urls : Fetch(p, u))

Spec == Init /\ [][Next]_vars

\* The event loop resumes every page task, row locks are granted in the order
\* of arrival, and an active source has every URL crawled again and again.
Fairness ==
    /\ \A p \in Pages : /\ WF_vars(Record(p) \/ AddEvent(p))
                        /\ SF_vars(LockSource(p) \/ LockForEvent(p))
    /\ \A u \in Urls : SF_vars(\E p \in Pages : Fetch(p, u))

FairSpec == Spec /\ Fairness

-----------------------------------------------------------------------------
(***************************************************************************)
(* Properties.                                                             *)
(***************************************************************************)

Larger(a, b) == IF a >= b THEN a ELSE b

\* README.md:211 and the comment at source_repository.py:133: although all
\* URLs share one value, no outcome and no entry is ever lost.  Each entry
\* counts the failures in a row that say the page is gone, neither those of
\* another URL nor those of a site that only blocks us, and the URL is
\* removed when they reach the threshold (with threshold 1 a URL first seen
\* failing needs a second failure).
EntriesTellHistory ==
    \A u \in Urls :
        /\ entries[u] = NoEntry <=> u \notin seen
        /\ u \notin seen => run[u] = 0
        /\ u \in seen =>
             /\ entries[u].failures = run[u]
             /\ entries[u].status = "removed" => run[u] >= Larger(1, RemovalThreshold)
             /\ run[u] >= Larger(2, RemovalThreshold) => entries[u].status = "removed"

\* source_repository.py:255: the entry and its event are committed apart.
\* Still, unless an announcement was lost or overtaken since the last
\* transition, the last event about a URL tells its status as soon as
\* nobody owes one.
EventsTellStatus ==
    \A u \in Urls \ confused :
        Owing(u) = {} => (last[u] = "REMOVED" <=> u \in seen /\ entries[u].status = "removed")

\* When the site is gone for good every URL ends up removed, and when it is
\* there for good every URL ends up active, whatever outcomes were under way.
StatusConverges ==
    /\ <>[]SaysGone(site)  => <>[](\A u \in Urls : u \in seen /\ entries[u].status = "removed")
    /\ <>[]SaysThere(site) => <>[](\A u \in Urls : u \in seen /\ entries[u].status = "active")
=============================================================================
