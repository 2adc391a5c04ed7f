---------------------------- MODULE DomainCircuit ----------------------------
(***************************************************************************)
(* The politeness policy and circuit breaker of one domain.  Pages of the   *)
(* domain are processed concurrently, by one crawl or by several; all of    *)
(* them read and update the domain's single fetch_strategy_stats row.       *)
(*                                                                         *)
(* Phase 1 of _process_page reads the row and asks should_allow_request,    *)
(* then the session is closed; the page sleeps, is fetched and extracted;   *)
(* Phase 3 locks the row, applies update_policy_after_outcome to what it    *)
(* finds there, and commits.  A missing row acts as DefaultRow, which is    *)
(* what the locking upsert inserts.                                         *)
(***************************************************************************)
EXTENDS Naturals, FiniteSets

CONSTANTS
    Pages,               \* page tasks that may be in flight at once
    DegradedAt, OpenAt, OpenDuration, Never,
    DefaultConcurrency,  \* recommended_concurrency of a fresh row
    FullConcurrency,     \* settings.crawl_default_concurrency
    MaxDelay,            \* MAX_DELAY_MS
    ThrottleFloor,       \* 500 ms, after a 403, 429 or soft block
    FailureFloor,        \* 200 ms, after any other failure
    NegligibleDelay,     \* 50 ms
    RetryAfters,         \* Retry-After values servers send, 0 for none
    MaxStreak            \* bound: failures in a row

VARIABLES
    row,       \* the committed row
    phase,     \* progress of each page task
    saw,       \* circuit_state in the page's Phase 1 snapshot
    outcome,   \* what the fetch led to: kind and Retry-After
    txn,       \* the row as the page's Phase 3 session read it
    siteUp,    \* while it holds every fetch ends in FailureCategory.NONE
    streak     \* history: failures committed since the last success

pageVars == <<phase, saw, outcome, txn>>
vars     == <<row, pageVars, siteUp, streak>>

Breaker == INSTANCE CircuitBreaker WITH standing <- row.circuit, age <- row.age

ASSUME PolicyAssumption ==
    /\ DegradedAt \in Nat \ {0} /\ OpenAt \in Nat /\ DegradedAt <= OpenAt
    /\ OpenDuration \in Nat /\ Never \notin Nat
    /\ {DefaultConcurrency, FullConcurrency, MaxStreak} \subseteq Nat
    /\ {MaxDelay, ThrottleFloor, FailureFloor, NegligibleDelay} \subseteq Nat
    /\ FailureFloor <= ThrottleFloor /\ ThrottleFloor <= MaxDelay
    /\ RetryAfters \subseteq Nat /\ 0 \in RetryAfters

Circuits == {"healthy", "degraded", "open"}
Ages     == (0 .. OpenDuration) \cup {Never}

Rows == [failures : Nat, circuit : Circuits, age : Ages, delay : Nat, concurrency : Nat]

DefaultRow == [failures |-> 0, circuit |-> "healthy", age |-> Never,
               delay |-> 0, concurrency |-> DefaultConcurrency]

Outcomes == [kind : {"ok", "fail", "throttle"}, wait : Nat]

NoOutcome == [kind |-> "ok", wait |-> 0]

TypeOK ==
    /\ row \in Rows
    /\ phase \in [Pages -> {"waiting", "delayed", "fetching", "fetched", "locked"}]
    /\ saw \in [Pages -> Circuits]
    /\ outcome \in [Pages -> Outcomes]
    /\ txn \in [Pages -> Rows]
    /\ siteUp \in BOOLEAN
    /\ streak \in Nat

-----------------------------------------------------------------------------
(***************************************************************************)
(* update_policy_after_outcome and should_allow_request.                   *)
(***************************************************************************)

Larger(a, b)  == IF a >= b THEN a ELSE b
Smaller(a, b) == IF a <= b THEN a ELSE b

\* Broken: the ceiling is applied to the guessed delay, not to Retry-After.
GrownDelayUncapped(d, o) ==
    LET guess == IF o.kind = "throttle" THEN Larger(ThrottleFloor, 2 * d)
                                        ELSE Larger(FailureFloor, (3 * d) \div 2)
    IN  Larger(o.wait, Smaller(MaxDelay, guess))

\* The delay after a failure; fractions of a millisecond are dropped.
GrownDelay(d, o) ==
    LET guess == IF o.kind = "throttle" THEN Larger(ThrottleFloor, 2 * d)
                                        ELSE Larger(FailureFloor, (3 * d) \div 2)
    IN  Smaller(MaxDelay, Larger(guess, o.wait))

\* The delay after a success.
DecayedDelay(d) ==
    LET decayed == (9 * d) \div 10
    IN  IF decayed < NegligibleDelay THEN 0 ELSE decayed

Reset(r) ==
    [failures |-> 0, circuit |-> "healthy", age |-> Never,
     delay |-> DecayedDelay(r.delay), concurrency |-> FullConcurrency]

\* Broken: the circuit opens with the time of an earlier outage.
OpenedAgeStale(r) == IF r.age = Never THEN OpenDuration ELSE r.age

\* state.circuit_opened_at or now
OpenedAge(r) == IF r.age = Never THEN 0 ELSE r.age

Worsened(r, o) ==
    LET n == r.failures + 1
        c == IF n >= OpenAt THEN "open"
             ELSE IF n >= DegradedAt THEN "degraded" ELSE r.circuit
    IN  [failures |-> n, circuit |-> c,
         age |-> IF n >= OpenAt THEN OpenedAge(r) ELSE Never,
         delay |-> GrownDelay(r.delay, o),
         concurrency |-> IF n >= DegradedAt THEN 1 ELSE r.concurrency]

\* update_policy_after_outcome
Updated(r, o) == IF o.kind = "ok" THEN Reset(r) ELSE Worsened(r, o)

\* Broken: open is for ever.
AllowsNoProbe(r) == r.circuit # "open"

\* should_allow_request
Allows(r) == r.circuit = "open" /\ r.age # Never => r.age >= OpenDuration

-----------------------------------------------------------------------------
(***************************************************************************)
(* A page task.  "waiting" is a page in the request queue; a page that is   *)
(* done is the next one waiting.  A page the gate refuses changes nothing   *)
(* here: it stays waiting, that is, a later page asks again.                *)
(***************************************************************************)

Goto(p, ph) == phase' = [phase EXCEPT ![p] = ph]

\* The locals of _process_page and the session's copy of the row are gone.
TaskEnds(p) ==
    /\ Goto(p, "waiting")
    /\ saw' = [saw EXCEPT ![p] = "healthy"]
    /\ outcome' = [outcome EXCEPT ![p] = NoOutcome]
    /\ txn' = [txn EXCEPT ![p] = DefaultRow]

\* Phase 1: read the row, pass the gate, close the session.
Admit(p) ==
    /\ phase[p] = "waiting"
    /\ Allows(row)
    /\ saw' = [saw EXCEPT ![p] = row.circuit]
    /\ Goto(p, "delayed")
    /\ UNCHANGED <<row, outcome, txn, siteUp, streak>>

\* asyncio.sleep(crawl_delay_ms) is over and the request leaves.
Send(p) ==
    /\ phase[p] = "delayed"
    /\ Goto(p, "fetching")
    /\ UNCHANGED <<row, saw, outcome, txn, siteUp, streak>>

Pending == Cardinality({p \in Pages : phase[p] \in {"fetched", "locked"} /\ outcome[p].kind # "ok"})

\* The fetch ends; a transport error carries no Retry-After.
FetchEnds(p) ==
    /\ phase[p] = "fetching"
    /\ \/ outcome' = [outcome EXCEPT ![p] = NoOutcome]
       \/ /\ ~siteUp /\ streak + Pending < MaxStreak
          /\ \E kind \in {"fail", "throttle"}, wait \in RetryAfters :
               outcome' = [outcome EXCEPT ![p] = [kind |-> kind, wait |-> wait]]
    /\ Goto(p, "fetched")
    /\ UNCHANGED <<row, saw, txn, siteUp, streak>>

\* Broken: SELECT without FOR UPDATE.
ReadRowUnlocked(p) ==
    /\ phase[p] = "fetched"
    /\ txn' = [txn EXCEPT ![p] = row]
    /\ Goto(p, "locked")
    /\ UNCHANGED <<row, saw, outcome, siteUp, streak>>

\* _get_strategy_stats_locked: FOR UPDATE waits for the holder's commit, and
\* populate_existing makes the session see what it then finds.
LockRow(p) ==
    /\ phase[p] = "fetched"
    /\ \A q \in Pages : phase[q] # "locked"
    /\ txn' = [txn EXCEPT ![p] = row]
    /\ Goto(p, "locked")
    /\ UNCHANGED <<row, saw, outcome, siteUp, streak>>

\* The rest of record_fetch_outcome and its commit.
Commit(p) ==
    /\ phase[p] = "locked"
    /\ row' = Updated(txn[p], outcome[p])
    /\ streak' = IF outcome[p].kind = "ok" THEN 0 ELSE streak + 1
    /\ TaskEnds(p)
    /\ UNCHANGED siteUp

\* The task is cancelled or an await raises: the session rolls back.
Abort(p) ==
    /\ phase[p] # "waiting"
    /\ TaskEnds(p)
    /\ UNCHANGED <<row, siteUp, streak>>

PageStep(p) == Admit(p) \/ Send(p) \/ FetchEnds(p) \/ LockRow(p) \/ Commit(p)

-----------------------------------------------------------------------------
Aged(r) == [r EXCEPT !.age = Breaker!Older(@)]

\* Timestamps are kept as ages, in the row and in every copy of it.
TimePasses ==
    /\ row' = Aged(row)
    /\ txn' = [p \in Pages |-> Aged(txn[p])]
    /\ UNCHANGED <<phase, saw, outcome, siteUp, streak>>

SiteChanges ==
    /\ siteUp' = ~siteUp
    /\ UNCHANGED <<row, pageVars, streak>>

Init ==
    /\ row = DefaultRow
    /\ phase = [p \in Pages |-> "waiting"]
    /\ saw = [p \in Pages |-> "healthy"]
    /\ outcome = [p \in Pages |-> NoOutcome]
    /\ txn = [p \in Pages |-> DefaultRow]
    /\ siteUp = TRUE
    /\ streak = 0

Next ==
    \/ TimePasses \/ SiteChanges
    \/ \E p \in Pages : PageStep(p) \/ Abort(p)

Spec == Init /\ [][Next]_vars

\* Time passes, the event loop resumes every page task, and the domain keeps
\* being crawled: while a source is active the scheduler crawls it again at
\* every next_crawl_at.  Row locks are granted in the order of arrival.  A
\* task may be aborted, but not every task at the same point for ever.
Fairness ==
    /\ WF_vars(TimePasses)
    /\ \A p \in Pages : /\ WF_vars(Admit(p))
                        /\ SF_vars(Send(p))
                        /\ SF_vars(FetchEnds(p))
                        /\ SF_vars(LockRow(p))
                        /\ SF_vars(Commit(p))

FairSpec == Spec /\ Fairness

-----------------------------------------------------------------------------
(***************************************************************************)
(* Properties.                                                             *)
(***************************************************************************)

\* crawl_repository.py:229: no outcome of a concurrent page is lost.  The row
\* counts every failure since the last success, and its four policy columns
\* agree with that count whoever wrote them.
RowTellsStreak ==
    /\ row.failures = streak
    /\ row.circuit = Breaker!Standing(streak)
    /\ row.age # Never <=> row.circuit = "open"
    /\ row.circuit # "healthy" => row.concurrency = 1

\* A domain that is failing is never asked again without a pause, and no
\* pause exceeds the ceiling, whatever Retry-After the server sent.
PausesWhileFailing ==
    /\ row.failures > 0 => row.delay >= FailureFloor
    /\ row.delay <= MaxDelay

\* domain_policy_service.py:75-85: however sessions interleave, the row is a
\* sequential circuit breaker: each outcome counts once, and the clock starts
\* when the circuit opens.  How many pages probe, and whether a failed probe
\* restarts the clock, is left open: code and docstring (lines 93-96) differ.
ImplementsBreaker == Breaker!Spec

\* Once the site works again for good, the circuit closes for good: neither
\* the gate nor a late failure keeps a domain locked out.
Recovers == <>[]siteUp => <>[](row.circuit = "healthy")
=============================================================================
