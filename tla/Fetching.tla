------------------------------ MODULE Fetching ------------------------------
(***************************************************************************)
(* One fetch per page task: http_fetch_page, a walk over redirects that    *)
(* obeys one Retry-After per URL, or browser_fetch_page, a Chromium        *)
(* launched in one of the process-wide slots, with its scroll loop.  What  *)
(* the network answers is free.                                            *)
(***************************************************************************)
EXTENDS Integers, FiniteSets

CONSTANTS
    Tasks,          \* page tasks, of all crawls of the process
    Slots,          \* settings.crawl_max_concurrent_browser_global
    MaxRedirects,   \* MAX_REDIRECTS
    MaxScrolls,     \* ScrollBudget.max_scrolls
    MaxNewItems,    \* ScrollBudget.max_new_items
    MaxNoChange     \* ScrollBudget.max_consecutive_no_change

VARIABLES
    at,         \* progress of each task's fetch
    hop,        \* redirects followed
    retried,    \* rate_limit_retried
    requests,   \* history: requests sent by this fetch
    rounds,     \* rounds of the scroll loop
    noChange,   \* no_change
    rendered,   \* the browser has given its page
    free        \* what is left of _browser_semaphore

fetchVars == <<at, hop, retried, requests, rounds, noChange, rendered, free>>

ASSUME FetchingAssumption ==
    /\ IsFiniteSet(Tasks)
    /\ Slots \in Nat \ {0}
    /\ {MaxRedirects, MaxScrolls, MaxNewItems, MaxNoChange} \subseteq Nat

\* A Chromium runs from its launch until it is closed.
InBrowser == {"launching", "loading", "scrolling", "closing"}
Fetches   == {"requesting", "pausing", "waiting"} \cup InBrowser
Results   == {"fetched", "failed", "raised"}

FetchTypeOK ==
    /\ at \in [Tasks -> {"idle"} \cup Fetches \cup Results]
    /\ hop \in [Tasks -> 0..MaxRedirects]
    /\ retried \in [Tasks -> BOOLEAN]
    /\ requests \in [Tasks -> Nat]
    /\ rounds \in [Tasks -> 0..MaxScrolls]
    /\ noChange \in [Tasks -> Nat]
    /\ rendered \in [Tasks -> BOOLEAN]
    /\ free \in 0..Slots

FetchInit ==
    /\ at = [t \in Tasks |-> "idle"]
    /\ hop = [t \in Tasks |-> 0]
    /\ retried = [t \in Tasks |-> FALSE]
    /\ requests = [t \in Tasks |-> 0]
    /\ rounds = [t \in Tasks |-> 0]
    /\ noChange = [t \in Tasks |-> 0]
    /\ rendered = [t \in Tasks |-> FALSE]
    /\ free = Slots

To(t, phase) == at' = [at EXCEPT ![t] = phase]

\* A fetch begins, over HTTP or in the browser.
Begin(t, phase) ==
    /\ at[t] = "idle"
    /\ To(t, phase)
    /\ UNCHANGED <<hop, retried, requests, rounds, noChange, rendered, free>>

\* The task is done with its result; the next fetch starts at zero.
Finish(t) ==
    /\ at[t] \in Results
    /\ To(t, "idle")
    /\ hop' = [hop EXCEPT ![t] = 0]
    /\ retried' = [retried EXCEPT ![t] = FALSE]
    /\ requests' = [requests EXCEPT ![t] = 0]
    /\ rounds' = [rounds EXCEPT ![t] = 0]
    /\ noChange' = [noChange EXCEPT ![t] = 0]
    /\ rendered' = [rendered EXCEPT ![t] = FALSE]
    /\ UNCHANGED free

-----------------------------------------------------------------------------
(***************************************************************************)
(* http_fetch_page                                                         *)
(***************************************************************************)

browserVars == <<rounds, noChange, rendered, free>>

Ask(t) ==
    /\ at[t] = "requesting"
    /\ requests' = [requests EXCEPT ![t] = @ + 1]
    /\ UNCHANGED browserVars

\* A redirect: the next URL may be asked to wait for again.  After the last
\* hop, or without a location, there are "too many redirects".
Redirected(t) ==
    /\ Ask(t)
    /\ \/ /\ hop[t] < MaxRedirects
          /\ hop' = [hop EXCEPT ![t] = @ + 1]
          /\ retried' = [retried EXCEPT ![t] = FALSE]
          /\ UNCHANGED at
       \/ /\ To(t, "failed")
          /\ UNCHANGED <<hop, retried>>

\* Broken: the retry is granted again and again.
AskedToWaitAgain(t) ==
    /\ Ask(t)
    /\ To(t, "pausing")
    /\ UNCHANGED <<hop, retried>>

\* 429 or 503, for the first time at this URL.
AskedToWait(t) ==
    /\ Ask(t)
    /\ ~retried[t]
    /\ retried' = [retried EXCEPT ![t] = TRUE]
    /\ To(t, "pausing")
    /\ UNCHANGED hop

\* The sleep of at most a minute is over.
Resume(t) ==
    /\ at[t] = "pausing"
    /\ To(t, "requesting")
    /\ UNCHANGED <<hop, retried, requests, browserVars>>

\* Any other answer is a result: a second 429, a 404 and a 500 too.
Answered(t) ==
    /\ Ask(t)
    /\ To(t, "fetched")
    /\ UNCHANGED <<hop, retried>>

\* A scheme that is not allowed, a transport error, too many bytes.
RequestFails(t) ==
    /\ Ask(t)
    /\ To(t, "failed")
    /\ UNCHANGED <<hop, retried>>

\* The transport resolves the name again before it connects; the error it
\* raises is not one of httpx, and nothing on the way catches it.
Unresolved(t) ==
    /\ Ask(t)
    /\ To(t, "raised")
    /\ UNCHANGED <<hop, retried>>

-----------------------------------------------------------------------------
(***************************************************************************)
(* browser_fetch_page                                                      *)
(***************************************************************************)

httpVars == <<hop, retried, requests>>

\* async with _get_browser_semaphore
Acquire(t) ==
    /\ at[t] = "waiting" /\ free > 0
    /\ free' = free - 1
    /\ To(t, "launching")
    /\ UNCHANGED <<httpVars, rounds, noChange, rendered>>

\* Broken: a Chromium that does not start keeps its slot.
LaunchFailsHolding(t) ==
    /\ at[t] = "launching"
    /\ To(t, "failed")
    /\ UNCHANGED <<httpVars, browserVars>>

\* A Chromium that does not start: the slot is given back.
LaunchFails(t) ==
    /\ at[t] = "launching"
    /\ free' = free + 1
    /\ To(t, "failed")
    /\ UNCHANGED <<httpVars, rounds, noChange, rendered>>

Launched(t) ==
    /\ at[t] = "launching"
    /\ To(t, "loading")
    /\ UNCHANGED <<httpVars, browserVars>>

\* The page is there, and is scrolled when the browser was chosen for it.
Loaded(t) ==
    /\ at[t] = "loading"
    /\ \/ To(t, "scrolling") /\ UNCHANGED rendered
       \/ To(t, "closing") /\ rendered' = [rendered EXCEPT ![t] = TRUE]
    /\ UNCHANGED <<httpVars, rounds, noChange, free>>

\* expand_dynamic_content ends: its budget of time or bytes is used up, or an
\* error stops it; what the page shows by then is its content.
ScrollEnds(t) ==
    /\ at[t] = "scrolling"
    /\ To(t, "closing")
    /\ rendered' = [rendered EXCEPT ![t] = TRUE]
    /\ UNCHANGED <<httpVars, rounds, noChange, free>>

\* One round: a click on "load more", else a scroll to the bottom.  Items,
\* links and text are compared with those at the last change, so items is
\* the growth of this round.
Scroll(t) ==
    /\ at[t] = "scrolling" /\ rounds[t] < MaxScrolls
    /\ rounds' = [rounds EXCEPT ![t] = @ + 1]
    /\ \E items \in 0..MaxNewItems, other \in BOOLEAN :
         LET still == IF items = 0 /\ ~other THEN noChange[t] + 1 ELSE 0
             stops == \/ still > 0 /\ still >= MaxNoChange
                      \/ items >= MaxNewItems
                      \/ rounds'[t] = MaxScrolls
         IN /\ noChange' = [noChange EXCEPT ![t] = still]
            /\ IF stops
               THEN To(t, "closing") /\ rendered' = [rendered EXCEPT ![t] = TRUE]
               ELSE UNCHANGED <<at, rendered>>
    /\ UNCHANGED <<httpVars, free>>

\* goto or content raises: the browser is closed all the same.
RenderFails(t) ==
    /\ at[t] \in {"loading", "scrolling"}
    /\ To(t, "closing")
    /\ UNCHANGED <<httpVars, browserVars>>

Closed(t) ==
    /\ at[t] = "closing"
    /\ free' = free + 1
    /\ To(t, IF rendered[t] THEN "fetched" ELSE "failed")
    /\ UNCHANGED <<httpVars, rounds, noChange, rendered>>

\* Broken: the slot is lost with the browser.
CloseFailsHolding(t) ==
    /\ at[t] = "closing"
    /\ To(t, "failed")
    /\ UNCHANGED <<httpVars, browserVars>>

\* browser.close raises: a page already rendered is lost with it.
CloseFails(t) ==
    /\ at[t] = "closing"
    /\ free' = free + 1
    /\ To(t, "failed")
    /\ UNCHANGED <<httpVars, rounds, noChange, rendered>>

-----------------------------------------------------------------------------
FetchStep(t) ==
    \/ Redirected(t) \/ AskedToWait(t) \/ Resume(t) \/ Answered(t)
    \/ Acquire(t) \/ Launched(t) \/ Loaded(t) \/ Scroll(t) \/ ScrollEnds(t) \/ Closed(t)

FetchFault(t) ==
    \/ RequestFails(t) \/ Unresolved(t)
    \/ LaunchFails(t) \/ RenderFails(t) \/ CloseFails(t)
=============================================================================
