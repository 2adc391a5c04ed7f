------------------------ MODULE SourceMonitor_proofs ------------------------
(***************************************************************************)
(* Type correctness of SourceMonitor, and that entries tell the history of *)
(* their URL and events the status, for any number of URLs and page tasks. *)
(* Everything rests on LockInv: whoever holds the source row has its       *)
(* present lists.                                                          *)
(***************************************************************************)
EXTENDS SourceMonitor, TLAPS

Recording(p)  == phase[p] = "recording"
Announcing(p) == phase[p] = "announcing"
Gone(u)       == u \in seen /\ entries[u].status = "removed"

\* The source row has one holder, which knows what it says.
LockInv ==
    /\ \A p, q \in Pages : (Recording(p) \/ Announcing(p)) /\ (Recording(q) \/ Announcing(q)) => p = q
    /\ \A p \in Pages : Recording(p) => task[p].list = entries
    /\ \A p \in Pages : Announcing(p) => task[p].news = last

\* A URL has one announcement under way at most, the right one, or else the
\* last event about it is right: so it is for every URL not confused.
Settled(u) ==
    /\ \A p, q \in Owing(u) : p = q
    /\ \A p \in Owing(u) : task[p].kind = "REMOVED" <=> Gone(u)
    /\ Owing(u) = {} => (last[u] = "REMOVED" <=> Gone(u))

StatusInv == \A u \in Urls \ confused : Settled(u)

IInv == TypeOK /\ LockInv /\ EntriesTellHistory /\ StatusInv

-----------------------------------------------------------------------------
(***************************************************************************)
(* The decision tables.                                                    *)
(***************************************************************************)

\* failure_classification.py: exactly the answers that say the page is gone
\* count towards removal, exactly those that show it are successes.
LEMMA Classification ==
    ASSUME NEW a \in Answers
    PROVE  /\ IsRemovalEligible(Category(a)) <=> SaysGone(a)
           /\ Category(a) = "none" <=> SaysThere(a)
<1>1. a \in AnyAnswer
  BY MonitorAssumption
<1>2. CASE a.error = "none"
  <2>1. Category(a) = ClassifyHttpStatus(a.status) /\ a.status \in 100 .. 599
    BY <1>1, <1>2 DEF Category, AnyAnswer
  <2>2. CASE a.status < 400
    <3>1. Category(a) = "none"
      BY <2>1, <2>2, SMT DEF ClassifyHttpStatus
    <3> QED BY <1>2, <2>1, <2>2, <3>1, SMT DEF IsRemovalEligible, BlockedOrThrottled, SaysGone, SaysThere
  <2>3. CASE a.status \in {403, 429}
    <3>1. Category(a) \in {"http_403", "http_429"}
      BY <2>1, <2>3, SMT DEF ClassifyHttpStatus
    <3> QED BY <1>2, <2>1, <2>3, <3>1, SMT DEF IsRemovalEligible, BlockedOrThrottled, SaysGone, SaysThere
  <2>4. CASE a.status >= 400 /\ a.status \notin {403, 429}
    <3>1. Category(a) \in {"http_404", "http_410", "http_5xx", "other_http_error"}
      BY <2>1, <2>4, SMT DEF ClassifyHttpStatus
    <3> QED BY <1>2, <2>1, <2>4, <3>1, SMT DEF IsRemovalEligible, BlockedOrThrottled, SaysGone, SaysThere
  <2> QED BY <2>1, <2>2, <2>3, <2>4, SMT
<1>3. CASE a.error # "none"
  BY <1>1, <1>3 DEF Category, AnyAnswer, IsRemovalEligible, BlockedOrThrottled, SaysGone, SaysThere
<1> QED BY <1>2, <1>3

LEMMA EntryType ==
    ASSUME NEW e \in Entries \cup {NoEntry}, NEW a \in Answers
    PROVE  NewEntry(e, a) \in Entries
<1>1. CASE e = NoEntry
  BY <1>1 DEF NewEntry, Succeeded, Failed, Entries
<1>2. CASE e \in Entries
  BY <1>2, SMT DEF NewEntry, Succeeded, Failed, Entries
<1> QED BY <1>1, <1>2

LEMMA TransitionType ==
    ASSUME NEW e, NEW f PROVE Transition(e, f) \in News
BY DEF Transition, News

\* What a recorder does to an entry, in the terms of the history.
LEMMA EntryStep ==
    ASSUME NEW e \in Entries \cup {NoEntry}, NEW a \in Answers, NEW n \in Nat,
           e # NoEntry =>
             /\ e.failures = n
             /\ e.status = "removed" => n >= Larger(1, RemovalThreshold)
             /\ n >= Larger(2, RemovalThreshold) => e.status = "removed",
           e = NoEntry => n = 0,
           NEW m, m = IF SaysGone(a) THEN n + 1 ELSE IF SaysThere(a) THEN 0 ELSE n
    PROVE  /\ NewEntry(e, a).failures = m
           /\ NewEntry(e, a).status = "removed" => m >= Larger(1, RemovalThreshold)
           /\ m >= Larger(2, RemovalThreshold) => NewEntry(e, a).status = "removed"
<1> DEFINE f == NewEntry(e, a)
<1>0. RemovalThreshold \in Nat
  BY MonitorAssumption
<1>1. CASE SaysThere(a)
  <2>1. f = Succeeded /\ m = 0
    BY <1>1, Classification DEF NewEntry, SaysGone, SaysThere, IsRemovalEligible
  <2> QED BY <1>0, <2>1, SMT DEF Succeeded, Larger
<1>2. CASE SaysGone(a)
  <2>1. f = Failed(e, Category(a)) /\ m = n + 1 /\ IsRemovalEligible(Category(a))
    BY <1>2, Classification DEF NewEntry, IsRemovalEligible
  <2>2. CASE e = NoEntry
    BY <1>0, <2>1, <2>2, SMT DEF Failed, Larger
  <2>3. CASE e # NoEntry
    BY <1>0, <2>1, <2>3, SMT DEF Failed, Larger, Entries
  <2> QED BY <2>2, <2>3
<1>3. CASE ~SaysThere(a) /\ ~SaysGone(a)
  <2>1. f = Failed(e, Category(a)) /\ m = n /\ ~IsRemovalEligible(Category(a))
    BY <1>3, Classification DEF NewEntry
  <2>2. CASE e = NoEntry
    BY <1>0, <2>1, <2>2, SMT DEF Failed, Larger
  <2>3. CASE e # NoEntry
    BY <1>0, <2>1, <2>3, SMT DEF Failed, Larger, Entries
  <2> QED BY <2>2, <2>3
<1> QED BY <1>1, <1>2, <1>3

-----------------------------------------------------------------------------
(***************************************************************************)
(* Types.                                                                  *)
(***************************************************************************)

LEMMA EmptyLists == NoList \in EntryLists /\ NoNews \in NewsLists
BY DEF NoList, NoNews, EntryLists, NewsLists, News

LEMMA TypeNext == TypeOK /\ [Next]_vars => TypeOK'
<1> SUFFICES ASSUME TypeOK, [Next]_vars PROVE TypeOK'
  OBVIOUS
<1> USE DEF TypeOK
<1>0. ASSUME NEW p \in Pages, phase[p] # "idle" PROVE task[p] \in Locals
  BY <1>0
<1>1. CASE SiteChanges
  BY <1>1 DEF SiteChanges, taskVars, histVars
<1>2. ASSUME NEW p \in Pages, NEW u \in Urls, Fetch(p, u) PROVE TypeOK'
  <2>1. [url |-> u, answer |-> site, kind |-> "none", list |-> NoList, news |-> NoNews] \in Locals
    BY EmptyLists DEF Locals, News
  <2> QED BY <1>2, <2>1, TaskAssumption DEF Fetch, Goto, histVars
<1>3. ASSUME NEW p \in Pages, LockSource(p) PROVE TypeOK'
  <2>1. [task[p] EXCEPT !.list = entries] \in Locals
    BY <1>0, <1>3 DEF LockSource, Locals
  <2> QED BY <1>3, <2>1, TaskAssumption DEF LockSource, Goto, histVars
<1>4. ASSUME NEW p \in Pages, Record(p) PROVE TypeOK'
  <2>0. task[p] \in Locals /\ task[p].url \in Urls /\ task[p].answer \in Answers /\ task[p].list \in EntryLists
    BY <1>0, <1>4 DEF Record, Locals
  <2> DEFINE u == task[p].url
             new == NewEntry(task[p].list[u], task[p].answer)
             kind == Transition(task[p].list[u], new)
  <2>1. new \in Entries
    BY <2>0, EntryType DEF EntryLists
  <2>2. entries' \in EntryLists
    BY <1>4, <2>0, <2>1 DEF Record, EntryLists
  <2>3. run' \in [Urls -> Nat]
    BY <1>4, <2>0, SMT DEF Record
  <2>4. /\ seen' \subseteq Urls /\ confused' \subseteq Urls
        /\ UNCHANGED <<last, site, aborts>>
    BY <1>4, <2>0 DEF Record
  <2>5. CASE TaskEnds(p)
    BY <2>2, <2>3, <2>4, <2>5 DEF TaskEnds, Goto
  <2>6. CASE Goto(p, "owing") /\ task' = [task EXCEPT ![p].kind = kind, ![p].list = NoList]
    <3>1. kind \in News
      BY TransitionType
    <3> HIDE DEF kind
    <3>2. [task[p] EXCEPT !.kind = kind, !.list = NoList] \in Locals
      BY <2>0, <3>1, EmptyLists DEF Locals
    <3> QED BY <2>2, <2>3, <2>4, <2>6, <3>2, TaskAssumption DEF Goto
  <2> QED BY <1>4, <2>5, <2>6 DEF Record
<1>5. ASSUME NEW p \in Pages, LockForEvent(p) PROVE TypeOK'
  <2>1. [task[p] EXCEPT !.news = last] \in Locals
    BY <1>0, <1>5 DEF LockForEvent, Locals
  <2> QED BY <1>5, <2>1, TaskAssumption DEF LockForEvent, Goto, histVars
<1>6. ASSUME NEW p \in Pages, AddEvent(p) PROVE TypeOK'
  <2>1. task[p] \in Locals
    BY <1>0, <1>6 DEF AddEvent
  <2>2. last' \in NewsLists
    BY <1>6, <2>1 DEF AddEvent, Locals, NewsLists
  <2> QED BY <1>6, <2>2 DEF AddEvent, TaskEnds, Goto, histVars
<1>7. ASSUME NEW p \in Pages, Abort(p) PROVE TypeOK'
  <2>1. task[p] \in Locals
    BY <1>0, <1>7 DEF Abort
  <2>2. confused' \subseteq Urls /\ aborts' \in Nat
    BY <1>7, <2>1, SMT DEF Abort, Locals
  <2> QED BY <1>7, <2>2 DEF Abort, TaskEnds, Goto
<1>8. CASE UNCHANGED vars
  BY <1>8 DEF vars, taskVars, histVars
<1> QED BY <1>1, <1>2, <1>3, <1>4, <1>5, <1>6, <1>7, <1>8 DEF Next, PageStep

-----------------------------------------------------------------------------
(***************************************************************************)
(* The lock.                                                               *)
(***************************************************************************)

LEMMA LockNext == TypeOK /\ LockInv /\ [Next]_vars => LockInv'
<1> SUFFICES ASSUME TypeOK, LockInv, [Next]_vars PROVE LockInv'
  OBVIOUS
<1> USE DEF TypeOK, LockInv, Recording, Announcing
<1>1. CASE SiteChanges
  BY <1>1 DEF SiteChanges, taskVars
<1>2. ASSUME NEW p \in Pages, NEW u \in Urls, Fetch(p, u) PROVE LockInv'
  BY <1>2 DEF Fetch, Goto
<1>3. ASSUME NEW p \in Pages, LockSource(p) PROVE LockInv'
  <2>1. task'[p].list = entries
    BY <1>3 DEF LockSource, Locals
  <2> QED BY <1>3, <2>1 DEF LockSource, Goto, SourceLocked
<1>4. ASSUME NEW p \in Pages, Record(p) PROVE LockInv'
  <2>1. \A q \in Pages : q # p => phase'[q] = phase[q] /\ task'[q] = task[q] /\ ~Recording(q) /\ ~Announcing(q)
    BY <1>4 DEF Record, Goto, TaskEnds
  <2>2. phase'[p] \in {"idle", "owing"}
    BY <1>4 DEF Record, Goto, TaskEnds
  <2> QED BY <2>1, <2>2
<1>5. ASSUME NEW p \in Pages, LockForEvent(p) PROVE LockInv'
  <2>1. task'[p].news = last
    BY <1>5 DEF LockForEvent, Locals
  <2> QED BY <1>5, <2>1 DEF LockForEvent, Goto, SourceLocked
<1>6. ASSUME NEW p \in Pages, AddEvent(p) PROVE LockInv'
  <2>1. \A q \in Pages : q # p => phase'[q] = phase[q] /\ task'[q] = task[q] /\ ~Recording(q) /\ ~Announcing(q)
    BY <1>6 DEF AddEvent, Goto, TaskEnds
  <2>2. phase'[p] = "idle"
    BY <1>6 DEF AddEvent, Goto, TaskEnds
  <2> QED BY <2>1, <2>2
<1>7. ASSUME NEW p \in Pages, Abort(p) PROVE LockInv'
  BY <1>7 DEF Abort, Goto, TaskEnds
<1>8. CASE UNCHANGED vars
  BY <1>8 DEF vars, taskVars
<1> QED BY <1>1, <1>2, <1>3, <1>4, <1>5, <1>6, <1>7, <1>8 DEF Next, PageStep

-----------------------------------------------------------------------------
(***************************************************************************)
(* Entries and history.                                                    *)
(***************************************************************************)

LEMMA HistoryNext == TypeOK /\ LockInv /\ EntriesTellHistory /\ [Next]_vars => EntriesTellHistory'
<1> SUFFICES ASSUME TypeOK, LockInv, EntriesTellHistory, [Next]_vars PROVE EntriesTellHistory'
  OBVIOUS
<1>1. CASE UNCHANGED <<entries, seen, run>>
  BY <1>1 DEF EntriesTellHistory
<1>2. ASSUME NEW p \in Pages, Record(p) PROVE EntriesTellHistory'
  <2> DEFINE u == task[p].url
             a == task[p].answer
             f == NewEntry(entries[u], a)
             m == IF SaysGone(a) THEN run[u] + 1 ELSE IF SaysThere(a) THEN 0 ELSE run[u]
  <2>1. u \in Urls /\ a \in Answers /\ task[p].list = entries
    BY <1>2 DEF Record, TypeOK, Locals, LockInv, Recording
  <2>2. entries[u] \in Entries \cup {NoEntry} /\ run[u] \in Nat /\ seen \subseteq Urls
    BY <2>1 DEF TypeOK, EntryLists
  <2>3. /\ entries[u] # NoEntry =>
             /\ entries[u].failures = run[u]
             /\ entries[u].status = "removed" => run[u] >= Larger(1, RemovalThreshold)
             /\ run[u] >= Larger(2, RemovalThreshold) => entries[u].status = "removed"
        /\ entries[u] = NoEntry => run[u] = 0
    BY <2>1 DEF EntriesTellHistory
  <2>4. /\ f.failures = m
        /\ f.status = "removed" => m >= Larger(1, RemovalThreshold)
        /\ m >= Larger(2, RemovalThreshold) => f.status = "removed"
    BY <2>1, <2>2, <2>3, EntryStep
  <2>5. f \in Entries /\ f # NoEntry
    BY <2>1, <2>2, EntryType, MonitorAssumption
  <2>6. /\ entries' = [entries EXCEPT ![u] = f]
        /\ seen' = seen \cup {u}
        /\ run' = [run EXCEPT ![u] = m]
    BY <1>2, <2>1 DEF Record
  <2> HIDE DEF f, m, a, u
  <2>7. ASSUME NEW v \in Urls, v # u PROVE entries'[v] = entries[v] /\ run'[v] = run[v] /\ (v \in seen' <=> v \in seen)
    BY <2>6, <2>7 DEF TypeOK, EntryLists
  <2>8. entries'[u] = f /\ run'[u] = m /\ u \in seen'
    BY <2>1, <2>6 DEF TypeOK, EntryLists
  <2> QED BY <2>4, <2>5, <2>7, <2>8 DEF EntriesTellHistory
<1>3. ASSUME NEW p \in Pages, PageStep(p) \/ Abort(p), ~Record(p) PROVE UNCHANGED <<entries, seen, run>>
  BY <1>3 DEF PageStep, LockSource, LockForEvent, AddEvent, Abort, histVars
<1>4. ASSUME NEW p \in Pages, NEW u \in Urls, Fetch(p, u) PROVE UNCHANGED <<entries, seen, run>>
  BY <1>4 DEF Fetch, histVars
<1>5. CASE SiteChanges
  BY <1>1, <1>5 DEF SiteChanges, histVars
<1>6. CASE UNCHANGED vars
  BY <1>1, <1>6 DEF vars, histVars
<1> QED BY <1>1, <1>2, <1>3, <1>4, <1>5, <1>6 DEF Next

-----------------------------------------------------------------------------
(***************************************************************************)
(* Events and status.                                                      *)
(***************************************************************************)

\* A step that changes nothing of what Settled speaks of.
LEMMA SettledFrame ==
    ASSUME NEW u \in Urls, Settled(u), Owing(u)' = Owing(u), Gone(u)' <=> Gone(u), last'[u] = last[u],
           \A p \in Owing(u) : task'[p].kind = task[p].kind
    PROVE  Settled(u)'
BY DEF Settled

\* A recorder without a transition leaves a URL as gone as it was.
LEMMA NoTransition ==
    ASSUME NEW e \in Entries \cup {NoEntry}, NEW a \in Answers,
           Transition(e, NewEntry(e, a)) = "none"
    PROVE  NewEntry(e, a).status = "removed" <=> e # NoEntry /\ e.status = "removed"
<1>1. CASE e = NoEntry
  BY <1>1 DEF NewEntry, Succeeded, Failed
<1>2. CASE e # NoEntry
  BY <1>2 DEF Transition
<1> QED BY <1>1, <1>2

LEMMA StatusNext ==
    TypeOK /\ LockInv /\ EntriesTellHistory /\ StatusInv /\ [Next]_vars => StatusInv'
<1> SUFFICES ASSUME TypeOK, LockInv, EntriesTellHistory, StatusInv, [Next]_vars PROVE StatusInv'
  OBVIOUS
<1> USE DEF StatusInv
<1>0. ASSUME NEW p \in Pages, phase[p] # "idle" PROVE task[p] \in Locals
  BY <1>0 DEF TypeOK
<1>1. CASE UNCHANGED <<entries, last, phase, task, seen, confused>>
  <2> SUFFICES ASSUME NEW v \in Urls \ confused PROVE Settled(v)'
    BY <1>1
  <2>1. Owing(v)' = Owing(v) /\ (Gone(v)' <=> Gone(v))
    BY <1>1 DEF Owing, Gone
  <2> QED BY <1>1, <2>1, SettledFrame
\* A step of p outside its announcement, that records nothing.
<1>2. ASSUME NEW p \in Pages, UNCHANGED <<entries, last, seen, confused>>,
             \A q \in Pages : q # p => phase'[q] = phase[q] /\ task'[q] = task[q],
             phase[p] \in {"owing", "announcing"} <=> phase'[p] \in {"owing", "announcing"},
             phase[p] \in {"owing", "announcing"} => task'[p].url = task[p].url /\ task'[p].kind = task[p].kind
      PROVE  StatusInv'
  <2> SUFFICES ASSUME NEW v \in Urls \ confused PROVE Settled(v)'
    BY <1>2
  <2>1. Owing(v)' = Owing(v)
    <3>1. \A q \in Pages : q \in Owing(v)' <=> q \in Owing(v)
      BY <1>2 DEF Owing
    <3> QED BY <3>1 DEF Owing
  <2>2. \A q \in Owing(v) : task'[q].kind = task[q].kind
    BY <1>2 DEF Owing
  <2>3. Gone(v)' <=> Gone(v)
    BY <1>2 DEF Gone
  <2> QED BY <1>2, <2>1, <2>2, <2>3, SettledFrame
<1>3. ASSUME NEW p \in Pages, NEW u \in Urls, Fetch(p, u) PROVE StatusInv'
  BY <1>2, <1>3 DEF Fetch, Goto, TypeOK, histVars
<1>4. ASSUME NEW p \in Pages, LockSource(p) PROVE StatusInv'
  BY <1>2, <1>4 DEF LockSource, Goto, TypeOK, histVars
<1>5. ASSUME NEW p \in Pages, LockForEvent(p) PROVE StatusInv'
  <2>1. task[p] \in Locals
    BY <1>0, <1>5 DEF LockForEvent
  <2>2. task'[p].url = task[p].url /\ task'[p].kind = task[p].kind
    BY <1>5, <2>1 DEF LockForEvent, Locals, TypeOK
  <2> QED BY <1>2, <1>5, <2>2 DEF LockForEvent, Goto, TypeOK, histVars
<1>6. ASSUME NEW p \in Pages, AddEvent(p) PROVE StatusInv'
  <2> DEFINE u == task[p].url
  <2>1. u \in Urls /\ task[p].news = last /\ p \in Owing(u)
    BY <1>0, <1>6 DEF AddEvent, LockInv, Announcing, Locals, Owing
  <2>2. \A v \in Urls : Owing(v)' = Owing(v) \ {p}
    <3>1. \A v \in Urls, q \in Pages : q \in Owing(v)' <=> q \in Owing(v) \ {p}
      BY <1>6 DEF AddEvent, TaskEnds, Goto, Owing, TypeOK
    <3> QED BY <3>1 DEF Owing
  <2>3. last' = [last EXCEPT ![u] = task[p].kind] /\ UNCHANGED <<entries, seen, confused>>
    BY <1>6, <2>1 DEF AddEvent, histVars
  <2> SUFFICES ASSUME NEW v \in Urls \ confused PROVE Settled(v)'
    BY <2>3
  <2>4. Gone(v)' <=> Gone(v)
    BY <2>3 DEF Gone
  <2>5. CASE v = u
    <3>1. Owing(v)' = {}
      BY <2>1, <2>2, <2>5 DEF Settled
    <3>2. last'[v] = "REMOVED" <=> Gone(v)
      BY <2>1, <2>3, <2>5 DEF Settled, TypeOK, NewsLists
    <3> QED BY <3>1, <3>2, <2>4 DEF Settled
  <2>6. CASE v # u
    <3>1. Owing(v)' = Owing(v)
      BY <2>2, <2>6 DEF Owing
    <3>2. last'[v] = last[v]
      BY <2>3, <2>6 DEF TypeOK, NewsLists
    <3>3. \A q \in Owing(v) : task'[q].kind = task[q].kind
      BY <1>6, <2>6 DEF Owing, AddEvent, TaskEnds, TypeOK
    <3> QED BY <2>4, <3>1, <3>2, <3>3, SettledFrame
  <2> QED BY <2>5, <2>6
<1>7. ASSUME NEW p \in Pages, Abort(p) PROVE StatusInv'
  <2>1. \A q \in Pages : q # p => phase'[q] = phase[q] /\ task'[q] = task[q]
    BY <1>7 DEF Abort, TaskEnds, Goto, TypeOK
  <2>2. phase'[p] = "idle" /\ UNCHANGED <<entries, last, seen>> /\ confused \subseteq confused'
    BY <1>7 DEF Abort, TaskEnds, Goto, TypeOK
  <2> SUFFICES ASSUME NEW v \in Urls \ confused' PROVE Settled(v)'
    OBVIOUS
  <2>3. p \notin Owing(v) /\ v \notin confused
    BY <1>7, <2>2 DEF Abort, Owing
  <2>4. Owing(v)' = Owing(v)
    <3>1. \A q \in Pages : q \in Owing(v)' <=> q \in Owing(v)
      BY <2>1, <2>2, <2>3 DEF Owing
    <3> QED BY <3>1 DEF Owing
  <2>5. \A q \in Owing(v) : task'[q].kind = task[q].kind
    BY <2>1, <2>3 DEF Owing
  <2>6. (Gone(v)' <=> Gone(v)) /\ last'[v] = last[v]
    BY <2>2 DEF Gone
  <2> QED BY <2>3, <2>4, <2>5, <2>6, SettledFrame
<1>8. ASSUME NEW p \in Pages, Record(p) PROVE StatusInv'
  <2> DEFINE u == task[p].url
             e == entries[u]
             f == NewEntry(e, task[p].answer)
             kind == Transition(e, f)
  <2>1. task[p] \in Locals /\ u \in Urls /\ task[p].answer \in Answers /\ task[p].list = entries
    BY <1>0, <1>8 DEF Record, Locals, LockInv, Recording
  <2>2. e \in Entries \cup {NoEntry}
    BY <2>1 DEF TypeOK, EntryLists
  <2>3. entries' = [entries EXCEPT ![u] = f] /\ seen' = seen \cup {u} /\ last' = last
    BY <1>8, <2>1 DEF Record
  <2>4. \A q \in Pages : q # p => phase'[q] = phase[q] /\ task'[q] = task[q]
    BY <1>8 DEF Record, TaskEnds, Goto, TypeOK
  <2>5. \A v \in Urls : p \notin Owing(v)
    BY <1>8 DEF Record, Owing
  <2>6. \A v \in Urls \ {u} : (Gone(v)' <=> Gone(v))
    BY <2>1, <2>3 DEF Gone, TypeOK, EntryLists
  <2>7. \A v \in Urls : v = u => (Gone(v)' <=> f.status = "removed")
    <3> HIDE DEF f, e
    <3> QED BY <2>1, <2>3 DEF Gone, TypeOK, EntryLists
  <2>8. Gone(u) <=> e # NoEntry /\ e.status = "removed"
    BY <2>1 DEF Gone, EntriesTellHistory
  <2>9. CASE kind = "none" /\ TaskEnds(p) /\ UNCHANGED confused
    <3> SUFFICES ASSUME NEW v \in Urls \ confused PROVE Settled(v)'
      BY <2>9
    <3>1. Owing(v)' = Owing(v)
      <4>1. \A q \in Pages : q \in Owing(v)' <=> q \in Owing(v)
        BY <2>4, <2>5, <2>9 DEF Owing, TaskEnds, Goto, TypeOK
      <4> QED BY <4>1 DEF Owing
    <3>2. \A q \in Owing(v) : task'[q].kind = task[q].kind
      BY <2>4, <2>5 DEF Owing
    <3>3. Gone(v)' <=> Gone(v)
      <4>1. f.status = "removed" <=> e # NoEntry /\ e.status = "removed"
        <5> HIDE DEF e
        <5> QED BY <2>1, <2>2, <2>9, NoTransition
      <4> HIDE DEF f, e
      <4> QED BY <2>6, <2>7, <2>8, <4>1
    <3> QED BY <2>3, <3>1, <3>2, <3>3, SettledFrame
  <2>10. CASE /\ kind # "none"
              /\ Goto(p, "owing")
              /\ task' = [task EXCEPT ![p].kind = kind, ![p].list = NoList]
              /\ confused' = IF Owing(u) = {} THEN confused \ {u} ELSE confused \cup {u}
    <3>1. phase'[p] = "owing" /\ task'[p].url = u /\ task'[p].kind = kind
      <4> HIDE DEF kind
      <4> QED BY <2>1, <2>10 DEF Goto, TypeOK, Locals
    <3>2. kind = "REMOVED" <=> f.status = "removed"
      BY <2>10 DEF Transition
    <3> HIDE DEF kind, f
    <3> SUFFICES ASSUME NEW v \in Urls \ confused' PROVE Settled(v)'
      OBVIOUS
    <3>3. CASE v = u
      <4>1. Owing(v) = {}
        BY <2>10, <3>3
      <4>2. Owing(v)' = {p}
        <5>1. \A q \in Pages : q \in Owing(v)' <=> q = p
          BY <2>4, <3>1, <3>3, <4>1 DEF Owing
        <5> QED BY <5>1 DEF Owing
      <4> QED BY <2>7, <3>1, <3>2, <3>3, <4>2 DEF Settled
    <3>4. CASE v # u
      <4>1. v \notin confused
        BY <2>10, <3>4
      <4>2. Owing(v)' = Owing(v)
        <5>1. \A q \in Pages : q \in Owing(v)' <=> q \in Owing(v)
          BY <2>4, <2>5, <3>1, <3>4 DEF Owing
        <5> QED BY <5>1 DEF Owing
      <4>3. \A q \in Owing(v) : task'[q].kind = task[q].kind
        BY <2>4, <2>5 DEF Owing
      <4> QED BY <2>3, <2>6, <3>4, <4>1, <4>2, <4>3, SettledFrame
    <3> QED BY <3>3, <3>4
  <2> QED BY <1>8, <2>1, <2>9, <2>10 DEF Record
<1>9. CASE SiteChanges
  BY <1>1, <1>9 DEF SiteChanges, taskVars, histVars
<1>10. CASE UNCHANGED vars
  BY <1>1, <1>10 DEF vars, taskVars, histVars
<1> QED BY <1>3, <1>4, <1>5, <1>6, <1>7, <1>8, <1>9, <1>10 DEF Next, PageStep

-----------------------------------------------------------------------------
LEMMA InitIInv == Init => IInv
<1> SUFFICES ASSUME Init PROVE IInv
  OBVIOUS
<1>1. TypeOK
  BY EmptyLists, MonitorAssumption, TaskAssumption DEF Init, TypeOK
<1>2. LockInv
  BY DEF Init, LockInv, Recording, Announcing
<1>3. EntriesTellHistory
  BY DEF Init, EntriesTellHistory, NoList
<1>4. StatusInv
  BY DEF Init, StatusInv, Settled, Owing, Gone, NoNews
<1> QED BY <1>1, <1>2, <1>3, <1>4 DEF IInv

LEMMA IInvariant == Spec => []IInv
<1>1. IInv /\ [Next]_vars => IInv'
  BY TypeNext, LockNext, HistoryNext, StatusNext DEF IInv
<1> QED BY InitIInv, <1>1, PTL DEF Spec

\* Every reachable state has the types of the two lists and of the locals.
THEOREM TypeCorrect == Spec => []TypeOK
<1>1. IInv => TypeOK
  BY DEF IInv
<1> QED BY IInvariant, <1>1, PTL

\* source_repository.py:133: no outcome is lost in the shared list, and a URL
\* is removed exactly when enough failures in a row say so.
THEOREM NoLostEntry == Spec => []EntriesTellHistory
<1>1. IInv => EntriesTellHistory
  BY DEF IInv
<1> QED BY IInvariant, <1>1, PTL

\* Although entry and event are two transactions, the last event about a URL
\* tells its status unless an announcement was lost or overtaken.
THEOREM EventsFollow == Spec => []EventsTellStatus
<1>1. IInv => EventsTellStatus
  BY DEF IInv, StatusInv, Settled, EventsTellStatus, Gone
<1> QED BY IInvariant, <1>1, PTL
=============================================================================
