---------------------------- MODULE DocumentStore ----------------------------
(***************************************************************************)
(* How _process_page stores what it extracted: documents with their         *)
(* versions and changes, and the monitoring events that announce them.      *)
(* Several page tasks, of instant and of monitoring crawls, may store the   *)
(* same URL at once; sessions are READ COMMITTED transactions that end in   *)
(* one commit for document and event together (add_event commits both).     *)
(*                                                                         *)
(* A content is a class of page bodies that detect_change does not tell     *)
(* apart; equal contents have equal normalized hashes.                      *)
(***************************************************************************)
EXTENDS Naturals, Sequences, FiniteSets

CONSTANTS
    Urls,         \* normalized URLs
    Contents,     \* what a page may say
    Pages,        \* page tasks that may be in flight at once
    NoJob,        \* what an idle task works on
    MaxChanges,   \* bound: how often the site changes a page
    MaxAborts     \* bound: page tasks cancelled or failed by another await

VARIABLES
    docs,      \* the document of each URL, NoDoc when there is none
    events,    \* source.monitoring_events about each URL, NEW and UPDATED only
    site,      \* what each page of the web site says now
    budget,    \* environment budgets
    phase,     \* progress of each page task
    job        \* what the task works on and what its session holds

taskVars == <<phase, job>>
vars     == <<docs, events, site, budget, taskVars>>

\* versions[i] is version_number i; edges are the DocumentChange records.
NoDoc == [versions |-> <<>>, current |-> 0, edges |-> <<>>]

Phases == {"idle", "extracted", "missing", "checked", "inserted", "found",
           "ambiguous", "conflict"}

Versions == [content : Contents, monitored : BOOLEAN]
Edges    == [from : Nat, to : Nat]
Docs     == [versions : Seq(Versions), current : Nat, edges : Seq(Edges)]
Events   == [kind : {"NEW", "UPDATED"}, version : Nat]
Locals   == [url : Urls, content : Contents, monitored : BOOLEAN, attempt : 0 .. 1, copy : Docs]

ASSUME StoreAssumption ==
    /\ IsFiniteSet(Urls)
    /\ {MaxChanges, MaxAborts} \subseteq Nat
    /\ NoJob \notin Locals

TypeOK ==
    /\ docs \in [Urls -> Docs]
    /\ events \in [Urls -> Seq(Events)]
    /\ site \in [Urls -> Contents]
    /\ budget \in [{"change", "abort"} -> Nat]
    /\ phase \in [Pages -> Phases]
    /\ job \in [Pages -> Locals \cup {NoJob}]
    /\ \A p \in Pages : job[p] = NoJob <=> phase[p] = "idle"

Exists(u) == docs[u] # NoDoc

Spend(kind) ==
    /\ budget[kind] > 0
    /\ budget' = [budget EXCEPT ![kind] = @ - 1]

Goto(p, ph) == phase' = [phase EXCEPT ![p] = ph]

\* A document row is locked by the session that selected it FOR UPDATE.
RowLocked(u) == \E p \in Pages : phase[p] = "found" /\ job[p].url = u

\* An uncommitted row with this URL makes other inserts of it wait.
BeingInserted(u) == \E p \in Pages : phase[p] = "inserted" /\ job[p].url = u

SameBody(c) == {u \in Urls : Exists(u) /\ docs[u].versions[docs[u].current].content = c}

-----------------------------------------------------------------------------
(***************************************************************************)
(* Storing one page.                                                       *)
(***************************************************************************)

\* Fetched and extracted: from here on the task has the content of now.
Extract(p, u) ==
    /\ phase[p] = "idle"
    /\ \E monitored \in BOOLEAN :
         job' = [job EXCEPT ![p] = [url |-> u, content |-> site[u], monitored |-> monitored,
                                    attempt |-> 0, copy |-> NoDoc]]
    /\ Goto(p, "extracted")
    /\ UNCHANGED <<docs, events, site, budget>>

\* Broken: SELECT without FOR UPDATE.
FindUnlocked(p) ==
    LET u == job[p].url IN
    /\ phase[p] = "extracted"
    /\ \/ Exists(u) /\ Goto(p, "found") /\ job' = [job EXCEPT ![p].copy = docs[u]]
       \/ ~Exists(u) /\ Goto(p, "missing") /\ UNCHANGED job
    /\ UNCHANGED <<docs, events, site, budget>>

\* find_by_normalized_url locks the row it finds, after waiting for whoever
\* has it, and sees only committed rows.
Find(p) ==
    LET u == job[p].url IN
    /\ phase[p] = "extracted"
    /\ \/ /\ Exists(u) /\ ~RowLocked(u)
          /\ Goto(p, "found")
          /\ job' = [job EXCEPT ![p].copy = docs[u]]
       \/ /\ ~Exists(u)
          /\ Goto(p, "missing")
          /\ UNCHANGED job
    /\ UNCHANGED <<docs, events, site, budget>>

\* find_by_normalized_hash is a scalar_one_or_none: two matches raise.
CheckNearDuplicate(p) ==
    /\ phase[p] = "missing"
    /\ Goto(p, IF Cardinality(SameBody(job[p].content)) > 1 THEN "ambiguous" ELSE "checked")
    /\ UNCHANGED <<docs, events, site, budget, job>>

\* DocumentRepository.create flushes the INSERT and add_version fills it: not
\* committed yet.  The unique index makes it wait for another such insert.
Insert(p) ==
    LET u == job[p].url IN
    /\ phase[p] = "checked"
    /\ ~Exists(u) /\ ~BeingInserted(u)
    /\ Goto(p, "inserted")
    /\ job' = [job EXCEPT ![p].copy =
                 [versions |-> <<[content |-> job[p].content, monitored |-> job[p].monitored]>>,
                  current |-> 1, edges |-> <<>>]]
    /\ UNCHANGED <<docs, events, site, budget>>

\* Broken: the loop gives up at the first IntegrityError.
InsertConflictsOnce(p) ==
    /\ phase[p] = "checked"
    /\ Exists(job[p].url)
    /\ Goto(p, "conflict")
    /\ UNCHANGED <<docs, events, site, budget, job>>

\* IntegrityError: roll back and try once more, or raise.
InsertConflicts(p) ==
    /\ phase[p] = "checked"
    /\ Exists(job[p].url)
    /\ \/ job[p].attempt = 0 /\ Goto(p, "extracted") /\ job' = [job EXCEPT ![p].attempt = 1]
       \/ job[p].attempt = 1 /\ Goto(p, "conflict") /\ UNCHANGED job
    /\ UNCHANGED <<docs, events, site, budget>>

\* The page task is done, its session is closed.
TaskEnds(p) ==
    /\ Goto(p, "idle")
    /\ job' = [job EXCEPT ![p] = NoJob]

\* add_event of a crawl that has a source.
Announce(p, kind, version) ==
    events' = IF job[p].monitored
              THEN [events EXCEPT ![job[p].url] = Append(@, [kind |-> kind, version |-> version])]
              ELSE events

CommitNew(p) ==
    /\ phase[p] = "inserted"
    /\ docs' = [docs EXCEPT ![job[p].url] = job[p].copy]
    /\ Announce(p, "NEW", 1)
    /\ TaskEnds(p)
    /\ UNCHANGED <<site, budget>>

\* Broken: the extracted page is compared with the first version.
ChangedFromFirst(p) ==
    job[p].copy.versions[1].content # job[p].content

\* Broken: only crawls of a source look for changes.
ChangedIfMonitored(p) ==
    LET copy == job[p].copy
    IN  job[p].monitored /\ copy.versions[copy.current].content # job[p].content

\* detect_change on the locked row.
Changed(p) ==
    LET copy == job[p].copy IN copy.versions[copy.current].content # job[p].content

\* Broken: current_version stays behind.
CommitUpdateBehind(p) ==
    LET copy == job[p].copy
        n    == copy.current + 1
    IN
    /\ phase[p] = "found" /\ Changed(p)
    /\ docs' = [docs EXCEPT ![job[p].url] =
                  [versions |-> Append(copy.versions,
                                       [content |-> job[p].content, monitored |-> job[p].monitored]),
                   current |-> copy.current,
                   edges |-> Append(copy.edges, [from |-> copy.current, to |-> n])]]
    /\ Announce(p, "UPDATED", n)
    /\ TaskEnds(p)
    /\ UNCHANGED <<site, budget>>

\* add_version, add_change and add_event.
CommitUpdate(p) ==
    LET copy == job[p].copy
        n    == copy.current + 1
    IN
    /\ phase[p] = "found" /\ Changed(p)
    /\ docs' = [docs EXCEPT ![job[p].url] =
                  [versions |-> Append(copy.versions,
                                       [content |-> job[p].content, monitored |-> job[p].monitored]),
                   current |-> n,
                   edges |-> Append(copy.edges, [from |-> copy.current, to |-> n])]]
    /\ Announce(p, "UPDATED", n)
    /\ TaskEnds(p)
    /\ UNCHANGED <<site, budget>>

\* Nothing meaningful changed: no version, no change record.
CommitUnchanged(p) ==
    /\ phase[p] = "found" /\ ~Changed(p)
    /\ TaskEnds(p)
    /\ UNCHANGED <<docs, events, site, budget>>

\* The exception reaches run_crawl, which fails the whole job.
Raise(p) ==
    /\ phase[p] \in {"ambiguous", "conflict"}
    /\ TaskEnds(p)
    /\ UNCHANGED <<docs, events, site, budget>>

\* Cancelled, or another await raised: the open transaction rolls back.
Abort(p) ==
    /\ phase[p] # "idle"
    /\ Spend("abort")
    /\ TaskEnds(p)
    /\ UNCHANGED <<docs, events, site>>

Store(p) ==
    \/ Find(p) \/ CheckNearDuplicate(p) \/ Insert(p) \/ InsertConflicts(p)
    \/ CommitNew(p) \/ CommitUpdate(p) \/ CommitUnchanged(p) \/ Raise(p)

-----------------------------------------------------------------------------
SiteChanges(u) ==
    /\ Spend("change")
    /\ \E c \in Contents \ {site[u]} : site' = [site EXCEPT ![u] = c]
    /\ UNCHANGED <<docs, events, taskVars>>

Init ==
    /\ docs = [u \in Urls |-> NoDoc]
    /\ events = [u \in Urls |-> <<>>]
    /\ site \in [Urls -> Contents]
    /\ budget = [change |-> MaxChanges, abort |-> MaxAborts]
    /\ phase = [p \in Pages |-> "idle"]
    /\ job = [p \in Pages |-> NoJob]

Next ==
    \/ \E p \in Pages : Store(p) \/ Abort(p)
    \/ \E u \in Urls : SiteChanges(u) \/ (\E p \in Pages : Extract(p, u))

Spec == Init /\ [][Next]_vars

\* The event loop resumes every page task, row locks are granted in the order
\* of arrival, and every URL keeps being crawled.
Fairness ==
    /\ \A p \in Pages : WF_vars(Store(p)) /\ SF_vars(Find(p))
    /\ \A u \in Urls : SF_vars(\E p \in Pages : Extract(p, u))

FairSpec == Spec /\ Fairness

-----------------------------------------------------------------------------
(***************************************************************************)
(* Properties.                                                             *)
(***************************************************************************)

\* document_repository.py:22: the second writer works on what the first has
\* committed.  Version numbers have no gap, current_version is the last one,
\* each change record joins two neighbours, and no two concurrent crawls
\* record the same content twice.
VersionsInOrder ==
    \A u \in Urls :
        LET v == docs[u].versions
            e == docs[u].edges
        IN  /\ docs[u].current = Len(v)
            /\ Len(v) > 0 => Len(e) = Len(v) - 1
            /\ \A i \in 1 .. Len(e) :
                 /\ e[i] = [from |-> i, to |-> i + 1]
                 /\ v[i].content # v[i + 1].content

\* The events of monitoring crawls tell exactly the versions they made: one
\* event each, of the right kind, never one for a version that is not there.
EventsTellVersions ==
    \A u \in Urls :
        LET v == docs[u].versions
            e == events[u]
        IN  /\ \A i \in DOMAIN e :
                 /\ e[i].version \in DOMAIN v /\ v[e[i].version].monitored
                 /\ e[i].kind = "NEW" <=> e[i].version = 1
            /\ \A n \in DOMAIN v : v[n].monitored =>
                 \E i \in DOMAIN e :
                     /\ e[i].version = n
                     /\ \A k \in DOMAIN e : e[k].version = n => k = i

\* crawl_engine.py:659: losing the race to create a document costs one retry,
\* it never fails the crawl.
RetrySuffices == \A p \in Pages : phase[p] # "conflict"

\* Sessions, locks and the unique index implement the versioned store.
History == INSTANCE VersionedStore WITH
    history <- [u \in Urls |-> [i \in 1 .. Len(docs[u].versions) |-> docs[u].versions[i].content]]

ImplementsHistory == History!Spec

\* Tasks that fetched a page before it changed may store it after; once the
\* site stays as it is, the document ends up saying what the site says.
Converges ==
    \A u \in Urls :
        <>[](Exists(u) /\ docs[u].versions[docs[u].current].content = site[u])

\* crawl_engine.py:674: a body that other URLs have is "flagged, not merged",
\* so storing it does not raise.
DuplicatesFlagged == \A p \in Pages : phase[p] # "ambiguous"
=============================================================================
