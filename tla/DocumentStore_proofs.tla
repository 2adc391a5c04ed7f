------------------------- MODULE DocumentStore_proofs -------------------------
(***************************************************************************)
(* Proofs about DocumentStore, for any URLs, contents and number of tasks.  *)
(*                                                                         *)
(* SessionInv is the argument: who holds the row lock works on what is      *)
(* committed, who holds the place in the unique index is alone and creates  *)
(* the document, and who retries finds the document there, because          *)
(* documents are never deleted.                                            *)
(***************************************************************************)
EXTENDS DocumentStore, TLAPS

Url(p) == job[p].url

Found(p) ==
    /\ Exists(Url(p)) /\ job[p].copy = docs[Url(p)]
    /\ \A q \in Pages : phase[q] = "found" /\ Url(q) = Url(p) => q = p

Inserted(p) ==
    /\ ~Exists(Url(p))
    /\ job[p].copy = [versions |-> <<[content |-> job[p].content, monitored |-> job[p].monitored]>>,
                      current |-> 1, edges |-> <<>>]
    /\ \A q \in Pages : phase[q] = "inserted" /\ Url(q) = Url(p) => q = p

Session(p) ==
    /\ phase[p] = "found" => Found(p)
    /\ phase[p] = "inserted" => Inserted(p)
    /\ phase[p] # "idle" /\ job[p].attempt = 1 =>
         phase[p] \in {"extracted", "found"} /\ Exists(Url(p))
    /\ phase[p] # "conflict"

SessionInv == \A p \in Pages : Session(p)

Stored == \A u \in Urls : Exists(u) => Len(docs[u].versions) > 0

IInv == TypeOK /\ SessionInv /\ Stored /\ VersionsInOrder

-----------------------------------------------------------------------------
LEMMA NoDocType == NoDoc \in Docs
  BY DEF NoDoc, Docs

\* The document a page task creates.
LEMMA NewDocType ==
    ASSUME NEW c \in Contents, NEW m \in BOOLEAN
    PROVE  [versions |-> <<[content |-> c, monitored |-> m]>>, current |-> 1, edges |-> <<>>] \in Docs
<1>1. [content |-> c, monitored |-> m] \in Versions
  BY DEF Versions
<1> QED BY <1>1 DEF Docs

\* The document a page task updates.
Extended(d, c, m) ==
    [versions |-> Append(d.versions, [content |-> c, monitored |-> m]),
     current |-> d.current + 1,
     edges |-> Append(d.edges, [from |-> d.current, to |-> d.current + 1])]

LEMMA ExtendedType ==
    ASSUME NEW d \in Docs, NEW c \in Contents, NEW m \in BOOLEAN
    PROVE  Extended(d, c, m) \in Docs
<1>1. [content |-> c, monitored |-> m] \in Versions
  BY DEF Versions
<1>2. d.versions \in Seq(Versions) /\ d.current \in Nat /\ d.edges \in Seq(Edges)
  BY DEF Docs
<1>3. [from |-> d.current, to |-> d.current + 1] \in Edges
  BY <1>2 DEF Edges
<1>4. Append(d.versions, [content |-> c, monitored |-> m]) \in Seq(Versions)
  BY <1>1, <1>2
<1>5. Append(d.edges, [from |-> d.current, to |-> d.current + 1]) \in Seq(Edges)
  BY <1>2, <1>3
<1> QED BY <1>2, <1>4, <1>5 DEF Docs, Extended

LEMMA TypeInit == Init => TypeOK
  BY NoDocType, StoreAssumption DEF Init, TypeOK, Phases

LEMMA BusyType ==
    ASSUME TypeOK, NEW p \in Pages, phase[p] # "idle"
    PROVE  /\ job[p] \in Locals
           /\ job[p].url \in Urls /\ job[p].content \in Contents
           /\ job[p].monitored \in BOOLEAN /\ job[p].attempt \in 0 .. 1
           /\ job[p].copy \in Docs
  BY DEF TypeOK, Locals

LEMMA AnnounceType ==
    ASSUME TypeOK, NEW p \in Pages, phase[p] # "idle",
           NEW kind \in {"NEW", "UPDATED"}, NEW n \in Nat, Announce(p, kind, n)
    PROVE  events' \in [Urls -> Seq(Events)]
<1>1. [kind |-> kind, version |-> n] \in Events
  BY DEF Events
<1>2. events \in [Urls -> Seq(Events)] /\ job[p].url \in Urls
  BY BusyType DEF TypeOK
<1>3. Append(events[job[p].url], [kind |-> kind, version |-> n]) \in Seq(Events)
  BY <1>1, <1>2
<1> QED BY <1>2, <1>3 DEF Announce

LEMMA EndsType ==
    ASSUME TypeOK, NEW p \in Pages, TaskEnds(p)
    PROVE  /\ phase' \in [Pages -> Phases]
           /\ job' \in [Pages -> Locals \cup {NoJob}]
           /\ \A q \in Pages : job'[q] = NoJob <=> phase'[q] = "idle"
  BY DEF TypeOK, TaskEnds, Goto, Phases

LEMMA BusyStepType ==
    ASSUME TypeOK, NEW p \in Pages, NEW ph \in Phases \ {"idle"}, NEW j \in Locals,
           Goto(p, ph), job' = [job EXCEPT ![p] = j],
           UNCHANGED <<docs, events, site, budget>>
    PROVE  TypeOK'
  BY StoreAssumption DEF TypeOK, Goto

LEMMA TypeNext == TypeOK /\ [Next]_vars => TypeOK'
<1> SUFFICES ASSUME TypeOK, [Next]_vars PROVE TypeOK'
  OBVIOUS
<1>1. ASSUME NEW p \in Pages, NEW u \in Urls, Extract(p, u) PROVE TypeOK'
  <2>1. PICK m \in BOOLEAN : job' = [job EXCEPT ![p] =
            [url |-> u, content |-> site[u], monitored |-> m, attempt |-> 0, copy |-> NoDoc]]
    BY <1>1 DEF Extract
  <2>2. [url |-> u, content |-> site[u], monitored |-> m, attempt |-> 0, copy |-> NoDoc] \in Locals
    BY NoDocType DEF Locals, TypeOK
  <2> QED BY <1>1, <2>1, <2>2, BusyStepType DEF Extract, Phases
<1>2. ASSUME NEW p \in Pages, Find(p) PROVE TypeOK'
  <2>1. phase[p] # "idle"
    BY <1>2 DEF Find
  <2>2. CASE Goto(p, "found") /\ job' = [job EXCEPT ![p].copy = docs[job[p].url]]
    <3>1. [job[p] EXCEPT !.copy = docs[job[p].url]] \in Locals
      BY <2>1, BusyType DEF TypeOK, Locals
    <3>2. job' = [job EXCEPT ![p] = [job[p] EXCEPT !.copy = docs[job[p].url]]]
      BY <2>2
    <3> QED BY <1>2, <2>2, <3>1, <3>2, BusyStepType DEF Find, Phases
  <2>3. CASE Goto(p, "missing") /\ UNCHANGED job
    BY <1>2, <2>1, <2>3, StoreAssumption DEF TypeOK, Find, Goto, Phases
  <2> QED BY <1>2, <2>2, <2>3 DEF Find
<1>3. ASSUME NEW p \in Pages, CheckNearDuplicate(p) PROVE TypeOK'
  BY <1>3 DEF TypeOK, CheckNearDuplicate, Goto, Phases
<1>4. ASSUME NEW p \in Pages, Insert(p) PROVE TypeOK'
  <2> DEFINE d == [versions |-> <<[content |-> job[p].content, monitored |-> job[p].monitored]>>,
                   current |-> 1, edges |-> <<>>]
  <2>1. phase[p] # "idle"
    BY <1>4 DEF Insert
  <2>2. d \in Docs
    BY <2>1, BusyType, NewDocType
  <2>3. job' = [job EXCEPT ![p] = [job[p] EXCEPT !.copy = d]]
    BY <1>4 DEF Insert
  <2> HIDE DEF d
  <2>4. [job[p] EXCEPT !.copy = d] \in Locals
    BY <2>1, <2>2, BusyType DEF Locals
  <2> QED BY <1>4, <2>3, <2>4, BusyStepType DEF Insert, Phases
<1>5. ASSUME NEW p \in Pages, InsertConflicts(p) PROVE TypeOK'
  <2>1. phase[p] # "idle"
    BY <1>5 DEF InsertConflicts
  <2>2. CASE Goto(p, "extracted") /\ job' = [job EXCEPT ![p].attempt = 1]
    <3>1. [job[p] EXCEPT !.attempt = 1] \in Locals
      BY <2>1, BusyType DEF Locals
    <3>2. job' = [job EXCEPT ![p] = [job[p] EXCEPT !.attempt = 1]]
      BY <2>2
    <3> QED BY <1>5, <2>2, <3>1, <3>2, BusyStepType DEF InsertConflicts, Phases
  <2>3. CASE Goto(p, "conflict") /\ UNCHANGED job
    BY <1>5, <2>1, <2>3 DEF TypeOK, InsertConflicts, Goto, Phases
  <2> QED BY <1>5, <2>2, <2>3 DEF InsertConflicts
<1>6. ASSUME NEW p \in Pages, CommitNew(p) PROVE TypeOK'
  <2>1. phase[p] # "idle" /\ TaskEnds(p)
    BY <1>6 DEF CommitNew
  <2>2. docs' \in [Urls -> Docs]
    BY <1>6, <2>1, BusyType DEF TypeOK, CommitNew
  <2>3. events' \in [Urls -> Seq(Events)]
    BY <1>6, <2>1, AnnounceType DEF CommitNew
  <2> QED BY <1>6, <2>1, <2>2, <2>3, EndsType DEF TypeOK, CommitNew
<1>7. ASSUME NEW p \in Pages, CommitUpdate(p) PROVE TypeOK'
  <2>1. phase[p] # "idle" /\ TaskEnds(p)
    BY <1>7 DEF CommitUpdate
  <2>2. docs' = [docs EXCEPT ![job[p].url] = Extended(job[p].copy, job[p].content, job[p].monitored)]
    BY <1>7 DEF CommitUpdate, Extended
  <2>3. docs' \in [Urls -> Docs]
    BY <2>1, <2>2, BusyType, ExtendedType DEF TypeOK
  <2>4. job[p].copy.current + 1 \in Nat
    BY <2>1, BusyType DEF Docs
  <2>5. events' \in [Urls -> Seq(Events)]
    BY <1>7, <2>1, <2>4, AnnounceType DEF CommitUpdate
  <2> QED BY <1>7, <2>1, <2>3, <2>5, EndsType DEF TypeOK, CommitUpdate
<1>8. ASSUME NEW p \in Pages, CommitUnchanged(p) \/ Raise(p) \/ Abort(p) PROVE TypeOK'
  <2>1. TaskEnds(p) /\ UNCHANGED <<docs, events, site>>
    BY <1>8 DEF CommitUnchanged, Raise, Abort
  <2>2. budget' \in [{"change", "abort"} -> Nat]
    BY <1>8, SMT DEF TypeOK, CommitUnchanged, Raise, Abort, Spend
  <2> QED BY <2>1, <2>2, EndsType DEF TypeOK
<1>9. ASSUME NEW u \in Urls, SiteChanges(u) PROVE TypeOK'
  <2>1. budget' \in [{"change", "abort"} -> Nat]
    BY <1>9, SMT DEF TypeOK, SiteChanges, Spend
  <2> QED BY <1>9, <2>1 DEF TypeOK, SiteChanges, taskVars
<1>10. CASE UNCHANGED vars
  BY <1>10 DEF TypeOK, vars, taskVars
<1> QED BY <1>1, <1>2, <1>3, <1>4, <1>5, <1>6, <1>7, <1>8, <1>9, <1>10 DEF Next, Store

-----------------------------------------------------------------------------
(***************************************************************************)
(* How the documents change.                                               *)
(***************************************************************************)

Silent == UNCHANGED <<docs, events>>

\* Every step creates one document, extends one that exists, or leaves all.
Effect(p) ==
    \/ /\ CommitNew(p)
       /\ Inserted(p)
       /\ docs' = [docs EXCEPT ![Url(p)] = job[p].copy]
    \/ /\ CommitUpdate(p)
       /\ Found(p) /\ Changed(p)
       /\ docs' = [docs EXCEPT ![Url(p)] =
                     Extended(docs[Url(p)], job[p].content, job[p].monitored)]

LEMMA StepEffect ==
    ASSUME SessionInv, [Next]_vars
    PROVE  Silent \/ \E p \in Pages : Effect(p)
<1>1. ASSUME NEW p \in Pages, CommitNew(p) PROVE Effect(p)
  BY <1>1 DEF SessionInv, Session, CommitNew, Effect, Url
<1>2. ASSUME NEW p \in Pages, CommitUpdate(p) PROVE Effect(p)
  <2>1. Found(p)
    BY <1>2 DEF SessionInv, Session, CommitUpdate
  <2> QED BY <1>2, <2>1 DEF CommitUpdate, Effect, Extended, Found, Url
<1>3. ASSUME NEW p \in Pages, Store(p) \/ Abort(p), ~CommitNew(p), ~CommitUpdate(p) PROVE Silent
  BY <1>3 DEF Store, Abort, Find, CheckNearDuplicate, Insert, InsertConflicts, CommitUnchanged, Raise, Silent
<1>4. ASSUME NEW u \in Urls, SiteChanges(u) \/ (\E p \in Pages : Extract(p, u)) PROVE Silent
  BY <1>4 DEF SiteChanges, Extract, Silent
<1>5. CASE UNCHANGED vars
  BY <1>5 DEF vars, Silent
<1> QED BY <1>1, <1>2, <1>3, <1>4, <1>5 DEF Next

\* A document, once there, is never taken away.
LEMMA DocumentsStay ==
    ASSUME IInv, [Next]_vars, NEW u \in Urls, Exists(u)
    PROVE  Exists(u)'
<1>1. CASE Silent
  BY <1>1 DEF Silent, Exists
<1>2. ASSUME NEW p \in Pages, Effect(p) PROVE Exists(u)'
  <2>0. phase[p] # "idle" /\ docs \in [Urls -> Docs] /\ Url(p) \in Urls
    BY <1>2, BusyType DEF Effect, CommitNew, CommitUpdate, IInv, TypeOK, Url
  <2>1. CASE Url(p) # u
    BY <1>2, <2>0, <2>1 DEF Effect, Exists
  <2>2. CASE Url(p) = u
    <3>1. docs'[u] = Extended(docs[u], job[p].content, job[p].monitored)
      BY <1>2, <2>0, <2>2 DEF Effect, Inserted, Exists
    <3>2. docs'[u].current = docs[u].current + 1 /\ docs[u].current \in Nat
      BY <2>0, <3>1 DEF Extended, Docs
    <3> QED BY <3>2, SMT DEF Exists, NoDoc
  <2> QED BY <2>1, <2>2
<1> QED BY <1>1, <1>2, StepEffect DEF IInv

\* What a document created by a page task looks like ...
LEMMA CreatedShape ==
    ASSUME TypeOK, NEW p \in Pages, phase[p] # "idle", Inserted(p)
    PROVE  LET d == job[p].copy IN
           /\ d.current = 1 /\ Len(d.versions) = 1 /\ Len(d.edges) = 0
           /\ d.versions[1] = [content |-> job[p].content, monitored |-> job[p].monitored]
  BY BusyType DEF Inserted

\* ... and one extended by a page task.
LEMMA ExtendedShape ==
    ASSUME NEW d \in Docs, NEW c \in Contents, NEW m \in BOOLEAN
    PROVE  LET x == Extended(d, c, m) IN
           /\ x.current = d.current + 1
           /\ Len(x.versions) = Len(d.versions) + 1
           /\ Len(x.edges) = Len(d.edges) + 1
           /\ \A i \in 1 .. Len(d.versions) : x.versions[i] = d.versions[i]
           /\ x.versions[Len(d.versions) + 1] = [content |-> c, monitored |-> m]
           /\ \A i \in 1 .. Len(d.edges) : x.edges[i] = d.edges[i]
           /\ x.edges[Len(d.edges) + 1] = [from |-> d.current, to |-> d.current + 1]
<1> DEFINE v == [content |-> c, monitored |-> m]
           e == [from |-> d.current, to |-> d.current + 1]
<1>1. d.versions \in Seq(Versions) /\ d.edges \in Seq(Edges) /\ d.current \in Nat
  BY DEF Docs
<1>2. v \in Versions /\ e \in Edges
  BY <1>1 DEF Versions, Edges
<1>3. /\ Extended(d, c, m).current = d.current + 1
      /\ Extended(d, c, m).versions = Append(d.versions, v)
      /\ Extended(d, c, m).edges = Append(d.edges, e)
  BY DEF Extended
<1> HIDE DEF v, e
<1>4. /\ Len(Append(d.versions, v)) = Len(d.versions) + 1
      /\ \A i \in 1 .. Len(d.versions) : Append(d.versions, v)[i] = d.versions[i]
      /\ Append(d.versions, v)[Len(d.versions) + 1] = v
  BY <1>1, <1>2
<1>5. /\ Len(Append(d.edges, e)) = Len(d.edges) + 1
      /\ \A i \in 1 .. Len(d.edges) : Append(d.edges, e)[i] = d.edges[i]
      /\ Append(d.edges, e)[Len(d.edges) + 1] = e
  BY <1>1, <1>2
<1> QED BY <1>3, <1>4, <1>5 DEF v, e

-----------------------------------------------------------------------------
(***************************************************************************)
(* The sessions.                                                           *)
(***************************************************************************)

\* A step of q that leaves the documents alone and takes nobody's lock does
\* not disturb another task.
LEMMA Undisturbed ==
    ASSUME IInv, NEW p \in Pages, NEW q \in Pages, p # q,
           phase' \in [Pages -> Phases], UNCHANGED docs,
           \A r \in Pages \ {q} : phase'[r] = phase[r] /\ job'[r] = job[r],
           phase'[q] = "found" => (phase[p] = "found" => job'[q].url # job[p].url),
           phase'[q] = "inserted" => (phase[p] = "inserted" => job'[q].url # job[p].url)
    PROVE  Session(p)'
<1>1. Session(p) /\ phase'[p] = phase[p] /\ job'[p] = job[p] /\ docs' = docs
  BY DEF IInv, SessionInv
<1>2. ASSUME phase[p] = "found" PROVE Found(p)'
  BY <1>1, <1>2 DEF Session, Found, Exists, Url
<1>3. ASSUME phase[p] = "inserted" PROVE Inserted(p)'
  BY <1>1, <1>3 DEF Session, Inserted, Exists, Url
<1> QED BY <1>1, <1>2, <1>3 DEF Session, Exists, Url

LEMMA SessionNext == IInv /\ TypeOK' /\ [Next]_vars => SessionInv'
<1> SUFFICES ASSUME IInv, TypeOK', [Next]_vars, NEW p \in Pages PROVE Session(p)'
  BY DEF SessionInv
<1>0. /\ phase \in [Pages -> Phases] /\ phase' \in [Pages -> Phases]
      /\ DOMAIN job = Pages /\ DOMAIN docs = Urls /\ TypeOK
      /\ Session(p)
  BY DEF IInv, SessionInv, TypeOK
<1>1. ASSUME NEW q \in Pages, NEW u \in Urls, Extract(q, u) PROVE Session(p)'
  <2>1. CASE p = q
    BY <1>0, <1>1, <2>1 DEF Extract, Goto, Session
  <2>2. CASE p # q
    <3>1. /\ UNCHANGED docs /\ phase'[q] = "extracted"
          /\ \A r \in Pages \ {q} : phase'[r] = phase[r] /\ job'[r] = job[r]
      BY <1>0, <1>1 DEF Extract, Goto
    <3> QED BY <1>0, <2>2, <3>1, Undisturbed
  <2> QED BY <2>1, <2>2
<1>2. ASSUME NEW q \in Pages, Find(q) PROVE Session(p)'
  <2>0. /\ UNCHANGED docs /\ phase[q] = "extracted" /\ job'[q].url = job[q].url
        /\ job'[q].attempt = job[q].attempt
        /\ \A r \in Pages \ {q} : phase'[r] = phase[r] /\ job'[r] = job[r]
    <3>1. job[q] \in Locals
      BY <1>0, <1>2, BusyType DEF Find
    <3> QED BY <1>0, <1>2, <3>1 DEF Find, Goto, Locals
  <2>1. CASE Exists(Url(q)) /\ ~RowLocked(Url(q)) /\ Goto(q, "found") /\ job' = [job EXCEPT ![q].copy = docs[Url(q)]]
    <3>1. phase'[q] = "found" /\ \A r \in Pages : phase[r] = "found" => job[r].url # job[q].url
      BY <1>0, <2>1 DEF RowLocked, Goto, Url
    <3>2. CASE p = q
      <4>1. job[q] \in Locals
        BY <1>0, <2>0, BusyType
      <4>2. job'[q].copy = docs[Url(q)]
        BY <1>0, <2>1, <4>1 DEF Locals
      <4>3. Found(q)'
        BY <2>0, <2>1, <3>1, <4>2 DEF Found, Exists, Url
      <4> QED BY <2>0, <2>1, <3>1, <3>2, <4>3 DEF Session, Exists, Url
    <3>3. CASE p # q
      BY <1>0, <2>0, <3>1, <3>3, Undisturbed
    <3> QED BY <3>2, <3>3
  <2>2. CASE ~Exists(Url(q)) /\ Goto(q, "missing") /\ UNCHANGED job
    <3>1. phase'[q] = "missing"
      BY <1>0, <2>2 DEF Goto
    <3>2. CASE p = q
      BY <1>0, <2>0, <2>2, <3>1, <3>2 DEF Session, Exists, Url
    <3>3. CASE p # q
      BY <1>0, <2>0, <3>1, <3>3, Undisturbed
    <3> QED BY <3>2, <3>3
  <2> QED BY <1>2, <2>1, <2>2 DEF Find, Url
<1>3. ASSUME NEW q \in Pages, CheckNearDuplicate(q) PROVE Session(p)'
  <2>0. /\ UNCHANGED <<docs, job>> /\ phase[q] = "missing" /\ phase'[q] \in {"ambiguous", "checked"}
        /\ \A r \in Pages \ {q} : phase'[r] = phase[r]
    BY <1>0, <1>3 DEF CheckNearDuplicate, Goto
  <2>1. CASE p = q
    BY <1>0, <2>0, <2>1 DEF Session, Exists, Url
  <2>2. CASE p # q
    BY <1>0, <2>0, <2>2, Undisturbed
  <2> QED BY <2>1, <2>2
<1>4. ASSUME NEW q \in Pages, Insert(q) PROVE Session(p)'
  <2> DEFINE d == [versions |-> <<[content |-> job[q].content, monitored |-> job[q].monitored]>>,
                   current |-> 1, edges |-> <<>>]
  <2>0. /\ UNCHANGED docs /\ phase[q] = "checked" /\ phase'[q] = "inserted" /\ ~Exists(Url(q))
        /\ job' = [job EXCEPT ![q].copy = d]
        /\ \A r \in Pages \ {q} : phase'[r] = phase[r] /\ job'[r] = job[r]
        /\ \A r \in Pages : phase[r] = "inserted" => job[r].url # job[q].url
    BY <1>0, <1>4 DEF Insert, Goto, BeingInserted, Url
  <2>1. job[q] \in Locals
    BY <1>0, <2>0, BusyType
  <2> HIDE DEF d
  <2>2. /\ job'[q].copy = d /\ job'[q].url = job[q].url /\ job'[q].attempt = job[q].attempt
        /\ job'[q].content = job[q].content /\ job'[q].monitored = job[q].monitored
    BY <1>0, <2>0, <2>1 DEF Locals
  <2>3. CASE p = q
    <3>1. Inserted(q)'
      <4>1. d = [versions |-> <<[content |-> job'[q].content, monitored |-> job'[q].monitored]>>,
                 current |-> 1, edges |-> <<>>]
        BY <2>2 DEF d
      <4> QED BY <2>0, <2>2, <4>1 DEF Inserted, Exists, Url
    <3> QED BY <1>0, <2>0, <2>2, <2>3, <3>1 DEF Session, Exists, Url
  <2>4. CASE p # q
    BY <1>0, <2>0, <2>2, <2>4, Undisturbed
  <2> QED BY <2>3, <2>4
<1>5. ASSUME NEW q \in Pages, InsertConflicts(q) PROVE Session(p)'
  <2>0. phase[q] = "checked" /\ Exists(Url(q)) /\ UNCHANGED docs /\ job[q] \in Locals /\ Session(q)
    BY <1>0, <1>5, BusyType DEF InsertConflicts, Url, IInv, SessionInv
  <2>1. job[q].attempt # 1
    BY <2>0 DEF Session
  <2>2. Goto(q, "extracted") /\ job' = [job EXCEPT ![q].attempt = 1]
    BY <1>5, <2>1 DEF InsertConflicts
  <2>3. /\ phase'[q] = "extracted" /\ job'[q].url = job[q].url
        /\ \A r \in Pages \ {q} : phase'[r] = phase[r] /\ job'[r] = job[r]
    BY <1>0, <2>0, <2>2 DEF Goto, Locals
  <2>4. CASE p = q
    BY <2>0, <2>3, <2>4 DEF Session, Exists, Url
  <2>5. CASE p # q
    BY <1>0, <2>0, <2>3, <2>5, Undisturbed
  <2> QED BY <2>4, <2>5
<1>6. ASSUME NEW q \in Pages, Effect(q) PROVE Session(p)'
  <2>0. /\ phase'[q] = "idle" /\ phase[q] # "idle" /\ Url(q) \in Urls
        /\ \A r \in Pages \ {q} : phase'[r] = phase[r] /\ job'[r] = job[r]
    BY <1>0, <1>6, BusyType DEF Effect, CommitNew, CommitUpdate, TaskEnds, Goto, Url
  <2>1. CASE p = q
    BY <2>0, <2>1 DEF Session
  <2>2. CASE p # q
    <3>1. phase'[p] = phase[p] /\ job'[p] = job[p]
      BY <2>0, <2>2
    <3>2. phase[p] \in {"found", "inserted"} => Url(p) # Url(q)
      BY <1>0, <1>6, <2>2 DEF Effect, CommitNew, CommitUpdate, Session, Found, Inserted
    <3>3. phase[p] \in {"found", "inserted"} => docs'[Url(p)] = docs[Url(p)]
      BY <1>0, <1>6, <3>2, BusyType DEF Effect, Url
    <3>4. phase[p] = "found" => Found(p)'
      BY <1>0, <2>0, <3>1, <3>3 DEF Session, Found, Exists, Url
    <3>5. phase[p] = "inserted" => Inserted(p)'
      BY <1>0, <2>0, <3>1, <3>3 DEF Session, Inserted, Exists, Url
    <3>6. phase[p] # "idle" /\ Exists(Url(p)) => Exists(Url(p))'
      <4>1. phase[p] # "idle" => Url(p) \in Urls /\ Url(p)' = Url(p)
        BY <1>0, <3>1, BusyType DEF Url
      <4> QED BY <4>1, DocumentsStay DEF Exists
    <3> QED BY <1>0, <3>1, <3>4, <3>5, <3>6 DEF Session
  <2> QED BY <2>1, <2>2
<1>7. ASSUME NEW q \in Pages, CommitUnchanged(q) \/ Raise(q) \/ Abort(q) PROVE Session(p)'
  <2>0. /\ phase'[q] = "idle" /\ UNCHANGED docs
        /\ \A r \in Pages \ {q} : phase'[r] = phase[r] /\ job'[r] = job[r]
    BY <1>0, <1>7 DEF CommitUnchanged, Raise, Abort, TaskEnds, Goto
  <2>1. CASE p = q
    BY <2>0, <2>1 DEF Session
  <2>2. CASE p # q
    BY <1>0, <2>0, <2>2, Undisturbed
  <2> QED BY <2>1, <2>2
<1>8. CASE UNCHANGED <<docs, taskVars>>
  BY <1>0, <1>8 DEF taskVars, Session, Found, Inserted, Exists, Url
<1>9. ASSUME NEW q \in Pages, CommitNew(q) PROVE Effect(q)
  BY <1>9 DEF IInv, SessionInv, Session, CommitNew, Effect, Url
<1>10. ASSUME NEW q \in Pages, CommitUpdate(q) PROVE Effect(q)
  <2>1. Found(q)
    BY <1>10 DEF IInv, SessionInv, Session, CommitUpdate
  <2> QED BY <1>10, <2>1 DEF CommitUpdate, Effect, Extended, Found, Url
<1>11. ASSUME NEW u \in Urls, SiteChanges(u) PROVE UNCHANGED <<docs, taskVars>>
  BY <1>11 DEF SiteChanges
<1>12. CASE UNCHANGED vars
  BY <1>8, <1>12 DEF vars
<1> QED BY <1>1, <1>2, <1>3, <1>4, <1>5, <1>6, <1>7, <1>8, <1>9, <1>10, <1>11, <1>12 DEF Next, Store

-----------------------------------------------------------------------------
(***************************************************************************)
(* The documents and the events.                                           *)
(***************************************************************************)

\* The URL of the step, its document before and after.
LEMMA EffectFacts ==
    ASSUME IInv, NEW p \in Pages, Effect(p)
    PROVE  /\ Url(p) \in Urls /\ docs[Url(p)] \in Docs /\ phase[p] # "idle"
           /\ job[p].content \in Contents /\ job[p].monitored \in BOOLEAN
           /\ \A u \in Urls \ {Url(p)} : docs'[u] = docs[u]
           /\ \/ docs[Url(p)] = NoDoc /\ docs'[Url(p)] = job[p].copy /\ Inserted(p) /\ CommitNew(p)
              \/ /\ docs[Url(p)] # NoDoc /\ CommitUpdate(p)
                 /\ docs'[Url(p)] = Extended(docs[Url(p)], job[p].content, job[p].monitored)
                 /\ docs[Url(p)].versions[docs[Url(p)].current].content # job[p].content
                 /\ job[p].copy = docs[Url(p)]
<1>1. phase[p] # "idle" /\ TypeOK /\ docs \in [Urls -> Docs]
  BY DEF Effect, CommitNew, CommitUpdate, IInv, TypeOK
<1>2. Url(p) \in Urls /\ job[p].content \in Contents /\ job[p].monitored \in BOOLEAN
  BY <1>1, BusyType DEF Url
<1>3. CASE CommitNew(p) /\ Inserted(p) /\ docs' = [docs EXCEPT ![Url(p)] = job[p].copy]
  BY <1>1, <1>2, <1>3 DEF Inserted, Exists
<1>4. CASE /\ CommitUpdate(p) /\ Found(p) /\ Changed(p)
           /\ docs' = [docs EXCEPT ![Url(p)] = Extended(docs[Url(p)], job[p].content, job[p].monitored)]
  <2>1. docs[Url(p)] # NoDoc /\ job[p].copy = docs[Url(p)]
    BY <1>4 DEF Found, Exists
  <2>2. docs[Url(p)].versions[docs[Url(p)].current].content # job[p].content
    BY <1>4, <2>1 DEF Changed
  <2> QED BY <1>1, <1>2, <1>4, <2>1, <2>2
<1> QED BY <1>3, <1>4 DEF Effect

\* One document's part of VersionsInOrder and Stored.
InOrder(d) ==
    /\ d.current = Len(d.versions)
    /\ Len(d.versions) > 0 => Len(d.edges) = Len(d.versions) - 1
    /\ \A i \in 1 .. Len(d.edges) :
         /\ d.edges[i] = [from |-> i, to |-> i + 1]
         /\ d.versions[i].content # d.versions[i + 1].content

LEMMA OrderNext == IInv /\ [Next]_vars => VersionsInOrder' /\ Stored'
<1> SUFFICES ASSUME IInv, [Next]_vars, NEW u \in Urls
             PROVE  InOrder(docs'[u]) /\ (docs'[u] # NoDoc => Len(docs'[u].versions) > 0)
  BY DEF VersionsInOrder, Stored, InOrder, Exists
<1>0. InOrder(docs[u]) /\ (docs[u] # NoDoc => Len(docs[u].versions) > 0) /\ docs[u] \in Docs
  BY DEF IInv, TypeOK, VersionsInOrder, Stored, InOrder, Exists
<1>1. CASE Silent
  BY <1>0, <1>1 DEF Silent
<1>2. ASSUME NEW p \in Pages, Effect(p)
      PROVE  InOrder(docs'[u]) /\ (docs'[u] # NoDoc => Len(docs'[u].versions) > 0)
  <2>1. CASE Url(p) # u
    BY <1>0, <1>2, <2>1, EffectFacts
  <2>2. CASE Url(p) = u /\ docs[u] = NoDoc
    <3>1. docs'[u] = job[p].copy /\ Inserted(p) /\ phase[p] # "idle"
      BY <1>2, <2>2, EffectFacts
    <3>2. docs'[u].current = 1 /\ Len(docs'[u].versions) = 1 /\ Len(docs'[u].edges) = 0
      BY <3>1, CreatedShape DEF IInv
    <3> QED BY <3>2, SMT DEF InOrder
  <2>3. CASE Url(p) = u /\ docs[u] # NoDoc
    <3> DEFINE d == docs[u]
               x == docs'[u]
               n == Len(d.versions)
    <3>1. /\ x = Extended(d, job[p].content, job[p].monitored)
          /\ job[p].content \in Contents /\ job[p].monitored \in BOOLEAN
          /\ d.versions[d.current].content # job[p].content
      BY <1>2, <2>3, EffectFacts
    <3>2. /\ d.versions \in Seq(Versions) /\ d.edges \in Seq(Edges) /\ n \in Nat /\ n > 0
          /\ d.current = n /\ Len(d.edges) = n - 1
      BY <1>0, <2>3 DEF Docs, InOrder
    <3>3. /\ x.current = n + 1 /\ Len(x.versions) = n + 1 /\ Len(x.edges) = n
          /\ \A i \in 1 .. n : x.versions[i] = d.versions[i]
          /\ x.versions[n + 1].content = job[p].content
          /\ \A i \in 1 .. n - 1 : x.edges[i] = d.edges[i]
          /\ x.edges[n] = [from |-> n, to |-> n + 1]
      <4>1. Len(d.edges) + 1 = n
        BY <3>2, SMT
      <4>2. /\ x.current = d.current + 1
            /\ Len(x.versions) = Len(d.versions) + 1
            /\ Len(x.edges) = Len(d.edges) + 1
            /\ \A i \in 1 .. Len(d.versions) : x.versions[i] = d.versions[i]
            /\ x.versions[Len(d.versions) + 1] = [content |-> job[p].content, monitored |-> job[p].monitored]
            /\ \A i \in 1 .. Len(d.edges) : x.edges[i] = d.edges[i]
            /\ x.edges[Len(d.edges) + 1] = [from |-> d.current, to |-> d.current + 1]
        <5>1. d \in Docs /\ x = Extended(d, job[p].content, job[p].monitored)
          BY <1>0, <3>1
        <5> HIDE DEF d, x
        <5> QED BY <3>1, <5>1, ExtendedShape
      <4>3. /\ Len(d.versions) = n /\ d.current = n /\ Len(d.edges) = n - 1
        BY <3>2
      <4> HIDE DEF x, d, n
      <4>4. /\ x.current = n + 1 /\ Len(x.versions) = n + 1 /\ Len(x.edges) = n
            /\ \A i \in 1 .. n : x.versions[i] = d.versions[i]
            /\ x.versions[n + 1] = [content |-> job[p].content, monitored |-> job[p].monitored]
        BY <4>1, <4>2, <4>3
      <4>5. /\ \A i \in 1 .. n - 1 : x.edges[i] = d.edges[i]
            /\ x.edges[n] = [from |-> n, to |-> n + 1]
        BY <4>1, <4>2, <4>3
      <4> QED BY <4>4, <4>5
    <3>4. \A i \in 1 .. n - 1 :
             d.edges[i] = [from |-> i, to |-> i + 1] /\ d.versions[i].content # d.versions[i + 1].content
      BY <1>0, <3>2 DEF InOrder
    <3> HIDE DEF x, d, n
    <3>5. ASSUME NEW i \in 1 .. n
          PROVE  x.edges[i] = [from |-> i, to |-> i + 1] /\ x.versions[i].content # x.versions[i + 1].content
      <4>1. CASE i = n
        BY <3>1, <3>2, <3>3, <4>1
      <4>2. CASE i # n
        <5>1. i \in 1 .. n - 1 /\ i + 1 \in 1 .. n
          BY <3>2, <4>2, SMT
        <5> QED BY <3>3, <3>4, <5>1
      <4> QED BY <4>1, <4>2
    <3>6. InOrder(x) /\ Len(x.versions) > 0
      BY <3>2, <3>3, <3>5 DEF InOrder
    <3> QED BY <3>6 DEF x
  <2> QED BY <2>1, <2>2, <2>3
<1> QED BY <1>1, <1>2, StepEffect DEF IInv

LEMMA InitIInv == Init => IInv
<1> SUFFICES ASSUME Init PROVE IInv
  OBVIOUS
<1>1. TypeOK
  BY TypeInit
<1>2. SessionInv
  BY DEF Init, SessionInv, Session
<1>3. \A u \in Urls : docs[u] = NoDoc
  BY DEF Init
<1>4. Stored
  BY <1>3 DEF Stored, Exists
<1>5. VersionsInOrder
  BY <1>3 DEF VersionsInOrder, NoDoc
<1> QED BY <1>1, <1>2, <1>4, <1>5 DEF IInv

LEMMA IInvariant == Spec => []IInv
<1>1. IInv /\ [Next]_vars => IInv'
  BY TypeNext, SessionNext, OrderNext DEF IInv
<1> QED BY InitIInv, <1>1, PTL DEF Spec

-----------------------------------------------------------------------------
\* Rows, events and locals of every reachable state are well formed.
THEOREM TypeCorrect == Spec => []TypeOK
<1>1. IInv => TypeOK
  BY DEF IInv
<1> QED BY IInvariant, <1>1, PTL

\* However crawls of the same URL race, its versions are numbered without a
\* gap, each differs from the one before, and the changes join them.
THEOREM Ordered == Spec => []VersionsInOrder
<1>1. IInv => VersionsInOrder
  BY DEF IInv
<1> QED BY IInvariant, <1>1, PTL

\* One retry always turns the loser of a creation race into an update.
THEOREM RetryIsEnough == Spec => []RetrySuffices
<1>1. IInv => RetrySuffices
  BY DEF IInv, SessionInv, Session, RetrySuffices
<1> QED BY IInvariant, <1>1, PTL

-----------------------------------------------------------------------------
(***************************************************************************)
(* Events.                                                                 *)
(***************************************************************************)

\* One URL's part of EventsTellVersions.
Told(v, e) ==
    /\ \A i \in DOMAIN e :
         /\ e[i].version \in DOMAIN v /\ v[e[i].version].monitored
         /\ e[i].kind = "NEW" <=> e[i].version = 1
    /\ \A n \in DOMAIN v : v[n].monitored =>
         \E i \in DOMAIN e :
             e[i].version = n /\ \A k \in DOMAIN e : e[k].version = n => k = i

\* Appending a version, and an event for it when the crawl has a source.
LEMMA ToldAppend ==
    ASSUME NEW v, NEW w, NEW e \in Seq(Events), NEW f, NEW N \in Nat, NEW kind,
           kind \in {"NEW", "UPDATED"}, kind = "NEW" <=> N = 0,
           Told(v, e), DOMAIN v = 1 .. N, DOMAIN w = 1 .. (N + 1),
           \A i \in 1 .. N : w[i] = v[i],
           \/ w[N + 1].monitored /\ f = Append(e, [kind |-> kind, version |-> N + 1])
           \/ ~w[N + 1].monitored /\ f = e
    PROVE  Told(w, f)
<1> DEFINE x == [kind |-> kind, version |-> N + 1]
<1>0. x \in Events
  BY DEF Events
<1>1. \A i \in DOMAIN e : e[i].version \in 1 .. N
  BY DEF Told
<1>2. CASE ~w[N + 1].monitored /\ f = e
  <2>1. f = e
    BY <1>2
  <2>2. ASSUME NEW i \in DOMAIN e
        PROVE  /\ e[i].version \in DOMAIN w /\ w[e[i].version].monitored
               /\ e[i].kind = "NEW" <=> e[i].version = 1
    BY <1>1, <2>2, SMT DEF Told
  <2>3. ASSUME NEW n \in DOMAIN w, w[n].monitored
        PROVE  \E i \in DOMAIN e :
                  e[i].version = n /\ \A k \in DOMAIN e : e[k].version = n => k = i
    <3>1. n # N + 1
      BY <1>2, <2>3
    <3>2. n \in 1 .. N
      BY <3>1, SMT
    <3> QED BY <2>3, <3>2 DEF Told
  <2> QED BY <2>1, <2>2, <2>3 DEF Told
<1>3. CASE w[N + 1].monitored /\ f = Append(e, x)
  <2> DEFINE L == Len(e)
  <2>1. /\ f = Append(e, x) /\ L \in Nat /\ DOMAIN e = 1 .. L /\ DOMAIN f = 1 .. (L + 1)
        /\ \A i \in 1 .. L : f[i] = e[i]
        /\ f[L + 1] = x
    <3> HIDE DEF x
    <3> QED BY <1>0, <1>3 DEF x
  <2>2. x.version = N + 1 /\ x.kind = kind
    OBVIOUS
  <2> HIDE DEF x, L
  <2>3. ASSUME NEW i \in DOMAIN f
        PROVE  /\ f[i].version \in DOMAIN w /\ w[f[i].version].monitored
               /\ f[i].kind = "NEW" <=> f[i].version = 1
    <3>1. CASE i = L + 1
      <4>1. f[i].version = N + 1 /\ f[i].kind = kind
        BY <2>1, <2>2, <3>1
      <4>2. N + 1 \in DOMAIN w /\ (N + 1 = 1 <=> N = 0)
        BY SMT
      <4> QED BY <1>3, <4>1, <4>2
    <3>2. CASE i # L + 1
      <4>1. i \in DOMAIN e /\ f[i] = e[i]
        BY <2>1, <3>2, SMT
      <4> QED BY <1>1, <4>1, SMT DEF Told
    <3> QED BY <3>1, <3>2
  <2>4. ASSUME NEW n \in DOMAIN w, w[n].monitored
        PROVE  \E i \in DOMAIN f :
                  f[i].version = n /\ \A k \in DOMAIN f : f[k].version = n => k = i
    <3>1. CASE n = N + 1
      <4>1. \A k \in 1 .. L : f[k].version # n
        BY <1>1, <2>1, <3>1, SMT
      <4>2. L + 1 \in DOMAIN f /\ f[L + 1].version = n
        BY <2>1, <2>2, <3>1
      <4>3. \A k \in DOMAIN f : f[k].version = n => k = L + 1
        BY <2>1, <4>1, SMT
      <4> QED BY <4>2, <4>3
    <3>2. CASE n # N + 1
      <4>1. n \in DOMAIN v /\ v[n].monitored
        BY <2>4, <3>2, SMT
      <4>2. PICK i \in DOMAIN e :
                e[i].version = n /\ \A k \in DOMAIN e : e[k].version = n => k = i
        BY <4>1 DEF Told
      <4>3. i \in DOMAIN f /\ f[i].version = n
        BY <2>1, <4>2, SMT
      <4>4. ASSUME NEW k \in DOMAIN f, f[k].version = n PROVE k = i
        <5>1. k # L + 1
          BY <2>1, <2>2, <3>2, <4>4
        <5>2. k \in DOMAIN e /\ f[k] = e[k]
          BY <2>1, <5>1, SMT
        <5> QED BY <4>2, <4>4, <5>2
      <4> QED BY <4>3, <4>4
    <3> QED BY <3>1, <3>2
  <2> QED BY <2>3, <2>4 DEF Told
<1> QED BY <1>2, <1>3

LEMMA EventsNext == IInv /\ EventsTellVersions /\ [Next]_vars => EventsTellVersions'
<1> SUFFICES ASSUME IInv, EventsTellVersions, [Next]_vars, NEW u \in Urls
             PROVE  Told(docs'[u].versions, events'[u])
  BY DEF EventsTellVersions, Told
<1>0. Told(docs[u].versions, events[u]) /\ docs[u] \in Docs /\ InOrder(docs[u])
      /\ events[u] \in Seq(Events) /\ events \in [Urls -> Seq(Events)]
  BY DEF EventsTellVersions, Told, IInv, TypeOK, VersionsInOrder, InOrder
<1>1. CASE Silent
  BY <1>0, <1>1 DEF Silent
<1>2. ASSUME NEW p \in Pages, Effect(p) PROVE Told(docs'[u].versions, events'[u])
  <2>1. CASE Url(p) # u
    <3>1. docs'[u] = docs[u]
      BY <1>2, <2>1, EffectFacts
    <3>2. events'[u] = events[u]
      BY <1>0, <1>2, <2>1 DEF Effect, CommitNew, CommitUpdate, Announce, Url
    <3> QED BY <1>0, <3>1, <3>2
  <2>2. CASE Url(p) = u /\ docs[u] = NoDoc
    <3>1. CommitNew(p) /\ docs'[u] = job[p].copy /\ Inserted(p) /\ phase[p] # "idle"
          /\ job[p].monitored \in BOOLEAN /\ job[p].content \in Contents
      BY <1>2, <2>2, EffectFacts
    <3>2. docs'[u].versions = <<[content |-> job[p].content, monitored |-> job[p].monitored]>>
      BY <3>1 DEF Inserted
    <3>3. DOMAIN docs[u].versions = 1 .. 0 /\ DOMAIN docs'[u].versions = 1 .. (0 + 1)
          /\ docs'[u].versions[0 + 1].monitored = job[p].monitored
      BY <2>2, <3>2 DEF NoDoc
    <3>4. \/ job[p].monitored /\ events'[u] = Append(events[u], [kind |-> "NEW", version |-> 0 + 1])
          \/ ~job[p].monitored /\ events'[u] = events[u]
      BY <1>0, <2>2, <3>1 DEF CommitNew, Announce, Url
    <3>5. \A i \in 1 .. 0 : docs'[u].versions[i] = docs[u].versions[i]
      BY SMT
    <3> DEFINE v == docs[u].versions
               w == docs'[u].versions
               e == events[u]
               f == events'[u]
    <3>6. /\ Told(v, e) /\ e \in Seq(Events)
          /\ DOMAIN v = 1 .. 0 /\ DOMAIN w = 1 .. (0 + 1)
          /\ \A i \in 1 .. 0 : w[i] = v[i]
          /\ \/ w[0 + 1].monitored /\ f = Append(e, [kind |-> "NEW", version |-> 0 + 1])
             \/ ~w[0 + 1].monitored /\ f = e
      BY <1>0, <3>3, <3>4, <3>5
    <3> HIDE DEF v, w, e, f
    <3>7. Told(w, f)
      BY <3>6, ToldAppend
    <3> QED BY <3>7 DEF w, f
  <2>3. CASE Url(p) = u /\ docs[u] # NoDoc
    <3> DEFINE n == Len(docs[u].versions)
    <3>1. CommitUpdate(p) /\ job[p].copy = docs[u] /\ job[p].url = u
          /\ docs'[u] = Extended(docs[u], job[p].content, job[p].monitored)
          /\ job[p].monitored \in BOOLEAN /\ job[p].content \in Contents
      BY <1>2, <2>3, EffectFacts DEF Url
    <3>2. docs[u].versions \in Seq(Versions) /\ n \in Nat /\ DOMAIN docs[u].versions = 1 .. n
          /\ docs[u].current = n /\ n > 0
      BY <1>0, <2>3 DEF Docs, InOrder, IInv, Stored, Exists
    <3>3. docs'[u].versions = Append(docs[u].versions, [content |-> job[p].content, monitored |-> job[p].monitored])
      BY <3>1 DEF Extended
    <3>4. [content |-> job[p].content, monitored |-> job[p].monitored] \in Versions
      BY <3>1 DEF Versions
    <3>5. /\ DOMAIN docs'[u].versions = 1 .. (n + 1)
          /\ \A i \in 1 .. n : docs'[u].versions[i] = docs[u].versions[i]
          /\ docs'[u].versions[n + 1] = [content |-> job[p].content, monitored |-> job[p].monitored]
      BY <3>2, <3>3, <3>4
    <3>6. \/ job[p].monitored /\ events'[u] = Append(events[u], [kind |-> "UPDATED", version |-> n + 1])
          \/ ~job[p].monitored /\ events'[u] = events[u]
      BY <1>0, <3>1, <3>2 DEF CommitUpdate, Announce
    <3> DEFINE v == docs[u].versions
               w == docs'[u].versions
               e == events[u]
               f == events'[u]
    <3>7. "UPDATED" = "NEW" <=> n = 0
      BY <3>2, SMT
    <3>8. /\ Told(v, e) /\ e \in Seq(Events)
          /\ DOMAIN v = 1 .. n /\ DOMAIN w = 1 .. (n + 1)
          /\ \A i \in 1 .. n : w[i] = v[i]
          /\ \/ w[n + 1].monitored /\ f = Append(e, [kind |-> "UPDATED", version |-> n + 1])
             \/ ~w[n + 1].monitored /\ f = e
      BY <1>0, <3>2, <3>5, <3>6
    <3> HIDE DEF n, v, w, e, f
    <3>9. Told(w, f)
      BY <3>2, <3>7, <3>8, ToldAppend
    <3> QED BY <3>9 DEF w, f
  <2> QED BY <2>1, <2>2, <2>3
<1> QED BY <1>1, <1>2, StepEffect DEF IInv

\* Monitoring events and the versions monitoring crawls made are in step.
THEOREM EventsInStep == Spec => []EventsTellVersions
<1>1. Init => EventsTellVersions
  BY DEF Init, EventsTellVersions, NoDoc
<1>2. IInv /\ EventsTellVersions /\ [Next]_vars => EventsTellVersions'
  BY EventsNext
<1> QED BY IInvariant, <1>1, <1>2, PTL DEF Spec

-----------------------------------------------------------------------------
\* Every step of the sessions observes one content of one URL, or nothing.
THEOREM Refines == Spec => ImplementsHistory
<1> DEFINE H == [u \in Urls |-> [i \in 1 .. Len(docs[u].versions) |-> docs[u].versions[i].content]]
<1>1. Init => History!Init
  BY DEF Init, History!Init, NoDoc
<1>2. IInv /\ [Next]_vars => [History!Next]_H
  <2> SUFFICES ASSUME IInv, [Next]_vars PROVE [History!Next]_H
    OBVIOUS
  <2>1. CASE Silent
    BY <2>1 DEF Silent
  <2>2. ASSUME NEW p \in Pages, Effect(p) PROVE History!Next
    <3> DEFINE u == Url(p)
               c == job[p].content
               n == Len(docs[u].versions)
    <3>1. u \in Urls /\ docs[u] \in Docs /\ c \in Contents /\ InOrder(docs[u])
          /\ \A w \in Urls \ {u} : docs'[w] = docs[w]
          /\ phase[p] # "idle" /\ TypeOK
      BY <2>2, EffectFacts DEF IInv, VersionsInOrder, InOrder
    <3>2. docs[u].versions \in Seq(Versions) /\ n \in Nat
      BY <3>1 DEF Docs
    <3>3. /\ Len(docs'[u].versions) = n + 1
          /\ \A i \in 1 .. n : docs'[u].versions[i] = docs[u].versions[i]
          /\ docs'[u].versions[n + 1].content = c
          /\ n = 0 \/ docs[u].versions[n].content # c
      <4>1. CASE docs[u] = NoDoc /\ docs'[u] = job[p].copy /\ Inserted(p)
        <5>1. n = 0
          BY <4>1 DEF NoDoc
        <5>2. Len(docs'[u].versions) = 1 /\ docs'[u].versions[1].content = c
          <6>1. docs'[u].versions = <<[content |-> c, monitored |-> job[p].monitored]>>
            BY <4>1 DEF Inserted
          <6> QED BY <6>1
        <5> QED BY <5>1, <5>2, SMT
      <4>2. CASE /\ docs[u] # NoDoc
                 /\ docs'[u] = Extended(docs[u], job[p].content, job[p].monitored)
                 /\ docs[u].versions[docs[u].current].content # job[p].content
        <5>1. job[p].monitored \in BOOLEAN
          BY <2>2, EffectFacts
        <5>2. docs[u].current = n
          BY <3>1 DEF InOrder
        <5>3. /\ Len(docs'[u].versions) = n + 1
              /\ \A i \in 1 .. n : docs'[u].versions[i] = docs[u].versions[i]
              /\ docs'[u].versions[n + 1] = [content |-> c, monitored |-> job[p].monitored]
          <6> DEFINE d == docs[u]
                     x == docs'[u]
          <6>1. d \in Docs /\ x = Extended(d, c, job[p].monitored) /\ n = Len(d.versions) /\ c \in Contents
            BY <3>1, <4>2
          <6> HIDE DEF d, x, n, c
          <6>2. /\ Len(x.versions) = n + 1
                /\ \A i \in 1 .. n : x.versions[i] = d.versions[i]
                /\ x.versions[n + 1] = [content |-> c, monitored |-> job[p].monitored]
            BY <5>1, <6>1, ExtendedShape
          <6> QED BY <6>2 DEF d, x
        <5> QED BY <4>2, <5>2, <5>3
      <4> QED BY <2>2, <4>1, <4>2, EffectFacts
    <3>4. H'[u] = Append(H[u], c)
      <4>1. H'[u] = [i \in 1 .. n + 1 |-> docs'[u].versions[i].content]
        BY <3>1, <3>3
      <4>2. H[u] = [i \in 1 .. n |-> docs[u].versions[i].content]
        BY <3>1
      <4>3. H[u] \in Seq(Contents) /\ Len(H[u]) = n
        <5>0. \A i \in 1 .. n : docs[u].versions[i] \in Versions
          BY <3>2
        <5>1. \A i \in 1 .. n : docs[u].versions[i].content \in Contents
          <6> HIDE DEF H, n, u
          <6> QED BY <5>0 DEF Versions
        <5> HIDE DEF H, n, u
        <5>2. H[u] \in [1 .. n -> Contents]
          BY <4>2, <5>1
        <5> QED BY <3>2, <5>2
      <4> HIDE DEF H, u, c, n
      <4>4. \A i \in 1 .. n : H'[u][i] = H[u][i]
        BY <3>2, <3>3, <4>1, <4>2
      <4>5. H'[u][n + 1] = c
        BY <3>2, <3>3, <4>1
      <4>6. Append(H[u], c) = [i \in 1 .. n + 1 |-> IF i = n + 1 THEN c ELSE H[u][i]]
        BY <3>1, <3>2, <4>3
      <4>7. \A i \in 1 .. n + 1 : docs'[u].versions[i].content = IF i = n + 1 THEN c ELSE H[u][i]
        BY <3>2, <3>3, <4>2
      <4> QED BY <4>1, <4>6, <4>7
    <3>5. H' = [H EXCEPT ![u] = Append(H[u], c)]
      <4>1. \A w \in Urls \ {u} : H'[w] = H[w]
        BY <3>1
      <4>2. DOMAIN H = Urls /\ DOMAIN H' = Urls
        OBVIOUS
      <4>3. H = [w \in Urls |-> H[w]] /\ H' = [w \in Urls |-> H'[w]]
        OBVIOUS
      <4> HIDE DEF H, u, c, n
      <4> QED BY <3>1, <3>4, <4>1, <4>2, <4>3
    <3>6. H[u] = <<>> \/ H[u][Len(H[u])] # c
      <4>1. H[u] = [i \in 1 .. n |-> docs[u].versions[i].content]
        BY <3>1
      <4>2. Len(H[u]) = n
        BY <3>2, <4>1
      <4>3. CASE n = 0
        BY <4>1, <4>3
      <4>4. CASE n # 0
        <5>1. n \in 1 .. n
          BY <3>2, <4>4, SMT
        <5> QED BY <3>3, <4>1, <4>2, <4>4, <5>1
      <4> QED BY <4>3, <4>4
    <3> HIDE DEF u, c, n
    <3> QED BY <3>1, <3>5, <3>6 DEF History!Next, History!Observe, History!Latest
  <2> QED BY <2>1, <2>2, StepEffect DEF IInv
<1> QED BY IInvariant, <1>1, <1>2, PTL DEF Spec, ImplementsHistory, History!Spec
=============================================================================
