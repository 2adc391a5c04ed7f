------------------------------ MODULE StoryLinking ------------------------------
(***************************************************************************)
(* Page tasks that link the documents they have stored to entities and     *)
(* stories.  A task resolves the names of its document one after another,  *)
(* each time taking row locks that it keeps until it commits, looks for a  *)
(* story without any lock, and attaches the document in one transaction.   *)
(* Tasks may wait for each other in a circle; the database then rolls one  *)
(* of them back, the error is swallowed and the session is used again.     *)
(***************************************************************************)
EXTENDS Matching, Sequences

CONSTANTS
    Docs,       \* stored documents
    Domain,     \* the domain of each document
    Extracts,   \* for each document the sequences of names its texts may give
    Stories,    \* identities of stories
    Pages,      \* page tasks
    Texts,      \* similarities of texts and times that occur
    NoOne

ASSUME LinkingAssumption ==
    /\ Extracts \in [Docs -> SUBSET Seq(Names)] /\ Texts \subseteq Percents
    /\ NoOne \notin Pages \cup Docs \cup Stories \cup Names
    /\ Docs \cap Stories = {} /\ Docs \cap Names = {} /\ Stories \cap Names = {}

VARIABLES
    \* The database, committed.
    rows,       \* how many entity rows each name has
    aliases,    \* pairs of an alias and its entity
    mentions,   \* Document.entity_mentions: entities
    attached,   \* Document.attached_story_id
    story,      \* Story.story_documents and .story_entities
    holder,     \* the transaction that has each row locked or inserted
    \* The page tasks.
    phase,      \* progress
    doc,        \* the document
    names,      \* the names found in it
    at,         \* the number of names done with
    cache,      \* type_cache
    subject,    \* what has been decided for the present name
    wants,      \* rows to lock, in this order
    created,    \* entity rows inserted, not committed
    also,       \* alias pairs added, not committed
    resolved,   \* entities of the document, whose mentions are not committed
    chosen,     \* the story
    listed      \* its documents, as read under its lock

dbVars   == <<rows, aliases, mentions, attached, story>>
nameVars == <<names, at, cache, subject>>
ownVars  == <<created, also, resolved>>
linkVars == <<chosen, listed>>
vars     == <<dbVars, holder, phase, doc, nameVars, wants, ownVars, linkVars>>

Rows == Names \cup Docs \cup Stories

Phases == {"idle", "resolving", "locking", "attaching", "rest", "aborted", "raised"}

Subjects == [action : {"none", "MERGE", "NEW_ALIAS", "NEW_ENTITY"}, entity : Names \cup {NoOne}]

NoSubject == [action |-> "none", entity |-> NoOne]

\* The names and aliases that are known with their entities, persons with
\* the names they have occurred with, the types these are filled for.
Caches == [known : SUBSET (Names \X Names), context : SUBSET (Names \X Names), loaded : SUBSET Kinds]

NoCache == [known |-> {}, context |-> {}, loaded |-> {}]

TypeOK ==
    /\ rows \in [Names -> Nat]
    /\ aliases \subseteq Names \X Names
    /\ mentions \in [Docs -> SUBSET Names]
    /\ attached \in [Docs -> Stories \cup {NoOne}]
    /\ story \in [Stories -> [docs : SUBSET Docs, names : SUBSET Names]]
    /\ holder \in [Rows -> Pages \cup {NoOne}]
    /\ phase \in [Pages -> Phases]
    /\ doc \in [Pages -> Docs \cup {NoOne}]
    /\ names \in [Pages -> Seq(Names)] /\ at \in [Pages -> Nat]
    /\ cache \in [Pages -> Caches]
    /\ subject \in [Pages -> Subjects]
    /\ wants \in [Pages -> Seq(Rows)]
    /\ created \in [Pages -> SUBSET Names]
    /\ also \in [Pages -> SUBSET (Names \X Names)]
    /\ resolved \in [Pages -> SUBSET Names]
    /\ chosen \in [Pages -> Stories \cup {NoOne}]
    /\ listed \in [Pages -> SUBSET Docs]

Elements(s) == {s[i] : i \in DOMAIN s}

Goto(p, ph) == phase' = [phase EXCEPT ![p] = ph]

\* Broken: rows of stories stay locked.
ReleaseNames(p) == holder' = [r \in Rows |-> IF holder[r] = p /\ r \notin Stories THEN NoOne ELSE holder[r]]

\* Commit, rollback and closing the session release every lock.
Release(p) == holder' = [r \in Rows |-> IF holder[r] = p THEN NoOne ELSE holder[r]]

ClearNames(p) ==
    /\ names' = [names EXCEPT ![p] = <<>>]
    /\ at' = [at EXCEPT ![p] = 0]
    /\ cache' = [cache EXCEPT ![p] = NoCache]
    /\ subject' = [subject EXCEPT ![p] = NoSubject]

ClearOwn(p) ==
    /\ created' = [created EXCEPT ![p] = {}]
    /\ also' = [also EXCEPT ![p] = {}]
    /\ resolved' = [resolved EXCEPT ![p] = {}]

ClearLink(p) ==
    /\ chosen' = [chosen EXCEPT ![p] = NoOne]
    /\ listed' = [listed EXCEPT ![p] = {}]

-----------------------------------------------------------------------------
(***************************************************************************)
(* Names.                                                                  *)
(***************************************************************************)

Live == {s \in Stories : story[s].docs # {}}

Unused == {s \in Stories \ Live : \A q \in Pages : chosen[q] # s}

\* Bound: as many stories are left as tasks may found.
StoryLeft == Cardinality(Unused) > Cardinality({q \in Pages : phase[q] \in {"resolving", "locking"}})

\* A document is new or has changed.  In a monitoring crawl add_event has
\* committed it; in an instant crawl its row is still locked.
Begin(p) ==
    /\ phase[p] = "idle" /\ StoryLeft
    /\ \E d \in Docs : \E found \in Extracts[d] :
         /\ holder[d] = NoOne
         /\ \E monitored \in BOOLEAN :
              holder' = IF monitored THEN holder ELSE [holder EXCEPT ![d] = p]
         /\ doc' = [doc EXCEPT ![p] = d]
         /\ names' = [names EXCEPT ![p] = found]
    /\ Goto(p, "resolving")
    /\ UNCHANGED <<dbVars, at, cache, subject, wants, ownVars, linkVars>>

\* The name whose turn it is.
Present(p) == names[p][at[p] + 1]

\* The other entities of the documents that mention e.
ContextNames(e) == UNION {mentions[d] : d \in {x \in Docs : e \in mentions[x]}} \ {e}

\* type_cache is filled when the first name of a type comes up: all its
\* entities, their aliases and, which matters for persons only, contexts.
FilledCache(p) ==
    LET kind  == KindOf(Present(p))
        found == {n \in Names : rows[n] > 0 /\ KindOf(n) = kind}
        c     == cache[p]
    IN  IF kind \in c.loaded THEN c
        ELSE [known   |-> c.known \cup {<<e, e>> : e \in found} \cup {a \in aliases : a[2] \in found},
              context |-> c.context \cup UNION {{e} \X ContextNames(e) : e \in found \cap Persons},
              loaded  |-> c.loaded \cup {kind}]

\* The persons that have occurred before with another name of this document.
Backed(p, c) ==
    {e \in Persons : \E n \in Elements(names[p]) \ {Present(p)} : <<e, n>> \in c.context}

\* What a decision locks, in this order.  A merge locks the entity only if
\* it moves last_seen_at.
LockPlans(p, d) ==
    {<<d.entity, doc[p]>>} \cup (IF d.action = "MERGE" THEN {<<doc[p]>>} ELSE {})

Resolve(p) ==
    LET c == FilledCache(p) IN
    /\ phase[p] = "resolving" /\ at[p] < Len(names[p])
    /\ cache' = [cache EXCEPT ![p] = c]
    /\ \E d \in ResolveEntity(Present(p), c.known, Backed(p, c)) :
         /\ subject' = [subject EXCEPT ![p] = d]
         /\ \E plan \in LockPlans(p, d) : wants' = [wants EXCEPT ![p] = plan]
    /\ Goto(p, "locking")
    /\ UNCHANGED <<dbVars, holder, doc, names, at, ownVars, linkVars>>

\* Broken: a row is inserted because the cache did not have the name.
InsertUnseen(p, r) == r \in Names /\ subject[p].action = "NEW_ENTITY" /\ r \notin created[p]

\* ON CONFLICT DO NOTHING, after having waited for whoever inserts the same
\* name: a row is inserted if there is none.
Inserts(p, r) ==
    /\ r \in Names /\ subject[p].action = "NEW_ENTITY"
    /\ r \notin created[p] /\ rows[r] = 0

\* Broken: the story is read without its lock.
LockOrRead(p) ==
    LET r == Head(wants[p]) IN
    /\ wants[p] # <<>> /\ (r \in Stories \/ holder[r] \in {NoOne, p})
    /\ holder' = [holder EXCEPT ![r] = IF r \in Stories /\ @ # NoOne THEN @ ELSE p]
    /\ wants' = [wants EXCEPT ![p] = Tail(@)]
    /\ created' = IF Inserts(p, r) THEN [created EXCEPT ![p] = @ \cup {r}] ELSE created
    /\ cache' = IF Inserts(p, r) THEN [cache EXCEPT ![p].known = @ \cup {<<r, r>>}] ELSE cache
    /\ listed' = IF r \in Stories THEN [listed EXCEPT ![p] = story[r].docs] ELSE listed
    /\ UNCHANGED <<dbVars, phase, doc, names, at, subject, also, resolved, chosen>>

\* A row lock is granted and the row is read afresh.
Lock(p) ==
    LET r == Head(wants[p]) IN
    /\ wants[p] # <<>> /\ holder[r] \in {NoOne, p}
    /\ holder' = [holder EXCEPT ![r] = p]
    /\ wants' = [wants EXCEPT ![p] = Tail(@)]
    /\ created' = IF Inserts(p, r) THEN [created EXCEPT ![p] = @ \cup {r}] ELSE created
    /\ cache' = IF Inserts(p, r) THEN [cache EXCEPT ![p].known = @ \cup {<<r, r>>}] ELSE cache
    /\ listed' = IF r \in Stories THEN [listed EXCEPT ![p] = story[r].docs] ELSE listed
    /\ UNCHANGED <<dbVars, phase, doc, names, at, subject, also, resolved, chosen>>

\* add_mention, and the alias.
Record(p) ==
    /\ phase[p] = "locking" /\ wants[p] = <<>>
    /\ resolved' = [resolved EXCEPT ![p] = @ \cup {subject[p].entity}]
    /\ also' = [also EXCEPT ![p] =
         IF subject[p].action = "NEW_ALIAS" THEN @ \cup {<<Present(p), subject[p].entity>>} ELSE @]
    /\ at' = [at EXCEPT ![p] = @ + 1]
    /\ subject' = [subject EXCEPT ![p] = NoSubject]
    /\ Goto(p, "resolving")
    /\ UNCHANGED <<dbVars, holder, doc, names, cache, wants, created, linkVars>>

-----------------------------------------------------------------------------
(***************************************************************************)
(* The story.                                                              *)
(***************************************************************************)

\* Stories inside the time window: those that share an entity, else all.
CandidateStories(p, recent) ==
    LET sharing == {s \in recent : story[s].names \cap resolved[p] # {}}
    IN  IF sharing # {} THEN sharing ELSE recent

\* Whether s may be what score_candidate chooses.
Matches(p, s, text, near) ==
    Attaches(resolved[p], story[s].names, text, near,
             SourceSimilarity(Domain[doc[p]], {Domain[d] : d \in story[s].docs}))

\* All of this reads what others have committed, and locks nothing.  Of the
\* stories that match the best is taken, any if that depends on the texts.
ChooseStory(p) ==
    /\ phase[p] = "resolving" /\ at[p] = Len(names[p]) /\ resolved[p] # {}
    /\ \E recent \in SUBSET Live : \E text, near \in [Live -> Texts] :
         LET matching == {s \in CandidateStories(p, recent) : Matches(p, s, text[s], near[s])} IN
         \E s \in Stories :
            /\ IF matching # {} THEN s \in matching
               ELSE s \in Unused
            /\ chosen' = [chosen EXCEPT ![p] = s]
            /\ wants' = [wants EXCEPT ![p] = <<s, doc[p]>>]
    /\ ClearNames(p)
    /\ Goto(p, "attaching")
    /\ UNCHANGED <<dbVars, holder, doc, ownVars, listed>>

\* No entities: nothing to correlate.
NothingToLink(p) ==
    /\ phase[p] = "resolving" /\ at[p] = Len(names[p]) /\ resolved[p] = {}
    /\ ClearNames(p)
    /\ Goto(p, "rest")
    /\ UNCHANGED <<dbVars, holder, doc, wants, ownVars, linkVars>>

\* Broken: the mentions of the present text replace the earlier ones.
PublishLatestNames(p) ==
    /\ rows' = [n \in Names |-> IF n \in created[p] THEN rows[n] + 1 ELSE rows[n]]
    /\ aliases' = aliases \cup also[p]
    /\ mentions' = [mentions EXCEPT ![doc[p]] = resolved[p]]

\* What a transaction has written of names becomes visible.
PublishNames(p) ==
    /\ rows' = [n \in Names |-> IF n \in created[p] THEN rows[n] + 1 ELSE rows[n]]
    /\ aliases' = aliases \cup also[p]
    /\ mentions' = [mentions EXCEPT ![doc[p]] = @ \cup resolved[p]]

\* attach_document_to_story writes the lists of the story, which it has read
\* under its lock, and the document, and commits.
Attach(p) ==
    /\ phase[p] = "attaching" /\ wants[p] = <<>>
    /\ PublishNames(p)
    /\ story' = [story EXCEPT ![chosen[p]] =
         [docs |-> listed[p] \cup {doc[p]}, names |-> @.names \cup resolved[p]]]
    /\ attached' = [attached EXCEPT ![doc[p]] = chosen[p]]
    /\ ClearOwn(p) /\ ClearLink(p)
    /\ Release(p)
    /\ Goto(p, "rest")
    /\ UNCHANGED <<doc, nameVars, wants>>

-----------------------------------------------------------------------------
(***************************************************************************)
(* Failures, and the rest of the page.                                     *)
(***************************************************************************)

\* An exception that the database has no part in, of an extractor or because
\* a document without a date is compared with a time zone: swallowed.  What
\* has been written stays in the transaction.
Fails(p) ==
    /\ phase[p] = "resolving"
    /\ ClearNames(p)
    /\ Goto(p, "rest")
    /\ UNCHANGED <<dbVars, holder, doc, wants, ownVars, linkVars>>

\* The page records its outcome and commits, with what is left of this.
Rest(p) ==
    /\ phase[p] = "rest"
    /\ PublishNames(p)
    /\ ClearOwn(p)
    /\ doc' = [doc EXCEPT ![p] = NoOne]
    /\ Release(p)
    /\ Goto(p, "idle")
    /\ UNCHANGED <<attached, story, nameVars, wants, linkVars>>

WaitsFor(p) == IF wants[p] = <<>> THEN NoOne ELSE holder[Head(wants[p])]

InCircle(p) == \E S \in SUBSET Pages : p \in S /\ {WaitsFor(q) : q \in S} = S /\ S # {p}

\* The database rolls back one of those that wait for each other.
Victim(p) ==
    /\ InCircle(p)
    /\ ClearNames(p) /\ ClearOwn(p) /\ ClearLink(p)
    /\ wants' = [wants EXCEPT ![p] = <<>>]
    /\ Release(p)
    /\ Goto(p, "aborted")
    /\ UNCHANGED <<dbVars, doc>>

\* The error has been swallowed, the transaction is still the one that
\* failed: the next statement of the page is refused.
NextStatement(p) ==
    /\ phase[p] = "aborted"
    /\ Goto(p, "raised")
    /\ UNCHANGED <<dbVars, holder, doc, nameVars, wants, ownVars, linkVars>>

\* The exception leaves the page, and then run_crawl.
Raise(p) ==
    /\ phase[p] = "raised"
    /\ doc' = [doc EXCEPT ![p] = NoOne]
    /\ Goto(p, "idle")
    /\ UNCHANGED <<dbVars, holder, nameVars, wants, ownVars, linkVars>>

-----------------------------------------------------------------------------
Init ==
    /\ rows = [n \in Names |-> 0] /\ aliases = {}
    /\ mentions = [d \in Docs |-> {}] /\ attached = [d \in Docs |-> NoOne]
    /\ story = [s \in Stories |-> [docs |-> {}, names |-> {}]]
    /\ holder = [r \in Rows |-> NoOne]
    /\ phase = [p \in Pages |-> "idle"] /\ doc = [p \in Pages |-> NoOne]
    /\ names = [p \in Pages |-> <<>>] /\ at = [p \in Pages |-> 0]
    /\ cache = [p \in Pages |-> NoCache] /\ subject = [p \in Pages |-> NoSubject]
    /\ wants = [p \in Pages |-> <<>>]
    /\ created = [p \in Pages |-> {}] /\ also = [p \in Pages |-> {}]
    /\ resolved = [p \in Pages |-> {}]
    /\ chosen = [p \in Pages |-> NoOne] /\ listed = [p \in Pages |-> {}]

Work(p) ==
    \/ Resolve(p) \/ Record(p)
    \/ ChooseStory(p) \/ NothingToLink(p) \/ Attach(p)
    \/ Rest(p) \/ Victim(p) \/ NextStatement(p) \/ Raise(p)

Next == \E p \in Pages : Begin(p) \/ Lock(p) \/ Fails(p) \/ Work(p)

Spec == Init /\ [][Next]_vars

\* The event loop resumes every task, the database grants row locks in the
\* order of arrival and finds every circle of waiting.
FairSpec == Spec /\ \A p \in Pages : WF_vars(Work(p)) /\ SF_vars(Lock(p))

-----------------------------------------------------------------------------
(***************************************************************************)
(* Properties.                                                             *)
(***************************************************************************)

\* intelligence_repository.py:50: tasks that resolve the same new name at the
\* same time, from caches that both lack it, make one row, and no mention is
\* left without its entity by a task that was rolled back.
OneEntityPerName ==
    \A n \in Names : /\ rows[n] <= 1
                     /\ (\E d \in Docs : n \in mentions[d]) => rows[n] = 1

\* A story's list of documents is one value that every task rewrites whole
\* after having chosen the story unlocked: no document is lost from it, so
\* whatever story a document names, names it.
AttachedIsListed ==
    \A d \in Docs : attached[d] # NoOne => d \in story[attached[d]].docs

\* Nothing is in a story that none of its documents says: entities and
\* documents of a story come in the same transaction as the mentions.
StoriesAreFounded ==
    \A s \in Stories : story[s].names \subseteq UNION {mentions[d] : d \in story[s].docs}

\* However similar the texts, a document is only ever attached to a story it
\* shares an entity with, although the stories without one are candidates too
\* when no other is recent.
CommonGround ==
    \A p \in Pages : chosen[p] \in Live => resolved[p] \cap story[chosen[p]].names # {}

\* Tasks lock entities in the order their texts name them, but nobody waits
\* for ever.
PagesEnd == \A p \in Pages : []<>(phase[p] = "idle")
=============================================================================
